---------------------------- MODULE ChannelRouter ----------------------------
(* The channels of one workflow run and the gates on them                      *)
(* (packages/daemon/src/lib/space/runtime/channel-router.ts): how a message of *)
(* one agent reaches the node of another, how gate data opens a channel, and   *)
(* how a cyclic channel counts its traversals and resets the gates.            *)
(*                                                                             *)
(* The daemon is one thread: a call runs until its next `await`. `turn` is the *)
(* call that has not awaited yet; no other call moves meanwhile. Every sender  *)
(* has a router of its own, the rows of the database are shared. Gate data is  *)
(* reduced to whether it satisfies the gate; a node to whether it has an       *)
(* active execution. Archived tasks, edits of the workflow and auto-approval   *)
(* are left out.                                                               *)
EXTENDS Naturals

CONSTANTS
    Agents,     \* agents that send messages
    Human,      \* the RPC approveGate of a human
    Channels,   \* channels of the workflow, each with a target node of its own
    Gates,      \* gates of the workflow, each on one channel
    GateOf,     \* the gate of a channel, or Nil
    Cyclic,     \* channels that lead back (isChannelCyclic)
    Resets,     \* gates with resetOnCycle
    MaxCycles,  \* channel.maxCycles
    Nil

ASSUME CycleAssumption ==
    /\ MaxCycles \in Nat \ {0} /\ Cyclic \subseteq Channels
    /\ GateOf \in [Channels -> Gates \cup {Nil}]
    /\ Resets \subseteq Gates /\ Nil \notin Gates
    /\ Nil \notin Channels /\ Nil \notin Agents \cup {Human}
    /\ \A g \in Gates : \E c \in Channels : GateOf[c] = g

(* The workflows of built-in-workflows.ts give every gate a channel of its own. *)
ASSUME OneChannelPerGate ==
    \A c, d \in Channels : GateOf[c] = GateOf[d] /\ GateOf[c] # Nil => c = d

VARIABLES
    runs,     \* run.status
    data,     \* gate_data: the data of the gate satisfies it
    cached,   \* gate_open_state: the gate was seen open
    count,    \* channel_cycles.count
    live,     \* the target of the channel has an active execution
    call,     \* what every caller is doing
    turn,     \* the caller that holds the thread, or Nil
    \* history
    trips,    \* messages through a channel since a human last wrote
    owed      \* gates that were opened and whose target was not started since

rvars == <<runs, data, cached, count, live, call, turn, trips, owed>>

Callers == Agents \cup {Human}

(* kind: deliverMessage or onGateDataChanged; vote: the message carries gate   *)
(* data; read: the gate data the running evaluation was given; saw: the gate   *)
(* was open at some moment of this delivery.                                   *)
Idle == [pc |-> "idle", kind |-> "none", chan |-> Nil, vote |-> FALSE,
         read |-> FALSE, saw |-> FALSE]
Pcs == {"idle", "enter", "first", "activate", "reopened", "recheck", "second", "finish"}
Calls == [pc : Pcs, kind : {"none", "deliver", "notify"}, chan : Channels \cup {Nil},
          vote : BOOLEAN, read : BOOLEAN, saw : BOOLEAN]

RouterInit ==
    /\ runs = "in_progress" /\ turn = Nil
    /\ data = [g \in Gates |-> FALSE] /\ cached = [g \in Gates |-> FALSE]
    /\ count = [c \in Channels |-> 0] /\ trips = [c \in Channels |-> 0]
    /\ live = [c \in Channels |-> FALSE]
    /\ call = [p \in Callers |-> Idle]
    /\ owed = {}

-----------------------------------------------------------------------------
(* ---- what the calls share ---- *)

MayRun(p) == turn \in {Nil, p}
Gated(c) == GateOf[c] # Nil
ChannelOf(g) == CHOOSE c \in Channels : GateOf[c] = g
CapReached(c) == c \in Cyclic /\ count[c] >= MaxCycles

NeverMust(c) == FALSE \* mutant: a cached gate is trusted on a cyclic channel, too

(* Of gates without a script: those of a template that have one are evaluated  *)
(* every time, and never skipped.                                              *)
MustReevaluate(c) == c \in Cyclic /\ GateOf[c] \in Resets
Skips(c) == cached[GateOf[c]] /\ ~MustReevaluate(c)

CapAtEntry(c) == FALSE \* mutant: the counter moves without looking at the cap again

(* incrementCycleCount: the update has the cap in its WHERE. *)
Refused(c) == count[c] >= MaxCycles

(* The gates of the channels in C are not owed any more. *)
Paid(C) == {g \in owed : ChannelOf(g) \notin C}

(* A gate that opens is seen open by every delivery over its channel. *)
Witnessed(calls, g) ==
    [p \in Callers |-> [calls[p] EXCEPT !.saw =
        @ \/ (calls[p].chan # Nil /\ GateOf[calls[p].chan] = g)]]

SeenOpen(p) == call[p].saw \/ data[GateOf[call[p].chan]]

At(p, pc) == call[p].pc = pc /\ MayRun(p)
To(p, pc) == call' = [call EXCEPT ![p].pc = pc]

(* send_message announces the gate data it wrote once its delivery ended,      *)
(* delivered or not.                                                           *)
Return(p) ==
    /\ call' = [call EXCEPT ![p] = IF call[p].vote
            THEN [Idle EXCEPT !.pc = "enter", !.kind = "notify", !.chan = call[p].chan]
            ELSE Idle]
    /\ turn' = Nil

Evict == cached' = [g \in Gates |-> FALSE]
EvictIfEnded == IF runs = "in_progress" THEN UNCHANGED cached ELSE Evict

-----------------------------------------------------------------------------
(* ---- one call, from await to await ---- *)

(* The agent's send_message: gate data is written before the message is        *)
(* routed, and the router is entered only after an await.                      *)
Send(p, c, vote) ==
    LET g == GateOf[c]
        begun == [call EXCEPT ![p] = [Idle EXCEPT !.pc = "enter", !.kind = "deliver",
                                                  !.chan = c, !.vote = vote]]
    IN  /\ p \in Agents /\ turn = Nil /\ call[p] = Idle
        /\ IF vote /\ Gated(c)
           THEN /\ data' = [data EXCEPT ![g] = TRUE]
                /\ call' = Witnessed(begun, g)
                /\ owed' = IF data[g] \/ live[c] \/ CapReached(c) THEN owed ELSE owed \cup {g}
           ELSE /\ call' = [begun EXCEPT ![p].vote = FALSE]
                /\ UNCHANGED <<data, owed>>
        /\ UNCHANGED <<runs, cached, count, live, turn, trips>>

(* deliverMessage up to the first evaluation: the cap, then the gate. *)
Enter(p) ==
    LET c == call[p].chan IN
    /\ At(p, "enter") /\ call[p].kind = "deliver"
    /\ EvictIfEnded
    /\ CASE CapReached(c) -> Return(p)
         [] ~CapReached(c) /\ (~Gated(c) \/ (Skips(c) /\ runs = "in_progress")) ->
                To(p, "activate") /\ turn' = p
         [] OTHER -> /\ call' = [call EXCEPT ![p] = [@ EXCEPT !.pc = "first",
                                    !.read = data[GateOf[c]], !.saw = SeenOpen(p)]]
                     /\ turn' = Nil
    /\ UNCHANGED <<runs, data, count, live, trips, owed>>

(* onGateDataChanged up to the evaluation. *)
Notice(p) ==
    /\ At(p, "enter") /\ call[p].kind = "notify"
    /\ EvictIfEnded
    /\ call' = [call EXCEPT ![p] = [@ EXCEPT !.pc = "first", !.read = data[GateOf[call[p].chan]]]]
    /\ turn' = Nil
    /\ UNCHANGED <<runs, data, count, live, trips, owed>>

(* An evaluation ends, with the data it was started with. *)
Evaluated(p, from, to) ==
    /\ At(p, from)
    /\ IF call[p].read
       THEN /\ cached' = [cached EXCEPT ![GateOf[call[p].chan]] = TRUE]
            /\ To(p, to) /\ turn' = p
       ELSE Return(p) /\ UNCHANGED cached
    /\ UNCHANGED <<runs, data, count, live, trips, owed>>

NothingWhileBlocked(c) == \* mutant: a blocked run starts no node
    CapReached(c) \/ live[c] \/ runs = "blocked"

NothingToStart(c) == CapReached(c) \/ live[c]

AfterActivation(p) == IF call[p].kind = "deliver" THEN "recheck" ELSE "finish"

(* The target is started unless it is active; an ended run is reopened first,  *)
(* which awaits the subscribers of the event.                                  *)
Activate(p) ==
    LET c == call[p].chan IN
    /\ At(p, "activate")
    /\ IF call[p].kind = "notify" /\ NothingToStart(c)
       THEN Return(p) /\ UNCHANGED <<runs, cached, live, owed>>
       ELSE IF live[c]
       THEN To(p, "recheck") /\ turn' = p /\ UNCHANGED <<runs, cached, live, owed>>
       ELSE IF runs = "done"
       THEN /\ runs' = "in_progress" /\ Evict
            /\ To(p, "reopened") /\ turn' = Nil /\ UNCHANGED <<live, owed>>
       ELSE /\ live' = [live EXCEPT ![c] = TRUE] /\ owed' = Paid({c})
            /\ To(p, AfterActivation(p)) /\ turn' = Nil
            /\ UNCHANGED <<runs, cached>>
    /\ UNCHANGED <<data, count, trips>>

Reopened(p) ==
    LET c == call[p].chan IN
    /\ At(p, "reopened")
    /\ live' = [live EXCEPT ![c] = TRUE] /\ owed' = Paid({c})
    /\ To(p, AfterActivation(p)) /\ turn' = Nil
    /\ UNCHANGED <<runs, data, cached, count, trips>>

(* deliverMessage looks at the gate again after the activation. *)
Recheck(p) ==
    LET c == call[p].chan IN
    /\ At(p, "recheck")
    /\ IF ~Gated(c) \/ Skips(c)
       THEN To(p, "finish") /\ turn' = p
       ELSE /\ call' = [call EXCEPT ![p].pc = "second", ![p].read = data[GateOf[c]]]
            /\ turn' = Nil
    /\ UNCHANGED <<runs, data, cached, count, live, trips, owed>>

(* incrementAndResetCyclicChannel: the gates are reset and forgotten even when *)
(* the counter refuses.                                                        *)
Finish(p) ==
    LET c == call[p].chan IN
    /\ At(p, "finish")
    /\ IF c \in Cyclic
       THEN /\ data' = [g \in Gates |-> data[g] /\ g \notin Resets]
            /\ cached' = [g \in Gates |-> cached[g] /\ g \notin Resets]
            /\ IF Refused(c) THEN UNCHANGED <<count, trips>>
               ELSE /\ count' = [count EXCEPT ![c] = @ + 1]
                    /\ trips' = [trips EXCEPT ![c] = @ + 1]
            /\ owed' = owed \ Resets
       ELSE UNCHANGED <<data, cached, count, trips, owed>>
    /\ Return(p)
    /\ UNCHANGED <<runs, live>>

-----------------------------------------------------------------------------
(* ---- the rest of the run ---- *)

(* approveGate with `approved`: only a run that was rejected is resumed. *)
ApproveGate(g) ==
    /\ turn = Nil /\ call[Human] = Idle
    /\ runs # "done" /\ ~data[g]
    /\ runs' = "in_progress"
    /\ data' = [data EXCEPT ![g] = TRUE]
    /\ call' = Witnessed([call EXCEPT ![Human] = [Idle EXCEPT !.pc = "enter",
                          !.kind = "notify", !.chan = ChannelOf(g)]], g)
    /\ owed' = IF live[ChannelOf(g)] \/ CapReached(ChannelOf(g)) THEN owed ELSE owed \cup {g}
    /\ UNCHANGED <<cached, count, live, turn, trips>>

(* approveGate without: the run is blocked, which forgets what was open. *)
RejectGate(g) ==
    /\ turn = Nil /\ runs # "done"
    /\ runs' = "blocked"
    /\ data' = [data EXCEPT ![g] = FALSE]
    /\ cached' = IF runs = "blocked" THEN cached ELSE [h \in Gates |-> FALSE]
    /\ owed' = owed \ {g}
    /\ UNCHANGED <<count, live, call, turn, trips>>

(* A message of a human to the task: every cycle counter starts again. *)
HumanTouch ==
    /\ turn = Nil
    /\ count' = [c \in Channels |-> 0] /\ trips' = [c \in Channels |-> 0]
    /\ UNCHANGED <<runs, data, cached, live, call, turn, owed>>

(* The agent of a node ends its turn: its execution is terminal. *)
NodeIdle(c) ==
    /\ turn = Nil /\ live[c]
    /\ live' = [live EXCEPT ![c] = FALSE]
    /\ UNCHANGED <<runs, data, cached, count, call, turn, trips, owed>>

(* The run completes: transitionStatus forgets what was open. *)
RunEnds ==
    /\ turn = Nil /\ runs = "in_progress"
    /\ runs' = "done" /\ Evict
    /\ live' = [c \in Channels |-> FALSE]
    /\ UNCHANGED <<data, count, call, turn, trips, owed>>

Step(p) ==
    \/ Enter(p) \/ Notice(p) \/ Evaluated(p, "first", "activate")
    \/ Activate(p) \/ Reopened(p) \/ Recheck(p)
    \/ Evaluated(p, "second", "finish") \/ Finish(p)

Environment ==
    \/ \E p \in Agents, c \in Channels, vote \in BOOLEAN : Send(p, c, vote)
    \/ \E g \in Gates : ApproveGate(g) \/ RejectGate(g)
    \/ HumanTouch \/ RunEnds \/ \E c \in Channels : NodeIdle(c)

RouterNext == Environment \/ \E p \in Callers : Step(p)

RouterSpec == RouterInit /\ [][RouterNext]_rvars

(* Every call goes on: evaluations end, the scripts of gates are killed at     *)
(* their timeout. The queue of the event loop is first in, first out, so a     *)
(* call is resumed however often others hold the thread: strong fairness.      *)
RouterFairSpec == RouterSpec /\ \A p \in Callers : SF_rvars(Step(p))

-----------------------------------------------------------------------------
(* The rows, the calls and the thread keep their types.                        *)
RouterTypeOK ==
    /\ runs \in {"in_progress", "blocked", "done"}
    /\ data \in [Gates -> BOOLEAN] /\ cached \in [Gates -> BOOLEAN]
    /\ count \in [Channels -> Nat] /\ trips \in [Channels -> Nat]
    /\ live \in [Channels -> BOOLEAN]
    /\ call \in [Callers -> Calls] /\ turn \in Callers \cup {Nil}
    /\ owed \subseteq Gates

(* However many agents send at once, no more messages go through a cyclic      *)
(* channel between two messages of a human than maxCycles: the cap is tested   *)
(* two awaits before the counter moves.                                        *)
TripBudget == \A c \in Cyclic : trips[c] <= MaxCycles

(* A message goes through a cyclic channel with a gate that resets only if the *)
(* gate was open at some moment of its delivery: the cached answer of an       *)
(* earlier round never lets it pass.                                           *)
ResetGatesHold ==
    \A p \in Callers :
        call[p].pc = "finish" /\ call[p].kind = "deliver" =>
            LET c == call[p].chan IN
            c \in Cyclic /\ GateOf[c] \in Resets => call[p].saw

(* A call that will start the node behind the gate: it will announce the data  *)
(* of the gate, announces it, or is past the gate.                             *)
WillStart(p, g) ==
    /\ call[p].chan = ChannelOf(g)
    /\ \/ call[p].vote
       \/ call[p].kind = "notify" /\ call[p].pc = "enter"
       \/ call[p].kind = "notify" /\ call[p].pc = "first" /\ call[p].read
       \/ call[p].pc \in {"activate", "reopened"}

Served(g) == \E p \in Callers : WillStart(p, g)

(* No step leaves an opened gate to nobody: until its node is started or the   *)
(* gate closed, some call is on its way to start it, though calls end on other *)
(* gates' answers, runs end and are reopened, and rounds reset what was open;  *)
(* a call gives up only at the cap of the channel.                             *)
OpeningsAreServed ==
    [][\A g \in owed' : (g \in owed => Served(g)) => Served(g)' \/ CapReached(ChannelOf(g))]_rvars

(* Data that opens a gate starts the node behind it, whatever else happens     *)
(* between the write and the notification, unless the gate closes or the cap   *)
(* of its channel is reached first.                                            *)
OpenGateStartsNode ==
    \A g \in Gates : (g \in owed) ~> (g \notin owed \/ CapReached(ChannelOf(g)))
=============================================================================
