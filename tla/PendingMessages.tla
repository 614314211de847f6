--------------------------- MODULE PendingMessages ---------------------------
(* The queue of messages to a node agent that is not running                   *)
(* (PendingAgentMessageRepository), the flushes of TaskAgentManager that feed  *)
(* it to the agent's session, and the part of the tick that sees to handoffs   *)
(* nobody delivers (SpaceRuntime.repairQueuedWorkflowNodeHandoffs).            *)
(*                                                                             *)
(* One run and one target agent. A flush lists the pending rows once and then  *)
(* awaits the injection of each; several flushes may be under way at once, one *)
(* of them in the tick. The tick leaves a blocked run alone; its retries of    *)
(* such a run are in WorkflowRun.                                              *)
EXTENDS Naturals

CONSTANTS
    Handoffs,    \* the messages, numbers in the order of created_at
    Background,  \* flushes nobody awaits
    Tick,        \* the flush of the tick
    MaxTries,    \* max_attempts
    MaxUpsets    \* bound: dead sessions, restarts, human RPCs

ASSUME HandoffAssumption ==
    /\ Handoffs \subseteq Nat /\ MaxTries \in Nat \ {0} /\ MaxUpsets \in Nat
    /\ Tick \notin Background

VARIABLES
    status,   \* status of the row, "none" while there is none
    tries,    \* attempts
    stale,    \* rows with expires_at <= now
    flush,    \* what every flush is doing
    peer,     \* the session of the agent is alive
    phase,    \* run.status, and "closing": the task is terminal, the run not yet
    seen,     \* rows the tick listed
    arrived,  \* history: rows whose message was written to the session
    upsets    \* counts towards MaxUpsets

pvars == <<status, tries, stale, flush, peer, phase, seen, arrived, upsets>>

Flushes == Background \cup {Tick}
Statuses == {"none", "pending", "delivered", "failed", "expired"}

(* again: the flush of tryResumeNodeAgentSession, which the tick follows with  *)
(* one of its own.                                                             *)
Rest == [pc |-> "rest", todo |-> {}, again |-> FALSE]
Flushing == [pc : {"rest", "spawn", "next", "wait"}, todo : SUBSET Handoffs, again : BOOLEAN]

QueueInit ==
    /\ status = [m \in Handoffs |-> "none"] /\ tries = [m \in Handoffs |-> 0]
    /\ stale = {} /\ seen = {} /\ arrived = {} /\ upsets = 0
    /\ flush = [f \in Flushes |-> Rest]
    /\ peer = FALSE /\ phase = "in_progress"

-----------------------------------------------------------------------------
(* ---- statements of the repository; each looks at pending rows only ---- *)

Pending == {m \in Handoffs : status[m] = "pending"}

(* expireStale *)
Swept == [m \in Handoffs |-> IF m \in Pending /\ m \in stale THEN "expired" ELSE status[m]]
Unswept == Pending \ stale

MarkDelivered(m) ==
    status' = IF m \in Pending THEN [status EXCEPT ![m] = "delivered"] ELSE status

AfterTryAny(M) == \* mutant: the last attempt fails the row whatever has become of it
    [m \in Handoffs |-> IF m \in M /\ tries[m] + 1 >= MaxTries THEN "failed" ELSE status[m]]

(* markAttemptFailed, for the rows in M *)
Tried(M) == [m \in Handoffs |-> IF m \in M \cap Pending THEN tries[m] + 1 ELSE tries[m]]
AfterTry(M) == [m \in Handoffs |->
    IF m \in M \cap Pending /\ tries[m] + 1 >= MaxTries THEN "failed" ELSE status[m]]
MarkAttemptFailed(M) == tries' = Tried(M) /\ status' = AfterTry(M)

-----------------------------------------------------------------------------
(* ---- the agents ---- *)

(* enqueue, then onMessageQueued: a session that is alive is fed at once.      *)
Post(m) ==
    /\ status[m] = "none" /\ phase = "in_progress"
    /\ \A l \in Handoffs : l < m => status[l] # "none"
    /\ \A f \in Flushes : m \notin flush[f].todo \* a deleted row's number, not its id, is reused
    /\ LET posted == [Swept EXCEPT ![m] = "pending"] IN
       \/ /\ peer
          /\ status' = posted
          /\ \E f \in Background :
                /\ flush[f] = Rest
                /\ flush' = [flush EXCEPT ![f] = [Rest EXCEPT !.pc = "next",
                                                  !.todo = Unswept \cup {m}]]
       \/ /\ ~peer
          /\ status' = [status EXCEPT ![m] = "pending"]
          /\ UNCHANGED flush
    /\ tries' = [tries EXCEPT ![m] = 0]
    /\ UNCHANGED <<stale, peer, phase, seen, arrived, upsets>>

TimePasses(m) ==
    /\ m \in Pending \ stale
    /\ stale' = stale \cup {m}
    /\ UNCHANGED <<status, tries, flush, peer, phase, seen, arrived, upsets>>

-----------------------------------------------------------------------------
(* ---- flushPendingMessagesForTarget ---- *)

First(f) == CHOOSE m \in flush[f].todo : \A l \in flush[f].todo : m <= l
Done(f) == [flush EXCEPT ![f].pc = "next", ![f].todo = @ \ {First(f)}]

EarlyFeed(f) == \* mutant: the row is marked before the injection
    /\ flush[f].pc = "next" /\ flush[f].todo # {}
    /\ status' = [status EXCEPT ![First(f)] = "delivered"]
    /\ flush' = [flush EXCEPT ![f].pc = "wait"]
    /\ UNCHANGED <<tries, stale, peer, phase, seen, arrived, upsets>>

(* The query of the session is started and the message written to its table;   *)
(* what is left is the wait for the agent to take it. The row may have been    *)
(* settled by another flush meanwhile: the list is not read again.             *)
Feed(f) ==
    /\ flush[f].pc = "next" /\ flush[f].todo # {}
    /\ peer
    /\ arrived' = arrived \cup {First(f)}
    /\ flush' = [flush EXCEPT ![f].pc = "wait"]
    /\ UNCHANGED <<status, tries, stale, peer, phase, seen, upsets>>

(* The agent took the message. *)
Fed(f) ==
    /\ flush[f].pc = "wait"
    /\ MarkDelivered(First(f))
    /\ flush' = Done(f)
    /\ UNCHANGED <<tries, stale, peer, phase, seen, arrived, upsets>>

(* The query did not start, or the agent took nothing within the timeout; the  *)
(* flush goes on with the next row.                                            *)
NotFed(f) ==
    /\ \/ flush[f].pc = "next" /\ flush[f].todo # {}
       \/ flush[f].pc = "wait"
    /\ MarkAttemptFailed({First(f)})
    /\ flush' = Done(f)
    /\ UNCHANGED <<stale, peer, phase, seen, arrived, upsets>>

Flushed(f) ==
    /\ f \in Background
    /\ flush[f].pc = "next" /\ flush[f].todo = {}
    /\ flush' = [flush EXCEPT ![f] = Rest]
    /\ UNCHANGED <<status, tries, stale, peer, phase, seen, arrived, upsets>>

-----------------------------------------------------------------------------
(* ---- repairQueuedWorkflowNodeHandoffs ---- *)

(* blockRunForQueuedHandoffFailure: a run that is not in progress refuses; one *)
(* that is takes its task with it, whatever that has become.                   *)
Block == phase' = IF phase \in {"in_progress", "closing"} THEN "blocked" ELSE phase

PendingOnly == FALSE \* mutant: the tick does not look for expired rows

Lapsed == \E m \in Handoffs : Swept[m] = "expired"

TickBegins ==
    /\ flush[Tick] = Rest
    /\ \/ /\ phase = "closing"
          /\ status' = [m \in Handoffs |-> IF m \in Unswept THEN "failed" ELSE Swept[m]]
          /\ phase' = "done"
          /\ UNCHANGED <<flush, seen>>
       \/ /\ phase = "in_progress" /\ Lapsed
          /\ status' = Swept /\ Block
          /\ UNCHANGED <<flush, seen>>
       \/ /\ phase = "in_progress" /\ ~Lapsed /\ Unswept # {}
          /\ seen' = Unswept
          /\ flush' = [flush EXCEPT ![Tick] =
                IF peer THEN [pc |-> "next", todo |-> Unswept, again |-> TRUE]
                        ELSE [Rest EXCEPT !.pc = "spawn"]]
          /\ UNCHANGED <<status, phase>>
    /\ UNCHANGED <<tries, stale, peer, arrived, upsets>>

(* The spawn starts a flush of its own that nobody awaits; the tick then       *)
(* flushes the same rows.                                                      *)
Spawned ==
    /\ flush[Tick].pc = "spawn"
    /\ peer' = TRUE /\ status' = Swept
    /\ LET fed == [Rest EXCEPT !.pc = "next", !.todo = Unswept] IN
       \/ \E f \in Background :
            /\ flush[f] = Rest
            /\ flush' = [flush EXCEPT ![f] = fed, ![Tick] = fed]
       \/ /\ \A f \in Background : flush[f] # Rest
          /\ flush' = [flush EXCEPT ![Tick] = fed]
    /\ UNCHANGED <<tries, stale, phase, seen, arrived, upsets>>

NotSpawned ==
    /\ flush[Tick].pc = "spawn"
    /\ MarkAttemptFailed(seen)
    /\ IF \E m \in seen : AfterTry(seen)[m] = "failed" THEN Block ELSE UNCHANGED phase
    /\ flush' = [flush EXCEPT ![Tick] = Rest] /\ seen' = {}
    /\ UNCHANGED <<stale, peer, arrived, upsets>>

(* recordBlockedFlushFailure looks at the rows the tick had listed. *)
TickEnds ==
    /\ flush[Tick].pc = "next" /\ flush[Tick].todo = {}
    /\ IF flush[Tick].again /\ peer
       THEN /\ status' = Swept
            /\ flush' = [flush EXCEPT ![Tick] = [Rest EXCEPT !.pc = "next", !.todo = Unswept]]
            /\ UNCHANGED <<phase, seen>>
       ELSE /\ IF \E m \in seen : status[m] = "failed" THEN Block ELSE UNCHANGED phase
            /\ flush' = [flush EXCEPT ![Tick] = Rest] /\ seen' = {}
            /\ UNCHANGED status
    /\ UNCHANGED <<tries, stale, peer, arrived, upsets>>

-----------------------------------------------------------------------------
(* ---- the rest of the run ---- *)

Upset == upsets < MaxUpsets /\ upsets' = upsets + 1

(* The session is stopped. *)
PeerStops ==
    /\ peer /\ Upset /\ peer' = FALSE
    /\ UNCHANGED <<status, tries, stale, flush, phase, seen, arrived>>

Restart ==
    /\ Upset /\ peer' = FALSE /\ seen' = {}
    /\ flush' = [f \in Flushes |-> Rest]
    /\ UNCHANGED <<status, tries, stale, phase, arrived>>

(* spaceWorkflowRun.resume of a blocked run; retry_task of a task that closed. *)
Resume ==
    /\ phase \in {"blocked", "closing"} /\ Upset /\ phase' = "in_progress"
    /\ UNCHANGED <<status, tries, stale, flush, peer, seen, arrived>>

(* recoverWorkflowBackedTask of a task in whatever state. The rows that are    *)
(* not pending are deleted before the transaction, which may refuse, or not    *)
(* come to pass.                                                               *)
RecoverRun ==
    /\ Upset /\ phase' \in {phase, "in_progress"}
    /\ status' = [m \in Handoffs |-> IF m \in Pending THEN "pending" ELSE "none"]
    /\ stale' = stale \cap Pending /\ arrived' = arrived \cap Pending
    /\ UNCHANGED <<tries, flush, peer, seen>>

(* The task is done or cancelled. *)
TaskCloses ==
    /\ phase = "in_progress" /\ phase' = "closing"
    /\ UNCHANGED <<status, tries, stale, flush, peer, seen, arrived, upsets>>

Flusher(f) == Feed(f) \/ Fed(f) \/ NotFed(f) \/ Flushed(f)
Repair == TickBegins \/ Spawned \/ NotSpawned \/ TickEnds

QueueNext ==
    \/ \E m \in Handoffs : Post(m) \/ TimePasses(m)
    \/ \E f \in Flushes : Flusher(f)
    \/ Repair
    \/ PeerStops \/ Restart \/ Resume \/ RecoverRun \/ TaskCloses

QueueSpec == QueueInit /\ [][QueueNext]_pvars

(* The tick runs on its timer, injections end, and time passes. *)
QueueFairSpec ==
    /\ QueueSpec
    /\ WF_pvars(Repair) /\ \A f \in Flushes : WF_pvars(Flusher(f))
    /\ \A m \in Handoffs : WF_pvars(TimePasses(m))

-----------------------------------------------------------------------------
(* The rows and the flushes keep their types. *)
QueueTypeOK ==
    /\ status \in [Handoffs -> Statuses] /\ tries \in [Handoffs -> 0..MaxTries]
    /\ flush \in [Flushes -> Flushing]
    /\ peer \in BOOLEAN /\ phase \in {"in_progress", "blocked", "closing", "done"}
    /\ stale \subseteq Handoffs /\ seen \subseteq Handoffs /\ arrived \subseteq Handoffs

(* A row is marked delivered only if its message was written to the session,   *)
(* whatever two flushes, a restart between injection and mark, and a recovery  *)
(* of the run do to each other.                                                *)
DeliveredMeansArrived == \A m \in Handoffs : status[m] = "delivered" => m \in arrived

(* The life of a handoff: it is given up after all its attempts or when its    *)
(* task ends, and expires only once its time has passed. What is settled stays *)
(* so until it is deleted, which a recovery of the task does to all such rows  *)
(* at once, and never to one that is pending.                                  *)
LivesOn(m) ==
    \/ status[m] = "none" /\ status'[m] = "pending" /\ tries'[m] = 0
    \/ status[m] = "pending" /\ status'[m] = "delivered"
    \/ status[m] = "pending" /\ status'[m] = "expired" /\ m \in stale
    \/ /\ status[m] = "pending" /\ status'[m] = "failed"
       /\ tries'[m] = MaxTries \/ phase = "closing"
    \/ /\ status[m] \in {"delivered", "failed", "expired"} /\ status'[m] = "none"
       /\ \A l \in Handoffs : status'[l] \in {"none", "pending"}

(* However many flushes and ticks hold a row on their lists, and whatever they *)
(* report of it late, no handoff leaves its life.                              *)
HandoffLife == [][\A m \in Handoffs : status'[m] # status[m] => LivesOn(m)]_pvars

(* A handoff does not hang: while the run goes on, each one is delivered or    *)
(* given up, and one that expired blocks the run, however often the run is     *)
(* resumed. The flush that expired it may not have been the tick's.            *)
HandoffSettles ==
    \A m \in Handoffs :
        status[m] \in {"pending", "expired"} /\ phase = "in_progress"
            ~> status[m] \in {"none", "delivered", "failed"} \/ phase # "in_progress"
=============================================================================
