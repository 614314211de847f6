------------------------ MODULE ChannelRouterProofs ------------------------
(* What TLAPS proves about ChannelRouter, for every value of its constants:    *)
(* any number of agents, channels and gates, cyclic or not.                    *)
EXTENDS ChannelRouter, TLAPS

USE DEF Callers

-----------------------------------------------------------------------------
(* What happens to the record of a call *)

LEMMA IdleIsCall == Idle \in Calls
BY DEF Idle, Calls, Pcs

LEMMA CallMoves ==
  ASSUME NEW x \in Calls, NEW to \in Pcs
  PROVE  /\ [x EXCEPT !.pc = to] \in Calls
         /\ [x EXCEPT !.pc = to].pc = to
         /\ [x EXCEPT !.pc = to].kind = x.kind
         /\ [x EXCEPT !.pc = to].chan = x.chan
         /\ [x EXCEPT !.pc = to].saw = x.saw
         /\ [x EXCEPT !.pc = to].read = x.read
         /\ [x EXCEPT !.pc = to].vote = x.vote
BY DEF Calls

(* A channel with a gate that resets has a gate. *)
Guarded(c) == c \in Cyclic /\ GateOf[c] \in Resets

LEMMA GuardedIsGated ==
  ASSUME NEW c \in Channels, Guarded(c)
  PROVE  Gated(c) /\ GateOf[c] \in Gates /\ MustReevaluate(c)
BY CycleAssumption DEF CycleAssumption, Guarded, Gated, MustReevaluate

(* A delivery over such a channel that is past an evaluation, or in one whose  *)
(* answer will be yes, has seen the gate open.                                 *)
Past == {"activate", "reopened", "recheck", "second", "finish"}
SawOpen(x) ==
  x.kind = "deliver" /\ x.pc # "idle" /\ Guarded(x.chan) =>
    /\ x.pc \in Past => x.saw
    /\ x.pc = "first" /\ x.read => x.saw

(* A call is over a channel, and only gated channels are announced. *)
OnItsWay(x) ==
  x.pc # "idle" => /\ x.chan \in Channels
                   /\ x.kind = "notify" \/ x.vote => Gated(x.chan)

RouterInv ==
  /\ RouterTypeOK
  /\ \A c \in Cyclic : trips[c] = count[c] /\ count[c] <= MaxCycles
  /\ \A p \in Callers : SawOpen(call[p]) /\ OnItsWay(call[p])

-----------------------------------------------------------------------------
(* A step that touches one call only keeps the rest of the invariant. *)
OneCall(p, x) ==
  /\ p \in Callers /\ x \in Calls /\ call' = [call EXCEPT ![p] = x]
  /\ SawOpen(x) /\ OnItsWay(x)

CallsOK ==
  \A p \in Callers : call[p] \in Calls /\ SawOpen(call[p]) /\ OnItsWay(call[p])

LEMMA OneCallOK ==
  ASSUME CallsOK, call \in [Callers -> Calls], NEW p, NEW x, OneCall(p, x)
  PROVE  CallsOK' /\ call' \in [Callers -> Calls]
BY DEF CallsOK, OneCall

LEMMA InvIsCalls ==
  RouterInv <=> /\ RouterTypeOK /\ CallsOK
                /\ \A c \in Cyclic : trips[c] = count[c] /\ count[c] <= MaxCycles
BY DEF RouterInv, CallsOK, RouterTypeOK

(* Opening a gate only adds to what was seen. *)
LEMMA WitnessedOK ==
  ASSUME NEW calls \in [Callers -> Calls], NEW g \in Gates, NEW p \in Callers
  PROVE  /\ Witnessed(calls, g) \in [Callers -> Calls]
         /\ Witnessed(calls, g)[p].pc = calls[p].pc
         /\ Witnessed(calls, g)[p].kind = calls[p].kind
         /\ Witnessed(calls, g)[p].chan = calls[p].chan
         /\ Witnessed(calls, g)[p].read = calls[p].read
         /\ Witnessed(calls, g)[p].vote = calls[p].vote
         /\ calls[p].saw => Witnessed(calls, g)[p].saw
<1>1. ASSUME NEW x \in Calls, NEW b \in BOOLEAN
      PROVE  /\ [x EXCEPT !.saw = x.saw \/ b] \in Calls
             /\ [x EXCEPT !.saw = x.saw \/ b].pc = x.pc
             /\ [x EXCEPT !.saw = x.saw \/ b].kind = x.kind
             /\ [x EXCEPT !.saw = x.saw \/ b].chan = x.chan
             /\ [x EXCEPT !.saw = x.saw \/ b].read = x.read
             /\ [x EXCEPT !.saw = x.saw \/ b].vote = x.vote
             /\ x.saw => [x EXCEPT !.saw = x.saw \/ b].saw
  <2>1. (x.saw \/ b) \in BOOLEAN /\ (x.saw => (x.saw \/ b))
    OBVIOUS
  <2> DEFINE v == x.saw \/ b
  <2> HIDE DEF v
  <2>2. v \in BOOLEAN /\ (x.saw => v)
    BY <2>1 DEF v
  <2>3. /\ [x EXCEPT !.saw = v] \in Calls
        /\ [x EXCEPT !.saw = v].pc = x.pc
        /\ [x EXCEPT !.saw = v].kind = x.kind
        /\ [x EXCEPT !.saw = v].chan = x.chan
        /\ [x EXCEPT !.saw = v].read = x.read
        /\ [x EXCEPT !.saw = v].vote = x.vote
        /\ [x EXCEPT !.saw = v].saw = v
    BY <2>2 DEF Calls
  <2> QED BY <2>2, <2>3 DEF v
<1> DEFINE e(q) == [calls[q] EXCEPT !.saw = calls[q].saw \/ (calls[q].chan # Nil /\ GateOf[calls[q].chan] = g)]
<1>4. ASSUME NEW q \in Callers
      PROVE  /\ e(q) \in Calls
             /\ e(q).pc = calls[q].pc /\ e(q).kind = calls[q].kind
             /\ e(q).chan = calls[q].chan /\ e(q).read = calls[q].read
             /\ e(q).vote = calls[q].vote
             /\ calls[q].saw => e(q).saw
  <2> DEFINE b == calls[q].chan # Nil /\ GateOf[calls[q].chan] = g
  <2>1. b \in BOOLEAN /\ calls[q] \in Calls
    OBVIOUS
  <2>2. e(q) = [calls[q] EXCEPT !.saw = calls[q].saw \/ b]
    OBVIOUS
  <2> HIDE DEF b, e
  <2> QED BY <1>1, <2>1, <2>2
<1>5. Witnessed(calls, g) = [q \in Callers |-> e(q)]
  BY DEF Witnessed
<1> HIDE DEF e
<1>6. Witnessed(calls, g) \in [Callers -> Calls]
  BY <1>4, <1>5
<1>7. Witnessed(calls, g)[p] = e(p)
  BY <1>5
<1> QED BY <1>4, <1>6, <1>7

CallsMoveOn == CallsOK' /\ call' \in [Callers -> Calls]

LEMMA CallParts ==
  ASSUME RouterInv, NEW p \in Callers
  PROVE  /\ CallsOK /\ call \in [Callers -> Calls] /\ call[p] \in Calls
         /\ SawOpen(call[p]) /\ OnItsWay(call[p])
BY DEF RouterInv, RouterTypeOK, CallsOK

LEMMA ReturnOK ==
  ASSUME RouterInv, NEW p \in Callers, call[p].pc # "idle", Return(p)
  PROVE  CallsMoveOn /\ turn' = Nil
<1>1. CallsOK /\ call \in [Callers -> Calls] /\ call[p].chan \in Channels
      /\ call[p].vote \in BOOLEAN /\ (call[p].vote => Gated(call[p].chan))
  BY CallParts DEF OnItsWay, Calls
<1> DEFINE c == call[p].chan
           y == [Idle EXCEPT !.pc = "enter", !.kind = "notify", !.chan = c]
           x == IF call[p].vote THEN y ELSE Idle
<1>2. y \in Calls /\ y.pc = "enter" /\ y.kind = "notify" /\ y.chan = c /\ ~y.vote
  BY <1>1 DEF Idle, Calls, Pcs
<1>3. Idle \in Calls /\ SawOpen(Idle) /\ OnItsWay(Idle)
  BY IdleIsCall DEF Idle, SawOpen, OnItsWay
<1>4. call' = [call EXCEPT ![p] = x]
  BY DEF Return
<1> HIDE DEF y
<1>5. call[p].vote => SawOpen(y) /\ OnItsWay(y)
  BY <1>1, <1>2 DEF SawOpen, OnItsWay
<1>6. OneCall(p, x)
  BY <1>1, <1>2, <1>3, <1>4, <1>5 DEF OneCall
<1> HIDE DEF x
<1> QED BY <1>1, <1>6, OneCallOK DEF CallsMoveOn, Return

LEMMA ToOK ==
  ASSUME RouterInv, NEW p \in Callers, call[p].pc # "idle", NEW to \in Pcs, To(p, to),
         SawOpen([call[p] EXCEPT !.pc = to])
  PROVE  CallsMoveOn
<1>1. CallsOK /\ call \in [Callers -> Calls] /\ call[p] \in Calls /\ OnItsWay(call[p])
  BY CallParts
<1> DEFINE x == [call[p] EXCEPT !.pc = to]
<1>2. x \in Calls /\ x.chan = call[p].chan /\ x.kind = call[p].kind /\ x.vote = call[p].vote
  BY <1>1, CallMoves
<1>3. SawOpen(x) /\ call' = [call EXCEPT ![p] = x]
  BY <1>1 DEF To
<1> HIDE DEF x
<1>4. OneCall(p, x)
  BY <1>1, <1>2, <1>3 DEF OneCall, OnItsWay
<1> QED BY <1>1, <1>4, OneCallOK DEF CallsMoveOn

(* A call that is past an evaluation stays so. *)
LEMMA PastOK ==
  ASSUME RouterInv, NEW p \in Callers, call[p].pc \in Past, NEW to \in Past
  PROVE  SawOpen([call[p] EXCEPT !.pc = to]) /\ to \in Pcs
<1>1. call[p] \in Calls /\ SawOpen(call[p]) /\ to \in Pcs /\ call[p].pc # "idle"
  BY CallParts DEF Past, Pcs
<1> QED BY <1>1, CallMoves DEF SawOpen, Past

(* Counts, and what else has a type. *)
Counted == \A c \in Cyclic : trips[c] = count[c] /\ count[c] <= MaxCycles

RestTyped ==
  /\ runs \in {"in_progress", "blocked", "done"}
  /\ data \in [Gates -> BOOLEAN] /\ cached \in [Gates -> BOOLEAN]
  /\ count \in [Channels -> Nat] /\ trips \in [Channels -> Nat]
  /\ live \in [Channels -> BOOLEAN]
  /\ turn \in Callers \cup {Nil}
  /\ owed \subseteq Gates

LEMMA InvParts ==
  /\ RouterInv <=> RestTyped /\ Counted /\ CallsOK /\ call \in [Callers -> Calls]
  /\ RouterInv' <=> RestTyped' /\ Counted' /\ CallsMoveOn
BY DEF RouterInv, CallsOK, RouterTypeOK, RestTyped, Counted, CallsMoveOn

LEMMA EvictTyped ==
  ASSUME RestTyped, Evict \/ EvictIfEnded
  PROVE  cached' \in [Gates -> BOOLEAN]
BY DEF RestTyped, Evict, EvictIfEnded

(* An evaluation begins, with the data of the gate. *)
LEMMA EvaluationOK ==
  ASSUME RouterInv, NEW p \in Callers, call[p].pc # "idle",
         NEW pc \in {"first", "second"}, NEW b \in BOOLEAN, NEW v \in BOOLEAN,
         pc = "first" => (call[p].kind = "notify" \/ (b => v)),
         pc = "second" => (call[p].pc \in Past /\ v = call[p].saw),
         call' = [call EXCEPT ![p] = [call[p] EXCEPT !.pc = pc, !.read = b, !.saw = v]]
  PROVE  CallsMoveOn
<1>1. CallsOK /\ call \in [Callers -> Calls] /\ call[p] \in Calls
      /\ SawOpen(call[p]) /\ OnItsWay(call[p])
  BY CallParts
<1> DEFINE x == [call[p] EXCEPT !.pc = pc, !.read = b, !.saw = v]
<1>2. /\ x \in Calls /\ x.pc = pc /\ x.read = b /\ x.saw = v
      /\ x.chan = call[p].chan /\ x.kind = call[p].kind /\ x.vote = call[p].vote
  BY <1>1 DEF Calls, Pcs
<1>3. call' = [call EXCEPT ![p] = x]
  OBVIOUS
<1> HIDE DEF x
<1>4. SawOpen(x) /\ OnItsWay(x)
  BY <1>1, <1>2 DEF SawOpen, OnItsWay, Past
<1>5. OneCall(p, x)
  BY <1>2, <1>3, <1>4 DEF OneCall
<1> QED BY <1>1, <1>5, OneCallOK DEF CallsMoveOn

-----------------------------------------------------------------------------
(* The steps of a call *)

LEMMA EnterStep ==
  ASSUME RouterInv, NEW p \in Callers, Enter(p)
  PROVE  RouterInv'
<1> DEFINE c == call[p].chan
<1>1. /\ RestTyped /\ Counted /\ SawOpen(call[p]) /\ OnItsWay(call[p])
      /\ call[p].pc = "enter" /\ call[p].kind = "deliver" /\ call[p] \in Calls
  BY InvParts, CallParts DEF Enter, At
<1>a. c \in Channels
  BY <1>1 DEF OnItsWay
<1>2. UNCHANGED <<runs, data, count, live, trips, owed>> /\ cached' \in [Gates -> BOOLEAN]
  BY <1>1, EvictTyped DEF Enter
<1>3. Counted'
  BY <1>1, <1>2 DEF Counted
<1>4. CASE CapReached(c) /\ Return(p)
  <2>1. CallsMoveOn /\ turn' = Nil
    BY <1>1, <1>4, ReturnOK
  <2> QED BY <1>1, <1>2, <1>3, <2>1, InvParts DEF RestTyped
<1>5. CASE (~Gated(c) \/ Skips(c)) /\ To(p, "activate") /\ turn' = p
  <2>1. ~Guarded(c)
    BY <1>a, <1>5, GuardedIsGated DEF Skips
  <2>2. SawOpen([call[p] EXCEPT !.pc = "activate"]) /\ "activate" \in Pcs
    BY <1>1, <2>1, CallMoves DEF SawOpen, Pcs
  <2>3. CallsMoveOn
    BY <1>1, <1>5, <2>2, ToOK
  <2> QED BY <1>1, <1>2, <1>3, <1>5, <2>3, InvParts DEF RestTyped
<1>6. CASE /\ Gated(c) /\ turn' = Nil
           /\ call' = [call EXCEPT ![p] = [@ EXCEPT !.pc = "first",
                          !.read = data[GateOf[c]], !.saw = SeenOpen(p)]]
  <2>1. data[GateOf[c]] \in BOOLEAN /\ call[p].saw \in BOOLEAN
    BY <1>1, <1>a, <1>6, CycleAssumption DEF Gated, CycleAssumption, RestTyped, Calls
  <2> DEFINE b == data[GateOf[c]]
             v == SeenOpen(p)
  <2>2. b \in BOOLEAN /\ v \in BOOLEAN /\ (b => v)
    BY <2>1 DEF SeenOpen
  <2>3. call' = [call EXCEPT ![p] = [call[p] EXCEPT !.pc = "first", !.read = b, !.saw = v]]
    BY <1>6, CallParts
  <2> HIDE DEF b, v, c
  <2>4. CallsMoveOn
    BY <1>1, <2>2, <2>3, EvaluationOK
  <2> QED BY <1>1, <1>2, <1>3, <1>6, <2>4, InvParts DEF RestTyped
<1> QED BY <1>4, <1>5, <1>6 DEF Enter

LEMMA NoticeStep ==
  ASSUME RouterInv, NEW p \in Callers, Notice(p)
  PROVE  RouterInv'
<1> DEFINE c == call[p].chan
<1>1. /\ RestTyped /\ Counted /\ OnItsWay(call[p])
      /\ call[p].pc = "enter" /\ call[p].kind = "notify" /\ call[p] \in Calls
  BY InvParts, CallParts DEF Notice, At
<1>2. UNCHANGED <<runs, data, count, live, trips, owed>> /\ turn' = Nil
  BY DEF Notice
<1>3. cached' \in [Gates -> BOOLEAN]
  BY <1>1, EvictTyped DEF Notice
<1>4. Counted'
  BY <1>1, <1>2 DEF Counted
<1>5. data[GateOf[c]] \in BOOLEAN /\ call[p].saw \in BOOLEAN
  BY <1>1, CycleAssumption DEF OnItsWay, Gated, CycleAssumption, RestTyped, Calls
<1> DEFINE b == data[GateOf[c]]
           v == call[p].saw
<1>6. call' = [call EXCEPT ![p] = [call[p] EXCEPT !.pc = "first", !.read = b]]
  BY <1>1, CallParts DEF Notice
<1>7. [call[p] EXCEPT !.pc = "first", !.read = b] = [call[p] EXCEPT !.pc = "first", !.read = b, !.saw = v]
  BY <1>1 DEF Calls
<1> HIDE DEF b, c
<1>8. CallsMoveOn
  BY <1>1, <1>5, <1>6, <1>7, EvaluationOK DEF b
<1> QED BY <1>1, <1>2, <1>3, <1>4, <1>8, InvParts DEF RestTyped

LEMMA EvaluatedStep ==
  ASSUME RouterInv, NEW p \in Callers, NEW from \in {"first", "second"}, NEW to \in Past,
         Evaluated(p, from, to)
  PROVE  RouterInv'
<1>1. /\ RestTyped /\ Counted /\ SawOpen(call[p]) /\ OnItsWay(call[p])
      /\ call[p].pc = from /\ call[p] \in Calls
  BY InvParts, CallParts DEF Evaluated, At
<1>2. UNCHANGED <<runs, data, count, live, trips, owed>> /\ cached' \in [Gates -> BOOLEAN]
  BY <1>1 DEF Evaluated, RestTyped
<1>3. Counted'
  BY <1>1, <1>2 DEF Counted
<1>4. CASE call[p].read /\ To(p, to) /\ turn' = p
  <2>1. SawOpen([call[p] EXCEPT !.pc = to]) /\ to \in Pcs
    BY <1>1, <1>4, CallMoves DEF SawOpen, Past, Pcs
  <2>2. CallsMoveOn
    BY <1>1, <1>4, <2>1, ToOK
  <2> QED BY <1>1, <1>2, <1>3, <1>4, <2>2, InvParts DEF RestTyped
<1>5. CASE Return(p)
  <2>1. CallsMoveOn /\ turn' = Nil
    BY <1>1, <1>5, ReturnOK
  <2> QED BY <1>1, <1>2, <1>3, <2>1, InvParts DEF RestTyped
<1> QED BY <1>4, <1>5 DEF Evaluated

(* A call that starts its target goes on past its evaluation. *)
LEMMA AfterActivationOK ==
  ASSUME RouterInv, NEW p \in Callers, call[p].pc \in Past, To(p, AfterActivation(p))
  PROVE  CallsMoveOn
<1>1. AfterActivation(p) \in Past /\ call[p].pc # "idle"
  BY DEF AfterActivation, Past
<1> QED BY <1>1, PastOK, ToOK

LEMMA ActivateStep ==
  ASSUME RouterInv, NEW p \in Callers, Activate(p)
  PROVE  RouterInv'
<1> DEFINE c == call[p].chan
<1>1. /\ RestTyped /\ Counted
      /\ call[p].pc = "activate" /\ call[p].pc \in Past /\ call[p].pc # "idle"
  BY InvParts DEF Activate, At, Past
<1>2. /\ UNCHANGED <<data, count, trips>>
      /\ runs' \in {"in_progress", "blocked", "done"}
      /\ cached' \in [Gates -> BOOLEAN] /\ live' \in [Channels -> BOOLEAN]
      /\ owed' \subseteq Gates
  BY <1>1, EvictTyped DEF Activate, RestTyped, Paid
<1>3. Counted'
  BY <1>1, <1>2 DEF Counted
<1>4. CASE Return(p)
  <2>1. CallsMoveOn /\ turn' = Nil
    BY <1>1, <1>4, ReturnOK
  <2> QED BY <1>1, <1>2, <1>3, <2>1, InvParts DEF RestTyped
<1>5. CASE \E to \in {"recheck", "reopened"} : To(p, to) /\ turn' \in {p, Nil}
  <2>1. PICK to \in {"recheck", "reopened"} : To(p, to)
    BY <1>5
  <2>2. to \in Past
    BY DEF Past
  <2>3. CallsMoveOn
    BY <1>1, <2>1, <2>2, PastOK, ToOK
  <2> QED BY <1>1, <1>2, <1>3, <1>5, <2>3, InvParts DEF RestTyped
<1>6. CASE To(p, AfterActivation(p)) /\ turn' = Nil
  <2>1. CallsMoveOn
    BY <1>1, <1>6, AfterActivationOK
  <2> QED BY <1>1, <1>2, <1>3, <1>6, <2>1, InvParts DEF RestTyped
<1> QED BY <1>4, <1>5, <1>6 DEF Activate

LEMMA ReopenedStep ==
  ASSUME RouterInv, NEW p \in Callers, Reopened(p)
  PROVE  RouterInv'
<1>1. RestTyped /\ Counted /\ call[p].pc \in Past
  BY InvParts DEF Reopened, At, Past
<1>2. CallsMoveOn
  BY <1>1, AfterActivationOK DEF Reopened
<1>3. Counted'
  BY <1>1 DEF Counted, Reopened
<1>4. RestTyped'
  BY <1>1 DEF Reopened, RestTyped, Paid
<1> QED BY <1>2, <1>3, <1>4, InvParts DEF CallsMoveOn

LEMMA RecheckStep ==
  ASSUME RouterInv, NEW p \in Callers, Recheck(p)
  PROVE  RouterInv'
<1> DEFINE c == call[p].chan
<1>1. /\ RestTyped /\ Counted /\ OnItsWay(call[p]) /\ call[p] \in Calls
      /\ call[p].pc = "recheck" /\ call[p].pc \in Past /\ call[p].pc # "idle"
  BY InvParts, CallParts DEF Recheck, At, Past
<1>2. UNCHANGED <<runs, data, cached, count, live, trips, owed>>
  BY DEF Recheck
<1>3. Counted'
  BY <1>1, <1>2 DEF Counted
<1>4. CASE To(p, "finish") /\ turn' = p
  <2>1. "finish" \in Past
    BY DEF Past
  <2>2. CallsMoveOn
    BY <1>1, <1>4, <2>1, PastOK, ToOK
  <2> QED BY <1>1, <1>2, <1>3, <1>4, <2>2, InvParts DEF RestTyped
<1>5. CASE /\ Gated(c) /\ turn' = Nil
           /\ call' = [call EXCEPT ![p].pc = "second", ![p].read = data[GateOf[c]]]
  <2>1. data[GateOf[c]] \in BOOLEAN /\ call[p].saw \in BOOLEAN
    BY <1>1, <1>5, CycleAssumption DEF OnItsWay, Gated, CycleAssumption, RestTyped, Calls
  <2> DEFINE b == data[GateOf[c]]
             v == call[p].saw
  <2>2. call' = [call EXCEPT ![p] = [call[p] EXCEPT !.pc = "second", !.read = b]]
    BY <1>5, CallParts
  <2>3. [call[p] EXCEPT !.pc = "second", !.read = b]
          = [call[p] EXCEPT !.pc = "second", !.read = b, !.saw = v]
    BY <1>1 DEF Calls
  <2> HIDE DEF b, c
  <2>4. CallsMoveOn
    BY <1>1, <2>1, <2>2, <2>3, EvaluationOK DEF b
  <2> QED BY <1>1, <1>2, <1>3, <1>5, <2>4, InvParts DEF RestTyped
<1> QED BY <1>4, <1>5 DEF Recheck

LEMMA FinishStep ==
  ASSUME RouterInv, NEW p \in Callers, Finish(p)
  PROVE  RouterInv'
<1> DEFINE c == call[p].chan
<1>1. /\ RestTyped /\ Counted /\ OnItsWay(call[p]) /\ call[p].pc # "idle"
  BY InvParts, CallParts DEF Finish, At
<1>a. c \in Channels
  BY <1>1 DEF OnItsWay
<1>2. CallsMoveOn /\ turn' = Nil
  BY <1>1, ReturnOK DEF Finish
<1>3. CASE UNCHANGED <<count, trips>>
  <2>1. Counted'
    BY <1>1, <1>3 DEF Counted
  <2>2. RestTyped'
    BY <1>1, <1>2, <1>3 DEF Finish, RestTyped
  <2> QED BY <1>2, <2>1, <2>2, InvParts DEF CallsMoveOn
<1>4. CASE /\ c \in Cyclic /\ ~Refused(c)
           /\ count' = [count EXCEPT ![c] = @ + 1]
           /\ trips' = [trips EXCEPT ![c] = @ + 1]
  <2>1. Cyclic \subseteq Channels /\ MaxCycles \in Nat
    BY CycleAssumption DEF CycleAssumption
  <2>2. Counted'
    <3> SUFFICES ASSUME NEW k \in Cyclic PROVE (trips[k] = count[k] /\ count[k] <= MaxCycles)'
      BY DEF Counted
    <3>1. CASE k = c
      BY <1>1, <1>4, <2>1, <3>1 DEF Counted, RestTyped, Refused
    <3>2. CASE k # c
      BY <1>1, <1>4, <2>1, <3>2 DEF Counted, RestTyped
    <3> QED BY <3>1, <3>2
  <2>3. count' \in [Channels -> Nat] /\ trips' \in [Channels -> Nat]
    BY <1>1, <1>4, <1>a DEF RestTyped
  <2>4. /\ data' \in [Gates -> BOOLEAN] /\ cached' \in [Gates -> BOOLEAN]
        /\ owed' \subseteq Gates /\ UNCHANGED <<runs, live>>
    BY <1>1, <1>4 DEF Finish, RestTyped
  <2>5. RestTyped'
    BY <1>1, <1>2, <2>3, <2>4 DEF RestTyped
  <2> QED BY <1>2, <2>2, <2>5, InvParts DEF CallsMoveOn
<1> QED BY <1>3, <1>4 DEF Finish

LEMMA CallStep ==
  ASSUME RouterInv, NEW p \in Callers, Step(p)
  PROVE  RouterInv'
<1>1. {"activate", "finish"} \subseteq Past
  BY DEF Past
<1> QED BY <1>1, EnterStep, NoticeStep, EvaluatedStep, ActivateStep, ReopenedStep,
           RecheckStep, FinishStep DEF Step

-----------------------------------------------------------------------------
(* The rest of the run *)

LEMMA GateHasChannel ==
  ASSUME NEW g \in Gates
  PROVE  ChannelOf(g) \in Channels /\ GateOf[ChannelOf(g)] = g /\ Gated(ChannelOf(g))
BY CycleAssumption DEF CycleAssumption, ChannelOf, Gated

(* A gate that is opened is seen by the calls that are already on their way    *)
(* and by the one that begins.                                                 *)
LEMMA BegunOK ==
  ASSUME CallsOK, call \in [Callers -> Calls], NEW p \in Callers, NEW x \in Calls,
         SawOpen(x), OnItsWay(x), NEW g \in Gates,
         call' = Witnessed([call EXCEPT ![p] = x], g)
  PROVE  CallsMoveOn
<1> DEFINE begun == [call EXCEPT ![p] = x]
<1>1. begun \in [Callers -> Calls]
  OBVIOUS
<1>2. \A q \in Callers : SawOpen(begun[q]) /\ OnItsWay(begun[q])
  BY DEF CallsOK
<1>3. call' = Witnessed(begun, g)
  OBVIOUS
<1> HIDE DEF begun
<1>4. ASSUME NEW q \in Callers
      PROVE  call'[q] \in Calls /\ SawOpen(call'[q]) /\ OnItsWay(call'[q])
  <2>1. /\ call'[q] \in Calls
        /\ call'[q].pc = begun[q].pc /\ call'[q].kind = begun[q].kind
        /\ call'[q].chan = begun[q].chan /\ call'[q].read = begun[q].read
        /\ call'[q].vote = begun[q].vote /\ (begun[q].saw => call'[q].saw)
    BY <1>1, <1>3, WitnessedOK
  <2>2. SawOpen(begun[q]) /\ OnItsWay(begun[q])
    BY <1>2
  <2> QED BY <2>1, <2>2 DEF SawOpen, OnItsWay
<1>5. call' \in [Callers -> Calls]
  BY <1>1, <1>3, WitnessedOK
<1> QED BY <1>4, <1>5 DEF CallsMoveOn, CallsOK

LEMMA SendStep ==
  ASSUME RouterInv, NEW p \in Agents, NEW c \in Channels, NEW vote \in BOOLEAN,
         Send(p, c, vote)
  PROVE  RouterInv'
<1> DEFINE y == [Idle EXCEPT !.pc = "enter", !.kind = "deliver", !.chan = c, !.vote = vote]
           z == [y EXCEPT !.vote = FALSE]
<1>1. RestTyped /\ Counted /\ CallsOK /\ call \in [Callers -> Calls] /\ p \in Callers
  BY InvParts
<1>2. /\ y \in Calls /\ y.pc = "enter" /\ y.chan = c /\ y.kind = "deliver" /\ y.vote = vote
      /\ z \in Calls /\ z.pc = "enter" /\ z.chan = c /\ z.kind = "deliver" /\ z.vote = FALSE
  BY DEF Idle, Calls, Pcs
<1>3. SawOpen(y) /\ SawOpen(z) /\ OnItsWay(z) /\ (Gated(c) => OnItsWay(y))
  <2> HIDE DEF y, z
  <2> QED BY <1>2 DEF SawOpen, OnItsWay, Past
<1>4. UNCHANGED <<runs, cached, count, live, turn, trips>>
  BY DEF Send
<1>5. Counted'
  BY <1>1, <1>4 DEF Counted
<1>6. CASE vote /\ Gated(c)
  <2>1. GateOf[c] \in Gates
    BY <1>6, CycleAssumption DEF CycleAssumption, Gated
  <2>2. call' = Witnessed([call EXCEPT ![p] = y], GateOf[c])
    BY <1>6 DEF Send
  <2>3. data' \in [Gates -> BOOLEAN] /\ owed' \subseteq Gates
    BY <1>1, <1>6, <2>1 DEF Send, RestTyped
  <2> HIDE DEF y
  <2>4. CallsMoveOn
    BY <1>1, <1>2, <1>3, <1>6, <2>1, <2>2, BegunOK
  <2> QED BY <1>1, <1>4, <1>5, <2>3, <2>4, InvParts DEF RestTyped
<1>7. CASE ~(vote /\ Gated(c))
  <2>1. call' = [[call EXCEPT ![p] = y] EXCEPT ![p].vote = FALSE] /\ UNCHANGED <<data, owed>>
    BY <1>7 DEF Send
  <2> HIDE DEF y, z
  <2>2. call' = [call EXCEPT ![p] = z]
    BY <1>1, <2>1 DEF z
  <2>3. OneCall(p, z)
    BY <1>1, <1>2, <1>3, <2>2 DEF OneCall
  <2>4. CallsMoveOn
    BY <1>1, <2>3, OneCallOK DEF CallsMoveOn
  <2> QED BY <1>1, <1>4, <1>5, <2>1, <2>4, InvParts DEF RestTyped
<1> QED BY <1>6, <1>7

LEMMA ApproveGateStep ==
  ASSUME RouterInv, NEW g \in Gates, ApproveGate(g)
  PROVE  RouterInv'
<1> DEFINE c == ChannelOf(g)
           x == [Idle EXCEPT !.pc = "enter", !.kind = "notify", !.chan = c]
<1>1. RestTyped /\ Counted /\ CallsOK /\ call \in [Callers -> Calls] /\ Human \in Callers
  BY InvParts
<1>2. c \in Channels /\ Gated(c)
  BY GateHasChannel
<1> HIDE DEF c
<1>3. x \in Calls /\ x.pc = "enter" /\ x.kind = "notify" /\ x.chan = c
  BY <1>2 DEF Idle, Calls, Pcs
<1>4. call' = Witnessed([call EXCEPT ![Human] = x], g)
  BY DEF ApproveGate, c
<1> HIDE DEF x
<1>5. SawOpen(x) /\ OnItsWay(x)
  BY <1>2, <1>3 DEF SawOpen, OnItsWay
<1>6. CallsMoveOn
  BY <1>1, <1>3, <1>4, <1>5, BegunOK
<1>7. Counted' /\ RestTyped'
  BY <1>1 DEF ApproveGate, Counted, RestTyped
<1> QED BY <1>6, <1>7, InvParts

(* The steps that move no call. *)
LEMMA CallsStay ==
  ASSUME RouterInv, UNCHANGED call
  PROVE  CallsMoveOn
BY InvParts DEF CallsMoveOn, CallsOK

LEMMA RestStep ==
  ASSUME RouterInv,
         (\E g \in Gates : RejectGate(g)) \/ HumanTouch \/ RunEnds
         \/ (\E c \in Channels : NodeIdle(c)) \/ UNCHANGED rvars
  PROVE  RouterInv'
<1>1. RestTyped /\ Counted
  BY InvParts
<1>2. UNCHANGED call
  BY DEF RejectGate, HumanTouch, RunEnds, NodeIdle, rvars
<1>3. CASE \E g \in Gates : RejectGate(g)
  BY <1>1, <1>2, <1>3, CallsStay, InvParts DEF RejectGate, RestTyped, Counted
<1>4. CASE HumanTouch
  <2>1. Counted'
    BY <1>4, CycleAssumption DEF CycleAssumption, HumanTouch, Counted
  <2>2. RestTyped'
    BY <1>1, <1>4 DEF HumanTouch, RestTyped
  <2> QED BY <1>2, <2>1, <2>2, CallsStay, InvParts
<1>5. CASE RunEnds
  BY <1>1, <1>2, <1>5, CallsStay, InvParts DEF RunEnds, Evict, RestTyped, Counted
<1>6. CASE \E c \in Channels : NodeIdle(c)
  BY <1>1, <1>2, <1>6, CallsStay, InvParts DEF NodeIdle, RestTyped, Counted
<1>7. CASE UNCHANGED rvars
  BY <1>1, <1>2, <1>7, CallsStay, InvParts DEF rvars, RestTyped, Counted
<1> QED BY <1>3, <1>4, <1>5, <1>6, <1>7

-----------------------------------------------------------------------------
(* The invariant *)

LEMMA RouterInvariant == RouterSpec => []RouterInv
<1>1. RouterInit => RouterInv
  <2> SUFFICES ASSUME RouterInit PROVE RouterInv
    OBVIOUS
  <2>1. RestTyped
    BY DEF RouterInit, RestTyped
  <2>2. Counted
    BY CycleAssumption DEF RouterInit, Counted, CycleAssumption
  <2>3. SawOpen(Idle) /\ OnItsWay(Idle)
    BY DEF Idle, SawOpen, OnItsWay
  <2>4. CallsOK /\ call \in [Callers -> Calls]
    BY <2>3, IdleIsCall DEF RouterInit, CallsOK
  <2> QED BY <2>1, <2>2, <2>4, InvParts
<1>2. RouterInv /\ [RouterNext]_rvars => RouterInv'
  <2> SUFFICES ASSUME RouterInv, [RouterNext]_rvars PROVE RouterInv'
    OBVIOUS
  <2>1. CASE \E p \in Callers : Step(p)
    BY <2>1, CallStep
  <2>2. CASE \E p \in Agents, c \in Channels, vote \in BOOLEAN : Send(p, c, vote)
    BY <2>2, SendStep
  <2>3. CASE \E g \in Gates : ApproveGate(g)
    BY <2>3, ApproveGateStep
  <2>4. CASE \/ (\E g \in Gates : RejectGate(g)) \/ HumanTouch \/ RunEnds
             \/ (\E c \in Channels : NodeIdle(c)) \/ UNCHANGED rvars
    BY <2>4, RestStep
  <2> QED BY <2>1, <2>2, <2>3, <2>4 DEF RouterNext, Environment
<1> QED BY <1>1, <1>2, PTL DEF RouterSpec

(* Every row, call and the thread keep their types, whatever the workflow.     *)
THEOREM RouterTypeCorrect == RouterSpec => []RouterTypeOK
<1>1. RouterInv => RouterTypeOK
  BY DEF RouterInv
<1> QED BY <1>1, RouterInvariant, PTL

(* The cap of a cyclic channel holds for any number of agents that send at     *)
(* once: what the counter admits is what went through.                         *)
THEOREM CapHolds == RouterSpec => []TripBudget
<1>1. RouterInv => TripBudget
  <2> SUFFICES ASSUME RouterInv, NEW c \in Cyclic PROVE trips[c] <= MaxCycles
    BY DEF TripBudget
  <2>1. trips[c] = count[c] /\ count[c] <= MaxCycles
    BY DEF RouterInv
  <2> QED BY <2>1
<1> QED BY <1>1, RouterInvariant, PTL

(* No message passes a gate that resets on the answer of an earlier round.     *)
THEOREM ResettingGatesHold == RouterSpec => []ResetGatesHold
<1>1. RouterInv => ResetGatesHold
  <2> SUFFICES ASSUME RouterInv, NEW p \in Callers, call[p].pc = "finish",
                      call[p].kind = "deliver",
                      call[p].chan \in Cyclic /\ GateOf[call[p].chan] \in Resets
               PROVE  call[p].saw
    BY DEF ResetGatesHold
  <2> QED BY CallParts DEF SawOpen, Guarded, Past
<1> QED BY <1>1, RouterInvariant, PTL

-----------------------------------------------------------------------------
(* ---- an opened gate is somebody's ---- *)

(* A gate that is owed is open, and the node behind it not started. *)
OwedInv == \A g \in owed : data[g] /\ ~live[ChannelOf(g)]

LEMMA ChannelOfGate ==
  /\ \A g \in Gates : ChannelOf(g) \in Channels /\ GateOf[ChannelOf(g)] = g
  /\ \A c \in Channels : Gated(c) => GateOf[c] \in Gates /\ ChannelOf(GateOf[c]) = c
<1>1. \A g \in Gates : ChannelOf(g) \in Channels /\ GateOf[ChannelOf(g)] = g
  BY CycleAssumption DEF CycleAssumption, ChannelOf
<1>2. ASSUME NEW c \in Channels, Gated(c) PROVE GateOf[c] \in Gates /\ ChannelOf(GateOf[c]) = c
  <2>1. GateOf[c] \in Gates /\ GateOf[c] # Nil
    BY <1>2, CycleAssumption DEF CycleAssumption, Gated
  <2>2. ChannelOf(GateOf[c]) \in Channels /\ GateOf[ChannelOf(GateOf[c])] = GateOf[c]
    BY <1>1, <2>1
  <2> QED BY <2>1, <2>2, OneChannelPerGate DEF OneChannelPerGate
<1> QED BY <1>1, <1>2

LEMMA OwedStarts == RouterInit => OwedInv
BY DEF RouterInit, OwedInv

LEMMA OwedKept == RouterInv /\ OwedInv /\ [RouterNext]_rvars => OwedInv'
<1> SUFFICES ASSUME RouterInv, OwedInv, [RouterNext]_rvars PROVE OwedInv'
  OBVIOUS
<1>0. RestTyped
  BY InvParts
<1>1. ASSUME UNCHANGED <<data, live, owed>> PROVE OwedInv'
  BY <1>1 DEF OwedInv, ChannelOf
<1>2. ASSUME NEW p \in Callers, Activate(p) \/ Reopened(p) PROVE OwedInv'
  <2>1. data' = data
    BY <1>2 DEF Activate, Reopened
  <2>2. CASE UNCHANGED <<live, owed>>
    BY <2>1, <2>2, <1>1
  <2>3. ASSUME NEW c, live' = [live EXCEPT ![c] = TRUE], owed' = Paid({c}) PROVE OwedInv'
    BY <1>0, <2>1, <2>3, ChannelOfGate DEF OwedInv, Paid, RestTyped, ChannelOf
  <2> QED BY <1>2, <2>2, <2>3 DEF Activate, Reopened
<1>3. ASSUME NEW p \in Callers, Finish(p) PROVE OwedInv'
  <2>1. CASE UNCHANGED <<data, owed>>
    BY <1>1, <1>3, <2>1 DEF Finish
  <2>2. CASE data' = [g \in Gates |-> data[g] /\ g \notin Resets] /\ owed' = owed \ Resets
    BY <1>0, <1>3, <2>2 DEF Finish, OwedInv, RestTyped, ChannelOf
  <2> QED BY <1>3, <2>1, <2>2 DEF Finish
<1>4. ASSUME NEW p \in Agents, NEW c \in Channels, NEW vote \in BOOLEAN, Send(p, c, vote)
      PROVE  OwedInv'
  <2>1. CASE vote /\ Gated(c)
    <3>1. /\ data' = [data EXCEPT ![GateOf[c]] = TRUE] /\ live' = live
          /\ owed' = IF data[GateOf[c]] \/ live[c] \/ CapReached(c)
                     THEN owed ELSE owed \cup {GateOf[c]}
      BY <1>4, <2>1 DEF Send
    <3>2. GateOf[c] \in Gates /\ ChannelOf(GateOf[c]) = c
      BY <2>1, ChannelOfGate
    <3>3. ASSUME NEW g \in owed' PROVE data'[g] /\ ~live[ChannelOf(g)]
      BY <1>0, <3>1, <3>2, <3>3 DEF OwedInv, RestTyped
    <3> QED BY <3>1, <3>3 DEF OwedInv, ChannelOf
  <2>2. CASE ~(vote /\ Gated(c))
    BY <1>1, <1>4, <2>2 DEF Send
  <2> QED BY <2>1, <2>2
<1>5. ASSUME NEW g \in Gates, ApproveGate(g) PROVE OwedInv'
  <2>1. /\ data' = [data EXCEPT ![g] = TRUE] /\ live' = live
        /\ owed' \subseteq owed \cup {g}
        /\ g \in owed' => g \in owed \/ ~live[ChannelOf(g)]
    BY <1>5 DEF ApproveGate
  <2>2. ASSUME NEW h \in owed' PROVE data'[h] /\ ~live[ChannelOf(h)]
    BY <1>0, <2>1, <2>2 DEF OwedInv, RestTyped
  <2> QED BY <2>1, <2>2 DEF OwedInv, ChannelOf
<1>6. ASSUME NEW g \in Gates, RejectGate(g) PROVE OwedInv'
  BY <1>0, <1>6 DEF RejectGate, OwedInv, RestTyped, ChannelOf
<1>7. ASSUME HumanTouch \/ RunEnds \/ \E c \in Channels : NodeIdle(c) PROVE OwedInv'
  <2>1. owed' = owed /\ data' = data /\ \A c \in Channels : live'[c] => live[c]
    BY <1>0, <1>7 DEF HumanTouch, RunEnds, NodeIdle, RestTyped
  <2>2. \A g \in owed : ChannelOf(g) \in Channels
    BY <1>0, ChannelOfGate DEF RestTyped
  <2> QED BY <2>1, <2>2 DEF OwedInv, ChannelOf
<1>8. ASSUME NEW p \in Callers,
             \/ Enter(p) \/ Notice(p) \/ Recheck(p)
             \/ Evaluated(p, "first", "activate") \/ Evaluated(p, "second", "finish")
      PROVE  OwedInv'
  BY <1>1, <1>8 DEF Enter, Notice, Recheck, Evaluated
<1>9. CASE UNCHANGED rvars
  BY <1>1, <1>9 DEF rvars
<1> QED BY <1>2, <1>3, <1>4, <1>5, <1>6, <1>7, <1>8, <1>9 DEF RouterNext, Environment, Step

(* What a step of one call does to those who serve a gate: the others go on    *)
(* serving it, so only the call that moves is to be looked at.                 *)
LEMMA OthersServe ==
  ASSUME call \in [Callers -> Calls], NEW p \in Callers, NEW x, call' = [call EXCEPT ![p] = x],
         NEW g, WillStart(p, g) => WillStart(p, g)', Served(g)
  PROVE  Served(g)'
<1>1. PICK q \in Callers : WillStart(q, g)
  BY DEF Served
<1>2. CASE q = p
  BY <1>1, <1>2 DEF Served
<1>3. CASE q # p
  BY <1>1, <1>3 DEF Served, WillStart, ChannelOf
<1> QED BY <1>2, <1>3

(* A call that returns with a vote announces it. *)
LEMMA ReturnServes ==
  ASSUME RouterInv, NEW p \in Callers, Return(p), NEW g, call[p].vote, call[p].chan = ChannelOf(g)
  PROVE  WillStart(p, g)'
<1> DEFINE y == [Idle EXCEPT !.pc = "enter", !.kind = "notify", !.chan = call[p].chan]
<1>1. y.pc = "enter" /\ y.kind = "notify" /\ y.chan = call[p].chan
  BY DEF Idle
<1>2. call'[p] = y
  BY CallParts DEF Return
<1> HIDE DEF y
<1> QED BY <1>1, <1>2 DEF WillStart, ChannelOf

(* A call that goes on keeps its vote and its channel. *)
LEMMA ToServes ==
  ASSUME RouterInv, NEW p \in Callers, NEW to \in Pcs, To(p, to), NEW g,
         call[p].chan = ChannelOf(g), call[p].vote \/ to \in {"activate", "reopened"}
  PROVE  WillStart(p, g)'
<1> DEFINE x == [call[p] EXCEPT !.pc = to]
<1>1. x.pc = to /\ x.chan = call[p].chan /\ x.vote = call[p].vote
  BY CallParts, CallMoves
<1>2. call'[p] = x
  BY CallParts DEF To
<1> HIDE DEF x
<1> QED BY <1>1, <1>2 DEF WillStart, ChannelOf

LEMMA OneCallMoves ==
  ASSUME NEW p \in Callers, NEW to, Return(p) \/ To(p, to)
  PROVE  \E x : call' = [call EXCEPT ![p] = x]
BY DEF Return, To

(* The steps of a call: whoever was to start a gate that is still owed, still  *)
(* is, or was refused by the cap.                                              *)
Goes(p, g) == WillStart(p, g) /\ g \in owed' => WillStart(p, g)' \/ CapReached(ChannelOf(g))
Moves(p) == \E x : call' = [call EXCEPT ![p] = x]

LEMMA EnterServes ==
  ASSUME RouterInv, OwedInv, NEW p \in Callers, NEW g \in owed, Enter(p)
  PROVE  Goes(p, g) /\ Moves(p)
<1> DEFINE c == call[p].chan
           x == [call[p] EXCEPT !.pc = "first", !.read = data[GateOf[c]], !.saw = SeenOpen(p)]
<1>1. CASE Return(p)
  BY <1>1, ReturnServes, OneCallMoves DEF Goes, Moves, Enter, At, WillStart
<1>2. CASE To(p, "activate")
  <2>1. "activate" \in Pcs
    BY DEF Pcs
  <2> QED BY <1>2, <2>1, ToServes, OneCallMoves DEF Goes, Moves, WillStart
<1>3. CASE call' = [call EXCEPT ![p] = x]
  <2>1. x.chan = c /\ x.vote = call[p].vote /\ call'[p] = x
    BY <1>3, CallParts DEF Calls
  <2> HIDE DEF x
  <2>2. WillStart(p, g) => WillStart(p, g)'
    BY <2>1 DEF Enter, At, WillStart, ChannelOf
  <2> QED BY <1>3, <2>2 DEF Goes, Moves
<1> QED BY <1>1, <1>2, <1>3 DEF Enter

LEMMA NoticeServes ==
  ASSUME RouterInv, OwedInv, NEW p \in Callers, NEW g \in owed, Notice(p)
  PROVE  Goes(p, g) /\ Moves(p)
<1> DEFINE x == [call[p] EXCEPT !.pc = "first", !.read = data[GateOf[call[p].chan]]]
<1>1. call' = [call EXCEPT ![p] = x]
  BY DEF Notice
<1>2. /\ x.chan = call[p].chan /\ x.vote = call[p].vote /\ x.kind = "notify" /\ x.pc = "first"
      /\ x.read = data[GateOf[call[p].chan]] /\ call'[p] = x
  BY <1>1, CallParts DEF Calls, Notice
<1> HIDE DEF x
<1>3. ASSUME WillStart(p, g) PROVE WillStart(p, g)'
  <2>1. call[p].chan = ChannelOf(g) /\ g \in Gates /\ data[g]
    BY <1>3, InvParts DEF WillStart, OwedInv, RestTyped
  <2>2. x.read
    BY <1>2, <2>1, ChannelOfGate
  <2> QED BY <1>2, <2>1, <2>2 DEF WillStart, ChannelOf
<1> QED BY <1>1, <1>3 DEF Goes, Moves

LEMMA EvaluatedServes ==
  ASSUME RouterInv, OwedInv, NEW p \in Callers, NEW g \in owed,
         Evaluated(p, "first", "activate") \/ Evaluated(p, "second", "finish")
  PROVE  Goes(p, g) /\ Moves(p)
<1>1. CASE ~call[p].read
  BY <1>1, ReturnServes, OneCallMoves DEF Goes, Moves, Evaluated, At, WillStart
<1>2. CASE call[p].read
  <2>1. "activate" \in Pcs /\ "finish" \in Pcs
    BY DEF Pcs
  <2>2. CASE call[p].pc = "first" /\ To(p, "activate")
    BY <2>1, <2>2, ToServes, OneCallMoves DEF Goes, Moves, WillStart
  <2>3. CASE call[p].pc = "second" /\ To(p, "finish")
    BY <2>1, <2>3, ToServes, OneCallMoves DEF Goes, Moves, WillStart
  <2> QED BY <1>2, <2>2, <2>3 DEF Evaluated, At
<1> QED BY <1>1, <1>2

LEMMA ActivateServes ==
  ASSUME RouterInv, OwedInv, NEW p \in Callers, NEW g \in owed, Activate(p) \/ Reopened(p)
  PROVE  Goes(p, g) /\ Moves(p)
<1> DEFINE c == call[p].chan
<1>0. ASSUME WillStart(p, g) PROVE c = ChannelOf(g) /\ ~live[c]
  BY <1>0 DEF WillStart, OwedInv
<1>1. CASE Activate(p) /\ Return(p) /\ NothingToStart(c)
  <2>1. Moves(p)
    BY <1>1, OneCallMoves DEF Moves
  <2>2. WillStart(p, g) => CapReached(ChannelOf(g))
    BY <1>0, <1>1 DEF NothingToStart
  <2> QED BY <2>1, <2>2 DEF Goes
<1>2. CASE To(p, "recheck") /\ live[c]
  BY <1>0, <1>2, OneCallMoves DEF Goes, Moves
<1>3. CASE To(p, "reopened")
  <2>1. "reopened" \in Pcs
    BY DEF Pcs
  <2> QED BY <1>3, <2>1, ToServes, OneCallMoves DEF Goes, Moves, WillStart
<1>4. CASE To(p, AfterActivation(p)) /\ owed' = Paid({c})
  <2>1. WillStart(p, g) => g \notin owed'
    BY <1>0, <1>4 DEF Paid
  <2> QED BY <1>4, <2>1, OneCallMoves DEF Goes, Moves
<1> QED BY <1>1, <1>2, <1>3, <1>4 DEF Activate, Reopened

LEMMA RecheckServes ==
  ASSUME RouterInv, OwedInv, NEW p \in Callers, NEW g \in owed, Recheck(p)
  PROVE  Goes(p, g) /\ Moves(p)
<1> DEFINE b == data[GateOf[call[p].chan]]
           x == [call[p] EXCEPT !.pc = "second", !.read = b]
<1>1. CASE To(p, "finish")
  <2>1. "finish" \in Pcs
    BY DEF Pcs
  <2> QED BY <1>1, <2>1, ToServes, OneCallMoves DEF Goes, Moves, WillStart, Recheck, At
<1>2. CASE call' = [call EXCEPT ![p].pc = "second", ![p].read = b]
  <2>1. call' = [call EXCEPT ![p] = x]
    BY <1>2, CallParts
  <2>2. x.chan = call[p].chan /\ x.vote = call[p].vote /\ call'[p] = x
    BY <2>1, CallParts DEF Calls
  <2> HIDE DEF x
  <2>3. WillStart(p, g) => WillStart(p, g)'
    BY <2>2 DEF Recheck, At, WillStart, ChannelOf
  <2> QED BY <2>1, <2>3 DEF Goes, Moves
<1> QED BY <1>1, <1>2 DEF Recheck

LEMMA FinishServes ==
  ASSUME RouterInv, OwedInv, NEW p \in Callers, NEW g \in owed, Finish(p)
  PROVE  Goes(p, g) /\ Moves(p)
BY ReturnServes, OneCallMoves DEF Goes, Moves, Finish, At, WillStart

(* A step of the environment touches the call of an idle caller at most. *)
LEMMA IdleStartsNothing ==
  ASSUME NEW p \in Callers, NEW g \in Gates, call[p] = Idle
  PROVE  ~WillStart(p, g)
BY DEF Idle, WillStart

(* Seeing a gate open changes nobody's way. *)
LEMMA WitnessedServes ==
  ASSUME NEW calls \in [Callers -> Calls], NEW h \in Gates, call' = Witnessed(calls, h),
         NEW p \in Callers, NEW g,
         /\ calls[p].chan = ChannelOf(g)
         /\ \/ calls[p].vote
            \/ calls[p].kind = "notify" /\ calls[p].pc = "enter"
            \/ calls[p].kind = "notify" /\ calls[p].pc = "first" /\ calls[p].read
            \/ calls[p].pc \in {"activate", "reopened"}
  PROVE  WillStart(p, g)'
BY WitnessedOK DEF WillStart, ChannelOf

LEMMA SendServes ==
  ASSUME RouterInv, OwedInv, NEW p \in Agents, NEW c \in Channels, NEW vote \in BOOLEAN,
         Send(p, c, vote), NEW g \in owed', g \in owed => Served(g)
  PROVE  Served(g)'
<1> DEFINE x == [Idle EXCEPT !.pc = "enter", !.kind = "deliver", !.chan = c, !.vote = vote]
           begun == [call EXCEPT ![p] = x]
<1>0. p \in Callers /\ RestTyped /\ call \in [Callers -> Calls]
  BY InvParts
<1>1. x \in Calls /\ x.chan = c /\ x.vote = vote
  BY DEF Idle, Calls, Pcs
<1>2. begun \in [Callers -> Calls] /\ begun[p] = x /\ \A q \in Callers \ {p} : begun[q] = call[q]
  BY <1>0, <1>1
<1>3. g \in owed => \E q \in Callers \ {p} : WillStart(q, g)
  BY <1>0, IdleStartsNothing DEF Served, Send, RestTyped
<1>4. CASE vote /\ Gated(c)
  <2>1. GateOf[c] \in Gates /\ ChannelOf(GateOf[c]) = c
    BY <1>4, ChannelOfGate
  <2>2. call' = Witnessed(begun, GateOf[c]) /\ owed' \subseteq owed \cup {GateOf[c]}
    BY <1>4 DEF Send
  <2> HIDE DEF begun, x
  <2>3. CASE g = GateOf[c]
    <3>1. WillStart(p, g)'
      BY <1>0, <1>1, <1>2, <1>4, <2>1, <2>2, <2>3, WitnessedServes
    <3> QED BY <1>0, <3>1 DEF Served
  <2>4. CASE g \in owed
    <3>1. PICK q \in Callers \ {p} : WillStart(q, g)
      BY <1>3, <2>4
    <3>2. WillStart(q, g)'
      BY <1>2, <2>1, <2>2, <3>1, WitnessedServes DEF WillStart
    <3> QED BY <3>2 DEF Served
  <2> QED BY <2>2, <2>3, <2>4
<1>5. CASE ~(vote /\ Gated(c))
  <2>1. owed' = owed /\ call' = [begun EXCEPT ![p].vote = FALSE]
    BY <1>5 DEF Send
  <2>2. PICK q \in Callers \ {p} : WillStart(q, g)
    BY <1>3, <2>1
  <2>3. call'[q] = call[q]
    BY <1>0, <2>1
  <2> QED BY <2>2, <2>3 DEF Served, WillStart, ChannelOf
<1> QED BY <1>4, <1>5

LEMMA ApproveServes ==
  ASSUME RouterInv, OwedInv, NEW h \in Gates, ApproveGate(h), NEW g \in owed',
         g \in owed => Served(g)
  PROVE  Served(g)'
<1> DEFINE x == [Idle EXCEPT !.pc = "enter", !.kind = "notify", !.chan = ChannelOf(h)]
           begun == [call EXCEPT ![Human] = x]
<1>0. Human \in Callers /\ RestTyped /\ call \in [Callers -> Calls]
  BY InvParts
<1>1. x \in Calls /\ x.chan = ChannelOf(h) /\ x.kind = "notify" /\ x.pc = "enter"
  BY ChannelOfGate DEF Idle, Calls, Pcs
<1>2. begun \in [Callers -> Calls] /\ begun[Human] = x
      /\ \A q \in Callers \ {Human} : begun[q] = call[q]
  BY <1>0, <1>1
<1>3. call' = Witnessed(begun, h) /\ owed' \subseteq owed \cup {h}
  BY DEF ApproveGate
<1> HIDE DEF begun, x
<1>4. CASE g = h
  <2>1. WillStart(Human, g)'
    BY <1>0, <1>1, <1>2, <1>3, <1>4, WitnessedServes
  <2> QED BY <1>0, <2>1 DEF Served
<1>5. CASE g \in owed
  <2>1. PICK q \in Callers \ {Human} : WillStart(q, g)
    BY <1>0, <1>5, IdleStartsNothing DEF Served, ApproveGate, RestTyped
  <2>2. WillStart(q, g)'
    BY <1>2, <1>3, <2>1, WitnessedServes DEF WillStart
  <2> QED BY <2>2 DEF Served
<1> QED BY <1>3, <1>4, <1>5

ServedOn == \A g \in owed' : (g \in owed => Served(g)) => Served(g)' \/ CapReached(ChannelOf(g))

LEMMA RouterServes == RouterInv /\ OwedInv /\ [RouterNext]_rvars => [ServedOn]_rvars
<1> SUFFICES ASSUME RouterInv, OwedInv, RouterNext, NEW g \in owed', g \in owed => Served(g)
             PROVE  Served(g)' \/ CapReached(ChannelOf(g))
  BY DEF ServedOn
<1>1. ASSUME NEW p \in Callers, Step(p) PROVE Served(g)' \/ CapReached(ChannelOf(g))
  <2>1. g \in owed
    BY <1>1 DEF Step, Enter, Notice, Evaluated, Activate, Reopened, Recheck, Finish, Paid
  <2>2. Goes(p, g) /\ Moves(p)
    BY <1>1, <2>1, EnterServes, NoticeServes, EvaluatedServes, ActivateServes, RecheckServes,
       FinishServes DEF Step
  <2>3. PICK x : call' = [call EXCEPT ![p] = x]
    BY <2>2 DEF Moves
  <2> QED BY <2>1, <2>2, <2>3, OthersServe, InvParts DEF Goes
<1>2. CASE \E p \in Agents, c \in Channels, vote \in BOOLEAN : Send(p, c, vote)
  BY <1>2, SendServes
<1>3. CASE \E h \in Gates : ApproveGate(h)
  BY <1>3, ApproveServes
<1>4. CASE (\E h \in Gates : RejectGate(h)) \/ HumanTouch \/ RunEnds \/ \E c \in Channels : NodeIdle(c)
  <2>1. call' = call /\ g \in owed
    BY <1>4 DEF RejectGate, HumanTouch, RunEnds, NodeIdle
  <2> QED BY <2>1 DEF Served, WillStart, ChannelOf
<1> QED BY <1>1, <1>2, <1>3, <1>4 DEF RouterNext, Environment

(* An opened gate is never left to nobody, for any workflow and any number of  *)
(* agents: what OpenGateStartsNode needs besides fairness.                     *)
THEOREM OpenedGatesAreServed == RouterSpec => OpeningsAreServed
<1>1. RouterSpec => []OwedInv
  BY OwedStarts, OwedKept, RouterInvariant, PTL DEF RouterSpec
<1> QED BY <1>1, RouterInvariant, RouterServes, PTL DEF RouterSpec, OpeningsAreServed, ServedOn
=============================================================================
