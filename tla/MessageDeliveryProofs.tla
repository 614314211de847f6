------------------------ MODULE MessageDeliveryProofs ------------------------
(* What TLAPS proves about MessageDelivery, for any number of messages,        *)
(* queries and faults of every kind: types, that the queue never runs for a    *)
(* query that has ended, that callers and queued promises match, and, when no  *)
(* connection drops, that the rows keep the ledger.                            *)
EXTENDS MessageDelivery, WellFoundedInduction, TLAPS

LEMMA Bounds == /\ NumMsgs \in Nat \ {0} /\ MaxRuns \in Nat \ {0} /\ MaxFaults \in Nat
                /\ NoAttempt \notin Attempts
BY BoundsAssumption DEF BoundsAssumption, NoAttempt, Attempts, Runs

-----------------------------------------------------------------------------
(* Types *)

Refs == Attempts \cup {NoAttempt}
Owners == 0..MaxRuns
Queues == [entries : Seq(Entries), waiters : Seq(Attempts), running : BOOLEAN, gen : Owners]
Contexts == [promise : Owners, object : Refs, ctl : Refs, lastMsg : 0..NumMsgs, ack : BOOLEAN,
             status : {"idle", "queued", "processing", "interrupted"}]
RunStates == [pc : {"no", "boot", "live", "caught", "unwind", "over"}, attempt : {1, 2}]
SdkStates == [held : Entries \cup {NoEntry}, cap : Owners, turns : Nat,
              alive : BOOLEAN, spoke : BOOLEAN, aborted : BOOLEAN]
Steps == {"idle", "ensure", "start", "push", "wait",
          "failing", "stopping", "restart", "repush", "giveup"}
Replays == [pc : {"no", "trigger", "ensure", "start", "push", "wait"},
            todo : SUBSET Msgs, more : BOOLEAN]

(* TypeOK by the names above.                                                  *)
LEMMA Typed ==
  TypeOK <=> /\ row \in [Msgs -> Statuses] /\ covered \subseteq Msgs
             /\ mq \in Queues /\ ctx \in Contexts
             /\ run \in [Runs -> RunStates] /\ sdk \in [Attempts -> SdkStates]
             /\ handler \in [Msgs -> Steps] /\ flush \in [Owners -> Replays]
             /\ lifecycle \in {"no", "stopping", "start"}
             /\ stopping \in [0..NumMsgs -> Refs]
             /\ interrupting \in Interrupts /\ given \in [Msgs -> Nat]
             /\ faults \in 0..MaxFaults
BY DEF TypeOK, Queues, Contexts, RunStates, SdkStates, Steps, Replays, Refs, Owners

LEMMA TypedNext ==
  ASSUME /\ row' \in [Msgs -> Statuses] /\ covered' \subseteq Msgs
         /\ mq' \in Queues /\ ctx' \in Contexts
         /\ run' \in [Runs -> RunStates] /\ sdk' \in [Attempts -> SdkStates]
         /\ handler' \in [Msgs -> Steps] /\ flush' \in [Owners -> Replays]
         /\ lifecycle' \in {"no", "stopping", "start"}
         /\ stopping' \in [0..NumMsgs -> Refs]
         /\ interrupting' \in Interrupts /\ given' \in [Msgs -> Nat]
         /\ faults' \in 0..MaxFaults
  PROVE  TypeOK'
BY DEF TypeOK, Queues, Contexts, RunStates, SdkStates, Steps, Replays, Refs, Owners

LEMMA QueueFields ==
  ASSUME TypeOK
  PROVE  /\ mq.entries \in Seq(Entries) /\ mq.waiters \in Seq(Attempts)
         /\ mq.running \in BOOLEAN /\ mq.gen \in Owners
BY DEF TypeOK, Owners

LEMMA QueueStops ==
  ASSUME NEW q \in Queues
  PROVE  /\ Stopped(q) \in Queues /\ Emptied(q) \in Queues /\ Emptied(Stopped(q)) \in Queues
         /\ ~ Stopped(q).running /\ Stopped(q).entries = q.entries /\ Stopped(q).gen = q.gen
         /\ Emptied(q).running = q.running /\ Emptied(q).entries = <<>> /\ Emptied(q).gen = q.gen
<1>0. <<>> \in Seq(Entries) /\ <<>> \in Seq(Attempts)
  OBVIOUS
<1>1. ASSUME NEW x \in Queues
      PROVE  /\ Stopped(x) \in Queues /\ ~ Stopped(x).running
             /\ Stopped(x).entries = x.entries /\ Stopped(x).gen = x.gen
  BY <1>0, <1>1 DEF Stopped, Queues
<1>2. ASSUME NEW x \in Queues
      PROVE  /\ Emptied(x) \in Queues /\ Emptied(x).running = x.running
             /\ Emptied(x).entries = <<>> /\ Emptied(x).gen = x.gen
  BY <1>0, <1>2 DEF Emptied, Queues
<1> QED BY <1>1, <1>2

LEMMA QueueGrows ==
  ASSUME NEW q \in Queues, NEW e \in Entries
  PROVE  /\ Pushed(q, e) \in Queues
         /\ Pushed(q, e).running = q.running /\ Pushed(q, e).gen = q.gen
         /\ Pushed(q, e).entries = Append(q.entries, e)
BY DEF Pushed, Queues

LEMMA QueueParks ==
  ASSUME NEW q \in Queues, NEW a \in Attempts
  PROVE  /\ [q EXCEPT !.waiters = Append(@, a)] \in Queues
         /\ [q EXCEPT !.waiters = Append(@, a)].entries = q.entries
         /\ [q EXCEPT !.waiters = Append(@, a)].running = q.running
         /\ [q EXCEPT !.waiters = Append(@, a)].gen = q.gen
<1>1. q.waiters \in Seq(Attempts)
  BY DEF Queues
<1>2. Append(q.waiters, a) \in Seq(Attempts)
  BY <1>1
<1> QED BY <1>2 DEF Queues

LEMMA QueueStarts ==
  ASSUME TypeOK, CanStart
  PROVE  /\ StartedQueue \in Queues /\ StartedRun \in [Runs -> RunStates]
         /\ StartedPromise \in Owners
         /\ StartedQueue.running /\ StartedQueue.entries = mq.entries
         /\ IF mq.running THEN StartedQueue = mq /\ StartedRun = run
            ELSE StartedQueue.gen \in Runs /\ StartedRun[StartedQueue.gen].pc = "boot"
<1>1. mq \in Queues /\ run \in [Runs -> RunStates] /\ ctx \in Contexts
  BY Typed
<1>2. ~ mq.running => mq.gen + 1 \in Runs /\ mq.gen + 1 \in Owners
  BY <1>1, Bounds DEF CanStart, Queues, Owners, Runs
<1>3. StartedQueue \in Queues /\ StartedQueue.running /\ StartedQueue.entries = mq.entries
  BY <1>1, <1>2 DEF StartedQueue, Queues
<1>4. StartedRun \in [Runs -> RunStates]
  BY <1>1, <1>2 DEF StartedRun, RunStates
<1>5. StartedPromise \in Owners
  BY <1>1, <1>2 DEF StartedPromise, Contexts
<1>6. ASSUME ~ mq.running
      PROVE  StartedQueue.gen \in Runs /\ StartedRun[StartedQueue.gen].pc = "boot"
  <2>1. StartedQueue.gen = mq.gen + 1
    BY <1>1, <1>6 DEF StartedQueue, Queues
  <2>2. StartedRun[mq.gen + 1].pc = "boot"
    BY <1>1, <1>2, <1>6 DEF StartedRun, RunStates
  <2> QED BY <1>2, <1>6, <2>1, <2>2
<1> QED BY <1>3, <1>4, <1>5, <1>6 DEF StartedQueue, StartedRun

LEMMA QueueEnsured ==
  ASSUME TypeOK
  PROVE  /\ EnsuredQueue \in Queues /\ EnsuredObject \in Refs
         /\ EnsuredQueue.entries = mq.entries /\ EnsuredQueue.gen = mq.gen
         /\ EnsuredQueue.running => mq.running
BY Typed, QueueStops DEF EnsuredQueue, EnsuredObject, Contexts, Refs

LEMMA EntryFields ==
  ASSUME NEW e \in Entries
  PROVE  e.msg \in Msgs /\ e.owner \in Owners /\ e # NoEntry
BY DEF Entries, Owners, NoEntry, Msgs

LEMMA EntryOK ==
  ASSUME NEW m \in Msgs, NEW o \in Owners, NEW by \in {"send", "resend", "redo", "flush"}
  PROVE  /\ EntryOf(m, by, o) \in Entries
         /\ EntryOf(m, by, o).msg = m /\ EntryOf(m, by, o).by = by /\ EntryOf(m, by, o).owner = o
BY DEF EntryOf, Entries, Owners

LEMMA FlushSteps ==
  ASSUME NEW f \in Replays
  PROVE  /\ EndOf(f) \in Replays /\ EndOf(f).todo = {} /\ EndOf(f).pc \in {"no", "trigger"}
         /\ StepOf(f) \in Replays
         /\ StepOf(f).todo = f.todo \ {First(f.todo)} /\ StepOf(f).pc \in {"no", "trigger", "push"}
         /\ f.todo # {} => (StepOf(f).pc = "push" <=> StepOf(f).todo # {})
         /\ NoFlush \in Replays /\ Triggering \in Replays
<1>1. EndOf(f) \in Replays /\ EndOf(f).todo = {} /\ EndOf(f).pc \in {"no", "trigger"}
      /\ NoFlush \in Replays /\ Triggering \in Replays
  BY DEF EndOf, NoFlush, Triggering, Replays
<1>2. CASE f.todo = {First(f.todo)}
  BY <1>1, <1>2 DEF StepOf
<1>3. CASE f.todo # {First(f.todo)}
  <2>1. /\ StepOf(f) \in Replays /\ StepOf(f).todo = f.todo \ {First(f.todo)}
        /\ StepOf(f).pc = "push"
    BY <1>3 DEF StepOf, Replays
  <2> QED BY <1>1, <1>3, <2>1
<1> QED BY <1>1, <1>2, <1>3

LEMMA SdkCloses ==
  ASSUME TypeOK, NEW a \in Refs
  PROVE  /\ Closed(a) \in [Attempts -> SdkStates]
         /\ \A b \in Attempts : Closed(a)[b].held = sdk[b].held
BY Typed DEF Closed, SdkStates, Refs

LEMMA AttemptOK ==
  ASSUME TypeOK, NEW r \in Runs
  PROVE  AttemptOf(r) \in Attempts /\ run[r] \in RunStates /\ r \in Owners
BY Typed, Bounds DEF AttemptOf, Attempts, RunStates, Runs, Owners

LEMMA ClearedTypes ==
  ASSUME TypeOK
  PROVE  ClearedHandlers \in [Msgs -> Steps] /\ ClearedFlush \in [Owners -> Replays]
<1>1. handler \in [Msgs -> Steps] /\ flush \in [Owners -> Replays]
  BY Typed
<1>2. ClearedHandlers \in [Msgs -> Steps]
  BY <1>1 DEF ClearedHandlers, Steps
<1>3. ClearedFlush \in [Owners -> Replays]
  BY <1>1, FlushSteps DEF ClearedFlush, Owners
<1> QED BY <1>2, <1>3

LEMMA TornOK ==
  ASSUME TypeOK, NEW r \in Runs
  PROVE  /\ Torn \in [Attempts -> SdkStates] /\ FinallyCloses(r) \in [Attempts -> SdkStates]
         /\ \A b \in Attempts : Torn[b].held = sdk[b].held /\ FinallyCloses(r)[b].held = sdk[b].held
<1>1. sdk \in [Attempts -> SdkStates] /\ AttemptOf(r) \in Attempts
  BY Typed, AttemptOK
<1>2. Torn \in [Attempts -> SdkStates] /\ \A b \in Attempts : Torn[b].held = sdk[b].held
  BY <1>1 DEF Torn, SdkStates
<1>3. ASSUME NEW s \in [Attempts -> SdkStates], \A b \in Attempts : s[b].held = sdk[b].held
      PROVE  LET t == [s EXCEPT ![AttemptOf(r)].alive = FALSE]
             IN  /\ t \in [Attempts -> SdkStates]
                 /\ \A b \in Attempts : t[b].held = sdk[b].held
  BY <1>1, <1>3 DEF SdkStates
<1>4. FinallyCloses(r) \in [Attempts -> SdkStates]
      /\ \A b \in Attempts : FinallyCloses(r)[b].held = sdk[b].held
  <2>1. CASE Current(r)
    BY <1>2, <1>3, <2>1 DEF FinallyCloses
  <2>2. CASE ~ Current(r)
    BY <1>1, <1>3, <2>2 DEF FinallyCloses
  <2> QED BY <2>1, <2>2
<1> QED BY <1>2, <1>4

LEMMA FinallyTypes ==
  ASSUME TypeOK, NEW r \in Runs, Finally(r, mq)
  PROVE  /\ mq' \in Queues /\ ctx' \in Contexts /\ run' \in [Runs -> RunStates]
         /\ mq'.entries = mq.entries
         /\ \/ ~ mq'.running
            \/ mq' = mq /\ mq.gen # r /\ run'[mq.gen] = run[mq.gen]
<1>1. mq \in Queues /\ ctx \in Contexts /\ run \in [Runs -> RunStates]
  BY Typed
<1>2. CASE Current(r)
  <2>1. mq' = Stopped(mq)
    BY <1>2 DEF Finally
  <2>2. ctx' \in Contexts
    BY <1>1, <1>2 DEF Finally, Contexts, Refs
  <2>3. run' \in [Runs -> RunStates]
    BY <1>1, <1>2 DEF Finally, RunStates
  <2> QED BY <1>1, <2>1, <2>2, <2>3, QueueStops
<1>3. CASE ~ Current(r)
  <2>1. run' \in [Runs -> RunStates] /\ run' = [run EXCEPT ![r].pc = "over"]
    BY <1>1, <1>3 DEF Finally, RunStates
  <2>2. mq' = mq /\ ctx' = ctx /\ mq.gen # r
    BY <1>3 DEF Finally, Current
  <2> QED BY <1>1, <2>1, <2>2
<1> QED BY <1>2, <1>3

LEMMA CatchTypes ==
  ASSUME TypeOK, NEW r \in Runs, Catch(r)
  PROVE  /\ handler' \in [Msgs -> Steps] /\ flush' \in [Owners -> Replays]
         /\ ctx' \in Contexts /\ run' \in [Runs -> RunStates] /\ sdk' \in [Attempts -> SdkStates]
         /\ \A a \in Attempts : sdk'[a].held = sdk[a].held
         /\ run'[r].pc = "caught" /\ \A s \in Runs : s # r => run'[s] = run[s]
<1>1. ctx \in Contexts /\ run \in [Runs -> RunStates] /\ sdk \in [Attempts -> SdkStates]
      /\ AttemptOf(r) \in Attempts
  BY Typed, AttemptOK
<1>2. handler' \in [Msgs -> Steps] /\ flush' \in [Owners -> Replays]
  BY ClearedTypes DEF Catch
<1>3. ctx' \in Contexts
  BY <1>1 DEF Catch, Contexts
<1>4. /\ run' \in [Runs -> RunStates] /\ run'[r].pc = "caught"
      /\ \A s \in Runs : s # r => run'[s] = run[s]
  BY <1>1 DEF Catch, RunStates
<1>5. /\ sdk' \in [Attempts -> SdkStates]
      /\ \A a \in Attempts : sdk'[a].held = sdk[a].held
  BY <1>1 DEF Catch, SdkStates
<1> QED BY <1>2, <1>3, <1>4, <1>5

LEMMA RetryTypes ==
  ASSUME TypeOK, NEW r \in Runs, Retry(r)
  PROVE  /\ run' \in [Runs -> RunStates] /\ sdk' \in [Attempts -> SdkStates]
         /\ \A a \in Attempts : sdk'[a].held = sdk[a].held
         /\ run'[r].pc = "boot" /\ \A s \in Runs : s # r => run'[s] = run[s]
<1>1. run \in [Runs -> RunStates] /\ AttemptOf(r) \in Attempts /\ ctx.object \in Refs
  BY Typed, AttemptOK DEF Contexts
<1>2. Closed(ctx.object) \in [Attempts -> SdkStates]
      /\ \A a \in Attempts : Closed(ctx.object)[a].held = sdk[a].held
  BY <1>1, SdkCloses
<1>3. /\ sdk' \in [Attempts -> SdkStates]
      /\ \A a \in Attempts : sdk'[a].held = sdk[a].held
  BY <1>1, <1>2 DEF Retry, SdkStates
<1>4. /\ run' \in [Runs -> RunStates] /\ run'[r].pc = "boot"
      /\ \A s \in Runs : s # r => run'[s] = run[s]
  BY <1>1 DEF Retry, RunStates
<1> QED BY <1>3, <1>4

LEMMA StopTypes ==
  ASSUME TypeOK, NEW w \in 0..NumMsgs, StopEnds(w)
  PROVE  /\ sdk' \in [Attempts -> SdkStates] /\ ctx' \in Contexts
         /\ stopping' \in [0..NumMsgs -> Refs]
         /\ \A a \in Attempts : sdk'[a].held = sdk[a].held
<1>1. ctx \in Contexts /\ ctx.object \in Refs /\ stopping \in [0..NumMsgs -> Refs]
      /\ sdk \in [Attempts -> SdkStates]
  BY Typed DEF Contexts
<1>2. 0 \in Owners /\ NoAttempt \in Refs
  BY Bounds DEF Owners, Refs
<1>3. ctx' \in Contexts
  BY <1>1, <1>2 DEF StopEnds, Contexts
<1>4. stopping' \in [0..NumMsgs -> Refs]
  BY <1>1, <1>2 DEF StopEnds
<1> QED BY <1>1, <1>3, <1>4, SdkCloses DEF StopEnds

LEMMA SpendOK ==
  ASSUME TypeOK, NEW k, Spend(k)
  PROVE  faults' \in 0..MaxFaults
BY Typed, Bounds DEF Spend

(* A non-empty set of messages has a first.                                    *)
LEMMA FirstIsListed ==
  ASSUME NEW todo \in SUBSET Msgs, todo # {}
  PROVE  First(todo) \in todo /\ First(todo) \in Msgs
<1>1. todo \subseteq Nat
  BY Bounds DEF Msgs
<1>2. PICK m \in todo : \A l \in todo : ~ (<<l, m>> \in OpToRel(<, Nat))
  BY <1>1, NatLessThanWellFounded, WFMin
<1>3. ASSUME NEW l \in todo PROVE m <= l
  <2>1. ~ (<<l, m>> \in OpToRel(<, Nat))
    BY <1>2
  <2>2. ~(l < m)
    BY <1>1, <2>1 DEF OpToRel
  <2>3. ~(l < m) => m <= l
    BY <1>1
  <2> QED BY <2>2, <2>3
<1>4. \E x \in todo : \A l \in todo : x <= l
  BY <1>3
<1> QED BY <1>4 DEF First

LEMMA TriggerTypes ==
  ASSUME NEW rows
  PROVE  TriggerOf(rows) \in Replays /\ ReplayOf(rows) \in Replays /\ NoFlush \in Replays
BY DEF TriggerOf, ReplayOf, Replaying, RowsWith, NoFlush, Triggering, Replays

(* A replay that has rows left is at one of its steps.                         *)
Listed == \A o \in Owners : flush[o].todo = {} <=> flush[o].pc \in {"no", "trigger"}

LEMMA TypeStep ==
  ASSUME TypeOK, Listed, [Next]_vars
  PROVE  TypeOK'
<1>0. /\ row \in [Msgs -> Statuses] /\ covered \subseteq Msgs
      /\ mq \in Queues /\ ctx \in Contexts
      /\ run \in [Runs -> RunStates] /\ sdk \in [Attempts -> SdkStates]
      /\ handler \in [Msgs -> Steps] /\ flush \in [Owners -> Replays]
      /\ lifecycle \in {"no", "stopping", "start"}
      /\ stopping \in [0..NumMsgs -> Refs]
      /\ interrupting \in Interrupts /\ given \in [Msgs -> Nat]
      /\ faults \in 0..MaxFaults
  BY Typed
<1>a. 0 \in Owners /\ NoAttempt \in Refs /\ 0 \in 0..NumMsgs /\ Msgs \subseteq 0..NumMsgs
  BY Bounds DEF Owners, Refs, Msgs
<1>b. mq.gen \in Owners /\ ctx.object \in Refs /\ ctx.ctl \in Refs
  BY <1>0 DEF Queues, Contexts
<1>1. ASSUME NEW m \in Msgs, NEW later \in BOOLEAN, Persist(m, later) PROVE TypeOK'
  <2>1. row' \in [Msgs -> Statuses] /\ handler' \in [Msgs -> Steps]
    BY <1>0, <1>1 DEF Persist, Statuses, Steps
  <2> QED BY <1>0, <1>1, <2>1, TypedNext DEF Persist
<1>2. ASSUME NEW m \in Msgs, SendEnsure(m) PROVE TypeOK'
  <2>1. handler' \in [Msgs -> Steps]
    BY <1>0, <1>2 DEF SendEnsure, Steps
  <2>2. ctx' \in Contexts
    BY <1>0, <1>2, QueueEnsured DEF SendEnsure, Contexts
  <2> QED BY <1>0, <1>2, <2>1, <2>2, QueueEnsured, TypedNext DEF SendEnsure
<1>3. ASSUME NEW m \in Msgs, SendStart(m) PROVE TypeOK'
  <2>0. CanStart /\ mq' = StartedQueue /\ run' = StartedRun
    BY <1>3 DEF SendStart
  <2>1. handler' \in [Msgs -> Steps]
    BY <1>0, <1>3 DEF SendStart, Steps
  <2>2. ctx' \in Contexts
    BY <1>0, <1>3, <2>0, QueueStarts DEF SendStart, Contexts
  <2> QED BY <1>0, <1>3, <2>0, <2>1, <2>2, QueueStarts, TypedNext DEF SendStart
<1>4. ASSUME NEW m \in Msgs, SendPush(m) PROVE TypeOK'
  <2>1. handler' \in [Msgs -> Steps]
    BY <1>0, <1>4 DEF SendPush, Steps
  <2>2. mq' \in Queues
    BY <1>0, <1>a, <1>4, QueueGrows, EntryOK DEF SendPush
  <2> QED BY <1>0, <1>4, <2>1, <2>2, TypedNext DEF SendPush
<1>5. ASSUME NEW m \in Msgs, FailReset(m) PROVE TypeOK'
  <2>1. handler' \in [Msgs -> Steps] /\ flush' \in [Owners -> Replays]
    BY <1>5, ClearedTypes DEF FailReset, Steps
  <2>2. mq' \in Queues
    BY <1>0, <1>5, QueueStops DEF FailReset
  <2>3. ctx' \in Contexts
    BY <1>0, <1>5 DEF FailReset, Contexts
  <2>4. stopping' \in [0..NumMsgs -> Refs]
    BY <1>0, <1>a, <1>b, <1>5 DEF FailReset
  <2> QED BY <1>0, <1>5, <2>1, <2>2, <2>3, <2>4, TypedNext DEF FailReset
<1>6. ASSUME NEW m \in Msgs, FailStopped(m) PROVE TypeOK'
  <2>1. handler' \in [Msgs -> Steps]
    BY <1>0, <1>6 DEF FailStopped, Steps
  <2>2. StopEnds(m) /\ m \in 0..NumMsgs
    BY <1>a, <1>6 DEF FailStopped
  <2> QED BY <1>0, <1>6, <2>1, <2>2, StopTypes, TypedNext DEF FailStopped
<1>7. ASSUME NEW m \in Msgs, FailRestart(m) PROVE TypeOK'
  <2>0. CanStart /\ mq' = StartedQueue /\ run' = StartedRun
    BY <1>7 DEF FailRestart
  <2>1. handler' \in [Msgs -> Steps]
    BY <1>0, <1>7 DEF FailRestart, Steps
  <2>2. ctx' \in Contexts
    BY <1>0, <1>7, <2>0, QueueStarts DEF FailRestart, Contexts
  <2> QED BY <1>0, <1>7, <2>0, <2>1, <2>2, QueueStarts, TypedNext DEF FailRestart
<1>8. ASSUME NEW m \in Msgs, Repush(m) PROVE TypeOK'
  <2>1. handler' \in [Msgs -> Steps]
    BY <1>0, <1>8 DEF Repush, Steps
  <2>2. mq' \in Queues
    BY <1>0, <1>a, <1>8, QueueGrows, EntryOK, SMTT(30) DEF Repush
  <2> QED BY <1>0, <1>8, <2>1, <2>2, TypedNext DEF Repush
<1>9. ASSUME NEW m \in Msgs, GiveUp(m) PROVE TypeOK'
  <2>1. handler' \in [Msgs -> Steps] /\ row' \in [Msgs -> Statuses]
    BY <1>0, <1>9 DEF GiveUp, Steps, Statuses
  <2>2. ctx' \in Contexts
    BY <1>0, <1>9 DEF GiveUp, Contexts
  <2> QED BY <1>0, <1>9, <2>1, <2>2, TypedNext DEF GiveUp
<1>10. ASSUME NEW i \in 1..(2 * NumMsgs), Timeout(i) PROVE TypeOK'
  <2>0. /\ mq.entries \in Seq(Entries) /\ i \in DOMAIN mq.entries
        /\ DOMAIN mq.entries = 1..Len(mq.entries) /\ Len(mq.entries) \in Nat
    BY <1>10, QueueFields DEF Timeout
  <2> DEFINE es == [j \in 1..(Len(mq.entries) - 1) |-> mq.entries[IF j < i THEN j ELSE j + 1]]
             e == mq.entries[i]
  <2>1. es \in Seq(Entries)
    BY <2>0
  <2>2. mq' = [mq EXCEPT !.entries = es]
    BY <1>10 DEF Timeout
  <2>3. mq' \in Queues
    <3> HIDE DEF es
    <3> QED BY <1>0, <2>1, <2>2 DEF Queues
  <2>4. e \in Entries /\ e.msg \in Msgs /\ e.owner \in Owners
    BY <2>0, EntryFields
  <2>5. handler' \in [Msgs -> Steps]
    BY <1>0, <1>10, <2>4 DEF Timeout, Steps
  <2>6. flush' \in [Owners -> Replays]
    BY <1>0, <1>10, <2>4, FlushSteps DEF Timeout
  <2> HIDE DEF es, e
  <2> QED BY <1>0, <1>10, <2>3, <2>5, <2>6, TypedNext DEF Timeout
<1>11. ASSUME NEW a \in Attempts, Ask(a) PROVE TypeOK'
  <2> DEFINE e == sdk[a].held
  <2>1. e \in Entries /\ e.msg \in Msgs /\ e.owner \in Owners
    BY <1>0, <1>11, EntryFields DEF Ask, SdkStates
  <2>2. handler' \in [Msgs -> Steps]
    BY <1>0, <1>11, <2>1 DEF Ask, Steps
  <2>3. flush' \in [Owners -> Replays]
    BY <1>0, <1>11, <2>1, FlushSteps DEF Ask
  <2>4. sdk' \in [Attempts -> SdkStates]
    BY <1>0, <1>11 DEF Ask, SdkStates
  <2>5. mq' \in Queues
    BY <1>0, <1>11, QueueParks DEF Ask
  <2> QED BY <1>0, <1>11, <2>2, <2>3, <2>4, <2>5, TypedNext DEF Ask
<1>12. ASSUME NEW o \in Owners, FlushTrigger(o) PROVE TypeOK'
  <2>1. row' \in [Msgs -> Statuses]
    BY <1>0, <1>12 DEF FlushTrigger, Undeferred, Statuses
  <2>2. flush' \in [Owners -> Replays]
    BY <1>0, <1>12, TriggerTypes DEF FlushTrigger
  <2> QED BY <1>0, <1>12, <2>1, <2>2, TypedNext DEF FlushTrigger
<1>13. ASSUME NEW o \in Owners, FlushEnsure(o) PROVE TypeOK'
  <2>1. flush' \in [Owners -> Replays]
    BY <1>0, <1>13 DEF FlushEnsure, Replays
  <2>2. ctx' \in Contexts
    BY <1>0, <1>13, QueueEnsured DEF FlushEnsure, Contexts
  <2> QED BY <1>0, <1>13, <2>1, <2>2, QueueEnsured, TypedNext DEF FlushEnsure
<1>14. ASSUME NEW o \in Owners, FlushStart(o) PROVE TypeOK'
  <2>0. CanStart /\ mq' = StartedQueue /\ run' = StartedRun
    BY <1>14 DEF FlushStart
  <2>1. flush' \in [Owners -> Replays]
    BY <1>0, <1>14 DEF FlushStart, Replays
  <2>2. ctx' \in Contexts
    BY <1>0, <1>14, <2>0, QueueStarts DEF FlushStart, Contexts
  <2> QED BY <1>0, <1>14, <2>0, <2>1, <2>2, QueueStarts, TypedNext DEF FlushStart
<1>15. ASSUME NEW o \in Owners, FlushPush(o), First(flush[o].todo) \in Msgs PROVE TypeOK'
  <2>1. flush' \in [Owners -> Replays]
    BY <1>0, <1>15 DEF FlushPush, Replays
  <2>2. mq' \in Queues
    BY <1>0, <1>15, QueueGrows, EntryOK DEF FlushPush
  <2> QED BY <1>0, <1>15, <2>1, <2>2, TypedNext DEF FlushPush
<1>16. ASSUME NEW r \in Runs, Launch(r) PROVE TypeOK'
  <2>0. AttemptOf(r) \in Attempts
    BY AttemptOK
  <2>1. run' \in [Runs -> RunStates]
    BY <1>0, <1>16 DEF Launch, RunStates
  <2>2. sdk' \in [Attempts -> SdkStates]
    <3>1. [NoSdk EXCEPT !.alive = TRUE] \in SdkStates
      BY <1>a DEF NoSdk, SdkStates
    <3> QED BY <1>0, <1>16, <2>0, <3>1 DEF Launch
  <2>3. ctx' \in Contexts
    BY <1>0, <1>16, <2>0 DEF Launch, Contexts, Refs
  <2>4. mq' \in Queues
    BY <1>0, <1>16, <2>0, QueueParks DEF Launch
  <2> QED BY <1>0, <1>16, <2>1, <2>2, <2>3, <2>4, TypedNext DEF Launch
<1>17. ASSUME NEW r \in Runs, Caught(r) PROVE TypeOK'
  <2>1. Finally(r, mq) /\ sdk' = FinallyCloses(r)
    BY <1>17 DEF Caught
  <2> QED BY <1>0, <1>17, <2>1, FinallyTypes, TornOK, TypedNext DEF Caught
<1>18. ASSUME NEW r \in Runs, Unwound(r) PROVE TypeOK'
  <2>1. run' \in [Runs -> RunStates]
    <3>1. run[r] \in RunStates
      BY <1>0, <1>18
    <3>2. [run[r] EXCEPT !.attempt = 1] \in RunStates /\ [run[r] EXCEPT !.pc = "over"] \in RunStates
      BY <3>1 DEF RunStates
    <3>3. \/ run' = [run EXCEPT ![r] = [run[r] EXCEPT !.attempt = 1]]
          \/ run' = [run EXCEPT ![r] = [run[r] EXCEPT !.pc = "over"]]
      BY <1>18 DEF Unwound
    <3> QED BY <1>0, <1>18, <3>2, <3>3
  <2>2. sdk' \in [Attempts -> SdkStates] /\ mq' \in Queues
    BY <1>0, <1>18, TornOK, QueueStops DEF Unwound
  <2>3. ctx' \in Contexts
    BY <1>0, <1>a, <1>18 DEF Unwound, Contexts
  <2> QED BY <1>0, <1>18, <2>1, <2>2, <2>3, TypedNext DEF Unwound
<1>19. ASSUME NEW r \in Runs, Output(r) PROVE TypeOK'
  <2>0. AttemptOf(r) \in Attempts
    BY AttemptOK
  <2>1. sdk' \in [Attempts -> SdkStates]
    BY <1>0, <1>19, <2>0 DEF Output, SdkStates
  <2>2. covered' \subseteq Msgs
    BY <1>19 DEF Output
  <2> QED BY <1>0, <1>19, <2>1, <2>2, TypedNext DEF Output
<1>20. ASSUME NEW r \in Runs, Echo(r) PROVE TypeOK'
  <2>1. ctx' \in Contexts
    BY <1>0, <1>20 DEF Echo, Contexts
  <2> QED BY <1>0, <1>20, <2>1, TypedNext DEF Echo
<1>21. ASSUME NEW r \in Runs, Result(r) PROVE TypeOK'
  <2>0. AttemptOf(r) \in Attempts /\ r \in Owners
    BY AttemptOK
  <2>1. PICK left \in 0..(sdk[AttemptOf(r)].turns - 1) :
               sdk' = [sdk EXCEPT ![AttemptOf(r)].turns = left]
    BY <1>21 DEF Result
  <2>2. sdk[AttemptOf(r)].turns \in Nat
    BY <1>0, <2>0 DEF SdkStates
  <2>3. left \in Nat
    BY <2>2
  <2>4. sdk' \in [Attempts -> SdkStates]
    BY <1>0, <2>0, <2>1, <2>3 DEF SdkStates
  <2>5. row' \in [Msgs -> Statuses]
    BY <1>0, <1>21 DEF Result, Undeferred, Acknowledged, Statuses
  <2>6. flush' \in [Owners -> Replays]
    BY <1>0, <1>21, TriggerTypes DEF Result
  <2>7. ctx' \in Contexts
    BY <1>0, <1>21 DEF Result, Contexts
  <2> QED BY <1>0, <1>21, <2>4, <2>5, <2>6, <2>7, TypedNext DEF Result
<1>22. ASSUME NEW r \in Runs, End(r) PROVE TypeOK'
  <2>1. Finally(r, mq) /\ sdk' = FinallyCloses(r)
    BY <1>22 DEF End
  <2>2. faults' \in 0..MaxFaults
    BY <1>0, <1>22, SpendOK DEF End
  <2> QED BY <1>0, <1>22, <2>1, <2>2, FinallyTypes, TornOK, TypedNext DEF End
<1>23. ASSUME NEW r \in Runs, Fatal(r) PROVE TypeOK'
  <2>1. Catch(r) /\ Spend("fatal")
    BY <1>23 DEF Fatal
  <2> QED BY <1>0, <1>23, <2>1, CatchTypes, SpendOK, QueueStops, TypedNext DEF Fatal
<1>24. ASSUME NEW r \in Runs, StartupTimeout(r) PROVE TypeOK'
  <2>1. mq' \in Queues /\ faults' \in 0..MaxFaults
    BY <1>0, <1>24, SpendOK, QueueStops DEF StartupTimeout
  <2>2. CASE run[r].attempt = 1
    <3>1. Retry(r) /\ ctx' \in Contexts
      BY <1>0, <1>a, <1>24, <2>2 DEF StartupTimeout, Contexts
    <3> QED BY <1>0, <1>24, <2>1, <2>2, <3>1, RetryTypes, TypedNext DEF StartupTimeout
  <2>3. CASE run[r].attempt # 1
    <3>1. Catch(r)
      BY <1>24, <2>3 DEF StartupTimeout
    <3> QED BY <1>0, <1>24, <2>1, <2>3, <3>1, CatchTypes, TypedNext DEF StartupTimeout
  <2> QED BY <2>2, <2>3
<1>25. ASSUME NEW r \in Runs, Transient(r) PROVE TypeOK'
  <2>1. Redo \in Queues
    <3>1. ctx.lastMsg # 0 => ctx.lastMsg \in Msgs
      BY <1>0, Bounds DEF Contexts, Msgs
    <3> QED BY <1>0, <1>a, <3>1, QueueGrows, EntryOK DEF Redo
  <2>2. mq' \in Queues /\ faults' \in 0..MaxFaults
    BY <1>0, <1>25, <2>1, SpendOK, QueueStops DEF Transient
  <2>3. CASE run[r].attempt = 1 /\ ctx.status # "interrupted"
    <3>1. Retry(r) /\ ctx' \in Contexts
      BY <1>0, <1>a, <1>25, <2>3 DEF Transient, Contexts
    <3> QED BY <1>0, <1>25, <2>2, <2>3, <3>1, RetryTypes, TypedNext DEF Transient
  <2>4. CASE ~ (run[r].attempt = 1 /\ ctx.status # "interrupted")
    <3>1. Catch(r)
      BY <1>25, <2>4 DEF Transient
    <3> QED BY <1>0, <1>25, <2>2, <2>4, <3>1, CatchTypes, TypedNext DEF Transient
  <2> QED BY <2>3, <2>4
<1>26. ASSUME Take PROVE TypeOK'
  <2> DEFINE a == Head(mq.waiters)
             e == Head(mq.entries)
  <2>0. /\ mq.entries \in Seq(Entries) /\ mq.waiters \in Seq(Attempts)
        /\ mq.entries # <<>> /\ mq.waiters # <<>>
    BY <1>26, QueueFields DEF Take
  <2>1. /\ a \in Attempts /\ e \in Entries
        /\ Tail(mq.entries) \in Seq(Entries) /\ Tail(mq.waiters) \in Seq(Attempts)
    BY <2>0
  <2>2. e.msg \in Msgs /\ e.msg \in 0..NumMsgs
    BY <1>a, <2>1, EntryFields
  <2>3. mq' \in Queues
    BY <1>0, <1>26, <2>1 DEF Take, Queues
  <2>4. row' \in [Msgs -> Statuses] /\ covered' \subseteq Msgs
    BY <1>0, <1>26, <2>2 DEF Take, Statuses
  <2> HIDE DEF a, e
  <2>5. /\ ctx' = [ctx EXCEPT !.ack = @ \/ row[e.msg] \in {"enqueued", "deferred"},
                              !.status = "processing", !.lastMsg = e.msg]
        /\ sdk' = [sdk EXCEPT ![a].held = e, ![a].cap = mq.gen, ![a].turns = @ + 1]
        /\ given' = [given EXCEPT ![e.msg] = @ + 1]
    BY <1>26 DEF Take, a, e
  <2>6. ctx' \in Contexts
    BY <1>0, <2>2, <2>5 DEF Contexts
  <2>7. sdk' \in [Attempts -> SdkStates]
    <3>1. sdk[a].turns + 1 \in Nat /\ mq.gen \in Owners
      BY <1>0, <1>b, <2>1 DEF SdkStates
    <3>2. sdk' = [sdk EXCEPT ![a] = [sdk[a] EXCEPT !.held = e, !.cap = mq.gen,
                                                  !.turns = sdk[a].turns + 1]]
      BY <1>0, <2>1, <2>5
    <3>3. [sdk[a] EXCEPT !.held = e, !.cap = mq.gen, !.turns = sdk[a].turns + 1] \in SdkStates
      BY <1>0, <2>1, <3>1 DEF SdkStates
    <3> QED BY <1>0, <2>1, <3>2, <3>3
  <2>8. given' \in [Msgs -> Nat]
    BY <1>0, <2>2, <2>5
  <2>9. UNCHANGED <<run, handler, flush, lifecycle, stopping, interrupting, faults>>
    BY <1>26 DEF Take
  <2> QED BY <1>0, <2>3, <2>4, <2>6, <2>7, <2>8, <2>9, TypedNext
<1>27. ASSUME InterruptEnds PROVE TypeOK'
  <2>1. ctx' \in Contexts
    BY <1>0, <1>a, <1>27 DEF InterruptEnds, Contexts
  <2>2. interrupting' \in Interrupts
    BY <1>0, <1>27 DEF InterruptEnds, Interrupts
  <2> QED BY <1>0, <1>b, <1>27, <2>1, <2>2, SdkCloses, QueueStops, TypedNext DEF InterruptEnds
<1>28. ASSUME LifecycleStopped PROVE TypeOK'
  <2>1. StopEnds(0)
    BY <1>28 DEF LifecycleStopped
  <2> QED BY <1>0, <1>a, <1>28, <2>1, StopTypes, TypedNext DEF LifecycleStopped
<1>29. ASSUME LifecycleStarts PROVE TypeOK'
  <2>0. CanStart /\ mq' = StartedQueue /\ run' = StartedRun
    BY <1>29 DEF LifecycleStarts
  <2>1. ctx' \in Contexts
    BY <1>0, <1>29, <2>0, QueueStarts DEF LifecycleStarts, Contexts
  <2> QED BY <1>0, <1>29, <2>0, <2>1, QueueStarts, TypedNext DEF LifecycleStarts
<1>30. ASSUME Interrupt PROVE TypeOK'
  <2>1. ctx' \in Contexts
    BY <1>0, <1>a, <1>30 DEF Interrupt, Contexts
  <2>2. sdk' \in [Attempts -> SdkStates]
    <3>1. \A a \in Attempts : [sdk[a] EXCEPT !.aborted = TRUE] \in SdkStates
      BY <1>0 DEF SdkStates
    <3> QED BY <1>0, <1>30, <3>1 DEF Interrupt
  <2>3. interrupting' \in Interrupts
    BY <1>0, <1>30 DEF Interrupt, Interrupts
  <2> QED BY <1>0, <1>30, <2>1, <2>2, <2>3, ClearedTypes, SpendOK, QueueStops, TypedNext DEF Interrupt
<1>31. ASSUME UserReset PROVE TypeOK'
  <2>1. ctx' \in Contexts
    BY <1>0, <1>31 DEF UserReset, Contexts
  <2>2. stopping' \in [0..NumMsgs -> Refs] /\ lifecycle' \in {"no", "stopping", "start"}
    BY <1>0, <1>a, <1>b, <1>31 DEF UserReset
  <2>3. mq' \in Queues
    BY <1>0, <1>31, QueueStops DEF UserReset
  <2> QED BY <1>0, <1>31, <2>1, <2>2, <2>3, ClearedTypes, SpendOK, TypedNext DEF UserReset
<1>32. ASSUME UserRestart PROVE TypeOK'
  <2>1. stopping' \in [0..NumMsgs -> Refs]
    BY <1>0, <1>a, <1>b, <1>32 DEF UserRestart
  <2> QED BY <1>0, <1>32, <2>1, SpendOK, QueueStops, TypedNext DEF UserRestart
<1>33. ASSUME Crash PROVE TypeOK'
  <2>1. row' \in [Msgs -> Statuses]
    BY <1>0, <1>33 DEF Crash, Recovered, Statuses
  <2>2. mq' \in Queues /\ faults' \in 0..MaxFaults
    BY <1>0, <1>33, QueueStops, SpendOK DEF Crash
  <2>3. ctx' \in Contexts
    BY <1>a, <1>33 DEF Crash, FreshContext, Contexts
  <2>4. run' \in [Runs -> RunStates]
    BY <1>0, <1>33 DEF Crash, RunStates
  <2>5. sdk' \in [Attempts -> SdkStates]
    <3>1. NoSdk \in SdkStates
      BY <1>a DEF NoSdk, SdkStates
    <3> QED BY <1>33, <3>1 DEF Crash
  <2>6. handler' \in [Msgs -> Steps]
    BY <1>33 DEF Crash, Steps
  <2>7. flush' \in [Owners -> Replays]
    BY <1>33, TriggerTypes DEF Crash, Owners
  <2>8. stopping' \in [0..NumMsgs -> Refs]
    BY <1>a, <1>33 DEF Crash
  <2>9. interrupting' \in Interrupts
    BY <1>33 DEF Crash, NoInterrupt, Interrupts
  <2> QED BY <1>0, <1>33, <2>1, <2>2, <2>3, <2>4, <2>5, <2>6, <2>7, <2>8, <2>9, TypedNext DEF Crash
<1>34. ASSUME UNCHANGED vars PROVE TypeOK'
  BY <1>0, <1>34, TypedNext DEF vars
<1>35. ASSUME NEW o \in Owners, FlushPush(o) PROVE TypeOK'
  <2>1. flush[o].todo # {} /\ flush[o].todo \subseteq Msgs
    <3>1. flush[o].pc = "push" /\ flush[o].todo \subseteq Msgs
      BY <1>0, <1>35 DEF FlushPush, Replays
    <3> QED BY <3>1 DEF Listed
  <2> QED BY <1>15, <1>35, <2>1, FirstIsListed
<1> QED
  BY <1>1, <1>2, <1>3, <1>4, <1>5, <1>6, <1>7, <1>8, <1>9, <1>10, <1>11, <1>12, <1>13,
     <1>14, <1>16, <1>17, <1>18, <1>19, <1>20, <1>21, <1>22, <1>23, <1>24, <1>25,
     <1>26, <1>27, <1>28, <1>29, <1>30, <1>31, <1>32, <1>33, <1>34, <1>35
  DEF Next, Deliver, Replay, Drive, Supervise, Owners

-----------------------------------------------------------------------------
(* The queue serves its run *)

(* The queue is started together with a run, and every end of the current run  *)
(* stops it; a run that was superseded has another generation.                 *)
RunInv == mq.running => mq.gen \in Runs /\ run[mq.gen].pc \in {"boot", "live", "caught"}

LEMMA SameRun ==
  ASSUME RunInv, mq'.running => mq.running, mq'.gen = mq.gen, run' = run
  PROVE  RunInv'
BY DEF RunInv

LEMMA NewRun ==
  ASSUME TypeOK, RunInv, CanStart, mq' = StartedQueue, run' = StartedRun
  PROVE  RunInv'
BY QueueStarts DEF RunInv

(* A run that goes on, at whatever step, still serves the queue.               *)
LEMMA RunGoesOn ==
  ASSUME TypeOK, RunInv, NEW r \in Runs,
         mq'.running => mq.running, mq'.gen = mq.gen,
         run'[r].pc \in {"boot", "live", "caught"}, \A s \in Runs : s # r => run'[s] = run[s]
  PROVE  RunInv'
BY DEF RunInv

LEMMA FinallyStops ==
  ASSUME TypeOK, RunInv, NEW r \in Runs, Finally(r, mq)
  PROVE  RunInv'
BY FinallyTypes DEF RunInv

LEMMA RunStep ==
  ASSUME TypeOK, RunInv, [Next]_vars
  PROVE  RunInv'
<1>0. /\ mq \in Queues /\ run \in [Runs -> RunStates]
      /\ EnsuredQueue.gen = mq.gen /\ (EnsuredQueue.running => mq.running)
  BY Typed, QueueEnsured
<1>1. ASSUME NEW m \in Msgs, Deliver(m) PROVE RunInv'
  <2>1. CASE SendEnsure(m)
    BY <1>0, <2>1, SameRun DEF SendEnsure
  <2>2. CASE SendStart(m)
    BY <2>2, NewRun DEF SendStart
  <2>3. CASE SendPush(m)
    <3>1. EntryOf(m, "send", 0) \in Entries
      BY Bounds, EntryOK DEF Owners
    <3> QED BY <1>0, <2>3, <3>1, SameRun, QueueGrows DEF SendPush
  <2>4. CASE FailReset(m)
    BY <1>0, <2>4, SameRun, QueueStops DEF FailReset
  <2>5. CASE FailStopped(m)
    BY <2>5, SameRun DEF FailStopped
  <2>6. CASE FailRestart(m)
    BY <2>6, NewRun DEF FailRestart
  <2>7. CASE Repush(m)
    <3>1. EntryOf(m, "resend", 0) \in Entries
      BY Bounds, EntryOK DEF Owners
    <3> QED BY <1>0, <2>7, <3>1, SameRun, QueueGrows DEF Repush
  <2>8. CASE GiveUp(m)
    BY <2>8, SameRun DEF GiveUp
  <2> QED BY <1>1, <2>1, <2>2, <2>3, <2>4, <2>5, <2>6, <2>7, <2>8 DEF Deliver
<1>2. ASSUME NEW m \in Msgs, NEW later \in BOOLEAN, Persist(m, later) PROVE RunInv'
  BY <1>2, SameRun DEF Persist
<1>3. ASSUME NEW i \in 1..(2 * NumMsgs), Timeout(i) PROVE RunInv'
  BY <1>0, <1>3, SameRun DEF Timeout, Queues
<1>4. ASSUME NEW a \in Attempts, Ask(a) PROVE RunInv'
  BY <1>0, <1>4, SameRun, QueueParks DEF Ask
<1>5. ASSUME NEW o \in Owners, Replay(o) PROVE RunInv'
  <2>1. CASE FlushTrigger(o)
    BY <2>1, SameRun DEF FlushTrigger
  <2>2. CASE FlushEnsure(o)
    BY <1>0, <2>2, SameRun DEF FlushEnsure
  <2>3. CASE FlushStart(o)
    BY <2>3, NewRun DEF FlushStart
  <2>4. CASE FlushPush(o)
    BY <1>0, <2>4, SameRun DEF FlushPush, Pushed, Queues
  <2> QED BY <1>5, <2>1, <2>2, <2>3, <2>4 DEF Replay
<1>6. ASSUME NEW r \in Runs, Drive(r) PROVE RunInv'
  <2>1. CASE Launch(r)
    <3>1. mq'.running = mq.running /\ mq'.gen = mq.gen
      BY <1>0, <2>1, QueueParks, AttemptOK DEF Launch
    <3>2. run'[r].pc = "live" /\ \A s \in Runs : s # r => run'[s] = run[s]
      BY <1>0, <2>1 DEF Launch, RunStates
    <3> QED BY <3>1, <3>2, RunGoesOn
  <2>2. CASE Caught(r)
    BY <2>2, FinallyStops DEF Caught
  <2>3. CASE Unwound(r)
    <3>1. CASE mq' = mq
      <4>1. \A s \in Runs : s # r => run'[s] = run[s]
        BY <1>0, <2>3 DEF Unwound
      <4>2. run[r].pc = "unwind"
        BY <2>3 DEF Unwound
      <4> QED BY <3>1, <4>1, <4>2 DEF RunInv
    <3>2. CASE mq' = Stopped(mq)
      BY <1>0, <3>2, QueueStops DEF RunInv
    <3> QED BY <2>3, <3>1, <3>2 DEF Unwound
  <2> QED BY <1>6, <2>1, <2>2, <2>3 DEF Drive
<1>7. ASSUME NEW r \in Runs, Output(r) \/ Echo(r) \/ Result(r) PROVE RunInv'
  BY <1>7, SameRun DEF Output, Echo, Result
<1>8. ASSUME NEW r \in Runs, End(r) PROVE RunInv'
  BY <1>8, FinallyStops DEF End
<1>9. ASSUME NEW r \in Runs, Fatal(r) PROVE RunInv'
  BY <1>0, <1>9, QueueStops, CatchTypes, RunGoesOn DEF Fatal
<1>10. ASSUME NEW r \in Runs, StartupTimeout(r) PROVE RunInv'
  <2>1. ~ mq'.running
    BY <1>0, <1>10, QueueStops DEF StartupTimeout
  <2> QED BY <2>1 DEF RunInv
<1>11. ASSUME NEW r \in Runs, Transient(r) PROVE RunInv'
  <2>1. CASE run[r].attempt = 1 /\ ctx.status # "interrupted"
    <3>1. mq' = Redo /\ Retry(r)
      BY <1>11, <2>1 DEF Transient
    <3>2. mq'.running = mq.running /\ mq'.gen = mq.gen
      BY <1>0, <3>1 DEF Redo, Pushed, Queues
    <3> QED BY <3>1, <3>2, RetryTypes, RunGoesOn
  <2>2. CASE ~ (run[r].attempt = 1 /\ ctx.status # "interrupted")
    <3>1. mq' = Emptied(mq) /\ Catch(r)
      BY <1>11, <2>2 DEF Transient
    <3> QED BY <1>0, <3>1, QueueStops, CatchTypes, RunGoesOn
  <2> QED BY <2>1, <2>2
<1>12. CASE Take
  BY <1>0, <1>12, SameRun DEF Take, Queues
<1>13. CASE Supervise
  <2>1. CASE InterruptEnds
    BY <1>0, <2>1, SameRun, QueueStops DEF InterruptEnds
  <2>2. CASE LifecycleStopped
    BY <2>2, SameRun DEF LifecycleStopped
  <2>3. CASE LifecycleStarts
    BY <2>3, NewRun DEF LifecycleStarts
  <2> QED BY <1>13, <2>1, <2>2, <2>3 DEF Supervise
<1>14. CASE Interrupt
  BY <1>0, <1>14, SameRun, QueueStops DEF Interrupt
<1>15. CASE UserReset
  BY <1>0, <1>15, SameRun, QueueStops DEF UserReset
<1>16. CASE UserRestart
  BY <1>0, <1>16, SameRun, QueueStops DEF UserRestart
<1>17. CASE Crash
  <2>1. ~ mq'.running
    BY <1>0, <1>17, QueueStops DEF Crash
  <2> QED BY <2>1 DEF RunInv
<1>18. CASE UNCHANGED vars
  BY <1>18, SameRun DEF vars
<1> QED
  BY <1>1, <1>2, <1>3, <1>4, <1>5, <1>6, <1>7, <1>8, <1>9, <1>10, <1>11, <1>12, <1>13,
     <1>14, <1>15, <1>16, <1>17, <1>18
  DEF Next, Owners

-----------------------------------------------------------------------------
(* Promises *)

Unsent == {"absent", "deferred"}

(* Whoever is to be told of an entry has not moved on.                         *)
Waits(e, senders, replays) ==
  /\ e.by \in {"send", "resend"} => senders[e.msg] = "wait"
  /\ e.by = "flush" => replays[e.owner].pc = "wait" /\ First(replays[e.owner].todo) = e.msg

Apart(e, f) == e.by # "redo" /\ f.by # "redo" => e.msg # f.msg

(* The lists of the replays share no message, and a message that is on one, or *)
(* not sent yet, is in nobody else's hands.                                    *)
ListInv ==
  /\ Listed
  /\ \A o, p \in Owners : o # p => flush[o].todo \cap flush[p].todo = {}
  /\ \A o \in Owners : \A m \in flush[o].todo : handler[m] = "idle" /\ row[m] \notin Unsent
  /\ \A m \in Msgs : row[m] \in Unsent => handler[m] = "idle"

(* What an SDK was given but has not asked beyond is still to be settled, like *)
(* what is queued.                                                             *)
WaitInv ==
  /\ \A i \in DOMAIN mq.entries : Waits(mq.entries[i], handler, flush)
  /\ \A a \in Attempts : sdk[a].held # NoEntry => Waits(sdk[a].held, handler, flush)

ApartInv ==
  /\ \A i, j \in DOMAIN mq.entries : i # j => Apart(mq.entries[i], mq.entries[j])
  /\ \A a \in Attempts : sdk[a].held # NoEntry =>
       \A i \in DOMAIN mq.entries : Apart(mq.entries[i], sdk[a].held)
  /\ \A a, b \in Attempts : a # b /\ sdk[a].held # NoEntry /\ sdk[b].held # NoEntry
       => Apart(sdk[a].held, sdk[b].held)

PromiseInv == ListInv /\ WaitInv /\ ApartInv

LEMMA ListKept ==
  ASSUME ListInv, Listed', \A o \in Owners : flush'[o].todo \subseteq flush[o].todo,
         \A m \in Msgs : handler[m] = "idle" /\ row[m] \notin Unsent => handler'[m] = "idle",
         \A m \in Msgs : row'[m] \in Unsent => row[m] \in Unsent /\ handler'[m] = "idle",
         \A o \in Owners : flush[o].todo \subseteq Msgs
  PROVE  ListInv'
<1>1. \A o, p \in Owners : o # p => flush'[o].todo \cap flush'[p].todo = {}
  BY DEF ListInv
<1>2. \A o \in Owners : \A m \in flush'[o].todo : handler'[m] = "idle" /\ row'[m] \notin Unsent
  BY DEF ListInv
<1>3. \A m \in Msgs : row'[m] \in Unsent => handler'[m] = "idle"
  OBVIOUS
<1> QED BY <1>1, <1>2, <1>3 DEF ListInv

(* Entries that leave the queue, and answers that are dropped, bring nothing   *)
(* together.                                                                   *)
LEMMA ApartKept ==
  ASSUME ApartInv, NEW k, \A j \in DOMAIN mq'.entries : /\ k[j] \in DOMAIN mq.entries
                                                        /\ mq'.entries[j] = mq.entries[k[j]],
         \A i, j \in DOMAIN mq'.entries : i # j => k[i] # k[j],
         \A a \in Attempts : sdk'[a].held \in {sdk[a].held, NoEntry}
  PROVE  ApartInv'
<1>1. \A i, j \in DOMAIN mq'.entries : i # j => Apart(mq'.entries[i], mq'.entries[j])
  BY DEF ApartInv
<1>2. \A a \in Attempts : sdk'[a].held # NoEntry =>
        \A i \in DOMAIN mq'.entries : Apart(mq'.entries[i], sdk'[a].held)
  BY DEF ApartInv
<1>3. \A a, b \in Attempts : a # b /\ sdk'[a].held # NoEntry /\ sdk'[b].held # NoEntry
        => Apart(sdk'[a].held, sdk'[b].held)
  BY DEF ApartInv
<1> QED BY <1>1, <1>2, <1>3 DEF ApartInv, Apart

(* A step that settles no promise and queues nothing.                          *)
LEMMA PromisesKept ==
  ASSUME TypeOK, PromiseInv, mq'.entries = mq.entries,
         \A a \in Attempts : sdk'[a].held \in {sdk[a].held, NoEntry},
         \A m \in Msgs : handler[m] = "wait" => handler'[m] = "wait",
         \A m \in Msgs : handler[m] = "idle" /\ row[m] \notin Unsent => handler'[m] = "idle",
         \A o \in Owners : \/ flush'[o] = flush[o]
                           \/ /\ flush'[o].todo = flush[o].todo
                              /\ {flush[o].pc, flush'[o].pc} \subseteq {"ensure", "start", "push"},
         \A m \in Msgs : row'[m] \in Unsent => row[m] \in Unsent /\ handler'[m] = "idle"
  PROVE  PromiseInv'
<1>0. flush \in [Owners -> Replays] /\ mq.entries \in Seq(Entries) /\ sdk \in [Attempts -> SdkStates]
  BY Typed, QueueFields
<1>1. ListInv'
  <2>1. Listed'
    BY DEF PromiseInv, ListInv, Listed
  <2>2. \A o \in Owners : flush[o].todo \subseteq Msgs
    BY <1>0 DEF Replays
  <2> QED BY <2>1, <2>2, ListKept DEF PromiseInv
<1>2. ApartInv'
  <2> DEFINE k == [j \in DOMAIN mq.entries |-> j]
  <2>1. /\ \A j \in DOMAIN mq'.entries : k[j] \in DOMAIN mq.entries /\ mq'.entries[j] = mq.entries[k[j]]
        /\ \A i, j \in DOMAIN mq'.entries : i # j => k[i] # k[j]
    OBVIOUS
  <2> HIDE DEF k
  <2> QED BY <2>1, ApartKept DEF PromiseInv
<1>3. ASSUME NEW e \in Entries, Waits(e, handler, flush) PROVE Waits(e, handler', flush')
  <2>1. e.msg \in Msgs /\ e.owner \in Owners
    BY EntryFields
  <2> QED BY <1>3, <2>1 DEF Waits
<1>4. \A i \in DOMAIN mq.entries : mq.entries[i] \in Entries
  BY <1>0
<1>5. \A a \in Attempts : sdk[a].held # NoEntry => sdk[a].held \in Entries
  BY <1>0 DEF SdkStates
<1>6. \A i \in DOMAIN mq'.entries : Waits(mq.entries[i], handler', flush')
  <2>1. \A i \in DOMAIN mq.entries : Waits(mq.entries[i], handler, flush)
    BY DEF PromiseInv, WaitInv
  <2> QED BY <1>3, <1>4, <2>1 DEF Waits
<1>7. \A a \in Attempts : sdk'[a].held # NoEntry => Waits(sdk[a].held, handler', flush')
  <2>1. \A a \in Attempts : sdk[a].held # NoEntry => Waits(sdk[a].held, handler, flush)
    BY DEF PromiseInv, WaitInv
  <2> QED BY <1>3, <1>5, <2>1 DEF Waits
<1> QED BY <1>1, <1>2, <1>6, <1>7 DEF PromiseInv, WaitInv

(* The steps of a replay and of a delivery that leave the promises alone.      *)
LEMMA PromisesFramed ==
  ASSUME TypeOK, PromiseInv, mq'.entries = mq.entries, row' = row, flush' = flush,
         \A a \in Attempts : sdk'[a].held = sdk[a].held,
         \A m \in Msgs : handler[m] \in {"idle", "wait"} => handler'[m] = handler[m]
  PROVE  PromiseInv'
<1>1. PromiseInv => \A m \in Msgs : row[m] \in Unsent => handler[m] = "idle"
  BY DEF PromiseInv, ListInv
<1> QED BY <1>1, PromisesKept

(* Whoever holds a message waits, on its own or through the list of a replay.  *)
LEMMA Holder ==
  ASSUME TypeOK, ListInv, NEW e \in Entries, Waits(e, handler, flush), e.by # "redo"
  PROVE  \/ handler[e.msg] = "wait"
         \/ /\ e.by = "flush" /\ e.owner \in Owners
            /\ flush[e.owner].pc = "wait" /\ e.msg \in flush[e.owner].todo
            /\ handler[e.msg] = "idle" /\ row[e.msg] \notin Unsent
<1>1. CASE e.by \in {"send", "resend"}
  BY <1>1 DEF Waits
<1>2. CASE e.by = "flush"
  <2>1. e.owner \in Owners /\ flush \in [Owners -> Replays]
    BY EntryFields, Typed
  <2>2. flush[e.owner].pc = "wait" /\ First(flush[e.owner].todo) = e.msg
    BY <1>2 DEF Waits
  <2>3. flush[e.owner].todo # {} /\ flush[e.owner].todo \in SUBSET Msgs
    BY <2>1, <2>2 DEF ListInv, Listed, Replays
  <2>4. e.msg \in flush[e.owner].todo
    BY <2>2, <2>3, FirstIsListed
  <2> QED BY <1>2, <2>1, <2>2, <2>4 DEF ListInv
<1> QED BY <1>1, <1>2 DEF Entries

(* Nobody holds a message whose delivery is at another step, nor the next one  *)
(* of a replay that has not queued it yet.                                     *)
LEMMA NotHeld ==
  ASSUME TypeOK, PromiseInv, NEW m \in Msgs,
         \/ handler[m] \notin {"idle", "wait"}
         \/ \E o \in Owners : flush[o].pc # "wait" /\ m \in flush[o].todo
  PROVE  /\ \A i \in DOMAIN mq.entries : mq.entries[i].by # "redo" => mq.entries[i].msg # m
         /\ \A a \in Attempts : sdk[a].held # NoEntry /\ sdk[a].held.by # "redo" => sdk[a].held.msg # m
<1>0. mq.entries \in Seq(Entries) /\ sdk \in [Attempts -> SdkStates]
  BY Typed, QueueFields
<1>1. ASSUME NEW e \in Entries, Waits(e, handler, flush), e.by # "redo", e.msg = m PROVE FALSE
  <2>1. \/ handler[m] = "wait"
        \/ e.owner \in Owners /\ flush[e.owner].pc = "wait" /\ m \in flush[e.owner].todo /\ handler[m] = "idle"
    BY <1>1, Holder DEF PromiseInv
  <2>2. PICK o \in Owners : flush[o].pc # "wait" /\ m \in flush[o].todo
    BY <2>1
  <2>3. handler[m] = "idle"
    BY <2>2 DEF PromiseInv, ListInv
  <2>4. e.owner \in Owners /\ e.owner # o /\ m \in flush[e.owner].todo \cap flush[o].todo
    BY <2>1, <2>2, <2>3
  <2> QED BY <2>4 DEF PromiseInv, ListInv
<1>2. \A i \in DOMAIN mq.entries : mq.entries[i] \in Entries /\ Waits(mq.entries[i], handler, flush)
  BY <1>0 DEF PromiseInv, WaitInv
<1>3. \A a \in Attempts : sdk[a].held # NoEntry => sdk[a].held \in Entries /\ Waits(sdk[a].held, handler, flush)
  BY <1>0 DEF PromiseInv, WaitInv, SdkStates
<1> QED BY <1>1, <1>2, <1>3

LEMMA PromisePushed ==
  ASSUME TypeOK, WaitInv, ApartInv, NEW e \in Entries,
         mq'.entries = Append(mq.entries, e), \A a \in Attempts : sdk'[a].held = sdk[a].held,
         \A i \in DOMAIN mq.entries : Apart(mq.entries[i], e),
         \A a \in Attempts : sdk[a].held # NoEntry => Apart(e, sdk[a].held),
         Waits(e, handler', flush'),
         \A m \in Msgs : handler[m] = "wait" => handler'[m] = "wait",
         \A o \in Owners : flush[o].pc = "wait" => flush'[o] = flush[o]
  PROVE  WaitInv' /\ ApartInv'
<1>0. mq.entries \in Seq(Entries) /\ sdk \in [Attempts -> SdkStates]
  BY Typed, QueueFields
<1> DEFINE es == mq.entries
           n == Len(mq.entries) + 1
<1>1. /\ DOMAIN mq'.entries = 1..n /\ n \in Nat /\ DOMAIN es = 1..(n - 1)
      /\ mq'.entries[n] = e
      /\ \A i \in 1..n : i # n => i \in DOMAIN es /\ mq'.entries[i] = es[i]
  BY <1>0
<1>2. ASSUME NEW f \in Entries, Waits(f, handler, flush) PROVE Waits(f, handler', flush')
  <2>1. f.msg \in Msgs /\ f.owner \in Owners
    BY EntryFields
  <2> QED BY <1>2, <2>1 DEF Waits
<1>3. ASSUME NEW i \in DOMAIN mq'.entries PROVE Waits(mq'.entries[i], handler', flush')
  <2>1. CASE i = n
    BY <1>1, <2>1 DEF Waits
  <2>2. CASE i # n
    <3>1. es[i] \in Entries /\ Waits(es[i], handler, flush)
      BY <1>0, <1>1, <1>3, <2>2 DEF WaitInv
    <3>2. Waits(es[i], handler', flush')
      BY <1>2, <3>1 DEF Waits
    <3> QED BY <1>1, <1>3, <2>2, <3>2 DEF Waits
  <2> QED BY <2>1, <2>2
<1>4. ASSUME NEW a \in Attempts, sdk'[a].held # NoEntry PROVE Waits(sdk'[a].held, handler', flush')
  <2>1. sdk[a].held \in Entries /\ Waits(sdk[a].held, handler, flush)
    BY <1>0, <1>4 DEF WaitInv, SdkStates
  <2>2. Waits(sdk[a].held, handler', flush')
    BY <1>2, <2>1 DEF Waits
  <2> QED BY <1>4, <2>2 DEF Waits
<1>5. ASSUME NEW i \in DOMAIN mq'.entries, NEW j \in DOMAIN mq'.entries, i # j
      PROVE  Apart(mq'.entries[i], mq'.entries[j])
  <2> HIDE DEF es, n
  <2>1. CASE i # n /\ j # n
    BY <1>1, <1>5, <2>1 DEF ApartInv, es
  <2>2. CASE i = n
    BY <1>1, <1>5, <2>2 DEF Apart, es
  <2>3. CASE j = n
    BY <1>1, <1>5, <2>3 DEF Apart, es
  <2> QED BY <2>1, <2>2, <2>3
<1>6. ASSUME NEW a \in Attempts, sdk'[a].held # NoEntry, NEW i \in DOMAIN mq'.entries
      PROVE  Apart(mq'.entries[i], sdk'[a].held)
  <2> HIDE DEF es, n
  <2>1. CASE i = n
    BY <1>1, <1>6, <2>1 DEF es
  <2>2. CASE i # n
    BY <1>1, <1>6, <2>2 DEF ApartInv, es
  <2> QED BY <2>1, <2>2
<1>7. ASSUME NEW a \in Attempts, NEW b \in Attempts,
             a # b, sdk'[a].held # NoEntry, sdk'[b].held # NoEntry
      PROVE  Apart(sdk'[a].held, sdk'[b].held)
  BY <1>7 DEF ApartInv
<1> QED BY <1>3, <1>4, <1>5, <1>6, <1>7 DEF WaitInv, ApartInv, Apart

(* One promise is settled: a message the SDK asked beyond, or one that timed   *)
(* out.                                                                        *)
LEMMA PromiseSettled ==
  ASSUME TypeOK, PromiseInv, NEW e \in Entries, Waits(e, handler, flush), row' = row,
         NEW k, \A j \in DOMAIN mq'.entries : /\ k[j] \in DOMAIN mq.entries
                                              /\ mq'.entries[j] = mq.entries[k[j]]
                                              /\ Apart(mq.entries[k[j]], e),
         \A i, j \in DOMAIN mq'.entries : i # j => k[i] # k[j],
         \A a \in Attempts : sdk'[a].held \in {sdk[a].held, NoEntry},
         \A a \in Attempts : sdk'[a].held # NoEntry => Apart(sdk'[a].held, e),
         \A m \in Msgs : handler'[m] = handler[m] \/ (e.by \in {"send", "resend"} /\ m = e.msg),
         \A o \in Owners : \/ flush'[o] = flush[o]
                           \/ /\ e.by = "flush" /\ o = e.owner
                              /\ flush'[o] \in {StepOf(flush[o]), EndOf(flush[o])}
  PROVE  PromiseInv'
<1>0. /\ mq.entries \in Seq(Entries) /\ sdk \in [Attempts -> SdkStates]
      /\ flush \in [Owners -> Replays]
  BY Typed, QueueFields
<1>1. ApartInv'
  BY ApartKept DEF PromiseInv
<1>2. ASSUME NEW f \in Entries, Waits(f, handler, flush), Apart(f, e) PROVE Waits(f, handler', flush')
  <2>1. f.msg \in Msgs /\ f.owner \in Owners
    BY EntryFields
  <2>2. CASE f.by \in {"send", "resend"}
    <3>1. f.msg # e.msg \/ e.by \notin {"send", "resend"}
      BY <1>2, <2>2 DEF Apart
    <3>2. handler'[f.msg] = handler[f.msg]
      BY <2>1, <3>1
    <3> QED BY <1>2, <2>2, <3>2 DEF Waits
  <2>3. CASE f.by = "flush"
    <3>1. e.by = "flush" => f.owner # e.owner
      BY <1>2, <2>3 DEF Apart, Waits
    <3>2. flush'[f.owner] = flush[f.owner]
      BY <2>1, <3>1
    <3> QED BY <1>2, <2>3, <3>2 DEF Waits
  <2>4. CASE f.by = "redo"
    BY <2>4 DEF Waits
  <2> QED BY <2>2, <2>3, <2>4 DEF Entries
<1>3. ASSUME NEW i \in DOMAIN mq'.entries PROVE Waits(mq'.entries[i], handler', flush')
  <2>1. /\ mq'.entries[i] \in Entries /\ Waits(mq.entries[k[i]], handler, flush)
        /\ mq'.entries[i] = mq.entries[k[i]] /\ Apart(mq.entries[k[i]], e)
    BY <1>0, <1>3 DEF PromiseInv, WaitInv
  <2>2. Waits(mq.entries[k[i]], handler', flush')
    BY <1>2, <2>1 DEF Waits
  <2> QED BY <2>1, <2>2 DEF Waits
<1>4. ASSUME NEW a \in Attempts, sdk'[a].held # NoEntry PROVE Waits(sdk'[a].held, handler', flush')
  <2>1. /\ sdk[a].held \in Entries /\ Waits(sdk[a].held, handler, flush) /\ sdk'[a].held = sdk[a].held
        /\ Apart(sdk[a].held, e)
    BY <1>0, <1>4 DEF PromiseInv, WaitInv, SdkStates
  <2>2. Waits(sdk[a].held, handler', flush')
    BY <1>2, <2>1 DEF Waits
  <2> QED BY <2>1, <2>2 DEF Waits
<1>5. ListInv'
  <2>1. \A o \in Owners : flush[o].todo \subseteq Msgs
    BY <1>0 DEF Replays
  <2>2. ASSUME NEW o \in Owners
        PROVE  /\ flush'[o].todo \subseteq flush[o].todo
               /\ flush'[o].todo = {} <=> flush'[o].pc \in {"no", "trigger"}
    <3>1. CASE flush'[o] = flush[o]
      BY <3>1 DEF PromiseInv, ListInv, Listed
    <3>2. CASE flush'[o] # flush[o]
      <4>1. flush[o] \in Replays /\ flush[o].pc = "wait" /\ flush[o].todo # {}
        BY <1>0, <3>2 DEF Waits, PromiseInv, ListInv, Listed
      <4>2. flush'[o] \in {StepOf(flush[o]), EndOf(flush[o])}
        BY <3>2
      <4> QED BY <4>1, <4>2, FlushSteps
    <3> QED BY <3>1, <3>2
  <2>3. Listed'
    BY <2>2 DEF Listed
  <2>4. ASSUME NEW m \in Msgs, handler[m] = "idle" PROVE handler'[m] = "idle"
    BY <2>4 DEF Waits
  <2>5. \A m \in Msgs : row'[m] \in Unsent => row[m] \in Unsent /\ handler'[m] = "idle"
    BY <2>4 DEF PromiseInv, ListInv
  <2> QED BY <2>1, <2>2, <2>3, <2>4, <2>5, ListKept DEF PromiseInv
<1> QED BY <1>1, <1>3, <1>4, <1>5 DEF PromiseInv, WaitInv

(* clear settles every queued promise, and no other.                           *)
LEMMA PromisesCleared ==
  ASSUME TypeOK, PromiseInv, mq'.entries = <<>>, row' = row, flush' = ClearedFlush,
         \A a \in Attempts : sdk'[a].held = sdk[a].held,
         \A m \in Msgs : handler[m] \in {"idle", "wait"} => handler'[m] = ClearedHandlers[m]
  PROVE  PromiseInv'
<1>0. /\ mq.entries \in Seq(Entries) /\ sdk \in [Attempts -> SdkStates]
      /\ flush \in [Owners -> Replays]
  BY Typed, QueueFields
<1>1. \A i \in DOMAIN mq.entries : mq.entries[i] \in Entries /\ Waits(mq.entries[i], handler, flush)
  BY <1>0 DEF PromiseInv, WaitInv
<1>2. ASSUME NEW m \in Msgs, handler[m] = "idle" PROVE handler'[m] = "idle"
  <2>1. ~ Rejects(mq.entries, m, "send") /\ ~ Rejects(mq.entries, m, "resend")
    BY <1>1, <1>2 DEF Rejects, Waits
  <2> QED BY <1>2, <2>1 DEF ClearedHandlers
<1>3. ASSUME NEW o \in Owners PROVE flush'[o] \in {flush[o], EndOf(flush[o])}
  BY DEF ClearedFlush, Owners
<1>4. ListInv'
  <2>1. \A o \in Owners : flush[o] \in Replays /\ flush[o].todo \subseteq Msgs
    BY <1>0 DEF Replays
  <2>2. ASSUME NEW o \in Owners
        PROVE  /\ flush'[o].todo \subseteq flush[o].todo
               /\ flush'[o].todo = {} <=> flush'[o].pc \in {"no", "trigger"}
    <3>1. CASE flush'[o] = flush[o]
      BY <3>1 DEF PromiseInv, ListInv, Listed
    <3>2. CASE flush'[o] # flush[o]
      BY <1>3, <2>1, <3>2, FlushSteps
    <3> QED BY <3>1, <3>2
  <2>3. Listed'
    BY <2>2 DEF Listed
  <2>4. \A m \in Msgs : row'[m] \in Unsent => row[m] \in Unsent /\ handler'[m] = "idle"
    BY <1>2 DEF PromiseInv, ListInv
  <2> QED BY <1>2, <2>1, <2>2, <2>3, <2>4, ListKept DEF PromiseInv
<1>5. ApartInv'
  BY DEF PromiseInv, ApartInv, Apart
<1>6. ASSUME NEW a \in Attempts, sdk'[a].held # NoEntry PROVE Waits(sdk'[a].held, handler', flush')
  <2> DEFINE e == sdk[a].held
  <2>1. e \in Entries /\ Waits(e, handler, flush) /\ sdk'[a].held = e /\ e.msg \in Msgs /\ e.owner \in Owners
    BY <1>0, <1>6, EntryFields DEF PromiseInv, WaitInv, SdkStates
  <2>2. \A i \in DOMAIN mq.entries : Apart(mq.entries[i], e)
    BY <1>6 DEF PromiseInv, ApartInv
  <2> HIDE DEF e
  <2>3. CASE e.by \in {"send", "resend"}
    <3>1. ~ Rejects(mq.entries, e.msg, "send") /\ ~ Rejects(mq.entries, e.msg, "resend")
      BY <2>2, <2>3 DEF Rejects, Apart
    <3>2. handler[e.msg] = "wait"
      BY <2>1, <2>3 DEF Waits
    <3>3. handler'[e.msg] = "wait"
      BY <2>1, <3>1, <3>2 DEF ClearedHandlers
    <3> QED BY <2>1, <2>3, <3>3 DEF Waits
  <2>4. CASE e.by = "flush"
    <3>1. ~ \E i \in DOMAIN mq.entries : mq.entries[i].by = "flush" /\ mq.entries[i].owner = e.owner
      BY <1>1, <2>1, <2>2, <2>4 DEF Apart, Waits
    <3>2. flush'[e.owner] = flush[e.owner]
      BY <2>1, <3>1 DEF ClearedFlush, Owners
    <3> QED BY <2>1, <2>4, <3>2 DEF Waits
  <2>5. CASE e.by = "redo"
    BY <2>1, <2>5 DEF Waits
  <2> QED BY <2>1, <2>3, <2>4, <2>5 DEF Entries
<1> QED BY <1>4, <1>5, <1>6 DEF PromiseInv, WaitInv

(* The deferred rows go to a list that was empty, and were on no other.        *)
LEMMA Released ==
  ASSUME TypeOK, PromiseInv, NEW o \in Owners, flush[o].pc \in {"no", "trigger"},
         flush' = [flush EXCEPT ![o] = TriggerOf(row)], mq' = mq, handler' = handler,
         \A a \in Attempts : sdk'[a].held = sdk[a].held,
         \A m \in Msgs : row'[m] \in Unsent => row[m] = "absent"
  PROVE  PromiseInv'
<1>0. flush \in [Owners -> Replays] /\ sdk \in [Attempts -> SdkStates] /\ mq.entries \in Seq(Entries)
  BY Typed, QueueFields
<1>1. /\ flush[o].todo = {} /\ flush'[o] = TriggerOf(row)
      /\ \A p \in Owners : p # o => flush'[p] = flush[p]
  BY <1>0 DEF PromiseInv, ListInv, Listed
<1>2. /\ flush'[o].todo = {m \in Msgs : row[m] = "deferred"}
      /\ flush'[o].todo = {} <=> flush'[o].pc \in {"no", "trigger"}
  BY <1>1 DEF TriggerOf, NoFlush, Replaying, RowsWith
<1>3. Listed'
  BY <1>1, <1>2 DEF PromiseInv, ListInv, Listed
<1>4. ASSUME NEW p \in Owners, NEW q \in Owners, p # q
      PROVE  flush'[p].todo \cap flush'[q].todo = {}
  BY <1>1, <1>2, <1>4 DEF PromiseInv, ListInv, Unsent
<1>5. ASSUME NEW p \in Owners, NEW m \in flush'[p].todo
      PROVE  handler'[m] = "idle" /\ row'[m] \notin Unsent
  <2>1. m \in Msgs
    BY <1>0, <1>1, <1>2 DEF Replays
  <2>2. CASE p = o
    BY <1>2, <1>5, <2>1, <2>2 DEF PromiseInv, ListInv, Unsent
  <2>3. CASE p # o
    BY <1>1, <1>5, <2>1, <2>3 DEF PromiseInv, ListInv, Unsent
  <2> QED BY <2>2, <2>3
<1>6. ListInv'
  BY <1>3, <1>4, <1>5 DEF PromiseInv, ListInv, Unsent
<1>7. ASSUME NEW e \in Entries, Waits(e, handler, flush) PROVE Waits(e, handler', flush')
  <2>1. e.msg \in Msgs /\ e.owner \in Owners
    BY EntryFields
  <2> QED BY <1>1, <1>7, <2>1 DEF Waits
<1>8. WaitInv'
  <2>1. \A i \in DOMAIN mq.entries : mq.entries[i] \in Entries /\ Waits(mq.entries[i], handler, flush)
    BY <1>0 DEF PromiseInv, WaitInv
  <2>2. \A a \in Attempts : sdk[a].held # NoEntry => sdk[a].held \in Entries /\ Waits(sdk[a].held, handler, flush)
    BY <1>0 DEF PromiseInv, WaitInv, SdkStates
  <2>3. \A i \in DOMAIN mq'.entries : Waits(mq'.entries[i], handler', flush')
    BY <1>7, <2>1 DEF Waits
  <2>4. \A a \in Attempts : sdk'[a].held # NoEntry => Waits(sdk'[a].held, handler', flush')
    BY <1>7, <2>2 DEF Waits
  <2> QED BY <2>3, <2>4 DEF WaitInv
<1>9. ApartInv'
  BY DEF PromiseInv, ApartInv
<1> QED BY <1>6, <1>8, <1>9 DEF PromiseInv

LEMMA PromiseStep ==
  ASSUME TypeOK, PromiseInv, [Next]_vars
  PROVE  PromiseInv'
<1>0. /\ row \in [Msgs -> Statuses] /\ mq \in Queues /\ mq.entries \in Seq(Entries)
      /\ run \in [Runs -> RunStates] /\ sdk \in [Attempts -> SdkStates]
      /\ handler \in [Msgs -> Steps] /\ flush \in [Owners -> Replays]
      /\ ctx \in Contexts /\ ctx.object \in Refs
  BY Typed, QueueFields DEF Contexts
<1>a. EnsuredQueue.entries = mq.entries
  BY QueueEnsured
<1>b. CanStart => StartedQueue.entries = mq.entries
  BY QueueStarts
<1>c. \A m \in Msgs : row[m] \in Unsent => handler[m] = "idle"
  BY DEF PromiseInv, ListInv
<1>1. ASSUME NEW m \in Msgs, NEW later \in BOOLEAN, Persist(m, later) PROVE PromiseInv'
  <2>1. mq' = mq /\ sdk' = sdk /\ flush' = flush /\ row[m] \in Unsent
    BY <1>1 DEF Persist, Unsent
  <2>2. \/ row' = [row EXCEPT ![m] = "deferred"] /\ handler' = handler
        \/ row' = [row EXCEPT ![m] = "enqueued"] /\ handler' = [handler EXCEPT ![m] = "ensure"]
    BY <1>1 DEF Persist
  <2>3. /\ \A n \in Msgs : handler[n] = "wait" => handler'[n] = "wait"
        /\ \A n \in Msgs : handler[n] = "idle" /\ row[n] \notin Unsent => handler'[n] = "idle"
        /\ \A n \in Msgs : row'[n] \in Unsent => row[n] \in Unsent /\ handler'[n] = "idle"
    <3>1. CASE row' = [row EXCEPT ![m] = "deferred"] /\ handler' = handler
      BY <1>0, <1>c, <2>1, <3>1
    <3>2. CASE row' = [row EXCEPT ![m] = "enqueued"] /\ handler' = [handler EXCEPT ![m] = "ensure"]
      BY <1>0, <1>c, <2>1, <3>2 DEF Unsent
    <3> QED BY <2>2, <3>1, <3>2
  <2> QED BY <2>1, <2>3, PromisesKept
<1>2. ASSUME NEW m \in Msgs, SendEnsure(m) PROVE PromiseInv'
  <2>1. \A n \in Msgs : handler[n] \in {"idle", "wait"} => handler'[n] = handler[n]
    BY <1>0, <1>2 DEF SendEnsure
  <2> QED BY <1>a, <1>2, <2>1, PromisesFramed DEF SendEnsure
<1>3. ASSUME NEW m \in Msgs, SendStart(m) PROVE PromiseInv'
  <2>1. \A n \in Msgs : handler[n] \in {"idle", "wait"} => handler'[n] = handler[n]
    BY <1>0, <1>3 DEF SendStart
  <2> QED BY <1>b, <1>3, <2>1, PromisesFramed DEF SendStart
<1>4. ASSUME NEW m \in Msgs, NEW by \in {"send", "resend"}, handler[m] \in {"push", "repush"},
             mq' = Pushed(mq, EntryOf(m, by, 0)), handler' = [handler EXCEPT ![m] = "wait"],
             row' = row, sdk' = sdk, flush' = flush
      PROVE  PromiseInv'
  <2> DEFINE e == EntryOf(m, by, 0)
  <2>1. e \in Entries /\ e.msg = m /\ e.by = by
    BY Bounds, EntryOK DEF Owners
  <2> HIDE DEF e
  <2>2. mq'.entries = Append(mq.entries, e)
    BY <1>0, <1>4, <2>1, QueueGrows DEF e
  <2>3. /\ \A i \in DOMAIN mq.entries : Apart(mq.entries[i], e)
        /\ \A a \in Attempts : sdk[a].held # NoEntry => Apart(e, sdk[a].held)
    BY <1>4, <2>1, NotHeld DEF Apart
  <2>4. Waits(e, handler', flush')
    BY <1>0, <1>4, <2>1 DEF Waits
  <2>5. \A n \in Msgs : handler[n] = "wait" => handler'[n] = "wait"
    BY <1>0, <1>4
  <2>6. WaitInv' /\ ApartInv'
    BY <1>4, <2>1, <2>2, <2>3, <2>4, <2>5, PromisePushed DEF PromiseInv
  <2>7. ListInv'
    <3>1. Listed' /\ \A o \in Owners : flush[o].todo \subseteq Msgs
      BY <1>0, <1>4 DEF PromiseInv, ListInv, Listed, Replays
    <3>2. \A n \in Msgs : handler[n] = "idle" => handler'[n] = "idle"
      BY <1>0, <1>4
    <3> QED BY <1>c, <1>4, <3>1, <3>2, ListKept DEF PromiseInv
  <2> QED BY <2>6, <2>7 DEF PromiseInv
<1>5. ASSUME NEW m \in Msgs, SendPush(m) PROVE PromiseInv'
  BY <1>4, <1>5 DEF SendPush
<1>6. ASSUME NEW m \in Msgs, FailReset(m) PROVE PromiseInv'
  <2>1. \A n \in Msgs : handler[n] \in {"idle", "wait"} => handler'[n] = ClearedHandlers[n]
    BY <1>0, <1>6, ClearedTypes DEF FailReset
  <2>2. mq'.entries = <<>>
    BY <1>0, <1>6, QueueStops DEF FailReset
  <2> QED BY <1>6, <2>1, <2>2, PromisesCleared DEF FailReset
<1>7. ASSUME NEW m \in Msgs, FailStopped(m) PROVE PromiseInv'
  <2>1. \A n \in Msgs : handler[n] \in {"idle", "wait"} => handler'[n] = handler[n]
    BY <1>0, <1>7 DEF FailStopped
  <2>2. \A a \in Attempts : sdk'[a].held = sdk[a].held
    BY <1>7, Bounds, StopTypes DEF FailStopped, Msgs
  <2> QED BY <1>7, <2>1, <2>2, PromisesFramed DEF FailStopped
<1>8. ASSUME NEW m \in Msgs, FailRestart(m) PROVE PromiseInv'
  <2>1. \A n \in Msgs : handler[n] \in {"idle", "wait"} => handler'[n] = handler[n]
    BY <1>0, <1>8 DEF FailRestart
  <2> QED BY <1>b, <1>8, <2>1, PromisesFramed DEF FailRestart
<1>9. ASSUME NEW m \in Msgs, Repush(m) PROVE PromiseInv'
  <2>1. CASE Healthy
    BY <1>4, <1>9, <2>1 DEF Repush
  <2>2. CASE ~ Healthy
    <3>1. \A n \in Msgs : handler[n] \in {"idle", "wait"} => handler'[n] = handler[n]
      BY <1>0, <1>9, <2>2 DEF Repush
    <3> QED BY <1>9, <2>2, <3>1, PromisesFramed DEF Repush
  <2> QED BY <2>1, <2>2
<1>10. ASSUME NEW m \in Msgs, GiveUp(m) PROVE PromiseInv'
  <2>1. /\ \A n \in Msgs : handler[n] = "wait" => handler'[n] = "wait"
        /\ \A n \in Msgs : handler[n] = "idle" => handler'[n] = "idle"
    BY <1>0, <1>10 DEF GiveUp
  <2>2. \A n \in Msgs : row'[n] \in Unsent => row[n] \in Unsent
    BY <1>0, <1>10 DEF GiveUp, Unsent
  <2> QED BY <1>c, <1>10, <2>1, <2>2, PromisesKept DEF GiveUp
<1>11. ASSUME NEW i \in 1..(2 * NumMsgs), Timeout(i) PROVE PromiseInv'
  <2> DEFINE e == mq.entries[i]
             k == [j \in 1..(Len(mq.entries) - 1) |-> IF j < i THEN j ELSE j + 1]
  <2>1. /\ i \in DOMAIN mq.entries /\ DOMAIN mq.entries = 1..Len(mq.entries)
        /\ Len(mq.entries) \in Nat /\ e \in Entries
    BY <1>0, <1>11 DEF Timeout
  <2>2. mq'.entries = [j \in 1..(Len(mq.entries) - 1) |-> mq.entries[IF j < i THEN j ELSE j + 1]]
    BY <1>0, <1>11 DEF Timeout, Queues
  <2>3. Waits(e, handler, flush)
    BY <2>1 DEF PromiseInv, WaitInv
  <2>4. \A j \in DOMAIN mq'.entries : /\ k[j] \in DOMAIN mq.entries /\ k[j] # i
                                      /\ mq'.entries[j] = mq.entries[k[j]]
    BY <2>1, <2>2
  <2>5. \A j, l \in DOMAIN mq'.entries : j # l => k[j] # k[l]
    BY <2>1, <2>2
  <2>6. \A a \in Attempts : sdk[a].held # NoEntry => Apart(sdk[a].held, e)
    BY <2>1 DEF PromiseInv, ApartInv, Apart
  <2>7. sdk' = sdk /\ row' = row
    BY <1>11 DEF Timeout
  <2> HIDE DEF k, e
  <2>8. \A j \in DOMAIN mq'.entries : Apart(mq.entries[k[j]], e)
    BY <2>1, <2>4 DEF PromiseInv, ApartInv, e
  <2>9. \A n \in Msgs : handler'[n] = handler[n] \/ (e.by \in {"send", "resend"} /\ n = e.msg)
    BY <1>0, <1>11 DEF Timeout, e
  <2>10. \A o \in Owners : \/ flush'[o] = flush[o]
                           \/ e.by = "flush" /\ o = e.owner /\ flush'[o] \in {StepOf(flush[o]), EndOf(flush[o])}
    BY <1>0, <1>11 DEF Timeout, e
  <2> QED BY <2>1, <2>3, <2>4, <2>5, <2>6, <2>7, <2>8, <2>9, <2>10, PromiseSettled
<1>12. ASSUME NEW a \in Attempts, Ask(a) PROVE PromiseInv'
  <2> DEFINE e == sdk[a].held
             k == [j \in DOMAIN mq.entries |-> j]
  <2>1. e # NoEntry /\ e \in Entries /\ Waits(e, handler, flush)
    BY <1>0, <1>12 DEF Ask, PromiseInv, WaitInv, SdkStates
  <2>2. mq'.entries = mq.entries /\ row' = row
    BY <1>0, <1>12, QueueParks DEF Ask
  <2>3. /\ \A j \in DOMAIN mq'.entries : k[j] \in DOMAIN mq.entries /\ mq'.entries[j] = mq.entries[k[j]]
        /\ \A i, j \in DOMAIN mq'.entries : i # j => k[i] # k[j]
        /\ \A j \in DOMAIN mq'.entries : Apart(mq.entries[k[j]], e)
    BY <2>1, <2>2 DEF PromiseInv, ApartInv
  <2>4. sdk'[a].held = NoEntry /\ \A b \in Attempts : b # a => sdk'[b] = sdk[b]
    BY <1>0, <1>12 DEF Ask, SdkStates
  <2> HIDE DEF k
  <2>5. \A b \in Attempts : sdk'[b].held \in {sdk[b].held, NoEntry}
    BY <2>4
  <2>6. \A b \in Attempts : sdk'[b].held # NoEntry => Apart(sdk'[b].held, e)
    BY <2>1, <2>4 DEF PromiseInv, ApartInv
  <2>7. \A n \in Msgs : handler'[n] = handler[n] \/ (e.by \in {"send", "resend"} /\ n = e.msg)
    BY <1>0, <1>12 DEF Ask
  <2>8. \A o \in Owners : \/ flush'[o] = flush[o]
                          \/ e.by = "flush" /\ o = e.owner /\ flush'[o] \in {StepOf(flush[o]), EndOf(flush[o])}
    BY <1>0, <1>12 DEF Ask
  <2> HIDE DEF e
  <2> QED BY <2>1, <2>2, <2>3, <2>5, <2>6, <2>7, <2>8, PromiseSettled
<1>13. ASSUME NEW o \in Owners, FlushTrigger(o) PROVE PromiseInv'
  <2>1. \A m \in Msgs : row'[m] \in Unsent => row[m] = "absent"
    BY <1>13 DEF FlushTrigger, Undeferred, Unsent
  <2> QED BY <1>13, <2>1, Released DEF FlushTrigger
<1>14. ASSUME NEW o \in Owners, NEW pc1 \in {"ensure", "start", "push"}, flush[o].pc \in {"ensure", "start"},
              flush' = [flush EXCEPT ![o].pc = pc1],
              mq'.entries = mq.entries, row' = row, handler' = handler, sdk' = sdk
       PROVE  PromiseInv'
  <2>1. flush'[o].todo = flush[o].todo /\ flush'[o].pc = pc1 /\ \A p \in Owners : p # o => flush'[p] = flush[p]
    BY <1>0, <1>14 DEF Replays
  <2>2. \A p \in Owners : \/ flush'[p] = flush[p]
                          \/ /\ flush'[p].todo = flush[p].todo
                             /\ {flush[p].pc, flush'[p].pc} \subseteq {"ensure", "start", "push"}
    BY <1>14, <2>1
  <2> QED BY <1>c, <1>14, <2>2, PromisesKept
<1>15. ASSUME NEW o \in Owners, FlushEnsure(o) PROVE PromiseInv'
  <2>1. flush' = [flush EXCEPT ![o].pc = "push"] \/ flush' = [flush EXCEPT ![o].pc = "start"]
    BY <1>15 DEF FlushEnsure
  <2> QED BY <1>a, <1>14, <1>15, <2>1 DEF FlushEnsure
<1>16. ASSUME NEW o \in Owners, FlushStart(o) PROVE PromiseInv'
  BY <1>b, <1>14, <1>16 DEF FlushStart
<1>17. ASSUME NEW o \in Owners, FlushPush(o) PROVE PromiseInv'
  <2> DEFINE m == First(flush[o].todo)
             e == EntryOf(m, "flush", o)
  <2>0. flush[o].pc = "push"
    BY <1>17 DEF FlushPush
  <2>1. flush[o].todo # {} /\ flush[o].todo \in SUBSET Msgs
    BY <1>0, <2>0 DEF PromiseInv, ListInv, Listed, Replays
  <2>2. m \in flush[o].todo /\ m \in Msgs
    BY <2>1, FirstIsListed
  <2>3. e \in Entries /\ e.msg = m /\ e.by = "flush" /\ e.owner = o
    BY <2>2, EntryOK
  <2>4. /\ mq' = Pushed(mq, e) /\ flush' = [flush EXCEPT ![o].pc = "wait"]
        /\ row' = row /\ sdk' = sdk /\ handler' = handler
    BY <1>17 DEF FlushPush
  <2>5. /\ flush'[o].todo = flush[o].todo /\ flush'[o].pc = "wait"
        /\ \A p \in Owners : p # o => flush'[p] = flush[p]
    BY <1>0, <2>4 DEF Replays
  <2>6. Waits(e, handler', flush')
    BY <2>3, <2>5 DEF Waits
  <2> HIDE DEF e, m
  <2>7. mq'.entries = Append(mq.entries, e)
    BY <1>0, <2>3, <2>4, QueueGrows
  <2>8. /\ \A i \in DOMAIN mq.entries : Apart(mq.entries[i], e)
        /\ \A a \in Attempts : sdk[a].held # NoEntry => Apart(e, sdk[a].held)
    BY <2>0, <2>2, <2>3, NotHeld DEF Apart
  <2>9. \A p \in Owners : flush[p].pc = "wait" => flush'[p] = flush[p]
    BY <2>0, <2>5
  <2>10. WaitInv' /\ ApartInv'
    BY <2>3, <2>4, <2>6, <2>7, <2>8, <2>9, PromisePushed DEF PromiseInv
  <2>11. ListInv'
    <3>1. \A p \in Owners : flush'[p].todo = flush[p].todo /\ flush[p].todo \subseteq Msgs
      BY <1>0, <2>5 DEF Replays
    <3>2. Listed'
      BY <2>0, <2>5 DEF PromiseInv, ListInv, Listed
    <3> QED BY <1>c, <2>4, <3>1, <3>2, ListKept DEF PromiseInv
  <2> QED BY <2>10, <2>11 DEF PromiseInv
<1>18. ASSUME NEW r \in Runs, Launch(r) PROVE PromiseInv'
  <2>1. mq'.entries = mq.entries
    BY <1>0, <1>18, QueueParks, AttemptOK DEF Launch
  <2>2. \A a \in Attempts : sdk'[a].held \in {sdk[a].held, NoEntry}
    <3>1. sdk' = [sdk EXCEPT ![AttemptOf(r)] = [NoSdk EXCEPT !.alive = TRUE]]
      BY <1>18 DEF Launch
    <3>2. [NoSdk EXCEPT !.alive = TRUE].held = NoEntry
      BY DEF NoSdk
    <3> QED BY <1>0, <3>1, <3>2
  <2> QED BY <1>c, <1>18, <2>1, <2>2, PromisesKept DEF Launch
<1>19. ASSUME NEW r \in Runs, Caught(r) \/ End(r) PROVE PromiseInv'
  <2>1. Finally(r, mq) /\ sdk' = FinallyCloses(r) /\ UNCHANGED <<row, handler, flush>>
    BY <1>19 DEF Caught, End
  <2> QED BY <2>1, FinallyTypes, TornOK, PromisesFramed
<1>20. ASSUME NEW r \in Runs, Unwound(r) PROVE PromiseInv'
  <2>1. mq'.entries = mq.entries /\ \A a \in Attempts : sdk'[a].held = sdk[a].held
    BY <1>0, <1>20, QueueStops, TornOK DEF Unwound
  <2> QED BY <1>20, <2>1, PromisesFramed DEF Unwound
<1>21. ASSUME NEW r \in Runs, Output(r) PROVE PromiseInv'
  <2>1. \A a \in Attempts : sdk'[a].held = sdk[a].held
    BY <1>0, <1>21, AttemptOK DEF Output, SdkStates
  <2> QED BY <1>21, <2>1, PromisesFramed DEF Output
<1>22. ASSUME NEW r \in Runs, Echo(r) PROVE PromiseInv'
  BY <1>22, PromisesFramed DEF Echo
<1>23. ASSUME NEW r \in Runs, Result(r) PROVE PromiseInv'
  <2>1. PICK left : sdk' = [sdk EXCEPT ![AttemptOf(r)].turns = left]
    BY <1>23 DEF Result
  <2>2. \A a \in Attempts : sdk'[a].held = sdk[a].held
    BY <1>0, <2>1, AttemptOK DEF SdkStates
  <2>3. \A m \in Msgs : row'[m] \in Unsent => row[m] = "absent"
    BY <1>23 DEF Result, Undeferred, Acknowledged, Unsent
  <2>4. r \in Owners /\ flush[r].pc = "no"
    BY <1>23, AttemptOK DEF Result, Talking, Looping
  <2> QED BY <1>23, <2>2, <2>3, <2>4, Released DEF Result
<1>24. ASSUME NEW r \in Runs, Catch(r), mq'.entries = <<>>, row' = row PROVE PromiseInv'
  BY <1>24, CatchTypes, PromisesCleared DEF Catch
<1>25. ASSUME NEW r \in Runs, Fatal(r) PROVE PromiseInv'
  BY <1>0, <1>24, <1>25, QueueStops DEF Fatal
<1>26. ASSUME NEW r \in Runs, StartupTimeout(r) PROVE PromiseInv'
  <2>1. CASE run[r].attempt = 1
    <3>1. Retry(r) /\ mq' = Stopped(mq) /\ UNCHANGED <<row, handler, flush>>
      BY <1>26, <2>1 DEF StartupTimeout
    <3> QED BY <1>0, <3>1, QueueStops, RetryTypes, PromisesFramed
  <2>2. CASE run[r].attempt # 1
    <3>1. Catch(r) /\ mq' = Emptied(Stopped(mq)) /\ row' = row
      BY <1>26, <2>2 DEF StartupTimeout
    <3> QED BY <1>0, <1>24, <3>1, QueueStops
  <2> QED BY <2>1, <2>2
<1>27. ASSUME NEW r \in Runs, Transient(r) PROVE PromiseInv'
  <2>1. CASE run[r].attempt = 1 /\ ctx.status # "interrupted"
    <3>1. Retry(r) /\ mq' = Redo /\ UNCHANGED <<row, handler, flush>>
      BY <1>27, <2>1 DEF Transient
    <3>2. \A a \in Attempts : sdk'[a].held = sdk[a].held
      BY <3>1, RetryTypes
    <3>3. CASE ctx.lastMsg = 0
      BY <3>1, <3>2, <3>3, PromisesFramed DEF Redo
    <3>4. CASE ctx.lastMsg # 0
      <4> DEFINE e == EntryOf(ctx.lastMsg, "redo", 0)
      <4>1. ctx.lastMsg \in Msgs
        BY <1>0, <3>4, Bounds DEF Contexts, Msgs
      <4>2. e \in Entries /\ e.by = "redo"
        BY <4>1, Bounds, EntryOK DEF Owners
      <4> HIDE DEF e
      <4>3. mq'.entries = Append(mq.entries, e)
        BY <1>0, <3>1, <3>4, <4>2, QueueGrows DEF Redo, e
      <4>4. Waits(e, handler', flush') /\ \A f : Apart(e, f) /\ Apart(f, e)
        BY <4>2 DEF Waits, Apart
      <4>5. WaitInv' /\ ApartInv'
        BY <3>1, <3>2, <4>2, <4>3, <4>4, PromisePushed DEF PromiseInv
      <4>6. ListInv'
        <5>1. Listed' /\ \A o \in Owners : flush[o].todo \subseteq Msgs
          BY <1>0, <3>1 DEF PromiseInv, ListInv, Listed, Replays
        <5> QED BY <1>c, <3>1, <5>1, ListKept DEF PromiseInv
      <4> QED BY <4>5, <4>6 DEF PromiseInv
    <3> QED BY <3>3, <3>4
  <2>2. CASE ~ (run[r].attempt = 1 /\ ctx.status # "interrupted")
    <3>1. Catch(r) /\ mq' = Emptied(mq) /\ row' = row
      BY <1>27, <2>2 DEF Transient
    <3> QED BY <1>0, <1>24, <3>1, QueueStops
  <2> QED BY <2>1, <2>2
<1>28. ASSUME Take PROVE PromiseInv'
  <2> DEFINE a == Head(mq.waiters)
             e == Head(mq.entries)
             n == Len(mq.entries)
  <2>1. /\ mq.waiters # <<>> /\ mq.waiters \in Seq(Attempts) /\ mq.entries # <<>>
        /\ handler' = handler /\ flush' = flush
    BY <1>28, QueueFields DEF Take
  <2>2. /\ a \in Attempts /\ e \in Entries /\ e = mq.entries[1] /\ 1 \in DOMAIN mq.entries
        /\ DOMAIN mq.entries = 1..n /\ n \in Nat
    BY <1>0, <2>1
  <2>3. /\ DOMAIN Tail(mq.entries) = 1..(n - 1)
        /\ \A i \in 1..(n - 1) : /\ i + 1 \in DOMAIN mq.entries /\ i + 1 # 1
                                 /\ Tail(mq.entries)[i] = mq.entries[i + 1]
    BY <1>0, <2>1
  <2>4. mq'.entries = Tail(mq.entries)
    BY <1>0, <1>28 DEF Take, Queues
  <2>5. sdk' = [sdk EXCEPT ![a].held = e, ![a].cap = mq.gen, ![a].turns = @ + 1]
    BY <1>28 DEF Take
  <2> HIDE DEF a, e, n
  <2>6. sdk'[a].held = e /\ \A b \in Attempts : b # a => sdk'[b] = sdk[b]
    BY <1>0, <2>2, <2>5 DEF SdkStates
  <2>7. ListInv'
    <3>1. Listed' /\ \A o \in Owners : flush[o].todo \subseteq Msgs
      BY <1>0, <2>1 DEF PromiseInv, ListInv, Listed, Replays
    <3>2. \A m \in Msgs : row'[m] \in Unsent => row[m] \in Unsent
      BY <1>0, <1>28, <2>2 DEF Take, Unsent
    <3> QED BY <1>c, <2>1, <3>1, <3>2, ListKept DEF PromiseInv
  <2>8. WaitInv'
    <3>1. \A i \in DOMAIN mq.entries : Waits(mq.entries[i], handler', flush')
      BY <2>1 DEF PromiseInv, WaitInv
    <3>2. \A b \in Attempts : sdk[b].held # NoEntry => Waits(sdk[b].held, handler', flush')
      BY <2>1 DEF PromiseInv, WaitInv
    <3>3. Waits(e, handler', flush')
      BY <2>2, <3>1
    <3>4. \A i \in DOMAIN mq'.entries : Waits(mq'.entries[i], handler', flush')
      BY <2>3, <2>4, <3>1
    <3>5. \A b \in Attempts : sdk'[b].held # NoEntry => Waits(sdk'[b].held, handler', flush')
      BY <2>6, <3>2, <3>3
    <3> QED BY <3>4, <3>5 DEF WaitInv
  <2>9. ApartInv'
    <3>1. \A i, j \in DOMAIN mq'.entries : i # j => Apart(mq'.entries[i], mq'.entries[j])
      <4>1. ASSUME NEW i \in 1..(n - 1), NEW j \in 1..(n - 1), i # j
            PROVE  Apart(mq.entries[i + 1], mq.entries[j + 1])
        <5>1. i + 1 # j + 1
          BY <4>1, <2>2
        <5> QED BY <2>3, <5>1 DEF PromiseInv, ApartInv
      <4> QED BY <2>3, <2>4, <4>1
    <3>2. \A i \in DOMAIN mq'.entries : Apart(mq'.entries[i], e)
      BY <2>2, <2>3, <2>4 DEF PromiseInv, ApartInv
    <3>3. \A b \in Attempts : b # a /\ sdk'[b].held # NoEntry
            => /\ Apart(sdk'[b].held, e) /\ Apart(e, sdk'[b].held)
               /\ \A i \in DOMAIN mq'.entries : Apart(mq'.entries[i], sdk'[b].held)
      BY <2>2, <2>3, <2>4, <2>6 DEF PromiseInv, ApartInv, Apart
    <3>4. \A b \in Attempts : sdk'[b].held # NoEntry =>
            \A i \in DOMAIN mq'.entries : Apart(mq'.entries[i], sdk'[b].held)
      BY <2>6, <3>2, <3>3
    <3>5. \A b, c \in Attempts : b # c /\ sdk'[b].held # NoEntry /\ sdk'[c].held # NoEntry
            => Apart(sdk'[b].held, sdk'[c].held)
      BY <2>6, <3>3 DEF PromiseInv, ApartInv
    <3> QED BY <3>1, <3>4, <3>5 DEF ApartInv
  <2> QED BY <2>7, <2>8, <2>9 DEF PromiseInv
<1>29. ASSUME InterruptEnds PROVE PromiseInv'
  BY <1>0, <1>29, QueueStops, SdkCloses, PromisesFramed DEF InterruptEnds
<1>30. ASSUME LifecycleStopped PROVE PromiseInv'
  <2>1. \A a \in Attempts : sdk'[a].held = sdk[a].held
    BY <1>30, Bounds, StopTypes DEF LifecycleStopped
  <2> QED BY <1>30, <2>1, PromisesFramed DEF LifecycleStopped
<1>31. ASSUME LifecycleStarts PROVE PromiseInv'
  BY <1>b, <1>31, PromisesFramed DEF LifecycleStarts
<1>32. ASSUME Interrupt PROVE PromiseInv'
  <2>1. \A a \in Attempts : sdk'[a].held = sdk[a].held
    BY <1>0, <1>32 DEF Interrupt, SdkStates
  <2> QED BY <1>0, <1>32, <2>1, QueueStops, PromisesCleared DEF Interrupt
<1>33. ASSUME UserReset PROVE PromiseInv'
  <2>1. mq'.entries = <<>>
    BY <1>0, <1>33, QueueStops DEF UserReset
  <2> QED BY <1>33, <2>1, PromisesCleared DEF UserReset
<1>34. ASSUME UserRestart PROVE PromiseInv'
  BY <1>0, <1>34, QueueStops, PromisesFramed DEF UserRestart
<1>35. ASSUME Crash PROVE PromiseInv'
  <2>1. /\ row' = Recovered /\ handler' = [m \in Msgs |-> "idle"]
        /\ flush' = [o \in Owners |-> IF o = 0 THEN ReplayOf(Recovered) ELSE NoFlush]
        /\ sdk' = [a \in Attempts |-> NoSdk]
    BY <1>35 DEF Crash, Owners
  <2>2. mq'.entries = <<>>
    BY <1>0, <1>35, QueueStops DEF Crash
  <2>3. /\ ReplayOf(Recovered).todo = {m \in Msgs : Recovered[m] = "enqueued"}
        /\ ReplayOf(Recovered).todo = {} <=> ReplayOf(Recovered).pc \in {"no", "trigger"}
        /\ NoFlush.todo = {} /\ NoFlush.pc = "no"
    BY DEF ReplayOf, Replaying, RowsWith, Triggering, NoFlush
  <2>4. Listed'
    BY <2>1, <2>3 DEF Listed
  <2>5. ListInv'
    <3>1. \A o, p \in Owners : o # p => flush'[o].todo \cap flush'[p].todo = {}
      BY <2>1, <2>3
    <3>2. \A o \in Owners : \A m \in flush'[o].todo : handler'[m] = "idle" /\ row'[m] \notin Unsent
      BY <2>1, <2>3 DEF Unsent
    <3>3. \A m \in Msgs : row'[m] \in Unsent => handler'[m] = "idle"
      BY <2>1
    <3> QED BY <2>4, <3>1, <3>2, <3>3 DEF ListInv
  <2>6. \A a \in Attempts : sdk'[a].held = NoEntry
    BY <2>1 DEF NoSdk
  <2>7. WaitInv' /\ ApartInv'
    BY <2>2, <2>6 DEF WaitInv, ApartInv
  <2> QED BY <2>5, <2>7 DEF PromiseInv
<1>36. CASE UNCHANGED vars
  BY <1>36, PromisesFramed DEF vars
<1> QED
  BY <1>1, <1>2, <1>3, <1>5, <1>6, <1>7, <1>8, <1>9, <1>10, <1>11, <1>12, <1>13, <1>15,
     <1>16, <1>17, <1>18, <1>19, <1>20, <1>21, <1>22, <1>23, <1>25, <1>26, <1>27, <1>28,
     <1>29, <1>30, <1>31, <1>32, <1>33, <1>34, <1>35, <1>36
  DEF Next, Deliver, Replay, Drive, Supervise, Owners

-----------------------------------------------------------------------------
(* No caller waits for nothing *)

(* The attempt n of run r has not been launched.                               *)
Untried(r, n) == \/ run[r].pc = "no"
                 \/ run[r].pc = "boot" /\ run[r].attempt <= n
                 \/ run[r].pc = "live" /\ run[r].attempt < n

(* A parked generator has no message in hand that the next one would replace,  *)
(* no generator is parked twice, and one that is about to be made is not there *)
(* yet.                                                                        *)
ParkedInv ==
  /\ \A i \in DOMAIN mq.waiters : sdk[mq.waiters[i]].held = NoEntry
  /\ \A i, j \in DOMAIN mq.waiters : i # j => mq.waiters[i] # mq.waiters[j]
  /\ \A r \in Runs, n \in {1, 2} : Untried(r, n) =>
        /\ sdk[<<r, n>>].held = NoEntry
        /\ \A i \in DOMAIN mq.waiters : mq.waiters[i] # <<r, n>>
  /\ \A r \in Runs : r > mq.gen => run[r].pc = "no"

(* What a step of a run may do, apart from a launch.                           *)
RunMoves(r) ==
  \/ run'[r] = run[r]
  \/ run[r].pc # "no" /\ run'[r].pc \in {"caught", "unwind", "over"}
  \/ run[r].pc = "no" /\ run'[r].pc = "boot" /\ r <= mq'.gen
  \/ run[r].pc \in {"boot", "live"} /\ run[r].attempt = 1
     /\ run'[r].pc = "boot" /\ run'[r].attempt = 2

LEMMA ParkedKept ==
  ASSUME TypeOK, ParkedInv, mq'.waiters \in {mq.waiters, <<>>},
         mq'.gen \in Nat, mq.gen <= mq'.gen,
         \A a \in Attempts : sdk'[a].held \in {sdk[a].held, NoEntry},
         \A r \in Runs : RunMoves(r)
  PROVE  ParkedInv'
<1>0. mq.waiters \in Seq(Attempts) /\ mq.gen \in Nat /\ run \in [Runs -> RunStates]
  BY Typed, QueueFields, Bounds DEF Owners
<1>1. \A i \in DOMAIN mq'.waiters : i \in DOMAIN mq.waiters /\ mq'.waiters[i] = mq.waiters[i]
  OBVIOUS
<1>2. \A i \in DOMAIN mq.waiters : mq.waiters[i] \in Attempts
  BY <1>0
<1>3. \A i \in DOMAIN mq'.waiters : sdk'[mq'.waiters[i]].held = NoEntry
  BY <1>1, <1>2 DEF ParkedInv
<1>4. ASSUME NEW r \in Runs, NEW n \in {1, 2}, Untried(r, n)' PROVE Untried(r, n)
  <2>1. run[r].attempt \in {1, 2} /\ run[r].pc \in {"no", "boot", "live", "caught", "unwind", "over"}
    BY <1>0 DEF RunStates
  <2>2. RunMoves(r)
    OBVIOUS
  <2> QED BY <1>4, <2>1, <2>2 DEF RunMoves, Untried
<1>5. \A r \in Runs, n \in {1, 2} : <<r, n>> \in Attempts
  BY DEF Attempts
<1>6. ASSUME NEW r \in Runs, r > mq'.gen PROVE run'[r].pc = "no"
  <2>1. r > mq.gen
    BY <1>0, <1>6 DEF Runs
  <2> QED BY <1>6, <2>1 DEF RunMoves, ParkedInv, Runs
<1>7. ASSUME NEW r \in Runs, NEW n \in {1, 2}, Untried(r, n)'
      PROVE  sdk'[<<r, n>>].held = NoEntry /\ \A i \in DOMAIN mq'.waiters : mq'.waiters[i] # <<r, n>>
  BY <1>1, <1>4, <1>5, <1>7 DEF ParkedInv
<1> QED BY <1>1, <1>3, <1>6, <1>7 DEF ParkedInv

LEMMA QueueWaiters ==
  ASSUME TypeOK
  PROVE  /\ mq.gen \in Nat /\ mq.gen <= mq.gen
         /\ Stopped(mq).waiters = <<>> /\ Stopped(mq).gen = mq.gen
         /\ Emptied(mq).waiters = mq.waiters /\ Emptied(mq).gen = mq.gen
         /\ Emptied(Stopped(mq)).waiters = <<>> /\ Emptied(Stopped(mq)).gen = mq.gen
         /\ EnsuredQueue.waiters \in {mq.waiters, <<>>} /\ EnsuredQueue.gen = mq.gen
         /\ \A e : Pushed(mq, e).waiters = mq.waiters /\ Pushed(mq, e).gen = mq.gen
         /\ CanStart => /\ StartedQueue.waiters = mq.waiters /\ mq.gen <= StartedQueue.gen
                        /\ StartedQueue.gen \in Nat
<1>1. mq \in Queues /\ mq.gen \in Nat
  BY Typed, Bounds DEF Queues, Owners
<1>2. /\ Stopped(mq).waiters = <<>> /\ Stopped(mq).gen = mq.gen
      /\ Emptied(mq).waiters = mq.waiters /\ Emptied(mq).gen = mq.gen
      /\ Emptied(Stopped(mq)).waiters = <<>> /\ Emptied(Stopped(mq)).gen = mq.gen
  BY <1>1 DEF Stopped, Emptied, Queues
<1>3. EnsuredQueue.waiters \in {mq.waiters, <<>>} /\ EnsuredQueue.gen = mq.gen
  BY <1>2 DEF EnsuredQueue
<1>4. \A e : Pushed(mq, e).waiters = mq.waiters /\ Pushed(mq, e).gen = mq.gen
  BY <1>1 DEF Pushed, Queues
<1>5. StartedQueue.waiters = mq.waiters /\ mq.gen <= StartedQueue.gen /\ StartedQueue.gen \in Nat
  BY <1>1 DEF StartedQueue, Queues
<1> QED BY <1>1, <1>2, <1>3, <1>4, <1>5

(* A query begins on the run of the next generation, which nothing used yet.   *)
LEMMA StartMoves ==
  ASSUME TypeOK, ParkedInv, CanStart, mq' = StartedQueue, run' = StartedRun
  PROVE  \A r \in Runs : RunMoves(r)
<1>0. mq \in Queues /\ mq.gen \in Nat /\ run \in [Runs -> RunStates]
  BY Typed, Bounds DEF Queues, Owners
<1>1. CASE mq.running
  BY <1>1 DEF StartedRun, RunMoves
<1>2. CASE ~ mq.running
  <2>1. mq'.gen = mq.gen + 1 /\ mq.gen + 1 \in Runs
    BY <1>0, <1>2, Bounds DEF StartedQueue, Queues, CanStart, Runs
  <2>2. run[mq.gen + 1].pc = "no"
    BY <1>0, <2>1 DEF ParkedInv
  <2>3. run' = [run EXCEPT ![mq.gen + 1].pc = "boot"]
    BY <1>2 DEF StartedRun
  <2>4. run'[mq.gen + 1].pc = "boot" /\ \A r \in Runs : r # mq.gen + 1 => run'[r] = run[r]
    BY <1>0, <2>1, <2>3 DEF RunStates
  <2> QED BY <1>0, <2>1, <2>2, <2>4 DEF RunMoves
<1> QED BY <1>1, <1>2

LEMMA FinallyMoves ==
  ASSUME TypeOK, NEW r \in Runs, Finally(r, mq), run[r].pc # "no"
  PROVE  /\ \A s \in Runs : RunMoves(s)
         /\ mq'.waiters \in {mq.waiters, <<>>} /\ mq'.gen = mq.gen
<1>0. run \in [Runs -> RunStates]
  BY Typed
<1>1. \/ run' = [run EXCEPT ![r].pc = "unwind"] /\ mq' = Stopped(mq)
      \/ run' = [run EXCEPT ![r].pc = "over"] /\ mq' = mq
  BY DEF Finally
<1>2. run'[r].pc \in {"unwind", "over"} /\ \A s \in Runs : s # r => run'[s] = run[s]
  BY <1>0, <1>1 DEF RunStates
<1> QED BY <1>1, <1>2, QueueWaiters DEF RunMoves

LEMMA ParkedStep ==
  ASSUME TypeOK, ParkedInv, [Next]_vars
  PROVE  ParkedInv'
<1>0. /\ mq \in Queues /\ mq.gen \in Nat /\ mq.waiters \in Seq(Attempts)
      /\ mq.entries \in Seq(Entries)
      /\ run \in [Runs -> RunStates] /\ sdk \in [Attempts -> SdkStates]
      /\ ctx \in Contexts /\ ctx.object \in Refs /\ ctx.ctl \in Refs
  BY Typed, QueueFields, Bounds DEF Contexts, Owners
<1>a. UNCHANGED run => \A r \in Runs : RunMoves(r)
  BY DEF RunMoves
<1>u. \A r \in Runs, n \in {1, 2} : Untried(r, n) =>
        /\ sdk[<<r, n>>].held = NoEntry
        /\ \A i \in DOMAIN mq.waiters : mq.waiters[i] # <<r, n>>
  BY DEF ParkedInv
<1>b. UNCHANGED <<mq, run, sdk>> => ParkedInv'
  BY <1>a, QueueWaiters, ParkedKept
<1>c. ASSUME CanStart, mq' = StartedQueue, run' = StartedRun, sdk' = sdk PROVE ParkedInv'
  BY <1>c, StartMoves, QueueWaiters, ParkedKept
<1>d. ASSUME UNCHANGED run, \A a \in Attempts : sdk'[a].held = sdk[a].held,
             mq'.gen = mq.gen, mq'.waiters \in {mq.waiters, <<>>}
      PROVE  ParkedInv'
  BY <1>a, <1>d, QueueWaiters, ParkedKept
<1>1. ASSUME NEW m \in Msgs, NEW later \in BOOLEAN, Persist(m, later) PROVE ParkedInv'
  BY <1>b, <1>1 DEF Persist
<1>2. ASSUME NEW m \in Msgs, SendEnsure(m) PROVE ParkedInv'
  BY <1>d, <1>2, QueueWaiters DEF SendEnsure
<1>3. ASSUME NEW m \in Msgs, SendStart(m) PROVE ParkedInv'
  BY <1>c, <1>3 DEF SendStart
<1>4. ASSUME NEW m \in Msgs, SendPush(m) PROVE ParkedInv'
  BY <1>d, <1>4, QueueWaiters DEF SendPush
<1>5. ASSUME NEW m \in Msgs, FailReset(m) PROVE ParkedInv'
  BY <1>d, <1>5, QueueWaiters DEF FailReset
<1>6. ASSUME NEW m \in Msgs, FailStopped(m) PROVE ParkedInv'
  <2>1. \A a \in Attempts : sdk'[a].held = sdk[a].held
    BY <1>6, Bounds, StopTypes DEF FailStopped, Msgs
  <2> QED BY <1>d, <1>6, <2>1 DEF FailStopped
<1>7. ASSUME NEW m \in Msgs, FailRestart(m) PROVE ParkedInv'
  BY <1>c, <1>7 DEF FailRestart
<1>8. ASSUME NEW m \in Msgs, Repush(m) PROVE ParkedInv'
  BY <1>d, <1>8, QueueWaiters DEF Repush
<1>9. ASSUME NEW m \in Msgs, GiveUp(m) PROVE ParkedInv'
  BY <1>b, <1>9 DEF GiveUp
<1>10. ASSUME NEW i \in 1..(2 * NumMsgs), Timeout(i) PROVE ParkedInv'
  <2>1. mq'.waiters = mq.waiters /\ mq'.gen = mq.gen
    BY <1>0, <1>10 DEF Timeout, Queues
  <2> QED BY <1>d, <1>10, <2>1 DEF Timeout
<1>11. ASSUME NEW a \in Attempts, Ask(a) PROVE ParkedInv'
  <2>1. sdk'[a].held = NoEntry /\ sdk[a].held # NoEntry /\ \A b \in Attempts : b # a => sdk'[b] = sdk[b]
    BY <1>0, <1>11 DEF Ask, SdkStates
  <2>2. run' = run /\ (mq' = mq \/ mq' = [mq EXCEPT !.waiters = Append(@, a)])
    BY <1>11 DEF Ask
  <2>3. CASE mq' = mq
    BY <1>a, <2>1, <2>2, <2>3, QueueWaiters, ParkedKept
  <2>4. CASE mq' = [mq EXCEPT !.waiters = Append(@, a)]
    <3> DEFINE n == Len(mq.waiters) + 1
    <3>1. mq'.waiters = Append(mq.waiters, a) /\ mq'.gen = mq.gen
      BY <1>0, <2>4 DEF Queues
    <3>2. /\ DOMAIN mq'.waiters = 1..n /\ n \in Nat /\ DOMAIN mq.waiters = 1..(n - 1)
          /\ mq'.waiters[n] = a
          /\ \A i \in 1..n : i # n => i \in DOMAIN mq.waiters /\ mq'.waiters[i] = mq.waiters[i]
      BY <1>0, <3>1
    <3>3. \A i \in DOMAIN mq.waiters : mq.waiters[i] \in Attempts /\ mq.waiters[i] # a
      BY <1>0, <2>1 DEF ParkedInv
    <3> HIDE DEF n
    <3>4. \A i \in DOMAIN mq'.waiters : sdk'[mq'.waiters[i]].held = NoEntry
      BY <2>1, <3>2, <3>3 DEF ParkedInv
    <3>5. \A i, j \in DOMAIN mq'.waiters : i # j => mq'.waiters[i] # mq'.waiters[j]
      BY <3>2, <3>3 DEF ParkedInv
    <3>6. ASSUME NEW r \in Runs, NEW k \in {1, 2}, Untried(r, k)'
          PROVE  sdk'[<<r, k>>].held = NoEntry /\ \A i \in DOMAIN mq'.waiters : mq'.waiters[i] # <<r, k>>
      <4>1. Untried(r, k) /\ <<r, k>> \in Attempts
        BY <2>2, <3>6 DEF Untried, Attempts
      <4>2. a # <<r, k>>
        BY <1>u, <2>1, <4>1
      <4>3. sdk'[<<r, k>>].held = NoEntry
        BY <1>u, <2>1, <4>1, <4>2
      <4>4. \A i \in DOMAIN mq.waiters : mq.waiters[i] # <<r, k>>
        BY <1>u, <4>1
      <4> QED BY <3>2, <4>2, <4>3, <4>4
    <3>7. \A r \in Runs : r > mq'.gen => run'[r].pc = "no"
      BY <2>2, <3>1 DEF ParkedInv
    <3> QED BY <3>4, <3>5, <3>6, <3>7 DEF ParkedInv
  <2> QED BY <2>2, <2>3, <2>4
<1>12. ASSUME NEW o \in Owners, FlushTrigger(o) PROVE ParkedInv'
  BY <1>b, <1>12 DEF FlushTrigger
<1>13. ASSUME NEW o \in Owners, FlushEnsure(o) PROVE ParkedInv'
  BY <1>d, <1>13, QueueWaiters DEF FlushEnsure
<1>14. ASSUME NEW o \in Owners, FlushStart(o) PROVE ParkedInv'
  BY <1>c, <1>14 DEF FlushStart
<1>15. ASSUME NEW o \in Owners, FlushPush(o) PROVE ParkedInv'
  BY <1>d, <1>15, QueueWaiters DEF FlushPush
<1>16. ASSUME NEW r \in Runs, Launch(r) PROVE ParkedInv'
  <2> DEFINE a == AttemptOf(r)
  <2>0. a \in Attempts /\ a = <<r, run[r].attempt>> /\ run[r].attempt \in {1, 2}
    BY <1>0, AttemptOK DEF AttemptOf, RunStates
  <2>1. sdk' = [sdk EXCEPT ![a] = [NoSdk EXCEPT !.alive = TRUE]] /\ [NoSdk EXCEPT !.alive = TRUE].held = NoEntry
    BY <1>16 DEF Launch, NoSdk
  <2>2. /\ run[r].pc = "boot" /\ run'[r].pc = "live" /\ run'[r].attempt = run[r].attempt
        /\ \A s \in Runs : s # r => run'[s] = run[s]
    BY <1>0, <1>16 DEF Launch, RunStates
  <2>3. mq' = mq \/ mq' = [mq EXCEPT !.waiters = Append(@, a)]
    BY <1>16 DEF Launch
  <2>4. \A i \in DOMAIN mq.waiters : mq.waiters[i] # a
    <3>1. Untried(r, run[r].attempt)
      BY <2>0, <2>2 DEF Untried
    <3> QED BY <1>u, <2>0, <3>1
  <2>5. ASSUME NEW s \in Runs, NEW k \in {1, 2}, Untried(s, k)' PROVE Untried(s, k) /\ <<s, k>> # a
    <3>1. CASE s = r
      <4>1. run[r].attempt < k
        BY <2>2, <2>5, <3>1 DEF Untried
      <4>2. run[r].attempt <= k /\ k # run[r].attempt
        BY <2>0, <4>1
      <4> QED BY <2>0, <2>2, <3>1, <4>2 DEF Untried
    <3>2. CASE s # r
      BY <2>0, <2>2, <2>5, <3>2 DEF Untried
    <3> QED BY <3>1, <3>2
  <2> HIDE DEF a
  <2>6. sdk'[a].held = NoEntry /\ \A b \in Attempts : b # a => sdk'[b] = sdk[b]
    BY <1>0, <2>0, <2>1
  <2>7. \A s \in Runs : s > mq.gen => run'[s].pc = "no"
    BY <2>2 DEF ParkedInv
  <2>8. CASE mq' = mq
    <3>1. \A i \in DOMAIN mq.waiters : sdk'[mq.waiters[i]].held = NoEntry
      BY <1>0, <2>4, <2>6 DEF ParkedInv
    <3>2. ASSUME NEW s \in Runs, NEW k \in {1, 2}, Untried(s, k)'
          PROVE  sdk'[<<s, k>>].held = NoEntry /\ \A i \in DOMAIN mq.waiters : mq.waiters[i] # <<s, k>>
      <4>1. Untried(s, k) /\ <<s, k>> # a /\ <<s, k>> \in Attempts
        BY <2>5, <3>2 DEF Attempts
      <4> QED BY <1>u, <2>6, <4>1
    <3>3. \A i, j \in DOMAIN mq'.waiters : i # j => mq'.waiters[i] # mq'.waiters[j]
      BY <2>8 DEF ParkedInv
    <3> QED BY <2>7, <2>8, <3>1, <3>2, <3>3 DEF ParkedInv
  <2>9. CASE mq' = [mq EXCEPT !.waiters = Append(@, a)]
    <3> DEFINE n == Len(mq.waiters) + 1
    <3>1. mq'.waiters = Append(mq.waiters, a) /\ mq'.gen = mq.gen
      BY <1>0, <2>9 DEF Queues
    <3>2. /\ DOMAIN mq'.waiters = 1..n /\ n \in Nat /\ DOMAIN mq.waiters = 1..(n - 1)
          /\ mq'.waiters[n] = a
          /\ \A i \in 1..n : i # n => i \in DOMAIN mq.waiters /\ mq'.waiters[i] = mq.waiters[i]
      BY <1>0, <2>0, <3>1
    <3>3. \A i \in DOMAIN mq.waiters : mq.waiters[i] \in Attempts
      BY <1>0
    <3> HIDE DEF n
    <3>4. \A i \in DOMAIN mq'.waiters : sdk'[mq'.waiters[i]].held = NoEntry
      BY <2>4, <2>6, <3>2, <3>3 DEF ParkedInv
    <3>5. \A i, j \in DOMAIN mq'.waiters : i # j => mq'.waiters[i] # mq'.waiters[j]
      BY <2>4, <3>2 DEF ParkedInv
    <3>6. ASSUME NEW s \in Runs, NEW k \in {1, 2}, Untried(s, k)'
          PROVE  sdk'[<<s, k>>].held = NoEntry /\ \A i \in DOMAIN mq'.waiters : mq'.waiters[i] # <<s, k>>
      <4>1. Untried(s, k) /\ <<s, k>> # a /\ <<s, k>> \in Attempts
        BY <2>5, <3>6 DEF Attempts
      <4>2. sdk'[<<s, k>>].held = NoEntry
        BY <1>u, <2>6, <4>1
      <4>3. \A i \in DOMAIN mq.waiters : mq.waiters[i] # <<s, k>>
        BY <1>u, <4>1
      <4> QED BY <3>2, <4>1, <4>2, <4>3
    <3> QED BY <2>7, <3>1, <3>4, <3>5, <3>6 DEF ParkedInv
  <2> QED BY <2>3, <2>8, <2>9
<1>17. ASSUME NEW r \in Runs, Caught(r) \/ End(r) PROVE ParkedInv'
  <2>1. Finally(r, mq) /\ sdk' = FinallyCloses(r) /\ run[r].pc # "no"
    BY <1>17 DEF Caught, End, Looping
  <2> QED BY <2>1, FinallyMoves, TornOK, QueueWaiters, ParkedKept
<1>18. ASSUME NEW r \in Runs, Unwound(r) PROVE ParkedInv'
  <2>1. /\ mq'.waiters \in {mq.waiters, <<>>} /\ mq'.gen = mq.gen
        /\ \A a \in Attempts : sdk'[a].held = sdk[a].held
    BY <1>0, <1>18, QueueWaiters, TornOK DEF Unwound
  <2>2. /\ run[r].pc = "unwind" /\ run'[r].pc \in {"unwind", "over"}
        /\ \A s \in Runs : s # r => run'[s] = run[s]
    BY <1>0, <1>18 DEF Unwound, RunStates
  <2> QED BY <2>1, <2>2, QueueWaiters, ParkedKept DEF RunMoves
<1>19. ASSUME NEW r \in Runs, Output(r) PROVE ParkedInv'
  <2>1. \A a \in Attempts : sdk'[a].held = sdk[a].held
    BY <1>0, <1>19, AttemptOK DEF Output, SdkStates
  <2> QED BY <1>d, <1>19, <2>1 DEF Output
<1>20. ASSUME NEW r \in Runs, Echo(r) PROVE ParkedInv'
  BY <1>b, <1>20 DEF Echo
<1>21. ASSUME NEW r \in Runs, Result(r) PROVE ParkedInv'
  <2>1. PICK left : sdk' = [sdk EXCEPT ![AttemptOf(r)].turns = left]
    BY <1>21 DEF Result
  <2>2. \A a \in Attempts : sdk'[a].held = sdk[a].held
    BY <1>0, <2>1, AttemptOK DEF SdkStates
  <2> QED BY <1>d, <1>21, <2>2 DEF Result
<1>22. ASSUME NEW r \in Runs, Catch(r), run[r].pc # "no",
              mq'.waiters \in {mq.waiters, <<>>}, mq'.gen = mq.gen
       PROVE  ParkedInv'
  BY <1>22, CatchTypes, QueueWaiters, ParkedKept DEF RunMoves
<1>23. ASSUME NEW r \in Runs, Retry(r), run[r].pc \in {"boot", "live"}, run[r].attempt = 1,
              mq'.waiters \in {mq.waiters, <<>>}, mq'.gen = mq.gen
       PROVE  ParkedInv'
  <2>1. run'[r].attempt = 2
    BY <1>0, <1>23 DEF Retry, RunStates
  <2> QED BY <1>23, <2>1, RetryTypes, QueueWaiters, ParkedKept DEF RunMoves
<1>24. ASSUME NEW r \in Runs, Fatal(r) PROVE ParkedInv'
  BY <1>22, <1>24, QueueWaiters DEF Fatal, Looping
<1>25. ASSUME NEW r \in Runs, StartupTimeout(r) PROVE ParkedInv'
  <2>1. run[r].pc = "live"
    BY <1>25 DEF StartupTimeout, Talking, Looping
  <2> QED BY <1>22, <1>23, <1>25, <2>1, QueueWaiters DEF StartupTimeout
<1>26. ASSUME NEW r \in Runs, Transient(r) PROVE ParkedInv'
  <2>1. run[r].pc \in {"boot", "live"}
    BY <1>26 DEF Transient, Looping
  <2>2. Redo.waiters = mq.waiters /\ Redo.gen = mq.gen
    BY QueueWaiters DEF Redo
  <2> QED BY <1>22, <1>23, <1>26, <2>1, <2>2, QueueWaiters DEF Transient
<1>27. ASSUME Take PROVE ParkedInv'
  <2> DEFINE a == Head(mq.waiters)
             e == Head(mq.entries)
             n == Len(mq.waiters)
  <2>1. mq'.waiters = Tail(mq.waiters) /\ mq.waiters # <<>> /\ mq'.gen = mq.gen /\ run' = run
    BY <1>0, <1>27 DEF Take, Queues
  <2>2. /\ a \in Attempts /\ a = mq.waiters[1] /\ 1 \in DOMAIN mq.waiters /\ n \in Nat
        /\ DOMAIN mq'.waiters = 1..(n - 1)
        /\ \A i \in 1..(n - 1) : /\ i + 1 \in DOMAIN mq.waiters /\ i + 1 # 1
                                 /\ mq'.waiters[i] = mq.waiters[i + 1]
    BY <1>0, <2>1
  <2>3. sdk' = [sdk EXCEPT ![a].held = e, ![a].cap = mq.gen, ![a].turns = @ + 1]
    BY <1>27 DEF Take
  <2> HIDE DEF a, e, n
  <2>4. \A b \in Attempts : b # a => sdk'[b] = sdk[b]
    BY <1>0, <2>2, <2>3
  <2>5. \A i \in 1..(n - 1) : mq'.waiters[i] # a /\ mq'.waiters[i] \in Attempts
    BY <1>0, <2>2 DEF ParkedInv
  <2>6. \A i \in DOMAIN mq'.waiters : sdk'[mq'.waiters[i]].held = NoEntry
    BY <2>2, <2>4, <2>5 DEF ParkedInv
  <2>7. ASSUME NEW i \in 1..(n - 1), NEW j \in 1..(n - 1), i # j PROVE mq'.waiters[i] # mq'.waiters[j]
    <3>1. i + 1 # j + 1
      BY <2>7
    <3> QED BY <2>2, <3>1 DEF ParkedInv
  <2>8. ASSUME NEW r \in Runs, NEW k \in {1, 2}, Untried(r, k)'
        PROVE  sdk'[<<r, k>>].held = NoEntry /\ \A i \in DOMAIN mq'.waiters : mq'.waiters[i] # <<r, k>>
    <3>1. Untried(r, k) /\ <<r, k>> \in Attempts
      BY <2>1, <2>8 DEF Untried, Attempts
    <3>2. a # <<r, k>>
      BY <1>u, <2>2, <3>1
    <3>3. sdk'[<<r, k>>].held = NoEntry
      BY <1>u, <2>4, <3>1, <3>2
    <3>4. \A i \in DOMAIN mq.waiters : mq.waiters[i] # <<r, k>>
      BY <1>u, <3>1
    <3> QED BY <2>2, <3>3, <3>4
  <2>9. \A r \in Runs : r > mq'.gen => run'[r].pc = "no"
    BY <2>1 DEF ParkedInv
  <2> QED BY <2>2, <2>6, <2>7, <2>8, <2>9 DEF ParkedInv
<1>28. ASSUME InterruptEnds PROVE ParkedInv'
  BY <1>0, <1>d, <1>28, QueueWaiters, SdkCloses DEF InterruptEnds
<1>29. ASSUME LifecycleStopped PROVE ParkedInv'
  <2>1. \A a \in Attempts : sdk'[a].held = sdk[a].held
    BY <1>29, Bounds, StopTypes DEF LifecycleStopped
  <2> QED BY <1>d, <1>29, <2>1 DEF LifecycleStopped
<1>30. ASSUME LifecycleStarts PROVE ParkedInv'
  BY <1>c, <1>30 DEF LifecycleStarts
<1>31. ASSUME Interrupt PROVE ParkedInv'
  <2>1. \A a \in Attempts : sdk'[a].held = sdk[a].held
    BY <1>0, <1>31 DEF Interrupt, SdkStates
  <2> QED BY <1>d, <1>31, <2>1, QueueWaiters DEF Interrupt
<1>32. ASSUME UserReset \/ UserRestart PROVE ParkedInv'
  BY <1>d, <1>32, QueueWaiters DEF UserReset, UserRestart
<1>33. ASSUME Crash PROVE ParkedInv'
  <2>1. mq'.waiters = <<>> /\ mq'.gen = mq.gen
    BY <1>33, QueueWaiters DEF Crash
  <2>2. \A a \in Attempts : sdk'[a].held = NoEntry
    BY <1>33 DEF Crash, NoSdk
  <2>3. \A r \in Runs : run'[r] = IF run[r].pc = "no" THEN run[r] ELSE [run[r] EXCEPT !.pc = "over"]
    BY <1>33 DEF Crash
  <2>4. ASSUME NEW r \in Runs PROVE RunMoves(r)
    <3>1. CASE run[r].pc = "no"
      BY <2>3, <3>1 DEF RunMoves
    <3>2. CASE run[r].pc # "no"
      <4>1. run[r] \in RunStates /\ run'[r] = [run[r] EXCEPT !.pc = "over"]
        BY <1>0, <2>3, <3>2
      <4>2. run'[r].pc = "over"
        BY <4>1 DEF RunStates
      <4> QED BY <3>2, <4>2 DEF RunMoves
    <3> QED BY <3>1, <3>2
  <2> QED BY <2>1, <2>2, <2>4, QueueWaiters, ParkedKept
<1>34. CASE UNCHANGED vars
  BY <1>b, <1>34 DEF vars
<1> QED
  BY <1>1, <1>2, <1>3, <1>4, <1>5, <1>6, <1>7, <1>8, <1>9, <1>10, <1>11, <1>12, <1>13, <1>14, <1>15,
     <1>16, <1>17, <1>18, <1>19, <1>20, <1>21, <1>24, <1>25, <1>26, <1>27, <1>28,
     <1>29, <1>30, <1>31, <1>32, <1>33, <1>34
  DEF Next, Deliver, Replay, Drive, Supervise, Owners

(* PromisesMatch from the side of the callers.                                 *)
Answered ==
  /\ \A m \in Msgs : handler[m] = "wait" =>
        \E e \in Outstanding : e.by \in {"send", "resend"} /\ e.msg = m
  /\ \A o \in Owners : flush[o].pc = "wait" =>
        \E e \in Outstanding : e.by = "flush" /\ e.owner = o

LEMMA AnsweredKept ==
  ASSUME Answered,
         \A m \in Msgs : handler'[m] = "wait" =>
            /\ handler[m] = "wait"
            /\ \A e \in Outstanding : e.by \in {"send", "resend"} /\ e.msg = m => e \in Outstanding',
         \A o \in Owners : flush'[o].pc = "wait" =>
            /\ flush[o].pc = "wait"
            /\ \A e \in Outstanding : e.by = "flush" /\ e.owner = o => e \in Outstanding'
  PROVE  Answered'
<1>1. ASSUME NEW m \in Msgs, handler'[m] = "wait"
      PROVE  \E e \in Outstanding' : e.by \in {"send", "resend"} /\ e.msg = m
  <2>1. PICK e \in Outstanding : e.by \in {"send", "resend"} /\ e.msg = m
    BY <1>1 DEF Answered
  <2> QED BY <1>1, <2>1
<1>2. ASSUME NEW o \in Owners, flush'[o].pc = "wait"
      PROVE  \E e \in Outstanding' : e.by = "flush" /\ e.owner = o
  <2>1. PICK e \in Outstanding : e.by = "flush" /\ e.owner = o
    BY <1>2 DEF Answered
  <2> QED BY <1>2, <2>1
<1> QED BY <1>1, <1>2 DEF Answered

LEMMA OutstandingIs ==
  /\ \A e : e \in Outstanding <=> \/ \E i \in DOMAIN mq.entries : e = mq.entries[i]
                                  \/ e # NoEntry /\ \E a \in Attempts : e = sdk[a].held
  /\ \A e : e \in Outstanding' <=> \/ \E i \in DOMAIN mq'.entries : e = mq'.entries[i]
                                   \/ e # NoEntry /\ \E a \in Attempts : e = sdk'[a].held
BY DEF Outstanding

(* Nothing is taken out of the queue or out of an SDK's hands.                 *)
LEMMA AnsweredFramed ==
  ASSUME Answered, mq'.entries = mq.entries, \A a \in Attempts : sdk'[a].held = sdk[a].held,
         \A m \in Msgs : handler'[m] = "wait" => handler[m] = "wait",
         \A o \in Owners : flush'[o].pc = "wait" => flush[o].pc = "wait"
  PROVE  Answered'
<1>1. \A e : e \in Outstanding => e \in Outstanding'
  BY OutstandingIs
<1> QED BY <1>1, AnsweredKept

(* The caller whose entry goes is told.                                        *)
LEMMA AnsweredLess ==
  ASSUME Answered, NEW e, \A f : f \in Outstanding => f = e \/ f \in Outstanding',
         \A m \in Msgs : handler'[m] = "wait" => handler[m] = "wait",
         \A o \in Owners : flush'[o].pc = "wait" => flush[o].pc = "wait",
         e.by \in {"send", "resend"} => handler'[e.msg] # "wait",
         e.by = "flush" => flush'[e.owner].pc # "wait"
  PROVE  Answered'
BY AnsweredKept

LEMMA AnsweredCleared ==
  ASSUME TypeOK, Answered, mq'.entries = <<>>, flush' = ClearedFlush,
         \A a \in Attempts : sdk'[a].held = sdk[a].held,
         \A m \in Msgs : handler'[m] = "wait" => ClearedHandlers[m] = "wait"
  PROVE  Answered'
<1>1. ASSUME NEW m \in Msgs, handler'[m] = "wait"
      PROVE  /\ handler[m] = "wait"
             /\ \A e \in Outstanding : e.by \in {"send", "resend"} /\ e.msg = m => e \in Outstanding'
  <2>1. handler[m] = "wait" /\ ~ Rejects(mq.entries, m, "send") /\ ~ Rejects(mq.entries, m, "resend")
    BY <1>1 DEF ClearedHandlers
  <2>2. ASSUME NEW e \in Outstanding, e.by \in {"send", "resend"}, e.msg = m PROVE e \in Outstanding'
    <3>1. ~ \E i \in DOMAIN mq.entries : e = mq.entries[i]
      BY <2>1, <2>2 DEF Rejects
    <3> QED BY <3>1, OutstandingIs
  <2> QED BY <2>1, <2>2
<1>2. ASSUME NEW o \in Owners, flush'[o].pc = "wait"
      PROVE  /\ flush[o].pc = "wait"
             /\ \A e \in Outstanding : e.by = "flush" /\ e.owner = o => e \in Outstanding'
  <2>0. flush[o] \in Replays
    BY Typed
  <2>1. /\ flush'[o] = flush[o]
        /\ ~ \E i \in DOMAIN mq.entries : mq.entries[i].by = "flush" /\ mq.entries[i].owner = o
    <3>1. EndOf(flush[o]).pc # "wait"
      BY <2>0, FlushSteps
    <3> QED BY <1>2, <3>1 DEF ClearedFlush, Owners
  <2>2. ASSUME NEW e \in Outstanding, e.by = "flush", e.owner = o PROVE e \in Outstanding'
    <3>1. ~ \E i \in DOMAIN mq.entries : e = mq.entries[i]
      BY <2>1, <2>2
    <3> QED BY <3>1, OutstandingIs
  <2> QED BY <1>2, <2>1, <2>2
<1> QED BY <1>1, <1>2, AnsweredKept

LEMMA AnsweredPushed ==
  ASSUME TypeOK, Answered, NEW e \in Entries, mq'.entries = Append(mq.entries, e),
         \A a \in Attempts : sdk'[a].held = sdk[a].held,
         \A m \in Msgs : handler'[m] = "wait" =>
            handler[m] = "wait" \/ (e.by \in {"send", "resend"} /\ e.msg = m),
         \A o \in Owners : flush'[o].pc = "wait" =>
            flush[o].pc = "wait" \/ (e.by = "flush" /\ e.owner = o)
  PROVE  Answered'
<1> DEFINE n == Len(mq.entries) + 1
<1>1. /\ DOMAIN mq'.entries = 1..n /\ n \in 1..n /\ mq'.entries[n] = e
      /\ \A i \in DOMAIN mq.entries : i \in 1..n /\ mq'.entries[i] = mq.entries[i]
  BY QueueFields
<1> HIDE DEF n
<1>2. e \in Outstanding' /\ \A f : f \in Outstanding => f \in Outstanding'
  BY <1>1, OutstandingIs
<1>3. ASSUME NEW m \in Msgs, handler'[m] = "wait"
      PROVE  \E f \in Outstanding' : f.by \in {"send", "resend"} /\ f.msg = m
  <2>1. CASE handler[m] = "wait"
    <3>1. PICK f \in Outstanding : f.by \in {"send", "resend"} /\ f.msg = m
      BY <2>1 DEF Answered
    <3> QED BY <1>2, <3>1
  <2>2. CASE handler[m] # "wait"
    BY <1>2, <1>3, <2>2
  <2> QED BY <2>1, <2>2
<1>4. ASSUME NEW o \in Owners, flush'[o].pc = "wait"
      PROVE  \E f \in Outstanding' : f.by = "flush" /\ f.owner = o
  <2>1. CASE flush[o].pc = "wait"
    <3>1. PICK f \in Outstanding : f.by = "flush" /\ f.owner = o
      BY <2>1 DEF Answered
    <3> QED BY <1>2, <3>1
  <2>2. CASE flush[o].pc # "wait"
    BY <1>2, <1>4, <2>2
  <2> QED BY <2>1, <2>2
<1> QED BY <1>3, <1>4 DEF Answered

LEMMA AnsweredStep ==
  ASSUME TypeOK, Listed, ParkedInv, Answered, [Next]_vars
  PROVE  Answered'
<1>0. /\ mq \in Queues /\ mq.entries \in Seq(Entries) /\ mq.waiters \in Seq(Attempts)
      /\ run \in [Runs -> RunStates] /\ sdk \in [Attempts -> SdkStates]
      /\ handler \in [Msgs -> Steps] /\ flush \in [Owners -> Replays]
      /\ ctx \in Contexts /\ ctx.object \in Refs /\ ctx.ctl \in Refs
  BY Typed, QueueFields DEF Contexts
<1>a. EnsuredQueue.entries = mq.entries
  BY QueueEnsured
<1>b. CanStart => StartedQueue.entries = mq.entries
  BY QueueStarts
<1>c. \A m \in Msgs : \A s : s # "wait" /\ handler' = [handler EXCEPT ![m] = s] =>
         \A k \in Msgs : handler'[k] = "wait" => handler[k] = "wait"
  BY <1>0
<1>d. \A o \in Owners : \A f : f.pc # "wait" /\ flush' = [flush EXCEPT ![o] = f] =>
         \A p \in Owners : flush'[p].pc = "wait" => flush[p].pc = "wait"
  BY <1>0
<1>1. ASSUME NEW m \in Msgs, NEW later \in BOOLEAN, Persist(m, later) PROVE Answered'
  BY <1>c, <1>1, AnsweredFramed DEF Persist
<1>2. ASSUME NEW m \in Msgs, SendEnsure(m) PROVE Answered'
  BY <1>a, <1>c, <1>2, AnsweredFramed DEF SendEnsure
<1>3. ASSUME NEW m \in Msgs, SendStart(m) PROVE Answered'
  BY <1>b, <1>c, <1>3, AnsweredFramed DEF SendStart
<1>4. ASSUME NEW m \in Msgs, NEW by \in {"send", "resend"},
             mq' = Pushed(mq, EntryOf(m, by, 0)), handler' = [handler EXCEPT ![m] = "wait"],
             sdk' = sdk, flush' = flush
      PROVE  Answered'
  <2>1. EntryOf(m, by, 0) \in Entries /\ EntryOf(m, by, 0).msg = m /\ EntryOf(m, by, 0).by = by
    BY Bounds, EntryOK DEF Owners
  <2>2. mq'.entries = Append(mq.entries, EntryOf(m, by, 0))
    BY <1>0, <1>4, <2>1, QueueGrows
  <2>3. \A k \in Msgs : handler'[k] = "wait" => handler[k] = "wait" \/ k = m
    BY <1>0, <1>4
  <2> QED BY <1>4, <2>1, <2>2, <2>3, AnsweredPushed
<1>5. ASSUME NEW m \in Msgs, SendPush(m) PROVE Answered'
  BY <1>4, <1>5 DEF SendPush
<1>6. ASSUME NEW m \in Msgs, FailReset(m) PROVE Answered'
  <2>1. \A k \in Msgs : handler'[k] = "wait" => ClearedHandlers[k] = "wait"
    BY <1>0, <1>6, ClearedTypes DEF FailReset
  <2>2. mq'.entries = <<>>
    BY <1>0, <1>6, QueueStops DEF FailReset
  <2> QED BY <1>6, <2>1, <2>2, AnsweredCleared DEF FailReset
<1>7. ASSUME NEW m \in Msgs, FailStopped(m) PROVE Answered'
  <2>1. \A a \in Attempts : sdk'[a].held = sdk[a].held
    BY <1>7, Bounds, StopTypes DEF FailStopped, Msgs
  <2> QED BY <1>c, <1>7, <2>1, AnsweredFramed DEF FailStopped
<1>8. ASSUME NEW m \in Msgs, FailRestart(m) PROVE Answered'
  BY <1>b, <1>c, <1>8, AnsweredFramed DEF FailRestart
<1>9. ASSUME NEW m \in Msgs, Repush(m) PROVE Answered'
  BY <1>4, <1>c, <1>9, AnsweredFramed DEF Repush
<1>10. ASSUME NEW m \in Msgs, GiveUp(m) PROVE Answered'
  BY <1>c, <1>10, AnsweredFramed DEF GiveUp
<1>11. ASSUME NEW i \in 1..(2 * NumMsgs), Timeout(i) PROVE Answered'
  <2> DEFINE e == mq.entries[i]
             n == Len(mq.entries)
  <2>1. /\ i \in 1..n /\ DOMAIN mq.entries = 1..n /\ n \in Nat /\ e \in Entries
    BY <1>0, <1>11 DEF Timeout
  <2>2. mq'.entries = [j \in 1..(n - 1) |-> mq.entries[IF j < i THEN j ELSE j + 1]]
    BY <1>0, <1>11 DEF Timeout, Queues
  <2>3. sdk' = sdk
    BY <1>11 DEF Timeout
  <2>4. e.msg \in Msgs /\ e.owner \in Owners
    BY <2>1, EntryFields
  <2>5. /\ e.by \in {"send", "resend"} => handler'[e.msg] # "wait"
        /\ \A m \in Msgs : handler'[m] = "wait" => handler[m] = "wait"
    BY <1>0, <1>11, <2>4 DEF Timeout
  <2>6. EndOf(flush[e.owner]).pc # "wait"
    BY <1>0, <2>4, FlushSteps
  <2>7. flush' = IF e.by = "flush" THEN [flush EXCEPT ![e.owner] = EndOf(@)] ELSE flush
    BY <1>11 DEF Timeout
  <2> HIDE DEF e, n
  <2>8. /\ e.by = "flush" => flush'[e.owner].pc # "wait"
        /\ \A o \in Owners : flush'[o].pc = "wait" => flush[o].pc = "wait"
    BY <1>0, <2>4, <2>6, <2>7
  <2>9. ASSUME NEW j \in 1..n, j # i PROVE \E k \in 1..(n - 1) : mq'.entries[k] = mq.entries[j]
    <3>1. CASE j < i
      <4>1. j \in 1..(n - 1)
        BY <2>1, <3>1
      <4> QED BY <2>2, <3>1, <4>1
    <3>2. CASE ~(j < i)
      <4>1. j - 1 \in 1..(n - 1) /\ ~(j - 1 < i) /\ (j - 1) + 1 = j
        BY <2>1, <2>9, <3>2
      <4>2. mq'.entries[j - 1] = mq.entries[j]
        BY <2>2, <4>1
      <4> QED BY <4>1, <4>2
    <3> QED BY <3>1, <3>2
  <2>10. \A f : f \in Outstanding => f = e \/ f \in Outstanding'
    <3>1. DOMAIN mq'.entries = 1..(n - 1) /\ e = mq.entries[i]
      BY <2>2 DEF e
    <3>2. ASSUME NEW f \in Outstanding, f # e PROVE f \in Outstanding'
      <4>1. CASE \E j \in DOMAIN mq.entries : f = mq.entries[j]
        <5>1. PICK j \in 1..n : f = mq.entries[j] /\ j # i
          BY <2>1, <3>1, <3>2, <4>1
        <5>2. PICK k \in 1..(n - 1) : mq'.entries[k] = mq.entries[j]
          BY <2>9, <5>1
        <5> QED BY <3>1, <5>1, <5>2, OutstandingIs
      <4>2. CASE ~ \E j \in DOMAIN mq.entries : f = mq.entries[j]
        BY <2>3, <3>2, <4>2, OutstandingIs
      <4> QED BY <4>1, <4>2
    <3> QED BY <3>2
  <2> QED BY <2>5, <2>8, <2>10, AnsweredLess
<1>12. ASSUME NEW a \in Attempts, Ask(a) PROVE Answered'
  <2> DEFINE e == sdk[a].held
  <2>1. e # NoEntry /\ e \in Entries
    BY <1>0, <1>12 DEF Ask, SdkStates
  <2>2. mq'.entries = mq.entries
    BY <1>0, <1>12, QueueParks DEF Ask
  <2>3. \A b \in Attempts : b # a => sdk'[b] = sdk[b]
    BY <1>0, <1>12 DEF Ask, SdkStates
  <2>4. e.msg \in Msgs /\ e.owner \in Owners
    BY <2>1, EntryFields
  <2>5. /\ e.by \in {"send", "resend"} => handler'[e.msg] # "wait"
        /\ \A m \in Msgs : handler'[m] = "wait" => handler[m] = "wait"
    BY <1>0, <1>12, <2>4 DEF Ask
  <2>6. StepOf(flush[e.owner]).pc # "wait"
    BY <1>0, <2>4, FlushSteps
  <2>7. flush' = IF e.by = "flush" THEN [flush EXCEPT ![e.owner] = StepOf(@)] ELSE flush
    BY <1>12 DEF Ask
  <2>8. \A f : f \in Outstanding => f = e \/ f \in Outstanding'
    BY <2>2, <2>3, OutstandingIs
  <2> HIDE DEF e
  <2>9. /\ e.by = "flush" => flush'[e.owner].pc # "wait"
        /\ \A o \in Owners : flush'[o].pc = "wait" => flush[o].pc = "wait"
    BY <1>0, <2>4, <2>6, <2>7
  <2> QED BY <2>5, <2>8, <2>9, AnsweredLess
<1>13. ASSUME NEW o \in Owners, FlushTrigger(o) PROVE Answered'
  <2>1. TriggerOf(row).pc # "wait"
    BY DEF TriggerOf, Replaying, NoFlush
  <2> QED BY <1>d, <1>13, <2>1, AnsweredFramed DEF FlushTrigger
<1>14. ASSUME NEW o \in Owners, NEW pc1 \in {"ensure", "start", "push"},
              flush' = [flush EXCEPT ![o].pc = pc1],
              mq'.entries = mq.entries, handler' = handler, sdk' = sdk
       PROVE  Answered'
  <2>1. flush'[o].pc # "wait" /\ \A p \in Owners : p # o => flush'[p] = flush[p]
    BY <1>0, <1>14 DEF Replays
  <2> QED BY <1>14, <2>1, AnsweredFramed
<1>15. ASSUME NEW o \in Owners, FlushEnsure(o) PROVE Answered'
  <2>1. flush' = [flush EXCEPT ![o].pc = "push"] \/ flush' = [flush EXCEPT ![o].pc = "start"]
    BY <1>15 DEF FlushEnsure
  <2> QED BY <1>a, <1>14, <1>15, <2>1 DEF FlushEnsure
<1>16. ASSUME NEW o \in Owners, FlushStart(o) PROVE Answered'
  BY <1>b, <1>14, <1>16 DEF FlushStart
<1>17. ASSUME NEW o \in Owners, FlushPush(o) PROVE Answered'
  <2> DEFINE m == First(flush[o].todo)
             e == EntryOf(m, "flush", o)
  <2>1. flush[o].todo # {} /\ flush[o].todo \in SUBSET Msgs
    BY <1>0, <1>17 DEF FlushPush, Listed, Replays
  <2>2. e \in Entries /\ e.by = "flush" /\ e.owner = o
    BY <2>1, FirstIsListed, EntryOK
  <2>3. /\ mq' = Pushed(mq, e) /\ flush' = [flush EXCEPT ![o].pc = "wait"]
        /\ sdk' = sdk /\ handler' = handler
    BY <1>17 DEF FlushPush
  <2> HIDE DEF e, m
  <2>4. \A p \in Owners : p # o => flush'[p] = flush[p]
    BY <1>0, <2>3 DEF Replays
  <2>5. mq'.entries = Append(mq.entries, e)
    BY <1>0, <2>2, <2>3, QueueGrows
  <2> QED BY <2>2, <2>3, <2>4, <2>5, AnsweredPushed
<1>18. ASSUME NEW r \in Runs, Launch(r) PROVE Answered'
  <2>1. mq'.entries = mq.entries /\ handler' = handler /\ flush' = flush
    BY <1>0, <1>18, QueueParks, AttemptOK DEF Launch
  <2>2. \A a \in Attempts : sdk'[a].held = sdk[a].held
    <3>1. sdk' = [sdk EXCEPT ![AttemptOf(r)] = [NoSdk EXCEPT !.alive = TRUE]]
      BY <1>18 DEF Launch
    <3>2. [NoSdk EXCEPT !.alive = TRUE].held = NoEntry
      BY DEF NoSdk
    <3>3. run[r].attempt \in {1, 2} /\ Untried(r, run[r].attempt)
      BY <1>0, <1>18 DEF Launch, Untried, RunStates
    <3>4. sdk[AttemptOf(r)].held = NoEntry
      BY <3>3 DEF ParkedInv, AttemptOf
    <3> QED BY <1>0, <3>1, <3>2, <3>4
  <2> QED BY <2>1, <2>2, AnsweredFramed
<1>19. ASSUME NEW r \in Runs, Caught(r) \/ End(r) PROVE Answered'
  <2>1. Finally(r, mq) /\ sdk' = FinallyCloses(r) /\ UNCHANGED <<row, handler, flush>>
    BY <1>19 DEF Caught, End
  <2> QED BY <2>1, FinallyTypes, TornOK, AnsweredFramed
<1>20. ASSUME NEW r \in Runs, Unwound(r) PROVE Answered'
  <2>1. mq'.entries = mq.entries /\ \A a \in Attempts : sdk'[a].held = sdk[a].held
    BY <1>0, <1>20, QueueStops, TornOK DEF Unwound
  <2> QED BY <1>20, <2>1, AnsweredFramed DEF Unwound
<1>21. ASSUME NEW r \in Runs, Output(r) PROVE Answered'
  <2>1. \A a \in Attempts : sdk'[a].held = sdk[a].held
    BY <1>0, <1>21, AttemptOK DEF Output, SdkStates
  <2> QED BY <1>21, <2>1, AnsweredFramed DEF Output
<1>22. ASSUME NEW r \in Runs, Echo(r) PROVE Answered'
  BY <1>22, AnsweredFramed DEF Echo
<1>23. ASSUME NEW r \in Runs, Result(r) PROVE Answered'
  <2>1. PICK left : sdk' = [sdk EXCEPT ![AttemptOf(r)].turns = left]
    BY <1>23 DEF Result
  <2>2. \A a \in Attempts : sdk'[a].held = sdk[a].held
    BY <1>0, <2>1, AttemptOK DEF SdkStates
  <2>3. TriggerOf(row).pc # "wait" /\ r \in Owners
    BY AttemptOK DEF TriggerOf, Replaying, NoFlush
  <2> QED BY <1>d, <1>23, <2>2, <2>3, AnsweredFramed DEF Result
<1>24. ASSUME NEW r \in Runs, Catch(r), mq'.entries = <<>> PROVE Answered'
  BY <1>24, CatchTypes, AnsweredCleared DEF Catch
<1>25. ASSUME NEW r \in Runs, Fatal(r) PROVE Answered'
  BY <1>0, <1>24, <1>25, QueueStops DEF Fatal
<1>26. ASSUME NEW r \in Runs, StartupTimeout(r) PROVE Answered'
  <2>1. CASE run[r].attempt = 1
    <3>1. Retry(r) /\ mq' = Stopped(mq) /\ UNCHANGED <<row, handler, flush>>
      BY <1>26, <2>1 DEF StartupTimeout
    <3> QED BY <1>0, <3>1, QueueStops, RetryTypes, AnsweredFramed
  <2>2. CASE run[r].attempt # 1
    <3>1. Catch(r) /\ mq' = Emptied(Stopped(mq))
      BY <1>26, <2>2 DEF StartupTimeout
    <3> QED BY <1>0, <1>24, <3>1, QueueStops
  <2> QED BY <2>1, <2>2
<1>27. ASSUME NEW r \in Runs, Transient(r) PROVE Answered'
  <2>1. CASE run[r].attempt = 1 /\ ctx.status # "interrupted"
    <3>1. Retry(r) /\ mq' = Redo /\ UNCHANGED <<row, handler, flush>>
      BY <1>27, <2>1 DEF Transient
    <3>2. \A a \in Attempts : sdk'[a].held = sdk[a].held
      BY <3>1, RetryTypes
    <3>3. CASE ctx.lastMsg = 0
      BY <3>1, <3>2, <3>3, AnsweredFramed DEF Redo
    <3>4. CASE ctx.lastMsg # 0
      <4>1. EntryOf(ctx.lastMsg, "redo", 0) \in Entries
        BY <1>0, <3>4, Bounds, EntryOK DEF Contexts, Msgs, Owners
      <4>2. mq'.entries = Append(mq.entries, EntryOf(ctx.lastMsg, "redo", 0))
        BY <1>0, <3>1, <3>4, <4>1, QueueGrows DEF Redo
      <4> QED BY <3>1, <3>2, <4>1, <4>2, AnsweredPushed
    <3> QED BY <3>3, <3>4
  <2>2. CASE ~ (run[r].attempt = 1 /\ ctx.status # "interrupted")
    <3>1. Catch(r) /\ mq' = Emptied(mq)
      BY <1>27, <2>2 DEF Transient
    <3> QED BY <1>0, <1>24, <3>1, QueueStops
  <2> QED BY <2>1, <2>2
<1>28. ASSUME Take PROVE Answered'
  <2> DEFINE a == Head(mq.waiters)
             e == Head(mq.entries)
             n == Len(mq.entries)
  <2>1. mq.waiters # <<>> /\ mq.entries # <<>> /\ handler' = handler /\ flush' = flush
    BY <1>28 DEF Take
  <2>2. /\ a \in Attempts /\ a = mq.waiters[1] /\ 1 \in DOMAIN mq.waiters
        /\ e \in Entries /\ e = mq.entries[1] /\ DOMAIN mq.entries = 1..n /\ n \in Nat
    BY <1>0, <2>1
  <2>3. mq'.entries = Tail(mq.entries)
    BY <1>0, <1>28 DEF Take, Queues
  <2>4. DOMAIN mq'.entries = 1..(n - 1) /\ \A i \in 1..(n - 1) : mq'.entries[i] = mq.entries[i + 1]
    BY <1>0, <2>1, <2>3
  <2>5. sdk' = [sdk EXCEPT ![a].held = e, ![a].cap = mq.gen, ![a].turns = @ + 1]
    BY <1>28 DEF Take
  <2>6. sdk[a].held = NoEntry
    BY <2>2 DEF ParkedInv
  <2> HIDE DEF a, e, n
  <2>7. sdk'[a].held = e /\ \A b \in Attempts : b # a => sdk'[b] = sdk[b]
    BY <1>0, <2>2, <2>5 DEF SdkStates
  <2>8. ASSUME NEW j \in 1..n PROVE mq.entries[j] \in Outstanding'
    <3>1. CASE j = 1
      BY <2>2, <2>7, <3>1, EntryFields, OutstandingIs
    <3>2. CASE j # 1
      <4>1. j - 1 \in 1..(n - 1) /\ (j - 1) + 1 = j
        BY <2>2, <3>2
      <4>2. mq'.entries[j - 1] = mq.entries[j]
        BY <2>4, <4>1
      <4> QED BY <2>4, <4>1, <4>2, OutstandingIs
    <3> QED BY <3>1, <3>2
  <2>9. \A b \in Attempts : sdk[b].held # NoEntry => sdk[b].held \in Outstanding'
    BY <2>6, <2>7, OutstandingIs
  <2>10. \A f : f \in Outstanding => f \in Outstanding'
    BY <2>2, <2>8, <2>9, OutstandingIs
  <2> QED BY <2>1, <2>10, AnsweredKept
<1>29. ASSUME InterruptEnds PROVE Answered'
  BY <1>0, <1>29, QueueStops, SdkCloses, AnsweredFramed DEF InterruptEnds
<1>30. ASSUME LifecycleStopped PROVE Answered'
  <2>1. \A a \in Attempts : sdk'[a].held = sdk[a].held
    BY <1>30, Bounds, StopTypes DEF LifecycleStopped
  <2> QED BY <1>30, <2>1, AnsweredFramed DEF LifecycleStopped
<1>31. ASSUME LifecycleStarts PROVE Answered'
  BY <1>b, <1>31, AnsweredFramed DEF LifecycleStarts
<1>32. ASSUME Interrupt PROVE Answered'
  <2>1. \A a \in Attempts : sdk'[a].held = sdk[a].held
    BY <1>0, <1>32 DEF Interrupt, SdkStates
  <2> QED BY <1>0, <1>32, <2>1, QueueStops, AnsweredCleared DEF Interrupt
<1>33. ASSUME UserReset PROVE Answered'
  <2>1. mq'.entries = <<>>
    BY <1>0, <1>33, QueueStops DEF UserReset
  <2> QED BY <1>33, <2>1, AnsweredCleared DEF UserReset
<1>34. ASSUME UserRestart PROVE Answered'
  BY <1>0, <1>34, QueueStops, AnsweredFramed DEF UserRestart
<1>35. ASSUME Crash PROVE Answered'
  <2>1. ReplayOf(Recovered).pc # "wait" /\ NoFlush.pc # "wait"
    BY DEF ReplayOf, Replaying, Triggering, NoFlush
  <2>2. \A o \in Owners : flush'[o] \in {ReplayOf(Recovered), NoFlush}
    BY <1>35 DEF Crash, Owners
  <2>3. \A m \in Msgs : handler'[m] = "idle"
    BY <1>35 DEF Crash
  <2> QED BY <2>1, <2>2, <2>3 DEF Answered
<1>36. CASE UNCHANGED vars
  BY <1>36, AnsweredFramed DEF vars
<1> QED
  BY <1>1, <1>2, <1>3, <1>5, <1>6, <1>7, <1>8, <1>9, <1>10, <1>11, <1>12, <1>13, <1>15,
     <1>16, <1>17, <1>18, <1>19, <1>20, <1>21, <1>22, <1>23, <1>25, <1>26, <1>27, <1>28,
     <1>29, <1>30, <1>31, <1>32, <1>33, <1>34, <1>35, <1>36
  DEF Next, Deliver, Replay, Drive, Supervise, Owners

-----------------------------------------------------------------------------
(* The safety properties *)

DeliveryInv == TypeOK /\ RunInv /\ PromiseInv /\ ParkedInv /\ Answered

LEMMA DeliveryStarts == Init => DeliveryInv
<1> SUFFICES ASSUME Init PROVE DeliveryInv
  OBVIOUS
<1>1. /\ mq.entries = <<>> /\ mq.waiters = <<>> /\ mq.running = FALSE /\ mq.gen = 0
      /\ \A a \in Attempts : sdk[a].held = NoEntry
      /\ \A o \in Owners : flush[o].todo = {} /\ flush[o].pc = "no"
      /\ \A m \in Msgs : handler[m] = "idle"
  BY DEF Init, NoSdk, NoFlush, Owners
<1>2. 0 \in Owners /\ NoAttempt \in Refs /\ 0 \in 0..NumMsgs /\ 0 \in 0..MaxFaults
  BY Bounds DEF Owners, Refs
<1>3. TypeOK
  <2>1. mq \in Queues
    BY <1>2 DEF Init, Queues
  <2>2. ctx \in Contexts
    BY <1>2 DEF Init, FreshContext, Contexts
  <2>3. run \in [Runs -> RunStates] /\ handler \in [Msgs -> Steps] /\ row \in [Msgs -> Statuses]
    BY DEF Init, RunStates, Steps, Statuses
  <2>4. sdk \in [Attempts -> SdkStates]
    <3>1. NoSdk \in SdkStates
      BY <1>2 DEF NoSdk, SdkStates
    <3> QED BY <3>1 DEF Init
  <2>5. flush \in [Owners -> Replays]
    BY TriggerTypes DEF Init, Owners
  <2>6. stopping \in [0..NumMsgs -> Refs] /\ given \in [Msgs -> Nat]
    BY <1>2 DEF Init
  <2> QED BY <1>2, <2>1, <2>2, <2>3, <2>4, <2>5, <2>6, Typed DEF Init
<1>4. RunInv
  BY <1>1 DEF RunInv
<1>5. PromiseInv
  BY <1>1 DEF PromiseInv, ListInv, Listed, WaitInv, ApartInv
<1>6. ParkedInv
  <2>1. \A r \in Runs, n \in {1, 2} : <<r, n>> \in Attempts
    BY DEF Attempts
  <2>2. \A r \in Runs : run[r].pc = "no"
    BY DEF Init
  <2>3. DOMAIN mq.waiters = {}
    BY <1>1
  <2> QED BY <1>1, <2>1, <2>2, <2>3 DEF ParkedInv
<1>7. Answered
  BY <1>1 DEF Answered
<1> QED BY <1>3, <1>4, <1>5, <1>6, <1>7 DEF DeliveryInv

LEMMA DeliveryStep == DeliveryInv /\ [Next]_vars => DeliveryInv'
BY TypeStep, RunStep, PromiseStep, ParkedStep, AnsweredStep DEF DeliveryInv, PromiseInv, ListInv

LEMMA DeliveryAlways == Spec => []DeliveryInv
BY DeliveryStarts, DeliveryStep, PTL DEF Spec

(* Every variable keeps its type, whatever fails and however often.            *)
THEOREM DeliveryTypes == Spec => []TypeOK
<1>1. DeliveryInv => TypeOK
  BY DEF DeliveryInv
<1> QED BY <1>1, DeliveryAlways, PTL

(* query-runner.ts stops the queue at the end of the message loop: it never    *)
(* runs for a query that has ended.                                            *)
THEOREM QueueNeverOrphaned == Spec => []QueueServesItsRun
<1>1. DeliveryInv => QueueServesItsRun
  BY DEF DeliveryInv, RunInv, QueueServesItsRun
<1> QED BY <1>1, DeliveryAlways, PTL

(* A queued entry belongs to a caller that still awaits it, no message is      *)
(* queued twice but by a retry, and a caller that awaits has something         *)
(* outstanding that can answer it.                                             *)
THEOREM PromisesAreKept == Spec => []PromisesMatch
<1>1. PromiseInv /\ Answered => PromisesMatch
  BY DEF PromiseInv, WaitInv, ApartInv, Answered, Owners, Waits, Apart, PromisesMatch
<1> QED BY <1>1, DeliveryAlways, PTL DEF DeliveryInv

-----------------------------------------------------------------------------
(* The ledger *)

(* What may still be delivered was never given, and its row says so.           *)
Fresh(m, times, rows) == times[m] = 0 /\ rows[m] \in {"enqueued", "consumed"}

FreshInv ==
  /\ \A i \in DOMAIN mq.entries : mq.entries[i].by # "redo" /\ Fresh(mq.entries[i].msg, given, row)
  /\ \A m \in Msgs : handler[m] \notin {"idle", "wait"} => Fresh(m, given, row)
  /\ \A o \in Owners : \A m \in flush[o].todo :
       (flush[o].pc = "wait" /\ m = First(flush[o].todo)) \/ Fresh(m, given, row)
  /\ \A m \in Msgs : given[m] # 0 => given[m] = 1 /\ row[m] \in {"consumed", "failed"}

(* Rows and deliveries stay, entries only leave, and what a handler or a       *)
(* replay turns to is fresh.                                                   *)
LEMMA FreshKept ==
  ASSUME FreshInv, given' = given, row' = row,
         \A j \in DOMAIN mq'.entries : \E i \in DOMAIN mq.entries : mq'.entries[j] = mq.entries[i],
         \A m \in Msgs : handler'[m] \notin {"idle", "wait"} => Fresh(m, given, row),
         \A o \in Owners : \A m \in flush'[o].todo :
           (flush'[o].pc = "wait" /\ m = First(flush'[o].todo)) \/ Fresh(m, given, row)
  PROVE  FreshInv'
BY DEF FreshInv, Fresh

(* A step that queues nothing and leaves the replays alone.                    *)
LEMMA FreshFramed ==
  ASSUME FreshInv, given' = given, row' = row, mq'.entries = mq.entries, flush' = flush,
         \A m \in Msgs : handler'[m] \notin {"idle", "wait"} => handler[m] \notin {"idle", "wait"}
  PROVE  FreshInv'
<1>1. \A m \in Msgs : handler'[m] \notin {"idle", "wait"} => Fresh(m, given, row)
  BY DEF FreshInv
<1>2. \A o \in Owners : \A m \in flush'[o].todo :
        (flush'[o].pc = "wait" /\ m = First(flush'[o].todo)) \/ Fresh(m, given, row)
  BY DEF FreshInv
<1> QED BY <1>1, <1>2, FreshKept

LEMMA FreshCleared ==
  ASSUME TypeOK, FreshInv, given' = given, row' = row, mq'.entries = <<>>, flush' = ClearedFlush,
         \A m \in Msgs : \/ handler'[m] = ClearedHandlers[m] \/ handler[m] \notin {"idle", "wait"}
  PROVE  FreshInv'
<1>0. flush \in [Owners -> Replays]
  BY Typed
<1>1. ASSUME NEW m \in Msgs, handler'[m] \notin {"idle", "wait"} PROVE Fresh(m, given, row)
  <2>1. CASE handler[m] \notin {"idle", "wait"}
    BY <2>1 DEF FreshInv
  <2>2. CASE handler[m] \in {"idle", "wait"}
    <3>1. ClearedHandlers[m] \notin {"idle", "wait"}
      BY <1>1, <2>2
    <3>2. Rejects(mq.entries, m, "resend")
      BY <2>2, <3>1 DEF ClearedHandlers
    <3> QED BY <3>2 DEF Rejects, FreshInv
  <2> QED BY <2>1, <2>2
<1>2. ASSUME NEW o \in Owners, NEW m \in flush'[o].todo
      PROVE  (flush'[o].pc = "wait" /\ m = First(flush'[o].todo)) \/ Fresh(m, given, row)
  <2>1. flush'[o] \in {flush[o], EndOf(flush[o])} /\ flush[o] \in Replays
    BY <1>0 DEF ClearedFlush, Owners
  <2>2. flush'[o] = flush[o]
    BY <1>2, <2>1, FlushSteps
  <2> QED BY <1>2, <2>2 DEF FreshInv
<1> QED BY <1>1, <1>2, FreshKept

LEMMA FreshPushed ==
  ASSUME TypeOK, FreshInv, NEW e \in Entries, e.by # "redo", Fresh(e.msg, given, row),
         mq' = Pushed(mq, e), given' = given, row' = row,
         \A m \in Msgs : handler'[m] \notin {"idle", "wait"} => Fresh(m, given, row),
         \A o \in Owners : \A m \in flush'[o].todo :
           (flush'[o].pc = "wait" /\ m = First(flush'[o].todo)) \/ Fresh(m, given, row)
  PROVE  FreshInv'
<1>1. mq'.entries = Append(mq.entries, e) /\ mq.entries \in Seq(Entries)
  BY QueueFields, Typed, QueueGrows
<1>2. \A j \in DOMAIN mq'.entries : mq'.entries[j].by # "redo" /\ Fresh(mq'.entries[j].msg, given, row)
  <2>1. \A j \in DOMAIN mq'.entries : mq'.entries[j] = e \/ \E i \in DOMAIN mq.entries : mq'.entries[j] = mq.entries[i]
    BY <1>1
  <2> QED BY <2>1 DEF FreshInv
<1> QED BY <1>2 DEF FreshInv, Fresh

(* Without a dropped connection nothing is queued a second time once given.    *)
LEMMA FreshStep ==
  ASSUME "transient" \notin Kinds, DeliveryInv, FreshInv, [Next]_vars
  PROVE  FreshInv'
<1>0. /\ TypeOK /\ PromiseInv /\ row \in [Msgs -> Statuses] /\ mq \in Queues
      /\ mq.entries \in Seq(Entries) /\ handler \in [Msgs -> Steps]
      /\ flush \in [Owners -> Replays] /\ given \in [Msgs -> Nat] /\ ctx.object \in Refs
  BY Typed, QueueFields DEF DeliveryInv, Contexts
<1>a. EnsuredQueue.entries = mq.entries
  BY <1>0, QueueEnsured
<1>b. CanStart => StartedQueue.entries = mq.entries
  BY <1>0, QueueStarts
<1>c. \A o \in Owners : \A m \in flush[o].todo :
        (flush[o].pc = "wait" /\ m = First(flush[o].todo)) \/ Fresh(m, given, row)
  BY DEF FreshInv
<1>d. \A m \in Msgs : row[m] \in {"absent", "deferred", "enqueued"} => given[m] = 0
  BY DEF FreshInv
<1>1. ASSUME NEW m \in Msgs, NEW later \in BOOLEAN, Persist(m, later) PROVE FreshInv'
  <2>1. /\ mq' = mq /\ flush' = flush /\ given' = given /\ row[m] = "absent" /\ given[m] = 0
        /\ \A n \in Msgs : n # m => row'[n] = row[n] /\ handler'[n] = handler[n]
        /\ row'[m] \in {"deferred", "enqueued"}
        /\ handler'[m] \notin {"idle", "wait"} => row'[m] = "enqueued"
    BY <1>0, <1>d, <1>1 DEF Persist, FreshInv, PromiseInv, ListInv, Unsent
  <2>2. \A n \in Msgs : Fresh(n, given, row) => row'[n] \in {"enqueued", "consumed"}
    BY <2>1 DEF Fresh
  <2>3. \A i \in DOMAIN mq.entries : mq.entries[i].by # "redo" /\ Fresh(mq.entries[i].msg, given, row)
                                     /\ mq.entries[i].msg \in Msgs
    BY <1>0, EntryFields DEF FreshInv
  <2>4. \A i \in DOMAIN mq'.entries : mq'.entries[i].by # "redo" /\ Fresh(mq'.entries[i].msg, given', row')
    BY <2>1, <2>2, <2>3 DEF Fresh
  <2>5. \A n \in Msgs : handler'[n] \notin {"idle", "wait"} => Fresh(n, given', row')
    BY <2>1, <2>2 DEF Fresh, FreshInv
  <2>6. \A o \in Owners : \A n \in flush'[o].todo :
          (flush'[o].pc = "wait" /\ n = First(flush'[o].todo)) \/ Fresh(n, given', row')
    <3>1. \A o \in Owners : flush[o].todo \subseteq Msgs
      BY <1>0 DEF Replays
    <3> QED BY <1>c, <2>1, <2>2, <3>1 DEF Fresh
  <2>7. \A n \in Msgs : given'[n] # 0 => given'[n] = 1 /\ row'[n] \in {"consumed", "failed"}
    BY <2>1 DEF FreshInv
  <2> QED BY <2>4, <2>5, <2>6, <2>7 DEF FreshInv, Fresh
<1>2. ASSUME NEW m \in Msgs, SendEnsure(m) PROVE FreshInv'
  <2>1. \A n \in Msgs : handler'[n] \notin {"idle", "wait"} => handler[n] \notin {"idle", "wait"}
    BY <1>0, <1>2 DEF SendEnsure
  <2> QED BY <1>a, <1>2, <2>1, FreshFramed DEF SendEnsure
<1>3. ASSUME NEW m \in Msgs, SendStart(m) PROVE FreshInv'
  <2>1. \A n \in Msgs : handler'[n] \notin {"idle", "wait"} => handler[n] \notin {"idle", "wait"}
    BY <1>0, <1>3 DEF SendStart
  <2> QED BY <1>b, <1>3, <2>1, FreshFramed DEF SendStart
<1>4. ASSUME NEW m \in Msgs, NEW by \in {"send", "resend"}, handler[m] \in {"push", "repush"},
             mq' = Pushed(mq, EntryOf(m, by, 0)), handler' = [handler EXCEPT ![m] = "wait"],
             row' = row, given' = given, flush' = flush
      PROVE  FreshInv'
  <2>1. /\ EntryOf(m, by, 0) \in Entries /\ EntryOf(m, by, 0).msg = m
        /\ EntryOf(m, by, 0).by # "redo"
    BY Bounds, EntryOK DEF Owners
  <2>2. Fresh(m, given, row)
    BY <1>4 DEF FreshInv
  <2>3. \A n \in Msgs : handler'[n] \notin {"idle", "wait"} => Fresh(n, given, row)
    BY <1>0, <1>4 DEF FreshInv
  <2> QED BY <1>0, <1>c, <1>4, <2>1, <2>2, <2>3, FreshPushed
<1>5. ASSUME NEW m \in Msgs, SendPush(m) PROVE FreshInv'
  BY <1>4, <1>5 DEF SendPush
<1>6. ASSUME NEW m \in Msgs, FailReset(m) PROVE FreshInv'
  <2>1. \A n \in Msgs : handler'[n] = ClearedHandlers[n] \/ handler[n] \notin {"idle", "wait"}
    BY <1>0, <1>6, ClearedTypes DEF FailReset
  <2>2. mq'.entries = <<>>
    BY <1>0, <1>6, QueueStops DEF FailReset
  <2> QED BY <1>0, <1>6, <2>1, <2>2, FreshCleared DEF FailReset
<1>7. ASSUME NEW m \in Msgs, FailStopped(m) PROVE FreshInv'
  <2>1. \A n \in Msgs : handler'[n] \notin {"idle", "wait"} => handler[n] \notin {"idle", "wait"}
    BY <1>0, <1>7 DEF FailStopped
  <2> QED BY <1>7, <2>1, FreshFramed DEF FailStopped
<1>8. ASSUME NEW m \in Msgs, FailRestart(m) PROVE FreshInv'
  <2>1. \A n \in Msgs : handler'[n] \notin {"idle", "wait"} => handler[n] \notin {"idle", "wait"}
    BY <1>0, <1>8 DEF FailRestart
  <2> QED BY <1>b, <1>8, <2>1, FreshFramed DEF FailRestart
<1>9. ASSUME NEW m \in Msgs, Repush(m) PROVE FreshInv'
  <2>1. CASE Healthy
    BY <1>4, <1>9, <2>1 DEF Repush
  <2>2. CASE ~ Healthy
    <3>1. \A n \in Msgs : handler'[n] \notin {"idle", "wait"} => handler[n] \notin {"idle", "wait"}
      BY <1>0, <1>9, <2>2 DEF Repush
    <3> QED BY <1>9, <2>2, <3>1, FreshFramed DEF Repush
  <2> QED BY <2>1, <2>2
<1>10. ASSUME NEW m \in Msgs, GiveUp(m) PROVE FreshInv'
  <2>1. /\ mq' = mq /\ flush' = flush /\ given' = given
        /\ handler[m] = "giveup" /\ handler'[m] = "idle"
        /\ \A n \in Msgs : n # m => row'[n] = row[n] /\ handler'[n] = handler[n]
        /\ row'[m] = row[m] \/ row'[m] = "failed"
    BY <1>0, <1>10 DEF GiveUp
  <2>2. \A i \in DOMAIN mq.entries : /\ mq.entries[i].by # "redo" /\ Fresh(mq.entries[i].msg, given, row)
                                     /\ mq.entries[i].msg \in Msgs /\ mq.entries[i].msg # m
    BY <1>0, <2>1, EntryFields, NotHeld DEF FreshInv
  <2>3. \A o \in Owners : \A n \in flush[o].todo : n \in Msgs /\ n # m
    BY <1>0, <2>1 DEF PromiseInv, ListInv, Replays
  <2>4. \A i \in DOMAIN mq'.entries : mq'.entries[i].by # "redo" /\ Fresh(mq'.entries[i].msg, given', row')
    BY <2>1, <2>2 DEF Fresh
  <2>5. \A n \in Msgs : handler'[n] \notin {"idle", "wait"} => Fresh(n, given', row')
    BY <2>1 DEF Fresh, FreshInv
  <2>6. \A o \in Owners : \A n \in flush'[o].todo :
          (flush'[o].pc = "wait" /\ n = First(flush'[o].todo)) \/ Fresh(n, given', row')
    BY <1>c, <2>1, <2>3 DEF Fresh
  <2>7. \A n \in Msgs : given'[n] # 0 => given'[n] = 1 /\ row'[n] \in {"consumed", "failed"}
    BY <2>1 DEF FreshInv
  <2> QED BY <2>4, <2>5, <2>6, <2>7 DEF FreshInv, Fresh
<1>11. ASSUME NEW i \in 1..(2 * NumMsgs), Timeout(i) PROVE FreshInv'
  <2>1. /\ i \in DOMAIN mq.entries /\ mq.entries[i] \in Entries
        /\ mq.entries[i].msg \in Msgs /\ Fresh(mq.entries[i].msg, given, row)
    BY <1>0, <1>11, EntryFields DEF Timeout, FreshInv
  <2>2. mq'.entries = [j \in 1..(Len(mq.entries) - 1) |-> mq.entries[IF j < i THEN j ELSE j + 1]]
    BY <1>0, <1>11 DEF Timeout, Queues
  <2>3. \A j \in DOMAIN mq'.entries : \E l \in DOMAIN mq.entries : mq'.entries[j] = mq.entries[l]
    <3>1. ASSUME NEW j \in 1..(Len(mq.entries) - 1)
          PROVE  (IF j < i THEN j ELSE j + 1) \in DOMAIN mq.entries
      BY <1>0, <2>1, <3>1
    <3> QED BY <2>2, <3>1
  <2>4. \A n \in Msgs : handler'[n] \notin {"idle", "wait"} => Fresh(n, given, row)
    <3>1. \A n \in Msgs : handler'[n] = handler[n] \/ n = mq.entries[i].msg
      BY <1>0, <1>11 DEF Timeout
    <3> QED BY <2>1, <3>1 DEF FreshInv
  <2>5. \A o \in Owners : \A n \in flush'[o].todo :
          (flush'[o].pc = "wait" /\ n = First(flush'[o].todo)) \/ Fresh(n, given, row)
    <3>1. \A o \in Owners : flush'[o] = flush[o] \/ flush'[o] = EndOf(flush[o])
      BY <1>0, <1>11 DEF Timeout
    <3>2. \A o \in Owners : EndOf(flush[o]).todo = {}
      BY <1>0, FlushSteps
    <3> QED BY <1>c, <3>1, <3>2
  <2>6. given' = given /\ row' = row
    BY <1>11 DEF Timeout
  <2> QED BY <2>3, <2>4, <2>5, <2>6, FreshKept
<1>12. ASSUME NEW a \in Attempts, Ask(a) PROVE FreshInv'
  <2> DEFINE e == sdk[a].held
  <2>1. /\ mq'.entries = mq.entries /\ given' = given /\ row' = row
    BY <1>0, <1>12, QueueParks DEF Ask
  <2>2. e \in Entries /\ Waits(e, handler, flush)
    BY <1>0, <1>12, Typed DEF Ask, PromiseInv, WaitInv, SdkStates
  <2>3. \A n \in Msgs : handler'[n] \notin {"idle", "wait"} => Fresh(n, given, row)
    BY <1>0, <1>12 DEF Ask, FreshInv
  <2>4. \A o \in Owners : \A n \in flush'[o].todo :
          (flush'[o].pc = "wait" /\ n = First(flush'[o].todo)) \/ Fresh(n, given, row)
    <3>1. \A o \in Owners : flush'[o] = flush[o] \/ flush'[o] = StepOf(flush[o])
      BY <1>0, <1>12 DEF Ask
    <3>2. \A o \in Owners : StepOf(flush[o]).todo = flush[o].todo \ {First(flush[o].todo)}
      BY <1>0, FlushSteps
    <3> QED BY <1>c, <3>1, <3>2
  <2> QED BY <2>1, <2>3, <2>4, FreshKept
<1>13. ASSUME NEW o \in Owners, flush' = [flush EXCEPT ![o] = TriggerOf(row)],
              mq' = mq, handler' = handler, given' = given,
              \A m \in Msgs : \/ row'[m] = row[m] /\ row[m] # "deferred"
                              \/ row[m] = "deferred" /\ row'[m] = "enqueued"
                              \/ row[m] = "enqueued" /\ row'[m] = "consumed"
       PROVE  FreshInv'
  <2>1. /\ flush'[o].todo = {m \in Msgs : row[m] = "deferred"}
        /\ \A p \in Owners : p # o => flush'[p] = flush[p]
    BY <1>0, <1>13 DEF TriggerOf, NoFlush, Replaying, RowsWith
  <2>2. \A n \in Msgs : Fresh(n, given, row) \/ row[n] = "deferred" => given'[n] = 0 /\ row'[n] \in {"enqueued", "consumed"}
    BY <1>d, <1>13 DEF Fresh
  <2>3. \A i \in DOMAIN mq.entries : mq.entries[i].by # "redo" /\ Fresh(mq.entries[i].msg, given, row)
                                     /\ mq.entries[i].msg \in Msgs
    BY <1>0, EntryFields DEF FreshInv
  <2>4. \A i \in DOMAIN mq'.entries : mq'.entries[i].by # "redo" /\ Fresh(mq'.entries[i].msg, given', row')
    BY <1>13, <2>2, <2>3 DEF Fresh
  <2>5. \A n \in Msgs : handler'[n] \notin {"idle", "wait"} => Fresh(n, given', row')
    BY <1>13, <2>2 DEF Fresh, FreshInv
  <2>6. \A p \in Owners : \A n \in flush'[p].todo :
          (flush'[p].pc = "wait" /\ n = First(flush'[p].todo)) \/ Fresh(n, given', row')
    <3>1. \A p \in Owners : flush[p].todo \subseteq Msgs
      BY <1>0 DEF Replays
    <3> QED BY <1>c, <2>1, <2>2, <3>1 DEF Fresh
  <2>7. \A n \in Msgs : given'[n] # 0 => given'[n] = 1 /\ row'[n] \in {"consumed", "failed"}
    BY <1>13 DEF FreshInv
  <2> QED BY <2>4, <2>5, <2>6, <2>7 DEF FreshInv, Fresh
<1>14. ASSUME NEW o \in Owners, FlushTrigger(o) PROVE FreshInv'
  BY <1>13, <1>14 DEF FlushTrigger, Undeferred
<1>15. ASSUME NEW o \in Owners, NEW pc1 \in {"ensure", "start", "push"}, flush[o].pc # "wait",
              flush' = [flush EXCEPT ![o].pc = pc1],
              mq'.entries = mq.entries, row' = row, handler' = handler, given' = given
       PROVE  FreshInv'
  <2>1. flush'[o].todo = flush[o].todo /\ \A p \in Owners : p # o => flush'[p] = flush[p]
    BY <1>0, <1>15 DEF Replays
  <2>2. \A p \in Owners : \A n \in flush'[p].todo :
          (flush'[p].pc = "wait" /\ n = First(flush'[p].todo)) \/ Fresh(n, given, row)
    BY <1>c, <1>15, <2>1
  <2>3. \A m \in Msgs : handler'[m] \notin {"idle", "wait"} => Fresh(m, given, row)
    BY <1>15 DEF FreshInv
  <2> QED BY <1>15, <2>2, <2>3, FreshKept
<1>16. ASSUME NEW o \in Owners, FlushEnsure(o) PROVE FreshInv'
  <2>1. flush' = [flush EXCEPT ![o].pc = "push"] \/ flush' = [flush EXCEPT ![o].pc = "start"]
    BY <1>16 DEF FlushEnsure
  <2> QED BY <1>a, <1>15, <1>16, <2>1 DEF FlushEnsure
<1>17. ASSUME NEW o \in Owners, FlushStart(o) PROVE FreshInv'
  BY <1>b, <1>15, <1>17 DEF FlushStart
<1>18. ASSUME NEW o \in Owners, FlushPush(o) PROVE FreshInv'
  <2> DEFINE m == First(flush[o].todo)
             e == EntryOf(m, "flush", o)
  <2>0. flush[o].pc = "push"
    BY <1>18 DEF FlushPush
  <2>1. flush[o].todo # {} /\ flush[o].todo \in SUBSET Msgs
    BY <1>0, <2>0 DEF PromiseInv, ListInv, Listed, Replays
  <2>2. m \in flush[o].todo /\ m \in Msgs
    BY <2>1, FirstIsListed
  <2>3. e \in Entries /\ e.msg = m /\ e.by # "redo"
    BY <2>2, EntryOK
  <2>4. /\ mq' = Pushed(mq, e) /\ flush' = [flush EXCEPT ![o].pc = "wait"]
        /\ row' = row /\ handler' = handler /\ given' = given
    BY <1>18 DEF FlushPush
  <2>5. Fresh(m, given, row)
    BY <1>c, <2>0, <2>2
  <2>6. \A p \in Owners : \A n \in flush'[p].todo :
          (flush'[p].pc = "wait" /\ n = First(flush'[p].todo)) \/ Fresh(n, given, row)
    <3>1. flush'[o].todo = flush[o].todo /\ \A p \in Owners : p # o => flush'[p] = flush[p]
      BY <1>0, <2>4 DEF Replays
    <3> QED BY <1>c, <2>0, <3>1
  <2>7. \A n \in Msgs : handler'[n] \notin {"idle", "wait"} => Fresh(n, given, row)
    BY <2>4 DEF FreshInv
  <2> HIDE DEF e, m
  <2> QED BY <1>0, <2>3, <2>4, <2>5, <2>6, <2>7, FreshPushed
<1>19. ASSUME NEW r \in Runs, Launch(r) PROVE FreshInv'
  <2>1. mq'.entries = mq.entries
    BY <1>0, <1>19, QueueParks, AttemptOK DEF Launch
  <2> QED BY <1>19, <2>1, FreshFramed DEF Launch
<1>20. ASSUME NEW r \in Runs, Caught(r) \/ End(r) PROVE FreshInv'
  <2>1. Finally(r, mq) /\ UNCHANGED <<row, handler, flush, given>>
    BY <1>20 DEF Caught, End
  <2> QED BY <1>0, <2>1, FinallyTypes, FreshFramed
<1>21. ASSUME NEW r \in Runs, Unwound(r) PROVE FreshInv'
  <2>1. mq'.entries = mq.entries
    BY <1>0, <1>21, QueueStops DEF Unwound
  <2> QED BY <1>21, <2>1, FreshFramed DEF Unwound
<1>22. ASSUME NEW r \in Runs, Output(r) \/ Echo(r) PROVE FreshInv'
  BY <1>22, FreshFramed DEF Output, Echo
<1>23. ASSUME NEW r \in Runs, Result(r) PROVE FreshInv'
  <2>1. r \in Owners
    BY <1>0, AttemptOK
  <2>2. \A m \in Msgs : \/ row'[m] = row[m] /\ row[m] # "deferred"
                        \/ row[m] = "deferred" /\ row'[m] = "enqueued"
                        \/ row[m] = "enqueued" /\ row'[m] = "consumed"
    BY <1>23 DEF Result, Undeferred, Acknowledged
  <2> QED BY <1>13, <1>23, <2>1, <2>2 DEF Result
<1>24. ASSUME NEW r \in Runs, Catch(r), mq'.entries = <<>>, row' = row, given' = given PROVE FreshInv'
  BY <1>0, <1>24, FreshCleared DEF Catch
<1>25. ASSUME NEW r \in Runs, Fatal(r) PROVE FreshInv'
  BY <1>0, <1>24, <1>25, QueueStops DEF Fatal
<1>26. ASSUME NEW r \in Runs, StartupTimeout(r) PROVE FreshInv'
  <2>1. CASE run[r].attempt = 1
    <3>1. mq' = Stopped(mq) /\ UNCHANGED <<row, handler, flush, given>>
      BY <1>26, <2>1 DEF StartupTimeout
    <3> QED BY <1>0, <3>1, QueueStops, FreshFramed
  <2>2. CASE run[r].attempt # 1
    <3>1. Catch(r) /\ mq' = Emptied(Stopped(mq)) /\ row' = row /\ given' = given
      BY <1>26, <2>2 DEF StartupTimeout
    <3> QED BY <1>0, <1>24, <3>1, QueueStops
  <2> QED BY <2>1, <2>2
<1>27. ASSUME NEW r \in Runs, Transient(r) PROVE FreshInv'
  BY <1>27 DEF Transient, Spend
<1>28. ASSUME Take PROVE FreshInv'
  <2> DEFINE e == Head(mq.entries)
             n == Len(mq.entries)
  <2>1. mq.entries # <<>> /\ handler' = handler /\ flush' = flush
    BY <1>28 DEF Take
  <2>2. /\ e \in Entries /\ e = mq.entries[1] /\ 1 \in DOMAIN mq.entries
        /\ DOMAIN mq.entries = 1..n /\ n \in Nat
    BY <1>0, <2>1
  <2>3. /\ DOMAIN Tail(mq.entries) = 1..(n - 1)
        /\ \A i \in 1..(n - 1) : /\ i + 1 \in DOMAIN mq.entries /\ i + 1 # 1
                                 /\ Tail(mq.entries)[i] = mq.entries[i + 1]
    BY <1>0, <2>1
  <2>4. mq'.entries = Tail(mq.entries)
    BY <1>0, <1>28 DEF Take, Queues
  <2>5. /\ row' = IF row[e.msg] \in {"enqueued", "deferred"} THEN [row EXCEPT ![e.msg] = "consumed"] ELSE row
        /\ given' = [given EXCEPT ![e.msg] = @ + 1]
    BY <1>28 DEF Take
  <2> HIDE DEF e, n
  <2>6. /\ e.msg \in Msgs /\ e.by # "redo" /\ Fresh(e.msg, given, row) /\ Waits(e, handler, flush)
    BY <1>0, <2>2, EntryFields DEF FreshInv, PromiseInv, WaitInv
  <2>7. /\ given'[e.msg] = 1 /\ row'[e.msg] = "consumed"
        /\ \A m \in Msgs : m # e.msg => given'[m] = given[m] /\ row'[m] = row[m]
    BY <1>0, <2>5, <2>6 DEF Fresh
  <2>8. ASSUME NEW i \in DOMAIN mq'.entries
        PROVE  mq'.entries[i].by # "redo" /\ Fresh(mq'.entries[i].msg, given', row')
    <3>1. /\ i + 1 \in DOMAIN mq.entries /\ i + 1 # 1 /\ mq'.entries[i] = mq.entries[i + 1]
      BY <2>3, <2>4, <2>8
    <3>2. mq.entries[i + 1] \in Entries /\ mq.entries[i + 1].by # "redo"
          /\ Fresh(mq.entries[i + 1].msg, given, row)
      BY <1>0, <3>1 DEF FreshInv
    <3>3. mq.entries[i + 1].msg # e.msg
      <4>1. Apart(mq.entries[i + 1], mq.entries[1])
        BY <1>0, <2>2, <3>1 DEF PromiseInv, ApartInv
      <4> QED BY <2>2, <2>6, <3>2, <4>1 DEF Apart
    <3> QED BY <2>7, <3>1, <3>2, <3>3, EntryFields DEF Fresh
  <2>9. ASSUME NEW m \in Msgs, handler'[m] \notin {"idle", "wait"} PROVE Fresh(m, given', row')
    <3>1. m # e.msg
      BY <1>0, <2>1, <2>2, <2>6, <2>9, Holder DEF PromiseInv
    <3> QED BY <2>1, <2>7, <2>9, <3>1 DEF FreshInv, Fresh
  <2>10. ASSUME NEW o \in Owners, NEW m \in flush'[o].todo
         PROVE  (flush'[o].pc = "wait" /\ m = First(flush'[o].todo)) \/ Fresh(m, given', row')
    <3>1. m \in flush[o].todo /\ m \in Msgs
      BY <1>0, <2>1, <2>10 DEF Replays
    <3>2. CASE m # e.msg
      BY <1>c, <2>1, <2>7, <3>1, <3>2 DEF Fresh
    <3>3. CASE m = e.msg
      <4>1. handler[e.msg] = "idle"
        BY <3>1, <3>3, <1>0 DEF PromiseInv, ListInv
      <4>2. e.by = "flush" /\ e.owner \in Owners /\ e.msg \in flush[e.owner].todo
        BY <1>0, <2>2, <2>6, <4>1, Holder DEF PromiseInv
      <4>3. e.owner = o
        BY <1>0, <3>1, <3>3, <4>2 DEF PromiseInv, ListInv
      <4> QED BY <2>1, <2>6, <3>3, <4>2, <4>3 DEF Waits
    <3> QED BY <3>2, <3>3
  <2>11. \A m \in Msgs : given'[m] # 0 => given'[m] = 1 /\ row'[m] \in {"consumed", "failed"}
    BY <2>7 DEF FreshInv
  <2> QED BY <2>8, <2>9, <2>10, <2>11 DEF FreshInv, Fresh
<1>29. ASSUME InterruptEnds PROVE FreshInv'
  BY <1>0, <1>29, QueueStops, FreshFramed DEF InterruptEnds
<1>30. ASSUME LifecycleStopped PROVE FreshInv'
  BY <1>30, FreshFramed DEF LifecycleStopped
<1>31. ASSUME LifecycleStarts PROVE FreshInv'
  BY <1>b, <1>31, FreshFramed DEF LifecycleStarts
<1>32. ASSUME Interrupt PROVE FreshInv'
  BY <1>0, <1>32, QueueStops, FreshCleared DEF Interrupt
<1>33. ASSUME UserReset PROVE FreshInv'
  <2>1. mq'.entries = <<>>
    BY <1>0, <1>33, QueueStops DEF UserReset
  <2> QED BY <1>0, <1>33, <2>1, FreshCleared DEF UserReset
<1>34. ASSUME UserRestart PROVE FreshInv'
  BY <1>0, <1>34, QueueStops, FreshFramed DEF UserRestart
<1>35. ASSUME Crash PROVE FreshInv'
  <2>1. /\ row' = Recovered /\ handler' = [m \in Msgs |-> "idle"] /\ given' = given
        /\ flush' = [o \in Owners |-> IF o = 0 THEN ReplayOf(Recovered) ELSE NoFlush]
    BY <1>35 DEF Crash, Owners
  <2>2. mq'.entries = <<>>
    BY <1>0, <1>35, QueueStops DEF Crash
  <2>3. /\ ReplayOf(Recovered).todo = {m \in Msgs : Recovered[m] = "enqueued"}
        /\ NoFlush.todo = {}
    BY DEF ReplayOf, Replaying, RowsWith, Triggering, NoFlush
  <2>4. \A m \in Msgs : \/ row'[m] = row[m]
                        \/ row[m] = "consumed" /\ row'[m] = "failed"
    BY <2>1 DEF Recovered
  <2>5. \A o \in Owners : \A m \in flush'[o].todo : m \in Msgs /\ row'[m] = "enqueued"
    BY <2>1, <2>3
  <2>6. \A o \in Owners : \A m \in flush'[o].todo : Fresh(m, given', row')
    BY <1>d, <2>1, <2>4, <2>5 DEF Fresh
  <2>7. \A m \in Msgs : given'[m] # 0 => given'[m] = 1 /\ row'[m] \in {"consumed", "failed"}
    BY <2>1, <2>4 DEF FreshInv
  <2> QED BY <2>1, <2>2, <2>6, <2>7 DEF FreshInv
<1>36. CASE UNCHANGED vars
  BY <1>36, FreshFramed DEF vars
<1> QED
  BY <1>1, <1>2, <1>3, <1>5, <1>6, <1>7, <1>8, <1>9, <1>10, <1>11, <1>12, <1>14, <1>16,
     <1>17, <1>18, <1>19, <1>20, <1>21, <1>22, <1>23, <1>25, <1>26, <1>27, <1>28,
     <1>29, <1>30, <1>31, <1>32, <1>33, <1>34, <1>35, <1>36
  DEF Next, Deliver, Replay, Drive, Supervise, Owners

(* What a step does to a row and its deliveries is one of the ledger's.        *)
LEMMA LedgerStep ==
  ASSUME DeliveryInv, FreshInv, [Next]_vars
  PROVE  [Ledger!Next]_<<row, given>>
<1>0. /\ TypeOK /\ PromiseInv /\ row \in [Msgs -> Statuses] /\ mq.entries \in Seq(Entries)
      /\ handler \in [Msgs -> Steps] /\ given \in [Msgs -> Nat] /\ Ledger!Msgs = Msgs
  BY Typed, QueueFields DEF DeliveryInv, Ledger!Msgs, Msgs
<1>1. ASSUME NEW m \in Msgs, NEW later \in BOOLEAN, Persist(m, later)
      PROVE  Ledger!Accept(m)
  BY <1>1 DEF Persist, Ledger!Accept
<1>2. ASSUME NEW m \in Msgs, GiveUp(m) PROVE Ledger!GiveUp(m) \/ UNCHANGED <<row, given>>
  BY <1>2 DEF GiveUp, Ledger!GiveUp
<1>3. ASSUME NEW o \in Owners, FlushTrigger(o) PROVE Ledger!EndTurn(FALSE)
  BY <1>0, <1>3 DEF FlushTrigger, Undeferred, Ledger!EndTurn
<1>4. ASSUME NEW r \in Runs, Result(r) PROVE \E presumed \in BOOLEAN : Ledger!EndTurn(presumed)
  <2>1. row' = Undeferred(Acknowledged) /\ given' = given
    BY <1>4 DEF Result
  <2>2. CASE ctx.ack
    BY <1>0, <2>1, <2>2 DEF Undeferred, Acknowledged, Ledger!EndTurn
  <2>3. CASE ~ ctx.ack
    <3>1. \A m \in Msgs : Undeferred(Acknowledged)[m] =
            IF row[m] = "deferred" THEN "enqueued"
            ELSE IF row[m] = "enqueued" THEN "consumed" ELSE row[m]
      BY <2>3 DEF Undeferred, Acknowledged
    <3>2. row' = [m \in Msgs |-> IF row[m] = "deferred" THEN "enqueued"
                                 ELSE IF row[m] = "enqueued" THEN "consumed" ELSE row[m]]
      BY <2>1, <3>1 DEF Undeferred
    <3>3. Ledger!EndTurn(TRUE)
      BY <1>0, <2>1, <3>2 DEF Ledger!EndTurn
    <3> QED BY <3>3
  <2> QED BY <2>2, <2>3
<1>5. ASSUME Take PROVE \E m \in Msgs : Ledger!Give(m)
  <2> DEFINE m == Head(mq.entries).msg
  <2>1. /\ row' = IF row[m] \in {"enqueued", "deferred"} THEN [row EXCEPT ![m] = "consumed"] ELSE row
        /\ given' = [given EXCEPT ![m] = @ + 1]
    BY <1>5 DEF Take
  <2>2. Head(mq.entries) = mq.entries[1] /\ 1 \in DOMAIN mq.entries /\ Head(mq.entries) \in Entries
    BY <1>0, <1>5 DEF Take
  <2>3. m \in Msgs /\ given[m] = 0 /\ row[m] \in {"enqueued", "consumed"}
    BY <2>2, EntryFields DEF FreshInv, Fresh
  <2> HIDE DEF m
  <2>4. row' = [row EXCEPT ![m] = "consumed"] /\ given' = [given EXCEPT ![m] = 1]
    <3>1. given' = [given EXCEPT ![m] = 1]
      BY <1>0, <2>1, <2>3
    <3>2. CASE row[m] = "enqueued"
      BY <2>1, <3>1, <3>2
    <3>3. CASE row[m] = "consumed"
      BY <1>0, <2>1, <3>1, <3>3
    <3> QED BY <2>3, <3>2, <3>3
  <2> QED BY <2>3, <2>4 DEF Ledger!Give
<1>6. ASSUME Crash PROVE \E orphans \in SUBSET Msgs : Ledger!Recover(orphans)
  <2> DEFINE orphans == {m \in Msgs : row[m] = "consumed" /\ m \notin covered}
  <2>1. row' = [m \in Msgs |-> IF m \in orphans THEN "failed" ELSE row[m]] /\ given' = given
    BY <1>6 DEF Crash, Recovered
  <2>2. orphans \in SUBSET Msgs /\ \A m \in orphans : row[m] = "consumed"
    OBVIOUS
  <2> HIDE DEF orphans
  <2>3. Ledger!Recover(orphans)
    BY <1>0, <2>1, <2>2 DEF Ledger!Recover
  <2> QED BY <2>2, <2>3
<1>7. ASSUME NEW m \in Msgs,
             \/ SendEnsure(m) \/ SendStart(m) \/ SendPush(m) \/ FailReset(m) \/ FailStopped(m)
             \/ FailRestart(m) \/ Repush(m)
      PROVE  UNCHANGED <<row, given>>
  BY <1>7 DEF SendEnsure, SendStart, SendPush, FailReset, FailStopped, FailRestart, Repush
<1>8. ASSUME NEW o \in Owners, FlushEnsure(o) \/ FlushStart(o) \/ FlushPush(o)
      PROVE  UNCHANGED <<row, given>>
  BY <1>8 DEF FlushEnsure, FlushStart, FlushPush
<1>9. ASSUME NEW r \in Runs,
             \/ Launch(r) \/ Caught(r) \/ Unwound(r) \/ Output(r) \/ Echo(r) \/ End(r)
             \/ Fatal(r) \/ StartupTimeout(r) \/ Transient(r)
      PROVE  UNCHANGED <<row, given>>
  BY <1>9 DEF Launch, Caught, Unwound, Output, Echo, End, Fatal, StartupTimeout, Transient
<1>10. ASSUME \/ InterruptEnds \/ LifecycleStopped \/ LifecycleStarts
              \/ Interrupt \/ UserReset \/ UserRestart \/ UNCHANGED vars
       PROVE  UNCHANGED <<row, given>>
  BY <1>10 DEF InterruptEnds, LifecycleStopped, LifecycleStarts, Interrupt,
               UserReset, UserRestart, vars
<1>11. Ledger!Next \/ UNCHANGED <<row, given>>
  <2>1. CASE \E m \in Msgs : (\E later \in BOOLEAN : Persist(m, later)) \/ GiveUp(m)
    BY <1>0, <1>1, <1>2, <2>1 DEF Ledger!Next
  <2>2. CASE \E o \in Owners : FlushTrigger(o)
    BY <1>3, <2>2 DEF Ledger!Next
  <2>3. CASE \E r \in Runs : Result(r)
    BY <1>4, <2>3 DEF Ledger!Next
  <2>4. CASE Take
    BY <1>0, <1>5, <2>4 DEF Ledger!Next
  <2>5. CASE Crash
    <3>1. PICK orphans \in SUBSET Msgs : Ledger!Recover(orphans)
      BY <1>6, <2>5
    <3>2. \E T \in SUBSET Ledger!Msgs : Ledger!Recover(T)
      BY <1>0, <3>1
    <3> QED BY <3>2 DEF Ledger!Next
  <2>6. ASSUME NEW m \in Msgs, Deliver(m) PROVE Ledger!Next \/ UNCHANGED <<row, given>>
    BY <1>7, <2>1, <2>6 DEF Deliver
  <2>7. ASSUME NEW o \in Owners, Replay(o) PROVE Ledger!Next \/ UNCHANGED <<row, given>>
    BY <1>8, <2>2, <2>7 DEF Replay
  <2>8. ASSUME NEW r \in Runs,
               \/ Drive(r) \/ Output(r) \/ Echo(r) \/ Result(r) \/ End(r)
               \/ Fatal(r) \/ StartupTimeout(r) \/ Transient(r)
        PROVE  Ledger!Next \/ UNCHANGED <<row, given>>
    BY <1>9, <2>3, <2>8 DEF Drive
  <2>9. ASSUME NEW m \in Msgs, NEW later \in BOOLEAN, Persist(m, later)
        PROVE  Ledger!Next \/ UNCHANGED <<row, given>>
    BY <2>1, <2>9
  <2>10. CASE \E i \in 1..(2 * NumMsgs) : Timeout(i)
    BY <2>10 DEF Timeout
  <2>11. CASE \E a \in Attempts : Ask(a)
    BY <2>11 DEF Ask
  <2>12. CASE Supervise
    BY <1>10, <2>12 DEF Supervise
  <2>13. CASE Interrupt \/ UserReset \/ UserRestart
    BY <1>10, <2>13
  <2>14. CASE UNCHANGED vars
    BY <1>10, <2>14
  <2> QED BY <2>4, <2>5, <2>6, <2>7, <2>8, <2>9, <2>10, <2>11, <2>12, <2>13, <2>14
          DEF Next, Owners
<1> QED BY <1>11

(* Through resets, timeouts, interrupts and crashes of any number, a row moves *)
(* along its lifecycle and a message is given at most once, as long as no      *)
(* query is retried after a dropped connection.                                *)
THEOREM DeliveryKeepsLedger ==
  ASSUME "transient" \notin Kinds
  PROVE  Spec => KeepsLedger
<1>1. Init => FreshInv /\ Ledger!Init
  <2>1. Init => FreshInv
    BY DEF Init, FreshInv, NoFlush, Owners
  <2>2. Init => Ledger!Init
    BY DEF Init, Ledger!Init, Ledger!Msgs, Msgs
  <2> QED BY <2>1, <2>2
<1>2. DeliveryInv /\ FreshInv /\ [Next]_vars => FreshInv' /\ [Ledger!Next]_<<row, given>>
  BY FreshStep, LedgerStep
<1> QED BY <1>1, <1>2, DeliveryAlways, PTL DEF Spec, KeepsLedger, Ledger!Spec

===============================================================================
