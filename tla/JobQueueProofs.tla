--------------------------- MODULE JobQueueProofs ---------------------------
(* What TLAPS proves about JobQueue, for every value of its constants. *)
EXTENDS JobQueue, FunctionTheorems, FiniteSetTheorems, WellFoundedInduction, TLAPS

(* A row whose changing columns keep their types is a row. *)
LEMMA RowUpdate ==
  ASSUME NEW row \in Row, NEW status \in Statuses, NEW retries \in Nat,
         NEW lag \in Int, NEW age \in Nat
  PROVE  [row EXCEPT !.status = status, !.retries = retries,
                     !.lag = lag, !.age = age] \in Row
BY DEF Row

LEMMA BackoffIsInt ==
  ASSUME NEW n \in 0 .. MaxRetries
  PROVE  -Backoff(n) \in Int
<1> DEFINE power == 2^n
<1>1. power \in Nat
  BY BackoffAssumption DEF BackoffAssumption
<1> HIDE DEF power
<1>2. -(RetryUnit * power) \in Int
  BY <1>1, JobQueueAssumption DEF JobQueueAssumption
<1> QED BY <1>2 DEF Backoff, power

(* What a statement leaves in a row is a row. *)
LEMMA RowOps ==
  ASSUME NEW row \in Row
  PROVE  /\ Claimed(row) \in Row
         /\ Completed(row) \in Row
         /\ Failed(row) \in Row
         /\ Older(row) \in Row
<1>1. Claimed(row) \in Row /\ Completed(row) \in Row
  BY DEF Claimed, Completed, Row, Statuses
<1>2. Failed(row) \in Row
  <2>1. CASE row.status \in Exists /\ row.retries < row.maxRetries
    <3>1. row.retries \in 0 .. MaxRetries /\ row.retries + 1 \in Nat
      BY <2>1, JobQueueAssumption DEF Row, JobQueueAssumption
    <3>2. [row EXCEPT !.status = "pending", !.retries = row.retries + 1,
                      !.lag = -Backoff(row.retries), !.age = 0] \in Row
      <4>1. -Backoff(row.retries) \in Int
        BY <3>1, BackoffIsInt
      <4> QED BY <3>1, <4>1, RowUpdate DEF Statuses
    <3> QED BY <2>1, <3>2 DEF Failed
  <2>2. CASE row.status \in Exists /\ ~ (row.retries < row.maxRetries)
    BY <2>2 DEF Failed, Row, Statuses
  <2>3. CASE row.status \notin Exists
    BY <2>3 DEF Failed
  <2> QED BY <2>1, <2>2, <2>3
<1>3. Older(row) \in Row
  <2>1. row.lag \in Int /\ row.age \in Nat
    BY DEF Row
  <2>2. Capped(row.lag + 1, MaxLag) \in Int
    BY <2>1, JobQueueAssumption DEF Capped, JobQueueAssumption
  <2>3. Capped(row.age + 1, AgeCap) \in Nat
    BY <2>1, JobQueueAssumption DEF Capped, AgeCap, JobQueueAssumption
  <2> QED BY <2>1, <2>2, <2>3 DEF Older, Row
<1> QED BY <1>1, <1>2, <1>3

LEMMA VacantIsRow ==
  ASSUME NEW status \in Statuses
  PROVE  Vacant(status) \in Row
<1>1. (CHOOSE p \in Priorities : TRUE) \in Int
  BY JobQueueAssumption DEF JobQueueAssumption
<1> QED
  BY <1>1, JobQueueAssumption DEF Vacant, Row, Queues, JobQueueAssumption

LEMMA ReclaimedAreRows ==
  ASSUME NEW rows \in [Jobs -> Row]
  PROVE  Reclaimed(rows) \in [Jobs -> Row]
<1>1. \A row \in Row : [row EXCEPT !.status = "pending", !.age = 0] \in Row
  BY DEF Row, Statuses
<1> QED BY <1>1 DEF Reclaimed

(* Among the rows a tick took there are some of a queue it visited last. *)
LEMMA LastQueue ==
  ASSUME NEW rows \in [Jobs -> Row], NEW C \in SUBSET Jobs, C # {}
  PROVE  \E c \in C : \A d \in C : rows[d].queue <= rows[c].queue
<1> DEFINE after == {QueueCount - rows[c].queue : c \in C}
           Below == {p \in Nat \X Nat : p[1] < p[2]}
<1>1. QueueCount \in Nat /\ \A c \in C : rows[c].queue \in 1 .. QueueCount
  BY JobQueueAssumption DEF JobQueueAssumption, Row, Queues
<1>2. after \subseteq Nat /\ after # {}
  BY <1>1
<1>3. IsWellFoundedOn(Below, Nat)
  BY NatLessThanWellFounded, Zenon DEF OpToRel
<1> HIDE DEF Below
<1>4. PICK x \in after : \A y \in after : <<y, x>> \notin Below
  <2> HIDE DEF after
  <2> QED BY <1>2, <1>3, WFMin
<1>5. \A y \in after : ~ (y < x)
  BY <1>2, <1>4 DEF Below
<1>6. PICK c \in C : x = QueueCount - rows[c].queue
  OBVIOUS
<1>7. \A d \in C : ~ (QueueCount - rows[d].queue < QueueCount - rows[c].queue)
  BY <1>5, <1>6
<1> QED BY <1>1, <1>7

(* What the tick took before and at a queue are two parts of its claim. *)
LEMMA TakenSplit ==
  ASSUME NEW rows \in [Jobs -> Row], NEW C \in SUBSET Jobs, IsFiniteSet(C), NEW q \in Queues
  PROVE  /\ Cardinality(TakenBefore(rows, C, q)) \in Nat
         /\ Cardinality(TakenFrom(rows, C, q)) \in Nat
         /\ Cardinality(TakenBefore(rows, C, q) \cup TakenFrom(rows, C, q))
              = Cardinality(TakenBefore(rows, C, q)) + Cardinality(TakenFrom(rows, C, q))
         /\ IsFiniteSet(TakenFrom(rows, C, q))
<1> DEFINE B == TakenBefore(rows, C, q)  F == TakenFrom(rows, C, q)
<1>1. IsFiniteSet(B) /\ IsFiniteSet(F)
  BY FS_Subset DEF TakenBefore, TakenFrom
<1>2. B \cap F = {}
  BY JobQueueAssumption DEF TakenBefore, TakenFrom, Row, Queues, JobQueueAssumption
<1>3. Cardinality(B) \in Nat /\ Cardinality(F) \in Nat /\ Cardinality(B \cap F) = 0
  BY <1>1, <1>2, FS_CardinalityType, FS_EmptySet
<1>4. Cardinality(B \cup F) = Cardinality(B) + Cardinality(F) - Cardinality(B \cap F)
  BY <1>1, FS_Union
<1> QED BY <1>1, <1>3, <1>4

(* The budget of a tick, counted down from queue to queue, is never        *)
(* overdrawn: the queue visited last took no more than what was left.      *)
LEMMA ClaimsFit ==
  ASSUME NEW rows \in [Jobs -> Row], NEW available \in Nat,
         NEW C \in Claims(rows, available), IsFiniteSet(C)
  PROVE  Cardinality(C) \in Nat /\ Cardinality(C) <= available
<1>1. C \in SUBSET Jobs
  BY DEF Claims, Due
<1>2. Cardinality(C) \in Nat
  BY FS_CardinalityType
<1>3. CASE C = {}
  BY <1>3, FS_EmptySet
<1>4. CASE C # {}
  <2>1. PICK c \in C : \A d \in C : rows[d].queue <= rows[c].queue
    BY <1>1, <1>4, LastQueue
  <2> DEFINE q == rows[c].queue  B == TakenBefore(rows, C, q)  F == TakenFrom(rows, C, q)
  <2>2. q \in Queues /\ \A d \in C : rows[d].queue \in Int
    BY <1>1 DEF Row, Queues
  <2>3. C = B \cup F /\ F # {}
    BY <2>1, <2>2 DEF TakenBefore, TakenFrom, Queues
  <2>4. Cardinality(C) = Cardinality(B) + Cardinality(F) /\ Cardinality(B) \in Nat
    BY <1>1, <2>2, <2>3, TakenSplit
  <2>5. F \in IF available - Cardinality(B) <= 0 THEN {{}}
              ELSE Dequeue(rows, q, available - Cardinality(B))
    BY <2>2 DEF Claims
  <2>6. Cardinality(F) <= available - Cardinality(B)
    BY <2>3, <2>5 DEF Dequeue
  <2>7. Cardinality(F) \in Nat
    BY <1>1, <2>2, TakenSplit
  <2> QED BY <1>2, <2>4, <2>6, <2>7
<1> QED BY <1>3, <1>4

(* A poll fills free identities with exactly the rows it claimed: this is  *)
(* where the counter and the set of running handlers move together.        *)
LEMMA PollStep ==
  ASSUME NEW rows \in [Jobs -> Row], TypeOK, SlotAccounting, Poll(rows)
  PROVE  /\ job' \in [Jobs -> Row]
         /\ run' \in [Runs -> [job : Jobs \cup {None}, age : Nat]]
         /\ inFlight' \in Nat
         /\ SlotAccounting'
<1>1. PICK C \in Claims(rows, MaxConcurrent - inFlight), S \in SUBSET Idle :
        /\ \E f \in Bijection(S, C) :
             run' = [r \in Runs |-> IF r \in S THEN [job |-> f[r], age |-> 0]
                                               ELSE run[r]]
        /\ job' = [j \in Jobs |-> IF j \in C THEN Claimed(rows[j]) ELSE rows[j]]
        /\ inFlight' = inFlight + Cardinality(C)
  BY DEF Poll
<1>2. PICK f \in Bijection(S, C) :
        run' = [r \in Runs |-> IF r \in S THEN [job |-> f[r], age |-> 0]
                                          ELSE run[r]]
  BY <1>1
<1>3. f \in [S -> C]
  BY Fun_BijectionProperties
<1>4. IsFiniteSet(Busy) /\ IsFiniteSet(S)
  BY JobQueueAssumption, FS_Subset DEF JobQueueAssumption, Busy, Idle
<1>5. IsFiniteSet(C) /\ Cardinality(C) = Cardinality(S)
  BY <1>4, FS_Bijection DEF ExistsBijection
<1>6. C \subseteq Jobs /\ Cardinality(C) <= MaxConcurrent - inFlight
  <2>1. C \subseteq Jobs
    BY DEF Claims, Due
  <2>2. MaxConcurrent - inFlight \in Nat
    BY JobQueueAssumption DEF TypeOK, SlotAccounting, JobQueueAssumption
  <2> QED BY <1>5, <2>1, <2>2, ClaimsFit
<1>7. Busy' = Busy \cup S
  BY <1>2, <1>6, <1>3, JobQueueAssumption DEF Busy, Idle, JobQueueAssumption
<1>8. Busy \cap S = {}
  BY DEF Idle
<1>9. /\ Cardinality(Busy \cup S) = Cardinality(Busy) + Cardinality(S)
      /\ Cardinality(S) \in Nat
  <2>1. Cardinality(Busy) \in Nat /\ Cardinality(S) \in Nat
    BY <1>4, FS_CardinalityType
  <2>2. Cardinality(Busy \cap S) = 0
    BY <1>8, FS_EmptySet
  <2>3. Cardinality(Busy \cup S)
          = Cardinality(Busy) + Cardinality(S) - Cardinality(Busy \cap S)
    BY <1>4, FS_Union
  <2> QED BY <2>1, <2>2, <2>3
<1>10. job' \in [Jobs -> Row]
  BY <1>1, RowOps
<1>11. run' \in [Runs -> [job : Jobs \cup {None}, age : Nat]]
  BY <1>2, <1>6, <1>3 DEF TypeOK
<1> QED
  BY <1>1, <1>6, <1>5, <1>7, <1>9, <1>10, <1>11, JobQueueAssumption
  DEF SlotAccounting, TypeOK, JobQueueAssumption

(* A settled run leaves the set of running handlers and the counter. *)
LEMMA SettleStep ==
  ASSUME TypeOK, SlotAccounting, NEW r \in Runs, NEW row \in Row, Settle(r, row)
  PROVE  TypeOK' /\ SlotAccounting'
<1>1. r \in Busy /\ run[r].job \in Jobs
  BY DEF Settle, Busy, TypeOK
<1>2. IsFiniteSet(Busy)
  BY JobQueueAssumption, FS_Subset DEF JobQueueAssumption, Busy
<1>3. Busy' = Busy \ {r}
  BY DEF Settle, Busy, TypeOK, IdleRun
<1>4. /\ Cardinality(Busy \ {r}) = Cardinality(Busy) - 1
      /\ Cardinality(Busy \ {r}) \in Nat
  BY <1>1, <1>2, FS_RemoveElement, FS_CardinalityType
<1>5. SlotAccounting'
  BY <1>3, <1>4, JobQueueAssumption
  DEF Settle, SlotAccounting, TypeOK, JobQueueAssumption
<1>6. inFlight' \in Nat
  BY <1>3, <1>4, <1>5 DEF SlotAccounting
<1> QED
  BY <1>5, <1>6 DEF Settle, TypeOK, IdleRun

(* The inductive step, action by action. *)
LEMMA AccountingStep ==
  TypeOK /\ SlotAccounting /\ [Next]_vars => TypeOK' /\ SlotAccounting'
<1> SUFFICES ASSUME TypeOK, SlotAccounting, [Next]_vars
             PROVE  TypeOK' /\ SlotAccounting'
  OBVIOUS
<1>1. ASSUME UNCHANGED <<run, inFlight>>
      PROVE  SlotAccounting'
  BY <1>1 DEF SlotAccounting, Busy
<1>2. ASSUME NEW j \in Jobs, Enqueue(j) PROVE TypeOK' /\ SlotAccounting'
  <2>1. ASSUME NEW queue \in Queues, NEW priority \in Priorities,
               NEW maxRetries \in 0 .. MaxRetries, NEW delay \in Delays
        PROVE  Fresh(queue, priority, maxRetries, delay) \in Row
    BY JobQueueAssumption DEF Fresh, Row, Statuses, JobQueueAssumption
  <2> QED BY <1>1, <1>2, <2>1 DEF Enqueue, TypeOK
<1>3. ASSUME NEW j \in Jobs, DeleteJob(j) PROVE TypeOK' /\ SlotAccounting'
  BY <1>1, <1>3, VacantIsRow DEF DeleteJob, TypeOK, Statuses
<1>4. ASSUME NEW r \in Runs, Resolve(r) PROVE TypeOK' /\ SlotAccounting'
  <2>1. run[r].job \in Jobs
    BY <1>4 DEF Resolve, Settle, TypeOK
  <2>2. Completed(job[run[r].job]) \in Row
    BY <2>1, RowOps DEF TypeOK
  <2> QED BY <1>4, <2>2, SettleStep DEF Resolve
<1>5. ASSUME NEW r \in Runs, Reject(r) PROVE TypeOK' /\ SlotAccounting'
  <2>1. run[r].job \in Jobs
    BY <1>5 DEF Reject, Settle, TypeOK
  <2>2. Failed(job[run[r].job]) \in Row
    BY <2>1, RowOps DEF TypeOK
  <2> QED BY <1>5, <2>2, SettleStep DEF Reject
<1>6. CASE Tick
  <2> DEFINE rows == IF CheckDue THEN Reclaimed(job) ELSE job
  <2>1. rows \in [Jobs -> Row]
    BY ReclaimedAreRows DEF TypeOK
  <2>2. Poll(rows)
    BY <1>6 DEF Tick
  <2> HIDE DEF rows
  <2> QED BY <1>6, <2>1, <2>2, PollStep DEF Tick, TypeOK
<1>7. CASE Start
  <2>1. Reclaimed(job) \in [Jobs -> Row]
    BY ReclaimedAreRows DEF TypeOK
  <2> QED BY <1>7, <2>1, PollStep DEF Start, TypeOK
<1>8. CASE Stop \/ Stopped
  BY <1>1, <1>8 DEF Stop, Stopped, TypeOK
<1>9. CASE Crash
  <2>1. Busy' = {}
    BY <1>9 DEF Crash, Busy, IdleRun
  <2> QED
    BY <1>9, <2>1, FS_EmptySet, JobQueueAssumption
    DEF Crash, TypeOK, IdleRun, SlotAccounting, JobQueueAssumption
<1>10. CASE Cleanup
  BY <1>1, <1>10, VacantIsRow DEF Cleanup, TypeOK, Statuses
<1>11. CASE Advance
  <2>1. Busy' = Busy
    BY <1>11 DEF Advance, Busy, TypeOK
  <2>2. run' \in [Runs -> [job : Jobs \cup {None}, age : Nat]]
    BY <1>11 DEF Advance, TypeOK
  <2>3. job' \in [Jobs -> Row]
    BY <1>11, RowOps DEF Advance, TypeOK
  <2> QED
    BY <1>11, <2>1, <2>2, <2>3, JobQueueAssumption
    DEF Advance, TypeOK, SlotAccounting, Capped, JobQueueAssumption
<1>12. CASE UNCHANGED vars
  BY <1>1, <1>12 DEF vars, TypeOK
<1> QED
  BY <1>2, <1>3, <1>4, <1>5, <1>6, <1>7, <1>8, <1>9, <1>10, <1>11, <1>12 DEF Next

LEMMA AccountingInit == Init => TypeOK /\ SlotAccounting
<1> SUFFICES ASSUME Init PROVE TypeOK /\ SlotAccounting
  OBVIOUS
<1>1. Busy = {}
  BY DEF Init, Busy, IdleRun
<1>2. SlotAccounting
  BY <1>1, FS_EmptySet, JobQueueAssumption
  DEF Init, SlotAccounting, JobQueueAssumption
<1>3. TypeOK
  BY VacantIsRow DEF Init, TypeOK, IdleRun, Statuses
<1> QED BY <1>2, <1>3

(* The table, the runs and the counters keep their types. *)
THEOREM TypeCorrect == Spec => []TypeOK
BY AccountingInit, AccountingStep, PTL DEF Spec

(* inFlight is at all times the number of running handlers, and at most    *)
(* maxConcurrent.                                                          *)
THEOREM SlotsAreAccountedFor == Spec => []SlotAccounting
BY AccountingInit, AccountingStep, PTL DEF Spec

-----------------------------------------------------------------------------
(* The retry budget *)

WithinBudget(row) ==
  /\ row.retries <= row.maxRetries
  /\ row.status = "dead" => row.retries = row.maxRetries

(* No statement takes a row out of its budget. *)
LEMMA BudgetOps ==
  ASSUME NEW row \in Row, WithinBudget(row)
  PROVE  /\ WithinBudget(Claimed(row))
         /\ WithinBudget(Completed(row))
         /\ WithinBudget(Failed(row))
         /\ WithinBudget(Older(row))
         /\ WithinBudget([row EXCEPT !.status = "pending", !.age = 0])
<1>1. row.retries \in Nat /\ row.maxRetries \in 0 .. MaxRetries
  BY DEF Row
<1>2. WithinBudget(Claimed(row)) /\ WithinBudget(Completed(row))
  BY DEF WithinBudget, Claimed, Completed, Row
<1>3. WithinBudget(Failed(row))
  <2>1. CASE row.status \in Exists /\ row.retries < row.maxRetries
    <3>1. /\ Failed(row).status = "pending"
          /\ Failed(row).retries = row.retries + 1
          /\ Failed(row).maxRetries = row.maxRetries
      BY <2>1 DEF Failed, Row
    <3> QED BY <1>1, <2>1, <3>1, JobQueueAssumption DEF WithinBudget, JobQueueAssumption
  <2>2. CASE row.status \in Exists /\ ~ (row.retries < row.maxRetries)
    <3>1. /\ Failed(row).retries = row.retries
          /\ Failed(row).maxRetries = row.maxRetries
      BY <2>2 DEF Failed, Row
    <3> QED BY <1>1, <2>2, <3>1, JobQueueAssumption DEF WithinBudget, JobQueueAssumption
  <2>3. CASE row.status \notin Exists
    BY <2>3 DEF Failed
  <2> QED BY <2>1, <2>2, <2>3
<1>4. WithinBudget(Older(row)) /\ WithinBudget([row EXCEPT !.status = "pending", !.age = 0])
  BY DEF WithinBudget, Older, Row
<1> QED BY <1>2, <1>3, <1>4

LEMMA FreshBudget ==
  /\ \A queue \in Queues, priority \in Priorities,
        maxRetries \in 0 .. MaxRetries, delay \in Delays :
       WithinBudget(Fresh(queue, priority, maxRetries, delay))
  /\ WithinBudget(Vacant("unborn")) /\ WithinBudget(Vacant("gone"))
BY JobQueueAssumption DEF WithinBudget, Fresh, Vacant, JobQueueAssumption

LEMMA ReclaimedBudget ==
  ASSUME TypeOK, RetryBudget
  PROVE  /\ Reclaimed(job) \in [Jobs -> Row]
         /\ \A j \in Jobs : WithinBudget(Reclaimed(job)[j])
<1>1. \A j \in Jobs : job[j] \in Row /\ WithinBudget(job[j])
  BY DEF TypeOK, RetryBudget, WithinBudget
<1>2. \A j \in Jobs : WithinBudget([job[j] EXCEPT !.status = "pending", !.age = 0])
  BY <1>1, BudgetOps
<1> QED BY <1>1, <1>2, ReclaimedAreRows DEF Reclaimed, TypeOK

LEMMA PollBudget ==
  ASSUME NEW rows \in [Jobs -> Row], \A j \in Jobs : WithinBudget(rows[j]), Poll(rows)
  PROVE  \A j \in Jobs : WithinBudget(job'[j])
<1>1. \A j \in Jobs : rows[j] \in Row /\ WithinBudget(Claimed(rows[j]))
  BY BudgetOps
<1> QED BY <1>1 DEF Poll

LEMMA BudgetStep ==
  TypeOK /\ RetryBudget /\ [Next]_vars => RetryBudget'
<1> SUFFICES ASSUME TypeOK, RetryBudget, [Next]_vars
             PROVE  \A j \in Jobs : WithinBudget(job'[j])
  BY DEF RetryBudget, WithinBudget
<1>0. \A j \in Jobs : job[j] \in Row /\ WithinBudget(job[j])
  BY DEF TypeOK, RetryBudget, WithinBudget
<1>1. CASE UNCHANGED job
  BY <1>0, <1>1
<1>2. ASSUME NEW j \in Jobs, Enqueue(j) \/ DeleteJob(j)
      PROVE  \A k \in Jobs : WithinBudget(job'[k])
  <2>1. CASE Enqueue(j)
    BY <1>0, <2>1, FreshBudget DEF Enqueue, TypeOK
  <2>2. CASE DeleteJob(j)
    BY <1>0, <2>2, FreshBudget DEF DeleteJob, TypeOK
  <2> QED BY <1>2, <2>1, <2>2
<1>3. ASSUME NEW r \in Runs, Resolve(r) \/ Reject(r)
      PROVE  \A k \in Jobs : WithinBudget(job'[k])
  <2>1. run[r].job \in Jobs
    BY <1>3 DEF Resolve, Reject, Settle, TypeOK
  <2>2. \A k \in Jobs : WithinBudget(Completed(job[k])) /\ WithinBudget(Failed(job[k]))
    BY <1>0, BudgetOps
  <2> QED BY <1>0, <1>3, <2>1, <2>2 DEF Resolve, Reject, Settle, TypeOK
<1>4. CASE Tick
  <2> DEFINE rows == IF CheckDue THEN Reclaimed(job) ELSE job
  <2>1. rows \in [Jobs -> Row] /\ \A j \in Jobs : WithinBudget(rows[j])
    BY <1>0, ReclaimedBudget DEF TypeOK
  <2>2. Poll(rows)
    BY <1>4 DEF Tick
  <2> HIDE DEF rows
  <2> QED BY <2>1, <2>2, PollBudget
<1>5. CASE Start
  BY <1>5, ReclaimedBudget, PollBudget DEF Start
<1>6. CASE Cleanup
  BY <1>0, <1>6, FreshBudget DEF Cleanup
<1>7. CASE Advance
  BY <1>0, <1>7, BudgetOps DEF Advance
<1>8. CASE Stop \/ Stopped \/ Crash
  BY <1>1, <1>8 DEF Stop, Stopped, Crash
<1> QED
  BY <1>1, <1>2, <1>3, <1>4, <1>5, <1>6, <1>7, <1>8 DEF Next, vars

(* No job is retried more often than its max_retries, and none dies with   *)
(* retries left, slow handlers and late failures included.                 *)
THEOREM RetriesAreBudgeted == Spec => []RetryBudget
<1>1. Init => RetryBudget
  BY FreshBudget DEF Init, RetryBudget, WithinBudget
<1> QED BY <1>1, AccountingInit, AccountingStep, BudgetStep, PTL DEF Spec

-----------------------------------------------------------------------------
(* Slots *)

(* A tick leaves a due row behind only when every slot is taken. *)
THEOREM SlotsDoNotIdle == Spec => NoIdleSlot
<1>1. ASSUME TypeOK, SlotAccounting, NEW rows \in [Jobs -> Row], Poll(rows),
             NEW j \in Due(job')
      PROVE  inFlight' = MaxConcurrent
  <2>1. PICK C \in Claims(rows, MaxConcurrent - inFlight), S \in SUBSET Idle :
          /\ ExistsBijection(S, C)
          /\ job' = [k \in Jobs |-> IF k \in C THEN Claimed(rows[k]) ELSE rows[k]]
          /\ inFlight' = inFlight + Cardinality(C)
    BY <1>1 DEF Poll, ExistsBijection
  <2>2. j \in Jobs /\ j \notin C /\ job'[j] = rows[j]
    <3>1. j \in Jobs /\ job'[j].status = "pending"
      BY <1>1 DEF Due
    <3>2. j \notin C
      BY <2>1, <3>1, <1>1 DEF Claimed, Row
    <3> QED BY <2>1, <3>1, <3>2
  <2>3. j \in Due(rows) \ C
    BY <1>1, <2>2 DEF Due
  <2> DEFINE available == MaxConcurrent - inFlight
             q == rows[j].queue
             B == TakenBefore(rows, C, q)
             F == TakenFrom(rows, C, q)
  <2>4. IsFiniteSet(C) /\ C \in SUBSET Jobs /\ q \in Queues
    <3>1. IsFiniteSet(S)
      BY JobQueueAssumption, FS_Subset DEF JobQueueAssumption, Idle
    <3> QED BY <1>1, <2>1, <2>2, <3>1, FS_Bijection DEF Claims, Due, Row
  <2>5. available \in Nat
    BY <1>1, JobQueueAssumption DEF TypeOK, SlotAccounting, JobQueueAssumption
  <2>6. Cardinality(C) \in Nat /\ Cardinality(C) <= available
    BY <1>1, <2>4, <2>5, ClaimsFit
  <2>7. available <= Cardinality(B \cup F)
    <3>1. F \in IF available - Cardinality(B) <= 0 THEN {{}}
                ELSE Dequeue(rows, q, available - Cardinality(B))
      BY <2>1, <2>4 DEF Claims
    <3>2. /\ Cardinality(B) \in Nat /\ Cardinality(F) \in Nat
          /\ Cardinality(B \cup F) = Cardinality(B) + Cardinality(F)
      BY <1>1, <2>4, TakenSplit
    <3>3. CASE available - Cardinality(B) <= 0
      BY <2>5, <3>2, <3>3
    <3>4. CASE ~ (available - Cardinality(B) <= 0)
      <4>1. F # {k \in Due(rows) : rows[k].queue = q}
        BY <2>3 DEF TakenFrom
      <4>2. Cardinality(F) = available - Cardinality(B)
        BY <3>1, <3>4, <4>1 DEF Dequeue
      <4> QED BY <2>5, <3>2, <4>2
    <3> QED BY <3>3, <3>4
  <2>8. Cardinality(B \cup F) \in Nat /\ Cardinality(B \cup F) <= Cardinality(C)
    BY <2>4, FS_Subset, FS_CardinalityType DEF TakenBefore, TakenFrom
  <2> QED BY <1>1, <2>1, <2>5, <2>6, <2>7, <2>8, JobQueueAssumption
          DEF TypeOK, JobQueueAssumption
<1>2. ASSUME TypeOK, SlotAccounting, Tick \/ Start, NEW j \in Due(job')
      PROVE  inFlight' = MaxConcurrent
  <2>1. job \in [Jobs -> Row] /\ Reclaimed(job) \in [Jobs -> Row]
    BY <1>2, ReclaimedAreRows DEF TypeOK
  <2>2. Poll(job) \/ Poll(Reclaimed(job))
    BY <1>2 DEF Tick, Start
  <2> QED BY <1>1, <1>2, <2>1, <2>2
<1>3. TypeOK /\ SlotAccounting /\ [Next]_vars
        => [(Tick \/ Start) /\ (\E j \in Due(job') : TRUE) => inFlight' = MaxConcurrent]_vars
  BY <1>2
<1> QED BY <1>3, AccountingInit, AccountingStep, PTL DEF Spec, NoIdleSlot

-----------------------------------------------------------------------------
(* Handlers that settle before their claim is stale *)

Prompt == MaxRunTime <= StaleThreshold

(* The claim of a run: its row is processing and no older than the run, or *)
(* it was deleted.                                                         *)
Holds(r, rows) ==
  LET row == rows[run[r].job] IN
    \/ row.status = "gone"
    \/ row.status = "processing" /\ row.age <= run[r].age

(* The inductive invariant: what RunOwnsClaim says of the threshold follows *)
(* from the time a handler may take.                                        *)
Claiming ==
  /\ ExclusiveHandler
  /\ \A r \in Busy : run[r].age <= MaxRunTime /\ Holds(r, job)

(* reclaimStale() takes no row from a run. *)
LEMMA ReclaimSpares ==
  ASSUME Prompt, TypeOK, Claiming, NEW r \in Busy
  PROVE  Reclaimed(job)[run[r].job] = job[run[r].job]
<1>1. run[r].job \in Jobs /\ run[r].age \in Nat /\ job[run[r].job] \in Row
  BY DEF Busy, TypeOK
<1>2. job[run[r].job].age \in Nat
  BY <1>1 DEF Row
<1>3. ~ IsStale(job[run[r].job])
  BY <1>1, <1>2, JobQueueAssumption
  DEF Prompt, Claiming, Holds, IsStale, JobQueueAssumption
<1> QED BY <1>1, <1>3 DEF Reclaimed

(* A poll gives each claimed row to one new run, and none of them was      *)
(* anybody's.                                                              *)
LEMMA PollClaims ==
  ASSUME TypeOK, Claiming, NEW rows \in [Jobs -> Row],
         \A r \in Busy : rows[run[r].job] = job[run[r].job], Poll(rows)
  PROVE  Claiming'
<1>1. PICK C \in Claims(rows, MaxConcurrent - inFlight), S \in SUBSET Idle :
        /\ \E f \in Bijection(S, C) :
             run' = [r \in Runs |-> IF r \in S THEN [job |-> f[r], age |-> 0]
                                               ELSE run[r]]
        /\ job' = [j \in Jobs |-> IF j \in C THEN Claimed(rows[j]) ELSE rows[j]]
  BY DEF Poll
<1>2. PICK f \in Bijection(S, C) :
        run' = [r \in Runs |-> IF r \in S THEN [job |-> f[r], age |-> 0]
                                          ELSE run[r]]
  BY <1>1
<1>3. C \subseteq Jobs /\ \A j \in C : rows[j].status = "pending"
  BY DEF Claims, Due
<1>4. f \in [S -> C] /\ \A r, s \in S : f[r] = f[s] => r = s
  BY Fun_BijectionProperties
<1>5. \A r \in Busy' : r \in S \/ r \in Busy
  BY <1>2 DEF Busy
<1>6. \A r \in S : r \in Runs /\ run'[r].job = f[r] /\ run'[r].age = 0
  BY <1>2 DEF Idle
<1>7. \A r \in Busy : r \in Runs /\ r \notin S /\ run'[r] = run[r] /\ run[r].job \in Jobs
  BY <1>2 DEF Idle, Busy, TypeOK
<1>8. \A r \in Busy : run[r].job \notin C
  <2> SUFFICES ASSUME NEW r \in Busy, run[r].job \in C PROVE FALSE
    OBVIOUS
  <2>1. rows[run[r].job].status = "pending"
    BY <1>3
  <2> QED BY <2>1 DEF Claiming, Holds
<1>9. ExclusiveHandler'
  <2> SUFFICES ASSUME NEW r \in Busy', NEW s \in Busy', run'[r].job = run'[s].job
               PROVE  r = s
    BY DEF ExclusiveHandler
  <2>1. CASE r \in S /\ s \in S
    BY <1>4, <1>6, <2>1
  <2>2. CASE r \in S /\ s \in Busy
    BY <1>4, <1>6, <1>7, <1>8, <2>2
  <2>3. CASE r \in Busy /\ s \in S
    BY <1>4, <1>6, <1>7, <1>8, <2>3
  <2>4. CASE r \in Busy /\ s \in Busy
    BY <1>7, <2>4 DEF Claiming, ExclusiveHandler
  <2> QED BY <1>5, <2>1, <2>2, <2>3, <2>4
<1>10. ASSUME NEW r \in Busy' PROVE run'[r].age <= MaxRunTime /\ Holds(r, job)'
  <2>1. CASE r \in S
    <3>1. f[r] \in C /\ f[r] \in Jobs
      BY <1>3, <1>4, <2>1
    <3>2. job'[f[r]] = Claimed(rows[f[r]]) /\ rows[f[r]] \in Row
      BY <1>1, <3>1
    <3>3. job'[f[r]].status = "processing" /\ job'[f[r]].age = 0
      BY <3>2 DEF Claimed, Row
    <3> QED BY <1>6, <2>1, <3>3, JobQueueAssumption DEF Holds, JobQueueAssumption
  <2>2. CASE r \in Busy
    <3>1. job'[run[r].job] = job[run[r].job]
      BY <1>1, <1>7, <1>8, <2>2
    <3> QED BY <1>7, <2>2, <3>1 DEF Claiming, Holds
  <2> QED BY <1>5, <2>1, <2>2
<1> QED BY <1>9, <1>10 DEF Claiming

LEMMA ClaimingStep ==
  ASSUME Prompt
  PROVE  TypeOK /\ Claiming /\ [Next]_vars => Claiming'
<1> SUFFICES ASSUME TypeOK, Claiming, [Next]_vars PROVE Claiming'
  OBVIOUS
<1>1. CASE UNCHANGED <<job, run>>
  BY <1>1 DEF Claiming, ExclusiveHandler, Busy, Holds
(* A change of other rows, or one that leaves the row of every run as it   *)
(* is or deletes it.                                                       *)
<1>2. ASSUME UNCHANGED run,
             \A r \in Busy : job'[run[r].job] = job[run[r].job] \/ job'[run[r].job].status = "gone"
      PROVE  Claiming'
  <2>1. Busy' = Busy
    BY <1>2 DEF Busy
  <2>2. \A r \in Busy : Holds(r, job)'
    BY <1>2 DEF Claiming, Holds
  <2> QED BY <1>2, <2>1, <2>2 DEF Claiming, ExclusiveHandler
<1>3. \A r \in Busy : r \in Runs /\ run[r].job \in Jobs /\ run[r].age \in Nat
  BY DEF Busy, TypeOK
<1>4. ASSUME NEW j \in Jobs, Enqueue(j) PROVE Claiming'
  <2>1. \A r \in Busy : run[r].job # j
    BY <1>4 DEF Enqueue, Claiming, Holds
  <2>2. \A r \in Busy : job'[run[r].job] = job[run[r].job]
    BY <1>3, <1>4, <2>1 DEF Enqueue, TypeOK
  <2> QED BY <1>2, <1>4, <2>2 DEF Enqueue
<1>5. ASSUME NEW j \in Jobs, DeleteJob(j) PROVE Claiming'
  <2>1. \A r \in Busy : job'[run[r].job] = job[run[r].job] \/ job'[run[r].job].status = "gone"
    BY <1>3, <1>5 DEF DeleteJob, TypeOK, Vacant
  <2> QED BY <1>2, <1>5, <2>1 DEF DeleteJob
<1>6. ASSUME NEW r \in Runs, NEW row \in Row, Settle(r, row) PROVE Claiming'
  <2>1. Busy' = Busy \ {r} /\ \A s \in Busy' : run'[s] = run[s] /\ s \in Busy /\ s # r
    BY <1>6 DEF Settle, Busy, TypeOK, IdleRun
  <2>2. r \in Busy
    BY <1>6 DEF Settle, Busy
  <2>3. \A s \in Busy' : job'[run[s].job] = job[run[s].job]
    BY <1>3, <1>6, <2>1, <2>2 DEF Settle, TypeOK, Claiming, ExclusiveHandler
  <2>4. \A s \in Busy' : Holds(s, job)'
    BY <2>1, <2>3 DEF Claiming, Holds
  <2> QED BY <2>1, <2>4 DEF Claiming, ExclusiveHandler
<1>7. ASSUME NEW r \in Runs, Resolve(r) \/ Reject(r) PROVE Claiming'
  <2>1. run[r].job \in Jobs
    BY <1>7 DEF Resolve, Reject, Settle, TypeOK
  <2>2. Completed(job[run[r].job]) \in Row /\ Failed(job[run[r].job]) \in Row
    BY <2>1, RowOps DEF TypeOK
  <2> QED BY <1>6, <1>7, <2>2 DEF Resolve, Reject
<1>8. Reclaimed(job) \in [Jobs -> Row] /\ job \in [Jobs -> Row]
  BY ReclaimedAreRows DEF TypeOK
<1>9. CASE Tick
  <2> DEFINE rows == IF CheckDue THEN Reclaimed(job) ELSE job
  <2>1. rows \in [Jobs -> Row] /\ \A r \in Busy : rows[run[r].job] = job[run[r].job]
    BY <1>8, ReclaimSpares
  <2>2. Poll(rows)
    BY <1>9 DEF Tick
  <2> HIDE DEF rows
  <2> QED BY <2>1, <2>2, PollClaims
<1>10. CASE Start
  <2>1. \A r \in Busy : Reclaimed(job)[run[r].job] = job[run[r].job]
    BY ReclaimSpares
  <2> QED BY <1>8, <1>10, <2>1, PollClaims DEF Start
<1>11. CASE Crash
  BY <1>11 DEF Crash, Claiming, ExclusiveHandler, Busy, IdleRun
<1>12. CASE Cleanup
  <2>1. \A r \in Busy : job[run[r].job].status \notin Final
    BY DEF Claiming, Holds, Final
  <2>2. \A r \in Busy : job'[run[r].job] = job[run[r].job]
    BY <1>3, <1>12, <2>1 DEF Cleanup
  <2> QED BY <1>2, <1>12, <2>2 DEF Cleanup
<1>13. CASE Advance
  <2>1. Busy' = Busy /\ \A r \in Busy : run'[r].job = run[r].job /\ run'[r].age = run[r].age + 1
    BY <1>13 DEF Advance, Busy, TypeOK
  <2>2. ASSUME NEW r \in Busy PROVE run'[r].age <= MaxRunTime /\ Holds(r, job)'
    <3>1. run[r].age < MaxRunTime
      BY <1>13 DEF Advance
    <3>2. job'[run[r].job] = Older(job[run[r].job]) /\ job[run[r].job] \in Row
      BY <1>3, <1>13 DEF Advance, TypeOK
    <3>3. CASE job[run[r].job].status = "gone"
      <4>1. job'[run[r].job].status = "gone"
        BY <3>2, <3>3 DEF Older, Row
      <4> QED BY <1>3, <2>1, <3>1, <4>1, JobQueueAssumption DEF Holds, JobQueueAssumption
    <3>4. CASE job[run[r].job].status = "processing"
      <4>1. job[run[r].job].age \in Nat /\ job[run[r].job].age <= run[r].age
        BY <3>2, <3>4 DEF Row, Claiming, Holds
      <4>2. /\ job'[run[r].job].status = "processing"
            /\ job'[run[r].job].age = Capped(job[run[r].job].age + 1, AgeCap)
        BY <3>2, <3>4 DEF Older, Row
      <4>3. Capped(job[run[r].job].age + 1, AgeCap) <= run[r].age + 1
        BY <1>3, <4>1, JobQueueAssumption DEF Capped, AgeCap, JobQueueAssumption
      <4>4. run[r].age + 1 <= MaxRunTime
        BY <1>3, <3>1, JobQueueAssumption DEF JobQueueAssumption
      <4> QED BY <2>1, <4>2, <4>3, <4>4 DEF Holds
    <3> QED BY <3>3, <3>4 DEF Claiming, Holds
  <2>3. ExclusiveHandler'
    BY <2>1 DEF Claiming, ExclusiveHandler
  <2> QED BY <2>1, <2>2, <2>3 DEF Claiming
<1>14. CASE Stop \/ Stopped
  BY <1>1, <1>14 DEF Stop, Stopped
<1> QED
  BY <1>1, <1>4, <1>5, <1>7, <1>9, <1>10, <1>11, <1>12, <1>13, <1>14 DEF Next, vars

LEMMA ClaimingInit == Init => Claiming
BY DEF Init, Claiming, ExclusiveHandler, Busy, IdleRun

(* Two handlers never run for one job at the same time, if none takes      *)
(* longer than the stale threshold.                                        *)
THEOREM HandlersAreExclusive ==
  ASSUME Prompt PROVE Spec => []ExclusiveHandler
<1>1. Claiming => ExclusiveHandler
  BY DEF Claiming
<1> QED BY <1>1, AccountingInit, AccountingStep, ClaimingInit, ClaimingStep, PTL DEF Spec

(* A handler keeps the claim on its row until it settles, if none takes    *)
(* longer than the stale threshold.                                        *)
THEOREM RunsKeepTheirClaims ==
  ASSUME Prompt PROVE Spec => []RunOwnsClaim
<1>1. TypeOK /\ Claiming => RunOwnsClaim
  <2> SUFFICES ASSUME TypeOK, Claiming, NEW r \in Busy,
                      job[run[r].job].status = "processing"
               PROVE  /\ job[run[r].job].age <= run[r].age
                      /\ job[run[r].job].age <= StaleThreshold
    BY DEF RunOwnsClaim, Claiming, Holds
  <2>1. run[r].job \in Jobs /\ run[r].age \in Nat
    BY DEF Busy, TypeOK
  <2>2. job[run[r].job].age \in Nat
    BY <2>1 DEF TypeOK, Row
  <2> QED
    BY <2>1, <2>2, JobQueueAssumption DEF Prompt, Claiming, Holds, JobQueueAssumption
<1> QED BY <1>1, AccountingInit, AccountingStep, ClaimingInit, ClaimingStep, PTL DEF Spec

-----------------------------------------------------------------------------
(* The promise of JobLedger *)

Entry(row) == [status |-> LedgerStatus(row), left |-> row.maxRetries - row.retries]
Entries == [j \in Jobs |-> Entry(job[j])]

LEMMA EntryIsLine ==
  ASSUME NEW row \in Row, WithinBudget(row)
  PROVE  Entry(row) \in Ledger!Line
<1>1. row.maxRetries - row.retries \in Nat
  BY JobQueueAssumption DEF WithinBudget, Row, JobQueueAssumption
<1>2. LedgerStatus(row) \in {"none", "pending", "processing", "completed", "dead"}
  BY DEF LedgerStatus, Exists
<1> QED BY <1>1, <1>2 DEF Entry, Ledger!Line

LEMMA LineUpdate ==
  ASSUME NEW line \in [status : {"pending", "processing"}, left : Int], NEW n \in Int
  PROVE  [line EXCEPT !.status = "pending", !.left = n]
           = [status |-> "pending", left |-> n]
<1> DEFINE pending == [line EXCEPT !.status = "pending"]
<1>1. pending = [status |-> "pending", left |-> line.left]
  OBVIOUS
<1>2. pending \in [status : {"pending", "processing"}, left : Int] /\ pending.status = "pending"
  BY <1>1
<1> HIDE DEF pending
<1>3. [pending EXCEPT !.left = n] = [status |-> pending.status, left |-> n]
  BY <1>2
<1> QED BY <1>2, <1>3 DEF pending

(* What the statements do to the line of a row. *)
LEMMA Arcs ==
  ASSUME NEW row \in Row, WithinBudget(row)
  PROVE  /\ row.status = "pending" => Ledger!Move(Entry(row), Entry(Claimed(row)))
         /\ row.status = "processing" =>
              /\ Entry(Claimed(row)) = Entry(row)
              /\ Ledger!Move(Entry(row), Entry(Completed(row)))
              /\ Ledger!Move(Entry(row), Entry(Failed(row)))
              /\ Ledger!Move(Entry(row), Entry([row EXCEPT !.status = "pending", !.age = 0]))
         /\ Entry(Older(row)) = Entry(row)
         /\ row.status = "gone" => Completed(row) = row /\ Failed(row) = row
         /\ row.status \in Exists => Ledger!Move(Entry(row), Entry(Vacant("gone")))
<1>1. row.retries \in Nat /\ row.maxRetries \in Nat
  BY JobQueueAssumption DEF Row, JobQueueAssumption
<1> DEFINE reset == [row EXCEPT !.status = "pending", !.age = 0]
<1>2. /\ Claimed(row).status = "processing" /\ Claimed(row).retries = row.retries
      /\ Claimed(row).maxRetries = row.maxRetries
      /\ reset.status = "pending" /\ reset.retries = row.retries
      /\ reset.maxRetries = row.maxRetries
      /\ Older(row).status = row.status /\ Older(row).retries = row.retries
      /\ Older(row).maxRetries = row.maxRetries
  BY DEF Claimed, Older, Row
<1> HIDE DEF reset
<1>3. ASSUME row.status = "pending"
      PROVE  Ledger!Move(Entry(row), Entry(Claimed(row)))
  BY <1>2, <1>3 DEF Ledger!Move, Entry, LedgerStatus, Exists
<1>4. ASSUME row.status = "processing" PROVE Entry(Claimed(row)) = Entry(row)
  BY <1>2, <1>4 DEF Entry, LedgerStatus, Exists
<1>5. ASSUME row.status = "processing"
      PROVE  Ledger!Move(Entry(row), Entry(Completed(row)))
  <2>1. /\ Completed(row).status = "completed" /\ Completed(row).retries = row.retries
        /\ Completed(row).maxRetries = row.maxRetries
    BY <1>5 DEF Completed, Row
  <2> QED BY <1>5, <2>1 DEF Ledger!Move, Entry, LedgerStatus, Exists
<1>6. ASSUME row.status = "processing"
      PROVE  Ledger!Move(Entry(row), Entry(Failed(row)))
  <2>1. CASE row.retries < row.maxRetries
    <3>1. /\ Failed(row).status = "pending" /\ Failed(row).retries = row.retries + 1
          /\ Failed(row).maxRetries = row.maxRetries
      BY <1>6, <2>1 DEF Failed, Exists, Row
    <3>2. row.maxRetries - (row.retries + 1) = (row.maxRetries - row.retries) - 1
      BY <1>1
    <3>3. Entry(Failed(row))
            = [status |-> "pending", left |-> (row.maxRetries - row.retries) - 1]
      BY <3>1, <3>2 DEF Entry, LedgerStatus, Exists
    <3>4. Entry(row) = [status |-> "processing", left |-> row.maxRetries - row.retries]
      BY <1>6 DEF Entry, LedgerStatus, Exists
    <3>5. Entry(Failed(row)) = [Entry(row) EXCEPT !.status = "pending", !.left = @ - 1]
      <4>1. Entry(row) \in [status : {"pending", "processing"}, left : Int]
        BY <1>1, <3>4
      <4>2. Entry(row).left = row.maxRetries - row.retries
        BY <3>4
      <4> DEFINE n == Entry(row).left - 1
      <4>3. n \in Int /\ Entry(Failed(row)) = [status |-> "pending", left |-> n]
        BY <1>1, <3>3, <4>2
      <4>4. [Entry(row) EXCEPT !.status = "pending", !.left = @ - 1]
              = [Entry(row) EXCEPT !.status = "pending", !.left = n]
        OBVIOUS
      <4> HIDE DEF n
      <4> QED BY <4>1, <4>3, <4>4, LineUpdate
    <3>6. Entry(row).status = "processing"
      BY <3>4
    <3> QED BY <3>5, <3>6 DEF Ledger!Move
  <2>2. CASE ~ (row.retries < row.maxRetries)
    <3>1. /\ Failed(row).status = "dead" /\ Failed(row).retries = row.retries
          /\ Failed(row).maxRetries = row.maxRetries
      BY <1>6, <2>2 DEF Failed, Exists, Row
    <3>2. row.maxRetries - row.retries = 0
      BY <1>1, <2>2 DEF WithinBudget
    <3>3. Entry(Failed(row)) = [status |-> "dead", left |-> row.maxRetries - row.retries]
      BY <3>1 DEF Entry, LedgerStatus, Exists
    <3>4. Entry(row) = [status |-> "processing", left |-> row.maxRetries - row.retries]
      BY <1>6 DEF Entry, LedgerStatus, Exists
    <3> QED BY <3>2, <3>3, <3>4 DEF Ledger!Move
  <2> QED BY <2>1, <2>2
<1>7. ASSUME row.status = "processing"
      PROVE  Ledger!Move(Entry(row), Entry(reset))
  BY <1>2, <1>7 DEF Ledger!Move, Entry, LedgerStatus, Exists
<1>8. Entry(Older(row)) = Entry(row)
  BY <1>2 DEF Entry, LedgerStatus
<1>9. ASSUME row.status = "gone" PROVE Completed(row) = row /\ Failed(row) = row
  BY <1>9 DEF Completed, Failed, Exists
<1>10. ASSUME row.status \in Exists
       PROVE  Ledger!Move(Entry(row), Entry(Vacant("gone")))
  <2>1. Entry(Vacant("gone")).status = "none" /\ Entry(row).status # "none"
    BY <1>10 DEF Entry, LedgerStatus, Vacant, Exists
  <2> QED BY <2>1 DEF Ledger!Move
<1> QED BY <1>3, <1>4, <1>5, <1>6, <1>7, <1>8, <1>9, <1>10 DEF reset

Keeps(old, new) == Entry(new) = Entry(old) \/ Ledger!Move(Entry(old), Entry(new))

(* A poll, with or without a reclaim before it. *)
LEMMA PollKeeps ==
  ASSUME TypeOK, RetryBudget, NEW rows \in [Jobs -> Row],
         rows \in {job, Reclaimed(job)}, Poll(rows), NEW j \in Jobs
  PROVE  Keeps(job[j], job'[j])
<1>1. PICK C \in Claims(rows, MaxConcurrent - inFlight) :
        job' = [k \in Jobs |-> IF k \in C THEN Claimed(rows[k]) ELSE rows[k]]
  BY DEF Poll
<1>2. job[j] \in Row /\ WithinBudget(job[j])
  BY DEF TypeOK, RetryBudget, WithinBudget
<1> DEFINE reset == [job[j] EXCEPT !.status = "pending", !.age = 0]
<1>3. \/ rows[j] = job[j]
      \/ job[j].status = "processing" /\ rows[j] = reset
  BY DEF Reclaimed, IsStale
<1>4. Claimed(reset) = Claimed(job[j]) /\ reset.status = "pending"
  BY <1>2 DEF Claimed, Row
<1> HIDE DEF reset
<1>5. j \in C => rows[j].status = "pending"
  BY DEF Claims, Due
<1>6. CASE j \in C /\ rows[j] = job[j]
  BY <1>1, <1>2, <1>5, <1>6, Arcs DEF Keeps
<1>7. CASE j \in C /\ job[j].status = "processing" /\ rows[j] = reset
  BY <1>1, <1>2, <1>4, <1>7, Arcs DEF Keeps
<1>8. CASE j \notin C /\ rows[j] = job[j]
  BY <1>1, <1>8 DEF Keeps
<1>9. CASE j \notin C /\ job[j].status = "processing" /\ rows[j] = reset
  BY <1>1, <1>2, <1>9, Arcs DEF Keeps, reset
<1> QED BY <1>3, <1>6, <1>7, <1>8, <1>9

LEMMA LedgerStep ==
  ASSUME TypeOK, RetryBudget, Claiming, [Next]_vars, NEW j \in Jobs
  PROVE  Keeps(job[j], job'[j])
<1>0. job[j] \in Row /\ WithinBudget(job[j])
  BY DEF TypeOK, RetryBudget, WithinBudget
<1>1. CASE job'[j] = job[j]
  BY <1>1 DEF Keeps
<1>2. ASSUME NEW k \in Jobs, Enqueue(k) PROVE Keeps(job[j], job'[j])
  <2>1. CASE j # k
    BY <1>1, <1>2, <2>1 DEF Enqueue, TypeOK
  <2>2. CASE j = k
    <3>1. job'[j].status = "pending" /\ job[j].status = "unborn"
      BY <1>2, <2>2 DEF Enqueue, Fresh, TypeOK
    <3>2. Entry(job'[j]).status = "pending" /\ Entry(job[j]).status = "none"
      BY <3>1 DEF Entry, LedgerStatus, Exists
    <3> QED BY <3>2 DEF Keeps, Ledger!Move
  <2> QED BY <2>1, <2>2
<1>3. ASSUME NEW k \in Jobs, DeleteJob(k) PROVE Keeps(job[j], job'[j])
  <2>1. CASE j # k
    BY <1>1, <1>3, <2>1 DEF DeleteJob, TypeOK
  <2>2. CASE j = k
    <3>1. job'[j] = Vacant("gone") /\ job[j].status \in Exists
      BY <1>3, <2>2 DEF DeleteJob, TypeOK
    <3> QED BY <1>0, <3>1, Arcs DEF Keeps
  <2> QED BY <2>1, <2>2
<1>4. ASSUME NEW r \in Runs, Resolve(r) \/ Reject(r) PROVE Keeps(job[j], job'[j])
  <2>1. r \in Busy /\ run[r].job \in Jobs
    BY <1>4 DEF Resolve, Reject, Settle, Busy, TypeOK
  <2>2. CASE j # run[r].job
    BY <1>1, <1>4, <2>1, <2>2 DEF Resolve, Reject, Settle, TypeOK
  <2>3. CASE j = run[r].job
    <3>1. job'[j] = Completed(job[j]) \/ job'[j] = Failed(job[j])
      BY <1>4, <2>1, <2>3 DEF Resolve, Reject, Settle, TypeOK
    <3>2. job[j].status \in {"gone", "processing"}
      BY <2>1, <2>3 DEF Claiming, Holds
    <3> QED BY <1>0, <1>1, <3>1, <3>2, Arcs DEF Keeps
  <2> QED BY <2>2, <2>3
<1>5. CASE Tick \/ Start
  <2>1. job \in [Jobs -> Row] /\ Reclaimed(job) \in [Jobs -> Row]
    BY ReclaimedAreRows DEF TypeOK
  <2>2. Poll(job) \/ Poll(Reclaimed(job))
    BY <1>5 DEF Tick, Start
  <2> QED BY <2>1, <2>2, PollKeeps
<1>6. CASE Cleanup
  <2>1. CASE job[j].status \in Final /\ job[j].age > CleanupAge
    <3>1. job'[j] = Vacant("gone") /\ job[j].status \in Exists
      BY <1>6, <2>1 DEF Cleanup, Final, Exists
    <3> QED BY <1>0, <3>1, Arcs DEF Keeps
  <2>2. CASE ~ (job[j].status \in Final /\ job[j].age > CleanupAge)
    BY <1>1, <1>6, <2>2 DEF Cleanup
  <2> QED BY <2>1, <2>2
<1>7. CASE Advance
  <2>1. job'[j] = Older(job[j])
    BY <1>7 DEF Advance
  <2> QED BY <1>0, <2>1, Arcs DEF Keeps
<1>8. CASE Stop \/ Stopped \/ Crash \/ UNCHANGED vars
  BY <1>1, <1>8 DEF Stop, Stopped, Crash, vars
<1> QED
  BY <1>2, <1>3, <1>4, <1>5, <1>6, <1>7, <1>8 DEF Next

(* The queue implements JobLedger, if no handler takes longer than the     *)
(* stale threshold.                                                        *)
THEOREM QueueKeepsLedger ==
  ASSUME Prompt PROVE Spec => KeepsLedger
<1>1. Init => Ledger!Init
  <2> SUFFICES ASSUME Init PROVE Ledger!Init
    OBVIOUS
  <2>1. \A j \in Jobs : Entry(job[j]) \in Ledger!Line /\ Entry(job[j]).status = "none"
    <3>1. Vacant("unborn") \in Row /\ WithinBudget(Vacant("unborn"))
      BY VacantIsRow, FreshBudget DEF Statuses
    <3>2. Entry(Vacant("unborn")).status = "none"
      BY DEF Entry, LedgerStatus, Vacant, Exists
    <3> QED BY <3>1, <3>2, EntryIsLine DEF Init
  <2> QED BY <2>1 DEF Ledger!Init, Entry
<1>2. TypeOK /\ RetryBudget /\ Claiming /\ TypeOK' /\ RetryBudget' /\ [Next]_vars
        => [Ledger!Next]_Entries
  <2> SUFFICES ASSUME TypeOK, RetryBudget, Claiming, TypeOK', RetryBudget', [Next]_vars
               PROVE  Ledger!Next
    OBVIOUS
  <2>1. \A j \in Jobs : Keeps(job[j], job'[j])
    BY LedgerStep
  <2>2. \A j \in Jobs : Entry(job'[j]) \in Ledger!Line
    BY EntryIsLine DEF TypeOK, RetryBudget, WithinBudget
  <2> QED BY <2>1, <2>2 DEF Ledger!Next, Keeps, Entry
<1>3. Init => RetryBudget
  BY FreshBudget DEF Init, RetryBudget, WithinBudget
<1> QED
  BY <1>1, <1>2, <1>3, AccountingInit, AccountingStep, BudgetStep, ClaimingInit, ClaimingStep, PTL
  DEF Spec, KeepsLedger, Ledger!Spec, Entries, Entry

=============================================================================
