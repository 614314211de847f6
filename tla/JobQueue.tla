------------------------------ MODULE JobQueue ------------------------------
(***************************************************************************)
(* The persistent job queue of the daemon: the job_queue table with the    *)
(* statements JobQueueRepository runs on it, and JobQueueProcessor, the    *)
(* poller that claims due rows and runs their handlers concurrently.       *)
(*                                                                         *)
(* The table survives a crash; runs (the promises of processJob), the      *)
(* inFlight counter and the poll timer do not.  Every statement and every  *)
(* tick is synchronous JavaScript, so each is one step; a handler is the   *)
(* time between its claim and the step in which its promise settles.       *)
(*                                                                         *)
(* Timestamps are kept relative to the clock: "lag" is now - run_at and    *)
(* "age" is now - started_at (processing rows) or now - completed_at       *)
(* (completed and dead rows).  Both stop growing where no guard can tell   *)
(* larger values apart, except that two rows overdue by more than MaxLag   *)
(* are claimed in either order.                                            *)
(***************************************************************************)
EXTENDS Integers, FiniteSets, Functions

CONSTANTS
  Jobs,               \* row ids; generateUUID() never hands one out twice
  Runs,               \* identities of processJob() calls
  None,               \* no job: the value of an identity not in use
  QueueCount,         \* registered handlers, 1..QueueCount in that order
  Priorities,         \* priorities enqueue() is called with
  MaxRetries,         \* bound on the max_retries enqueue() is called with
  Delays,             \* delays of run_at enqueue() is called with
  RetryUnit,          \* unit of the exponential backoff (1000 ms)
  MaxConcurrent,      \* maxConcurrent
  StaleThreshold,     \* staleThresholdMs
  StaleCheckInterval, \* STALE_CHECK_INTERVAL
  CleanupAge,         \* age at which cleanup() deletes finished rows
  MaxRunTime,         \* longest time a handler takes to settle
  MaxLag              \* overdue time beyond which run_at order is forgotten

ASSUME JobQueueAssumption ==
  /\ QueueCount \in Nat \ {0}
  /\ Priorities \subseteq Int
  /\ Priorities # {}
  /\ MaxRetries \in Nat
  /\ Delays \subseteq Nat
  /\ RetryUnit \in Nat
  /\ MaxConcurrent \in Nat \ {0}
  /\ StaleThreshold \in Nat
  /\ StaleCheckInterval \in Nat
  /\ CleanupAge \in Nat
  /\ MaxRunTime \in Nat
  /\ MaxLag \in Nat
  /\ None \notin Jobs
  /\ IsFiniteSet(Runs)

(* A fact of arithmetic the provers do not have. *)
ASSUME BackoffAssumption == \A n \in 0 .. MaxRetries : 2^n \in Nat

VARIABLES
  job,         \* the table: job[j] is the row with id j
  run,         \* run[r].job is the job r executes, run[r].age since when
  inFlight,    \* the processor's counter of started handlers
  sinceCheck,  \* now - lastStaleCheck
  phase        \* the processor: "down", "up" (polling) or "stopping"

vars == <<job, run, inFlight, sinceCheck, phase>>

-----------------------------------------------------------------------------
(* Rows *)

Queues == 1 .. QueueCount
Statuses == {"unborn", "pending", "processing", "completed", "dead", "gone"}
Final == {"completed", "dead"}
Exists == {"pending", "processing", "completed", "dead"}

Row == [status     : Statuses,
        queue      : Queues,
        priority   : Int,
        maxRetries : 0 .. MaxRetries,
        retries    : Nat,
        lag        : Int,
        age        : Nat]

(* The id is unused ("unborn") or its row was deleted ("gone"). *)
Vacant(status) ==
  [status |-> status, queue |-> 1, priority |-> CHOOSE p \in Priorities : TRUE,
   maxRetries |-> 0, retries |-> 0, lag |-> 0, age |-> 0]

Busy == {r \in Runs : run[r].job # None}
Idle == Runs \ Busy
IdleRun == [job |-> None, age |-> 0]

Capped(n, cap) == IF n < cap THEN n ELSE cap
AgeCap == IF StaleThreshold < CleanupAge THEN CleanupAge + 1 ELSE StaleThreshold + 1

-----------------------------------------------------------------------------
(* JobQueueRepository: what each statement does to the row it changes *)

Fresh(queue, priority, maxRetries, delay) ==
  [status |-> "pending", queue |-> queue, priority |-> priority,
   maxRetries |-> maxRetries, retries |-> 0, lag |-> -delay, age |-> 0]

Claimed(row) == [row EXCEPT !.status = "processing", !.age = 0]

(* complete(): guarded by status = 'processing'. *)
Completed(row) ==
  IF row.status = "processing"
    THEN [row EXCEPT !.status = "completed", !.age = 0]
    ELSE row

Backoff(n) == RetryUnit * 2^n

(* fail(): whatever the row's status is, as long as the row exists. *)
Failed(row) ==
  IF row.status \notin Exists THEN row
  ELSE IF row.retries < row.maxRetries
    THEN [row EXCEPT !.status = "pending", !.retries = @ + 1,
                     !.lag = -Backoff(row.retries), !.age = 0]
    ELSE [row EXCEPT !.status = "dead", !.age = 0]

IsStaleTooEarly(row) == \* mutant: started_at <= staleBefore
  row.status = "processing" /\ row.age >= StaleThreshold

IsStaleAnyStatus(row) == \* mutant: no test of status
  row.status \in Exists /\ row.age > StaleThreshold

IsStale(row) == row.status = "processing" /\ row.age > StaleThreshold

(* reclaimStale(): a claim older than the threshold is given up. *)
Reclaimed(rows) ==
  [j \in Jobs |-> IF IsStale(rows[j])
                    THEN [rows[j] EXCEPT !.status = "pending", !.age = 0]
                    ELSE rows[j]]

DueAnyStatus(rows) == \* mutant: the dequeue forgets status = 'pending'
  {j \in Jobs : rows[j].status \in {"pending", "processing"} /\ rows[j].lag >= 0}

Due(rows) == {j \in Jobs : rows[j].status = "pending" /\ rows[j].lag >= 0}

(* dequeue(queue, limit): rows by priority DESC, run_at ASC, LIMIT limit. *)
Precedes(rows, a, b) ==
  \/ rows[a].priority > rows[b].priority
  \/ rows[a].priority = rows[b].priority /\ rows[a].lag > rows[b].lag

Dequeue(rows, queue, limit) ==
  LET due == {j \in Due(rows) : rows[j].queue = queue}
  IN  {C \in SUBSET due :
         /\ C = due \/ Cardinality(C) = limit
         /\ Cardinality(C) <= limit
         /\ \A left \in due \ C, c \in C : ~ Precedes(rows, left, c)}

(* The rows of C that a tick took before it came to the queue, and there. *)
TakenBefore(rows, C, queue) == {c \in C : rows[c].queue < queue}
TakenFrom(rows, C, queue) == {c \in C : rows[c].queue = queue}

ClaimsUncounted(rows, available) == \* mutant: slots is not decremented
  {C \in SUBSET Due(rows) :
     \A queue \in Queues :
       TakenFrom(rows, C, queue) \in
         IF available <= 0 THEN {{}} ELSE Dequeue(rows, queue, available)}

ClaimsAskedFor(rows, available) == \* mutant: slots -= slots for slots -= jobs.length
  {C \in SUBSET Due(rows) :
     \A queue \in Queues :
       LET slots == IF queue = 1 THEN available ELSE 0
       IN  TakenFrom(rows, C, queue) \in
             IF slots <= 0 THEN {{}} ELSE Dequeue(rows, queue, slots)}

(* The loop of tick(): it visits the queues in the order of registration,  *)
(* asks each for as many rows as there are slots then, takes what came off *)
(* the slots and ends when none is left.  The sets it may take in all.     *)
Claims(rows, available) ==
  {C \in SUBSET Due(rows) :
     \A queue \in Queues :
       LET slots == available - Cardinality(TakenBefore(rows, C, queue))
       IN  TakenFrom(rows, C, queue) \in
             IF slots <= 0 THEN {{}} ELSE Dequeue(rows, queue, slots)}

-----------------------------------------------------------------------------
Init ==
  /\ job = [j \in Jobs |-> Vacant("unborn")]
  /\ run = [r \in Runs |-> IdleRun]
  /\ inFlight = 0
  /\ sinceCheck = 0
  /\ phase = "down"

(* enqueue(), by any part of the daemon, before start() included. *)
Enqueue(j) ==
  /\ job[j].status = "unborn"
  /\ \E queue \in Queues, priority \in Priorities,
        maxRetries \in 0 .. MaxRetries, delay \in Delays :
       job' = [job EXCEPT ![j] = Fresh(queue, priority, maxRetries, delay)]
  /\ UNCHANGED <<run, inFlight, sinceCheck, phase>>

(* Claim rows for the free slots and start their handlers. *)
Poll(rows) ==
  \E C \in Claims(rows, MaxConcurrent - inFlight), S \in SUBSET Idle :
    /\ \E f \in Bijection(S, C) :
         run' = [r \in Runs |-> IF r \in S THEN [job |-> f[r], age |-> 0]
                                           ELSE run[r]]
    /\ job' = [j \in Jobs |-> IF j \in C THEN Claimed(rows[j]) ELSE rows[j]]
    /\ inFlight' = inFlight + Cardinality(C)

CheckNever == FALSE \* mutant: no stale check after start()

CheckDue == sinceCheck >= StaleCheckInterval

(* tick(): the poll timer, which runs only between start() and stop(). *)
Tick ==
  /\ phase = "up"
  /\ Poll(IF CheckDue THEN Reclaimed(job) ELSE job)
  /\ sinceCheck' = IF CheckDue THEN 0 ELSE sinceCheck
  /\ UNCHANGED phase

(* start(): reclaim eagerly, then the first tick. *)
Start ==
  /\ phase = "down"
  /\ phase' = "up"
  /\ sinceCheck' = 0
  /\ Poll(Reclaimed(job))

SettleNoFinally(r, row) == \* mutant: the counter goes down on success only
  /\ run[r].job # None
  /\ job' = [job EXCEPT ![run[r].job] = row]
  /\ run' = [run EXCEPT ![r] = IdleRun]
  /\ inFlight' = IF row.status = "completed" THEN inFlight - 1 ELSE inFlight
  /\ UNCHANGED <<sinceCheck, phase>>

Settle(r, row) ==
  /\ run[r].job # None
  /\ job' = [job EXCEPT ![run[r].job] = row]
  /\ run' = [run EXCEPT ![r] = IdleRun]
  /\ inFlight' = inFlight - 1
  /\ UNCHANGED <<sinceCheck, phase>>

(* The handler's promise resolves, or rejects. *)
Resolve(r) == Settle(r, Completed(job[run[r].job]))
Reject(r) == Settle(r, Failed(job[run[r].job]))

(* deleteJob(), called when a schedule is paused, edited or deleted. *)
DeleteJob(j) ==
  /\ job[j].status \in Exists
  /\ job' = [job EXCEPT ![j] = Vacant("gone")]
  /\ UNCHANGED <<run, inFlight, sinceCheck, phase>>

(* cleanup(), called by the job_queue.cleanup handler. *)
Cleanup ==
  /\ \E j \in Jobs : job[j].status \in Final /\ job[j].age > CleanupAge
  /\ job' = [j \in Jobs |-> IF job[j].status \in Final /\ job[j].age > CleanupAge
                              THEN Vacant("gone") ELSE job[j]]
  /\ UNCHANGED <<run, inFlight, sinceCheck, phase>>

(* stop() clears the timer; its promise resolves once nothing is in flight. *)
Stop ==
  /\ phase = "up"
  /\ phase' = "stopping"
  /\ UNCHANGED <<job, run, inFlight, sinceCheck>>

Stopped ==
  /\ phase = "stopping"
  /\ inFlight = 0
  /\ phase' = "down"
  /\ UNCHANGED <<job, run, inFlight, sinceCheck>>

(* The process dies: only the table is left. *)
Crash ==
  /\ phase # "down"
  /\ phase' = "down"
  /\ run' = [r \in Runs |-> IdleRun]
  /\ inFlight' = 0
  /\ UNCHANGED <<job, sinceCheck>>

Older(row) ==
  [row EXCEPT !.lag = IF row.status \in {"pending", "processing"}
                         THEN Capped(@ + 1, MaxLag) ELSE @,
              !.age = IF row.status \in {"processing"} \cup Final
                        THEN Capped(@ + 1, AgeCap) ELSE @]

(* The clock advances; no handler takes longer than MaxRunTime. *)
Advance ==
  /\ \A r \in Busy : run[r].age < MaxRunTime
  /\ job' = [j \in Jobs |-> Older(job[j])]
  /\ run' = [r \in Runs |-> IF r \in Busy THEN [run[r] EXCEPT !.age = @ + 1]
                                          ELSE run[r]]
  /\ sinceCheck' = Capped(sinceCheck + 1, StaleCheckInterval)
  /\ UNCHANGED <<inFlight, phase>>

Next ==
  \/ \E j \in Jobs : Enqueue(j) \/ DeleteJob(j)
  \/ \E r \in Runs : Resolve(r) \/ Reject(r)
  \/ Tick \/ Start \/ Stop \/ Stopped \/ Crash \/ Cleanup \/ Advance

Spec == Init /\ [][Next]_vars

(* The timer keeps firing, handlers settle, a stopped or crashed daemon is *)
(* started again and the clock runs.                                       *)
Fairness ==
  /\ WF_vars(Tick)
  /\ WF_vars(Start)
  /\ WF_vars(Stopped)
  /\ WF_vars(Advance)
  /\ \A r \in Runs : WF_vars(Resolve(r) \/ Reject(r))

FairSpec == Spec /\ Fairness

-----------------------------------------------------------------------------
(* Every variable has its type. *)
TypeOK ==
  /\ job \in [Jobs -> Row]
  /\ run \in [Runs -> [job : Jobs \cup {None}, age : Nat]]
  /\ inFlight \in Nat
  /\ sinceCheck \in Nat
  /\ phase \in {"down", "up", "stopping"}

(* inFlight counts exactly the handlers that run and never exceeds the     *)
(* limit, through failures, reclaimed claims, stops and crashes.           *)
SlotAccounting ==
  /\ inFlight = Cardinality(Busy)
  /\ inFlight <= MaxConcurrent

(* Two handlers never run for the same job at the same time.  It rests on  *)
(* MaxRunTime <= StaleThreshold: a slower handler loses its claim to       *)
(* reclaimStale() while it still runs.                                     *)
ExclusiveHandler ==
  \A r, s \in Busy : run[r].job = run[s].job => r = s

(* A handler runs only for a row that is claimed, or that was deleted      *)
(* under it: complete() then finds the row it was started for.             *)
RunOwnsClaim ==
  \A r \in Busy :
    LET row == job[run[r].job] IN
      \/ row.status = "gone"
      \/ row.status = "processing" /\ row.age <= run[r].age /\ row.age <= StaleThreshold

(* A retry budget is never exceeded, and a job dies only when its budget   *)
(* is used up.                                                             *)
RetryBudget ==
  \A j \in Jobs :
    /\ job[j].retries <= job[j].maxRetries
    /\ job[j].status = "dead" => job[j].retries = job[j].maxRetries

(* The queue keeps the promise of JobLedger as long as no handler outlives *)
(* its claim: a row moves only along the arcs of a job's life, so that a   *)
(* finished job never runs again, a claim costs a retry only by failing,   *)
(* and nothing but the deletion of its row ends a job unfinished.          *)
LedgerStatus(row) == IF row.status \in Exists THEN row.status ELSE "none"

Ledger == INSTANCE JobLedger WITH
  ledger <- [j \in Jobs |-> [status |-> LedgerStatus(job[j]),
                             left   |-> job[j].maxRetries - job[j].retries]]

KeepsLedger == Ledger!Spec

(* A tick leaves a due row behind only when every slot is taken. *)
NoIdleSlot ==
  [][(Tick \/ Start) /\ (\E j \in Due(job') : TRUE) => inFlight' = MaxConcurrent]_vars

(* From some time on, the daemon is neither stopped nor killed. *)
StaysUp == <>[][~ (Stop \/ Crash)]_vars

(* Every enqueued job is eventually completed, dead or deleted, whatever   *)
(* crashes happened before the daemon stayed up.                           *)
EveryJobSettles ==
  StaysUp => \A j \in Jobs :
    job[j].status \in {"pending", "processing"}
      ~> job[j].status \in Final \cup {"gone"}

(* A stop that was asked for ends: the drain does not wait for ever. *)
StopEnds == phase = "stopping" ~> phase = "down"

=============================================================================
