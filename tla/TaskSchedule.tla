---------------------------- MODULE TaskSchedule ----------------------------
(***************************************************************************)
(* Task schedules: ScheduleService (create, edit, pause, resume, delete,   *)
(* recovery of a space), the fire handler that turns a due job into a      *)
(* task, and the re-seeding of schedules when the daemon starts.           *)
(*                                                                         *)
(* Each operation is synchronous JavaScript, so nothing interleaves with   *)
(* it, but the process may die between two statements that do not share a  *)
(* transaction: those are the Crash... actions.  A tick claims a due job   *)
(* and runs its handler in one go; the job's own row is settled later, in  *)
(* a microtask, so a crash can fall between the two.                       *)
(*                                                                         *)
(* Times are waits relative to the clock: 0 for now and, as only runAt is  *)
(* compared strictly with now, for the past too; a past runAt is -1.       *)
(* The age of a claim and of a finished row is left out: stale claims are  *)
(* reclaimed and finished rows deleted at any time after they may be.      *)
(***************************************************************************)
EXTENDS Integers, FiniteSets, Functions

CONSTANTS
  Schedules,  \* schedule ids
  Spaces,     \* space ids
  Jobs,       \* row ids of fire jobs; an id nothing refers to is used again
  None,       \* SQL NULL
  MaxRetries, \* maxRetries of a fire job
  RetryWait,  \* the backoff before a retry
  Horizon     \* longest wait until a next run

ASSUME TaskScheduleAssumption ==
  /\ MaxRetries \in Nat
  /\ RetryWait \in Nat
  /\ Horizon \in Nat \ {0}
  /\ RetryWait <= Horizon
  /\ Spaces # {}
  /\ None \notin Jobs \cup Schedules \cup Int

VARIABLES
  sched,    \* the task_schedules table
  space,    \* the spaces table
  fire,     \* the rows of queue taskSchedule.fire in job_queue
  settling, \* settling[j]: how the handler of j ended, its row not yet told
  up,       \* the processor runs
  made      \* tasks created by s since the clock moved and, one-shot, ever

vars == <<sched, space, fire, settling, up, made>>

-----------------------------------------------------------------------------
Waits == 0 .. Horizon
Triggers == {"cron", "at"}

Schedule == [status  : {"unborn", "active", "paused", "completed", "deleted"},
             trigger : Triggers,
             space   : Spaces,
             goal    : BOOLEAN,
             runAt   : Waits \cup {-1, None},
             next    : Waits \cup {None},
             pending : Jobs \cup {None},
             dry     : BOOLEAN]  \* getNextRunAt() finds no next run any more

Space == [status : {"active", "archived", "deleted"},
          paused : BOOLEAN, stopped : BOOLEAN]

FireJob == [status   : {"none", "pending", "processing", "completed", "dead"},
            schedule : Schedules \cup {None},
            wait     : Waits,
            retries  : 0 .. MaxRetries,
            tasks    : 0 .. 2]

NoSchedule(status) ==
  [status |-> status, trigger |-> "cron", space |-> CHOOSE p \in Spaces : TRUE,
   goal |-> FALSE, runAt |-> None, next |-> None, pending |-> None, dry |-> FALSE]
NoJob == [status |-> "none", schedule |-> None, wait |-> 0, retries |-> 0, tasks |-> 0]
NewJob(s, wait) ==
  [status |-> "pending", schedule |-> s, wait |-> wait, retries |-> 0, tasks |-> 0]

(* Ids for new rows: no row, no schedule and no handler knows them.        *)
Free ==
  {j \in Jobs : /\ fire[j].status = "none"
                /\ settling[j] = "no"
                /\ \A s \in Schedules : sched[s].pending # j}

ActiveOrCompleted(s) == \* mutant: an edit or a fire takes a finished schedule
  sched[s].status \in {"active", "completed"}

Active(s) == sched[s].status = "active"
Cron(s) == sched[s].trigger = "cron"
Open(p) == space[p].status = "active" /\ ~ space[p].paused /\ ~ space[p].stopped

NextRunsInclusive(trigger, dry) == \* mutant: the next run may be now
  IF dry THEN {None} ELSE 0 .. Horizon

(* getNextRunAt() is strictly later than now, or null when the expression  *)
(* has no further run or cannot be evaluated; an "at" time only not past.  *)
NextRuns(trigger, dry) ==
  IF dry THEN {None} ELSE IF trigger = "cron" THEN 1 .. Horizon ELSE 0 .. Horizon

Expired(s) == ~ Cron(s) /\ sched[s].runAt = -1

NotPast(wait) == IF wait < 0 THEN 0 ELSE wait

(* deleteJob(), when the schedule has one linked. *)
Without(j) == IF j = None THEN fire ELSE [fire EXCEPT ![j] = NoJob]

(* One job is enqueued for each schedule of the injection's domain. *)
Enqueued(f, wait) ==
  [j \in Jobs |-> IF \E s \in DOMAIN f : f[s] = j
                    THEN LET s == CHOOSE s \in DOMAIN f : f[s] = j
                         IN  NewJob(s, wait[s])
                    ELSE fire[j]]

-----------------------------------------------------------------------------
Init ==
  /\ sched = [s \in Schedules |-> NoSchedule("unborn")]
  /\ space = [p \in Spaces |-> [status |-> "active", paused |-> FALSE, stopped |-> FALSE]]
  /\ fire = [j \in Jobs |-> NoJob]
  /\ settling = [j \in Jobs |-> "no"]
  /\ up = FALSE
  /\ made = [s \in Schedules |-> [instant |-> 0, ever |-> 0]]

(* createSchedule(), createGoalSchedule(): goals have cron check-ins, and  *)
(* a timing without a next run is refused.                                 *)
Create(s) ==
  /\ up
  /\ sched[s].status = "unborn"
  /\ \E p \in Spaces, j \in Free, trigger \in Triggers, goal \in BOOLEAN :
       \E next \in NextRuns(trigger, FALSE) :
         /\ space[p].status = "active"
         /\ goal => trigger = "cron"
         /\ sched' = [sched EXCEPT ![s] =
                        [status |-> "active", trigger |-> trigger, space |-> p,
                         goal |-> goal, next |-> next, pending |-> j, dry |-> FALSE,
                         runAt |-> IF trigger = "at" THEN next ELSE None]]
         /\ fire' = [fire EXCEPT ![j] = NewJob(s, next)]
  /\ UNCHANGED <<space, settling, up, made>>

(* updateSchedule() with new timing: an active schedule gets a new job.    *)
(* Again a timing without a next run is refused.                           *)
Edit(s) ==
  /\ up
  /\ Active(s)
  /\ \E j \in Free, next \in NextRuns(sched[s].trigger, FALSE) \cup ({sched[s].runAt} \ {None}) :
       /\ sched' = [sched EXCEPT ![s].runAt = IF Cron(s) THEN @ ELSE next,
                                 ![s].next = NotPast(next), ![s].pending = j,
                                 ![s].dry = FALSE]
       /\ fire' = [Without(sched[s].pending) EXCEPT ![j] = NewJob(s, NotPast(next))]
  /\ UNCHANGED <<space, settling, up, made>>

(* updateSchedule() of any other: the trigger is written, nothing enqueued. *)
EditIdle(s) ==
  /\ up
  /\ sched[s].status \in {"paused", "completed"}
  /\ \E next \in NextRuns(sched[s].trigger, FALSE) :
       sched' = [sched EXCEPT ![s].runAt = IF Cron(s) THEN @ ELSE next, ![s].dry = FALSE]
  /\ UNCHANGED <<space, fire, settling, up, made>>

(* pauseSchedule() *)
Pause(s) ==
  /\ up
  /\ Active(s)
  /\ fire' = Without(sched[s].pending)
  /\ sched' = [sched EXCEPT ![s].status = "paused", ![s].pending = None]
  /\ UNCHANGED <<space, settling, up, made>>

(* resumeSchedule(): a one-shot schedule whose time has passed is over; a  *)
(* recurring one without a next run stays paused, and the call throws.     *)
Resume(s) ==
  /\ up
  /\ sched[s].status = "paused"
  /\ \/ /\ Expired(s)
        /\ sched' = [sched EXCEPT ![s].status = "completed",
                                  ![s].next = None, ![s].pending = None]
        /\ UNCHANGED fire
     \/ /\ ~ Expired(s)
        /\ ~ sched[s].dry
        /\ \E j \in Free, next \in IF Cron(s) THEN NextRuns("cron", FALSE) ELSE {sched[s].runAt} :
             /\ sched' = [sched EXCEPT ![s].status = "active",
                                       ![s].next = next, ![s].pending = j]
             /\ fire' = [fire EXCEPT ![j] = NewJob(s, next)]
  /\ UNCHANGED <<space, settling, up, made>>

(* deleteSchedule() *)
Remove(s) ==
  /\ up
  /\ sched[s].status \in {"active", "paused", "completed"}
  /\ fire' = Without(sched[s].pending)
  /\ sched' = [sched EXCEPT ![s] = NoSchedule("deleted")]
  /\ UNCHANGED <<space, settling, up, made>>

-----------------------------------------------------------------------------
(* Spaces *)

(* pauseSpace(), stopSpace(), archiveSpace(). *)
CloseSpace(p) ==
  /\ up
  /\ space[p].status # "deleted"
  /\ \/ space' = [space EXCEPT ![p].paused = TRUE]
     \/ space' = [space EXCEPT ![p].stopped = TRUE]
     \/ space' = [space EXCEPT ![p].status = "archived"]
  /\ UNCHANGED <<sched, fire, settling, up, made>>

(* deleteSpace(): its schedules go with it, their jobs do not. *)
RemoveSpace(p) ==
  /\ up
  /\ space[p].status # "deleted"
  /\ space' = [space EXCEPT ![p].status = "deleted"]
  /\ sched' = [s \in Schedules |->
                 IF sched[s].space = p /\ sched[s].status # "unborn"
                   THEN NoSchedule("deleted") ELSE sched[s]]
  /\ UNCHANGED <<fire, settling, up, made>>

(* Active schedules without a job, which recoverSchedulesForSpace() takes  *)
(* one by one.                                                             *)
Stranded(p) ==
  {s \in Schedules : Active(s) /\ sched[s].space = p /\ sched[s].pending = None}

(* recoverSchedulesForSpace() has dealt with the schedules in S: one whose *)
(* expression has no next run is left as it is.                            *)
Recovered(S) ==
  LET T == {s \in S : ~ Expired(s) /\ ~ sched[s].dry} IN
  \E f \in Injection(T, Free), next \in [T -> Waits] :
    /\ \A s \in T : next[s] \in IF Cron(s) THEN NextRuns("cron", FALSE) ELSE {sched[s].runAt}
    /\ fire' = Enqueued(f, next)
    /\ sched' = [s \in Schedules |->
         IF s \in T THEN [sched[s] EXCEPT !.pending = f[s],
                                          !.next = IF Cron(s) THEN next[s] ELSE @]
         ELSE IF s \in S /\ Expired(s) THEN [sched[s] EXCEPT !.status = "completed"]
         ELSE sched[s]]

(* resumeSpace(), startSpace(): the flags, then the recovery hook. *)
OpenSpace(p) ==
  /\ space[p].status # "deleted"
  /\ \/ space[p].paused /\ space' = [space EXCEPT ![p].paused = FALSE]
     \/ space[p].stopped /\ space' = [space EXCEPT ![p].paused = FALSE, ![p].stopped = FALSE]

ReopenSpace(p) ==
  /\ up
  /\ OpenSpace(p)
  /\ Recovered(Stranded(p))
  /\ UNCHANGED <<settling, up, made>>

(* The hook throws at some schedule, and the error is only logged. *)
ReopenSpacePartly(p) ==
  /\ up
  /\ OpenSpace(p)
  /\ \E S \in SUBSET Stranded(p) : S # Stranded(p) /\ Recovered(S)
  /\ UNCHANGED <<settling, up, made>>

-----------------------------------------------------------------------------
(* The processor and the fire handler *)

Due(j) == up /\ fire[j].status = "pending" /\ fire[j].wait = 0 /\ settling[j] = "no"

(* A tick dequeues the job, and its handler ends as "ok" or "failed". *)
Claim(j, end) == Due(j) /\ settling' = [settling EXCEPT ![j] = end]
OnlyClaim(j) == fire' = [fire EXCEPT ![j].status = "processing"]

Target(j) == fire[j].schedule
LinkedAny(j) == TRUE \* mutant: neither fence nor compare-and-swap
Linked(j) == sched[Target(j)].pending = j

(* The schedule is gone, not active, or has moved on to another job. *)
FireSkips(j) ==
  /\ Claim(j, "ok")
  /\ \/ ~ Active(Target(j))
     \/ Open(sched[Target(j)].space) /\ ~ Linked(j)
  /\ OnlyClaim(j)
  /\ UNCHANGED <<sched, space, up, made>>

FireInClosedSpaceForgets(j) == \* mutant: the next run is cleared with the link
  /\ Claim(j, "ok")
  /\ Active(Target(j))
  /\ ~ Open(sched[Target(j)].space)
  /\ OnlyClaim(j)
  /\ IF ~ Linked(j) THEN UNCHANGED sched
     ELSE sched' = [sched EXCEPT ![Target(j)].next = None, ![Target(j)].pending = None]
  /\ UNCHANGED <<space, up, made>>

(* The space is closed: the schedule lets go of the job, and waits for the *)
(* space to be resumed, if without a next run then with neither.           *)
FireInClosedSpace(j) ==
  /\ Claim(j, "ok")
  /\ Active(Target(j))
  /\ ~ Open(sched[Target(j)].space)
  /\ OnlyClaim(j)
  /\ IF ~ Linked(j) THEN UNCHANGED sched
     ELSE \E next \in IF Cron(Target(j)) THEN NextRuns("cron", sched[Target(j)].dry)
                                         ELSE {sched[Target(j)].next} :
            sched' = [sched EXCEPT ![Target(j)].next = next,
                                   ![Target(j)].pending = None]
  /\ UNCHANGED <<space, up, made>>

(* The same, when that transaction throws: the error is only logged. *)
LettingGoFails(j) ==
  /\ Claim(j, "ok")
  /\ Active(Target(j))
  /\ ~ Open(sched[Target(j)].space)
  /\ Linked(j)
  /\ OnlyClaim(j)
  /\ UNCHANGED <<sched, space, up, made>>

Runs(j) ==
  /\ Active(Target(j))
  /\ Open(sched[Target(j)].space)
  /\ Linked(j)

Counted(n) == IF n < 2 THEN n + 1 ELSE n

(* The transaction: a task, unless the goal of the schedule is busy or not *)
(* active; and the next job, or the end of the schedule, one-shot or       *)
(* without a next run.  What the handler does after the commit may still   *)
(* throw.                                                                  *)
FireRuns(j) ==
  /\ Claim(j, "ok") \/ Claim(j, "failed")
  /\ Runs(j)
  /\ LET s == Target(j) IN
     \E task \in {1} \cup (IF sched[s].goal THEN {0} ELSE {}) :
       /\ made' = IF task = 0 THEN made
                  ELSE [made EXCEPT ![s].instant = Counted(@),
                                  ![s].ever = IF Cron(s) THEN @ ELSE Counted(@)]
       /\ \/ /\ ~ Cron(s) \/ sched[s].dry
             /\ sched' = [sched EXCEPT ![s].status = "completed",
                                       ![s].next = None, ![s].pending = None]
             /\ fire' = [fire EXCEPT ![j].status = "processing",
                                     ![j].tasks = IF task = 0 THEN @ ELSE Counted(@)]
          \/ /\ Cron(s) /\ ~ sched[s].dry
             /\ \E k \in Free, next \in NextRuns("cron", FALSE) :
                  /\ sched' = [sched EXCEPT ![s].next = next, ![s].pending = k]
                  /\ fire' = [fire EXCEPT ![j].status = "processing",
                                          ![j].tasks = IF task = 0 THEN @ ELSE Counted(@),
                                          ![k] = NewJob(s, next)]
  /\ UNCHANGED <<space, up>>

(* The same, when the transaction throws: all of it is rolled back. *)
FireThrows(j) ==
  /\ Claim(j, "failed")
  /\ Runs(j)
  /\ OnlyClaim(j)
  /\ UNCHANGED <<sched, space, up, made>>

Fire(j) ==
  \/ FireSkips(j) \/ FireInClosedSpace(j) \/ LettingGoFails(j)
  \/ FireRuns(j) \/ FireThrows(j)

SettledOneRetryTooMany(row, end) == \* mutant: <= for <
  IF row.status = "none" THEN row
  ELSE IF end = "ok"
    THEN IF row.status = "processing" THEN [row EXCEPT !.status = "completed"] ELSE row
  ELSE IF row.retries <= MaxRetries
    THEN [row EXCEPT !.status = "pending", !.retries = @ + 1, !.wait = RetryWait]
    ELSE [row EXCEPT !.status = "dead"]

(* complete() or fail() on the row, if it is still there. *)
Settled(row, end) ==
  IF row.status = "none" THEN row
  ELSE IF end = "ok"
    THEN IF row.status = "processing" THEN [row EXCEPT !.status = "completed"] ELSE row
  ELSE IF row.retries < MaxRetries
    THEN [row EXCEPT !.status = "pending", !.retries = @ + 1, !.wait = RetryWait]
    ELSE [row EXCEPT !.status = "dead"]

Settle(j) ==
  /\ settling[j] # "no"
  /\ fire' = [fire EXCEPT ![j] = Settled(@, settling[j])]
  /\ settling' = [settling EXCEPT ![j] = "no"]
  /\ UNCHANGED <<sched, space, up, made>>

ReclaimFinishes(j) == \* mutant: a stale claim counts as done
  /\ up
  /\ fire[j].status = "processing"
  /\ settling[j] = "no"
  /\ fire' = [fire EXCEPT ![j].status = "completed"]
  /\ UNCHANGED <<sched, space, settling, up, made>>

(* reclaimStale(): only a crash leaves a claim behind. *)
Reclaim(j) ==
  /\ up
  /\ fire[j].status = "processing"
  /\ settling[j] = "no"
  /\ fire' = [fire EXCEPT ![j].status = "pending"]
  /\ UNCHANGED <<sched, space, settling, up, made>>

(* cleanup() *)
Cleanup(j) ==
  /\ up
  /\ fire[j].status \in {"completed", "dead"}
  /\ fire' = [fire EXCEPT ![j] = NoJob]
  /\ UNCHANGED <<sched, space, settling, up, made>>

-----------------------------------------------------------------------------
(* Start, and the crashes *)

IsJobLostUnlessDead(j) == \* mutant: a dead job is thought to be in flight
  fire[j].status \in {"none", "completed"}

IsJobLost(j) == fire[j].status \in {"none", "completed", "dead"}

(* The schedules the daemon finds without a live job when it starts. *)
Lost ==
  {s \in Schedules :
     /\ Active(s)
     /\ \/ sched[s].pending # None /\ IsJobLost(sched[s].pending)
        \/ sched[s].pending = None /\ sched[s].next = 0}

(* max(nextRunAt, now), or now *)
ReseedWait(s) == IF sched[s].next = None THEN 0 ELSE sched[s].next

Start ==
  /\ ~ up
  /\ up' = TRUE
  /\ \E f \in Injection(Lost, Free) :
       /\ fire' = Enqueued(f, [s \in Lost |-> ReseedWait(s)])
       /\ sched' = [s \in Schedules |-> IF s \in Lost THEN [sched[s] EXCEPT !.pending = f[s]]
                                                      ELSE sched[s]]
  /\ UNCHANGED <<space, settling, made>>

(* The re-seeding is cut short, after a job was enqueued or linked: the    *)
(* process dies, or a statement throws and the daemon goes on.  Bound: an  *)
(* id is left for the next start.                                          *)
StartCutShort ==
  /\ ~ up
  /\ Cardinality(Free) > Cardinality(Lost)
  /\ up' \in BOOLEAN
  /\ \E s \in Lost, j \in Free :
       /\ fire' = [fire EXCEPT ![j] = NewJob(s, ReseedWait(s))]
       /\ sched' \in {sched, [sched EXCEPT ![s].pending = j]}
  /\ UNCHANGED <<space, settling, made>>

Dies ==
  /\ up
  /\ up' = FALSE
  /\ settling' = [j \in Jobs |-> "no"]
  /\ UNCHANGED made

Crash == Dies /\ UNCHANGED <<sched, space, fire>>

(* Between the claim of a job and the transaction of its handler. *)
CrashInFire(j) == Due(j) /\ Dies /\ OnlyClaim(j) /\ UNCHANGED <<sched, space>>

(* Pause or Remove: between deleteJob() and the update of the schedule. *)
CrashInPause(s) ==
  /\ Active(s)
  /\ sched[s].pending # None
  /\ Dies
  /\ fire' = Without(sched[s].pending)
  /\ UNCHANGED <<sched, space>>

(* Resume: between enqueue() and resumeIfPaused(). *)
CrashInResume(s) ==
  /\ sched[s].status = "paused"
  /\ ~ Expired(s)
  /\ ~ sched[s].dry
  /\ Dies
  /\ \E j \in Free, next \in IF Cron(s) THEN NextRuns("cron", FALSE) ELSE {sched[s].runAt} :
       fire' = [fire EXCEPT ![j] = NewJob(s, next)]
  /\ UNCHANGED <<sched, space>>

(* Reopening a space: between the flags and the end of the recovery. *)
CrashInReopen(p) ==
  /\ Dies
  /\ OpenSpace(p)
  /\ \E S \in SUBSET Stranded(p) : Recovered(S)

(* The last run the expression names has been, or it cannot be evaluated   *)
(* any more: until its timing is edited, getNextRunAt() returns null.      *)
RunsDry(s) ==
  /\ Cron(s)
  /\ sched[s].status \in {"active", "paused"}
  /\ ~ sched[s].dry
  /\ sched' = [sched EXCEPT ![s].dry = TRUE]
  /\ UNCHANGED <<space, fire, settling, up, made>>

Sooner(wait, least) ==
  IF wait = None THEN None ELSE IF wait > least THEN wait - 1 ELSE least

(* The clock advances. *)
Advance ==
  /\ \A j \in Jobs : settling[j] = "no"
  /\ sched' = [s \in Schedules |-> [sched[s] EXCEPT !.runAt = Sooner(@, -1),
                                                  !.next = Sooner(@, 0)]]
  /\ fire' = [j \in Jobs |-> [fire[j] EXCEPT !.wait = Sooner(@, 0)]]
  /\ made' = [s \in Schedules |-> [made[s] EXCEPT !.instant = 0]]
  /\ UNCHANGED <<space, settling, up>>

Operate ==
  \/ \E s \in Schedules :
       Create(s) \/ Edit(s) \/ EditIdle(s) \/ Pause(s) \/ Resume(s) \/ Remove(s)
  \/ \E p \in Spaces : CloseSpace(p) \/ RemoveSpace(p) \/ ReopenSpace(p)

Process ==
  \/ \E j \in Jobs : Fire(j) \/ Settle(j) \/ Reclaim(j) \/ Cleanup(j)
  \/ Start \/ Advance

Fault ==
  \/ \E s \in Schedules : CrashInPause(s) \/ CrashInResume(s) \/ RunsDry(s)
  \/ \E p \in Spaces : ReopenSpacePartly(p) \/ CrashInReopen(p)
  \/ \E j \in Jobs : CrashInFire(j)
  \/ StartCutShort \/ Crash

Next == Operate \/ Process \/ Fault

Spec == Init /\ [][Next]_vars

(* The poll timer, the microtask queue, the stale check and the clean-up   *)
(* job go on; a daemon that died is started again; the clock runs.         *)
Fairness ==
  /\ \A j \in Jobs : /\ WF_vars(Fire(j)) /\ WF_vars(Settle(j))
                     /\ WF_vars(Reclaim(j)) /\ WF_vars(Cleanup(j))
  /\ WF_vars(Start)
  /\ WF_vars(Advance)

FairSpec == Spec /\ Fairness

-----------------------------------------------------------------------------
(* Every variable has its type. *)
TypeOK ==
  /\ sched \in [Schedules -> Schedule]
  /\ space \in [Spaces -> Space]
  /\ fire \in [Jobs -> FireJob]
  /\ settling \in [Jobs -> {"no", "ok", "failed"}]
  /\ up \in BOOLEAN
  /\ made \in [Schedules -> [instant : 0 .. 2, ever : 0 .. 2]]

(* A fire job creates at most one task, however often it is retried,       *)
(* reclaimed after a crash or overtaken by a re-seeded job.                *)
OneTaskPerFire == \A j \in Jobs : fire[j].tasks <= 1

(* A one-shot schedule creates at most one task in its life, pauses, edits *)
(* and crashes included.                                                   *)
OneShotFiresOnce ==
  \A s \in Schedules : ~ Cron(s) => made[s].ever <= 1

(* A schedule never fires twice for the same point in time: of a job and   *)
(* its re-seeded double only one creates a task.                           *)
OneTaskPerInstant == \A s \in Schedules : made[s].instant <= 1

(* An active schedule is always within reach of the recovery: it names a   *)
(* job, which the start looks up, or a time at which it is due.  The one   *)
(* exception is a recurring schedule whose expression has no next run when *)
(* its job fires in a closed space: it stays active and names neither.     *)
NeverOutOfReach ==
  \A s \in Schedules :
    Active(s) => \/ sched[s].pending # None
                 \/ sched[s].next # None
                 \/ Cron(s) /\ sched[s].dry

(* The job of s is due some day, or its handler was cut off by a crash.    *)
Armed(s) ==
  /\ Active(s)
  /\ sched[s].pending # None
  /\ fire[sched[s].pending].status \in {"pending", "processing"}
  /\ settling[sched[s].pending] = "no"

(* After a start, every active schedule has a live job, or lost it while   *)
(* its space was closed and is not due yet, or never will be.              *)
StartRearms ==
  [][Start => \A s \in Schedules :
       Active(s)' => \/ Armed(s)'
                     \/ /\ sched'[s].pending = None
                        /\ IF sched'[s].next = None THEN sched'[s].dry
                                                    ELSE sched'[s].next > 0]_vars

(* The rows of the fire jobs move along the arcs of a job's life.          *)
Ledger == INSTANCE JobLedger WITH
  ledger <- [j \in Jobs |-> [status |-> fire[j].status,
                             left   |-> IF fire[j].status = "none" THEN 0
                                        ELSE MaxRetries - fire[j].retries]]

KeepsLedger == Ledger!Spec

(* Once nobody operates the schedules any more, an armed schedule of an    *)
(* open space fires: a task is created, unless its goal is busy, the       *)
(* transaction failed until the job was dead, or the daemon died (and then *)
(* StartRearms says what its next start does).                             *)
Calm == <>[][Process]_vars

ArmedFires ==
  Calm => \A s \in Schedules :
    up /\ Armed(s) /\ Open(sched[s].space)
      ~> \/ made[s].instant > 0
         \/ ~ up
         \/ ~ Active(s)
         \/ ~ Open(sched[s].space)
         \/ sched[s].goal
         \/ \E j \in Jobs : fire[j].status = "dead"

=============================================================================
