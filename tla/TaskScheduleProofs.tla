------------------------- MODULE TaskScheduleProofs -------------------------
(* What TLAPS proves about TaskSchedule, for every value of its constants. *)
EXTENDS TaskSchedule, TLAPS

(* A one-shot schedule has a time, an active schedule a next run, unless   *)
(* its expression has none any more: then it names no job either.          *)
Timing ==
  \A s \in Schedules :
    /\ Cron(s) <=> sched[s].runAt = None
    /\ sched[s].dry => Cron(s)
    /\ Active(s) /\ sched[s].next = None => sched[s].dry /\ sched[s].pending = None

(* A linked job, if its row is still there, belongs to the schedule that   *)
(* names it and has not created a task.                                    *)
Links ==
  /\ \A j \in Jobs : fire[j].status # "none" => fire[j].schedule \in Schedules
  /\ \A s \in Schedules : sched[s].pending # None =>
       \/ fire[sched[s].pending].status = "none"
       \/ fire[sched[s].pending].schedule = s /\ fire[sched[s].pending].tasks = 0

(* Handlers end before the processor does, and only the row of a job being *)
(* processed, or its absence, waits for the outcome.                       *)
Handled ==
  \A j \in Jobs : settling[j] # "no" => up /\ fire[j].status \in {"none", "processing"}

(* A one-shot schedule that has created its task is over. *)
Once ==
  \A s \in Schedules :
    /\ sched[s].status = "unborn" => made[s].ever = 0 /\ made[s].instant = 0
    /\ ~ Cron(s) => /\ made[s].instant <= made[s].ever
                    /\ made[s].ever <= 1
                    /\ sched[s].status # "completed" => made[s].ever = 0

(* A cron schedule that has fired at this instant waits for a later one.   *)
Spent ==
  \A s \in Schedules :
    Active(s) /\ Cron(s) /\ made[s].instant > 0 =>
      /\ sched[s].next > 0
      /\ sched[s].pending # None =>
           \/ fire[sched[s].pending].status = "none"
           \/ /\ fire[sched[s].pending].status = "pending"
              /\ fire[sched[s].pending].wait > 0

Inv ==
  /\ TypeOK
  /\ Timing
  /\ Links
  /\ OneTaskPerFire
  /\ Handled
  /\ Once
  /\ OneTaskPerInstant
  /\ Spent

-----------------------------------------------------------------------------
(* Operators *)

LEMMA NoScheduleIsSchedule ==
  ASSUME NEW status \in {"unborn", "deleted"}
  PROVE  /\ NoSchedule(status) \in Schedule
         /\ NoSchedule(status).status = status
         /\ NoSchedule(status).trigger = "cron"
         /\ NoSchedule(status).runAt = None
         /\ NoSchedule(status).next = None
         /\ NoSchedule(status).pending = None
         /\ NoSchedule(status).dry = FALSE
<1>1. (CHOOSE p \in Spaces : TRUE) \in Spaces
  BY TaskScheduleAssumption DEF TaskScheduleAssumption
<1> QED BY <1>1 DEF NoSchedule, Schedule, Triggers

LEMMA NewJobIsJob ==
  ASSUME NEW s \in Schedules, NEW wait \in Waits
  PROVE  /\ NewJob(s, wait) \in FireJob
         /\ NewJob(s, wait).status = "pending"
         /\ NewJob(s, wait).schedule = s
         /\ NewJob(s, wait).wait = wait
         /\ NewJob(s, wait).tasks = 0
BY TaskScheduleAssumption DEF NewJob, FireJob, Waits, TaskScheduleAssumption

LEMMA NoJobIsJob ==
  NoJob \in FireJob /\ NoJob.status = "none" /\ NoJob.tasks = 0
BY TaskScheduleAssumption DEF NoJob, FireJob, Waits, TaskScheduleAssumption

LEMMA NextRunsAreWaits ==
  ASSUME NEW trigger \in Triggers
  PROVE  /\ NextRuns(trigger, FALSE) \subseteq Waits
         /\ NextRuns(trigger, TRUE) = {None}
         /\ None \notin Waits
         /\ trigger = "cron" => \A next \in NextRuns(trigger, FALSE) : next > 0
BY TaskScheduleAssumption DEF NextRuns, Waits, TaskScheduleAssumption

LEMMA RowTypes ==
  ASSUME TypeOK
  PROVE  /\ \A s \in Schedules : /\ sched[s] \in Schedule
                               /\ sched[s].trigger \in Triggers
                               /\ sched[s].runAt \in Waits \cup {-1, None}
                               /\ sched[s].next \in Waits \cup {None}
                               /\ sched[s].pending \in Jobs \cup {None}
                               /\ sched[s].dry \in BOOLEAN
         /\ \A j \in Jobs : /\ fire[j] \in FireJob
                          /\ fire[j].wait \in Waits
                          /\ fire[j].tasks \in 0 .. 2
         /\ None \notin Jobs \cup Waits \cup {-1}
BY TaskScheduleAssumption DEF TypeOK, Schedule, FireJob, Waits, TaskScheduleAssumption

LEMMA ScheduleUpdate ==
  ASSUME NEW row \in Schedule,
         NEW status \in {"active", "paused", "completed"},
         NEW runAt \in Waits \cup {-1, None},
         NEW next \in Waits \cup {None}, NEW pending \in Jobs \cup {None},
         NEW dry \in BOOLEAN
  PROVE  [row EXCEPT !.status = status, !.runAt = runAt,
                     !.next = next, !.pending = pending, !.dry = dry] \in Schedule
BY DEF Schedule

(* Deleting a linked job changes no other row. *)
LEMMA WithoutRows ==
  ASSUME TypeOK, NEW j \in Jobs \cup {None}
  PROVE  /\ Without(j) \in [Jobs -> FireJob]
         /\ \A k \in Jobs : Without(j)[k] = IF k = j THEN NoJob ELSE fire[k]
BY NoJobIsJob, TaskScheduleAssumption DEF Without, TypeOK, TaskScheduleAssumption

(* Every schedule of the injection gets a job of its own, and only ids     *)
(* without a row are used.                                                 *)
LEMMA EnqueuedRows ==
  ASSUME TypeOK, NEW S \in SUBSET Schedules, NEW f \in Injection(S, Free),
         NEW wait \in [S -> Waits]
  PROVE  /\ Enqueued(f, wait) \in [Jobs -> FireJob]
         /\ \A s \in S : f[s] \in Free /\ Enqueued(f, wait)[f[s]] = NewJob(s, wait[s])
         /\ \A j \in Jobs \ Free : Enqueued(f, wait)[j] = fire[j]
         /\ \A j \in Jobs : \/ Enqueued(f, wait)[j] = fire[j]
                            \/ \E s \in S : j = f[s]
<1>1. f \in [S -> Free] /\ \A a, b \in S : f[a] = f[b] => a = b
  BY DEF Injection, IsInjective
<1>2. Free \subseteq Jobs
  BY DEF Free
<1>3. ASSUME NEW s \in S
      PROVE  Enqueued(f, wait)[f[s]] = NewJob(s, wait[s])
  <2>1. (CHOOSE r \in DOMAIN f : f[r] = f[s]) = s
    BY <1>1
  <2> QED BY <1>1, <1>2, <2>1 DEF Enqueued
<1>4. ASSUME NEW j \in Jobs, \A s \in S : f[s] # j
      PROVE  Enqueued(f, wait)[j] = fire[j]
  BY <1>1, <1>4 DEF Enqueued
<1>5. ASSUME NEW j \in Jobs
      PROVE  Enqueued(f, wait)[j] \in FireJob
  <2>1. CASE \E s \in S : f[s] = j
    BY <1>3, <2>1, NewJobIsJob
  <2>2. CASE \A s \in S : f[s] # j
    BY <1>4, <2>2 DEF TypeOK
  <2> QED BY <2>1, <2>2
<1>6. Enqueued(f, wait) \in [Jobs -> FireJob]
  BY <1>5 DEF Enqueued
<1> QED BY <1>1, <1>3, <1>4, <1>6

-----------------------------------------------------------------------------
(* Steps *)

LEMMA InitInv == Init => Inv
<1> SUFFICES ASSUME Init PROVE Inv
  OBVIOUS
<1>1. \A s \in Schedules : sched[s] = NoSchedule("unborn")
  BY DEF Init
<1>2. TypeOK
  <2>1. NoSchedule("unborn") \in Schedule
    BY NoScheduleIsSchedule
  <2>2. sched \in [Schedules -> Schedule]
    BY <2>1 DEF Init
  <2>3. fire \in [Jobs -> FireJob]
    BY NoJobIsJob DEF Init
  <2>4. space \in [Spaces -> Space] /\ settling \in [Jobs -> {"no", "ok", "failed"}]
    BY DEF Init, Space
  <2>5. up \in BOOLEAN
    BY DEF Init
  <2>6. made \in [Schedules -> [instant : 0 .. 2, ever : 0 .. 2]]
    <3>1. [instant |-> 0, ever |-> 0] \in [instant : 0 .. 2, ever : 0 .. 2]
      OBVIOUS
    <3> QED BY <3>1 DEF Init
  <2> QED BY <2>2, <2>3, <2>4, <2>5, <2>6 DEF TypeOK
<1> QED
  BY <1>1, <1>2, NoScheduleIsSchedule, NoJobIsJob
  DEF Init, Inv, Timing, Links, OneTaskPerFire, Handled, Once,
      OneTaskPerInstant, Spent, Cron, Active

LEMMA CreateInv ==
  ASSUME Inv, NEW s \in Schedules, Create(s)
  PROVE  Inv'
<1>1. PICK p \in Spaces, j \in Free, trigger \in Triggers, goal \in BOOLEAN :
        \E next \in NextRuns(trigger, FALSE) :
          /\ space[p].status = "active"
          /\ goal => trigger = "cron"
          /\ sched' = [sched EXCEPT ![s] =
                         [status |-> "active", trigger |-> trigger, space |-> p,
                          goal |-> goal, next |-> next, pending |-> j, dry |-> FALSE,
                          runAt |-> IF trigger = "at" THEN next ELSE None]]
          /\ fire' = [fire EXCEPT ![j] = NewJob(s, next)]
  BY Zenon DEF Create
<1>2. PICK next \in NextRuns(trigger, FALSE) :
        /\ sched' = [sched EXCEPT ![s] =
                       [status |-> "active", trigger |-> trigger, space |-> p,
                        goal |-> goal, next |-> next, pending |-> j, dry |-> FALSE,
                        runAt |-> IF trigger = "at" THEN next ELSE None]]
        /\ fire' = [fire EXCEPT ![j] = NewJob(s, next)]
  BY <1>1
<1>3. next \in Waits /\ next # None /\ (trigger = "cron" => next > 0)
  BY NextRunsAreWaits
<1>4. /\ j \in Jobs
      /\ fire[j].status = "none"
      /\ settling[j] = "no"
      /\ \A r \in Schedules : sched[r].pending # j
      /\ j # None
  BY TaskScheduleAssumption DEF Free, TaskScheduleAssumption
<1>5. UNCHANGED <<space, settling, up, made>> /\ sched[s].status = "unborn"
  BY DEF Create
<1>6. TypeOK'
  BY <1>2, <1>3, <1>4, <1>5, NewJobIsJob DEF Inv, TypeOK, Schedule
<1>7. Timing'
  BY <1>2, <1>3, <1>5 DEF Inv, TypeOK, Timing, Cron, Active, Triggers
<1>8. Links'
  BY <1>2, <1>3, <1>4, <1>5, NewJobIsJob DEF Inv, TypeOK, Links
<1>9. OneTaskPerFire' /\ Handled'
  BY <1>2, <1>3, <1>4, <1>5, NewJobIsJob DEF Inv, TypeOK, OneTaskPerFire, Handled
<1>10. Once'
  BY <1>2, <1>3, <1>5 DEF Inv, TypeOK, Once, Cron
<1>11. OneTaskPerInstant' /\ Spent'
  BY <1>2, <1>3, <1>4, <1>5, NewJobIsJob
  DEF Inv, TypeOK, OneTaskPerInstant, Spent, Once, Cron, Active
<1> QED BY <1>6, <1>7, <1>8, <1>9, <1>10, <1>11 DEF Inv

(* An active or paused schedule is linked to a new job, the old one gone.  *)
LEMMA RearmInv ==
  ASSUME Inv, NEW s \in Schedules, sched[s].status \in {"active", "paused"},
         NEW old \in {None, sched[s].pending}, NEW j \in Free, NEW wait \in Waits,
         NEW runAt \in Waits \cup {-1, None},
         Cron(s) <=> runAt = None, Cron(s) => wait > 0,
         sched' = [sched EXCEPT ![s].status = "active", ![s].runAt = runAt,
                                ![s].next = wait, ![s].pending = j, ![s].dry = FALSE],
         fire' = [Without(old) EXCEPT ![j] = NewJob(s, wait)],
         UNCHANGED <<space, settling, up, made>>
  PROVE  Inv'
<1>1. /\ j \in Jobs
      /\ fire[j].status = "none"
      /\ settling[j] = "no"
      /\ \A r \in Schedules : sched[r].pending # j
      /\ j # None
      /\ wait # None
  BY TaskScheduleAssumption DEF Free, Waits, TaskScheduleAssumption
<1>2. /\ Without(old) \in [Jobs -> FireJob]
      /\ \A k \in Jobs : Without(old)[k] = IF k = old THEN NoJob ELSE fire[k]
  BY WithoutRows DEF Inv, TypeOK, Schedule
<1>3. sched' \in [Schedules -> Schedule]
  <2>1. [sched[s] EXCEPT !.status = "active", !.runAt = runAt,
                         !.next = wait, !.pending = j, !.dry = FALSE] \in Schedule
    BY <1>1, RowTypes, ScheduleUpdate DEF Inv
  <2> QED BY <1>1, <2>1 DEF Inv, TypeOK
<1>4. fire' \in [Jobs -> FireJob]
  BY <1>1, <1>2, NewJobIsJob
<1>5. TypeOK'
  BY <1>3, <1>4 DEF Inv, TypeOK
<1>6. Timing'
  <2>1. \A r \in Schedules : r # s => sched'[r] = sched[r]
    BY DEF Inv, TypeOK
  <2>2. /\ sched'[s].trigger = sched[s].trigger
        /\ sched'[s].runAt = runAt
        /\ sched'[s].next = wait
        /\ sched'[s].dry = FALSE
    BY RowTypes DEF Inv, TypeOK, Schedule
  <2>3. Cron(s) <=> sched'[s].runAt = None
    BY <2>2
  <2>4. /\ Cron(s)' <=> Cron(s)
        /\ sched'[s].next # None /\ ~ sched'[s].dry
    BY <1>1, <2>2 DEF Cron
  <2>5. \A r \in Schedules : r # s =>
          /\ Cron(r)' <=> sched'[r].runAt = None
          /\ sched'[r].dry => Cron(r)'
          /\ Active(r)' /\ sched'[r].next = None => sched'[r].dry /\ sched'[r].pending = None
    <3> SUFFICES ASSUME NEW r \in Schedules, r # s
                 PROVE  /\ Cron(r)' <=> sched'[r].runAt = None
                        /\ sched'[r].dry => Cron(r)'
                        /\ Active(r)' /\ sched'[r].next = None
                             => sched'[r].dry /\ sched'[r].pending = None
      OBVIOUS
    <3>1. sched'[r] = sched[r]
      BY <2>1
    <3>2. /\ Cron(r) <=> sched[r].runAt = None
          /\ sched[r].dry => Cron(r)
          /\ Active(r) /\ sched[r].next = None => sched[r].dry /\ sched[r].pending = None
      BY DEF Inv, Timing
    <3> QED BY <3>1, <3>2 DEF Cron, Active
  <2> QED BY <2>3, <2>4, <2>5 DEF Timing
<1>7. Links'
  <2>1. /\ \A r \in Schedules : r # s => sched'[r].pending = sched[r].pending
        /\ sched'[s].pending = j
    BY RowTypes DEF Inv, TypeOK, Schedule
  <2>2. \A k \in Jobs : fire'[k] = IF k = j THEN NewJob(s, wait)
                                  ELSE IF k = old THEN NoJob ELSE fire[k]
    BY <1>1, <1>2
  <2>3. \A r \in Schedules : sched'[r].pending # None => sched'[r].pending \in Jobs
    BY <1>1, <2>1, RowTypes DEF Inv
  <2>4. /\ NewJob(s, wait).schedule = s
        /\ NewJob(s, wait).tasks = 0
        /\ NoJob.status = "none"
    BY NewJobIsJob, NoJobIsJob
  <2>5. \A k \in Jobs : fire'[k].status # "none" => fire'[k].schedule \in Schedules
    BY <2>2, <2>4 DEF Inv, Links
  <2>6. ASSUME NEW r \in Schedules, r # s, sched'[r].pending # None
        PROVE  \/ fire'[sched'[r].pending].status = "none"
               \/ fire'[sched'[r].pending].schedule = r /\ fire'[sched'[r].pending].tasks = 0
    <3> DEFINE k == sched[r].pending
    <3>1. sched'[r].pending = k /\ k \in Jobs /\ k # j /\ k # None
      BY <1>1, <2>1, <2>3, <2>6
    <3>2. fire'[k] = NoJob \/ fire'[k] = fire[k]
      BY <2>2, <3>1
    <3>3. fire[k].status = "none" \/ (fire[k].schedule = r /\ fire[k].tasks = 0)
      BY <2>6, <3>1 DEF Inv, Links
    <3>4. fire'[k].status = "none" \/ (fire'[k].schedule = r /\ fire'[k].tasks = 0)
      BY <2>4, <3>2, <3>3
    <3> QED BY <3>1, <3>4
  <2> QED BY <1>1, <2>1, <2>2, <2>4, <2>5, <2>6 DEF Links
<1>8. OneTaskPerFire'
  BY <1>1, <1>2, NewJobIsJob, NoJobIsJob, RowTypes, SMTT(30) DEF Inv, TypeOK, OneTaskPerFire
<1>9. Handled'
  BY <1>1, <1>2, NewJobIsJob, NoJobIsJob, RowTypes DEF Inv, TypeOK, Handled
<1>10. Once'
  BY <1>1, <1>2, NewJobIsJob, NoJobIsJob, RowTypes DEF Inv, TypeOK, Once, Cron
<1>11. OneTaskPerInstant'
  BY <1>1, <1>2, NewJobIsJob, NoJobIsJob, RowTypes DEF Inv, TypeOK, OneTaskPerInstant
<1>12. Spent'
  BY <1>1, <1>2, NewJobIsJob, NoJobIsJob, RowTypes DEF Inv, TypeOK, Spent, Once, Cron, Active
<1> QED
  BY <1>5, <1>6, <1>7, <1>8, <1>9, <1>10, <1>11, <1>12 DEF Inv

LEMMA EditInv ==
  ASSUME Inv, NEW s \in Schedules, Edit(s)
  PROVE  Inv'
<1>1. PICK j \in Free, next \in NextRuns(sched[s].trigger, FALSE) \cup ({sched[s].runAt} \ {None}) :
        /\ sched' = [sched EXCEPT ![s].runAt = IF Cron(s) THEN @ ELSE next,
                                  ![s].next = NotPast(next), ![s].pending = j,
                                  ![s].dry = FALSE]
        /\ fire' = [Without(sched[s].pending) EXCEPT ![j] = NewJob(s, NotPast(next))]
  BY DEF Edit
<1> DEFINE runAt == IF Cron(s) THEN sched[s].runAt ELSE next
<1>2. sched[s].status = "active" /\ UNCHANGED <<space, settling, up, made>>
  BY DEF Edit, Active
<1>3. sched[s].trigger \in Triggers /\ sched[s].runAt \in Waits \cup {-1, None}
  BY DEF Inv, TypeOK, Schedule
<1>4. /\ next \in Waits \cup {-1}
      /\ next # None
      /\ Cron(s) => next \in Waits /\ next > 0
  BY <1>3, NextRunsAreWaits, TaskScheduleAssumption
  DEF Inv, Timing, Cron, TaskScheduleAssumption
<1>5. NotPast(next) \in Waits /\ (Cron(s) => NotPast(next) > 0)
  BY <1>4, TaskScheduleAssumption DEF NotPast, Waits, TaskScheduleAssumption
<1>6. runAt \in Waits \cup {-1, None} /\ (Cron(s) <=> runAt = None)
  BY <1>3, <1>4 DEF Inv, Timing
<1>7. sched' = [sched EXCEPT ![s].status = "active", ![s].runAt = runAt,
                             ![s].next = NotPast(next), ![s].pending = j,
                             ![s].dry = FALSE]
  <2>1. sched[s] \in Schedule
    BY RowTypes DEF Inv
  <2>2. [sched[s] EXCEPT !.runAt = runAt, !.next = NotPast(next), !.pending = j,
                         !.dry = FALSE]
          = [sched[s] EXCEPT !.status = "active", !.runAt = runAt,
                             !.next = NotPast(next), !.pending = j, !.dry = FALSE]
    BY <1>2, <2>1 DEF Schedule
  <2> QED BY <1>1, <2>2 DEF Inv, TypeOK
<1> HIDE DEF runAt
<1> QED BY <1>1, <1>2, <1>5, <1>6, <1>7, RearmInv

LEMMA EditIdleInv ==
  ASSUME Inv, NEW s \in Schedules, EditIdle(s)
  PROVE  Inv'
<1>1. PICK next \in NextRuns(sched[s].trigger, FALSE) :
        sched' = [sched EXCEPT ![s].runAt = IF Cron(s) THEN @ ELSE next, ![s].dry = FALSE]
  BY DEF EditIdle
<1> DEFINE runAt == IF Cron(s) THEN sched[s].runAt ELSE next
<1>2. runAt \in Waits \cup {-1, None} /\ (Cron(s) <=> runAt = None)
  BY NextRunsAreWaits, RowTypes DEF Inv, Timing
<1>3. /\ sched[s].status \in {"paused", "completed"}
      /\ UNCHANGED <<space, fire, settling, up, made>>
  BY DEF EditIdle
<1>4. /\ sched' \in [Schedules -> Schedule]
      /\ sched' = [sched EXCEPT ![s].runAt = runAt, ![s].dry = FALSE]
  <2>1. [sched[s] EXCEPT !.runAt = runAt, !.dry = FALSE] \in Schedule
    BY <1>2, RowTypes DEF Inv, Schedule
  <2> QED BY <1>1, <2>1 DEF Inv, TypeOK
<1> HIDE DEF runAt
<1>5. TypeOK'
  BY <1>3, <1>4 DEF Inv, TypeOK
<1>6. Timing'
  BY <1>2, <1>3, <1>4, RowTypes DEF Inv, TypeOK, Timing, Cron, Active
<1>7. Links'
  BY <1>2, <1>3, <1>4, RowTypes DEF Inv, TypeOK, Links
<1>8. OneTaskPerFire'
  BY <1>2, <1>3, <1>4, RowTypes DEF Inv, TypeOK, OneTaskPerFire
<1>9. Handled'
  BY <1>2, <1>3, <1>4, RowTypes DEF Inv, TypeOK, Handled
<1>10. Once'
  BY <1>2, <1>3, <1>4, RowTypes DEF Inv, TypeOK, Once, Cron
<1>11. OneTaskPerInstant'
  BY <1>2, <1>3, <1>4, RowTypes DEF Inv, TypeOK, OneTaskPerInstant
<1>12. Spent'
  BY <1>2, <1>3, <1>4, RowTypes DEF Inv, TypeOK, Spent, Once, Cron, Active
<1> QED
  BY <1>5, <1>6, <1>7, <1>8, <1>9, <1>10, <1>11, <1>12 DEF Inv

LEMMA PauseInv ==
  ASSUME Inv, NEW s \in Schedules, Pause(s)
  PROVE  Inv'
<1>1. /\ sched[s].status = "active"
      /\ fire' = Without(sched[s].pending)
      /\ sched' = [sched EXCEPT ![s].status = "paused", ![s].pending = None]
      /\ UNCHANGED <<space, settling, up, made>>
  BY DEF Pause, Active
<1>2. /\ Without(sched[s].pending) \in [Jobs -> FireJob]
      /\ \A k \in Jobs : Without(sched[s].pending)[k] =
                           IF k = sched[s].pending THEN NoJob ELSE fire[k]
  BY WithoutRows DEF Inv, TypeOK, Schedule
<1>3. sched' \in [Schedules -> Schedule]
  <2>1. [sched[s] EXCEPT !.status = "paused", !.pending = None] \in Schedule
    BY RowTypes DEF Inv, Schedule
  <2> QED BY <1>1, <2>1 DEF Inv, TypeOK
<1>4. TypeOK'
  BY <1>1, <1>2, <1>3 DEF Inv, TypeOK
<1>5. Timing'
  BY <1>1, <1>2, NoJobIsJob, RowTypes DEF Inv, TypeOK, Timing, Cron, Active
<1>6. Links'
  BY <1>1, <1>2, NoJobIsJob, RowTypes, SMTT(30) DEF Inv, TypeOK, Links
<1>7. OneTaskPerFire'
  BY <1>1, <1>2, NoJobIsJob, RowTypes DEF Inv, TypeOK, OneTaskPerFire
<1>8. Handled'
  BY <1>1, <1>2, NoJobIsJob, RowTypes DEF Inv, TypeOK, Handled
<1>9. Once'
  BY <1>1, <1>2, NoJobIsJob, RowTypes DEF Inv, TypeOK, Once, Cron
<1>10. OneTaskPerInstant'
  BY <1>1, <1>2, NoJobIsJob, RowTypes DEF Inv, TypeOK, OneTaskPerInstant
<1>11. Spent'
  BY <1>1, <1>2, NoJobIsJob, RowTypes DEF Inv, TypeOK, Spent, Once, Cron, Active
<1> QED
  BY <1>4, <1>5, <1>6, <1>7, <1>8, <1>9, <1>10, <1>11 DEF Inv

LEMMA ResumeInv ==
  ASSUME Inv, NEW s \in Schedules, Resume(s)
  PROVE  Inv'
<1>1. sched[s].status = "paused" /\ UNCHANGED <<space, settling, up, made>>
  BY DEF Resume
<1>2. CASE /\ Expired(s)
           /\ sched' = [sched EXCEPT ![s].status = "completed",
                                     ![s].next = None, ![s].pending = None]
           /\ UNCHANGED fire
  <2>1. sched' \in [Schedules -> Schedule]
    <3>1. [sched[s] EXCEPT !.status = "completed", !.next = None, !.pending = None]
            \in Schedule
      BY RowTypes DEF Inv, Schedule
    <3> QED BY <1>2, <3>1 DEF Inv, TypeOK
  <2>2. TypeOK'
    BY <1>1, <1>2, <2>1 DEF Inv, TypeOK
  <2>3. Timing'
      BY <1>1, <1>2 DEF Inv, TypeOK, Timing, Cron, Active
  <2>4. Links'
      BY <1>1, <1>2 DEF Inv, TypeOK, Links
  <2>5. OneTaskPerFire'
      BY <1>1, <1>2 DEF Inv, TypeOK, OneTaskPerFire
  <2>6. Handled'
      BY <1>1, <1>2 DEF Inv, TypeOK, Handled
  <2>7. Once'
      BY <1>1, <1>2 DEF Inv, TypeOK, Once, Cron
  <2>8. OneTaskPerInstant'
      BY <1>1, <1>2 DEF Inv, TypeOK, OneTaskPerInstant
  <2>9. Spent'
      BY <1>1, <1>2 DEF Inv, TypeOK, Spent, Once, Cron, Active
  <2> QED
    BY <2>2, <2>3, <2>4, <2>5, <2>6, <2>7, <2>8, <2>9 DEF Inv
<1>3. ASSUME ~ Expired(s), ~ sched[s].dry, NEW j \in Free,
             NEW next \in IF Cron(s) THEN NextRuns("cron", FALSE) ELSE {sched[s].runAt},
             sched' = [sched EXCEPT ![s].status = "active",
                                    ![s].next = next, ![s].pending = j],
             fire' = [fire EXCEPT ![j] = NewJob(s, next)]
      PROVE  Inv'
  <2>1. sched[s].trigger \in Triggers /\ sched[s].runAt \in Waits \cup {-1, None}
    BY DEF Inv, TypeOK, Schedule
  <2>2. next \in Waits /\ (Cron(s) => next > 0)
    BY <1>3, <2>1, NextRunsAreWaits DEF Inv, Timing, Expired, Cron
  <2>3. Without(None) = fire
    BY DEF Without
  <2>4. sched' = [sched EXCEPT ![s].status = "active", ![s].runAt = sched[s].runAt,
                               ![s].next = next, ![s].pending = j, ![s].dry = FALSE]
    <3>1. sched[s] \in Schedule /\ sched[s].dry = FALSE
      BY <1>3, RowTypes DEF Inv
    <3>2. [sched[s] EXCEPT !.status = "active", !.next = next, !.pending = j]
            = [sched[s] EXCEPT !.status = "active", !.runAt = sched[s].runAt,
                               !.next = next, !.pending = j, !.dry = FALSE]
      BY <3>1 DEF Schedule
    <3> QED BY <1>3, <3>2 DEF Inv, TypeOK
  <2>5. Cron(s) <=> sched[s].runAt = None
    BY DEF Inv, Timing
  <2>6. fire' = [Without(None) EXCEPT ![j] = NewJob(s, next)]
    BY <1>3, <2>3
  <2> QED BY <1>1, <2>1, <2>2, <2>4, <2>5, <2>6, RearmInv
<1> QED BY <1>2, <1>3 DEF Resume

LEMMA RemoveInv ==
  ASSUME Inv, NEW s \in Schedules, Remove(s)
  PROVE  Inv'
<1>1. /\ fire' = Without(sched[s].pending)
      /\ sched' = [sched EXCEPT ![s] = NoSchedule("deleted")]
      /\ UNCHANGED <<space, settling, up, made>>
  BY DEF Remove
<1>2. /\ Without(sched[s].pending) \in [Jobs -> FireJob]
      /\ \A k \in Jobs : Without(sched[s].pending)[k] =
                           IF k = sched[s].pending THEN NoJob ELSE fire[k]
  BY WithoutRows DEF Inv, TypeOK, Schedule
<1>3. TypeOK'
  BY <1>1, <1>2, NoScheduleIsSchedule DEF Inv, TypeOK
<1>4. Timing'
  BY <1>1, <1>2, NoJobIsJob, NoScheduleIsSchedule, RowTypes DEF Inv, TypeOK, Timing, Cron, Active
<1>5. Links'
  <2>1. \A r \in Schedules : sched'[r] = IF r = s THEN NoSchedule("deleted") ELSE sched[r]
    BY <1>1 DEF Inv, TypeOK
  <2>2. \A j \in Jobs : fire'[j] = IF j = sched[s].pending THEN NoJob ELSE fire[j]
    BY <1>1, <1>2
  <2>3. \A r \in Schedules : sched'[r].pending # None => sched'[r] = sched[r]
    BY <2>1, NoScheduleIsSchedule
  <2> QED BY <2>2, <2>3, NoJobIsJob, RowTypes DEF Inv, Links
<1>6. OneTaskPerFire'
  BY <1>1, <1>2, NoJobIsJob, NoScheduleIsSchedule, RowTypes DEF Inv, TypeOK, OneTaskPerFire
<1>7. Handled'
  BY <1>1, <1>2, NoJobIsJob, NoScheduleIsSchedule, RowTypes DEF Inv, TypeOK, Handled
<1>8. Once'
  BY <1>1, <1>2, NoJobIsJob, NoScheduleIsSchedule, RowTypes DEF Inv, TypeOK, Once, Cron
<1>9. OneTaskPerInstant'
  BY <1>1, <1>2, NoJobIsJob, NoScheduleIsSchedule, RowTypes DEF Inv, TypeOK, OneTaskPerInstant
<1>10. Spent'
  <2>1. /\ \A r \in Schedules : r # s => sched'[r] = sched[r]
        /\ ~ Active(s)'
    BY <1>1, NoScheduleIsSchedule DEF Inv, TypeOK, Active
  <2> QED BY <1>1, <1>2, <2>1, NoJobIsJob, RowTypes DEF Inv, Spent, Cron, Active
<1> QED
  BY <1>3, <1>4, <1>5, <1>6, <1>7, <1>8, <1>9, <1>10 DEF Inv

(* Flags and status of a space, one by one.                                *)
LEMMA SpaceFields ==
  ASSUME NEW x \in Space, NEW b \in BOOLEAN
  PROVE  /\ [x EXCEPT !.paused = b] \in Space
         /\ [x EXCEPT !.stopped = b] \in Space
         /\ [x EXCEPT !.paused = b, !.stopped = b] \in Space
         /\ [x EXCEPT !.status = "archived"] \in Space
BY DEF Space

LEMMA CloseSpaceInv ==
  ASSUME Inv, NEW p \in Spaces, CloseSpace(p)
  PROVE  Inv'
<1>1. UNCHANGED <<sched, fire, settling, up, made>>
  BY DEF CloseSpace
<1>2. space' \in [Spaces -> Space]
  <2>1. space \in [Spaces -> Space]
    BY DEF Inv, TypeOK
  <2>2. space[p] \in Space
    BY <2>1
  <2> QED BY <2>1, <2>2, SpaceFields DEF CloseSpace
<1>3. TypeOK'
  BY <1>1, <1>2 DEF Inv, TypeOK
<1>4. Timing'
  BY <1>1 DEF Inv, TypeOK, Timing, Cron, Active
<1>5. Links'
  BY <1>1 DEF Inv, TypeOK, Links
<1>6. OneTaskPerFire'
  BY <1>1 DEF Inv, TypeOK, OneTaskPerFire
<1>7. Handled'
  BY <1>1 DEF Inv, TypeOK, Handled
<1>8. Once'
  BY <1>1 DEF Inv, TypeOK, Once, Cron
<1>9. OneTaskPerInstant'
  BY <1>1 DEF Inv, TypeOK, OneTaskPerInstant
<1>10. Spent'
  BY <1>1 DEF Inv, TypeOK, Spent, Once, Cron, Active
<1> QED
  BY <1>3, <1>4, <1>5, <1>6, <1>7, <1>8, <1>9, <1>10 DEF Inv

LEMMA RemoveSpaceInv ==
  ASSUME Inv, NEW p \in Spaces, RemoveSpace(p)
  PROVE  Inv'
<1>1. /\ space' = [space EXCEPT ![p].status = "deleted"]
      /\ sched' = [s \in Schedules |->
                     IF sched[s].space = p /\ sched[s].status # "unborn"
                       THEN NoSchedule("deleted") ELSE sched[s]]
      /\ UNCHANGED <<fire, settling, up, made>>
  BY DEF RemoveSpace
<1>2. TypeOK'
  <2>1. space' \in [Spaces -> Space]
    BY <1>1 DEF Inv, TypeOK, Space
  <2>2. sched' \in [Schedules -> Schedule]
    BY <1>1, NoScheduleIsSchedule DEF Inv, TypeOK
  <2> QED BY <1>1, <2>1, <2>2 DEF Inv, TypeOK
<1>3. Timing'
  BY <1>1, NoScheduleIsSchedule DEF Inv, TypeOK, Timing, Cron, Active
<1>4. Links'
  BY <1>1, NoScheduleIsSchedule DEF Inv, TypeOK, Links
<1>5. OneTaskPerFire'
  BY <1>1, NoScheduleIsSchedule DEF Inv, TypeOK, OneTaskPerFire
<1>6. Handled'
  BY <1>1, NoScheduleIsSchedule DEF Inv, TypeOK, Handled
<1>7. Once'
  BY <1>1, NoScheduleIsSchedule DEF Inv, TypeOK, Once, Cron
<1>8. OneTaskPerInstant'
  BY <1>1, NoScheduleIsSchedule DEF Inv, TypeOK, OneTaskPerInstant
<1>9. Spent'
  BY <1>1, NoScheduleIsSchedule DEF Inv, TypeOK, Spent, Once, Cron, Active
<1> QED
  BY <1>2, <1>3, <1>4, <1>5, <1>6, <1>7, <1>8, <1>9 DEF Inv

(* Schedules are linked to a new job each, others may be over.             *)
LEMMA RelinkStep ==
  ASSUME Inv, NEW T \in SUBSET Schedules, NEW f \in Injection(T, Free),
         NEW wait \in [T -> Waits],
         fire' = Enqueued(f, wait),
         sched' \in [Schedules -> Schedule],
         \A s \in T : /\ sched[s].status = "active"
                      /\ sched[s].trigger = "cron" /\ made[s].instant > 0 => wait[s] > 0
                      /\ sched'[s].status = "active"
                      /\ sched'[s].trigger = sched[s].trigger
                      /\ sched'[s].runAt = sched[s].runAt
                      /\ sched'[s].pending = f[s]
                      /\ sched'[s].dry = sched[s].dry
                      /\ sched'[s].next # None
                      /\ sched'[s].next = sched[s].next \/ sched'[s].next = wait[s],
         \A s \in Schedules \ T :
           \/ sched'[s] = sched[s]
           \/ /\ sched[s].trigger # "cron"
              /\ sched'[s].status = "completed"
              /\ sched'[s].trigger = sched[s].trigger
              /\ sched'[s].runAt = sched[s].runAt
              /\ sched'[s].dry = sched[s].dry
              /\ sched'[s].pending = sched[s].pending,
         UNCHANGED made
  PROVE  /\ fire' \in [Jobs -> FireJob]
         /\ Timing' /\ Links' /\ OneTaskPerFire'
         /\ Once' /\ OneTaskPerInstant' /\ Spent'
         /\ \A j \in Jobs : settling[j] # "no" => fire'[j] = fire[j]
<1>1. /\ fire' \in [Jobs -> FireJob]
      /\ \A s \in T : f[s] \in Free /\ fire'[f[s]] = NewJob(s, wait[s])
      /\ \A j \in Jobs \ Free : fire'[j] = fire[j]
      /\ \A j \in Jobs : fire'[j] = fire[j] \/ \E s \in T : j = f[s]
  BY EnqueuedRows DEF Inv
<1>2. \A j \in Free : /\ j \in Jobs
                      /\ fire[j].status = "none"
                      /\ settling[j] = "no"
                      /\ \A r \in Schedules : sched[r].pending # j
  BY DEF Free
<1>3. \A s \in T : wait[s] \in Waits /\ wait[s] # None
  BY TaskScheduleAssumption DEF Waits, TaskScheduleAssumption
<1>6. Timing'
  BY <1>3, RowTypes DEF Inv, Timing, Cron, Active
<1>7. Links'
  <2>1. ASSUME NEW j \in Jobs, fire'[j].status # "none"
        PROVE  fire'[j].schedule \in Schedules
    BY <1>1, <2>1, NewJobIsJob DEF Inv, Links
  <2>2. ASSUME NEW s \in Schedules, sched'[s].pending # None
        PROVE  \/ fire'[sched'[s].pending].status = "none"
               \/ /\ fire'[sched'[s].pending].schedule = s
                  /\ fire'[sched'[s].pending].tasks = 0
    <3>1. CASE s \in T
      BY <1>1, <1>3, <3>1, NewJobIsJob
    <3>2. CASE s \notin T
      <4>1. sched'[s].pending = sched[s].pending /\ sched[s].pending \in Jobs \ Free
        BY <1>2, <2>2, <3>2, RowTypes DEF Inv
      <4> QED BY <1>1, <2>2, <4>1 DEF Inv, Links
    <3> QED BY <3>1, <3>2
  <2> QED BY <2>1, <2>2 DEF Links
<1>8. OneTaskPerFire'
  BY <1>1, <1>3, NewJobIsJob DEF Inv, OneTaskPerFire
<1>9. Once' /\ OneTaskPerInstant'
  BY RowTypes DEF Inv, Once, OneTaskPerInstant, Cron, Active
<1>10. Spent'
  <2> SUFFICES ASSUME NEW s \in Schedules, sched'[s].status = "active",
                      sched'[s].trigger = "cron", made[s].instant > 0
               PROVE  /\ sched'[s].next > 0
                      /\ sched'[s].pending # None =>
                           \/ fire'[sched'[s].pending].status = "none"
                           \/ /\ fire'[sched'[s].pending].status = "pending"
                              /\ fire'[sched'[s].pending].wait > 0
    BY DEF Spent, Active, Cron
  <2>1. CASE s \in T
    BY <1>1, <1>3, <2>1, NewJobIsJob DEF Inv, Spent, Active, Cron
  <2>2. CASE s \notin T
    <3>1. sched'[s] = sched[s]
      BY <2>2
    <3>2. sched[s].pending # None => fire'[sched[s].pending] = fire[sched[s].pending]
      BY <1>1, <1>2, RowTypes DEF Inv
    <3> QED BY <3>1, <3>2 DEF Inv, Spent, Active, Cron
  <2> QED BY <2>1, <2>2
<1> QED BY <1>1, <1>2, <1>6, <1>7, <1>8, <1>9, <1>10

LEMMA RecoveredStep ==
  ASSUME Inv, NEW S \in SUBSET Schedules, \A s \in S : Active(s),
         Recovered(S), UNCHANGED made
  PROVE  /\ sched' \in [Schedules -> Schedule] /\ fire' \in [Jobs -> FireJob]
         /\ Timing' /\ Links' /\ OneTaskPerFire'
         /\ Once' /\ OneTaskPerInstant' /\ Spent'
         /\ \A j \in Jobs : settling[j] # "no" => fire'[j] = fire[j]
<1> DEFINE T == {s \in S : ~ Expired(s) /\ ~ sched[s].dry}
<1>1. PICK f \in Injection(T, Free), next \in [T -> Waits] :
        /\ \A s \in T : next[s] \in IF Cron(s) THEN NextRuns("cron", FALSE) ELSE {sched[s].runAt}
        /\ fire' = Enqueued(f, next)
        /\ sched' = [s \in Schedules |->
             IF s \in T THEN [sched[s] EXCEPT !.pending = f[s],
                                              !.next = IF Cron(s) THEN next[s] ELSE @]
             ELSE IF s \in S /\ Expired(s) THEN [sched[s] EXCEPT !.status = "completed"]
             ELSE sched[s]]
  BY DEF Recovered
<1>4. \A s \in T : /\ sched[s].status = "active"
                   /\ next[s] \in Waits
                   /\ sched[s].trigger = "cron" => next[s] > 0
                   /\ next[s] # None /\ sched[s].next # None
  BY <1>1, NextRunsAreWaits DEF Inv, Timing, Triggers, Active, Cron
<1>5. \A s \in T : /\ sched'[s].status = "active"
                   /\ sched'[s].trigger = sched[s].trigger
                   /\ sched'[s].runAt = sched[s].runAt
                   /\ sched'[s].dry = sched[s].dry
                   /\ sched'[s].pending = f[s]
                   /\ sched'[s].next # None /\ (sched'[s].next = sched[s].next \/ sched'[s].next = next[s])
                   /\ sched'[s] \in Schedule
  <2> SUFFICES ASSUME NEW s \in T
               PROVE  /\ sched'[s].status = "active"
                      /\ sched'[s].trigger = sched[s].trigger
                      /\ sched'[s].runAt = sched[s].runAt
                      /\ sched'[s].dry = sched[s].dry
                      /\ sched'[s].pending = f[s]
                      /\ sched'[s].next # None /\ (sched'[s].next = sched[s].next \/ sched'[s].next = next[s])
                      /\ sched'[s] \in Schedule
    OBVIOUS
  <2>1. sched'[s] = [sched[s] EXCEPT !.pending = f[s],
                                     !.next = IF Cron(s) THEN next[s] ELSE @]
    BY <1>1
  <2>2. sched[s] \in Schedule /\ f[s] \in Jobs
    BY RowTypes DEF Inv, Injection, Free
  <2> QED BY <1>4, <2>1, <2>2 DEF Schedule
<1>6. \A s \in Schedules \ T :
        \/ sched'[s] = sched[s]
        \/ /\ sched[s].trigger # "cron"
           /\ sched'[s].status = "completed"
           /\ sched'[s].trigger = sched[s].trigger
           /\ sched'[s].runAt = sched[s].runAt
           /\ sched'[s].dry = sched[s].dry
           /\ sched'[s].pending = sched[s].pending
           /\ sched'[s] \in Schedule
  <2> SUFFICES ASSUME NEW s \in Schedules \ T
               PROVE  \/ sched'[s] = sched[s]
                      \/ /\ sched[s].trigger # "cron"
                         /\ sched'[s].status = "completed"
                         /\ sched'[s].trigger = sched[s].trigger
                         /\ sched'[s].runAt = sched[s].runAt
                         /\ sched'[s].dry = sched[s].dry
                         /\ sched'[s].pending = sched[s].pending
                         /\ sched'[s] \in Schedule
    OBVIOUS
  <2>1. CASE s \notin S \/ ~ Expired(s)
    BY <1>1, <2>1
  <2>2. CASE s \in S /\ Expired(s)
    <3>1. sched[s].trigger # "cron"
      BY <2>2 DEF Expired, Cron
    <3>2. sched'[s] = [sched[s] EXCEPT !.status = "completed"]
      BY <1>1, <2>2
    <3>3. sched[s] \in Schedule
      BY RowTypes DEF Inv
    <3> QED BY <3>1, <3>2, <3>3 DEF Schedule
  <2> QED BY <2>1, <2>2
<1>7. sched' \in [Schedules -> Schedule]
  <2>1. \A s \in Schedules : sched'[s] \in Schedule
    BY <1>5, <1>6, RowTypes DEF Inv
  <2> QED BY <1>1, <2>1
<1>8. T \in SUBSET Schedules /\ fire' = Enqueued(f, next)
  BY <1>1
<1> HIDE DEF T
<1> QED BY <1>4, <1>5, <1>6, <1>7, <1>8, RelinkStep

LEMMA OpenSpaceType ==
  ASSUME Inv, NEW p \in Spaces, OpenSpace(p)
  PROVE  space' \in [Spaces -> Space]
<1>1. space \in [Spaces -> Space]
  BY DEF Inv, TypeOK
<1>2. space[p] \in Space
  BY <1>1
<1> QED BY <1>1, <1>2, SpaceFields DEF OpenSpace

LEMMA ReopenSpaceInv ==
  ASSUME Inv, NEW p \in Spaces, ReopenSpace(p) \/ ReopenSpacePartly(p)
  PROVE  Inv'
<1>1. PICK S \in SUBSET Schedules : Recovered(S) /\ \A s \in S : Active(s)
  <2>1. Stranded(p) \in SUBSET Schedules /\ \A s \in Stranded(p) : Active(s)
    BY DEF Stranded
  <2> QED BY <2>1 DEF ReopenSpace, ReopenSpacePartly
<1>2. UNCHANGED <<settling, up, made>> /\ OpenSpace(p)
  BY DEF ReopenSpace, ReopenSpacePartly
<1>3. /\ sched' \in [Schedules -> Schedule] /\ fire' \in [Jobs -> FireJob]
      /\ Timing' /\ Links' /\ OneTaskPerFire'
      /\ Once' /\ OneTaskPerInstant' /\ Spent'
      /\ \A j \in Jobs : settling[j] # "no" => fire'[j] = fire[j]
  BY <1>1, <1>2, RecoveredStep
<1>4. TypeOK'
  BY <1>2, <1>3, OpenSpaceType DEF Inv, TypeOK
<1>5. Handled'
  BY <1>2, <1>3 DEF Inv, Handled
<1> QED BY <1>3, <1>4, <1>5 DEF Inv

LEMMA DeadProcess ==
  ASSUME Inv, Dies
  PROVE  /\ settling' \in [Jobs -> {"no", "ok", "failed"}]
         /\ up' \in BOOLEAN
         /\ Handled'
         /\ made' = made
<1>1. settling' = [j \in Jobs |-> "no"] /\ up' = FALSE /\ made' = made
  BY DEF Dies
<1>2. up' \in BOOLEAN
  BY <1>1
<1> QED BY <1>1, <1>2 DEF Handled

LEMMA CrashInReopenInv ==
  ASSUME Inv, NEW p \in Spaces, CrashInReopen(p)
  PROVE  Inv'
<1>1. PICK S \in SUBSET Stranded(p) : Recovered(S)
  BY DEF CrashInReopen
<1>2. S \in SUBSET Schedules /\ \A s \in S : Active(s)
  BY DEF Stranded
<1>3. Dies /\ OpenSpace(p) /\ UNCHANGED made
  BY DEF CrashInReopen, Dies
<1>4. /\ sched' \in [Schedules -> Schedule] /\ fire' \in [Jobs -> FireJob]
      /\ Timing' /\ Links' /\ OneTaskPerFire'
      /\ Once' /\ OneTaskPerInstant' /\ Spent'
  BY <1>1, <1>2, <1>3, RecoveredStep
<1>5. TypeOK'
  BY <1>3, <1>4, OpenSpaceType, DeadProcess DEF Inv, TypeOK
<1> QED BY <1>3, <1>4, <1>5, DeadProcess DEF Inv

LEMMA CrashInv ==
  ASSUME Inv, Crash
  PROVE  Inv'
<1>1. Dies /\ UNCHANGED <<sched, space, fire, made>>
  BY DEF Crash, Dies
<1>2. TypeOK'
  BY <1>1, DeadProcess DEF Inv, TypeOK
<1>3. Handled'
  BY <1>1, DeadProcess
<1>4. Timing' /\ Links' /\ OneTaskPerFire'
  BY <1>1 DEF Inv, Timing, Links, OneTaskPerFire, Cron, Active
<1>5. Once' /\ OneTaskPerInstant' /\ Spent'
  BY <1>1 DEF Inv, Once, OneTaskPerInstant, Spent, Cron, Active
<1> QED BY <1>2, <1>3, <1>4, <1>5 DEF Inv

LEMMA CrashInPauseInv ==
  ASSUME Inv, NEW s \in Schedules, CrashInPause(s)
  PROVE  Inv'
<1>1. Dies /\ fire' = Without(sched[s].pending) /\ UNCHANGED <<sched, space, made>>
  BY DEF CrashInPause, Dies
<1>2. /\ Without(sched[s].pending) \in [Jobs -> FireJob]
      /\ \A k \in Jobs : Without(sched[s].pending)[k] =
                           IF k = sched[s].pending THEN NoJob ELSE fire[k]
  BY WithoutRows DEF Inv, TypeOK, Schedule
<1>3. TypeOK'
  BY <1>1, <1>2, DeadProcess DEF Inv, TypeOK
<1>4. Handled'
  BY <1>1, DeadProcess
<1>5. Timing' /\ Links' /\ OneTaskPerFire'
  BY <1>1, <1>2, NoJobIsJob, RowTypes
  DEF Inv, Timing, Links, OneTaskPerFire, Cron, Active
<1>6. Once' /\ OneTaskPerInstant'
  BY <1>1 DEF Inv, Once, OneTaskPerInstant, Cron, Active
<1>7. Spent'
  BY <1>1, <1>2, NoJobIsJob, RowTypes DEF Inv, Spent, Cron, Active
<1> QED BY <1>3, <1>4, <1>5, <1>6, <1>7 DEF Inv

(* A job that was enqueued and never linked disturbs nothing.              *)
LEMMA OrphanStep ==
  ASSUME Inv, NEW s \in Schedules, NEW j \in Free, NEW wait \in Waits,
         fire' = [fire EXCEPT ![j] = NewJob(s, wait)], UNCHANGED <<sched, made>>
  PROVE  /\ fire' \in [Jobs -> FireJob]
         /\ Timing' /\ Links' /\ OneTaskPerFire'
         /\ Once' /\ OneTaskPerInstant' /\ Spent'
         /\ \A k \in Jobs : settling[k] # "no" => fire'[k] = fire[k]
<1>1. /\ j \in Jobs
      /\ settling[j] = "no"
      /\ \A r \in Schedules : sched[r].pending # j
  BY DEF Free
<1>2. /\ fire' \in [Jobs -> FireJob]
      /\ \A k \in Jobs : fire'[k] = IF k = j THEN NewJob(s, wait) ELSE fire[k]
  BY <1>1, NewJobIsJob DEF Inv, TypeOK
<1>3. Timing' /\ Links' /\ OneTaskPerFire'
  BY <1>1, <1>2, NewJobIsJob, RowTypes
  DEF Inv, Timing, Links, OneTaskPerFire, Cron, Active
<1>4. Once' /\ OneTaskPerInstant'
  BY DEF Inv, Once, OneTaskPerInstant, Cron, Active
<1>5. Spent'
  BY <1>1, <1>2, RowTypes DEF Inv, Spent, Cron, Active
<1> QED BY <1>1, <1>2, <1>3, <1>4, <1>5

LEMMA CrashInResumeInv ==
  ASSUME Inv, NEW s \in Schedules, CrashInResume(s)
  PROVE  Inv'
<1>1. PICK j \in Free, next \in IF Cron(s) THEN NextRuns("cron", FALSE) ELSE {sched[s].runAt} :
        fire' = [fire EXCEPT ![j] = NewJob(s, next)]
  BY DEF CrashInResume
<1>2. Dies /\ ~ Expired(s) /\ UNCHANGED <<sched, space, made>>
  BY DEF CrashInResume, Dies
<1>3. next \in Waits
  BY <1>2, RowTypes, NextRunsAreWaits DEF Inv, Timing, Expired, Cron
<1>4. /\ fire' \in [Jobs -> FireJob]
      /\ Timing' /\ Links' /\ OneTaskPerFire'
      /\ Once' /\ OneTaskPerInstant' /\ Spent'
  BY <1>1, <1>2, <1>3, OrphanStep
<1>5. TypeOK'
  BY <1>2, <1>4, DeadProcess DEF Inv, TypeOK
<1> QED BY <1>2, <1>4, <1>5, DeadProcess DEF Inv

(* A tick claims a job, and its handler changes nothing.                   *)
LEMMA OnlyClaimStep ==
  ASSUME Inv, NEW j \in Jobs, Due(j), OnlyClaim(j), UNCHANGED <<sched, made>>
  PROVE  /\ fire' \in [Jobs -> FireJob]
         /\ Timing' /\ Links' /\ OneTaskPerFire'
         /\ Once' /\ OneTaskPerInstant' /\ Spent'
<1>1. fire[j].status = "pending" /\ fire[j].wait = 0
  BY DEF Due
<1>2. [fire[j] EXCEPT !.status = "processing"] \in FireJob
  BY RowTypes DEF Inv, FireJob
<1>3. /\ fire' \in [Jobs -> FireJob]
      /\ \A k \in Jobs : /\ fire'[k].schedule = fire[k].schedule
                         /\ fire'[k].tasks = fire[k].tasks
                         /\ k # j => fire'[k] = fire[k]
                         /\ fire'[k].status = "none" <=> fire[k].status = "none"
  BY <1>1, <1>2, RowTypes DEF Inv, TypeOK, OnlyClaim, FireJob
<1>4. Timing' /\ OneTaskPerFire' /\ Once' /\ OneTaskPerInstant'
  BY <1>3 DEF Inv, Timing, OneTaskPerFire, Once, OneTaskPerInstant, Cron, Active
<1>5. Links'
  BY <1>3, RowTypes DEF Inv, Links
<1>6. Spent'
  BY <1>1, <1>3, RowTypes DEF Inv, Spent, Cron, Active
<1> QED BY <1>3, <1>4, <1>5, <1>6

LEMMA ClaimStep ==
  ASSUME Inv, NEW j \in Jobs, NEW end \in {"ok", "failed"}, Claim(j, end),
         fire' \in [Jobs -> FireJob], fire'[j].status = "processing",
         \A k \in Jobs : settling[k] # "no" => fire'[k] = fire[k] \/ fire'[k].status = "processing",
         UNCHANGED up
  PROVE  /\ settling' \in [Jobs -> {"no", "ok", "failed"}]
         /\ Handled'
<1>1. settling' = [settling EXCEPT ![j] = end] /\ up
  BY DEF Claim, Due
<1>2. settling' \in [Jobs -> {"no", "ok", "failed"}]
  BY <1>1 DEF Inv, TypeOK
<1>3. \A k \in Jobs : k # j => settling'[k] = settling[k]
  BY <1>1 DEF Inv, TypeOK
<1>4. up'
  BY <1>1
<1> QED BY <1>2, <1>3, <1>4 DEF Inv, Handled

LEMMA SkipInv ==
  ASSUME Inv, NEW j \in Jobs, NEW end \in {"ok", "failed"}, Claim(j, end),
         OnlyClaim(j), UNCHANGED <<sched, space, up, made>>
  PROVE  Inv'
<1>1. Due(j)
  BY DEF Claim
<1>2. /\ fire' \in [Jobs -> FireJob]
      /\ Timing' /\ Links' /\ OneTaskPerFire'
      /\ Once' /\ OneTaskPerInstant' /\ Spent'
  BY <1>1, OnlyClaimStep
<1>3. fire'[j].status = "processing" /\ \A k \in Jobs : k # j => fire'[k] = fire[k]
  BY RowTypes DEF Inv, TypeOK, OnlyClaim, FireJob
<1>4. settling' \in [Jobs -> {"no", "ok", "failed"}] /\ Handled'
  BY <1>2, <1>3, ClaimStep
<1>5. TypeOK'
  BY <1>2, <1>4 DEF Inv, TypeOK
<1> QED BY <1>2, <1>4, <1>5 DEF Inv

LEMMA FireInClosedSpaceInv ==
  ASSUME Inv, NEW j \in Jobs, FireInClosedSpace(j)
  PROVE  Inv'
<1>1. Claim(j, "ok") /\ Due(j) /\ OnlyClaim(j) /\ UNCHANGED <<space, up, made>>
  BY DEF FireInClosedSpace, Claim
<1>2. CASE UNCHANGED sched
  BY <1>1, <1>2, SkipInv
<1>3. ASSUME Linked(j),
             NEW next \in IF Cron(Target(j)) THEN NextRuns("cron", sched[Target(j)].dry)
                                             ELSE {sched[Target(j)].next},
             sched' = [sched EXCEPT ![Target(j)].next = next, ![Target(j)].pending = None]
      PROVE  Inv'
  <2> DEFINE s == Target(j)
  <2>1. s \in Schedules /\ sched[s].pending = j /\ sched[s].status = "active"
    <3>1. fire[j].status # "none"
      BY <1>1 DEF Due
    <3> QED BY <1>3, <3>1 DEF Inv, Links, Target, Linked, FireInClosedSpace, Active
  <2> HIDE DEF s
  <2>2. \/ next \in Waits /\ next # None /\ (Cron(s) => next > 0)
        \/ next = None /\ sched[s].dry
    <3>1. j # None
      BY RowTypes DEF Inv
    <3>2. CASE sched[s].dry
      BY <1>3, <2>1, <3>2, NextRunsAreWaits DEF s, Inv, Timing, Triggers
    <3>3. CASE sched[s].dry = FALSE
      BY <1>3, <2>1, <3>1, <3>3, NextRunsAreWaits, RowTypes DEF s, Inv, Timing, Active, Triggers
    <3> QED BY <2>1, <3>2, <3>3, RowTypes DEF Inv
  <2>3. /\ [sched[s] EXCEPT !.next = next, !.pending = None] \in Schedule
        /\ sched' = [sched EXCEPT ![s].next = next, ![s].pending = None]
    BY <1>3, <2>1, <2>2, RowTypes DEF s, Inv, Schedule
  <2>4. /\ sched' \in [Schedules -> Schedule]
        /\ \A r \in Schedules : r # s => sched'[r] = sched[r]
    BY <2>1, <2>3 DEF Inv, TypeOK
  <2>5. /\ sched'[s].status = "active"
        /\ sched'[s].next = next
        /\ sched'[s].pending = None
        /\ sched'[s].trigger = sched[s].trigger
        /\ sched'[s].runAt = sched[s].runAt
        /\ sched'[s].dry = sched[s].dry
    <3>1. sched[s] \in Schedule /\ DOMAIN sched = Schedules
      BY <2>1, RowTypes DEF Inv, TypeOK
    <3>2. sched'[s] = [sched[s] EXCEPT !.next = next, !.pending = None]
      BY <2>1, <2>3, <3>1
    <3> QED BY <2>1, <3>1, <3>2 DEF Schedule
  <2>6. [fire[j] EXCEPT !.status = "processing"] \in FireJob
    BY RowTypes DEF Inv, FireJob
  <2>7. /\ fire' \in [Jobs -> FireJob]
        /\ fire'[j].status = "processing"
        /\ fire'[j].schedule = fire[j].schedule
        /\ fire'[j].tasks = fire[j].tasks
        /\ \A k \in Jobs : k # j => fire'[k] = fire[k]
    BY <1>1, <2>6, RowTypes DEF Inv, TypeOK, OnlyClaim, FireJob
  <2>8. settling' \in [Jobs -> {"no", "ok", "failed"}] /\ Handled'
    BY <1>1, <2>7, ClaimStep
  <2>9. TypeOK'
    BY <1>1, <2>4, <2>7, <2>8 DEF Inv, TypeOK
  <2>10. Timing'
    BY <2>1, <2>2, <2>4, <2>5 DEF Inv, Timing, Cron, Active
  <2>16. OneTaskPerFire'
    BY <2>7 DEF Inv, OneTaskPerFire
  <2>11. Once' /\ OneTaskPerInstant'
    BY <1>1, <2>1, <2>4, <2>5 DEF Inv, Once, OneTaskPerInstant, Cron, Active
  <2>12. \A r \in Schedules \ {s} : sched[r].pending # None =>
           sched[r].pending # j \/ fire[j].schedule = r
    BY <1>1 DEF Inv, Links, Due
  <2>13. \A r \in Schedules \ {s} : sched[r].pending # j
    BY <1>1, <2>12, RowTypes DEF Inv, s, Target
  <2>14. Links'
    <3>1. \A k \in Jobs : /\ fire'[k].schedule = fire[k].schedule
                          /\ fire'[k].status # "none" => fire[k].status # "none"
      BY <1>1, <2>7 DEF Due
    <3>2. \A r \in Schedules : sched'[r].pending # None =>
            /\ sched'[r].pending = sched[r].pending
            /\ sched[r].pending \in Jobs
            /\ fire'[sched[r].pending] = fire[sched[r].pending]
      BY <2>4, <2>5, <2>7, <2>13, RowTypes DEF Inv
    <3> QED BY <3>1, <3>2 DEF Inv, Links
  <2>15. Spent'
    <3>1. \A r \in Schedules \ {s} : sched[r].pending # None =>
            sched[r].pending \in Jobs /\ fire'[sched[r].pending] = fire[sched[r].pending]
      BY <2>7, <2>13, RowTypes DEF Inv
    <3>2. UNCHANGED made
      BY <1>1
    <3>3. \A r \in Schedules : sched'[r].status = "active" /\ sched'[r].trigger = "cron"
            /\ made[r].instant > 0 => sched'[r].next > 0
      <4>1. made[s].instant \in 0 .. 2 /\ fire[j].status = "pending" /\ fire[j].wait = 0
        BY <1>1, <2>1 DEF Due, Inv, TypeOK
      <4>2. Cron(s) => ~ (made[s].instant > 0)
        BY <2>1, <4>1, RowTypes DEF Inv, Spent, Active
      <4> QED BY <2>4, <2>5, <4>2 DEF Inv, Spent, Cron, Active
    <3> QED BY <2>4, <2>5, <3>1, <3>2, <3>3 DEF Inv, Spent, Cron, Active
  <2> QED BY <2>8, <2>9, <2>10, <2>11, <2>14, <2>15, <2>16 DEF Inv
<1> QED BY <1>2, <1>3 DEF FireInClosedSpace

(* The task is created, and the next job k linked or the schedule over.    *)
Advanced(j, s, k) ==
  /\ fire[j].status = "pending" /\ fire[j].schedule = s
  /\ sched[s].pending = j /\ sched[s].status = "active"
  /\ sched' \in [Schedules -> Schedule]
  /\ \A r \in Schedules : r # s => sched'[r] = sched[r]
  /\ sched'[s].trigger = sched[s].trigger
  /\ sched'[s].runAt = sched[s].runAt
  /\ sched'[s].dry = sched[s].dry
  /\ sched'[s].pending = k
  /\ \/ /\ k = None
        /\ sched'[s].status = "completed"
     \/ /\ k # None
        /\ sched[s].trigger = "cron"
        /\ sched'[s].status = "active"
        /\ sched'[s].next \in Waits
        /\ sched'[s].next > 0
        /\ fire'[k] = NewJob(s, sched'[s].next)
  /\ fire' \in [Jobs -> FireJob]
  /\ \A i \in Jobs : i # j /\ i # k => fire'[i] = fire[i]
  /\ fire'[j].status = "processing" /\ fire'[j].schedule = s /\ fire'[j].tasks <= 1
  /\ made' \in [Schedules -> [instant : 0 .. 2, ever : 0 .. 2]]
  /\ \A r \in Schedules : r # s => made'[r] = made[r]
  /\ made'[s].instant \in {0, 1}
  /\ sched[s].trigger # "cron" => made'[s].ever = made'[s].instant

LEMMA AdvancedInv ==
  ASSUME Inv, NEW j \in Jobs, NEW s \in Schedules, NEW k \in Free \cup {None},
         Advanced(j, s, k), NEW end \in {"ok", "failed"}, Claim(j, end),
         UNCHANGED <<space, up>>
  PROVE  Inv'
<1>1. k # None => /\ k \in Jobs
                  /\ fire[k].status = "none"
                  /\ settling[k] = "no"
                  /\ \A r \in Schedules : sched[r].pending # k
  BY DEF Free
<1>2. \A r \in Schedules \ {s} : sched[r].pending # j
  BY RowTypes DEF Inv, Links, Advanced
<1>3. k # None => fire'[k].status = "pending" /\ fire'[k].schedule = s
                    /\ fire'[k].tasks = 0 /\ fire'[k].wait > 0 /\ sched'[s].next # None
  BY NewJobIsJob, RowTypes DEF Inv, Advanced
<1>4. settling' \in [Jobs -> {"no", "ok", "failed"}] /\ Handled'
  <2>1. \A i \in Jobs : settling[i] # "no" =>
          fire'[i] = fire[i] \/ fire'[i].status = "processing"
    BY <1>1, RowTypes DEF Inv, Advanced
  <2> QED BY <2>1, ClaimStep DEF Advanced
<1>5. TypeOK'
  BY <1>4 DEF Inv, TypeOK, Advanced
<1>6. Timing'
  BY <1>3 DEF Inv, Timing, Cron, Active, Advanced
<1>7. \A r \in Schedules \ {s} : sched[r].pending # None =>
        sched[r].pending \in Jobs /\ fire'[sched[r].pending] = fire[sched[r].pending]
  BY <1>1, <1>2, RowTypes DEF Inv, Advanced
<1>8. Links'
  <2>1. ASSUME NEW i \in Jobs, fire'[i].status # "none"
        PROVE  fire'[i].schedule \in Schedules
    BY <1>3, <2>1, RowTypes DEF Inv, Links, Advanced
  <2>2. ASSUME NEW r \in Schedules, sched'[r].pending # None
        PROVE  \/ fire'[sched'[r].pending].status = "none"
               \/ /\ fire'[sched'[r].pending].schedule = r
                  /\ fire'[sched'[r].pending].tasks = 0
    BY <1>3, <1>7, <2>2 DEF Inv, Links, Advanced
  <2> QED BY <2>1, <2>2 DEF Links
<1>9. OneTaskPerFire'
  BY <1>3, RowTypes DEF Inv, OneTaskPerFire, Advanced
<1>10. Once' /\ OneTaskPerInstant'
  BY DEF Inv, Once, OneTaskPerInstant, Cron, Advanced
<1>11. Spent'
  BY <1>3, <1>7 DEF Inv, Spent, Cron, Active, Advanced
<1> QED BY <1>4, <1>5, <1>6, <1>8, <1>9, <1>10, <1>11 DEF Inv

LEMMA MadeUpdate ==
  ASSUME NEW m \in [instant : 0 .. 2, ever : 0 .. 2], NEW a \in 0 .. 2, NEW b \in 0 .. 2
  PROVE  [m EXCEPT !.instant = a, !.ever = b] \in [instant : 0 .. 2, ever : 0 .. 2]
OBVIOUS

LEMMA TasksUpdate ==
  ASSUME NEW row \in FireJob, NEW tasks \in 0 .. 2
  PROVE  [row EXCEPT !.status = "processing", !.tasks = tasks] \in FireJob
BY DEF FireJob

LEMMA FireRunsInv ==
  ASSUME Inv, NEW j \in Jobs, FireRuns(j)
  PROVE  Inv'
<1> DEFINE s == Target(j)
<1>1. /\ fire[j].status = "pending" /\ fire[j].wait = 0
      /\ UNCHANGED <<space, up>>
  BY DEF FireRuns, Claim, Due
<1>2. PICK end \in {"ok", "failed"} : Claim(j, end)
  BY DEF FireRuns
<1>3. /\ s \in Schedules
      /\ sched[s].pending = j
      /\ sched[s].status = "active"
      /\ fire[j].schedule = s
      /\ fire[j].tasks = 0
  <2>1. Runs(j)
    BY DEF FireRuns
  <2>2. sched[s].pending = j /\ sched[s].status = "active"
    BY <2>1 DEF Runs, Linked, Active
  <2>3. s \in Schedules /\ fire[j].schedule = s
    BY <1>1 DEF Inv, Links, Target
  <2>4. j # None
    BY RowTypes DEF Inv
  <2> QED BY <1>1, <2>2, <2>3, <2>4 DEF Inv, Links
<1>5. PICK task \in {1} \cup (IF sched[s].goal THEN {0} ELSE {}) :
        /\ made' = IF task = 0 THEN made
                   ELSE [made EXCEPT ![s].instant = Counted(@),
                                   ![s].ever = IF Cron(s) THEN @ ELSE Counted(@)]
        /\ \/ /\ ~ Cron(s) \/ sched[s].dry
              /\ sched' = [sched EXCEPT ![s].status = "completed",
                                        ![s].next = None, ![s].pending = None]
              /\ fire' = [fire EXCEPT ![j].status = "processing",
                                      ![j].tasks = IF task = 0 THEN @ ELSE Counted(@)]
           \/ /\ Cron(s) /\ ~ sched[s].dry
              /\ \E k \in Free, next \in NextRuns("cron", FALSE) :
                   /\ sched' = [sched EXCEPT ![s].next = next, ![s].pending = k]
                   /\ fire' = [fire EXCEPT ![j].status = "processing",
                                           ![j].tasks = IF task = 0 THEN @ ELSE Counted(@),
                                           ![k] = NewJob(s, next)]
  BY Zenon DEF FireRuns
<1>12. task \in {0, 1}
  BY Zenon
<1> HIDE DEF s
<1>6. /\ made[s].instant = 0
      /\ ~ Cron(s) => made[s].ever = 0
  <2>1. made[s].instant \in 0 .. 2 /\ made[s].ever \in 0 .. 2
    BY <1>3 DEF Inv, TypeOK
  <2>2. CASE Cron(s)
    BY <1>1, <1>3, <2>1, <2>2, RowTypes DEF Inv, Spent, Active
  <2>3. CASE ~ Cron(s)
    BY <1>3, <2>1, <2>3 DEF Inv, Once
  <2> QED BY <2>2, <2>3
<1>7. /\ made' \in [Schedules -> [instant : 0 .. 2, ever : 0 .. 2]]
      /\ \A r \in Schedules : r # s => made'[r] = made[r]
      /\ made'[s].instant \in {0, 1}
      /\ ~ Cron(s) => made'[s].ever = made'[s].instant
  <2>1. Counted(0) = 1
    BY DEF Counted
  <2>2. CASE task = 0
    BY <1>3, <1>5, <1>6, <2>2 DEF Inv, TypeOK
  <2>3. CASE task = 1
    <3> DEFINE ever == IF Cron(s) THEN made[s].ever ELSE 1
    <3>1. /\ made[s] \in [instant : 0 .. 2, ever : 0 .. 2]
          /\ made' = [made EXCEPT ![s].instant = Counted(@),
                                ![s].ever = IF Cron(s) THEN @ ELSE Counted(@)]
      BY <1>3, <1>5, <2>3 DEF Inv, TypeOK
    <3>2. ever \in 0 .. 2 /\ (~ Cron(s) => ever = 1)
      BY <3>1
    <3>3. made' = [made EXCEPT ![s].instant = 1, ![s].ever = ever]
      BY <1>6, <2>1, <3>1
    <3> HIDE DEF ever
    <3> DEFINE new == [made[s] EXCEPT !.instant = 1, !.ever = ever]
    <3>4. 1 \in 0 .. 2
      OBVIOUS
    <3>5. new \in [instant : 0 .. 2, ever : 0 .. 2]
      BY <3>1, <3>2, <3>4, MadeUpdate, Zenon
    <3>6. new.instant = 1 /\ new.ever = ever
      BY <3>1
    <3>7. made' = [made EXCEPT ![s] = new]
      BY <1>3, <3>3 DEF Inv, TypeOK
    <3> HIDE DEF new
    <3> QED BY <1>3, <3>2, <3>5, <3>6, <3>7 DEF Inv, TypeOK
  <2> QED BY <1>12, <2>2, <2>3
<1> DEFINE tasks == IF task = 0 THEN 0 ELSE 1
<1>8. (IF task = 0 THEN fire[j].tasks ELSE Counted(fire[j].tasks)) = tasks
  BY <1>3 DEF Counted
<1>13. tasks \in {0, 1} /\ tasks \in 0 .. 2
  OBVIOUS
<1> HIDE DEF tasks
<1>9. [fire[j] EXCEPT !.status = "processing", !.tasks = tasks] \in FireJob
  <2>1. fire[j] \in FireJob
    BY RowTypes DEF Inv
  <2> QED BY <1>13, <2>1, TasksUpdate, Zenon
<1>10. CASE /\ ~ Cron(s) \/ sched[s].dry
            /\ sched' = [sched EXCEPT ![s].status = "completed",
                                      ![s].next = None, ![s].pending = None]
            /\ fire' = [fire EXCEPT ![j].status = "processing",
                                    ![j].tasks = IF task = 0 THEN @ ELSE Counted(@)]
  <2>1. /\ fire' \in [Jobs -> FireJob]
        /\ fire'[j] = [fire[j] EXCEPT !.status = "processing", !.tasks = tasks]
        /\ \A k \in Jobs : k # j => fire'[k] = fire[k]
    BY <1>8, <1>9, <1>10 DEF Inv, TypeOK
  <2>2. [sched[s] EXCEPT !.status = "completed", !.next = None, !.pending = None]
          \in Schedule
    <3>1. sched[s] \in Schedule
      BY <1>3, RowTypes DEF Inv
    <3> QED BY <3>1 DEF Schedule
  <2>3. /\ sched' \in [Schedules -> Schedule]
        /\ \A r \in Schedules : r # s => sched'[r] = sched[r]
        /\ sched'[s].status = "completed"
        /\ sched'[s].trigger = sched[s].trigger
        /\ sched'[s].runAt = sched[s].runAt
        /\ sched'[s].dry = sched[s].dry
        /\ sched'[s].pending = None
    BY <1>3, <1>10, <2>2, RowTypes DEF Inv, TypeOK, Schedule
  <2>4. /\ fire'[j].status = "processing"
        /\ fire'[j].schedule = s
        /\ fire'[j].tasks <= 1
    BY <1>3, <1>13, <2>1, RowTypes DEF Inv, FireJob
  <2>6. sched[s].trigger # "cron" => made'[s].ever = made'[s].instant
    BY <1>7 DEF Cron
  <2>7. Advanced(j, s, None)
    BY <1>1, <1>3, <1>7, <2>1, <2>3, <2>4, <2>6 DEF Advanced
  <2> QED BY <1>1, <1>2, <1>3, <2>7, AdvancedInv
<1>11. ASSUME Cron(s), ~ sched[s].dry, NEW k \in Free, NEW next \in NextRuns("cron", FALSE),
              sched' = [sched EXCEPT ![s].next = next, ![s].pending = k],
              fire' = [fire EXCEPT ![j].status = "processing",
                                   ![j].tasks = IF task = 0 THEN @ ELSE Counted(@),
                                   ![k] = NewJob(s, next)]
       PROVE  Inv'
  <2>1. next \in Waits /\ next > 0
    BY NextRunsAreWaits DEF Triggers
  <2>2. k \in Jobs /\ k # None /\ k # j
    BY <1>1, RowTypes DEF Inv, Free
  <2>3. /\ fire' \in [Jobs -> FireJob]
        /\ fire'[j] = [fire[j] EXCEPT !.status = "processing", !.tasks = tasks]
        /\ fire'[k] = NewJob(s, next)
        /\ \A i \in Jobs : i # j /\ i # k => fire'[i] = fire[i]
    <3>1. fire' = [fire EXCEPT ![j] = [fire[j] EXCEPT !.status = "processing", !.tasks = tasks],
                               ![k] = NewJob(s, next)]
      BY <1>8, <1>11, <2>2 DEF Inv, TypeOK
    <3>2. NewJob(s, next) \in FireJob
      BY <1>3, <2>1, NewJobIsJob
    <3> QED BY <1>9, <2>2, <3>1, <3>2 DEF Inv, TypeOK
  <2>4. [sched[s] EXCEPT !.next = next, !.pending = k] \in Schedule
    <3>1. sched[s] \in Schedule
      BY <1>3, RowTypes DEF Inv
    <3> QED BY <2>1, <2>2, <3>1 DEF Schedule
  <2>5. /\ sched' \in [Schedules -> Schedule]
        /\ \A r \in Schedules : r # s => sched'[r] = sched[r]
        /\ sched'[s] = [sched[s] EXCEPT !.next = next, !.pending = k]
    BY <1>3, <1>11, <2>4 DEF Inv, TypeOK
  <2>6. /\ sched'[s].status = "active"
        /\ sched'[s].trigger = sched[s].trigger
        /\ sched'[s].runAt = sched[s].runAt
        /\ sched'[s].dry = sched[s].dry
        /\ sched'[s].pending = k
        /\ sched'[s].next = next
    BY <1>3, <2>5, RowTypes DEF Inv, Schedule
  <2>7. /\ fire'[j].status = "processing"
        /\ fire'[j].schedule = s
        /\ fire'[j].tasks <= 1
    BY <1>3, <1>13, <2>3, RowTypes DEF Inv, FireJob
  <2>8. sched[s].trigger = "cron"
    BY <1>11 DEF Cron
  <2>9. Advanced(j, s, k)
    BY <1>1, <1>3, <1>7, <2>1, <2>2, <2>3, <2>5, <2>6, <2>7, <2>8 DEF Advanced
  <2> QED BY <1>1, <1>2, <1>3, <1>11, <2>9, AdvancedInv
<1> QED BY <1>5, <1>10, <1>11

LEMMA FireInv ==
  ASSUME Inv, NEW j \in Jobs, Fire(j)
  PROVE  Inv'
<1>1. CASE FireSkips(j)
  BY <1>1, SkipInv DEF FireSkips
<1>2. CASE FireInClosedSpace(j)
  BY <1>2, FireInClosedSpaceInv
<1>3. CASE LettingGoFails(j)
  BY <1>3, SkipInv DEF LettingGoFails
<1>4. CASE FireRuns(j)
  BY <1>4, FireRunsInv
<1>5. CASE FireThrows(j)
  BY <1>5, SkipInv DEF FireThrows
<1> QED BY <1>1, <1>2, <1>3, <1>4, <1>5 DEF Fire

(* What complete() or fail() leaves in the row of a job. *)
LEMMA SettledRow ==
  ASSUME NEW row \in FireJob, NEW end
  PROVE  /\ Settled(row, end) \in FireJob
         /\ Settled(row, end).schedule = row.schedule
         /\ Settled(row, end).tasks = row.tasks
         /\ Settled(row, end).status = "none" <=> row.status = "none"
<1>1. CASE row.status = "none" \/ end = "ok"
  BY <1>1 DEF Settled, FireJob
<1>2. CASE row.status # "none" /\ end # "ok" /\ row.retries < MaxRetries
  <2>1. row.retries + 1 \in 0 .. MaxRetries /\ RetryWait \in Waits
    BY <1>2, TaskScheduleAssumption DEF FireJob, Waits, TaskScheduleAssumption
  <2> QED BY <1>2, <2>1 DEF Settled, FireJob
<1>3. CASE row.status # "none" /\ end # "ok" /\ ~ (row.retries < MaxRetries)
  BY <1>3 DEF Settled, FireJob
<1> QED BY <1>1, <1>2, <1>3

(* A row that keeps its schedule and its tasks, and is not the live job of *)
(* a schedule that has fired at this instant.                              *)
LEMMA RowStep ==
  ASSUME Inv, NEW j \in Jobs, NEW row \in FireJob,
         fire' = [fire EXCEPT ![j] = row], UNCHANGED <<sched, made>>,
         \/ row.status = "none"
         \/ /\ fire[j].status # "none"
            /\ row.schedule = fire[j].schedule /\ row.tasks = fire[j].tasks,
         row.tasks <= 1,
         fire[j].status \notin {"none", "pending"} \/ row.status = "none"
  PROVE  /\ fire' \in [Jobs -> FireJob]
         /\ \A k \in Jobs : fire'[k] = IF k = j THEN row ELSE fire[k]
         /\ Timing' /\ Links' /\ OneTaskPerFire'
         /\ Once' /\ OneTaskPerInstant' /\ Spent'
<1>1. /\ fire' \in [Jobs -> FireJob]
      /\ \A k \in Jobs : fire'[k] = IF k = j THEN row ELSE fire[k]
  BY DEF Inv, TypeOK
<1>2. Timing' /\ OneTaskPerFire'
  BY <1>1 DEF Inv, Timing, OneTaskPerFire, Cron, Active
<1>3. Links'
  BY <1>1, RowTypes DEF Inv, Links
<1>4. Once' /\ OneTaskPerInstant'
  BY DEF Inv, Once, OneTaskPerInstant, Cron, Active
<1>5. Spent'
  BY <1>1, RowTypes DEF Inv, Spent, Cron, Active
<1> QED BY <1>1, <1>2, <1>3, <1>4, <1>5

LEMMA SettleInv ==
  ASSUME Inv, NEW j \in Jobs, Settle(j)
  PROVE  Inv'
<1> DEFINE row == Settled(fire[j], settling[j])
<1>1. /\ fire' = [fire EXCEPT ![j] = row]
      /\ settling' = [settling EXCEPT ![j] = "no"]
      /\ settling[j] # "no"
      /\ UNCHANGED <<sched, space, up, made>>
  BY DEF Settle
<1>2. /\ row \in FireJob
      /\ row.schedule = fire[j].schedule
      /\ row.tasks = fire[j].tasks
      /\ row.status = "none" <=> fire[j].status = "none"
  BY RowTypes, SettledRow DEF Inv
<1>3. fire[j].status \in {"none", "processing"} /\ fire[j].tasks <= 1
  BY <1>1 DEF Inv, Handled, OneTaskPerFire
<1> HIDE DEF row
<1>4. /\ fire' \in [Jobs -> FireJob]
      /\ \A k \in Jobs : fire'[k] = IF k = j THEN row ELSE fire[k]
      /\ Timing' /\ Links' /\ OneTaskPerFire'
      /\ Once' /\ OneTaskPerInstant' /\ Spent'
  BY <1>1, <1>2, <1>3, RowStep
<1>5. /\ settling' \in [Jobs -> {"no", "ok", "failed"}]
      /\ \A k \in Jobs : settling'[k] = IF k = j THEN "no" ELSE settling[k]
  BY <1>1 DEF Inv, TypeOK
<1>6. TypeOK'
  BY <1>1, <1>4, <1>5 DEF Inv, TypeOK
<1>7. Handled'
  BY <1>1, <1>4, <1>5 DEF Inv, Handled
<1> QED BY <1>4, <1>6, <1>7 DEF Inv

LEMMA ReclaimInv ==
  ASSUME Inv, NEW j \in Jobs, Reclaim(j)
  PROVE  Inv'
<1> DEFINE row == [fire[j] EXCEPT !.status = "pending"]
<1>1. /\ fire' = [fire EXCEPT ![j] = row]
      /\ fire[j].status = "processing"
      /\ settling[j] = "no"
      /\ UNCHANGED <<sched, space, settling, up, made>>
  BY DEF Reclaim, Inv, TypeOK
<1>2. /\ row \in FireJob
      /\ row.schedule = fire[j].schedule
      /\ row.tasks = fire[j].tasks
  <2>1. fire[j] \in FireJob
    BY RowTypes DEF Inv
  <2> QED BY <2>1 DEF FireJob
<1>3. fire[j].tasks <= 1
  BY DEF Inv, OneTaskPerFire
<1> HIDE DEF row
<1>4. /\ fire' \in [Jobs -> FireJob]
      /\ \A k \in Jobs : fire'[k] = IF k = j THEN row ELSE fire[k]
      /\ Timing' /\ Links' /\ OneTaskPerFire'
      /\ Once' /\ OneTaskPerInstant' /\ Spent'
  BY <1>1, <1>2, <1>3, RowStep
<1>5. TypeOK'
  BY <1>1, <1>4 DEF Inv, TypeOK
<1>6. Handled'
  BY <1>1, <1>4 DEF Inv, Handled
<1> QED BY <1>4, <1>5, <1>6 DEF Inv

LEMMA CleanupInv ==
  ASSUME Inv, NEW j \in Jobs, Cleanup(j)
  PROVE  Inv'
<1>1. /\ fire' = [fire EXCEPT ![j] = NoJob]
      /\ fire[j].status \in {"completed", "dead"}
      /\ UNCHANGED <<sched, space, settling, up, made>>
  BY DEF Cleanup
<1>2. NoJob \in FireJob /\ NoJob.status = "none" /\ NoJob.tasks <= 1
  BY NoJobIsJob
<1>3. /\ fire' \in [Jobs -> FireJob]
      /\ \A k \in Jobs : fire'[k] = IF k = j THEN NoJob ELSE fire[k]
      /\ Timing' /\ Links' /\ OneTaskPerFire'
      /\ Once' /\ OneTaskPerInstant' /\ Spent'
  BY <1>1, <1>2, RowStep
<1>4. TypeOK'
  BY <1>1, <1>3 DEF Inv, TypeOK
<1>5. Handled'
  BY <1>1, <1>2, <1>3 DEF Inv, Handled
<1> QED BY <1>3, <1>4, <1>5 DEF Inv

LEMMA CrashInFireInv ==
  ASSUME Inv, NEW j \in Jobs, CrashInFire(j)
  PROVE  Inv'
<1>1. Due(j) /\ Dies /\ OnlyClaim(j) /\ UNCHANGED <<sched, space, made>>
  BY DEF CrashInFire, Dies
<1>2. /\ fire' \in [Jobs -> FireJob]
      /\ Timing' /\ Links' /\ OneTaskPerFire'
      /\ Once' /\ OneTaskPerInstant' /\ Spent'
  BY <1>1, OnlyClaimStep
<1>3. TypeOK'
  BY <1>1, <1>2, DeadProcess DEF Inv, TypeOK
<1> QED BY <1>1, <1>2, <1>3, DeadProcess DEF Inv

-----------------------------------------------------------------------------
(* The start, and the clock *)

LEMMA ReseedWaits ==
  ASSUME Inv, NEW s \in Lost
  PROVE  /\ s \in Schedules
         /\ sched[s].next # None
         /\ ReseedWait(s) \in Waits
         /\ ReseedWait(s) = sched[s].next
         /\ Cron(s) /\ made[s].instant > 0 => ReseedWait(s) > 0
<1>1. s \in Schedules /\ Active(s) /\ (sched[s].pending # None \/ sched[s].next = 0)
  BY DEF Lost
<1>2. sched[s].next # None /\ sched[s].next \in Waits
  BY <1>1, RowTypes, TaskScheduleAssumption DEF Inv, Timing, TaskScheduleAssumption
<1> QED BY <1>1, <1>2 DEF ReseedWait, Inv, Spent

LEMMA StartInv ==
  ASSUME Inv, Start
  PROVE  Inv'
<1> DEFINE wait == [s \in Lost |-> ReseedWait(s)]
<1>1. PICK f \in Injection(Lost, Free) :
        /\ fire' = Enqueued(f, wait)
        /\ sched' = [s \in Schedules |-> IF s \in Lost THEN [sched[s] EXCEPT !.pending = f[s]]
                                                       ELSE sched[s]]
  BY DEF Start
<1>2. UNCHANGED <<space, settling, made>> /\ up' = TRUE /\ ~ up
  BY DEF Start
<1>3. Lost \in SUBSET Schedules /\ \A s \in Lost : Active(s) /\ sched[s].status = "active"
  BY DEF Lost, Active
<1>4. wait \in [Lost -> Waits]
  BY <1>3, ReseedWaits
<1>5. \A s \in Lost : sched[s].trigger = "cron" /\ made[s].instant > 0 => wait[s] > 0
  BY <1>3, ReseedWaits DEF Cron
<1> HIDE DEF wait
<1>6. \A s \in Lost : f[s] \in Jobs
  BY DEF Injection, Free
<1>7. \A s \in Lost : /\ sched'[s].status = "active"
                      /\ sched'[s].trigger = sched[s].trigger
                      /\ sched'[s].runAt = sched[s].runAt
                      /\ sched'[s].dry = sched[s].dry
                      /\ sched'[s].pending = f[s]
                      /\ sched'[s].next = sched[s].next
                      /\ sched'[s].next # None
                      /\ sched'[s] \in Schedule
  <2> SUFFICES ASSUME NEW s \in Lost
               PROVE  /\ sched'[s].status = "active"
                      /\ sched'[s].trigger = sched[s].trigger
                      /\ sched'[s].runAt = sched[s].runAt
                      /\ sched'[s].dry = sched[s].dry
                      /\ sched'[s].pending = f[s]
                      /\ sched'[s].next = sched[s].next
                      /\ sched'[s].next # None
                      /\ sched'[s] \in Schedule
    OBVIOUS
  <2>1. sched'[s] = [sched[s] EXCEPT !.pending = f[s]] /\ sched[s] \in Schedule
    BY <1>1, <1>3, RowTypes DEF Inv
  <2>2. sched[s].next # None
    BY ReseedWaits
  <2> QED BY <1>3, <1>6, <2>1, <2>2 DEF Schedule
<1>8. \A s \in Schedules \ Lost : sched'[s] = sched[s]
  BY <1>1
<1>9. sched' \in [Schedules -> Schedule]
  <2>1. \A s \in Schedules : sched'[s] \in Schedule
    BY <1>7, <1>8, RowTypes DEF Inv
  <2> QED BY <1>1, <2>1
<1>10. /\ fire' \in [Jobs -> FireJob]
       /\ Timing' /\ Links' /\ OneTaskPerFire'
       /\ Once' /\ OneTaskPerInstant' /\ Spent'
  BY <1>1, <1>2, <1>3, <1>4, <1>5, <1>7, <1>8, <1>9, RelinkStep, SMTT(30)
<1>11. TypeOK'
  <2>1. up' \in BOOLEAN
    BY <1>2
  <2> QED BY <1>2, <1>9, <1>10, <2>1 DEF Inv, TypeOK
<1>12. Handled'
  BY <1>2 DEF Inv, Handled
<1> QED BY <1>10, <1>11, <1>12 DEF Inv

LEMMA StartCutShortInv ==
  ASSUME Inv, StartCutShort
  PROVE  Inv'
<1>1. PICK s \in Lost, j \in Free :
        /\ fire' = [fire EXCEPT ![j] = NewJob(s, ReseedWait(s))]
        /\ sched' \in {sched, [sched EXCEPT ![s].pending = j]}
  BY DEF StartCutShort
<1>2. UNCHANGED <<space, settling, made>> /\ ~ up /\ up' \in BOOLEAN
  BY DEF StartCutShort
<1>3. s \in Schedules /\ sched[s].status = "active" /\ Active(s)
  BY DEF Lost, Active
<1>4. ReseedWait(s) \in Waits /\ (Cron(s) /\ made[s].instant > 0 => ReseedWait(s) > 0)
  BY <1>3, ReseedWaits
<1>5. Handled'
  BY <1>2 DEF Inv, Handled
<1>6. CASE sched' = sched
  <2>1. /\ fire' \in [Jobs -> FireJob]
        /\ Timing' /\ Links' /\ OneTaskPerFire'
        /\ Once' /\ OneTaskPerInstant' /\ Spent'
    BY <1>1, <1>2, <1>3, <1>4, <1>6, OrphanStep
  <2>2. TypeOK'
    BY <1>2, <1>6, <2>1 DEF Inv, TypeOK
  <2> QED BY <1>5, <2>1, <2>2 DEF Inv
<1>7. CASE sched' = [sched EXCEPT ![s].pending = j]
  <2>1. /\ j \in Jobs /\ j # None
        /\ \A r \in Schedules : sched[r].pending # j
    BY RowTypes DEF Inv, Free
  <2>2. /\ fire' \in [Jobs -> FireJob]
        /\ \A k \in Jobs : fire'[k] = IF k = j THEN NewJob(s, ReseedWait(s)) ELSE fire[k]
    BY <1>1, <1>3, <1>4, <2>1, NewJobIsJob DEF Inv, TypeOK
  <2>3. [sched[s] EXCEPT !.pending = j] \in Schedule
    <3>1. sched[s] \in Schedule
      BY <1>3, RowTypes DEF Inv
    <3> QED BY <2>1, <3>1 DEF Schedule
  <2>4. /\ sched' \in [Schedules -> Schedule]
        /\ \A r \in Schedules : r # s => sched'[r] = sched[r]
    BY <1>3, <1>7, <2>3 DEF Inv, TypeOK
  <2>5. /\ sched'[s].status = sched[s].status
        /\ sched'[s].trigger = sched[s].trigger
        /\ sched'[s].runAt = sched[s].runAt
        /\ sched'[s].next = sched[s].next
        /\ sched[s].next # None
        /\ sched'[s].dry = sched[s].dry
        /\ sched'[s].pending = j
    <3>1. sched[s] \in Schedule /\ DOMAIN sched = Schedules
      BY <1>3, RowTypes DEF Inv, TypeOK
    <3>2. sched'[s] = [sched[s] EXCEPT !.pending = j]
      BY <1>3, <1>7, <3>1
    <3> QED BY <3>1, <3>2, ReseedWaits DEF Schedule
  <2>6. TypeOK'
    BY <1>2, <2>2, <2>4 DEF Inv, TypeOK
  <2>7. Timing' /\ OneTaskPerFire'
    <3>1. Timing'
      BY <1>3, <2>4, <2>5 DEF Inv, Timing, Cron, Active
    <3>2. OneTaskPerFire'
      BY <1>3, <1>4, <2>2, NewJobIsJob DEF Inv, OneTaskPerFire
    <3> QED BY <3>1, <3>2
  <2>8. Links'
    BY <1>3, <1>4, <2>1, <2>2, <2>4, <2>5, NewJobIsJob, RowTypes DEF Inv, Links
  <2>9. Once' /\ OneTaskPerInstant'
    BY <1>2, <1>3, <2>4, <2>5 DEF Inv, Once, OneTaskPerInstant, Cron
  <2>10. Spent'
    <3>1. \A r \in Schedules \ {s} : sched[r].pending # None =>
            sched[r].pending \in Jobs /\ fire'[sched[r].pending] = fire[sched[r].pending]
      BY <2>1, <2>2, RowTypes DEF Inv
    <3>2. fire'[j] = NewJob(s, ReseedWait(s)) /\ UNCHANGED made
      BY <1>2, <2>1, <2>2
    <3>3. fire'[j].status = "pending" /\ fire'[j].wait = ReseedWait(s)
      BY <1>3, <1>4, <3>2, NewJobIsJob
    <3> QED BY <1>3, <1>4, <2>4, <2>5, <3>1, <3>2, <3>3 DEF Inv, Spent, Cron, Active
  <2> QED BY <1>5, <2>6, <2>7, <2>8, <2>9, <2>10 DEF Inv
<1> QED BY <1>1, <1>6, <1>7

LEMMA SoonerWaits ==
  /\ \A wait \in Waits : Sooner(wait, 0) \in Waits
  /\ \A wait \in Waits \cup {-1} : Sooner(wait, -1) \in Waits \cup {-1}
  /\ Sooner(None, 0) = None /\ Sooner(None, -1) = None
<1>1. None \notin Waits \cup {-1} /\ Horizon \in Nat
  BY TaskScheduleAssumption DEF Waits, TaskScheduleAssumption
<1> QED BY <1>1 DEF Sooner, Waits

LEMMA AdvanceInv ==
  ASSUME Inv, Advance
  PROVE  Inv'
<1>1. /\ \A j \in Jobs : settling[j] = "no"
      /\ sched' = [s \in Schedules |-> [sched[s] EXCEPT !.runAt = Sooner(@, -1),
                                                      !.next = Sooner(@, 0)]]
      /\ fire' = [j \in Jobs |-> [fire[j] EXCEPT !.wait = Sooner(@, 0)]]
      /\ made' = [s \in Schedules |-> [made[s] EXCEPT !.instant = 0]]
      /\ UNCHANGED <<space, settling, up>>
  BY DEF Advance
<1>2. \A s \in Schedules : /\ sched'[s] \in Schedule
                           /\ sched'[s].status = sched[s].status
                           /\ sched'[s].trigger = sched[s].trigger
                           /\ sched'[s].pending = sched[s].pending
                           /\ sched'[s].dry = sched[s].dry
                           /\ sched'[s].runAt = Sooner(sched[s].runAt, -1)
                           /\ sched'[s].next = Sooner(sched[s].next, 0)
  <2> SUFFICES ASSUME NEW s \in Schedules
               PROVE  /\ sched'[s] \in Schedule
                      /\ sched'[s].status = sched[s].status
                      /\ sched'[s].trigger = sched[s].trigger
                      /\ sched'[s].pending = sched[s].pending
                      /\ sched'[s].dry = sched[s].dry
                      /\ sched'[s].runAt = Sooner(sched[s].runAt, -1)
                      /\ sched'[s].next = Sooner(sched[s].next, 0)
    OBVIOUS
  <2>1. /\ Sooner(sched[s].runAt, -1) \in Waits \cup {-1, None}
        /\ Sooner(sched[s].next, 0) \in Waits \cup {None}
    BY RowTypes, SoonerWaits DEF Inv
  <2>2. sched[s] \in Schedule
    BY RowTypes DEF Inv
  <2>3. sched'[s] = [sched[s] EXCEPT !.runAt = Sooner(sched[s].runAt, -1),
                                     !.next = Sooner(sched[s].next, 0)]
    BY <1>1
  <2> QED BY <2>1, <2>2, <2>3 DEF Schedule
<1>3. \A j \in Jobs : /\ fire'[j] \in FireJob
                      /\ fire'[j].status = fire[j].status
                      /\ fire'[j].schedule = fire[j].schedule
                      /\ fire'[j].tasks = fire[j].tasks
  <2> SUFFICES ASSUME NEW j \in Jobs
               PROVE  /\ fire'[j] \in FireJob
                      /\ fire'[j].status = fire[j].status
                      /\ fire'[j].schedule = fire[j].schedule
                      /\ fire'[j].tasks = fire[j].tasks
    OBVIOUS
  <2>1. Sooner(fire[j].wait, 0) \in Waits /\ fire[j] \in FireJob
    BY RowTypes, SoonerWaits DEF Inv
  <2>2. fire'[j] = [fire[j] EXCEPT !.wait = Sooner(fire[j].wait, 0)]
    BY <1>1
  <2> QED BY <2>1, <2>2 DEF FireJob
<1>4. \A s \in Schedules : /\ made'[s] \in [instant : 0 .. 2, ever : 0 .. 2]
                           /\ made'[s].instant = 0
                           /\ made'[s].ever = made[s].ever
                           /\ made[s].ever \in 0 .. 2
  <2>1. \A m \in [instant : 0 .. 2, ever : 0 .. 2] :
          /\ [m EXCEPT !.instant = 0] \in [instant : 0 .. 2, ever : 0 .. 2]
          /\ [m EXCEPT !.instant = 0].instant = 0
          /\ [m EXCEPT !.instant = 0].ever = m.ever
          /\ m.ever \in 0 .. 2
    OBVIOUS
  <2> QED BY <1>1, <2>1 DEF Inv, TypeOK
<1>5. /\ sched' \in [Schedules -> Schedule]
      /\ fire' \in [Jobs -> FireJob]
      /\ made' \in [Schedules -> [instant : 0 .. 2, ever : 0 .. 2]]
  BY <1>1, <1>2, <1>3, <1>4
<1>6. TypeOK'
  BY <1>1, <1>5 DEF Inv, TypeOK
<1>7. Timing'
  BY <1>2, RowTypes, SoonerWaits DEF Inv, Timing, Cron, Active
<1>8. Links'
  BY <1>2, <1>3, RowTypes DEF Inv, Links
<1>9. OneTaskPerFire' /\ Handled'
  BY <1>1, <1>3 DEF Inv, OneTaskPerFire, Handled
<1>10. Once'
  BY <1>2, <1>4 DEF Inv, Once, Cron
<1>11. OneTaskPerInstant' /\ Spent'
  BY <1>4 DEF OneTaskPerInstant, Spent
<1> QED BY <1>6, <1>7, <1>8, <1>9, <1>10, <1>11 DEF Inv

(* An expression without a further run: nothing else of the schedule moves. *)
LEMMA RunsDryInv ==
  ASSUME Inv, NEW s \in Schedules, RunsDry(s)
  PROVE  Inv'
<1>1. /\ sched' = [sched EXCEPT ![s].dry = TRUE]
      /\ UNCHANGED <<space, fire, settling, up, made>>
      /\ Cron(s)
  BY DEF RunsDry
<1>2. \A r \in Schedules : /\ sched'[r] \in Schedule
                           /\ sched'[r].status = sched[r].status
                           /\ sched'[r].trigger = sched[r].trigger
                           /\ sched'[r].runAt = sched[r].runAt
                           /\ sched'[r].next = sched[r].next
                           /\ sched'[r].pending = sched[r].pending
                           /\ sched'[r].dry = IF r = s THEN TRUE ELSE sched[r].dry
  <2>1. \A x \in Schedule : LET y == [x EXCEPT !.dry = TRUE] IN
          /\ y \in Schedule /\ y.status = x.status /\ y.trigger = x.trigger
          /\ y.runAt = x.runAt /\ y.next = x.next /\ y.pending = x.pending
          /\ y.dry = TRUE
    BY DEF Schedule
  <2>2. \A r \in Schedules : sched'[r] = IF r = s THEN [sched[r] EXCEPT !.dry = TRUE] ELSE sched[r]
    BY <1>1 DEF Inv, TypeOK
  <2>3. \A r \in Schedules : sched[r] \in Schedule
    BY DEF Inv, TypeOK
  <2> QED BY <2>1, <2>2, <2>3
<1>3. sched' \in [Schedules -> Schedule]
  BY <1>1, <1>2 DEF Inv, TypeOK
<1>4. TypeOK'
  BY <1>1, <1>3 DEF Inv, TypeOK
<1>5. Timing'
  BY <1>1, <1>2 DEF Inv, Timing, Cron, Active
<1>6. Links' /\ OneTaskPerFire' /\ Handled'
  BY <1>1, <1>2 DEF Inv, Links, OneTaskPerFire, Handled
<1>7. Once' /\ OneTaskPerInstant'
  BY <1>1, <1>2 DEF Inv, Once, OneTaskPerInstant, Cron
<1>8. Spent'
  BY <1>1, <1>2 DEF Inv, Spent, Cron, Active
<1> QED BY <1>4, <1>5, <1>6, <1>7, <1>8 DEF Inv

-----------------------------------------------------------------------------
(* Theorems *)

LEMMA NextInv ==
  ASSUME Inv, [Next]_vars
  PROVE  Inv'
<1>1. CASE UNCHANGED vars
  <2>1. UNCHANGED <<sched, space, fire, settling, up, made>>
    BY <1>1 DEF vars
  <2>2. TypeOK' /\ Timing' /\ Links' /\ OneTaskPerFire'
    BY <2>1 DEF Inv, TypeOK, Timing, Links, OneTaskPerFire, Cron, Active
  <2>3. Handled' /\ Once' /\ OneTaskPerInstant' /\ Spent'
    BY <2>1 DEF Inv, Handled, Once, OneTaskPerInstant, Spent, Cron, Active
  <2> QED BY <2>2, <2>3 DEF Inv
<1>2. CASE Operate
  BY <1>2, CreateInv, EditInv, EditIdleInv, PauseInv, ResumeInv, RemoveInv,
     CloseSpaceInv, RemoveSpaceInv, ReopenSpaceInv DEF Operate
<1>3. CASE Process
  BY <1>3, FireInv, SettleInv, ReclaimInv, CleanupInv, StartInv, AdvanceInv DEF Process
<1>4. CASE Fault
  BY <1>4, CrashInPauseInv, CrashInResumeInv, RunsDryInv, ReopenSpaceInv, CrashInReopenInv,
     CrashInFireInv, StartCutShortInv, CrashInv DEF Fault
<1> QED BY <1>1, <1>2, <1>3, <1>4 DEF Next

LEMMA Invariance == Spec => []Inv
BY InitInv, NextInv, PTL DEF Spec

(* Every variable keeps its type, whatever the operations and crashes.     *)
THEOREM TypeCorrect == Spec => []TypeOK
<1>1. Inv => TypeOK
  BY DEF Inv
<1> QED BY <1>1, Invariance, PTL

(* The fence on the linked job, read again in the transaction, makes a     *)
(* fire at most one task, retries, reclaims and re-seeded doubles          *)
(* included.                                                               *)
THEOREM OneTaskForEachFire == Spec => []OneTaskPerFire
<1>1. Inv => OneTaskPerFire
  BY DEF Inv
<1> QED BY <1>1, Invariance, PTL

(* A one-shot schedule is completed in the transaction that creates its    *)
(* task, so it never creates a second one.                                 *)
THEOREM OneShotsFireOnce == Spec => []OneShotFiresOnce
<1>1. Inv => OneShotFiresOnce
  BY DEF Inv, Once, OneShotFiresOnce
<1> QED BY <1>1, Invariance, PTL

(* A schedule never fires twice at one point in time.                      *)
THEOREM OneTaskForEachInstant == Spec => []OneTaskPerInstant
<1>1. Inv => OneTaskPerInstant
  BY DEF Inv
<1> QED BY <1>1, Invariance, PTL

(* An active schedule has a next run, so the start always has something to *)
(* find it by, as long as its expression has a next run.                   *)
THEOREM AlwaysWithinReach == Spec => []NeverOutOfReach
<1>1. Inv => NeverOutOfReach
  BY DEF Inv, Timing, NeverOutOfReach
<1> QED BY <1>1, Invariance, PTL

(* A start leaves every active schedule with a live job, except one that   *)
(* let go of its job in a closed space and is not due, or has no next run. *)
THEOREM StartsRearm == Spec => StartRearms
<1>1. ASSUME Inv, Start, NEW s \in Schedules, Active(s)'
      PROVE  \/ Armed(s)'
             \/ /\ sched'[s].pending = None
                /\ IF sched'[s].next = None THEN sched'[s].dry ELSE sched'[s].next > 0
  <2> DEFINE wait == [r \in Lost |-> ReseedWait(r)]
  <2>1. PICK f \in Injection(Lost, Free) :
          /\ fire' = Enqueued(f, wait)
          /\ sched' = [r \in Schedules |-> IF r \in Lost THEN [sched[r] EXCEPT !.pending = f[r]]
                                                         ELSE sched[r]]
    BY <1>1 DEF Start
  <2>2. settling' = settling /\ \A j \in Jobs : settling[j] = "no"
    BY <1>1, Zenon DEF Start, Inv, Handled
  <2>3. Lost \in SUBSET Schedules /\ wait \in [Lost -> Waits]
    BY <1>1, ReseedWaits DEF Lost
  <2> HIDE DEF wait
  <2>4. /\ \A r \in Lost : f[r] \in Free /\ fire'[f[r]] = NewJob(r, wait[r])
        /\ \A j \in Jobs \ Free : fire'[j] = fire[j]
    BY <1>1, <2>1, <2>3, EnqueuedRows DEF Inv
  <2>5. CASE s \in Lost
    <3>1. /\ f[s] \in Jobs /\ f[s] # None
          /\ fire'[f[s]].status = "pending"
      BY <1>1, <2>3, <2>4, <2>5, NewJobIsJob, RowTypes DEF Inv, Free
    <3>2. sched'[s].pending = f[s]
      <4>1. sched'[s] = [sched[s] EXCEPT !.pending = f[s]] /\ sched[s] \in Schedule
        BY <1>1, <2>1, <2>5, RowTypes DEF Inv
      <4> QED BY <4>1 DEF Schedule
    <3>3. settling'[f[s]] = "no"
      BY <2>2, <3>1
    <3>4. sched'[s].status = "active"
      BY <1>1 DEF Active
    <3> QED BY <3>1, <3>2, <3>3, <3>4 DEF Armed, Active
  <2>6. CASE s \notin Lost
    <3>1. sched'[s] = sched[s] /\ sched[s].status = "active"
      BY <1>1, <2>1, <2>6 DEF Active
    <3>2. CASE sched[s].pending = None
      BY <1>1, <2>6, <3>1, <3>2, RowTypes DEF Lost, Inv, Timing, Active, Waits
    <3>3. CASE sched[s].pending # None
      <4>1. sched[s].pending \in Jobs \ Free /\ ~ IsJobLost(sched[s].pending)
        BY <1>1, <2>6, <3>1, <3>3, RowTypes DEF Lost, Inv, Active, Free
      <4>2. fire[sched[s].pending].status \in {"pending", "processing"}
        BY <1>1, <4>1 DEF IsJobLost, Inv, TypeOK, FireJob
      <4>3. /\ settling'[sched[s].pending] = "no"
            /\ fire'[sched[s].pending] = fire[sched[s].pending]
        BY <2>2, <2>4, <4>1
      <4>4. sched'[s].status = "active"
        BY <3>1
      <4> QED BY <3>1, <3>3, <4>2, <4>3, <4>4 DEF Armed, Active
    <3> QED BY <3>2, <3>3
  <2> QED BY <2>5, <2>6
<1>2. Inv /\ [Next]_vars =>
        [Start => \A s \in Schedules :
           Active(s)' => \/ Armed(s)'
                         \/ /\ sched'[s].pending = None
                            /\ IF sched'[s].next = None THEN sched'[s].dry
                                                        ELSE sched'[s].next > 0]_vars
  BY <1>1
<1> QED BY <1>2, Invariance, PTL DEF Spec, StartRearms

-----------------------------------------------------------------------------
(* The promise of JobLedger *)

Entry(row) == [status |-> row.status,
               left   |-> IF row.status = "none" THEN 0 ELSE MaxRetries - row.retries]

(* What a step may do to one row. *)
Arc(old, new) ==
  \/ new.status = old.status /\ new.retries = old.retries
  \/ new.status = "none"
  \/ old.status = "none" /\ new.status = "pending"
  \/ /\ new.retries = old.retries
     /\ \/ old.status = "pending" /\ new.status = "processing"
        \/ old.status = "processing" /\ new.status \in {"completed", "pending"}
        \/ old.status = "processing" /\ old.retries = MaxRetries /\ new.status = "dead"
  \/ /\ old.status = "processing" /\ new.status = "pending"
     /\ new.retries = old.retries + 1

LEMMA EntryIsLine ==
  ASSUME NEW row \in FireJob
  PROVE  Entry(row) \in Ledger!Line
<1>1. MaxRetries - row.retries \in Nat
  BY TaskScheduleAssumption DEF FireJob, TaskScheduleAssumption
<1> QED BY <1>1 DEF Entry, FireJob, Ledger!Line

LEMMA OneRetryLess ==
  ASSUME NEW line \in [status : {"pending", "processing"}, left : Int], NEW n \in Int
  PROVE  [line EXCEPT !.status = "pending", !.left = n] = [status |-> "pending", left |-> n]
<1> DEFINE pending == [line EXCEPT !.status = "pending"]
<1>1. pending = [status |-> "pending", left |-> line.left]
  OBVIOUS
<1>2. pending \in [status : {"pending", "processing"}, left : Int] /\ pending.status = "pending"
  BY <1>1
<1> HIDE DEF pending
<1>3. [pending EXCEPT !.left = n] = [status |-> pending.status, left |-> n]
  BY <1>2
<1> QED BY <1>2, <1>3 DEF pending

LEMMA ArcsAreMoves ==
  ASSUME NEW old \in FireJob, NEW new \in FireJob, Arc(old, new)
  PROVE  Entry(new) = Entry(old) \/ Ledger!Move(Entry(old), Entry(new))
<1>0. /\ MaxRetries \in Nat /\ old.retries \in 0 .. MaxRetries /\ new.retries \in 0 .. MaxRetries
      /\ Entry(old).status = old.status /\ Entry(new).status = new.status
  BY TaskScheduleAssumption DEF FireJob, TaskScheduleAssumption, Entry
<1>1. CASE new.status = old.status /\ new.retries = old.retries
  BY <1>1 DEF Entry
<1>2. CASE new.status = "none"
  <2>1. CASE old.status = "none"
    BY <1>2, <2>1 DEF Entry
  <2>2. CASE old.status # "none"
    BY <1>0, <1>2, <2>2 DEF Ledger!Move
  <2> QED BY <2>1, <2>2
<1>3. CASE old.status = "none" /\ new.status = "pending"
  BY <1>0, <1>3 DEF Ledger!Move
<1>4. CASE new.retries = old.retries /\ old.status = "pending" /\ new.status = "processing"
  BY <1>4 DEF Ledger!Move, Entry
<1>5. CASE /\ new.retries = old.retries /\ old.status = "processing"
           /\ new.status \in {"completed", "pending"}
  BY <1>5 DEF Ledger!Move, Entry
<1>6. CASE /\ new.retries = old.retries /\ old.status = "processing"
           /\ old.retries = MaxRetries /\ new.status = "dead"
  BY <1>0, <1>6 DEF Ledger!Move, Entry
<1>7. CASE /\ old.status = "processing" /\ new.status = "pending"
           /\ new.retries = old.retries + 1
  <2> DEFINE n == Entry(old).left - 1
  <2>1. /\ Entry(old) \in [status : {"pending", "processing"}, left : Int]
        /\ Entry(old).left = MaxRetries - old.retries
    BY <1>0, <1>7 DEF Entry
  <2>2. n \in Int /\ Entry(new) = [status |-> "pending", left |-> n]
    <3>1. MaxRetries - (old.retries + 1) = (MaxRetries - old.retries) - 1
      BY <1>0
    <3> QED BY <1>0, <1>7, <2>1, <3>1 DEF Entry
  <2>3. [Entry(old) EXCEPT !.status = "pending", !.left = @ - 1]
          = [Entry(old) EXCEPT !.status = "pending", !.left = n]
    OBVIOUS
  <2> HIDE DEF n
  <2>4. Entry(new) = [Entry(old) EXCEPT !.status = "pending", !.left = n]
    BY <2>1, <2>2, OneRetryLess
  <2>5. Entry(new) = [Entry(old) EXCEPT !.status = "pending", !.left = @ - 1]
    BY <2>3, <2>4, Zenon
  <2> QED BY <1>0, <1>7, <2>5 DEF Ledger!Move
<1> QED BY <1>1, <1>2, <1>3, <1>4, <1>5, <1>6, <1>7 DEF Arc

-----------------------------------------------------------------------------
(* Every row moves along an arc *)

LEMMA SameRow == \A row : Arc(row, row)
BY DEF Arc

LEMMA NewJobArc ==
  ASSUME TypeOK, NEW j \in Free, NEW s, NEW wait
  PROVE  j \in Jobs /\ Arc(fire[j], NewJob(s, wait))
BY DEF Free, Arc, NewJob

LEMMA NoJobArc == \A row : Arc(row, NoJob)
BY DEF Arc, NoJob

LEMMA WithoutArcs ==
  ASSUME TypeOK, NEW s \in Schedules, NEW j \in Jobs
  PROVE  /\ Arc(fire[j], Without(sched[s].pending)[j])
         /\ Without(sched[s].pending) \in [Jobs -> FireJob]
         /\ j \in Free => Without(sched[s].pending)[j] = fire[j]
<1>1. sched[s].pending \in Jobs \cup {None}
  BY RowTypes
<1>2. /\ Without(sched[s].pending)[j] = IF j = sched[s].pending THEN NoJob ELSE fire[j]
      /\ Without(sched[s].pending) \in [Jobs -> FireJob]
  BY <1>1, WithoutRows
<1> QED BY <1>2, SameRow, NoJobArc DEF Free

LEMMA EnqueuedArcs ==
  ASSUME TypeOK, NEW S \in SUBSET Schedules, NEW f \in Injection(S, Free),
         NEW wait \in [S -> Waits], NEW j \in Jobs
  PROVE  Arc(fire[j], Enqueued(f, wait)[j])
<1>1. CASE Enqueued(f, wait)[j] = fire[j]
  BY <1>1, SameRow
<1>2. CASE \E s \in S : j = f[s]
  <2>1. PICK s \in S : j = f[s]
    BY <1>2
  <2>2. f[s] \in Free /\ Enqueued(f, wait)[j] = NewJob(s, wait[s])
    BY <2>1, EnqueuedRows
  <2> QED BY <2>1, <2>2, NewJobArc
<1> QED BY <1>1, <1>2, EnqueuedRows

LEMMA RecoveredArcs ==
  ASSUME TypeOK, NEW S \in SUBSET Schedules, Recovered(S), NEW j \in Jobs
  PROVE  Arc(fire[j], fire'[j])
<1> DEFINE T == {s \in S : ~ Expired(s) /\ ~ sched[s].dry}
<1>1. PICK f \in Injection(T, Free), next \in [T -> Waits] : fire' = Enqueued(f, next)
  BY Zenon DEF Recovered
<1>2. T \in SUBSET Schedules
  OBVIOUS
<1> HIDE DEF T
<1> QED BY <1>1, <1>2, EnqueuedArcs

LEMMA OnlyClaimArcs ==
  ASSUME TypeOK, NEW k \in Jobs, Due(k), OnlyClaim(k), NEW j \in Jobs
  PROVE  Arc(fire[j], fire'[j])
BY RowTypes, SameRow DEF TypeOK, Due, OnlyClaim, Arc, FireJob

LEMMA FireRunsArcs ==
  ASSUME TypeOK, NEW k \in Jobs, FireRuns(k), NEW j \in Jobs
  PROVE  Arc(fire[j], fire'[j])
<1>1. fire[k].status = "pending" /\ fire[k] \in FireJob
  BY RowTypes DEF FireRuns, Claim, Due
<1> DEFINE s == Target(k)
<1>2. PICK task \in {1} \cup (IF sched[s].goal THEN {0} ELSE {}) :
        /\ made' = IF task = 0 THEN made
                   ELSE [made EXCEPT ![s].instant = Counted(@),
                                   ![s].ever = IF Cron(s) THEN @ ELSE Counted(@)]
        /\ \/ /\ ~ Cron(s) \/ sched[s].dry
              /\ sched' = [sched EXCEPT ![s].status = "completed",
                                        ![s].next = None, ![s].pending = None]
              /\ fire' = [fire EXCEPT ![k].status = "processing",
                                      ![k].tasks = IF task = 0 THEN @ ELSE Counted(@)]
           \/ /\ Cron(s) /\ ~ sched[s].dry
              /\ \E m \in Free, next \in NextRuns("cron", FALSE) :
                   /\ sched' = [sched EXCEPT ![s].next = next, ![s].pending = m]
                   /\ fire' = [fire EXCEPT ![k].status = "processing",
                                           ![k].tasks = IF task = 0 THEN @ ELSE Counted(@),
                                           ![m] = NewJob(s, next)]
  BY Zenon DEF FireRuns
<1> HIDE DEF s
<1>3. CASE fire' = [fire EXCEPT ![k].status = "processing",
                                ![k].tasks = IF task = 0 THEN @ ELSE Counted(@)]
  <2>1. CASE j # k
    BY <1>3, <2>1, SameRow DEF TypeOK
  <2>2. CASE j = k
    <3>1. fire'[k].status = "processing" /\ fire'[k].retries = fire[k].retries
      BY <1>1, <1>3 DEF TypeOK, FireJob
    <3> QED BY <1>1, <2>2, <3>1 DEF Arc
  <2> QED BY <2>1, <2>2
<1>4. CASE \E m \in Free, next \in NextRuns("cron", FALSE) :
             fire' = [fire EXCEPT ![k].status = "processing",
                                  ![k].tasks = IF task = 0 THEN @ ELSE Counted(@),
                                  ![m] = NewJob(s, next)]
  <2>1. PICK m \in Free, next \in NextRuns("cron", FALSE) :
          fire' = [fire EXCEPT ![k].status = "processing",
                               ![k].tasks = IF task = 0 THEN @ ELSE Counted(@),
                               ![m] = NewJob(s, next)]
    BY <1>4
  <2>2. m \in Jobs /\ m # k /\ fire[m].status = "none"
    BY <1>1 DEF Free
  <2>3. CASE j # k /\ j # m
    BY <2>1, <2>3, SameRow DEF TypeOK
  <2>4. CASE j = m
    <3>1. fire'[m] = NewJob(s, next)
      BY <2>1, <2>2 DEF TypeOK
    <3> QED BY <2>4, <3>1, NewJobArc
  <2>5. CASE j = k
    <3>1. fire'[k].status = "processing" /\ fire'[k].retries = fire[k].retries
      BY <1>1, <2>1, <2>2 DEF TypeOK, FireJob
    <3> QED BY <1>1, <2>5, <3>1 DEF Arc
  <2> QED BY <2>3, <2>4, <2>5
<1> QED BY <1>2, <1>3, <1>4, Zenon

LEMMA SettleArcs ==
  ASSUME Inv, NEW k \in Jobs, Settle(k), NEW j \in Jobs
  PROVE  Arc(fire[j], fire'[j])
<1>1. /\ fire[k] \in FireJob /\ fire[k].retries \in 0 .. MaxRetries /\ MaxRetries \in Nat
      /\ fire[k].status \in {"none", "processing"}
  BY RowTypes, TaskScheduleAssumption DEF Inv, Settle, Handled, FireJob, TaskScheduleAssumption
<1>2. CASE j # k
  BY <1>2, SameRow DEF Inv, TypeOK, Settle
<1>3. CASE j = k
  <2>1. fire'[k] = Settled(fire[k], settling[k])
    BY DEF Inv, TypeOK, Settle
  <2>2. Arc(fire[k], Settled(fire[k], settling[k]))
    <3>1. CASE fire[k].status = "none"
      BY <3>1, SameRow DEF Settled
    <3>2. CASE fire[k].status # "none" /\ settling[k] = "ok"
      BY <1>1, <3>2 DEF Settled, Arc, FireJob
    <3>3. CASE fire[k].status # "none" /\ settling[k] # "ok" /\ fire[k].retries < MaxRetries
      <4>1. /\ Settled(fire[k], settling[k]).status = "pending"
            /\ Settled(fire[k], settling[k]).retries = fire[k].retries + 1
        BY <1>1, <3>3 DEF Settled, FireJob
      <4> QED BY <1>1, <3>3, <4>1 DEF Arc
    <3>4. CASE fire[k].status # "none" /\ settling[k] # "ok" /\ ~ (fire[k].retries < MaxRetries)
      <4>1. /\ Settled(fire[k], settling[k]).status = "dead"
            /\ Settled(fire[k], settling[k]).retries = fire[k].retries
            /\ fire[k].retries = MaxRetries
        BY <1>1, <3>4 DEF Settled, FireJob
      <4> QED BY <1>1, <3>4, <4>1 DEF Arc
    <3> QED BY <3>1, <3>2, <3>3, <3>4
  <2> QED BY <1>3, <2>1, <2>2
<1> QED BY <1>2, <1>3

LEMMA StepArcs ==
  ASSUME Inv, [Next]_vars, NEW j \in Jobs
  PROVE  Arc(fire[j], fire'[j])
<1>0. TypeOK
  BY DEF Inv
<1>1. CASE fire' = fire
  BY <1>1, SameRow
<1>2. ASSUME NEW k \in Free, NEW s, NEW wait, NEW rows \in [Jobs -> FireJob],
             \A i \in Jobs : Arc(fire[i], rows[i]), rows[k] = fire[k],
             fire' = [rows EXCEPT ![k] = NewJob(s, wait)]
      PROVE  Arc(fire[j], fire'[j])
  BY <1>0, <1>2, NewJobArc
<1>3. ASSUME NEW k \in Free, NEW s, NEW wait, fire' = [fire EXCEPT ![k] = NewJob(s, wait)]
      PROVE  Arc(fire[j], fire'[j])
  BY <1>0, <1>2, <1>3, SameRow DEF TypeOK
<1>4. CASE Operate
  <2>1. ASSUME NEW s \in Schedules, Create(s) \/ Resume(s) PROVE Arc(fire[j], fire'[j])
    BY <1>1, <1>3, <2>1 DEF Create, Resume
  <2>2. ASSUME NEW s \in Schedules, Edit(s) PROVE Arc(fire[j], fire'[j])
    <3>1. PICK k \in Free,
               next \in NextRuns(sched[s].trigger, FALSE) \cup ({sched[s].runAt} \ {None}) :
            fire' = [Without(sched[s].pending) EXCEPT ![k] = NewJob(s, NotPast(next))]
      BY <2>2 DEF Edit
    <3>2. k \in Jobs
      BY DEF Free
    <3> QED BY <1>0, <1>2, <3>1, <3>2, WithoutArcs
  <2>3. ASSUME NEW s \in Schedules, Pause(s) \/ Remove(s) PROVE Arc(fire[j], fire'[j])
    BY <1>0, <2>3, WithoutArcs DEF Pause, Remove
  <2>4. ASSUME NEW s \in Schedules, EditIdle(s) PROVE Arc(fire[j], fire'[j])
    BY <1>1, <2>4 DEF EditIdle
  <2>5. ASSUME NEW p \in Spaces, CloseSpace(p) \/ RemoveSpace(p) PROVE Arc(fire[j], fire'[j])
    BY <1>1, <2>5 DEF CloseSpace, RemoveSpace
  <2>6. ASSUME NEW p \in Spaces, ReopenSpace(p) PROVE Arc(fire[j], fire'[j])
    <3>1. Stranded(p) \in SUBSET Schedules
      BY DEF Stranded
    <3> QED BY <1>0, <2>6, <3>1, RecoveredArcs DEF ReopenSpace
  <2> QED BY <1>4, <2>1, <2>2, <2>3, <2>4, <2>5, <2>6 DEF Operate
<1>5. CASE Process
  <2>1. ASSUME NEW k \in Jobs, Fire(k) PROVE Arc(fire[j], fire'[j])
    <3>1. CASE FireRuns(k)
      BY <1>0, <3>1, FireRunsArcs
    <3>2. CASE ~ FireRuns(k)
      <4>1. Due(k) /\ OnlyClaim(k)
        BY <2>1, <3>2 DEF Fire, FireSkips, FireInClosedSpace, LettingGoFails, FireThrows, Claim
      <4> QED BY <1>0, <4>1, OnlyClaimArcs
    <3> QED BY <3>1, <3>2
  <2>2. ASSUME NEW k \in Jobs, Settle(k) PROVE Arc(fire[j], fire'[j])
    BY <2>2, SettleArcs
  <2>3. ASSUME NEW k \in Jobs, Reclaim(k) PROVE Arc(fire[j], fire'[j])
    BY <1>0, <2>3, RowTypes, SameRow DEF Reclaim, TypeOK, Arc, FireJob
  <2>4. ASSUME NEW k \in Jobs, Cleanup(k) PROVE Arc(fire[j], fire'[j])
    BY <1>0, <2>4, SameRow, NoJobArc DEF Cleanup, TypeOK
  <2>5. CASE Start
    <3> DEFINE wait == [s \in Lost |-> ReseedWait(s)]
    <3>1. PICK f \in Injection(Lost, Free) : fire' = Enqueued(f, wait)
      BY <2>5 DEF Start
    <3>2. Lost \in SUBSET Schedules /\ wait \in [Lost -> Waits]
      BY ReseedWaits DEF Lost
    <3> HIDE DEF wait
    <3> QED BY <1>0, <3>1, <3>2, EnqueuedArcs
  <2>6. CASE Advance
    <3>1. fire'[j] = [fire[j] EXCEPT !.wait = Sooner(@, 0)] /\ fire[j] \in FireJob
      BY <1>0, <2>6, RowTypes, Zenon DEF Advance
    <3>2. fire'[j].status = fire[j].status /\ fire'[j].retries = fire[j].retries
      BY <3>1 DEF FireJob
    <3> QED BY <3>2 DEF Arc
  <2> QED BY <1>5, <2>1, <2>2, <2>3, <2>4, <2>5, <2>6 DEF Process
<1>6. CASE Fault
  <2>1. ASSUME NEW s \in Schedules, CrashInPause(s) PROVE Arc(fire[j], fire'[j])
    BY <1>0, <2>1, WithoutArcs DEF CrashInPause
  <2>2. ASSUME NEW s \in Schedules, CrashInResume(s) PROVE Arc(fire[j], fire'[j])
    BY <1>3, <2>2 DEF CrashInResume
  <2>3. ASSUME NEW p \in Spaces, ReopenSpacePartly(p) \/ CrashInReopen(p)
        PROVE  Arc(fire[j], fire'[j])
    <3>1. PICK S \in SUBSET Stranded(p) : Recovered(S)
      BY <2>3 DEF ReopenSpacePartly, CrashInReopen
    <3>2. S \in SUBSET Schedules
      BY DEF Stranded
    <3> QED BY <1>0, <3>1, <3>2, RecoveredArcs
  <2>4. ASSUME NEW k \in Jobs, CrashInFire(k) PROVE Arc(fire[j], fire'[j])
    BY <1>0, <2>4, OnlyClaimArcs DEF CrashInFire
  <2>5. CASE StartCutShort
    BY <1>3, <2>5 DEF StartCutShort
  <2>6. CASE Crash
    BY <1>1, <2>6 DEF Crash
  <2>7. ASSUME NEW s \in Schedules, RunsDry(s) PROVE Arc(fire[j], fire'[j])
    BY <1>1, <2>7 DEF RunsDry
  <2> QED BY <1>6, <2>1, <2>2, <2>3, <2>4, <2>5, <2>6, <2>7 DEF Fault
<1>7. CASE UNCHANGED vars
  BY <1>1, <1>7 DEF vars
<1> QED BY <1>4, <1>5, <1>6, <1>7 DEF Next

(* The queue of fire jobs implements JobLedger: whatever the services, the *)
(* handler, the crashes and the re-seeding do to the rows, each moves      *)
(* along the arcs of a job's life.                                         *)
THEOREM FireJobsKeepLedger == Spec => KeepsLedger
<1> DEFINE entries == [j \in Jobs |-> Entry(fire[j])]
<1>1. Init => Ledger!Init
  <2> SUFFICES ASSUME Init PROVE Ledger!Init
    OBVIOUS
  <2>1. Entry(NoJob) \in Ledger!Line /\ Entry(NoJob).status = "none"
    BY NoJobIsJob, EntryIsLine DEF Entry
  <2>2. \A j \in Jobs : Entry(fire[j]) \in Ledger!Line /\ Entry(fire[j]).status = "none"
    BY <2>1 DEF Init
  <2> QED BY <2>2 DEF Ledger!Init, Entry
<1>2. Inv /\ Inv' /\ [Next]_vars => [Ledger!Next]_entries
  <2> SUFFICES ASSUME Inv, Inv', [Next]_vars PROVE Ledger!Next
    OBVIOUS
  <2>1. \A j \in Jobs : fire[j] \in FireJob /\ fire'[j] \in FireJob
    BY DEF Inv, TypeOK
  <2>2. \A j \in Jobs : \/ Entry(fire'[j]) = Entry(fire[j])
                        \/ Ledger!Move(Entry(fire[j]), Entry(fire'[j]))
    BY <2>1, StepArcs, ArcsAreMoves
  <2>3. \A j \in Jobs : Entry(fire'[j]) \in Ledger!Line
    BY <2>1, EntryIsLine
  <2> QED BY <2>2, <2>3 DEF Ledger!Next, Entry
<1> QED
  BY <1>1, <1>2, Invariance, PTL DEF Spec, KeepsLedger, Ledger!Spec, Entry

=============================================================================
