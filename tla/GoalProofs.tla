----------------------------- MODULE GoalProofs -----------------------------
(* Proofs about Goal, for any set of tasks.                                *)
EXTENDS Goal, TLAPS

(* The inductive invariant: whatever is at work and was neither reopened   *)
(* nor orphaned is the task that the goal has claimed.                     *)
WorkIsClaimed ==
  \A t \in Working \ (reopened \cup orphaned) : goal.active = t

Inv == TypeOK /\ WorkIsClaimed

(* The fields of a goal, and what the helpers make of one.                 *)
LEMMA GoalFields ==
  ASSUME NEW g \in Goals
  PROVE  /\ g.status \in GoalStatuses /\ g.auto \in BOOLEAN
         /\ g.active \in Tasks \cup {None} /\ g.queued \in BOOLEAN
BY DEF Goals

LEMMA ActiveSet ==
  ASSUME NEW g \in Goals, NEW a \in Tasks \cup {None}
  PROVE  [g EXCEPT !.active = a] \in Goals
BY DEF Goals

LEMMA StatusSet ==
  ASSUME NEW g \in Goals, NEW s \in GoalStatuses
  PROVE  [g EXCEPT !.status = s] \in Goals
BY DEF Goals

LEMMA AutoSet ==
  ASSUME NEW g \in Goals, NEW b \in BOOLEAN
  PROVE  [g EXCEPT !.auto = b] \in Goals
BY DEF Goals

LEMMA QueuedSet ==
  ASSUME NEW g \in Goals, NEW b \in BOOLEAN
  PROVE  [g EXCEPT !.queued = b] \in Goals
BY DEF Goals

LEMMA ClaimedGoal ==
  ASSUME NEW g \in Goals, NEW t \in Tasks
  PROVE  Claimed(g, t) \in Goals /\ Claimed(g, t).active = t
BY DEF Goals, Claimed

(* A new task of a goal that is not busy is the only one it knows of.      *)
LEMMA StartPreserves ==
  ASSUME Inv, NEW g \in Goals, ~ Busy(g), g.active \in {goal.active, None},
         g.active = None => goal.active = None \/ ~ Busy(goal),
         NEW t \in Tasks, Works(t), goal' = Claimed(g, t),
         orphaned' = orphaned \ {t}
  PROVE  /\ goal' \in Goals
         /\ task' \in [Tasks -> {"none", "working", "ended", "archived"}]
         /\ reopened' \subseteq Tasks /\ orphaned' \subseteq Tasks
         /\ WorkIsClaimed'
<1>1. goal' \in Goals /\ goal'.active = t
  BY ClaimedGoal
<1>2. /\ task' = [task EXCEPT ![t] = "working"]
      /\ task \in [Tasks -> {"none", "working", "ended", "archived"}]
      /\ reopened' = reopened \ {t}
  BY DEF Inv, TypeOK, Works
<1>3. \A u \in Working : u \in reopened \cup orphaned
  BY GoalAssumption DEF Inv, WorkIsClaimed, Busy, Working
<1>4. WorkIsClaimed'
  BY <1>1, <1>2, <1>3 DEF WorkIsClaimed, Working
<1> QED
  BY <1>1, <1>2, <1>4 DEF Inv, TypeOK

(* createImmediateTask() keeps the invariant.                              *)
LEMMA ImmediatePreserves ==
  ASSUME Inv, NEW g \in Goals, g.active \in {goal.active, None},
         g.active = None => goal.active = None \/ ~ Busy(goal),
         Immediate(g)
  PROVE  /\ goal' \in Goals
         /\ task' \in [Tasks -> {"none", "working", "ended", "archived"}]
         /\ reopened' \subseteq Tasks /\ orphaned' \subseteq Tasks
         /\ WorkIsClaimed'
<1>1. CASE Busy(g)
  <2>1. /\ goal' = [g EXCEPT !.queued = @ \/ g.auto]
        /\ UNCHANGED <<task, reopened, orphaned>>
    BY <1>1 DEF Immediate
  <2>2. goal' \in Goals
    <3>1. (g.queued \/ g.auto) \in BOOLEAN
      BY GoalFields
    <3> QED
      BY <2>1, <3>1, QueuedSet
  <2>3. goal'.active = goal.active
    <3>1. goal'.active = g.active
      BY <2>1 DEF Goals
    <3>2. g.active # None
      BY <1>1 DEF Busy
    <3> QED
      BY <3>1, <3>2
  <2> QED
    BY <2>1, <2>2, <2>3 DEF Inv, TypeOK, WorkIsClaimed, Working
<1>2. CASE ~ Busy(g)
  <2>1. PICK t \in Free : Works(t) /\ goal' = Claimed(g, t) /\ orphaned' = orphaned \ {t}
    BY <1>2 DEF Immediate
  <2>2. t \in Tasks
    BY DEF Free
  <2> QED
    BY <1>2, <2>1, <2>2, StartPreserves
<1> QED
  BY <1>1, <1>2

LEMMA InitInv == Init => Inv
<1> SUFFICES ASSUME Init PROVE Inv
  OBVIOUS
<1>1. goal \in Goals
  BY DEF Init, Goals, GoalStatuses
<1> QED
  BY <1>1 DEF Init, Inv, TypeOK, WorkIsClaimed, Working

(* Every step keeps the invariant.                                         *)
LEMMA NextInv == Inv /\ [Next]_vars => Inv'
<1> SUFFICES ASSUME Inv, [Next]_vars PROVE Inv'
  OBVIOUS
<1>g. goal \in Goals
  BY DEF Inv, TypeOK
<1>1. CASE Trigger
  <2>1. Immediate(goal) /\ UNCHANGED <<schedule, open, telling>>
    BY <1>1 DEF Trigger
  <2>2. goal.active \in {goal.active, None} /\ (goal.active = None => goal.active = None)
    OBVIOUS
  <2>3. /\ goal' \in Goals
        /\ task' \in [Tasks -> {"none", "working", "ended", "archived"}]
        /\ reopened' \subseteq Tasks /\ orphaned' \subseteq Tasks
        /\ WorkIsClaimed'
    BY <1>g, <2>1, <2>2, ImmediatePreserves
  <2> QED
    BY <2>1, <2>3 DEF Inv, TypeOK
<1>2. CASE Fire
  <2>1. CASE ~ Claimable /\ UNCHANGED <<goal, task, reopened, orphaned>>
    BY <1>2, <2>1 DEF Fire, Inv, TypeOK, WorkIsClaimed, Working
  <2>2. CASE Claimable /\ \E t \in Free : /\ Works(t)
                                          /\ goal' = Claimed(goal, t)
                                          /\ orphaned' = orphaned \ {t}
    <3>1. PICK t \in Free : Works(t) /\ goal' = Claimed(goal, t) /\ orphaned' = orphaned \ {t}
      BY <2>2
    <3>2. t \in Tasks /\ ~ Busy(goal)
      BY <2>2 DEF Free, Claimable
    <3>3. /\ goal' \in Goals
          /\ task' \in [Tasks -> {"none", "working", "ended", "archived"}]
          /\ reopened' \subseteq Tasks /\ orphaned' \subseteq Tasks
          /\ WorkIsClaimed'
      BY <1>g, <3>1, <3>2, StartPreserves
    <3> QED
      BY <1>2, <3>3 DEF Fire, Inv, TypeOK
  <2> QED
    BY <1>2, <2>1, <2>2 DEF Fire
<1>3. CASE EditSchedule
  BY <1>3 DEF EditSchedule, Inv, TypeOK, WorkIsClaimed, Working
<1>4. CASE SetAuto
  <2>1. goal' \in Goals
    BY <1>g, <1>4, GoalFields, AutoSet DEF SetAuto
  <2>2. goal'.active = goal.active
    BY <1>g, <1>4 DEF SetAuto, Goals
  <2> QED
    BY <1>4, <2>1, <2>2 DEF SetAuto, Inv, TypeOK, WorkIsClaimed, Working
<1>5. CASE SetOpen
  BY <1>5 DEF SetOpen, Inv, TypeOK, WorkIsClaimed, Working
<1>6. ASSUME NEW t \in Tasks, Tell(t) PROVE Inv'
  <2> DEFINE cleared == IF goal.active = t THEN [goal EXCEPT !.active = None] ELSE goal
  <2>1. /\ cleared \in Goals
        /\ cleared.active \in {goal.active, None}
    BY <1>g, GoalFields, ActiveSet DEF Goals
  <2>2. UNCHANGED <<schedule, open>> /\ telling' \subseteq Tasks
    BY <1>6 DEF Tell, Inv, TypeOK
  <2>3. CASE Terminal(t) /\ TellStarts /\ open
    <3>1. Immediate(cleared)
      BY <1>6, <2>3 DEF Tell
    <3>2. cleared.active = None => goal.active = None \/ ~ Busy(goal)
      BY <2>3 DEF Terminal, Busy
    <3>3. /\ goal' \in Goals
          /\ task' \in [Tasks -> {"none", "working", "ended", "archived"}]
          /\ reopened' \subseteq Tasks /\ orphaned' \subseteq Tasks
          /\ WorkIsClaimed'
      <4> HIDE DEF cleared
      <4> QED
        BY <2>1, <3>1, <3>2, ImmediatePreserves
    <3> QED
      BY <2>2, <3>3 DEF Inv, TypeOK
  <2>4. CASE Terminal(t) /\ ~ (TellStarts /\ open)
    <3>1. goal' = cleared /\ UNCHANGED <<task, reopened, orphaned>>
      BY <1>6, <2>4 DEF Tell
    <3>2. t \notin Working
      BY <2>4 DEF Terminal, Working
    <3>3. WorkIsClaimed'
      BY <1>g, <3>1, <3>2 DEF Inv, WorkIsClaimed, Working
    <3> QED
      BY <2>1, <2>2, <3>1, <3>3 DEF Inv, TypeOK
  <2>5. CASE ~ Terminal(t)
    BY <1>6, <2>2, <2>5 DEF Tell, Inv, TypeOK, WorkIsClaimed, Working
  <2> QED
    BY <2>3, <2>4, <2>5
<1>7. ASSUME NEW t \in Tasks, End(t) PROVE Inv'
  BY <1>7 DEF End, Inv, TypeOK, WorkIsClaimed, Working
<1>8. ASSUME NEW t \in Tasks, EndQuietly(t) PROVE Inv'
  BY <1>8 DEF EndQuietly, Inv, TypeOK, WorkIsClaimed, Working
<1>9. ASSUME NEW t \in Tasks, Reopen(t) PROVE Inv'
  BY <1>9 DEF Reopen, Inv, TypeOK, WorkIsClaimed, Working
<1>10. ASSUME NEW status \in GoalStatuses, SetStatus(status) PROVE Inv'
  <2>1. goal' \in Goals
    BY <1>g, <1>10, StatusSet DEF SetStatus
  <2>2. goal'.active = goal.active
    BY <1>g, <1>10 DEF SetStatus, Goals
  <2>3. schedule' \in {"none", "active", "paused", "gone"}
    BY <1>10 DEF SetStatus, Linked, Inv, TypeOK
  <2> QED
    BY <1>10, <2>1, <2>2, <2>3 DEF SetStatus, Inv, TypeOK, WorkIsClaimed, Working
<1>11. CASE Crash
  BY <1>11 DEF Crash, Inv, TypeOK, WorkIsClaimed, Working
<1>12. CASE CrashInTrigger
  <2>1. PICK t \in Free : Works(t) /\ orphaned' = orphaned \cup {t}
    BY <1>12 DEF CrashInTrigger
  <2>2. t \in Tasks
    BY DEF Free
  <2>3. goal' \in Goals
    BY <1>g, <1>12, ActiveSet DEF CrashInTrigger
  <2>4. \A u \in Working : u \in reopened \cup orphaned
    BY <1>12, GoalAssumption DEF CrashInTrigger, Inv, WorkIsClaimed, Busy, Working
  <2>5. /\ task' = [task EXCEPT ![t] = "working"]
        /\ task \in [Tasks -> {"none", "working", "ended", "archived"}]
        /\ reopened' = reopened \ {t}
    BY <2>1 DEF Works, Inv, TypeOK
  <2>6. WorkIsClaimed'
    BY <2>1, <2>2, <2>4, <2>5 DEF WorkIsClaimed, Working
  <2> QED
    BY <1>12, <2>1, <2>2, <2>3, <2>5, <2>6 DEF CrashInTrigger, Inv, TypeOK
<1>13. CASE CrashInSetStatus
  BY <1>13 DEF CrashInSetStatus, Linked, Inv, TypeOK, WorkIsClaimed, Working
<1>14. ASSUME NEW t \in Tasks, CrashInTell(t) PROVE Inv'
  <2>1. goal' \in Goals
    BY <1>g, <1>14, ActiveSet DEF CrashInTell
  <2>2. t \notin Working /\ goal.active = t
    BY <1>14 DEF CrashInTell, Terminal, Working
  <2>3. WorkIsClaimed'
    BY <1>14, <2>2 DEF CrashInTell, Inv, WorkIsClaimed, Working
  <2> QED
    BY <1>14, <2>1, <2>3 DEF CrashInTell, Inv, TypeOK
<1>15. CASE UNCHANGED vars
  BY <1>15 DEF vars, Inv, TypeOK, WorkIsClaimed, Working
<1> QED
  BY <1>1, <1>2, <1>3, <1>4, <1>5, <1>6, <1>7, <1>8, <1>9, <1>10, <1>11, <1>12,
     <1>13, <1>14, <1>15 DEF Next, Operate, Quiet, Fault

(* The goal's row, its tasks and the rest keep their types.                *)
THEOREM TypeCorrect == Spec => []TypeOK
<1>1. Inv => TypeOK
  BY DEF Inv
<1> QED
  BY InitInv, NextInv, <1>1, PTL DEF Spec

(* Triggers, ends of tasks and scheduled check-ins together keep at most   *)
(* one task of a goal at work, apart from reopened and orphaned ones.      *)
THEOREM OneTaskForAGoal == Spec => []OneTaskAtATime
<1>1. Inv => OneTaskAtATime
  BY DEF Inv, WorkIsClaimed, OneTaskAtATime
<1> QED
  BY InitInv, NextInv, <1>1, PTL DEF Spec

(* A goal at rest claims no task: neither a late handleTaskTerminal() nor  *)
(* a schedule that was left active starts one.                             *)
THEOREM RestingGoals == Spec => RestingGoalsStartNothing
<1>1. Inv /\ [Next]_vars => [goal'.active \notin {goal.active, None} => Live]_vars
  <2> SUFFICES ASSUME Inv, Next, goal'.active \notin {goal.active, None} PROVE Live
    BY DEF vars
  <2>g. goal \in Goals
    BY DEF Inv, TypeOK
  <2>1. CASE Trigger
    BY <2>1 DEF Trigger
  <2>2. CASE Fire
    BY <2>2 DEF Fire, Claimable, Live
  <2>3. ASSUME NEW t \in Tasks, Tell(t) PROVE Live
    <3> DEFINE cleared == IF goal.active = t THEN [goal EXCEPT !.active = None] ELSE goal
    <3>1. cleared.active \in {goal.active, None}
      BY <2>g DEF Goals
    <3>2. goal' # cleared /\ goal' # goal
      BY <3>1
    <3>3. TellStarts /\ open
      BY <2>3, <3>2 DEF Tell
    <3> QED
      BY <3>3 DEF TellStarts, Live
  <2>4. CASE SetAuto
    BY <2>g, <2>4 DEF SetAuto, Goals
  <2>5. ASSUME NEW status \in GoalStatuses, SetStatus(status) PROVE Live
    BY <2>g, <2>5 DEF SetStatus, Goals
  <2>6. CASE CrashInTrigger
    BY <2>6 DEF CrashInTrigger
  <2>7. CASE \/ EditSchedule \/ SetOpen \/ Quiet \/ Crash \/ CrashInSetStatus
             \/ \E t \in Tasks : End(t) \/ Reopen(t)
    BY <2>7 DEF EditSchedule, SetOpen, Quiet, EndQuietly, Crash, CrashInSetStatus, End, Reopen
  <2>8. ASSUME NEW t \in Tasks, CrashInTell(t) PROVE Live
    BY <2>g, <2>8 DEF CrashInTell, Goals
  <2> QED
    BY <2>1, <2>2, <2>3, <2>4, <2>5, <2>6, <2>7, <2>8 DEF Next, Operate, Fault
<1> QED
  BY InitInv, NextInv, <1>1, PTL DEF Spec, RestingGoalsStartNothing

-----------------------------------------------------------------------------
(* The safety behind ToldRunStarts: somebody is on the way to start a run  *)
(* that waits, because the claimed task is at work or its end is about to  *)
(* be told.                                                                *)
Coming ==
  goal.active # None /\ (task[goal.active] = "working" \/ goal.active \in telling)

(* A run is queued only behind a task whose end will start it, and as long *)
(* as it waits it loses that task only to a caller that does not tell the  *)
(* goal, or to a fault.                                                    *)
QueuedRunIsComing ==
  [][/\ ~ goal.queued /\ goal'.queued => Coming'
     /\ Queued /\ Coming /\ Queued' => Coming' \/ Quiet \/ Fault]_vars

ToldTasksExist == \A t \in telling : task[t] # "none"

LEMMA ToldTasksStep ==
  ASSUME Inv, ToldTasksExist, [Next]_vars
  PROVE  ToldTasksExist'
<1>0. task \in [Tasks -> {"none", "working", "ended", "archived"}] /\ telling \subseteq Tasks
  BY DEF Inv, TypeOK
<1>1. ASSUME NEW t \in Tasks, Works(t) PROVE \A u \in Tasks : task[u] # "none" => task'[u] # "none"
  BY <1>0, <1>1 DEF Works
<1>2. ASSUME NEW g, Immediate(g) PROVE \A u \in Tasks : task[u] # "none" => task'[u] # "none"
  <2>1. \A t \in Free : t \in Tasks
    BY DEF Free
  <2> QED
    BY <1>1, <1>2, <2>1 DEF Immediate
<1>3. CASE Trigger
  BY <1>0, <1>2, <1>3 DEF Trigger, ToldTasksExist
<1>4. CASE Fire
  <2>1. \A t \in Free : t \in Tasks
    BY DEF Free
  <2> QED
    BY <1>0, <1>1, <1>4, <2>1 DEF Fire, ToldTasksExist
<1>5. ASSUME NEW t \in Tasks, Tell(t) PROVE ToldTasksExist'
  <2>1. \A u \in Tasks : task[u] # "none" => task'[u] # "none"
    BY <1>2, <1>5 DEF Tell
  <2>2. telling' \subseteq telling
    BY <1>5 DEF Tell
  <2> QED
    BY <1>0, <2>1, <2>2 DEF ToldTasksExist
<1>6. ASSUME NEW t \in Tasks, End(t) \/ EndQuietly(t) \/ Reopen(t) PROVE ToldTasksExist'
  BY <1>0, <1>6 DEF End, EndQuietly, Reopen, ToldTasksExist
<1>7. CASE CrashInTrigger \/ CrashInSetStatus
  BY <1>7 DEF CrashInTrigger, CrashInSetStatus, ToldTasksExist
<1>8. CASE EditSchedule \/ SetAuto \/ SetOpen \/ Crash \/ UNCHANGED vars
  BY <1>8 DEF EditSchedule, SetAuto, SetOpen, Crash, vars, ToldTasksExist
<1>9. ASSUME NEW status \in GoalStatuses, SetStatus(status) PROVE ToldTasksExist'
  BY <1>9 DEF SetStatus, ToldTasksExist
<1>10. ASSUME NEW t \in Tasks, CrashInTell(t) PROVE ToldTasksExist'
  BY <1>10 DEF CrashInTell, ToldTasksExist
<1> QED
  BY <1>3, <1>4, <1>5, <1>6, <1>7, <1>8, <1>9, <1>10 DEF Next, Operate, Quiet, Fault

(* createImmediateTask() queues a run behind a working task, and otherwise *)
(* starts it.                                                              *)
LEMMA ImmediateComes ==
  ASSUME Inv, NEW g \in Goals, Immediate(g)
  PROVE  \/ /\ goal'.active = g.active /\ g.active # None
            /\ task' = task /\ task[g.active] = "working"
         \/ ~ goal'.queued
<1>1. CASE Busy(g)
  BY <1>1 DEF Immediate, Busy, Goals
<1>2. CASE ~ Busy(g)
  BY <1>2 DEF Immediate, Claimed, Goals
<1> QED
  BY <1>1, <1>2

LEMMA ComingStep ==
  ASSUME Inv, ToldTasksExist, [Next]_vars
  PROVE  /\ ~ goal.queued /\ goal'.queued => Coming'
         /\ Queued /\ Coming /\ Queued' => Coming' \/ Quiet \/ Fault \/ UNCHANGED vars
<1>0. /\ task \in [Tasks -> {"none", "working", "ended", "archived"}]
      /\ telling \subseteq Tasks /\ goal \in Goals
  BY DEF Inv, TypeOK
<1> DEFINE Goes == /\ ~ goal.queued /\ goal'.queued => Coming'
                   /\ Queued /\ Coming /\ Queued' => Coming' \/ Quiet \/ Fault \/ UNCHANGED vars
<1>1. CASE Trigger
  BY <1>0, <1>1, ImmediateComes DEF Trigger, Coming, Queued
<1>2. CASE Fire
  <2>1. \A t : ~ Claimed(goal, t).queued
    BY <1>0 DEF Claimed, Goals
  <2> QED
    BY <1>2, <2>1 DEF Fire, Coming, Queued
<1>3. ASSUME NEW t \in Tasks, Tell(t) PROVE Goes
  <2> DEFINE cleared == IF goal.active = t THEN [goal EXCEPT !.active = None] ELSE goal
  <2>1. /\ cleared \in Goals /\ cleared.queued = goal.queued
        /\ goal.active # t => cleared = goal
        /\ goal.active = t => cleared.active = None
    BY <1>0 DEF Goals
  <2>2. telling' = telling \ {t} /\ t \in telling
    BY <1>3 DEF Tell
  <2>3. CASE Terminal(t) /\ TellStarts /\ open
    <3>1. Immediate(cleared)
      BY <1>3, <2>3 DEF Tell
    <3> HIDE DEF cleared
    <3>2. \/ goal'.active = cleared.active /\ cleared.active # None /\ task' = task
             /\ task[cleared.active] = "working"
          \/ ~ goal'.queued
      BY <2>1, <3>1, ImmediateComes
    <3> QED
      BY <3>2 DEF Coming, Queued
  <2>4. CASE Terminal(t) /\ ~ (TellStarts /\ open)
    <3>1. goal' = cleared /\ task' = task
      BY <1>3, <2>4 DEF Tell
    <3>2. ~ Queued
      BY <2>4 DEF Queued, TellStarts, Live
    <3> QED
      BY <2>1, <3>1, <3>2
  <2>5. CASE ~ Terminal(t)
    <3>1. goal' = goal /\ task' = task /\ task[t] = "working"
      BY <1>0, <1>3, <2>2, <2>5 DEF Tell, Terminal, ToldTasksExist
    <3> QED
      BY <2>2, <3>1 DEF Coming
  <2> QED
    BY <2>3, <2>4, <2>5
<1>4. ASSUME NEW t \in Tasks, End(t) \/ Reopen(t) PROVE Goes
  BY <1>0, <1>4 DEF End, Reopen, Coming, Goals
<1>5. CASE SetAuto
  BY <1>0, <1>5 DEF SetAuto, Coming, Goals
<1>6. ASSUME NEW status \in GoalStatuses, SetStatus(status) PROVE Goes
  BY <1>0, <1>6 DEF SetStatus, Coming, Goals
<1>7. CASE EditSchedule \/ SetOpen \/ UNCHANGED vars
  BY <1>7 DEF EditSchedule, SetOpen, vars, Coming
<1>8. CASE Quiet
  BY <1>8 DEF Quiet, EndQuietly
<1>9. CASE Fault
  BY <1>0, <1>9 DEF Fault, Crash, CrashInTrigger, CrashInSetStatus, CrashInTell, Goals
<1> QED
  BY <1>1, <1>2, <1>3, <1>4, <1>5, <1>6, <1>7, <1>8, <1>9 DEF Next, Operate

(* With createImmediateTask() and handleTaskTerminal(), a queued run is    *)
(* never forgotten but by a caller that keeps quiet or by a crash.         *)
THEOREM QueuedRunsAreComing == Spec => QueuedRunIsComing
<1>1. Init => Inv /\ ToldTasksExist
  BY InitInv DEF Init, ToldTasksExist
<1>2. Inv /\ ToldTasksExist /\ [Next]_vars => (Inv /\ ToldTasksExist)'
  BY NextInv, ToldTasksStep
<1>3. Inv /\ ToldTasksExist /\ [Next]_vars
        => [/\ ~ goal.queued /\ goal'.queued => Coming'
            /\ Queued /\ Coming /\ Queued' => Coming' \/ Quiet \/ Fault]_vars
  BY ComingStep
<1> QED
  BY <1>1, <1>2, <1>3, PTL DEF Spec, QueuedRunIsComing

=============================================================================
