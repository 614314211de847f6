-------------------------------- MODULE Goal --------------------------------
(***************************************************************************)
(* A goal of a space (SpaceGoalService): the task it has claimed, the one  *)
(* follow-up run it may queue, and the check-in schedule linked to it.     *)
(* Goals share no rows, so one goal stands for all.                        *)
(*                                                                         *)
(* A task's status is written first; handleTaskTerminal() is called later, *)
(* by some of the callers, after an await.  The service is synchronous,    *)
(* but a trigger and a change of status are several statements without a   *)
(* transaction, and the process may die between two of them.               *)
(*                                                                         *)
(* The nine task statuses are told apart as far as a goal does: working    *)
(* (open, in_progress, review, approved), ended (done, blocked, cancelled) *)
(* and archived, which is final.  Of the schedule, TaskSchedule has the    *)
(* whole; here it fires whenever it is active and the space is open.       *)
(***************************************************************************)
EXTENDS FiniteSets, Naturals

CONSTANTS
  Tasks, \* task ids; the id of an archived task nothing refers to is reused
  None   \* SQL NULL

ASSUME GoalAssumption == None \notin Tasks

VARIABLES
  goal,     \* the row of space_goals
  schedule, \* the schedule it is linked to
  open,     \* the space is active, neither paused nor stopped
  task,     \* the goal's tasks
  telling,  \* tasks with a handleTaskTerminal() still to be called
  reopened, \* tasks that went on working after they had ended
  orphaned  \* tasks that a crash left without a claim, or whose telling it cut short

vars == <<goal, schedule, open, task, telling, reopened, orphaned>>

-----------------------------------------------------------------------------
GoalStatuses == {"active", "paused", "completed", "archived"}

Goals == [status : GoalStatuses,
          auto   : BOOLEAN,
          active : Tasks \cup {None},
          queued : BOOLEAN]

Working == {t \in Tasks : task[t] = "working"}
Terminal(t) == task[t] \in {"ended", "archived"}

Free ==
  {t \in Tasks : /\ task[t] \in {"none", "archived"}
                 /\ t # goal.active
                 /\ t \notin telling}

(* The claimed task is still being worked on. *)
Busy(g) == g.active # None /\ task[g.active] = "working"

(* createTask(): the row of a new task. *)
Works(t) ==
  /\ t \in Free
  /\ task' = [task EXCEPT ![t] = "working"]
  /\ reopened' = reopened \ {t}

(* claimActiveTask() *)
Claimed(g, t) == [g EXCEPT !.active = t, !.queued = FALSE]

(* createImmediateTask() of an active goal in an open space.  Without      *)
(* autoTriggerNext a busy goal only throws.                                *)
Immediate(g) ==
  \/ /\ Busy(g)
     /\ goal' = [g EXCEPT !.queued = @ \/ g.auto]
     /\ UNCHANGED <<task, reopened, orphaned>>
  \/ /\ ~ Busy(g)
     /\ \E t \in Free : /\ Works(t)
                        /\ goal' = Claimed(g, t)
                        /\ orphaned' = orphaned \ {t}

Live == goal.status = "active" /\ open

-----------------------------------------------------------------------------
Init ==
  /\ goal \in [status : {"active"}, auto : BOOLEAN, active : {None}, queued : {FALSE}]
  /\ schedule \in {"none", "active"}
  /\ open = TRUE
  /\ task = [t \in Tasks |-> "none"]
  /\ telling = {}
  /\ reopened = {}
  /\ orphaned = {}

(* createImmediateTask(), from the RPC or the agent tool. *)
Trigger ==
  /\ Live
  /\ Immediate(goal)
  /\ UNCHANGED <<schedule, open, telling>>

TellStartsInverted == \* mutant: the test of pendingNextRun is inverted
  goal.auto /\ ~ goal.queued /\ goal.status = "active"

(* The end of a task starts the queued run. *)
TellStarts == goal.auto /\ goal.queued /\ goal.status = "active"

(* handleTaskTerminal(): the pointer is cleared if it names t; in a closed *)
(* space the start of the queued run throws, which the caller logs.        *)
Tell(t) ==
  /\ t \in telling
  /\ telling' = telling \ {t}
  /\ LET cleared == IF goal.active = t THEN [goal EXCEPT !.active = None] ELSE goal IN
     IF Terminal(t)
       THEN IF TellStarts /\ open THEN Immediate(cleared)
            ELSE goal' = cleared /\ UNCHANGED <<task, reopened, orphaned>>
       ELSE UNCHANGED <<goal, task, reopened, orphaned>>
  /\ UNCHANGED <<schedule, open>>

-----------------------------------------------------------------------------
(* Tasks *)

(* A working task ends, or an ended one is archived, and the goal is told: *)
(* the runtime, the status RPC, approve_task, mark_complete.               *)
End(t) ==
  /\ \/ task[t] = "working" /\ task' = [task EXCEPT ![t] = "ended"]
     \/ task[t] \in {"working", "ended"} /\ task' = [task EXCEPT ![t] = "archived"]
  /\ telling' = telling \cup {t}
  /\ UNCHANGED <<goal, schedule, open, reopened, orphaned>>

(* The same by callers that do not tell the goal: the tools cancel_task    *)
(* and archive_task, and cancelling a workflow run or all work of a space. *)
EndQuietly(t) ==
  /\ \/ task[t] = "working" /\ task' = [task EXCEPT ![t] = "ended"]
     \/ task[t] \in {"working", "ended"} /\ task' = [task EXCEPT ![t] = "archived"]
  /\ UNCHANGED <<goal, schedule, open, telling, reopened, orphaned>>

(* An ended task is taken up again. *)
Reopen(t) ==
  /\ task[t] = "ended"
  /\ task' = [task EXCEPT ![t] = "working"]
  /\ reopened' = reopened \cup {t}
  /\ UNCHANGED <<goal, schedule, open, telling, orphaned>>

-----------------------------------------------------------------------------
(* The schedule *)

ClaimableIfActive == \* mutant: the claimed task is not looked at
  goal.status = "active"
ClaimableIfIdle == \* mutant: the goal's status is not looked at
  ~ Busy(goal)

(* canClaimScheduledTask() *)
Claimable == goal.status = "active" /\ ~ Busy(goal)

(* The transaction of the fire handler: a task, claimed, or nothing. *)
Fire ==
  /\ schedule = "active"
  /\ open
  /\ \/ ~ Claimable /\ UNCHANGED <<goal, task, reopened, orphaned>>
     \/ /\ Claimable
        /\ \E t \in Free : /\ Works(t)
                           /\ goal' = Claimed(goal, t)
                           /\ orphaned' = orphaned \ {t}
  /\ UNCHANGED <<schedule, open, telling>>

(* The schedule's own operations, by hand. *)
EditSchedule ==
  /\ \/ schedule = "active" /\ schedule' \in {"paused", "gone"}
     \/ schedule = "paused" /\ schedule' \in {"active", "gone"}
  /\ UNCHANGED <<goal, open, task, telling, reopened, orphaned>>

-----------------------------------------------------------------------------
(* The goal *)

(* pauseLinkedScheduleOrClear(), resumeLinkedScheduleOrClear() *)
Linked(status) ==
  CASE schedule = "gone" -> "none"
    [] schedule = "active" /\ status # "active" -> "paused"
    [] schedule = "paused" /\ status = "active" -> "active"
    [] OTHER -> schedule

(* pauseGoal(), resumeGoal(), updateGoal(): first the linked schedule,     *)
(* then the goal.                                                          *)
SetStatus(status) ==
  /\ goal.status \notin {status, "archived"}
  /\ schedule' = Linked(status)
  /\ goal' = [goal EXCEPT !.status = status]
  /\ UNCHANGED <<open, task, telling, reopened, orphaned>>

SetAuto ==
  /\ goal' = [goal EXCEPT !.auto = ~ @]
  /\ UNCHANGED <<schedule, open, task, telling, reopened, orphaned>>

SetOpen ==
  /\ open' = ~ open
  /\ UNCHANGED <<goal, schedule, task, telling, reopened, orphaned>>

-----------------------------------------------------------------------------
(* The process dies, or a call to handleTaskTerminal() throws at once. *)
Crash ==
  /\ telling' \in SUBSET telling \ {telling}
  /\ UNCHANGED <<goal, schedule, open, task, reopened, orphaned>>

(* Between createTask() and claimActiveTask(). *)
CrashInTrigger ==
  /\ Live
  /\ ~ Busy(goal)
  /\ telling' = {}
  /\ goal' = [goal EXCEPT !.active = None]
  /\ \E t \in Free : Works(t) /\ orphaned' = orphaned \cup {t}
  /\ UNCHANGED <<schedule, open>>

(* In handleTaskTerminal(), between the clearing of the pointer and the    *)
(* start of the queued run.                                                *)
CrashInTell(t) ==
  /\ t \in telling
  /\ Terminal(t)
  /\ goal.active = t
  /\ telling' = {}
  /\ goal' = [goal EXCEPT !.active = None]
  /\ orphaned' = orphaned \cup {t}
  /\ UNCHANGED <<schedule, open, task, reopened>>

(* Between the schedule's change and the goal's. *)
CrashInSetStatus ==
  /\ telling' = {}
  /\ \E status \in GoalStatuses \ {goal.status} :
       goal.status # "archived" /\ schedule' = Linked(status)
  /\ UNCHANGED <<goal, open, task, reopened, orphaned>>

Operate ==
  \/ Trigger \/ Fire \/ EditSchedule \/ SetAuto \/ SetOpen
  \/ \E t \in Tasks : Tell(t) \/ End(t) \/ Reopen(t)
  \/ \E status \in GoalStatuses : SetStatus(status)

Quiet == \E t \in Tasks : EndQuietly(t)

Fault ==
  \/ Crash \/ CrashInTrigger \/ CrashInSetStatus
  \/ \E t \in Tasks : CrashInTell(t)

Next == Operate \/ Quiet \/ Fault

Spec == Init /\ [][Next]_vars

(* A terminal task's caller goes on after its await. *)
Fairness == \A t \in Tasks : WF_vars(Tell(t))

FairSpec == Spec /\ Fairness

-----------------------------------------------------------------------------
(* Every variable has its type. *)
TypeOK ==
  /\ goal \in Goals
  /\ schedule \in {"none", "active", "paused", "gone"}
  /\ open \in BOOLEAN
  /\ task \in [Tasks -> {"none", "working", "ended", "archived"}]
  /\ telling \subseteq Tasks
  /\ reopened \subseteq Tasks
  /\ orphaned \subseteq Tasks

(* Whatever starts its tasks (a trigger, the end of a task, the schedule), *)
(* a goal has at most one at work, not counting those that were taken up   *)
(* again after their end or that a crash left without a claim.             *)
OneTaskAtATime ==
  \A t, u \in Working \ (reopened \cup orphaned) : t = u

(* A goal that is not active, or whose space is closed, starts no task,    *)
(* although its schedule may be active.                                    *)
RestingGoalsStartNothing ==
  [][goal'.active \notin {goal.active, None} => Live]_vars

(* A run queued behind the claimed task starts after the end of that task, *)
(* if tasks end, once nobody operates the goal any more; unless nobody     *)
(* tells the goal of that end (a caller that keeps quiet, a call that is   *)
(* lost), or the process died after the goal had let go of its task and    *)
(* before it claimed that of the queued run.                               *)
(* Bound: an id is left for it.                                            *)
Calm == <>[][\E t \in Tasks : Tell(t) \/ End(t)]_vars
TasksEnd == \A t \in Tasks : task[t] = "working" ~> task[t] # "working"

Queued == goal.queued /\ goal.auto /\ Live

Untold ==
  goal.active # None /\ Terminal(goal.active) /\ goal.active \notin telling
CutShort == goal.active = None /\ orphaned # {}

ToldRunStarts ==
  Calm /\ TasksEnd
    => (Queued /\ Busy(goal) ~> ~ Queued \/ Free = {} \/ Untold \/ CutShort)

=============================================================================
