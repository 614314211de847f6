----------------------------- MODULE WorkflowRun -----------------------------
(* The runtime of one workflow run (packages/daemon/src/lib/space/runtime):    *)
(* the tick of SpaceRuntime over the run, its task and its node executions,    *)
(* the agent sessions TaskAgentManager keeps for them, the messages by which   *)
(* agents activate each other's node, the RPCs of a human, and a restart.      *)
(*                                                                             *)
(* One run, its one canonical task, one agent per node. The tick is one        *)
(* process: `pc` says which `await` it is at, `snap` what it read before it.   *)
(* The space is neither paused nor out of task slots; tool continuations, the  *)
(* queue of pending messages and gates are left out (see PendingMessages and   *)
(* ChannelRouter).                                                             *)
EXTENDS Naturals, FiniteSets

CONSTANTS
    Nodes,             \* nodes of the workflow
    EndNode,           \* workflow.endNodeId
    MaxCrashRetries,   \* MAX_TASK_AGENT_CRASH_RETRIES
    MaxBlockedRetries, \* MAX_BLOCKED_RUN_RETRIES
    MaxNags,           \* MAX_AGENT_STUCK_NAGS
    MaxRestarts,       \* MAX_AGENT_STUCK_RESTARTS
    MaxActs            \* bound: human RPCs, session errors, failed spawns, deletions, crashes

ASSUME RunAssumption ==
    /\ EndNode \in Nodes
    /\ {MaxCrashRetries, MaxBlockedRetries, MaxNags, MaxRestarts, MaxActs} \subseteq Nat

VARIABLES
    \* rows of the database
    run, task, reported,  \* run.status; task.status; task.reportedStatus # null
    exec, bound,          \* per node: execution.status, agentSessionId # null
    \* per node, the session its execution is bound to
    place,                \* where it lives
    hears,                \* its completion listener is subscribed
    work,                 \* what the agent does, and how its transcript ends
    \* memory of SpaceRuntime
    driven,               \* the executors map holds the run
    crash, retries,       \* taskCrashCounts, blockedRetryCounts
    stuck,                \* agentStuckRecovery
    pc, snap,             \* the tick
    acts                  \* counts towards MaxActs

rows == <<run, task, reported, exec, bound>>
sessions == <<place, hears, work>>
memory == <<driven, crash, retries, stuck>>
vars == <<run, task, reported, exec, bound, place, hears, work,
          driven, crash, retries, stuck, pc, snap, acts>>

RunStatus == {"in_progress", "blocked", "done", "cancelled"}
TaskStatus == {"open", "in_progress", "review", "approved", "blocked", "done", "cancelled"}
ExecStatus == {"none", "pending", "in_progress", "idle", "blocked", "cancelled"}

(* indexed: in agentSessionIndex; stopped: taken out of it, still in           *)
(* subSessions and the SessionManager; row: in the database, and in the        *)
(* SessionManager once it was asked for; none: no row.                         *)
Place == {"none", "row", "stopped", "indexed"}
Work == {"silent", "working", "ended"}
Pc == {"off", "idle", "retry", "mark", "live", "stuck", "spawn", "busy", "settle", "clean"}

NoNag == [nags |-> 0, restarts |-> 0, same |-> TRUE]
NoSnap == [task |-> "open", complete |-> FALSE, seen |-> {}, pre |-> {}, todo |-> {},
           failed |-> FALSE, gone |-> FALSE]

Init ==
    /\ run = "in_progress" /\ task = "open" /\ reported = FALSE
    /\ \E start \in Nodes : exec = [n \in Nodes |-> IF n = start THEN "pending" ELSE "none"]
    /\ bound = [n \in Nodes |-> FALSE]
    /\ place = [n \in Nodes |-> "none"]
    /\ hears = [n \in Nodes |-> FALSE]
    /\ work = [n \in Nodes |-> "silent"]
    /\ driven = TRUE /\ retries = 0
    /\ crash = [n \in Nodes |-> 0]
    /\ stuck = [n \in Nodes |-> NoNag]
    /\ pc = "idle" /\ snap = NoSnap /\ acts = 0

-----------------------------------------------------------------------------
(* ---- what the handlers share ---- *)

NoWayBack(from, to) == \* mutant: a blocked run may only be cancelled
    \/ from \in {"in_progress", "blocked"} /\ to = "cancelled"
    \/ from = "in_progress" /\ to \in {"done", "blocked"}
    \/ from \in {"done", "cancelled"} /\ to = "in_progress"

(* workflow-run-status-machine.ts *)
CanTransition(from, to) ==
    \/ from \in {"in_progress", "blocked"} /\ to = "cancelled"
    \/ from = "in_progress" /\ to \in {"done", "blocked"}
    \/ from \in {"blocked", "done", "cancelled"} /\ to = "in_progress"

(* CompletionDetector.isComplete *)
IsComplete == task \in {"done", "cancelled"} \/ reported

(* isSessionAlive: SessionManager.getSession loads a session that is only a    *)
(* row, and a fresh session is idle, hence alive.                              *)
IsSessionAlive(n) == bound[n] /\ place[n] # "none"

With(f, S, v) == [n \in Nodes |-> IF n \in S THEN v ELSE f[n]]

TickStaysInFlight == \* mutant: tickInFlight is not cleared when the tick throws
    UNCHANGED <<pc, snap>>
EndWithoutCleanUp == \* mutant: the tick returns before the executors are cleaned up
    pc' = "idle" /\ snap' = NoSnap

(* An exception leaves the tick: nothing of it follows, the cleanup included.  *)
Throw == pc' = "idle" /\ snap' = NoSnap
EndOfRun == pc' = "clean" /\ snap' = NoSnap

(* The block* helpers: the run first, the task after an await. *)
Block(reads) ==
    IF CanTransition(run, "blocked")
    THEN run' = "blocked" /\ pc' = "mark" /\ snap' = [NoSnap EXCEPT !.task = reads, !.complete = snap.complete]
    ELSE Throw /\ UNCHANGED run

AnyStatus == TRUE \* mutant: the task manager accepts `approved` from every status

(* dispatchPostApproval: through `approved`, and to `done` where the workflow  *)
(* has no post-approval route. setTaskStatus refuses `approved` from the rest. *)
CanApprove == task \in {"in_progress", "review", "approved"}
Approve == task' \in {"approved", "done"}

(* resetWorkflowNodeExecutionForSpawnRetry for every node of S *)
Count(S) == [n \in Nodes |-> IF n \in S /\ crash[n] <= MaxCrashRetries THEN crash[n] + 1 ELSE crash[n]]
Exhausted(S) == {n \in S : Count(S)[n] > MaxCrashRetries}
ResetForRetry(S) ==
    /\ crash' = Count(S)
    /\ exec' = [n \in Nodes |-> IF n \notin S THEN exec[n]
                                ELSE IF n \in Exhausted(S) THEN "blocked" ELSE "pending"]

-----------------------------------------------------------------------------
(* ---- the tick ---- *)

(* executeTick reaches processRunTick, and there the first await *)
TickBegin ==
    /\ pc = "idle"
    /\ \/ /\ ~driven \/ run \in {"done", "cancelled"}
          /\ stuck' = IF driven THEN [n \in Nodes |-> NoNag] ELSE stuck
          /\ EndOfRun
          /\ UNCHANGED run
       \/ /\ driven /\ run = "blocked"
          /\ LET blocked == {n \in Nodes : exec[n] = "blocked"}
             IN IF blocked # {} /\ retries < MaxBlockedRetries
                THEN pc' = "retry" /\ snap' = [NoSnap EXCEPT !.todo = blocked, !.task = task]
                ELSE EndOfRun
          /\ UNCHANGED <<run, stuck>>
       \/ /\ driven /\ run = "in_progress"
          /\ IF (\E n \in Nodes : exec[n] = "blocked") /\ ~IsComplete
             THEN Block(task)
             ELSE /\ pc' = "live"
                  /\ snap' = [NoSnap EXCEPT
                                !.task = task, !.complete = IsComplete,
                                !.seen = {n \in Nodes : bound[n] /\ exec[n] \in {"pending", "in_progress"}},
                                !.pre = {n \in Nodes : exec[n] = "pending"}]
                  /\ UNCHANGED run
          /\ UNCHANGED stuck
    /\ UNCHANGED <<task, reported, exec, bound, sessions, driven, crash, retries, acts>>

(* attemptBlockedRunRecovery, after its await: what it read before it is reset *)
RetryBlocked ==
    /\ pc = "retry"
    /\ exec' = With(exec, snap.todo, "pending")
    /\ retries' = retries + 1
    /\ IF CanTransition(run, "in_progress")
       THEN /\ run' = "in_progress"
            /\ task' = IF snap.task = "blocked" THEN "in_progress" ELSE task
            /\ EndOfRun
       ELSE Throw /\ UNCHANGED <<run, task>>
    /\ UNCHANGED <<reported, bound, place, hears, work, driven, crash, stuck, acts>>

(* the task of a run the tick has just blocked *)
MarkTask ==
    /\ pc = "mark"
    /\ task' = IF snap.task # "blocked" THEN "blocked" ELSE task
    /\ EndOfRun
    /\ UNCHANGED <<run, reported, exec, bound, sessions, memory, acts>>

(* Step 1: executions whose session is gone are reset, or blocked for good *)
CheckSessions ==
    /\ pc = "live"
    /\ LET dead == {n \in snap.seen : ~IsSessionAlive(n)}
       IN /\ ResetForRetry(dead)
          /\ IF Exhausted(dead) # {}
             THEN Block(snap.task)
             ELSE pc' = "stuck" /\ snap' = [snap EXCEPT !.todo = Nodes] /\ UNCHANGED run
    /\ UNCHANGED <<task, reported, bound, place, hears, work, driven, retries, stuck, acts>>

WatchedInIndex(n) == \* mutant: only the sessions of agentSessionIndex are watched
    exec[n] = "in_progress" /\ bound[n] /\ place[n] = "indexed"
Watched(n) == exec[n] = "in_progress" /\ bound[n] /\ place[n] # "none"
Seen(n) == IF stuck[n].same THEN stuck[n] ELSE NoNag

(* whether the threshold, or the grace of the nag, is over, is a choice *)
MayBeStuck(n) == pc = "stuck" /\ n \in snap.todo /\ Watched(n) /\ work[n] # "ended"

(* handleAliveStuckExecutions, a stuck execution: nagged (the message starts a *)
(* turn, and a session that is in no map of TaskAgentManager is rehydrated for *)
(* it), ...                                                                    *)
Nag(n) ==
    /\ MayBeStuck(n) /\ Seen(n).nags < MaxNags
    /\ stuck' = [stuck EXCEPT ![n] = [Seen(n) EXCEPT !.nags = @ + 1]]
    /\ work' = [work EXCEPT ![n] = "working"]
    /\ place' = [place EXCEPT ![n] = IF @ = "row" THEN "indexed" ELSE @]
    /\ hears' = [hears EXCEPT ![n] = @ \/ place[n] = "row"]
    /\ snap' = [snap EXCEPT !.todo = @ \ {n}]
    /\ UNCHANGED <<rows, driven, crash, retries, pc, acts>>

(* ... then restarted (the session is stopped and unbound, the tick of the run  *)
(* ends), and at the limit of restarts blocked with the run.                   *)
Restart(n) ==
    /\ MayBeStuck(n) /\ Seen(n).nags >= MaxNags
    /\ LET again == Seen(n).restarts < MaxRestarts
       IN /\ exec' = [exec EXCEPT ![n] = IF again THEN "pending" ELSE "blocked"]
          /\ bound' = [bound EXCEPT ![n] = ~again]
          /\ place' = [place EXCEPT ![n] = IF again THEN "none" ELSE @]
          /\ hears' = [hears EXCEPT ![n] = @ /\ ~again]
          /\ work' = [work EXCEPT ![n] = IF again THEN "silent" ELSE @]
          /\ stuck' = [stuck EXCEPT ![n] =
                IF again THEN [nags |-> Seen(n).nags, restarts |-> Seen(n).restarts + 1, same |-> FALSE]
                         ELSE Seen(n)]
          /\ IF again THEN EndOfRun /\ UNCHANGED run ELSE Block("in_progress")
    /\ UNCHANGED <<task, reported, driven, crash, retries, acts>>

(* What the pass remembers of an execution that is not stuck. *)
Recalled(n) ==
    IF Watched(n) THEN (IF work[n] = "ended" THEN NoNag ELSE Seen(n))
    ELSE IF exec[n] = "pending" \/ (exec[n] = "in_progress" /\ bound[n]) THEN stuck[n]
    ELSE NoNag

(* Completion by the value read at the start of the tick, else the repair of   *)
(* pending executions whose session lives, and the executions to spawn.        *)
Decide ==
    /\ pc = "stuck"
    /\ stuck' = [n \in Nodes |-> IF n \in snap.todo THEN Recalled(n) ELSE stuck[n]]
    /\ IF snap.complete
       THEN IF CanTransition(run, "done")
            THEN run' = "done" /\ pc' = "settle" /\ UNCHANGED <<snap, exec>>
            ELSE Throw /\ UNCHANGED <<run, exec>>
       ELSE LET asked == {n \in snap.pre : exec[n] = "pending"}
                alive == {n \in asked : IsSessionAlive(n)}
                pending == {n \in Nodes : exec[n] = "pending"} \ alive
            IN /\ exec' = With(exec, alive, "in_progress")
               /\ IF pending = {} \/ snap.task \in {"done", "cancelled"}
                  THEN EndOfRun
                  ELSE pc' = "spawn" /\ snap' = [snap EXCEPT !.todo = pending]
               /\ UNCHANGED run
    /\ UNCHANGED <<task, reported, bound, sessions, driven, crash, retries, acts>>

(* spawnWorkflowNodeAgentForExecution of a listed execution. A bound session   *)
(* in the index is taken as it is; otherwise createSubSession reuses the       *)
(* session of the agent or makes a new one, before the next await.             *)
SpawnLive(n) ==
    /\ pc = "spawn" /\ n \in snap.todo /\ bound[n] /\ place[n] = "indexed"
    /\ exec' = [exec EXCEPT ![n] = "in_progress"]
    /\ snap' = [snap EXCEPT !.todo = @ \ {n}]
    /\ UNCHANGED <<run, task, reported, bound, sessions, memory, pc, acts>>

Reusable(n) == bound[n] /\ place[n] \in {"row", "stopped"}

SpawnStart(n) ==
    /\ pc = "spawn" /\ n \in snap.todo /\ ~(bound[n] /\ place[n] = "indexed")
    /\ pc' = "busy" /\ snap' = [snap EXCEPT !.pre = {n}]
    /\ exec' = [exec EXCEPT ![n] = IF Reusable(n) \/ ~bound[n] THEN "in_progress" ELSE @]
    /\ stuck' = [stuck EXCEPT ![n].same = @ /\ Reusable(n)]
    /\ bound' = [bound EXCEPT ![n] = TRUE]
    /\ place' = [place EXCEPT ![n] = "indexed"]
    /\ hears' = [hears EXCEPT ![n] = Reusable(n)]
    /\ work' = [work EXCEPT ![n] = IF Reusable(n) THEN @ ELSE "silent"]
    /\ UNCHANGED <<run, task, reported, driven, crash, retries, acts>>

(* the kickoff is sent: whatever happened to the execution meanwhile, it is    *)
(* written in_progress *)
SpawnDone(n) ==
    /\ pc = "busy" /\ n \in snap.pre
    /\ exec' = [exec EXCEPT ![n] = "in_progress"]
    /\ hears' = [hears EXCEPT ![n] = TRUE]
    /\ work' = [work EXCEPT ![n] = "working"]
    /\ pc' = "spawn" /\ snap' = [snap EXCEPT !.todo = @ \ {n}, !.pre = {}]
    /\ UNCHANGED <<run, task, reported, bound, place, memory, acts>>

(* a transient failure: the session is stopped, and the execution reset unless *)
(* it has ended by itself *)
SpawnFails(n) ==
    /\ pc = "busy" /\ n \in snap.pre /\ acts < MaxActs
    /\ acts' = acts + 1
    /\ place' = [place EXCEPT ![n] = "stopped"]
    /\ hears' = [hears EXCEPT ![n] = FALSE]
    /\ work' = [work EXCEPT ![n] = "silent"]
    /\ LET reset == {n} \ {m \in Nodes : exec[m] \in {"cancelled", "blocked", "idle"}}
       IN /\ ResetForRetry(reset)
          /\ snap' = [snap EXCEPT !.todo = @ \ {n}, !.pre = {}, !.failed = @ \/ Exhausted(reset) # {}]
    /\ pc' = "spawn"
    /\ UNCHANGED <<run, task, reported, bound, driven, retries, stuck>>

(* a permanent one, before there is a session *)
SpawnImpossible(n) ==
    /\ pc = "spawn" /\ n \in snap.todo /\ ~(bound[n] /\ place[n] = "indexed") /\ acts < MaxActs
    /\ acts' = acts + 1
    /\ exec' = [exec EXCEPT ![n] = "cancelled"]
    /\ snap' = [snap EXCEPT !.todo = @ \ {n}, !.gone = TRUE]
    /\ UNCHANGED <<run, task, reported, bound, place, hears, work, memory, pc>>

(* The task read as `open` is written in_progress, whatever it has become. *)
SpawnsEnd ==
    /\ pc = "spawn" /\ snap.todo = {}
    /\ IF snap.gone /\ \A n \in Nodes : exec[n] \in {"none", "idle", "cancelled"}
       THEN Block("in_progress") /\ UNCHANGED task
       ELSE IF snap.failed
       THEN Block(snap.task) /\ UNCHANGED task
       ELSE /\ task' = IF snap.task = "open" THEN "in_progress" ELSE task
            /\ EndOfRun /\ UNCHANGED run
    /\ UNCHANGED <<reported, exec, bound, sessions, memory, acts>>

(* The run is done: its task goes through approval unless it was resolved when *)
(* it was read, and the executions of the other nodes are quiesced.            *)
Settle ==
    /\ pc = "settle"
    /\ LET resolved == snap.task \notin {"open", "in_progress"}
           siblings == {n \in Nodes \ {EndNode} : exec[n] = "in_progress" /\ bound[n]}
           quiesced == IF snap.task = "review" THEN {} ELSE siblings
       IN IF ~resolved /\ ~CanApprove
          THEN Throw /\ UNCHANGED <<task, exec, work>>
          ELSE /\ IF resolved THEN UNCHANGED task ELSE Approve
               /\ exec' = With(exec, quiesced, "idle")
               /\ work' = [n \in Nodes |-> IF n \in quiesced /\ place[n] = "indexed" /\ work[n] = "working"
                                           THEN "silent" ELSE work[n]]
               /\ EndOfRun
    /\ UNCHANGED <<run, reported, bound, place, hears, memory, acts>>

(* cleanupTerminalExecutors and reconcileTerminalRunsWithoutExecutors: both    *)
(* reconcile the task of a terminal run, the first also drops its executor.    *)
CleanUp ==
    /\ pc = "clean"
    /\ Throw
    /\ IF run = "done" /\ task \in {"open", "in_progress"}
       THEN IF CanApprove THEN Approve /\ driven' = FALSE ELSE UNCHANGED <<task, driven>>
       ELSE /\ task' = IF run = "cancelled" THEN "cancelled" ELSE task
            /\ driven' = (driven /\ run \notin {"done", "cancelled"})
    /\ stuck' = IF driven /\ run \in {"done", "cancelled"} THEN [n \in Nodes |-> NoNag] ELSE stuck
    /\ UNCHANGED <<run, reported, exec, bound, sessions, crash, retries, acts>>

-----------------------------------------------------------------------------
(* ---- agents, which run while the tick waits ---- *)

Up == pc # "off"
Running(n) == Up /\ bound[n] /\ place[n] \in {"indexed", "stopped"} /\ work[n] = "working"

(* a message of the agent is progress: the next tick forgets the nag *)
Progress(n) ==
    /\ Running(n)
    /\ stuck' = [stuck EXCEPT ![n] = [NoNag EXCEPT !.same = stuck[n].same]]
    /\ UNCHANGED <<rows, place, hears, work, driven, crash, retries, pc, snap, acts>>

(* The turn ends, properly or not; the listener fires once, and with it        *)
(* handleSubSessionComplete. *)
TurnEnds(n) ==
    /\ Running(n)
    /\ \E end \in {"ended", "silent"} : work' = [work EXCEPT ![n] = end]
    /\ hears' = [hears EXCEPT ![n] = FALSE]
    /\ exec' = [exec EXCEPT ![n] = IF hears[n] /\ @ = "in_progress" THEN "idle" ELSE @]
    /\ UNCHANGED <<run, task, reported, bound, place, memory, pc, snap, acts>>

(* handleSubSessionError *)
TurnFails(n) ==
    /\ Running(n) /\ hears[n] /\ acts < MaxActs
    /\ acts' = acts + 1
    /\ work' = [work EXCEPT ![n] = "silent"]
    /\ hears' = [hears EXCEPT ![n] = FALSE]
    /\ exec' = [exec EXCEPT ![n] = IF @ \in {"idle", "cancelled"} THEN @ ELSE "blocked"]
    /\ UNCHANGED <<run, task, reported, bound, place, memory, pc, snap>>

(* approve_task of the end node's agent asks nothing of the task's status *)
Report ==
    /\ Running(EndNode) /\ ~reported
    /\ reported' = TRUE
    /\ UNCHANGED <<run, task, exec, bound, sessions, memory, pc, snap, acts>>

(* submit_for_approval *)
Submit ==
    /\ Running(EndNode) /\ task \in {"open", "in_progress", "blocked"}
    /\ task' = "review"
    /\ UNCHANGED <<run, reported, exec, bound, sessions, memory, pc, snap, acts>>

(* mark_complete of the post-approval agent *)
MarkComplete ==
    /\ Up /\ task = "approved"
    /\ task' = "done"
    /\ UNCHANGED <<run, reported, exec, bound, sessions, memory, pc, snap, acts>>

(* An agent writes to the agent of another node. activateTargetSessionsForMessage *)
(* restores its session, activateNode reopens a terminal run and activates the  *)
(* node, and a target without a session is spawned. *)
Message(n, m) ==
    /\ Running(n) /\ m # n
    /\ run' = IF run \in {"done", "cancelled"} /\ exec[m] \notin {"in_progress", "blocked"}
              THEN "in_progress" ELSE run
    /\ IF ~IsSessionAlive(m) /\ task = "cancelled"   \* validateTaskAllowsSpawn
       THEN exec' = [exec EXCEPT ![m] = "pending"] /\ UNCHANGED <<bound, sessions, stuck>>
       ELSE /\ exec' = [exec EXCEPT ![m] = IF IsSessionAlive(m) /\ @ = "blocked" THEN @ ELSE "in_progress"]
            /\ hears' = [hears EXCEPT ![m] = @ \/ place[m] # "indexed"]
            /\ stuck' = [stuck EXCEPT ![m] = IF IsSessionAlive(m) THEN [NoNag EXCEPT !.same = stuck[m].same]
                                             ELSE [@ EXCEPT !.same = FALSE]]
            /\ bound' = [bound EXCEPT ![m] = TRUE]
            /\ place' = [place EXCEPT ![m] = "indexed"]
            /\ work' = [work EXCEPT ![m] = "working"]
    /\ UNCHANGED <<task, reported, driven, crash, retries, pc, snap, acts>>

-----------------------------------------------------------------------------
(* ---- a human ---- *)

Act == Up /\ acts < MaxActs /\ acts' = acts + 1

(* VALID_SPACE_TASK_TRANSITIONS, but for drafts and the archive *)
TaskMoves == [
    open        |-> {"in_progress", "blocked", "review", "done", "cancelled"},
    in_progress |-> {"open", "review", "approved", "done", "blocked", "cancelled"},
    review      |-> {"done", "approved", "in_progress", "cancelled"},
    approved    |-> {"done", "in_progress"},
    done        |-> {"in_progress"},
    blocked     |-> {"open", "in_progress", "review"},
    cancelled   |-> {"open", "in_progress", "done"}]

IsWorkflowRecoveryTransition(from, to) ==
    \/ from = "done" /\ to = "in_progress"
    \/ from \in {"blocked", "cancelled"} /\ to \in {"open", "in_progress"}

(* spaceTask.update writes the status of the task alone. It keeps `review` and *)
(* `approved` for the handlers that own them, and a recovery for RecoverTask.  *)
UpdateTask ==
    /\ Act
    /\ \E to \in TaskMoves[task] \ {"review", "approved"} :
          ~IsWorkflowRecoveryTransition(task, to) /\ task' = to
    /\ UNCHANGED <<run, reported, exec, bound, sessions, memory, pc, snap>>

(* retry_task, a tool of the space's agent, takes a task up again without      *)
(* recovering its run *)
RetryTask ==
    /\ Act /\ task \in {"blocked", "cancelled", "done"}
    /\ task' = IF task = "blocked" THEN "open" ELSE "in_progress"
    /\ UNCHANGED <<run, reported, exec, bound, sessions, memory, pc, snap>>

(* spaceWorkflowRun.cancel, .resume and .markFailed *)
CancelRun ==
    /\ Act /\ run \in {"in_progress", "blocked"}
    /\ run' = "cancelled"
    /\ task' = IF task \in {"open", "in_progress"} THEN "cancelled" ELSE task
    /\ UNCHANGED <<reported, exec, bound, sessions, memory, pc, snap>>

ResumeRun ==
    /\ Act /\ run = "blocked" /\ run' = "in_progress"
    /\ UNCHANGED <<task, reported, exec, bound, sessions, memory, pc, snap>>

MarkFailed ==
    /\ Act /\ run = "in_progress" /\ run' = "blocked"
    /\ UNCHANGED <<task, reported, exec, bound, sessions, memory, pc, snap>>

(* approvePendingCompletion: dispatchPostApproval of a task in review *)
ApproveTask ==
    /\ Act /\ task = "review" /\ Approve
    /\ UNCHANGED <<run, reported, exec, bound, sessions, memory, pc, snap>>

(* routeToNodeAgents: a message to the agent of a node, whatever became of the *)
(* task. It goes to the session the execution is bound to, which is rehydrated *)
(* if need be; the node of an agent without one is activated.                  *)
WriteToAgent(n) ==
    LET activated == (~bound[n] \/ exec[n] = "cancelled")
        over == activated /\ exec[n] \in {"none", "idle", "cancelled"}
    IN  /\ Act
        /\ run' = IF activated /\ run \in {"done", "cancelled"} THEN "in_progress" ELSE run
        /\ exec' = [exec EXCEPT ![n] = IF ~over THEN @ ELSE IF IsSessionAlive(n) THEN "in_progress" ELSE "pending"]
        /\ IF IsSessionAlive(n)
           THEN /\ work' = [work EXCEPT ![n] = "working"]
                /\ place' = [place EXCEPT ![n] = IF @ = "row" THEN "indexed" ELSE @]
                /\ hears' = [hears EXCEPT ![n] = @ \/ place[n] = "row"]
           ELSE UNCHANGED sessions
        /\ UNCHANGED <<task, reported, bound, memory, pc, snap>>

(* recoverWorkflowBackedTask: the counters of the run; then, in a transaction  *)
(* that refuses what the table of tasks does not have, task, run and the       *)
(* executions of the node touched last; then the executors map.                *)
RecoverTask ==
    /\ Act
    /\ retries' = 0 /\ stuck' = [n \in Nodes |-> NoNag]
    /\ \E to \in {"open", "in_progress"} :
          IF to \in TaskMoves[task] \cup {task}
          THEN /\ task' = to /\ reported' = FALSE /\ run' = "in_progress" /\ driven' = TRUE
               /\ \E n \in {m \in Nodes : exec[m] # "none"} :
                     exec' = [exec EXCEPT ![n] = IF IsSessionAlive(n) THEN "in_progress" ELSE "pending"]
          ELSE UNCHANGED <<task, reported, run, driven, exec>>
    /\ UNCHANGED <<bound, place, hears, work, crash, pc, snap>>

(* session.delete of a session that is not in agentSessionIndex *)
DeleteSession(n) ==
    /\ Act /\ bound[n] /\ place[n] = "row"
    /\ place' = [place EXCEPT ![n] = "none"]
    /\ UNCHANGED <<rows, hears, work, memory, pc, snap>>

-----------------------------------------------------------------------------
(* ---- crash and restart ---- *)

Crash ==
    /\ Act
    /\ place' = [n \in Nodes |-> IF place[n] = "none" THEN "none" ELSE "row"]
    /\ hears' = With(hears, Nodes, FALSE)
    /\ work' = [n \in Nodes |-> IF work[n] = "working" THEN "silent" ELSE work[n]]
    /\ driven' = FALSE /\ retries' = 0
    /\ crash' = [n \in Nodes |-> 0] /\ stuck' = [n \in Nodes |-> NoNag]
    /\ pc' = "off" /\ snap' = NoSnap
    /\ UNCHANGED rows

Driveable == \E n \in Nodes : exec[n] \in {"pending", "in_progress", "blocked"}
Signalled == task \in {"done", "cancelled", "review", "approved"} \/ reported
Preserved == \E n \in Nodes : exec[n] = "idle" /\ bound[n] /\ work[n] # "ended"

(* activateRestartRecoveryDownstreamNodes: targets of channels out of idle nodes *)
Downstream == {t \in Nodes : /\ \E s \in Nodes \ {t} : exec[s] = "idle"
                             /\ t = EndNode \/ exec[t] # "idle"}

(* rehydrateExecutors, TaskAgentManager.rehydrate and recoverStalledRuns. The  *)
(* run nothing can drive is activated downstream or blocked.                   *)
Boot ==
    /\ pc = "off"
    /\ driven' = (run \in {"in_progress", "blocked"})
    /\ \E lost \in SUBSET Nodes :   \* sessions that could not be restored
          LET back == {n \in Nodes \ lost : /\ exec[n] \in {"in_progress", "blocked"}
                                            /\ bound[n] /\ place[n] = "row"
                                            /\ task \in {"in_progress", "review", "blocked", "approved"}}
          IN place' = With(place, back, "indexed") /\ hears' = With(hears, back, TRUE)
    /\ IF run # "in_progress" \/ Driveable \/ Signalled \/ Preserved
       THEN Throw /\ UNCHANGED <<run, exec>>
       ELSE IF Downstream # {}
       THEN exec' = With(exec, Downstream, "pending") /\ Throw /\ UNCHANGED run
       ELSE Block("in_progress") /\ UNCHANGED exec
    /\ UNCHANGED <<task, reported, bound, work, crash, retries, stuck, acts>>

-----------------------------------------------------------------------------

Runtime ==
    \/ TickBegin \/ RetryBlocked \/ MarkTask \/ CheckSessions \/ Decide
    \/ SpawnsEnd \/ Settle \/ CleanUp
    \/ \E n \in Nodes : \/ Nag(n) \/ Restart(n)
                        \/ SpawnLive(n) \/ SpawnStart(n) \/ SpawnDone(n)
                        \/ SpawnFails(n) \/ SpawnImpossible(n)

Agents ==
    \/ Report \/ Submit \/ MarkComplete
    \/ \E n \in Nodes : \/ Progress(n) \/ TurnEnds(n) \/ TurnFails(n)
                        \/ \E m \in Nodes : Message(n, m)

Human ==
    \/ UpdateTask \/ RetryTask \/ CancelRun \/ ResumeRun \/ MarkFailed
    \/ ApproveTask \/ RecoverTask
    \/ \E n \in Nodes : WriteToAgent(n) \/ DeleteSession(n)

Next == Runtime \/ Agents \/ Human \/ Crash \/ Boot

Spec == Init /\ [][Next]_vars

(* The tick's timer never stops, an await of the tick returns, the threshold   *)
(* of a silent agent passes, and a daemon that went down is started again.     *)
(* Agents and humans owe nothing.                                              *)
FairSpec == /\ Spec
            /\ WF_vars(Runtime) /\ WF_vars(Boot)
            /\ \A n \in Nodes : SF_vars(work[n] = "silent" /\ (Nag(n) \/ Restart(n)))

-----------------------------------------------------------------------------
(* ---- correctness ---- *)

Snaps == [task : TaskStatus, complete : BOOLEAN, seen : SUBSET Nodes, pre : SUBSET Nodes,
          todo : SUBSET Nodes, failed : BOOLEAN, gone : BOOLEAN]
Nags == [nags : 0..MaxNags, restarts : 0..MaxRestarts, same : BOOLEAN]

(* The state is well formed, and the counters stay within the limits           *)
(* constants.ts gives them. *)
TypeOK ==
    /\ run \in RunStatus /\ task \in TaskStatus /\ reported \in BOOLEAN
    /\ exec \in [Nodes -> ExecStatus] /\ bound \in [Nodes -> BOOLEAN]
    /\ place \in [Nodes -> Place] /\ hears \in [Nodes -> BOOLEAN]
    /\ work \in [Nodes -> Work]
    /\ driven \in BOOLEAN /\ retries \in 0..MaxBlockedRetries
    /\ crash \in [Nodes -> 0..MaxCrashRetries + 1] /\ stuck \in [Nodes -> Nags]
    /\ pc \in Pc /\ snap \in Snaps /\ acts \in 0..MaxActs

(* What is over stays over: a cancelled or done run comes back only when a     *)
(* human recovers its task, when a human or an agent writes to an agent of it, *)
(* or (cancelled) through the retry that had read it as blocked; a cancelled   *)
(* or done task only by a recovery or by retry_task, through the one tick that *)
(* had read it before (setTaskStatus and the RPCs race the awaits of the tick, *)
(* which writes what it read first), or because a session is gone or silent    *)
(* once too often: those passes come before completion and do not ask for it.  *)
(* A done task of a cancelled run is cancelled, a cancelled task called done   *)
(* by spaceTask.update.                                                        *)
Recalls == RecoverTask \/ \E n \in Nodes : WriteToAgent(n) \/ \E m \in Nodes : Message(n, m)
ReadBefore(status) ==
    snap.task # status /\ ~snap.complete /\ (SpawnsEnd \/ MarkTask \/ RetryBlocked)
Overruled == snap.complete /\ MarkTask
TerminalStands ==
    [][/\ run = "cancelled" /\ run' # run => Recalls \/ RetryBlocked
       /\ run = "done" /\ run' # run => Recalls
       /\ task = "cancelled" /\ task' # task
            => \/ RecoverTask \/ RetryTask \/ (UpdateTask /\ task' = "done")
               \/ ReadBefore("cancelled") \/ Overruled
       /\ task = "done" /\ task' # task
            => \/ RecoverTask \/ RetryTask \/ run = "cancelled"
               \/ ReadBefore("done") \/ Overruled]_vars

(* An execution that waits for its agent gets it, or ceases to wait, as long   *)
(* as the runtime drives the run: spawns that fail, sessions that are gone and *)
(* restarts of the daemon included.                                            *)
PendingSpawns == \A n \in Nodes :
    exec[n] = "pending" /\ driven /\ run = "in_progress"
        ~> exec[n] # "pending" \/ ~driven \/ run # "in_progress"

(* An agent that fell silent in the middle of its execution is not left there: *)
(* it is made to work again, replaced, or its run stops.                       *)
StuckHandled == \A n \in Nodes :
    exec[n] = "in_progress" /\ bound[n] /\ work[n] = "silent" /\ driven /\ run = "in_progress"
        ~> \/ exec[n] # "in_progress" \/ ~bound[n] \/ work[n] # "silent"
           \/ ~driven \/ run # "in_progress"

(* A run that ended takes its task with it, across restarts: a cancelled run   *)
(* cancels it and is let go, a done run does not leave it in progress. (It may *)
(* leave it `open`, where a human had put it: that cannot be approved.)        *)
EndedRunSettlesTask ==
    /\ run = "cancelled" ~> (task = "cancelled" /\ ~driven) \/ run # "cancelled"
    /\ run = "done" ~> task # "in_progress" \/ run # "done"

(* A run blocked on a failed execution is tried again while its budget lasts.  *)
BlockedRetried ==
    run = "blocked" /\ (\E n \in Nodes : exec[n] = "blocked") /\ driven /\ retries < MaxBlockedRetries
        ~> run # "blocked" \/ ~driven

(* MAX_AGENT_STUCK_RESTARTS is the "maximum per-agent session restarts for     *)
(* alive-but-stuck recovery": an agent that does nothing and is written        *)
(* nothing is not restarted for ever.                                          *)
RestartsEnd == \A n \in Nodes :
    []<><<Restart(n)>>_vars
        => []<><<Progress(n) \/ TurnEnds(n) \/ \E m \in Nodes : Message(m, n)>>_vars
=============================================================================
