-------------------------- MODULE WorkflowRunProofs --------------------------
(* What TLAPS proves about WorkflowRun, for every workflow and all limits: the *)
(* counters stay within their limits, and what is over stays over.             *)
EXTENDS WorkflowRun, TLAPS

USE RunAssumption DEF RunAssumption

(* The limits as numbers, the form in which the steps use them. *)
LEMMA Limits ==
  /\ EndNode \in Nodes
  /\ MaxCrashRetries \in Nat /\ MaxBlockedRetries \in Nat
  /\ MaxNags \in Nat /\ MaxRestarts \in Nat /\ MaxActs \in Nat
OBVIOUS

(* What the tick remembers across an await still binds the run: a retry found  *)
(* it blocked with retries left (so it is not done: completion is a step of    *)
(* the same tick), and a tick that had found the run not complete had read a   *)
(* task that was not over.                                                     *)
Remembered ==
  /\ pc = "retry" => run # "done" /\ retries < MaxBlockedRetries
  /\ pc \in {"retry", "spawn", "busy"} => ~ snap.complete
  /\ pc \in {"live", "stuck", "mark"} /\ ~ snap.complete => snap.task \notin {"done", "cancelled"}
  /\ pc \in {"spawn", "busy"} => snap.task \notin {"done", "cancelled"}

RunInv == TypeOK /\ Remembered

-----------------------------------------------------------------------------
(* Operators *)

LEMMA SnapFields ==
  ASSUME NEW x \in Snaps
  PROVE  /\ x.task \in TaskStatus /\ x.complete \in BOOLEAN
         /\ x.seen \in SUBSET Nodes /\ x.pre \in SUBSET Nodes /\ x.todo \in SUBSET Nodes
         /\ x.failed \in BOOLEAN /\ x.gone \in BOOLEAN
BY DEF Snaps

LEMMA NoSnapOK == NoSnap \in Snaps /\ NoSnap.complete = FALSE
BY DEF NoSnap, Snaps, TaskStatus

LEMMA NoNagOK == NoNag \in Nags /\ NoNag.nags = 0 /\ NoNag.restarts = 0
<1>1. 0 \in 0..MaxNags /\ 0 \in 0..MaxRestarts
  BY Limits
<1> QED BY <1>1 DEF NoNag, Nags

LEMMA WithOK ==
  ASSUME NEW D, NEW f \in [Nodes -> D], NEW S, NEW v \in D
  PROVE  With(f, S, v) \in [Nodes -> D]
BY DEF With

LEMMA SeenOK ==
  ASSUME TypeOK, NEW n \in Nodes
  PROVE  Seen(n) \in Nags /\ stuck[n] \in Nags
BY NoNagOK DEF TypeOK, Seen

LEMMA CountOK ==
  ASSUME TypeOK, NEW S
  PROVE  /\ Count(S) \in [Nodes -> 0..MaxCrashRetries + 1]
         /\ ResetForRetry(S) => /\ crash' \in [Nodes -> 0..MaxCrashRetries + 1]
                                /\ exec' \in [Nodes -> ExecStatus]
<1>1. Count(S) \in [Nodes -> 0..MaxCrashRetries + 1]
  BY Limits DEF Count, TypeOK
<1>2. ASSUME ResetForRetry(S) PROVE exec' \in [Nodes -> ExecStatus]
  BY <1>2 DEF ResetForRetry, TypeOK, ExecStatus
<1> QED BY <1>1, <1>2 DEF ResetForRetry

(* Blocking the run leaves the tick waiting to mark the task, or throws.       *)
LEMMA BlockOK ==
  ASSUME RunInv, NEW reads \in TaskStatus, Block(reads),
         snap.complete \/ reads \notin {"done", "cancelled"}
  PROVE  /\ run' \in RunStatus /\ pc' \in Pc /\ snap' \in Snaps
         /\ run \in {"done", "cancelled"} => run' = run
         /\ run' # "done" \/ run' = run
         /\ \/ pc' = "idle"
            \/ pc' = "mark" /\ (~ snap'.complete => snap'.task \notin {"done", "cancelled"})
<1>0. TypeOK /\ snap.complete \in BOOLEAN
  BY SnapFields DEF RunInv, TypeOK
<1>1. CASE CanTransition(run, "blocked")
  <2> DEFINE x == [NoSnap EXCEPT !.task = reads, !.complete = snap.complete]
  <2>1. x \in Snaps /\ x.task = reads /\ x.complete = snap.complete
    BY <1>0, NoSnapOK DEF Snaps, NoSnap
  <2>2. run' = "blocked" /\ pc' = "mark" /\ snap' = x
    BY <1>1 DEF Block
  <2> HIDE DEF x
  <2> QED BY <1>1, <2>1, <2>2 DEF CanTransition, RunStatus, Pc
<1>2. CASE ~ CanTransition(run, "blocked")
  BY <1>0, <1>2, NoSnapOK DEF Block, Throw, TypeOK, Pc
<1> QED BY <1>1, <1>2

LEMMA EndsOK ==
  ASSUME EndOfRun \/ Throw
  PROVE  pc' \in {"idle", "clean"} /\ pc' \in Pc /\ snap' \in Snaps
BY NoSnapOK DEF EndOfRun, Throw, Pc

-----------------------------------------------------------------------------
(* What a step may do to a run and a task that are over.                       *)
Stands ==
  /\ run = "cancelled" /\ run' # run => Recalls \/ RetryBlocked
  /\ run = "done" /\ run' # run => Recalls
  /\ task = "cancelled" /\ task' # task
       => \/ RecoverTask \/ RetryTask \/ (UpdateTask /\ task' = "done")
          \/ ReadBefore("cancelled") \/ Overruled
  /\ task = "done" /\ task' # task
       => \/ RecoverTask \/ RetryTask \/ run = "cancelled"
          \/ ReadBefore("done") \/ Overruled

RunStands == run \in {"done", "cancelled"} => run' = run
TaskStands == task \in {"done", "cancelled"} => task' = task

LEMMA BothStand == RunStands /\ TaskStands => Stands
BY DEF RunStands, TaskStands, Stands

(* A step of agents or humans, which leaves the tick where it is.              *)
LEMMA Outside ==
  ASSUME RunInv, TypeOK', UNCHANGED <<pc, snap>>,
         run' # "done" \/ run' = run, retries' = retries \/ retries' = 0
  PROVE  RunInv'
<1>1. retries' < MaxBlockedRetries \/ ~ (retries < MaxBlockedRetries)
  BY Limits DEF RunInv, TypeOK
<1> QED BY <1>1 DEF RunInv, Remembered

(* A step after which nothing is remembered.                                   *)
LEMMA Forgotten ==
  ASSUME TypeOK', pc' \in {"off", "idle", "settle", "clean"}
  PROVE  RunInv'
BY DEF RunInv, Remembered

LEMMA TickBeginOK == ASSUME RunInv, TickBegin PROVE RunInv' /\ Stands
<1>0. TypeOK /\ pc = "idle"
  BY DEF RunInv, TickBegin
<1>1. ASSUME EndOfRun, UNCHANGED run, stuck' = stuck \/ stuck' = [n \in Nodes |-> NoNag]
      PROVE  RunInv' /\ Stands
  <2>1. pc' = "clean" /\ pc' \in Pc /\ snap' \in Snaps
    BY <1>1, NoSnapOK DEF EndOfRun, Pc
  <2>2. stuck' \in [Nodes -> Nags]
    BY <1>0, <1>1, NoNagOK DEF TypeOK
  <2>3. TypeOK'
    BY <1>0, <1>1, <2>1, <2>2 DEF TickBegin, TypeOK, sessions
  <2> QED BY <1>1, <2>1, <2>3, Forgotten, BothStand DEF TickBegin, RunStands, TaskStands
<1>2. ASSUME run = "blocked", retries < MaxBlockedRetries, UNCHANGED <<run, stuck>>, pc' = "retry",
             NEW b \in SUBSET Nodes, snap' = [NoSnap EXCEPT !.todo = b, !.task = task]
      PROVE  RunInv' /\ Stands
  <2>1. snap' \in Snaps /\ snap'.complete = FALSE
    BY <1>0, <1>2, NoSnapOK DEF NoSnap, Snaps, TypeOK
  <2>2. TypeOK'
    BY <1>0, <1>2, <2>1 DEF TickBegin, TypeOK, sessions, Pc
  <2>3. Remembered'
    BY <1>2, <2>1 DEF TickBegin, Remembered
  <2> QED BY <1>2, <2>2, <2>3, BothStand DEF RunInv, TickBegin, RunStands, TaskStands
<1>3. ASSUME run = "in_progress", UNCHANGED stuck, ~ IsComplete, Block(task)
      PROVE  RunInv' /\ Stands
  <2>1. task \in TaskStatus /\ task \notin {"done", "cancelled"}
    BY <1>0, <1>3 DEF IsComplete, TypeOK
  <2>2. /\ run' \in RunStatus /\ pc' \in Pc /\ snap' \in Snaps
        /\ \/ pc' = "idle"
           \/ pc' = "mark" /\ (~ snap'.complete => snap'.task \notin {"done", "cancelled"})
    BY <1>3, <2>1, BlockOK
  <2>3. TypeOK'
    BY <1>0, <1>3, <2>2 DEF TickBegin, TypeOK, sessions
  <2>4. Remembered'
    BY <2>2 DEF Remembered
  <2> QED BY <1>3, <2>3, <2>4, BothStand DEF RunInv, TickBegin, RunStands, TaskStands
<1>4. ASSUME run = "in_progress", UNCHANGED <<run, stuck>>, pc' = "live",
             NEW seen \in SUBSET Nodes, NEW pre \in SUBSET Nodes,
             snap' = [NoSnap EXCEPT !.task = task, !.complete = IsComplete,
                                    !.seen = seen, !.pre = pre]
      PROVE  RunInv' /\ Stands
  <2> DEFINE c == IsComplete
  <2>0. c \in BOOLEAN /\ (~ c => task \notin {"done", "cancelled"}) /\ task \in TaskStatus
    BY <1>0 DEF IsComplete, TypeOK
  <2>1. snap' = [NoSnap EXCEPT !.task = task, !.complete = c, !.seen = seen, !.pre = pre]
    BY <1>4
  <2> HIDE DEF c
  <2>2. snap' \in Snaps /\ snap'.task = task /\ snap'.complete = c
    BY <2>0, <2>1, NoSnapOK DEF Snaps, NoSnap
  <2>3. TypeOK'
    BY <1>0, <1>4, <2>2 DEF TickBegin, TypeOK, sessions, Pc
  <2>4. Remembered'
    BY <1>4, <2>0, <2>2 DEF Remembered
  <2> QED BY <1>4, <2>3, <2>4, BothStand DEF RunInv, TickBegin, RunStands, TaskStands
<1>5. CASE ~driven \/ run \in {"done", "cancelled"}
  BY <1>0, <1>1, <1>5 DEF TickBegin
<1>6. CASE driven /\ run = "blocked"
  <2> DEFINE blocked == {n \in Nodes : exec[n] = "blocked"}
  <2>1. /\ UNCHANGED <<run, stuck>> /\ TickBegin
        /\ \/ /\ blocked # {} /\ retries < MaxBlockedRetries
              /\ pc' = "retry" /\ snap' = [NoSnap EXCEPT !.todo = blocked, !.task = task]
           \/ EndOfRun
    BY <1>0, <1>6 DEF TickBegin
  <2>2. CASE EndOfRun
    BY <1>1, <1>6, <2>1, <2>2
  <2>3. blocked \in SUBSET Nodes
    OBVIOUS
  <2> HIDE DEF blocked
  <2> QED BY <1>2, <1>6, <2>1, <2>2, <2>3
<1>7. CASE driven /\ run = "in_progress"
  <2> DEFINE seen == {n \in Nodes : bound[n] /\ exec[n] \in {"pending", "in_progress"}}
             pre == {n \in Nodes : exec[n] = "pending"}
  <2>1. CASE ~ IsComplete /\ Block(task) /\ UNCHANGED stuck
    BY <1>3, <1>7, <2>1
  <2>2. CASE /\ UNCHANGED <<run, stuck>> /\ pc' = "live"
             /\ snap' = [NoSnap EXCEPT !.task = task, !.complete = IsComplete,
                                       !.seen = seen, !.pre = pre]
    <3>1. seen \in SUBSET Nodes /\ pre \in SUBSET Nodes
      OBVIOUS
    <3> HIDE DEF seen, pre
    <3> QED BY <1>4, <1>7, <2>2, <3>1
  <2> QED BY <1>0, <1>7, <2>1, <2>2 DEF TickBegin
<1> QED BY <1>0, <1>5, <1>6, <1>7 DEF TypeOK, RunStatus

LEMMA RetryBlockedOK == ASSUME RunInv, RetryBlocked PROVE RunInv' /\ Stands
<1>0. TypeOK /\ run # "done" /\ retries < MaxBlockedRetries /\ ~ snap.complete /\ snap.task \in TaskStatus
  BY SnapFields DEF RunInv, TypeOK, Remembered, RetryBlocked
<1>1. pc' \in {"idle", "clean"} /\ pc' \in Pc /\ snap' \in Snaps
  BY EndsOK DEF RetryBlocked
<1>2. exec' \in [Nodes -> ExecStatus]
  BY <1>0, WithOK DEF RetryBlocked, TypeOK, ExecStatus
<1>3. retries' \in 0..MaxBlockedRetries
  BY <1>0, Limits DEF RetryBlocked, TypeOK
<1>4. run' \in RunStatus /\ task' \in TaskStatus
  BY <1>0 DEF RetryBlocked, TypeOK, RunStatus, TaskStatus
<1>5. TypeOK'
  BY <1>0, <1>1, <1>2, <1>3, <1>4 DEF RetryBlocked, TypeOK
<1>6. task' # task => ReadBefore("cancelled") /\ ReadBefore("done")
  BY <1>0 DEF RetryBlocked, ReadBefore
<1>7. Stands
  BY <1>0, <1>6 DEF Stands
<1> QED BY <1>1, <1>5, <1>7, Forgotten

LEMMA MarkTaskOK == ASSUME RunInv, MarkTask PROVE RunInv' /\ Stands
<1>0. TypeOK /\ (~ snap.complete => snap.task \notin {"done", "cancelled"})
  BY DEF RunInv, Remembered, MarkTask
<1>1. pc' \in {"idle", "clean"} /\ pc' \in Pc /\ snap' \in Snaps
  BY EndsOK DEF MarkTask
<1>2. TypeOK'
  BY <1>0, <1>1 DEF MarkTask, TypeOK, TaskStatus, sessions, memory
<1>3. Overruled \/ (ReadBefore("cancelled") /\ ReadBefore("done"))
  BY <1>0 DEF Overruled, ReadBefore
<1>4. Stands
  BY <1>3 DEF Stands, MarkTask
<1> QED BY <1>1, <1>2, <1>4, Forgotten

LEMMA CheckSessionsOK == ASSUME RunInv, CheckSessions PROVE RunInv' /\ Stands
<1> DEFINE dead == {n \in snap.seen : ~IsSessionAlive(n)}
<1>0. TypeOK /\ snap \in Snaps /\ pc = "live"
      /\ (~ snap.complete => snap.task \notin {"done", "cancelled"})
  BY DEF RunInv, TypeOK, Remembered, CheckSessions
<1>1. ResetForRetry(dead)
  BY DEF CheckSessions
<1>2. CASE Block(snap.task)
  <2>1. snap.task \in TaskStatus /\ (snap.complete \/ snap.task \notin {"done", "cancelled"})
    BY <1>0, SnapFields
  <2>2. /\ run' \in RunStatus /\ pc' \in Pc /\ snap' \in Snaps
        /\ run \in {"done", "cancelled"} => run' = run
        /\ \/ pc' = "idle"
           \/ pc' = "mark" /\ (~ snap'.complete => snap'.task \notin {"done", "cancelled"})
    BY <1>2, <2>1, BlockOK
  <2> HIDE DEF dead
  <2>3. TypeOK'
    BY <1>0, <1>1, <2>2, CountOK DEF CheckSessions, TypeOK
  <2>4. Remembered'
    BY <2>2 DEF Remembered
  <2> QED BY <2>2, <2>3, <2>4, BothStand DEF RunInv, CheckSessions, RunStands, TaskStands
<1>3. CASE pc' = "stuck" /\ snap' = [snap EXCEPT !.todo = Nodes] /\ UNCHANGED run
  <2>1. snap' \in Snaps /\ snap'.task = snap.task /\ snap'.complete = snap.complete
    BY <1>0, <1>3 DEF Snaps
  <2> HIDE DEF dead
  <2>2. TypeOK'
    BY <1>0, <1>1, <1>3, <2>1, CountOK DEF CheckSessions, TypeOK, Pc
  <2>3. Remembered'
    BY <1>0, <1>3, <2>1 DEF Remembered
  <2> QED BY <1>3, <2>2, <2>3, BothStand DEF RunInv, CheckSessions, RunStands, TaskStands
<1> QED BY <1>2, <1>3 DEF CheckSessions

(* The pass over silent agents leaves one node less to look at, or stops it.   *)
LEMMA LessToDo ==
  ASSUME TypeOK, NEW S
  PROVE  /\ [snap EXCEPT !.todo = @ \ S] \in Snaps
         /\ [snap EXCEPT !.todo = @ \ S].task = snap.task
         /\ [snap EXCEPT !.todo = @ \ S].complete = snap.complete
BY DEF TypeOK, Snaps

LEMMA NagOK == ASSUME RunInv, NEW n \in Nodes, Nag(n) PROVE RunInv' /\ Stands
<1>0. TypeOK /\ pc = "stuck" /\ Seen(n) \in Nags /\ Seen(n).nags < MaxNags
      /\ (~ snap.complete => snap.task \notin {"done", "cancelled"})
  BY SeenOK DEF RunInv, Remembered, Nag, MayBeStuck
<1>1. snap' \in Snaps /\ snap'.task = snap.task /\ snap'.complete = snap.complete
  BY <1>0, LessToDo DEF Nag
<1>2. stuck' \in [Nodes -> Nags]
  <2> DEFINE x == [Seen(n) EXCEPT !.nags = Seen(n).nags + 1]
  <2>1. Seen(n).nags + 1 \in 0..MaxNags
    BY <1>0, Limits DEF Nags
  <2>2. x \in Nags
    BY <1>0, <2>1 DEF Nags
  <2>3. stuck' = [stuck EXCEPT ![n] = x]
    BY DEF Nag
  <2> HIDE DEF x
  <2> QED BY <1>0, <2>2, <2>3 DEF TypeOK
<1>3. work' \in [Nodes -> Work] /\ place' \in [Nodes -> Place] /\ hears' \in [Nodes -> BOOLEAN]
  BY <1>0 DEF Nag, TypeOK, Work, Place
<1>4. TypeOK'
  BY <1>0, <1>1, <1>2, <1>3 DEF Nag, TypeOK, rows
<1>5. Remembered'
  BY <1>0, <1>1 DEF Nag, Remembered
<1> QED BY <1>4, <1>5, BothStand DEF RunInv, Nag, rows, RunStands, TaskStands

LEMMA RestartOK == ASSUME RunInv, NEW n \in Nodes, Restart(n) PROVE RunInv' /\ Stands
<1> DEFINE again == Seen(n).restarts < MaxRestarts
<1>0. TypeOK /\ Seen(n) \in Nags
  BY SeenOK DEF RunInv
<1>1. /\ run' \in RunStatus /\ pc' \in Pc /\ snap' \in Snaps
      /\ run \in {"done", "cancelled"} => run' = run
      /\ \/ pc' \in {"idle", "clean"}
         \/ pc' = "mark" /\ (~ snap'.complete => snap'.task \notin {"done", "cancelled"})
  <2>1. CASE again
    BY <1>0, <2>1, EndsOK DEF Restart, TypeOK
  <2>2. CASE ~ again
    BY <2>2, BlockOK DEF Restart, TaskStatus
  <2> QED BY <2>1, <2>2
<1>2. stuck' \in [Nodes -> Nags]
  <2>1. ASSUME again
        PROVE  [nags |-> Seen(n).nags, restarts |-> Seen(n).restarts + 1, same |-> FALSE] \in Nags
    BY <1>0, <2>1, Limits DEF Nags
  <2> QED BY <1>0, <2>1 DEF Restart, TypeOK
<1>3. /\ exec' \in [Nodes -> ExecStatus] /\ place' \in [Nodes -> Place]
      /\ work' \in [Nodes -> Work]
  BY <1>0 DEF Restart, TypeOK, ExecStatus, Place, Work
<1>4. bound' \in [Nodes -> BOOLEAN] /\ hears' \in [Nodes -> BOOLEAN]
  <2> HIDE DEF again
  <2>1. (~ again) \in BOOLEAN /\ (hears[n] /\ ~ again) \in BOOLEAN
    BY DEF again
  <2>2. /\ bound' = [bound EXCEPT ![n] = ~ again]
        /\ hears' = [hears EXCEPT ![n] = hears[n] /\ ~ again]
    BY DEF Restart, again
  <2> QED BY <1>0, <2>1, <2>2 DEF TypeOK
<1>5. TypeOK'
  BY <1>0, <1>1, <1>2, <1>3, <1>4 DEF Restart, TypeOK
<1>6. Remembered'
  BY <1>1 DEF Remembered
<1> QED BY <1>1, <1>5, <1>6, BothStand DEF RunInv, Restart, RunStands, TaskStands

LEMMA DecideOK == ASSUME RunInv, Decide PROVE RunInv' /\ Stands
<1>0. TypeOK /\ pc = "stuck" /\ snap \in Snaps
      /\ (~ snap.complete => snap.task \notin {"done", "cancelled"})
  BY DEF RunInv, TypeOK, Remembered, Decide
<1>1. stuck' \in [Nodes -> Nags]
  <2>1. \A n \in Nodes : Recalled(n) \in Nags /\ stuck[n] \in Nags
    BY <1>0, SeenOK, NoNagOK DEF Recalled
  <2> QED BY <2>1 DEF Decide
<1>2. CASE snap.complete
  <2>1. /\ run' \in RunStatus /\ RunStands /\ pc' \in {"idle", "settle"} /\ pc' \in Pc
        /\ snap' \in Snaps /\ exec' = exec
    BY <1>0, <1>2, EndsOK DEF Decide, CanTransition, RunStatus, RunStands, Throw, TypeOK, Pc
  <2>2. TypeOK'
    BY <1>0, <1>1, <2>1 DEF Decide, TypeOK, sessions
  <2> QED BY <2>1, <2>2, Forgotten, BothStand DEF Decide, TaskStands
<1>3. CASE ~ snap.complete
  <2>1. PICK alive \in SUBSET Nodes, pending \in SUBSET Nodes :
           /\ exec' = With(exec, alive, "in_progress")
           /\ \/ EndOfRun
              \/ pc' = "spawn" /\ snap' = [snap EXCEPT !.todo = pending]
           /\ UNCHANGED run
    <3> DEFINE asked == {n \in snap.pre : exec[n] = "pending"}
               alive == {n \in asked : IsSessionAlive(n)}
               pending == {n \in Nodes : exec[n] = "pending"} \ alive
    <3>1. alive \in SUBSET Nodes /\ pending \in SUBSET Nodes
      BY <1>0, SnapFields
    <3>2. /\ exec' = With(exec, alive, "in_progress")
          /\ \/ EndOfRun
             \/ pc' = "spawn" /\ snap' = [snap EXCEPT !.todo = pending]
          /\ UNCHANGED run
      BY <1>3 DEF Decide
    <3> HIDE DEF alive, pending
    <3> QED BY <3>1, <3>2
  <2>2. exec' \in [Nodes -> ExecStatus]
    BY <1>0, <2>1, WithOK DEF TypeOK, ExecStatus
  <2>3. CASE EndOfRun
    <3>1. TypeOK'
      BY <1>0, <1>1, <2>1, <2>2, <2>3, EndsOK DEF Decide, TypeOK, sessions
    <3> QED BY <2>1, <2>3, <3>1, Forgotten, BothStand DEF Decide, EndOfRun, RunStands, TaskStands
  <2>4. CASE pc' = "spawn" /\ snap' = [snap EXCEPT !.todo = pending]
    <3>1. snap' \in Snaps /\ snap'.task = snap.task /\ snap'.complete = snap.complete
      BY <1>0, <2>1, <2>4 DEF Snaps
    <3>2. TypeOK'
      BY <1>0, <1>1, <2>1, <2>2, <2>4, <3>1 DEF Decide, TypeOK, sessions, Pc
    <3>3. Remembered'
      BY <1>0, <1>3, <2>4, <3>1 DEF Remembered
    <3> QED BY <2>1, <3>2, <3>3, BothStand DEF RunInv, Decide, RunStands, TaskStands
  <2> QED BY <2>1, <2>3, <2>4
<1> QED BY <1>0, <1>2, <1>3, SnapFields

-----------------------------------------------------------------------------
(* Spawning                                                                    *)

(* While the tick spawns, nothing but the rows of executions is written.       *)
LEMMA Spawning ==
  ASSUME RunInv, TypeOK', pc \in {"spawn", "busy"}, pc' \in {"spawn", "busy"},
         UNCHANGED <<run, task, retries>>,
         snap'.task = snap.task, snap'.complete = snap.complete
  PROVE  RunInv' /\ Stands
<1>1. Remembered'
  BY DEF RunInv, Remembered
<1> QED BY <1>1, BothStand DEF RunInv, RunStands, TaskStands

LEMMA SpawnLiveOK == ASSUME RunInv, NEW n \in Nodes, SpawnLive(n) PROVE RunInv' /\ Stands
<1>0. TypeOK
  BY DEF RunInv
<1>1. snap' \in Snaps /\ snap'.task = snap.task /\ snap'.complete = snap.complete
  BY <1>0, LessToDo DEF SpawnLive
<1>2. TypeOK'
  BY <1>0, <1>1 DEF SpawnLive, TypeOK, ExecStatus, sessions, memory
<1> QED BY <1>1, <1>2, Spawning DEF SpawnLive, memory

LEMMA SpawnStartOK == ASSUME RunInv, NEW n \in Nodes, SpawnStart(n) PROVE RunInv' /\ Stands
<1>0. TypeOK /\ stuck[n] \in Nags
  BY SeenOK DEF RunInv
<1>1. snap' \in Snaps /\ snap'.task = snap.task /\ snap'.complete = snap.complete
  BY <1>0 DEF SpawnStart, TypeOK, Snaps
<1>2. stuck' \in [Nodes -> Nags]
  <2> DEFINE b == stuck[n].same /\ Reusable(n)
             x == [stuck[n] EXCEPT !.same = b]
  <2>1. b \in BOOLEAN /\ stuck' = [stuck EXCEPT ![n] = x]
    BY <1>0 DEF SpawnStart, Nags, TypeOK
  <2> HIDE DEF b
  <2>2. x \in Nags
    BY <1>0, <2>1 DEF Nags
  <2> HIDE DEF x
  <2> QED BY <1>0, <2>1, <2>2 DEF TypeOK
<1>3. hears' \in [Nodes -> BOOLEAN]
  <2>1. Reusable(n) \in BOOLEAN
    BY <1>0 DEF Reusable, TypeOK
  <2> QED BY <1>0, <2>1 DEF SpawnStart, TypeOK
<1>4. /\ exec' \in [Nodes -> ExecStatus] /\ bound' \in [Nodes -> BOOLEAN]
      /\ place' \in [Nodes -> Place] /\ work' \in [Nodes -> Work]
  BY <1>0 DEF SpawnStart, TypeOK, ExecStatus, Place, Work
<1>5. TypeOK'
  BY <1>0, <1>1, <1>2, <1>3, <1>4 DEF SpawnStart, TypeOK, Pc
<1> QED BY <1>1, <1>5, Spawning DEF SpawnStart

LEMMA SpawnDoneOK == ASSUME RunInv, NEW n \in Nodes, SpawnDone(n) PROVE RunInv' /\ Stands
<1>0. TypeOK
  BY DEF RunInv
<1>1. snap' \in Snaps /\ snap'.task = snap.task /\ snap'.complete = snap.complete
  BY <1>0 DEF SpawnDone, TypeOK, Snaps
<1>2. TypeOK'
  BY <1>0, <1>1 DEF SpawnDone, TypeOK, ExecStatus, Work, Pc, memory
<1> QED BY <1>1, <1>2, Spawning DEF SpawnDone, memory

LEMMA SpawnFailsOK == ASSUME RunInv, NEW n \in Nodes, SpawnFails(n) PROVE RunInv' /\ Stands
<1> DEFINE reset == {n} \ {m \in Nodes : exec[m] \in {"cancelled", "blocked", "idle"}}
           failed == snap.failed \/ Exhausted(reset) # {}
<1>0. TypeOK /\ ResetForRetry(reset)
  BY DEF RunInv, SpawnFails
<1>1. snap' \in Snaps /\ snap'.task = snap.task /\ snap'.complete = snap.complete
  <2>1. failed \in BOOLEAN
        /\ snap' = [snap EXCEPT !.todo = snap.todo \ {n}, !.pre = {}, !.failed = failed]
    BY <1>0, SnapFields DEF SpawnFails, TypeOK
  <2> HIDE DEF failed
  <2> QED BY <1>0, <2>1 DEF TypeOK, Snaps
<1>2. acts' \in 0..MaxActs
  BY <1>0, Limits DEF SpawnFails, TypeOK
<1> HIDE DEF reset
<1>3. TypeOK'
  BY <1>0, <1>1, <1>2, CountOK DEF SpawnFails, TypeOK, Place, Work, Pc
<1> QED BY <1>1, <1>3, Spawning DEF SpawnFails

LEMMA SpawnImpossibleOK ==
  ASSUME RunInv, NEW n \in Nodes, SpawnImpossible(n) PROVE RunInv' /\ Stands
<1>0. TypeOK
  BY DEF RunInv
<1>1. snap' \in Snaps /\ snap'.task = snap.task /\ snap'.complete = snap.complete
  BY <1>0 DEF SpawnImpossible, TypeOK, Snaps
<1>2. acts' \in 0..MaxActs
  BY <1>0, Limits DEF SpawnImpossible, TypeOK
<1>3. TypeOK'
  BY <1>0, <1>1, <1>2 DEF SpawnImpossible, TypeOK, ExecStatus, memory
<1> QED BY <1>1, <1>3, Spawning DEF SpawnImpossible, memory

LEMMA SpawnsEndOK == ASSUME RunInv, SpawnsEnd PROVE RunInv' /\ Stands
<1>0. TypeOK /\ ~ snap.complete /\ snap.task \notin {"done", "cancelled"} /\ snap.task \in TaskStatus
  BY SnapFields DEF RunInv, TypeOK, Remembered, SpawnsEnd
<1>1. ASSUME NEW reads \in {"in_progress", snap.task}, Block(reads), UNCHANGED task
      PROVE  RunInv' /\ Stands
  <2>1. /\ run' \in RunStatus /\ pc' \in Pc /\ snap' \in Snaps
        /\ run \in {"done", "cancelled"} => run' = run
        /\ \/ pc' = "idle"
           \/ pc' = "mark" /\ (~ snap'.complete => snap'.task \notin {"done", "cancelled"})
    BY <1>0, <1>1, BlockOK DEF TaskStatus
  <2>2. TypeOK'
    BY <1>0, <1>1, <2>1 DEF SpawnsEnd, TypeOK, sessions, memory
  <2>3. Remembered'
    BY <2>1 DEF Remembered
  <2> QED BY <1>1, <2>1, <2>2, <2>3, BothStand DEF RunInv, RunStands, TaskStands
<1>2. ASSUME task' = (IF snap.task = "open" THEN "in_progress" ELSE task), EndOfRun, UNCHANGED run
      PROVE  RunInv' /\ Stands
  <2>1. pc' = "clean" /\ pc' \in Pc /\ snap' \in Snaps
    BY <1>2, NoSnapOK DEF EndOfRun, Pc
  <2>2. TypeOK'
    BY <1>0, <1>2, <2>1 DEF SpawnsEnd, TypeOK, TaskStatus, sessions, memory
  <2>3. ReadBefore("cancelled") /\ ReadBefore("done")
    BY <1>0 DEF ReadBefore
  <2> QED BY <1>2, <2>1, <2>2, <2>3, Forgotten DEF Stands
<1> QED BY <1>1, <1>2 DEF SpawnsEnd

-----------------------------------------------------------------------------
(* The end of a tick                                                           *)

LEMMA ApproveOK == ASSUME Approve PROVE task' \in TaskStatus
BY DEF Approve, TaskStatus

LEMMA SettleOK == ASSUME RunInv, Settle PROVE RunInv' /\ Stands
<1>0. TypeOK
  BY DEF RunInv
<1>1. pc' \in {"idle", "clean"} /\ pc' \in Pc /\ snap' \in Snaps
  BY EndsOK DEF Settle
<1>2. task' \in TaskStatus /\ TaskStands
  BY <1>0, ApproveOK DEF Settle, TypeOK, CanApprove, TaskStands
<1>3. exec' \in [Nodes -> ExecStatus] /\ work' \in [Nodes -> Work]
  <2> DEFINE siblings == {n \in Nodes \ {EndNode} : exec[n] = "in_progress" /\ bound[n]}
             quiesced == IF snap.task = "review" THEN {} ELSE siblings
  <2>1. \/ UNCHANGED <<exec, work>>
        \/ /\ exec' = With(exec, quiesced, "idle")
           /\ work' = [n \in Nodes |-> IF n \in quiesced /\ place[n] = "indexed" /\ work[n] = "working"
                                       THEN "silent" ELSE work[n]]
    BY DEF Settle
  <2> HIDE DEF quiesced
  <2>2. With(exec, quiesced, "idle") \in [Nodes -> ExecStatus]
    BY <1>0 DEF With, TypeOK, ExecStatus
  <2>3. [n \in Nodes |-> IF n \in quiesced /\ place[n] = "indexed" /\ work[n] = "working"
                          THEN "silent" ELSE work[n]] \in [Nodes -> Work]
    BY <1>0 DEF TypeOK, Work
  <2> QED BY <1>0, <2>1, <2>2, <2>3 DEF TypeOK
<1>4. TypeOK'
  BY <1>0, <1>1, <1>2, <1>3 DEF Settle, TypeOK, memory
<1> QED BY <1>1, <1>2, <1>4, Forgotten, BothStand DEF Settle, RunStands

LEMMA CleanUpOK == ASSUME RunInv, CleanUp PROVE RunInv' /\ Stands
<1>0. TypeOK
  BY DEF RunInv
<1>1. pc' = "idle" /\ pc' \in Pc /\ snap' \in Snaps
  BY NoSnapOK DEF CleanUp, Throw, Pc
<1>2. /\ task' \in TaskStatus
      /\ task' # task => \/ task' = "cancelled" /\ run = "cancelled"
                         \/ task \in {"open", "in_progress"}
  BY <1>0, ApproveOK DEF CleanUp, TypeOK, TaskStatus
<1>3. driven' \in BOOLEAN
  <2>1. (driven /\ run \notin {"done", "cancelled"}) \in BOOLEAN
    OBVIOUS
  <2> QED BY <1>0, <2>1 DEF CleanUp, TypeOK
<1>4. stuck' \in [Nodes -> Nags]
  BY <1>0, NoNagOK DEF CleanUp, TypeOK
<1>5. TypeOK'
  BY <1>0, <1>1, <1>2, <1>3, <1>4 DEF CleanUp, TypeOK, sessions
<1>6. Stands
  BY <1>2 DEF Stands, CleanUp
<1> QED BY <1>1, <1>5, <1>6, Forgotten

-----------------------------------------------------------------------------
(* Agents                                                                      *)

LEMMA NewNag ==
  ASSUME TypeOK, NEW m \in Nodes
  PROVE  [NoNag EXCEPT !.same = stuck[m].same] \in Nags /\ [stuck[m] EXCEPT !.same = FALSE] \in Nags
<1>1. NoNag \in Nags /\ stuck[m] \in Nags
  BY NoNagOK DEF TypeOK
<1> QED BY <1>1 DEF Nags

LEMMA ProgressOK == ASSUME RunInv, NEW n \in Nodes, Progress(n) PROVE RunInv' /\ Stands
<1>0. TypeOK
  BY DEF RunInv
<1>1. stuck' \in [Nodes -> Nags]
  BY <1>0, NewNag DEF Progress, TypeOK
<1>2. TypeOK'
  BY <1>0, <1>1 DEF Progress, TypeOK, rows
<1> QED BY <1>2, Outside, BothStand DEF Progress, rows, RunStands, TaskStands

LEMMA TurnEndsOK == ASSUME RunInv, NEW n \in Nodes, TurnEnds(n) PROVE RunInv' /\ Stands
<1>0. TypeOK
  BY DEF RunInv
<1>1. /\ work' \in [Nodes -> Work] /\ hears' \in [Nodes -> BOOLEAN]
      /\ exec' \in [Nodes -> ExecStatus]
  BY <1>0 DEF TurnEnds, TypeOK, Work, ExecStatus
<1>2. TypeOK'
  BY <1>0, <1>1 DEF TurnEnds, TypeOK, memory
<1> QED BY <1>2, Outside, BothStand DEF TurnEnds, memory, RunStands, TaskStands

LEMMA TurnFailsOK == ASSUME RunInv, NEW n \in Nodes, TurnFails(n) PROVE RunInv' /\ Stands
<1>0. TypeOK
  BY DEF RunInv
<1>1. /\ work' \in [Nodes -> Work] /\ hears' \in [Nodes -> BOOLEAN]
      /\ exec' \in [Nodes -> ExecStatus] /\ acts' \in 0..MaxActs
  BY <1>0, Limits DEF TurnFails, TypeOK, Work, ExecStatus
<1>2. TypeOK'
  BY <1>0, <1>1 DEF TurnFails, TypeOK, memory
<1> QED BY <1>2, Outside, BothStand DEF TurnFails, memory, RunStands, TaskStands

LEMMA ToolsOK == ASSUME RunInv, Report \/ Submit \/ MarkComplete PROVE RunInv' /\ Stands
<1>0. TypeOK
  BY DEF RunInv
<1>1. TypeOK'
  BY <1>0 DEF Report, Submit, MarkComplete, TypeOK, TaskStatus, sessions, memory
<1> QED BY <1>1, Outside, BothStand
        DEF Report, Submit, MarkComplete, memory, RunStands, TaskStands

LEMMA MessageOK ==
  ASSUME RunInv, NEW n \in Nodes, NEW m \in Nodes, Message(n, m) PROVE RunInv' /\ Stands
<1>0. TypeOK
  BY DEF RunInv
<1>1. run' \in RunStatus /\ (run' # "done" \/ run' = run)
  BY <1>0 DEF Message, TypeOK, RunStatus
<1>2. TypeOK'
  <2>1. CASE ~ IsSessionAlive(m) /\ task = "cancelled"
    BY <1>0, <1>1, <2>1 DEF Message, TypeOK, ExecStatus, sessions
  <2>2. CASE ~ (~ IsSessionAlive(m) /\ task = "cancelled")
    <3>1. /\ exec' \in [Nodes -> ExecStatus] /\ bound' \in [Nodes -> BOOLEAN]
          /\ place' \in [Nodes -> Place] /\ work' \in [Nodes -> Work]
      BY <1>0, <2>2 DEF Message, TypeOK, ExecStatus, Place, Work
    <3>2. hears' \in [Nodes -> BOOLEAN]
      <4>1. (hears[m] \/ place[m] # "indexed") \in BOOLEAN
        OBVIOUS
      <4> QED BY <1>0, <2>2, <4>1 DEF Message, TypeOK
    <3>3. stuck' \in [Nodes -> Nags]
      <4> DEFINE x == IF IsSessionAlive(m) THEN [NoNag EXCEPT !.same = stuck[m].same]
                                           ELSE [stuck[m] EXCEPT !.same = FALSE]
      <4>1. x \in Nags
        BY <1>0, NewNag
      <4>2. stuck' = [stuck EXCEPT ![m] = x]
        BY <1>0, <2>2 DEF Message, TypeOK
      <4> HIDE DEF x
      <4> QED BY <1>0, <4>1, <4>2 DEF TypeOK
    <3> QED BY <1>0, <1>1, <3>1, <3>2, <3>3 DEF Message, TypeOK
  <2> QED BY <2>1, <2>2
<1>3. Stands
  BY DEF Stands, Message, Recalls
<1> QED BY <1>1, <1>2, <1>3, Outside DEF Message

-----------------------------------------------------------------------------
(* Humans                                                                      *)

LEMMA ActOK == ASSUME TypeOK, Act PROVE acts' \in 0..MaxActs
BY Limits DEF TypeOK, Act

LEMMA MovesOK ==
  ASSUME NEW from \in TaskStatus
  PROVE  TaskMoves[from] \subseteq TaskStatus
BY DEF TaskMoves, TaskStatus

LEMMA TaskRpcOK ==
  ASSUME RunInv, UpdateTask \/ RetryTask \/ ApproveTask PROVE RunInv' /\ Stands
<1>0. TypeOK /\ task \in TaskStatus
  BY DEF RunInv, TypeOK
<1>1. acts' \in 0..MaxActs
  BY <1>0, ActOK DEF UpdateTask, RetryTask, ApproveTask
<1>2. task' \in TaskStatus
  BY <1>0, MovesOK, ApproveOK DEF UpdateTask, RetryTask, ApproveTask, TaskStatus
<1>3. TypeOK'
  BY <1>0, <1>1, <1>2 DEF UpdateTask, RetryTask, ApproveTask, TypeOK, sessions, memory
<1>4. RunInv'
  BY <1>3, Outside DEF UpdateTask, RetryTask, ApproveTask, memory
<1>5. UNCHANGED run
  BY DEF UpdateTask, RetryTask, ApproveTask
<1>6. CASE UpdateTask
  <2>1. task = "cancelled" => task' = "done"
    BY <1>6 DEF UpdateTask, TaskMoves, IsWorkflowRecoveryTransition
  <2>2. task # "done"
    BY <1>6 DEF UpdateTask, TaskMoves, IsWorkflowRecoveryTransition
  <2> QED BY <1>4, <1>5, <1>6, <2>1, <2>2 DEF Stands
<1>7. CASE RetryTask
  BY <1>4, <1>5, <1>7 DEF Stands
<1>8. CASE ApproveTask
  BY <1>4, <1>5, <1>8 DEF ApproveTask, Stands
<1> QED BY <1>6, <1>7, <1>8

LEMMA RunRpcOK ==
  ASSUME RunInv, CancelRun \/ ResumeRun \/ MarkFailed PROVE RunInv' /\ Stands
<1>0. TypeOK
  BY DEF RunInv
<1>1. acts' \in 0..MaxActs /\ task' \in TaskStatus /\ run' \in RunStatus \ {"done"}
  BY <1>0, ActOK DEF CancelRun, ResumeRun, MarkFailed, TaskStatus, RunStatus, TypeOK
<1>2. TypeOK'
  BY <1>0, <1>1 DEF CancelRun, ResumeRun, MarkFailed, TypeOK, sessions, memory
<1> QED BY <1>1, <1>2, Outside, BothStand
        DEF CancelRun, ResumeRun, MarkFailed, memory, RunStands, TaskStands

LEMMA WriteToAgentOK ==
  ASSUME RunInv, NEW n \in Nodes, WriteToAgent(n) PROVE RunInv' /\ Stands
<1>0. TypeOK
  BY DEF RunInv
<1>1. /\ acts' \in 0..MaxActs /\ run' \in RunStatus /\ (run' # "done" \/ run' = run)
      /\ exec' \in [Nodes -> ExecStatus]
  BY <1>0, ActOK DEF WriteToAgent, TypeOK, RunStatus, ExecStatus
<1>2. /\ work' \in [Nodes -> Work] /\ place' \in [Nodes -> Place]
      /\ hears' \in [Nodes -> BOOLEAN]
  <2>1. (hears[n] \/ place[n] = "row") \in BOOLEAN
    OBVIOUS
  <2> QED BY <1>0, <2>1 DEF WriteToAgent, TypeOK, sessions, Work, Place
<1>3. TypeOK'
  BY <1>0, <1>1, <1>2 DEF WriteToAgent, TypeOK, memory
<1>4. Stands
  BY DEF Stands, WriteToAgent, Recalls
<1> QED BY <1>1, <1>3, <1>4, Outside DEF WriteToAgent, memory

LEMMA RecoverTaskOK == ASSUME RunInv, RecoverTask PROVE RunInv' /\ Stands
<1>0. TypeOK
  BY DEF RunInv
<1>1. /\ acts' \in 0..MaxActs /\ stuck' \in [Nodes -> Nags] /\ retries' = 0
      /\ UNCHANGED <<bound, place, hears, work, crash, pc, snap>>
  BY <1>0, ActOK, NoNagOK DEF RecoverTask, TypeOK
<1>2. /\ task' \in TaskStatus /\ run' \in RunStatus /\ exec' \in [Nodes -> ExecStatus]
      /\ reported' \in BOOLEAN /\ driven' \in BOOLEAN
      /\ run' = run \/ run' = "in_progress"
  BY <1>0 DEF RecoverTask, TypeOK, TaskStatus, RunStatus, ExecStatus
<1>3. TypeOK'
  <2>1. retries' \in 0..MaxBlockedRetries
    BY <1>1, Limits
  <2> QED BY <1>0, <1>1, <1>2, <2>1 DEF TypeOK
<1>4. Stands
  BY DEF Stands, Recalls
<1> QED BY <1>1, <1>2, <1>3, <1>4, Outside

LEMMA DeleteSessionOK ==
  ASSUME RunInv, NEW n \in Nodes, DeleteSession(n) PROVE RunInv' /\ Stands
<1>0. TypeOK
  BY DEF RunInv
<1>1. acts' \in 0..MaxActs
  BY <1>0, ActOK DEF DeleteSession
<1>2. TypeOK'
  BY <1>0, <1>1 DEF DeleteSession, TypeOK, Place, rows, memory
<1> QED BY <1>2, Outside, BothStand DEF DeleteSession, rows, memory, RunStands, TaskStands

-----------------------------------------------------------------------------
(* Crash and restart                                                           *)

LEMMA CrashOK == ASSUME RunInv, Crash PROVE RunInv' /\ Stands
<1>0. TypeOK
  BY DEF RunInv
<1>1. /\ acts' \in 0..MaxActs /\ snap' \in Snaps /\ pc' = "off"
      /\ stuck' \in [Nodes -> Nags] /\ crash' \in [Nodes -> 0..MaxCrashRetries + 1]
      /\ retries' \in 0..MaxBlockedRetries
  BY <1>0, ActOK, NoSnapOK, NoNagOK, Limits DEF Crash, TypeOK
<1>2. /\ place' \in [Nodes -> Place] /\ hears' \in [Nodes -> BOOLEAN]
      /\ work' \in [Nodes -> Work]
  BY <1>0, WithOK DEF Crash, TypeOK, Place, Work
<1>3. TypeOK'
  BY <1>0, <1>1, <1>2 DEF Crash, TypeOK, rows, Pc
<1> QED BY <1>1, <1>3, Forgotten, BothStand DEF Crash, rows, RunStands, TaskStands

LEMMA BootOK == ASSUME RunInv, Boot PROVE RunInv' /\ Stands
<1>0. TypeOK
  BY DEF RunInv
<1>1. place' \in [Nodes -> Place] /\ hears' \in [Nodes -> BOOLEAN]
  <2>1. PICK back : place' = With(place, back, "indexed") /\ hears' = With(hears, back, TRUE)
    BY DEF Boot
  <2> QED BY <1>0, <2>1 DEF With, TypeOK, Place
<1>2. driven' \in BOOLEAN
  BY DEF Boot
<1>3. CASE Throw /\ UNCHANGED run /\ exec' \in [Nodes -> ExecStatus]
  <2>1. pc' = "idle" /\ pc' \in Pc /\ snap' \in Snaps
    BY <1>3, NoSnapOK DEF Throw, Pc
  <2>2. TypeOK'
    BY <1>0, <1>1, <1>2, <1>3, <2>1 DEF Boot, TypeOK
  <2> QED BY <1>3, <2>1, <2>2, Forgotten, BothStand DEF Boot, RunStands, TaskStands
<1>4. CASE Block("in_progress") /\ UNCHANGED exec
  <2>1. /\ run' \in RunStatus /\ pc' \in Pc /\ snap' \in Snaps
        /\ run \in {"done", "cancelled"} => run' = run
        /\ \/ pc' = "idle"
           \/ pc' = "mark" /\ (~ snap'.complete => snap'.task \notin {"done", "cancelled"})
    BY <1>4, BlockOK DEF TaskStatus
  <2>2. TypeOK'
    BY <1>0, <1>1, <1>2, <1>4, <2>1 DEF Boot, TypeOK
  <2>3. Remembered'
    BY <2>1 DEF Remembered
  <2> QED BY <2>1, <2>2, <2>3, BothStand DEF Boot, RunInv, RunStands, TaskStands
<1>5. ASSUME exec' = exec \/ exec' = With(exec, Downstream, "pending")
      PROVE  exec' \in [Nodes -> ExecStatus]
  BY <1>0, <1>5 DEF With, TypeOK, ExecStatus
<1> QED BY <1>3, <1>4, <1>5 DEF Boot

-----------------------------------------------------------------------------

LEMMA RunStarts == Init => RunInv
<1> SUFFICES ASSUME Init PROVE RunInv
  OBVIOUS
<1>1. /\ 0 \in 0..MaxBlockedRetries /\ 0 \in 0..MaxActs
      /\ crash \in [Nodes -> 0..MaxCrashRetries + 1]
  BY Limits DEF Init
<1>2. stuck \in [Nodes -> Nags] /\ snap \in Snaps
  BY NoNagOK, NoSnapOK DEF Init
<1>3. exec \in [Nodes -> ExecStatus]
  BY DEF Init, ExecStatus
<1>4. TypeOK
  BY <1>1, <1>2, <1>3 DEF Init, TypeOK, RunStatus, TaskStatus, Place, Work, Pc
<1> QED BY <1>4 DEF RunInv, Remembered, Init

LEMMA RunStep == RunInv /\ [Next]_vars => RunInv' /\ Stands
<1> SUFFICES ASSUME RunInv, [Next]_vars PROVE RunInv' /\ Stands
  OBVIOUS
<1>1. CASE Runtime
  <2>1. CASE TickBegin \/ RetryBlocked \/ MarkTask \/ CheckSessions \/ Decide
    BY <2>1, TickBeginOK, RetryBlockedOK, MarkTaskOK, CheckSessionsOK, DecideOK
  <2>2. CASE SpawnsEnd \/ Settle \/ CleanUp
    BY <2>2, SpawnsEndOK, SettleOK, CleanUpOK
  <2>3. ASSUME NEW n \in Nodes, Nag(n) \/ Restart(n) \/ SpawnLive(n) \/ SpawnStart(n)
        PROVE  RunInv' /\ Stands
    BY <2>3, NagOK, RestartOK, SpawnLiveOK, SpawnStartOK
  <2>4. ASSUME NEW n \in Nodes, SpawnDone(n) \/ SpawnFails(n) \/ SpawnImpossible(n)
        PROVE  RunInv' /\ Stands
    BY <2>4, SpawnDoneOK, SpawnFailsOK, SpawnImpossibleOK
  <2> QED BY <1>1, <2>1, <2>2, <2>3, <2>4 DEF Runtime
<1>2. CASE Agents
  <2>1. ASSUME NEW n \in Nodes, Progress(n) \/ TurnEnds(n) \/ TurnFails(n)
        PROVE  RunInv' /\ Stands
    BY <2>1, ProgressOK, TurnEndsOK, TurnFailsOK
  <2>2. ASSUME NEW n \in Nodes, NEW m \in Nodes, Message(n, m) PROVE RunInv' /\ Stands
    BY <2>2, MessageOK
  <2> QED BY <1>2, <2>1, <2>2, ToolsOK DEF Agents
<1>3. CASE Human
  <2>1. ASSUME NEW n \in Nodes, WriteToAgent(n) \/ DeleteSession(n) PROVE RunInv' /\ Stands
    BY <2>1, WriteToAgentOK, DeleteSessionOK
  <2> QED BY <1>3, <2>1, TaskRpcOK, RunRpcOK, RecoverTaskOK DEF Human
<1>4. CASE UNCHANGED vars
  <2>1. TypeOK'
    BY <1>4 DEF RunInv, TypeOK, vars
  <2> QED BY <1>4, <2>1, Outside, BothStand DEF vars, RunStands, TaskStands
<1> QED BY <1>1, <1>2, <1>3, <1>4, CrashOK, BootOK DEF Next

(* The rows, sessions and counters of a run keep their types: in particular no *)
(* limit of constants.ts is exceeded, whatever humans, agents and crashes do   *)
(* during the awaits of a tick.                                                *)
THEOREM RunTypeCorrect == Spec => []TypeOK
<1>1. RunInv => TypeOK
  BY DEF RunInv
<1> QED BY <1>1, RunStarts, RunStep, PTL DEF Spec

(* A run or task that is over comes back only by the calls that say so, or     *)
(* through the one tick that raced its end.                                    *)
THEOREM OverStaysOver == Spec => TerminalStands
<1>1. RunInv /\ [Next]_vars => [Stands]_vars
  BY RunStep
<1> QED BY <1>1, RunStarts, RunStep, PTL DEF Spec, TerminalStands, Stands

-----------------------------------------------------------------------------
(* Sessions and statuses *)

(* The session of a node is one of its execution; an execution under way or at *)
(* rest has one, and an agent that works, or is listened to, does so in a      *)
(* session the daemon holds in memory.                                         *)
Held(n) ==
  /\ place[n] # "none" => bound[n]
  /\ exec[n] \in {"in_progress", "idle"} => bound[n]
  /\ work[n] # "silent" => bound[n]
  /\ work[n] = "working" \/ hears[n] => place[n] \in {"indexed", "stopped"}

AgentsAreHeld == \A n \in Nodes : Held(n)

(* While a kickoff is awaited nobody takes its session away: a deletion needs  *)
(* one that is only a row, and the restart of an agent is a step of the tick.  *)
KickoffHeld == pc = "busy" => \A n \in snap.pre : place[n] \in {"indexed", "stopped"}

HeldInv == TypeOK /\ AgentsAreHeld /\ KickoffHeld

(* Where the sessions stand still, only what becomes of executions matters.    *)
LEMMA SessionsStay ==
  ASSUME HeldInv, TypeOK', UNCHANGED <<bound, sessions>>,
         \A n \in Nodes : exec'[n] \in {"in_progress", "idle"} => exec'[n] = exec[n] \/ bound[n],
         pc' = "busy" => pc = "busy" /\ snap' = snap
  PROVE  HeldInv'
BY DEF HeldInv, AgentsAreHeld, Held, KickoffHeld, sessions

LEMMA ResetKeeps ==
  ASSUME TypeOK, NEW S, ResetForRetry(S), NEW n \in Nodes,
         exec'[n] \in {"in_progress", "idle"}
  PROVE  exec'[n] = exec[n]
BY DEF ResetForRetry, TypeOK

LEMMA TickHolds ==
  ASSUME HeldInv, TypeOK',
         \/ TickBegin \/ RetryBlocked \/ MarkTask \/ CheckSessions
         \/ Decide \/ SpawnsEnd \/ CleanUp
  PROVE  HeldInv'
<1>0. TypeOK
  BY DEF HeldInv
<1>1. CASE TickBegin \/ MarkTask \/ CleanUp
  <2>1. pc' # "busy" /\ UNCHANGED <<exec, bound, sessions>>
    BY <1>1 DEF TickBegin, MarkTask, CleanUp, EndOfRun, Throw, Block
  <2> QED BY <2>1, SessionsStay
<1>2. CASE RetryBlocked
  <2>1. pc' # "busy" /\ UNCHANGED <<bound, sessions>>
    BY <1>2 DEF RetryBlocked, EndOfRun, Throw, sessions
  <2>2. \A n \in Nodes : exec'[n] = "pending" \/ exec'[n] = exec[n]
    BY <1>2 DEF RetryBlocked, With
  <2> QED BY <2>1, <2>2, SessionsStay
<1>3. CASE CheckSessions
  <2>1. pc' # "busy" /\ UNCHANGED <<bound, sessions>>
    BY <1>3 DEF CheckSessions, Throw, Block, sessions
  <2>2. PICK S : ResetForRetry(S)
    BY <1>3 DEF CheckSessions
  <2> QED BY <1>0, <2>1, <2>2, ResetKeeps, SessionsStay
<1>4. CASE Decide
  <2>1. pc' # "busy" /\ UNCHANGED <<bound, sessions>>
    BY <1>4 DEF Decide, EndOfRun, Throw
  <2>2. ASSUME NEW n \in Nodes PROVE exec'[n] = exec[n] \/ bound[n]
    <3> DEFINE alive == {m \in {k \in snap.pre : exec[k] = "pending"} : IsSessionAlive(m)}
    <3>1. exec' = exec \/ exec' = With(exec, alive, "in_progress")
      BY <1>4 DEF Decide
    <3>2. n \in alive => bound[n]
      BY DEF IsSessionAlive
    <3> HIDE DEF alive
    <3> QED BY <3>1, <3>2 DEF With
  <2> QED BY <2>1, <2>2, SessionsStay
<1>5. CASE SpawnsEnd
  <2>1. pc' # "busy" /\ UNCHANGED <<exec, bound, sessions>>
    BY <1>5 DEF SpawnsEnd, EndOfRun, Throw, Block
  <2> QED BY <2>1, SessionsStay
<1> QED BY <1>1, <1>2, <1>3, <1>4, <1>5

LEMMA SettleHolds == ASSUME HeldInv, TypeOK', Settle PROVE HeldInv'
<1>0. TypeOK
  BY DEF HeldInv
<1>1. pc' # "busy" /\ UNCHANGED <<bound, place, hears>>
  BY DEF Settle, EndOfRun, Throw
<1>2. ASSUME NEW n \in Nodes
      PROVE  /\ work'[n] = work[n] \/ work'[n] = "silent"
             /\ exec'[n] = exec[n] \/ bound[n]
  <2> DEFINE siblings == {m \in Nodes \ {EndNode} : exec[m] = "in_progress" /\ bound[m]}
             quiesced == IF snap.task = "review" THEN {} ELSE siblings
  <2>1. \/ UNCHANGED <<exec, work>>
        \/ /\ exec' = With(exec, quiesced, "idle")
           /\ work' = [m \in Nodes |-> IF m \in quiesced /\ place[m] = "indexed" /\ work[m] = "working"
                                       THEN "silent" ELSE work[m]]
    BY DEF Settle
  <2>2. n \in quiesced => bound[n]
    OBVIOUS
  <2> HIDE DEF quiesced
  <2> QED BY <2>1, <2>2 DEF With
<1> QED BY <1>1, <1>2 DEF HeldInv, AgentsAreHeld, Held, KickoffHeld

(* A step that rewrites one node, and leaves no kickoff without its session.   *)
LEMMA OneNode ==
  ASSUME HeldInv, TypeOK', NEW n \in Nodes, Held(n)', KickoffHeld',
         \A m \in Nodes \ {n} : /\ exec'[m] = exec[m] /\ bound'[m] = bound[m]
                                /\ place'[m] = place[m] /\ hears'[m] = hears[m]
                                /\ work'[m] = work[m]
  PROVE  HeldInv'
<1>1. ASSUME NEW m \in Nodes, m # n PROVE Held(m)'
  BY <1>1 DEF HeldInv, AgentsAreHeld, Held
<1>2. Held(n)'
  OBVIOUS
<1>3. AgentsAreHeld'
  BY <1>1, <1>2 DEF AgentsAreHeld
<1> QED BY <1>3 DEF HeldInv

LEMMA WatchHolds ==
  ASSUME HeldInv, TypeOK', NEW n \in Nodes, Nag(n) \/ Restart(n) PROVE HeldInv'
<1>0. TypeOK /\ Held(n) /\ pc = "stuck"
  BY DEF HeldInv, AgentsAreHeld, Nag, Restart, MayBeStuck
<1>1. KickoffHeld'
  BY <1>0 DEF KickoffHeld, Nag, Restart, EndOfRun, Throw, Block
<1>2. CASE Nag(n)
  <2>1. bound[n] /\ place[n] # "none"
    BY <1>2 DEF Nag, MayBeStuck, Watched
  <2>2. UNCHANGED <<exec, bound>>
    BY <1>2 DEF Nag, rows
  <2>3. Held(n)'
    BY <1>0, <1>2, <2>1, <2>2 DEF Nag, Held, TypeOK, Place
  <2> QED BY <1>0, <1>1, <1>2, <2>2, <2>3, OneNode DEF Nag, TypeOK
<1>3. CASE Restart(n)
  <2> DEFINE again == Seen(n).restarts < MaxRestarts
  <2>1. /\ exec' = [exec EXCEPT ![n] = IF again THEN "pending" ELSE "blocked"]
        /\ bound' = [bound EXCEPT ![n] = ~ again]
        /\ place' = [place EXCEPT ![n] = IF again THEN "none" ELSE place[n]]
        /\ hears' = [hears EXCEPT ![n] = hears[n] /\ ~ again]
        /\ work' = [work EXCEPT ![n] = IF again THEN "silent" ELSE work[n]]
    BY <1>3 DEF Restart
  <2> HIDE DEF again
  <2>2. Held(n)'
    BY <1>0, <2>1 DEF Held, TypeOK
  <2> QED BY <1>0, <1>1, <2>1, <2>2, OneNode DEF TypeOK
<1> QED BY <1>2, <1>3

LEMMA SpawnHolds ==
  ASSUME HeldInv, TypeOK', NEW n \in Nodes,
         \/ SpawnLive(n) \/ SpawnStart(n) \/ SpawnDone(n) \/ SpawnFails(n) \/ SpawnImpossible(n)
  PROVE  HeldInv'
<1>0. TypeOK /\ Held(n) /\ KickoffHeld
  BY DEF HeldInv, AgentsAreHeld
<1>1. CASE SpawnLive(n)
  <2>1. pc' # "busy" /\ UNCHANGED <<bound, sessions>>
    BY <1>1 DEF SpawnLive
  <2>2. \A m \in Nodes : exec'[m] = exec[m] \/ bound[m]
    BY <1>0, <1>1 DEF SpawnLive, TypeOK
  <2> QED BY <2>1, <2>2, SessionsStay
<1>2. CASE SpawnStart(n)
  <2>1. Held(n)'
    BY <1>0, <1>2 DEF SpawnStart, Held, TypeOK
  <2>2. snap'.pre = {n}
    BY <1>0, <1>2 DEF SpawnStart, TypeOK, Snaps
  <2>3. KickoffHeld'
    BY <1>0, <1>2, <2>2 DEF SpawnStart, KickoffHeld, TypeOK
  <2> QED BY <1>0, <1>2, <2>1, <2>3, OneNode DEF SpawnStart, TypeOK
<1>3. CASE SpawnDone(n)
  <2>1. Held(n)' /\ KickoffHeld'
    BY <1>0, <1>3 DEF SpawnDone, Held, KickoffHeld, TypeOK
  <2> QED BY <1>0, <1>3, <2>1, OneNode DEF SpawnDone, TypeOK
<1>4. CASE SpawnFails(n)
  <2>1. PICK S \in SUBSET {n} : ResetForRetry(S)
    BY <1>4 DEF SpawnFails
  <2>2. \A m \in Nodes \ {n} : exec'[m] = exec[m]
    BY <1>0, <2>1 DEF ResetForRetry, TypeOK
  <2>3. exec'[n] \in {"in_progress", "idle"} => exec'[n] = exec[n]
    BY <1>0, <2>1, ResetKeeps
  <2>4. bound[n]
    BY <1>0, <1>4 DEF SpawnFails, KickoffHeld, Held
  <2>5. Held(n)' /\ KickoffHeld'
    BY <1>0, <1>4, <2>3, <2>4 DEF SpawnFails, Held, KickoffHeld, TypeOK
  <2> QED BY <1>0, <1>4, <2>2, <2>5, OneNode DEF SpawnFails, TypeOK
<1>5. CASE SpawnImpossible(n)
  <2>1. pc' # "busy" /\ UNCHANGED <<bound, sessions>>
    BY <1>5 DEF SpawnImpossible, sessions
  <2>2. \A m \in Nodes : exec'[m] = exec[m] \/ exec'[m] = "cancelled"
    BY <1>0, <1>5 DEF SpawnImpossible, TypeOK
  <2> QED BY <2>1, <2>2, SessionsStay
<1> QED BY <1>1, <1>2, <1>3, <1>4, <1>5

LEMMA AgentsHold ==
  ASSUME HeldInv, TypeOK', NEW n \in Nodes,
         \/ Progress(n) \/ TurnEnds(n) \/ TurnFails(n) \/ Report \/ Submit \/ MarkComplete
         \/ \E m \in Nodes : Message(n, m)
  PROVE  HeldInv'
<1>0. TypeOK /\ Held(n) /\ KickoffHeld
  BY DEF HeldInv, AgentsAreHeld
<1>1. CASE Progress(n) \/ Report \/ Submit \/ MarkComplete
  <2>1. UNCHANGED <<exec, bound, sessions, pc, snap>>
    BY <1>1 DEF Progress, Report, Submit, MarkComplete, rows, sessions
  <2> QED BY <2>1, SessionsStay
<1>2. CASE TurnEnds(n) \/ TurnFails(n)
  <2>0. UNCHANGED <<bound, place, pc, snap>> /\ bound[n]
    BY <1>2 DEF TurnEnds, TurnFails, Running
  <2>1. Held(n)' /\ KickoffHeld'
    BY <1>0, <1>2, <2>0 DEF TurnEnds, TurnFails, Held, KickoffHeld, TypeOK
  <2> QED BY <1>0, <1>2, <2>0, <2>1, OneNode DEF TurnEnds, TurnFails, TypeOK
<1>3. ASSUME NEW m \in Nodes, Message(n, m) PROVE HeldInv'
  <2>0. Held(m) /\ UNCHANGED <<pc, snap>>
    BY <1>3 DEF HeldInv, AgentsAreHeld, Message
  <2>1. CASE ~ IsSessionAlive(m) /\ task = "cancelled"
    <3>1. UNCHANGED <<bound, sessions>> /\ exec' = [exec EXCEPT ![m] = "pending"]
      BY <1>3, <2>1 DEF Message
    <3>2. \A k \in Nodes : exec'[k] = exec[k] \/ exec'[k] = "pending"
      BY <1>0, <3>1 DEF TypeOK
    <3> QED BY <2>0, <3>1, <3>2, SessionsStay
  <2>2. CASE ~ (~ IsSessionAlive(m) /\ task = "cancelled")
    <3>0. bound' = [bound EXCEPT ![m] = TRUE] /\ place' = [place EXCEPT ![m] = "indexed"]
      BY <1>3, <2>2 DEF Message
    <3>1. bound'[m] /\ place'[m] = "indexed"
      BY <1>0, <3>0 DEF TypeOK
    <3>2. Held(m)'
      BY <3>1 DEF Held
    <3>3. KickoffHeld'
      BY <1>0, <2>0, <3>0 DEF KickoffHeld, TypeOK
    <3> QED BY <1>0, <1>3, <2>2, <3>2, <3>3, OneNode DEF Message, TypeOK
  <2> QED BY <2>1, <2>2
<1> QED BY <1>1, <1>2, <1>3

LEMMA HumansHold == ASSUME HeldInv, TypeOK', Human PROVE HeldInv'
<1>0. TypeOK /\ AgentsAreHeld /\ KickoffHeld
  BY DEF HeldInv
<1>1. CASE \/ UpdateTask \/ RetryTask \/ CancelRun \/ ResumeRun \/ MarkFailed \/ ApproveTask
  <2>1. UNCHANGED <<exec, bound, sessions, pc, snap>>
    BY <1>1 DEF UpdateTask, RetryTask, CancelRun, ResumeRun, MarkFailed, ApproveTask
  <2> QED BY <2>1, SessionsStay
<1>2. CASE RecoverTask
  <2>1. UNCHANGED <<bound, sessions, pc, snap>>
    BY <1>2 DEF RecoverTask, sessions
  <2>2. \A m \in Nodes : exec'[m] = exec[m] \/ exec'[m] = "pending" \/ bound[m]
    BY <1>0, <1>2 DEF RecoverTask, TypeOK, IsSessionAlive
  <2> QED BY <2>1, <2>2, SessionsStay
<1>3. ASSUME NEW n \in Nodes, WriteToAgent(n) PROVE HeldInv'
  <2>0. Held(n) /\ UNCHANGED <<bound, pc, snap>>
    BY <1>0, <1>3 DEF AgentsAreHeld, WriteToAgent
  <2>1. exec'[n] = exec[n] \/ exec'[n] = "pending" \/ bound[n]
    BY <1>0, <1>3 DEF WriteToAgent, TypeOK, IsSessionAlive
  <2>2. CASE IsSessionAlive(n)
    <3>1. /\ work' = [work EXCEPT ![n] = "working"]
          /\ place' = [place EXCEPT ![n] = IF place[n] = "row" THEN "indexed" ELSE place[n]]
          /\ hears' = [hears EXCEPT ![n] = hears[n] \/ place[n] = "row"]
      BY <1>3, <2>2 DEF WriteToAgent
    <3>2. bound[n] /\ place'[n] \in {"indexed", "stopped"}
      BY <1>0, <2>2, <3>1 DEF IsSessionAlive, TypeOK, Place
    <3>3. Held(n)'
      BY <2>0, <3>2 DEF Held
    <3>4. KickoffHeld'
      BY <1>0, <2>0, <3>1, <3>2 DEF KickoffHeld, TypeOK
    <3> QED BY <1>0, <1>3, <2>0, <3>1, <3>3, <3>4, OneNode DEF WriteToAgent, TypeOK
  <2>3. CASE ~ IsSessionAlive(n)
    <3>1. UNCHANGED sessions
      BY <1>3, <2>3 DEF WriteToAgent
    <3>2. \A m \in Nodes : exec'[m] = exec[m] \/ exec'[m] = "pending" \/ bound[m]
      BY <1>0, <1>3, <2>1 DEF WriteToAgent, TypeOK
    <3> QED BY <2>0, <3>1, <3>2, SessionsStay
  <2> QED BY <2>2, <2>3
<1>4. ASSUME NEW n \in Nodes, DeleteSession(n) PROVE HeldInv'
  <2>0. Held(n) /\ UNCHANGED <<exec, bound, hears, work, pc, snap>>
    BY <1>0, <1>4 DEF AgentsAreHeld, DeleteSession, rows
  <2>1. Held(n)' /\ KickoffHeld'
    BY <1>0, <1>4, <2>0 DEF DeleteSession, Held, KickoffHeld, TypeOK
  <2> QED BY <1>0, <1>4, <2>0, <2>1, OneNode DEF DeleteSession, TypeOK
<1> QED BY <1>1, <1>2, <1>3, <1>4 DEF Human

LEMMA RestartsHold == ASSUME HeldInv, TypeOK', Crash \/ Boot PROVE HeldInv'
<1>0. TypeOK /\ AgentsAreHeld
  BY DEF HeldInv
<1>1. CASE Crash
  <2>1. KickoffHeld' /\ UNCHANGED <<exec, bound>>
    BY <1>1 DEF KickoffHeld, Crash, rows
  <2>2. ASSUME NEW n \in Nodes PROVE Held(n)'
    BY <1>0, <1>1, <2>1 DEF AgentsAreHeld, Held, Crash, With, TypeOK
  <2> QED BY <2>1, <2>2 DEF HeldInv, AgentsAreHeld
<1>2. CASE Boot
  <2>1. KickoffHeld' /\ UNCHANGED <<bound, work>>
    BY <1>2 DEF KickoffHeld, Boot, Throw, Block
  <2>2. \A n \in Nodes : exec'[n] = exec[n] \/ exec'[n] = "pending"
    BY <1>2 DEF Boot, With
  <2>3. PICK back \in SUBSET Nodes :
           /\ \A n \in back : place[n] = "row"
           /\ place' = With(place, back, "indexed") /\ hears' = With(hears, back, TRUE)
    BY <1>2 DEF Boot
  <2>4. ASSUME NEW n \in Nodes PROVE Held(n)'
    BY <1>0, <2>1, <2>2, <2>3 DEF AgentsAreHeld, Held, With, TypeOK
  <2> QED BY <2>1, <2>4 DEF HeldInv, AgentsAreHeld
<1> QED BY <1>1, <1>2

LEMMA HeldStep == HeldInv /\ TypeOK' /\ [Next]_vars => HeldInv'
<1> SUFFICES ASSUME HeldInv, TypeOK', [Next]_vars PROVE HeldInv'
  OBVIOUS
<1>1. CASE Runtime
  <2>1. ASSUME NEW n \in Nodes, \/ Nag(n) \/ Restart(n) \/ SpawnLive(n) \/ SpawnStart(n)
                                \/ SpawnDone(n) \/ SpawnFails(n) \/ SpawnImpossible(n)
        PROVE  HeldInv'
    BY <2>1, WatchHolds, SpawnHolds
  <2> QED BY <1>1, <2>1, TickHolds, SettleHolds DEF Runtime
<1>2. CASE Agents
  BY <1>2, AgentsHold, Limits DEF Agents
<1>3. CASE UNCHANGED vars
  BY <1>3, SessionsStay DEF vars, sessions
<1> QED BY <1>1, <1>2, <1>3, HumansHold, RestartsHold DEF Next

(* Whatever ticks, agents, humans and crashes do in between, an execution that *)
(* is in progress is bound to a session, so that the watch over silent agents  *)
(* (space-runtime.ts, handleAliveStuckExecutions) passes over none of them,    *)
(* and an agent never works on in a session the daemon has let go of.          *)
THEOREM AgentsAreInReach == Spec => []AgentsAreHeld
<1>1. RunInv /\ HeldInv => TypeOK /\ AgentsAreHeld
  BY DEF HeldInv
<1>2. Init => HeldInv
  <2> SUFFICES ASSUME Init PROVE HeldInv
    OBVIOUS
  <2>1. TypeOK
    BY RunStarts DEF RunInv
  <2> QED BY <2>1 DEF HeldInv, AgentsAreHeld, Held, KickoffHeld, Init
<1>3. RunInv' => TypeOK'
  BY DEF RunInv
<1> QED BY <1>1, <1>2, <1>3, RunStarts, RunStep, HeldStep, PTL DEF Spec

(* What moves the run moves it along the status machine, the paths that write  *)
(* it without asking it (workflow-run-status-machine.ts) included: recovery of *)
(* a task, messages that reopen a run, and restarts.                           *)
FollowsMachine == run' # run => CanTransition(run, run')
RunsFollowTheirMachine == [][FollowsMachine]_vars

LEMMA MachineStep == TypeOK /\ [Next]_vars => FollowsMachine
<1> SUFFICES ASSUME TypeOK, [Next]_vars PROVE FollowsMachine
  OBVIOUS
<1>0. run \in RunStatus
  BY DEF TypeOK
<1>1. CASE Runtime
  <2>1. CASE TickBegin \/ RetryBlocked \/ CheckSessions \/ Decide \/ SpawnsEnd
    BY <1>0, <2>1 DEF FollowsMachine, TickBegin, RetryBlocked, CheckSessions, Decide, SpawnsEnd, Block
  <2>2. CASE MarkTask \/ Settle \/ CleanUp
    BY <2>2 DEF FollowsMachine, MarkTask, Settle, CleanUp
  <2>3. ASSUME NEW n \in Nodes, Nag(n) \/ Restart(n) PROVE FollowsMachine
    BY <2>3 DEF FollowsMachine, Nag, Restart, Block, rows
  <2>4. ASSUME NEW n \in Nodes, \/ SpawnLive(n) \/ SpawnStart(n) \/ SpawnDone(n)
                                \/ SpawnFails(n) \/ SpawnImpossible(n)
        PROVE  FollowsMachine
    BY <2>4 DEF FollowsMachine, SpawnLive, SpawnStart, SpawnDone, SpawnFails, SpawnImpossible
  <2> QED BY <1>1, <2>1, <2>2, <2>3, <2>4 DEF Runtime
<1>2. CASE Agents
  <2>1. ASSUME NEW n \in Nodes, NEW m \in Nodes, Message(n, m) PROVE FollowsMachine
    BY <2>1 DEF FollowsMachine, Message, CanTransition
  <2>2. ASSUME NEW n \in Nodes, Progress(n) \/ TurnEnds(n) \/ TurnFails(n) PROVE FollowsMachine
    BY <2>2 DEF FollowsMachine, Progress, TurnEnds, TurnFails, rows
  <2> QED BY <1>2, <2>1, <2>2 DEF Agents, FollowsMachine, Report, Submit, MarkComplete
<1>3. CASE Human
  <2>1. ASSUME NEW n \in Nodes, WriteToAgent(n) \/ DeleteSession(n) PROVE FollowsMachine
    BY <2>1 DEF FollowsMachine, WriteToAgent, DeleteSession, CanTransition, rows
  <2>2. CASE UpdateTask \/ RetryTask \/ ApproveTask
    BY <2>2 DEF FollowsMachine, UpdateTask, RetryTask, ApproveTask
  <2>3. CASE CancelRun \/ ResumeRun \/ MarkFailed \/ RecoverTask
    BY <1>0, <2>3 DEF FollowsMachine, CancelRun, ResumeRun, MarkFailed, RecoverTask,
                      CanTransition, RunStatus
  <2> QED BY <1>3, <2>1, <2>2, <2>3 DEF Human
<1>4. CASE Crash \/ Boot \/ UNCHANGED vars
  BY <1>0, <1>4 DEF FollowsMachine, Crash, Boot, Block, vars, rows
<1> QED BY <1>1, <1>2, <1>3, <1>4 DEF Next

(* No tick, message, call or restart moves a run against its status machine,   *)
(* although several of them write the status without consulting it.            *)
THEOREM RunsFollowMachine == Spec => RunsFollowTheirMachine
<1>1. RunInv /\ [Next]_vars => [FollowsMachine]_vars
  BY MachineStep DEF RunInv
<1> QED BY <1>1, RunStarts, RunStep, PTL DEF Spec, RunsFollowTheirMachine
=============================================================================
