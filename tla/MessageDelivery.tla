--------------------------- MODULE MessageDelivery ---------------------------
(***************************************************************************)
(* How a chat message reaches the agent of one session: the rows of        *)
(* sdk_messages, the in-memory MessageQueue, the QueryRunner that feeds it *)
(* to an SDK subprocess, and everything that stops, restarts, interrupts   *)
(* or retries that subprocess meanwhile.                                   *)
(*                                                                         *)
(* The daemon is one JavaScript thread: an action is the code between two  *)
(* awaits, so what the model interleaves is what the awaits let through.   *)
(* The session is in immediate mode and its transcript file is in place.   *)
(*                                                                         *)
(* The SDK subprocess is external.  It reads its input eagerly: it asks    *)
(* for a message as soon as it is started, and asks again once it has      *)
(* written the last one.  It may answer, fail or exit whenever it likes.   *)
(***************************************************************************)
EXTENDS Integers, Sequences, FiniteSets

CONSTANTS
    NumMsgs,    \* messages the user sends, numbered in the order they arrive
    MaxRuns,    \* bound on the queries started, over all restarts of the daemon
    MaxFaults,  \* bound on the faults and user interventions of a behaviour
    Kinds       \* the kinds of fault and intervention that may happen

AllKinds == {"exit", "startup", "transient", "fatal", "timeout",
             "interrupt", "reset", "restart", "crash"}

ASSUME BoundsAssumption ==
    /\ NumMsgs \in Nat \ {0}
    /\ MaxRuns \in Nat \ {0}
    /\ MaxFaults \in Nat
    /\ Kinds \subseteq AllKinds

Msgs == 1..NumMsgs
Runs == 1..MaxRuns

\* runQuery may call itself once more for the same query: a run has two attempts,
\* each with an SDK subprocess and an input generator of its own.
Attempts == Runs \X {1, 2}
NoAttempt == <<0, 0>>

VARIABLES
    row,        \* send_status of each message's row
    covered,    \* messages whose row is older than the latest system:init
    mq,         \* the MessageQueue object
    ctx,        \* the AgentSession fields the handlers share
    run,        \* the runQuery call of each query generation
    sdk,        \* the subprocess and input generator of each attempt
    handler,    \* startQueryAndEnqueue and its failure handler, per message
    flush,      \* QueryModeHandler calls: 0 is the replay at startup, r the
                \* trigger awaited by the message loop of run r
    lifecycle,  \* a reset or restart asked for by the user
    stopping,   \* the queryObject each stop() in progress set out to close
    interrupting, \* the calls of handleInterrupt under way, and their promise
    given,      \* how often each message was yielded (history)
    faults

vars == <<row, covered, mq, ctx, run, sdk, handler, flush, lifecycle,
          stopping, interrupting, given, faults>>

-----------------------------------------------------------------------------
(* Data *)

Statuses == {"absent", "deferred", "enqueued", "consumed", "failed"}

\* An entry remembers whose promise it settles.
Entries == [msg : Msgs, by : {"send", "resend", "redo", "flush"}, owner : 0..MaxRuns]
EntryOf(m, by, owner) == [msg |-> m, by |-> by, owner |-> owner]

NoEntry == [msg |-> 0, by |-> "nobody", owner |-> 0]

NoSdk == [held |-> NoEntry, cap |-> 0, alive |-> FALSE, spoke |-> FALSE,
          turns |-> 0, aborted |-> FALSE]

NoFlush == [pc |-> "no", todo |-> {}, more |-> FALSE]

NoInterrupt == [calls |-> 0, promised |-> FALSE]
Interrupts == [calls : Nat, promised : BOOLEAN]

RowsWith(rows, s) == {m \in Msgs : rows[m] = s}

\* Messages are numbered in arrival order, which is the order of the rows.
First(todo) == CHOOSE m \in todo : \A n \in todo : m <= n

Spend(k) == k \in Kinds /\ faults < MaxFaults /\ faults' = faults + 1

-----------------------------------------------------------------------------
(* The message queue *)

\* stop wakes every parked generator, which then sees running = FALSE and ends.
Stopped(q) == [q EXCEPT !.running = FALSE, !.waiters = <<>>]

Pushed(q, e) == [q EXCEPT !.entries = Append(@, e)]

\* What follows the promise of a replay: the next message, or the end of the
\* list, after which the replay at startup goes on to the deferred rows.
Triggering == [pc |-> "trigger", todo |-> {}, more |-> FALSE]
EndOf(f) == IF f.more THEN Triggering ELSE NoFlush
StepOf(f) == IF f.todo = {First(f.todo)} THEN EndOf(f)
             ELSE [f EXCEPT !.pc = "push", !.todo = @ \ {First(@)}]

Rejects(es, m, by) == \E i \in DOMAIN es : es[i].msg = m /\ es[i].by = by

\* clear: every queued promise is rejected as 'Interrupted by user'.  The first
\* sender returns, a second delivery gives up, a replay ends.
ClearedHandlers ==
    [m \in Msgs |-> CASE Rejects(mq.entries, m, "send") -> "idle"
                      [] Rejects(mq.entries, m, "resend") -> "giveup"
                      [] OTHER -> handler[m]]
ClearedFlush ==
    [o \in 0..MaxRuns |->
        IF \E i \in DOMAIN mq.entries : mq.entries[i].by = "flush" /\ mq.entries[i].owner = o
        THEN EndOf(flush[o]) ELSE flush[o]]
\* Bug: the promises are rejected, the entries stay.
EmptiedNot(q) == q
Emptied(q) == [q EXCEPT !.entries = <<>>]

\* The oldest parked generator takes the oldest message.  onMessageYielded
\* marks the row consumed and the wrapper publishes 'processing', before the
\* consumer sees the message.
Take ==
    /\ mq.waiters # <<>> /\ mq.entries # <<>>
    /\ LET a == Head(mq.waiters)
           e == Head(mq.entries)
           known == row[e.msg] \in {"enqueued", "deferred"}
       IN  /\ mq' = [mq EXCEPT !.waiters = Tail(@), !.entries = Tail(@)]
           /\ row' = IF known THEN [row EXCEPT ![e.msg] = "consumed"] ELSE row
           /\ covered' = IF known THEN covered \ {e.msg} ELSE covered
           /\ ctx' = [ctx EXCEPT !.ack = @ \/ known, !.status = "processing",
                                 !.lastMsg = e.msg]
           /\ sdk' = [sdk EXCEPT ![a].held = e, ![a].cap = mq.gen,
                                 ![a].turns = @ + 1]
           /\ given' = [given EXCEPT ![e.msg] = @ + 1]
    /\ UNCHANGED <<run, handler, flush, lifecycle, stopping, interrupting, faults>>

\* The SDK asks for the next message: onSent resolves the enqueue promise, and
\* the generator parks again unless the queue was stopped or restarted.
Ask(a) ==
    /\ sdk[a].alive /\ sdk[a].held # NoEntry
    /\ LET e == sdk[a].held
       IN  /\ handler' = IF e.by \in {"send", "resend"}
                         THEN [handler EXCEPT ![e.msg] = "idle"] ELSE handler
           /\ flush' = IF e.by = "flush"
                       THEN [flush EXCEPT ![e.owner] = StepOf(@)] ELSE flush
    /\ sdk' = [sdk EXCEPT ![a].held = NoEntry]
    /\ mq' = IF mq.running /\ sdk[a].cap = mq.gen
             THEN [mq EXCEPT !.waiters = Append(@, a)] ELSE mq
    /\ UNCHANGED <<row, covered, ctx, run, lifecycle, stopping, interrupting, given, faults>>

\* The thirty-second timer of an entry still queued.  A parked generator would
\* have taken it long before.
Timeout(i) ==
    /\ "timeout" \in Kinds
    /\ i \in DOMAIN mq.entries /\ mq.waiters = <<>>
    /\ LET e == mq.entries[i]
       IN  /\ mq' = [mq EXCEPT !.entries = [j \in 1..(Len(@) - 1) |-> @[IF j < i THEN j ELSE j + 1]]]
           /\ handler' = CASE e.by = "send" -> [handler EXCEPT ![e.msg] = "failing"]
                           [] e.by = "resend" -> [handler EXCEPT ![e.msg] = "giveup"]
                           [] OTHER -> handler
           /\ flush' = IF e.by = "flush" THEN [flush EXCEPT ![e.owner] = EndOf(@)] ELSE flush
    /\ UNCHANGED <<row, covered, ctx, run, sdk, lifecycle, stopping, interrupting, given, faults>>

-----------------------------------------------------------------------------
(* Starting a query *)

\* QueryRunner.start: nothing while the queue runs; otherwise the queue's and
\* the query's generation advance together and runQuery begins.
CanStart == mq.running \/ mq.gen < MaxRuns
StartedQueue == IF mq.running THEN mq
                ELSE [mq EXCEPT !.running = TRUE, !.gen = @ + 1]
StartedRun == IF mq.running THEN run ELSE [run EXCEPT ![mq.gen + 1].pc = "boot"]
StartedPromise == IF mq.running THEN ctx.promise ELSE mq.gen + 1

\* ensureQueryStarted up to its start: a queue that runs without a queryPromise
\* is taken for a leftover and stopped.
Healthy == mq.running /\ ctx.promise # 0
EnsuredQueue == IF mq.running /\ ctx.promise = 0 THEN Stopped(mq) ELSE mq
EnsuredObject == IF mq.running /\ ctx.promise = 0 THEN NoAttempt ELSE ctx.object

\* closing the query object ends its subprocess
Closed(a) == IF a = NoAttempt THEN sdk ELSE [sdk EXCEPT ![a].alive = FALSE]

-----------------------------------------------------------------------------
(* Sending a message *)

\* MessagePersistence.persist: a message marked for later is kept only while the
\* agent is busy.
Busy == ctx.status \in {"processing", "queued"}

Persist(m, later) ==
    /\ row[m] = "absent" /\ \A n \in 1..(m - 1) : row[n] # "absent"
    /\ IF later /\ Busy
       THEN row' = [row EXCEPT ![m] = "deferred"] /\ UNCHANGED handler
       ELSE row' = [row EXCEPT ![m] = "enqueued"] /\ handler' = [handler EXCEPT ![m] = "ensure"]
    /\ UNCHANGED <<covered, mq, ctx, run, sdk, flush, lifecycle, stopping, interrupting, given, faults>>

\* startQueryAndEnqueue waits for an interrupt in progress.
SendEnsure(m) ==
    /\ handler[m] = "ensure" /\ ~interrupting.promised
    /\ IF Healthy
       THEN /\ handler' = [handler EXCEPT ![m] = "push"]
            /\ ctx' = [ctx EXCEPT !.status = "queued"]
            /\ UNCHANGED mq
       ELSE /\ handler' = [handler EXCEPT ![m] = "start"]
            /\ ctx' = [ctx EXCEPT !.object = EnsuredObject]
            /\ mq' = EnsuredQueue
    /\ UNCHANGED <<row, covered, run, sdk, flush, lifecycle, stopping, interrupting, given, faults>>

\* If the query did not start the caller is told so, and the row stays enqueued.
SendStart(m) ==
    /\ handler[m] = "start" /\ CanStart
    /\ mq' = StartedQueue /\ run' = StartedRun
    /\ IF StartedPromise # 0
       THEN /\ handler' = [handler EXCEPT ![m] = "push"]
            /\ ctx' = [ctx EXCEPT !.promise = StartedPromise, !.status = "queued"]
       ELSE /\ handler' = [handler EXCEPT ![m] = "idle"]
            /\ UNCHANGED ctx
    /\ UNCHANGED <<row, covered, sdk, flush, lifecycle, stopping, interrupting, given, faults>>

SendPush(m) ==
    /\ handler[m] = "push"
    /\ mq' = Pushed(mq, EntryOf(m, "send", 0))
    /\ handler' = [handler EXCEPT ![m] = "wait"]
    /\ UNCHANGED <<row, covered, ctx, run, sdk, flush, lifecycle, stopping, interrupting, given, faults>>

-----------------------------------------------------------------------------
(* A message that timed out: one reset, one more delivery *)

\* reset() finds no query to stop: pending messages are rejected, and the
\* message is queued again with nothing to deliver it to.  Otherwise the queue
\* stops too and stop() waits for the query to end.
NoQuery == ctx.object = NoAttempt /\ ctx.promise = 0

FailReset(m) ==
    /\ handler[m] = "failing"
    /\ flush' = ClearedFlush
    /\ IF NoQuery
       THEN /\ handler' = [ClearedHandlers EXCEPT ![m] = "repush"]
            /\ mq' = Emptied(mq)
            /\ ctx' = [ctx EXCEPT !.status = "queued"]
            /\ UNCHANGED stopping
       ELSE /\ handler' = [ClearedHandlers EXCEPT ![m] = "stopping"]
            /\ mq' = Emptied(Stopped(mq))
            /\ stopping' = [stopping EXCEPT ![m] = ctx.object]
            /\ UNCHANGED ctx
    /\ UNCHANGED <<row, covered, run, sdk, lifecycle, interrupting, given, faults>>

\* The end of stop(), when the query has settled or the wait for it timed out:
\* the shared references are dropped, whosever they are by now.
StopEnds(who) ==
    /\ sdk' = IF stopping[who] = ctx.object THEN Closed(ctx.object) ELSE sdk
    /\ ctx' = [ctx EXCEPT !.object = NoAttempt, !.promise = 0, !.ctl = NoAttempt,
                          !.status = "idle"]
    /\ stopping' = [stopping EXCEPT ![who] = NoAttempt]

FailStopped(m) ==
    /\ handler[m] = "stopping"
    /\ StopEnds(m)
    /\ handler' = [handler EXCEPT ![m] = "restart"]
    /\ UNCHANGED <<row, covered, mq, run, flush, lifecycle, interrupting, given, faults>>

FailRestart(m) ==
    /\ handler[m] = "restart" /\ CanStart
    /\ mq' = StartedQueue /\ run' = StartedRun
    /\ ctx' = [ctx EXCEPT !.promise = StartedPromise, !.status = "queued"]
    /\ handler' = [handler EXCEPT ![m] = "repush"]
    /\ UNCHANGED <<row, covered, sdk, flush, lifecycle, stopping, interrupting, given, faults>>

Repush(m) ==
    /\ handler[m] = "repush"
    /\ IF Healthy
       THEN /\ mq' = Pushed(mq, EntryOf(m, "resend", 0))
            /\ handler' = [handler EXCEPT ![m] = "wait"]
       ELSE /\ handler' = [handler EXCEPT ![m] = "giveup"]
            /\ UNCHANGED mq
    /\ UNCHANGED <<row, covered, ctx, run, sdk, flush, lifecycle, stopping, interrupting, given, faults>>

\* Bug: the second timeout is only reported.
GiveUpSilently(m) ==
    /\ handler[m] = "giveup"
    /\ ctx' = [ctx EXCEPT !.status = "idle"]
    /\ handler' = [handler EXCEPT ![m] = "idle"]
    /\ UNCHANGED <<row, covered, mq, run, sdk, flush, lifecycle, stopping, interrupting, given, faults>>

\* Bug: the session is left in 'queued'.
GiveUpStillQueued(m) ==
    /\ handler[m] = "giveup"
    /\ row' = IF row[m] = "enqueued" THEN [row EXCEPT ![m] = "failed"] ELSE row
    /\ handler' = [handler EXCEPT ![m] = "idle"]
    /\ UNCHANGED <<covered, mq, ctx, run, sdk, flush, lifecycle, stopping, interrupting, given, faults>>

\* markEnqueuedMessageFailed: a row consumed meanwhile is left alone.
GiveUp(m) ==
    /\ handler[m] = "giveup"
    /\ row' = IF row[m] = "enqueued" THEN [row EXCEPT ![m] = "failed"] ELSE row
    /\ ctx' = [ctx EXCEPT !.status = "idle"]
    /\ handler' = [handler EXCEPT ![m] = "idle"]
    /\ UNCHANGED <<covered, mq, run, sdk, flush, lifecycle, stopping, interrupting, given, faults>>

-----------------------------------------------------------------------------
(* Replaying rows, one message at a time *)

Replaying(rows) == [pc |-> "ensure", todo |-> rows, more |-> FALSE]

\* handleQueryTrigger: every deferred row becomes enqueued at once.
Undeferred(rows) == [m \in Msgs |-> IF rows[m] = "deferred" THEN "enqueued" ELSE rows[m]]
\* Bug: the rows are released and not queued.
TriggerOfNothing(rows) == NoFlush
TriggerOf(rows) == IF RowsWith(rows, "deferred") = {} THEN NoFlush
                   ELSE Replaying(RowsWith(rows, "deferred"))

FlushTrigger(o) ==
    /\ flush[o].pc = "trigger"
    /\ row' = Undeferred(row)
    /\ flush' = [flush EXCEPT ![o] = TriggerOf(row)]
    /\ UNCHANGED <<covered, mq, ctx, run, sdk, handler, lifecycle, stopping, interrupting, given, faults>>

FlushEnsure(o) ==
    /\ flush[o].pc = "ensure" /\ ~interrupting.promised
    /\ flush' = [flush EXCEPT ![o].pc = IF Healthy THEN "push" ELSE "start"]
    /\ mq' = EnsuredQueue
    /\ ctx' = [ctx EXCEPT !.object = EnsuredObject]
    /\ UNCHANGED <<row, covered, run, sdk, handler, lifecycle, stopping, interrupting, given, faults>>

FlushStart(o) ==
    /\ flush[o].pc = "start" /\ CanStart
    /\ mq' = StartedQueue /\ run' = StartedRun
    /\ ctx' = [ctx EXCEPT !.promise = StartedPromise]
    /\ flush' = [flush EXCEPT ![o].pc = "push"]
    /\ UNCHANGED <<row, covered, sdk, handler, lifecycle, stopping, interrupting, given, faults>>

FlushPush(o) ==
    /\ flush[o].pc = "push"
    /\ mq' = Pushed(mq, EntryOf(First(flush[o].todo), "flush", o))
    /\ flush' = [flush EXCEPT ![o].pc = "wait"]
    /\ UNCHANGED <<row, covered, ctx, run, sdk, handler, lifecycle, stopping, interrupting, given, faults>>

-----------------------------------------------------------------------------
(* One run of the query *)

Current(r) == mq.gen = r
AttemptOf(r) == <<r, run[r].attempt>>

\* The message loop of a run is stuck in a handler while its trigger is awaited.
Looping(r) == run[r].pc = "live" /\ flush[r].pc = "no"
Talking(r) == Looping(r) /\ sdk[AttemptOf(r)].alive /\ ~sdk[AttemptOf(r)].aborted

\* query(): whatever generation the queue has by now is the one the generator
\* captures, and the shared references are overwritten.
Launch(r) ==
    /\ run[r].pc = "boot"
    /\ run' = [run EXCEPT ![r].pc = "live"]
    /\ sdk' = [sdk EXCEPT ![AttemptOf(r)] = [NoSdk EXCEPT !.alive = TRUE]]
    /\ ctx' = [ctx EXCEPT !.object = AttemptOf(r), !.ctl = AttemptOf(r)]
    /\ mq' = IF mq.running THEN [mq EXCEPT !.waiters = Append(@, AttemptOf(r))] ELSE mq
    /\ UNCHANGED <<row, covered, handler, flush, lifecycle, stopping, interrupting, given, faults>>

\* The first message of the SDK is a system:init.
Output(r) ==
    /\ Talking(r)
    /\ sdk' = [sdk EXCEPT ![AttemptOf(r)].spoke = TRUE]
    /\ covered' = {m \in Msgs : row[m] # "absent"}
    /\ UNCHANGED <<row, mq, ctx, run, handler, flush, lifecycle, stopping, interrupting, given, faults>>

\* The SDK may replay a message it was given; its row is consumed by then.
Echo(r) ==
    /\ Talking(r) /\ sdk[AttemptOf(r)].spoke /\ sdk[AttemptOf(r)].turns > 0
    /\ ctx' = [ctx EXCEPT !.ack = TRUE]
    /\ UNCHANGED <<row, covered, mq, run, sdk, handler, flush, lifecycle, stopping, interrupting, given, faults>>

\* handleResultMessage: the SDK may answer several messages in one turn.  A turn
\* in which no row was seen to be yielded marks every enqueued row consumed;
\* then the deferred rows are sent.
Acknowledged == IF ctx.ack THEN row
                ELSE [m \in Msgs |-> IF row[m] = "enqueued" THEN "consumed" ELSE row[m]]

Result(r) ==
    /\ Talking(r) /\ sdk[AttemptOf(r)].spoke
    /\ \E left \in 0..(sdk[AttemptOf(r)].turns - 1) :
          sdk' = [sdk EXCEPT ![AttemptOf(r)].turns = left]
    /\ row' = Undeferred(Acknowledged)
    /\ flush' = [flush EXCEPT ![r] = TriggerOf(row)]
    /\ ctx' = [ctx EXCEPT !.ack = FALSE, !.status = "idle"]
    /\ UNCHANGED <<covered, mq, run, handler, lifecycle, stopping, interrupting, given, faults>>

\* Bug: the finally block leaves the queue running.
FinallyRunning(r, q) ==
    /\ mq' = q
    /\ IF Current(r)
       THEN /\ ctx' = [ctx EXCEPT !.object = NoAttempt, !.ctl = NoAttempt, !.status = "idle"]
            /\ run' = [run EXCEPT ![r].pc = "unwind"]
       ELSE /\ run' = [run EXCEPT ![r].pc = "over"] /\ UNCHANGED ctx

\* Bug: the finally block does not set the state to idle.
FinallyNotIdle(r, q) ==
    IF Current(r)
    THEN /\ mq' = Stopped(q)
         /\ ctx' = [ctx EXCEPT !.object = NoAttempt, !.ctl = NoAttempt]
         /\ run' = [run EXCEPT ![r].pc = "unwind"]
    ELSE /\ mq' = q /\ UNCHANGED ctx
         /\ run' = [run EXCEPT ![r].pc = "over"]

\* runQuery's finally block.  It tests the generation once and then waits for
\* setIdle; queryPromise is nulled after that wait.
Finally(r, q) ==
    IF Current(r)
    THEN /\ mq' = Stopped(q)
         /\ ctx' = [ctx EXCEPT !.object = NoAttempt, !.ctl = NoAttempt, !.status = "idle"]
         /\ run' = [run EXCEPT ![r].pc = "unwind"]
    ELSE /\ mq' = q /\ UNCHANGED ctx
         /\ run' = [run EXCEPT ![r].pc = "over"]

\* Of a current run it aborts the shared controller and closes the shared query
\* object, which a superseded run that started late may have replaced by its own.
Torn == [a \in Attempts |-> [sdk[a] EXCEPT !.aborted = @ \/ a = ctx.ctl,
                                           !.alive = @ /\ a # ctx.object]]
FinallyCloses(r) == [(IF Current(r) THEN Torn ELSE sdk) EXCEPT ![AttemptOf(r)].alive = FALSE]

\* Nothing more comes from an attempt that was closed or whose loop was aborted.
Shut(a) == ~sdk[a].alive \/ sdk[a].aborted

\* The stream of the SDK ends: it exited, was closed, or the loop was aborted.
End(r) ==
    /\ Looping(r)
    /\ IF Shut(AttemptOf(r)) THEN UNCHANGED faults ELSE Spend("exit")
    /\ sdk' = FinallyCloses(r)
    /\ Finally(r, mq)
    /\ UNCHANGED <<row, covered, handler, flush, lifecycle, stopping, interrupting, given>>

\* The catch block, for an error that is not retried: the queue is cleared and
\* the state set to idle whether or not the run is still the current one.
Catch(r) ==
    /\ handler' = ClearedHandlers /\ flush' = ClearedFlush
    /\ ctx' = [ctx EXCEPT !.status = "idle"]
    /\ run' = [run EXCEPT ![r].pc = "caught"]
    /\ sdk' = [sdk EXCEPT ![AttemptOf(r)].alive = FALSE]

Fatal(r) ==
    /\ run[r].pc = "boot" \/ Looping(r)
    /\ Spend("fatal")
    /\ Catch(r)
    /\ mq' = Emptied(mq)
    /\ UNCHANGED <<row, covered, lifecycle, stopping, interrupting, given>>

Caught(r) ==
    /\ run[r].pc = "caught"
    /\ sdk' = FinallyCloses(r)
    /\ Finally(r, mq)
    /\ UNCHANGED <<row, covered, handler, flush, lifecycle, stopping, interrupting, given, faults>>

\* After a retry the finally block of the first call runs too.
Unwound(r) ==
    /\ run[r].pc = "unwind"
    /\ IF run[r].attempt = 2 /\ Current(r)
       THEN /\ mq' = Stopped(mq)
            /\ sdk' = Torn
            /\ ctx' = [ctx EXCEPT !.promise = 0, !.object = NoAttempt, !.ctl = NoAttempt,
                                  !.status = "idle"]
            /\ run' = [run EXCEPT ![r].attempt = 1]
       ELSE /\ ctx' = [ctx EXCEPT !.promise = 0]
            /\ run' = [run EXCEPT ![r].pc = "over"]
            /\ UNCHANGED <<mq, sdk>>
    /\ UNCHANGED <<row, covered, handler, flush, lifecycle, stopping, interrupting, given, faults>>

-----------------------------------------------------------------------------
(* The retries inside runQuery *)

\* Both close the shared query object, which is the run's own while it is current.
Retry(r) ==
    /\ run' = [run EXCEPT ![r].pc = "boot", ![r].attempt = 2]
    /\ sdk' = [Closed(ctx.object) EXCEPT ![AttemptOf(r)].alive = FALSE]

\* No first message within STARTUP_TIMEOUT_MS: the loop is aborted, the queue is
\* stopped as at every end of the loop, and the timeout is thrown.
StartupTimeout(r) ==
    /\ Talking(r) /\ ~sdk[AttemptOf(r)].spoke /\ Current(r) /\ ctx.ctl = AttemptOf(r)
    /\ Spend("startup")
    /\ IF run[r].attempt = 1
       THEN /\ Retry(r)
            /\ mq' = Stopped(mq)
            /\ ctx' = [ctx EXCEPT !.object = NoAttempt, !.status = "idle"]
            /\ UNCHANGED <<handler, flush>>
       ELSE /\ Catch(r)
            /\ mq' = Emptied(Stopped(mq))
    /\ UNCHANGED <<row, covered, lifecycle, stopping, interrupting, given>>

\* A dropped connection: the message consumed last is queued again, and the
\* queue stays as it is.
Redo == IF ctx.lastMsg = 0 THEN mq ELSE Pushed(mq, EntryOf(ctx.lastMsg, "redo", 0))

Transient(r) ==
    /\ run[r].pc = "boot" \/ Looping(r)
    /\ Spend("transient")
    /\ IF run[r].attempt = 1 /\ ctx.status # "interrupted"
       THEN /\ Retry(r)
            /\ mq' = Redo
            /\ ctx' = [ctx EXCEPT !.object = NoAttempt, !.status = "idle", !.lastMsg = 0]
            /\ UNCHANGED <<handler, flush>>
       ELSE /\ Catch(r)
            /\ mq' = Emptied(mq)
    /\ UNCHANGED <<row, covered, lifecycle, stopping, interrupting, given>>

-----------------------------------------------------------------------------
(* Interrupt, reset, restart and crash *)

Interrupt ==
    /\ ctx.status \notin {"idle", "interrupted"}
    /\ Spend("interrupt")
    /\ interrupting' = [calls |-> interrupting.calls + 1, promised |-> TRUE]
    /\ mq' = Emptied(mq)
    /\ handler' = ClearedHandlers /\ flush' = ClearedFlush
    /\ sdk' = IF ctx.ctl = NoAttempt THEN sdk ELSE [sdk EXCEPT ![ctx.ctl].aborted = TRUE]
    /\ ctx' = [ctx EXCEPT !.status = "interrupted", !.ctl = NoAttempt]
    /\ UNCHANGED <<row, covered, run, lifecycle, stopping, given>>

\* After the query settled, or two hundred milliseconds.  The first call to end
\* drops the promise, whosever it is.
InterruptEnds ==
    /\ interrupting.calls > 0
    /\ interrupting' = [calls |-> interrupting.calls - 1, promised |-> FALSE]
    /\ sdk' = Closed(ctx.object)
    /\ mq' = Stopped(mq)
    /\ ctx' = [ctx EXCEPT !.object = NoAttempt, !.status = "idle"]
    /\ UNCHANGED <<row, covered, run, handler, flush, lifecycle, stopping, given, faults>>

\* The user changes a setting that needs a new query: reset() drops what is
\* pending, a restart keeps it and waits for a moment the agent is not working.
UserReset ==
    /\ lifecycle = "no"
    /\ Spend("reset")
    /\ handler' = ClearedHandlers /\ flush' = ClearedFlush
    /\ IF NoQuery
       THEN /\ mq' = Emptied(mq)
            /\ ctx' = [ctx EXCEPT !.status = "idle"]
            /\ UNCHANGED <<lifecycle, stopping>>
       ELSE /\ mq' = Emptied(Stopped(mq))
            /\ stopping' = [stopping EXCEPT ![0] = ctx.object]
            /\ lifecycle' = "stopping"
            /\ UNCHANGED ctx
    /\ UNCHANGED <<row, covered, run, sdk, interrupting, given>>

UserRestart ==
    /\ lifecycle = "no" /\ mq.running /\ ctx.object # NoAttempt /\ ctx.status # "processing"
    /\ Spend("restart")
    /\ mq' = Stopped(mq)
    /\ stopping' = [stopping EXCEPT ![0] = ctx.object]
    /\ lifecycle' = "stopping"
    /\ UNCHANGED <<row, covered, ctx, run, sdk, handler, flush, interrupting, given>>

LifecycleStopped ==
    /\ lifecycle = "stopping"
    /\ StopEnds(0)
    /\ lifecycle' = "start"
    /\ UNCHANGED <<row, covered, mq, run, handler, flush, interrupting, given, faults>>

LifecycleStarts ==
    /\ lifecycle = "start" /\ CanStart
    /\ mq' = StartedQueue /\ run' = StartedRun
    /\ ctx' = [ctx EXCEPT !.promise = StartedPromise]
    /\ lifecycle' = "no"
    /\ UNCHANGED <<row, covered, sdk, handler, flush, stopping, interrupting, given, faults>>

\* Bug: consumed messages without an answer are sent again.
RecoveredAgain == [m \in Msgs |-> IF row[m] = "consumed" /\ m \notin covered THEN "enqueued" ELSE row[m]]

\* The daemon dies and comes back.  Consumed rows no system:init follows are
\* marked failed, then the enqueued and the deferred rows are replayed.
Recovered == [m \in Msgs |-> IF row[m] = "consumed" /\ m \notin covered THEN "failed" ELSE row[m]]

ReplayOf(rows) ==
    IF RowsWith(rows, "enqueued") = {} THEN Triggering
    ELSE [Replaying(RowsWith(rows, "enqueued")) EXCEPT !.more = TRUE]

FreshContext(status) == [promise |-> 0, object |-> NoAttempt, ctl |-> NoAttempt,
                         lastMsg |-> 0, ack |-> FALSE, status |-> status]

Crash ==
    /\ Spend("crash")
    /\ row' = Recovered
    /\ mq' = Emptied(Stopped(mq))
    /\ ctx' = FreshContext(IF ctx.status = "interrupted" THEN "interrupted" ELSE "idle")
    /\ run' = [r \in Runs |-> IF run[r].pc = "no" THEN run[r] ELSE [run[r] EXCEPT !.pc = "over"]]
    /\ sdk' = [a \in Attempts |-> NoSdk]
    /\ handler' = [m \in Msgs |-> "idle"]
    /\ flush' = [o \in 0..MaxRuns |-> IF o = 0 THEN ReplayOf(Recovered) ELSE NoFlush]
    /\ lifecycle' = "no"
    /\ stopping' = [w \in 0..NumMsgs |-> NoAttempt]
    /\ interrupting' = NoInterrupt
    /\ UNCHANGED <<covered, given>>

-----------------------------------------------------------------------------
(* Specification *)

Init ==
    /\ row = [m \in Msgs |-> "absent"]
    /\ covered = {}
    /\ mq = [entries |-> <<>>, waiters |-> <<>>, running |-> FALSE, gen |-> 0]
    /\ ctx = FreshContext("idle")
    /\ run = [r \in Runs |-> [pc |-> "no", attempt |-> 1]]
    /\ sdk = [a \in Attempts |-> NoSdk]
    /\ handler = [m \in Msgs |-> "idle"]
    /\ flush = [o \in 0..MaxRuns |-> NoFlush]
    /\ lifecycle = "no"
    /\ stopping = [w \in 0..NumMsgs |-> NoAttempt]
    /\ interrupting = NoInterrupt
    /\ given = [m \in Msgs |-> 0]
    /\ faults = 0

\* What goes on by itself once it has begun.
Deliver(m) == \/ SendEnsure(m) \/ SendStart(m) \/ SendPush(m)
              \/ FailReset(m) \/ FailStopped(m) \/ FailRestart(m) \/ Repush(m) \/ GiveUp(m)
Replay(o) == FlushTrigger(o) \/ FlushEnsure(o) \/ FlushStart(o) \/ FlushPush(o)
Drive(r) == Launch(r) \/ Caught(r) \/ Unwound(r)
Supervise == InterruptEnds \/ LifecycleStopped \/ LifecycleStarts

Next ==
    \/ \E m \in Msgs : (\E later \in BOOLEAN : Persist(m, later)) \/ Deliver(m)
    \/ \E i \in 1..(2 * NumMsgs) : Timeout(i)
    \/ \E a \in Attempts : Ask(a)
    \/ \E o \in 0..MaxRuns : Replay(o)
    \/ \E r \in Runs : \/ Drive(r) \/ Output(r) \/ Echo(r) \/ Result(r) \/ End(r)
                       \/ Fatal(r) \/ StartupTimeout(r) \/ Transient(r)
    \/ Take \/ Supervise
    \/ Interrupt \/ UserReset \/ UserRestart \/ Crash

Spec == Init /\ [][Next]_vars

\* Handlers run on, timers fire, a live SDK reads its input, and the stream of
\* one that was closed ends.
DaemonFairness ==
    /\ WF_vars(Take) /\ WF_vars(Supervise)
    /\ WF_vars(\E i \in 1..(2 * NumMsgs) : Timeout(i))
    /\ \A m \in Msgs : WF_vars(Deliver(m))
    /\ \A o \in 0..MaxRuns : WF_vars(Replay(o))
    /\ \A r \in Runs : WF_vars(Drive(r)) /\ WF_vars(Shut(AttemptOf(r)) /\ End(r))
    /\ \A a \in Attempts : WF_vars(Ask(a))

FairSpec == Spec /\ DaemonFairness

\* An SDK in good order also speaks and ends its turns.
AnsweredBy(r) == WF_vars(Output(r)) /\ WF_vars(Result(r))
Answers == \A r \in Runs : AnsweredBy(r)

AnsweringSpec == FairSpec /\ Answers

-----------------------------------------------------------------------------
(* Safety *)

TypeOK ==
    /\ row \in [Msgs -> Statuses]
    /\ covered \subseteq Msgs
    /\ mq \in [entries : Seq(Entries), waiters : Seq(Attempts),
               running : BOOLEAN, gen : 0..MaxRuns]
    /\ ctx \in [promise : 0..MaxRuns, object : Attempts \cup {NoAttempt},
                ctl : Attempts \cup {NoAttempt}, lastMsg : 0..NumMsgs, ack : BOOLEAN,
                status : {"idle", "queued", "processing", "interrupted"}]
    /\ run \in [Runs -> [pc : {"no", "boot", "live", "caught", "unwind", "over"}, attempt : {1, 2}]]
    /\ sdk \in [Attempts -> [held : Entries \cup {NoEntry}, cap : 0..MaxRuns, turns : Nat,
                             alive : BOOLEAN, spoke : BOOLEAN, aborted : BOOLEAN]]
    /\ handler \in [Msgs -> {"idle", "ensure", "start", "push", "wait",
                             "failing", "stopping", "restart", "repush", "giveup"}]
    /\ flush \in [0..MaxRuns -> [pc : {"no", "trigger", "ensure", "start", "push", "wait"},
                                 todo : SUBSET Msgs, more : BOOLEAN]]
    /\ lifecycle \in {"no", "stopping", "start"}
    /\ stopping \in [0..NumMsgs -> Attempts \cup {NoAttempt}]
    /\ interrupting \in Interrupts /\ given \in [Msgs -> Nat] /\ faults \in 0..MaxFaults

\* The queue never runs for a query that has ended: a message pushed then would
\* wait for a generator that does not exist.  query-runner.ts stops the queue at
\* the end of the message loop for this; on an error it is stopped only in the
\* finally block, so the time spent reporting the error is excepted.
QueueServesItsRun == mq.running => run[mq.gen].pc \in {"boot", "live", "caught"}

\* What was queued and is not settled: in the queue, or given to an SDK that has
\* not asked for more.
Outstanding == {mq.entries[i] : i \in DOMAIN mq.entries}
               \cup ({sdk[a].held : a \in Attempts} \ {NoEntry})

\* Callers and promises match.  A queued entry belongs to a caller that has not
\* moved on, and apart from the entry of a retry no message is queued twice; a
\* caller that waits has something outstanding that can still answer it.  A
\* timeout, a clear, a replay and a second delivery all settle entries others
\* queued, and an SDK that takes a message must not have another in hand.
PromisesMatch ==
    /\ \A i, j \in DOMAIN mq.entries :
          /\ i # j /\ mq.entries[i].by # "redo" /\ mq.entries[j].by # "redo"
          => mq.entries[i].msg # mq.entries[j].msg
    /\ \A i \in DOMAIN mq.entries :
          LET e == mq.entries[i]
          IN  /\ e.by \in {"send", "resend"} => handler[e.msg] = "wait"
              /\ e.by = "flush" => /\ flush[e.owner].pc = "wait"
                                   /\ First(flush[e.owner].todo) = e.msg
    /\ \A m \in Msgs : handler[m] = "wait" =>
          \E e \in Outstanding : e.by \in {"send", "resend"} /\ e.msg = m
    /\ \A o \in 0..MaxRuns : flush[o].pc = "wait" =>
          \E e \in Outstanding : e.by = "flush" /\ e.owner = o

\* The rows and the deliveries keep what MessageLedger promises, through resets,
\* timeouts, interrupts and restarts of the daemon, as long as no query is retried
\* after a dropped connection.
Ledger == INSTANCE MessageLedger
KeepsLedger == Ledger!Spec

-----------------------------------------------------------------------------
(* Liveness *)

\* Without a fault every message is delivered, the deferred ones at the end of a
\* turn.
EveryMessageConsumed ==
    [](faults = 0) => \A m \in Msgs : row[m] \in {"deferred", "enqueued"} ~> row[m] = "consumed"

\* A message sent alone does not stay enqueued: when the query ends, does not
\* start or drops its connection, the timeout delivers it again or fails it.
EnqueuedSettles == \A m \in Msgs : row[m] = "enqueued" ~> row[m] # "enqueued"

\* "This prevents the session from getting stuck in 'queued' state": whatever
\* happens, the session leaves it.
QueuedEnds == ctx.status = "queued" ~> ctx.status # "queued"

\* The latest query has taken a message and runs.
InHand(r) == Current(r) /\ run[r].pc = "live" /\ sdk[AttemptOf(r)].turns > 0

\* While the latest query has a message in hand the session does not show as
\* processing forever: the turn ends, or the query is stopped, fails or exits and
\* its finally block sets the state; only an SDK that lives and stays silent keeps
\* it there.  A message taken by a query that was replaced is excepted: when that
\* one ends, its finally block leaves the state alone.
ProcessingEnds == \A r \in Runs :
    AnsweredBy(r) => (ctx.status = "processing" /\ InHand(r) ~> ctx.status # "processing")

-----------------------------------------------------------------------------
(* What the code's comments say and the code does not do *)

\* query-runner.ts, at the retry after a startup timeout: "Skip
\* messageQueue.clear() so the user's pending message is preserved for the
\* retry."  The retry finds the queue stopped and can read nothing from it.
RetryReadsInput ==
    \A r \in Runs : run[r].pc = "live" /\ run[r].attempt = 2 /\ Current(r) => mq.running
=============================================================================
