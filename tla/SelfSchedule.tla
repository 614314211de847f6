----------------------------- MODULE SelfSchedule -----------------------------
(* The two jobs that schedule themselves, job_queue.cleanup and github.poll:   *)
(* a handler enqueues its successor unless one is pending, and the daemon      *)
(* enqueues the first one at its start (app.ts, GitHubService.start).          *)
(*                                                                             *)
(* One such queue on the processor of JobQueue, of which only what a handler   *)
(* can notice is kept: the status of its rows. Whether a claim is stale, and   *)
(* when a job is due, is left open.                                            *)
EXTENDS Naturals

CONSTANTS
    Jobs,      \* rows; one that is over and has no handler stands for a new one
    Slots,     \* the processor's slots
    MaxFails,  \* max_retries
    NoJob

ASSUME ChainAssumption == NoJob \notin Jobs /\ MaxFails \in Nat

VARIABLES
    row,     \* status of the row
    fails,   \* retry_count
    slot,    \* per slot, the job its handler was given
    serves,  \* the daemon has started
    gaveUp   \* history: a job died of its retries, and none was enqueued since

cvars == <<row, fails, slot, serves, gaveUp>>

RowStatus == {"pending", "processing", "completed", "dead"}

ChainInit ==
    /\ row = [j \in Jobs |-> "completed"] /\ fails = [j \in Jobs |-> 0]
    /\ slot = [s \in Slots |-> NoJob]
    /\ serves = FALSE /\ gaveUp = FALSE

With(status) == {j \in Jobs : row[j] \in status}
Unused == With({"completed", "dead"}) \ {slot[s] : s \in Slots}

-----------------------------------------------------------------------------
(* ---- statements of the repository ---- *)

CompletedAnyStatus(rows1, j) == \* mutant: complete() does not look at the status
    [rows1 EXCEPT ![j] = "completed"]

(* complete(), on the rows as they are after the handler *)
Closed(rows1, j) == IF rows1[j] = "processing" THEN [rows1 EXCEPT ![j] = "completed"] ELSE rows1

(* listJobs() *)
Listed(status) == With(status) # {}

(* enqueue(), besides its row *)
Enqueued(k) == fails' = [fails EXCEPT ![k] = 0] /\ gaveUp' = FALSE

-----------------------------------------------------------------------------
(* dequeue() of a tick *)
Claim(s, j) ==
    /\ serves /\ slot[s] = NoJob /\ row[j] = "pending"
    /\ row' = [row EXCEPT ![j] = "processing"]
    /\ slot' = [slot EXCEPT ![s] = j]
    /\ UNCHANGED <<fails, serves, gaveUp>>

(* reclaimStale(): the handler may be at work still. *)
ReclaimStale(j) ==
    /\ serves /\ row[j] = "processing"
    /\ row' = [row EXCEPT ![j] = "pending"]
    /\ UNCHANGED <<fails, slot, serves, gaveUp>>

(* The handler looks for a pending successor, enqueues one if there is none,   *)
(* and its job is completed.                                                   *)
Finishes(s) ==
    /\ slot[s] # NoJob
    /\ \/ /\ Listed({"pending"})
          /\ row' = Closed(row, slot[s])
          /\ UNCHANGED <<fails, gaveUp>>
       \/ /\ ~Listed({"pending"})
          /\ \E k \in Unused : /\ row' = Closed([row EXCEPT ![k] = "pending"], slot[s])
                               /\ Enqueued(k)
    /\ slot' = [slot EXCEPT ![s] = NoJob]
    /\ UNCHANGED serves

(* fail(), whatever has become of the job *)
Fails(s) ==
    /\ slot[s] # NoJob
    /\ LET j == slot[s] IN
       IF fails[j] < MaxFails
       THEN /\ row' = [row EXCEPT ![j] = "pending"] /\ fails' = [fails EXCEPT ![j] = @ + 1]
            /\ UNCHANGED gaveUp
       ELSE row' = [row EXCEPT ![j] = "dead"] /\ gaveUp' = TRUE /\ UNCHANGED fails
    /\ slot' = [slot EXCEPT ![s] = NoJob]
    /\ UNCHANGED serves

(* The start of the daemon: cleanup looks for a pending job, the poll for one  *)
(* that is pending or processing.                                              *)
Starts ==
    /\ ~serves /\ serves' = TRUE
    /\ \E looked \in {{"pending"}, {"pending", "processing"}} :
          \/ Listed(looked) /\ UNCHANGED <<row, fails, gaveUp>>
          \/ /\ ~Listed(looked)
             /\ \E k \in Unused : row' = [row EXCEPT ![k] = "pending"] /\ Enqueued(k)
    /\ UNCHANGED slot

Dies ==
    /\ serves /\ serves' = FALSE
    /\ slot' = [s \in Slots |-> NoJob]
    /\ UNCHANGED <<row, fails, gaveUp>>

(* The process is killed when the successor is enqueued and the job not yet    *)
(* completed.                                                                  *)
DiesInHandler ==
    /\ serves /\ serves' = FALSE
    /\ \E s \in Slots : slot[s] # NoJob
    /\ ~Listed({"pending"})
    /\ \E k \in Unused : row' = [row EXCEPT ![k] = "pending"] /\ Enqueued(k)
    /\ slot' = [s \in Slots |-> NoJob]

ChainNext ==
    \/ \E s \in Slots : Finishes(s) \/ Fails(s) \/ \E j \in Jobs : Claim(s, j)
    \/ \E j \in Jobs : ReclaimStale(j)
    \/ Starts \/ Dies \/ DiesInHandler

ChainSpec == ChainInit /\ [][ChainNext]_cvars

-----------------------------------------------------------------------------
(* Rows, slots and counters keep their types. *)
ChainTypeOK ==
    /\ row \in [Jobs -> RowStatus] /\ fails \in [Jobs -> 0..MaxFails]
    /\ slot \in [Slots -> Jobs \cup {NoJob}]
    /\ serves \in BOOLEAN /\ gaveUp \in BOOLEAN

(* The chain does not break: while the daemon runs, a job is waiting or        *)
(* claimed, whatever claims were reclaimed from handlers still at work, jobs   *)
(* run twice and crashes met the start; unless a job used up its retries.      *)
ChainGoesOn == serves => With({"pending", "processing"}) # {} \/ gaveUp
=============================================================================
