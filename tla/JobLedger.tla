----------------------------- MODULE JobLedger -----------------------------
(***************************************************************************)
(* What the job queue promises to the parts of the daemon that enqueue     *)
(* jobs: the life of one row, whatever the processor does in between.  A   *)
(* step may move any number of rows, each along one arc of its life.       *)
(***************************************************************************)
EXTENDS Integers

CONSTANT Jobs   \* row ids

VARIABLE ledger \* ledger[j]: the status of row j and its retries left

Line == [status : {"none", "pending", "processing", "completed", "dead"},
         left   : Nat]

(* The arcs: enqueued; claimed; done; failed with and without a retry      *)
(* left; a claim given up, at no cost; deleted.                            *)
Move(line, next) ==
  \/ line.status = "none" /\ next.status = "pending"
  \/ line.status = "pending" /\ next = [line EXCEPT !.status = "processing"]
  \/ /\ line.status = "processing"
     /\ \/ next = [line EXCEPT !.status = "completed"]
        \/ next = [line EXCEPT !.status = "pending"]
        \/ next = [line EXCEPT !.status = "pending", !.left = @ - 1]
        \/ line.left = 0 /\ next = [line EXCEPT !.status = "dead"]
  \/ line.status # "none" /\ next.status = "none"

Init ==
  /\ ledger \in [Jobs -> Line]
  /\ \A j \in Jobs : ledger[j].status = "none"

Next ==
  /\ ledger' \in [Jobs -> Line]
  /\ \A j \in Jobs : ledger'[j] = ledger[j] \/ Move(ledger[j], ledger'[j])

Spec == Init /\ [][Next]_ledger

=============================================================================
