----------------------------- MODULE MessageLedger -----------------------------
(***************************************************************************)
(* What the delivery of chat messages promises, whatever queue, query and  *)
(* retry lie between the row and the agent: a row moves only along its     *)
(* lifecycle, a message is given to an agent at most once, and a message   *)
(* shown as failed is never given to it afterwards.                        *)
(***************************************************************************)
EXTENDS Naturals

CONSTANT NumMsgs

VARIABLES row, given

Msgs == 1..NumMsgs

Init == row = [m \in Msgs |-> "absent"] /\ given = [m \in Msgs |-> 0]

Accept(m) ==
    /\ row[m] = "absent"
    /\ \E s \in {"deferred", "enqueued"} : row' = [row EXCEPT ![m] = s]
    /\ UNCHANGED given

Give(m) ==
    /\ row[m] \in {"enqueued", "consumed"} /\ given[m] = 0
    /\ row' = [row EXCEPT ![m] = "consumed"]
    /\ given' = [given EXCEPT ![m] = 1]

\* The end of a turn releases what was deferred, and may presume that everything
\* enqueued has reached the agent.
EndTurn(presumed) ==
    /\ row' = [m \in Msgs |-> IF row[m] = "deferred" THEN "enqueued"
                              ELSE IF presumed /\ row[m] = "enqueued" THEN "consumed"
                              ELSE row[m]]
    /\ UNCHANGED given

GiveUp(m) ==
    /\ row[m] = "enqueued"
    /\ row' = [row EXCEPT ![m] = "failed"]
    /\ UNCHANGED given

\* After a crash: consumed messages without an answer.
Recover(orphans) ==
    /\ \A m \in orphans : row[m] = "consumed"
    /\ row' = [m \in Msgs |-> IF m \in orphans THEN "failed" ELSE row[m]]
    /\ UNCHANGED given

Next == \/ \E m \in Msgs : Accept(m) \/ Give(m) \/ GiveUp(m)
        \/ \E presumed \in BOOLEAN : EndTurn(presumed)
        \/ \E orphans \in SUBSET Msgs : Recover(orphans)

Spec == Init /\ [][Next]_<<row, given>>
=============================================================================
