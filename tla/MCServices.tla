------------------------------ MODULE MCServices ------------------------------
(* Four services of the daemon that share no rows with each other, each on its *)
(* own: `focus` names the one that moves.                                      *)
EXTENDS ChannelRouter, PendingMessages, LiveQuery, SelfSchedule

VARIABLE focus

(* A forward channel and the channel back, each with a gate. *)
MCGateOf == [c \in Channels |-> IF c = "forward" THEN "g1" ELSE "g2"]

ServicesInit ==
    /\ focus \in {"router", "handoffs", "query", "chain"}
    /\ RouterInit /\ QueueInit /\ LiveInit /\ ChainInit

ServicesNext ==
    /\ \/ focus = "router" /\ RouterNext /\ UNCHANGED <<pvars, lvars, cvars>>
       \/ focus = "handoffs" /\ QueueNext /\ UNCHANGED <<rvars, lvars, cvars>>
       \/ focus = "query" /\ LiveNext /\ UNCHANGED <<rvars, pvars, cvars>>
       \/ focus = "chain" /\ ChainNext /\ UNCHANGED <<rvars, pvars, lvars>>
    /\ UNCHANGED focus

(* The fairness of each service while it is the one that moves. *)
ServicesFair ==
    /\ \A p \in Callers : SF_rvars(focus = "router" /\ Step(p))
    /\ WF_pvars(focus = "handoffs" /\ Repair)
    /\ \A f \in Flushes : WF_pvars(focus = "handoffs" /\ Flusher(f))
    /\ \A m \in Handoffs : WF_pvars(focus = "handoffs" /\ TimePasses(m))
    /\ WF_lvars(focus = "query" /\ Evaluate)
    /\ \A c \in Clients : /\ WF_lvars(focus = "query" /\ Serve(c))
                          /\ WF_lvars(focus = "query" /\ Arrive(c))

ServicesSpec == ServicesInit /\ [][ServicesNext]_<<rvars, pvars, lvars, cvars, focus>> /\ ServicesFair

(* Every service keeps the types of its state. *)
ServicesTypeOK == RouterTypeOK /\ QueueTypeOK /\ LiveTypeOK /\ ChainTypeOK
=============================================================================
