------------------------------- MODULE LiveQuery -------------------------------
(* Live queries: ReactiveDatabase, which reports writes by table,              *)
(* LiveQueryEngine, which evaluates a query once for all its subscribers, the  *)
(* RPC handlers that hold the subscriptions of every connection, and the       *)
(* client that applies snapshots and deltas (SessionStore).                    *)
(*                                                                             *)
(* One query. A row is a row with its content, so an update removes one row    *)
(* and adds another. A change event is handled where it is emitted, in the     *)
(* statement block of the write; the evaluation is queued as a microtask, and  *)
(* whatever was queued before it comes in between. No query of the registry    *)
(* sets debounceMs. Scopes, authorization and metadata are left out, and so    *)
(* are a send that fails on a connection still open, which costs a client its  *)
(* subscription, and a second subscription with one id on one connection,      *)
(* which the store never asks for: it leaves first, or is on a new connection. *)
EXTENDS Naturals, Sequences

CONSTANTS
    Clients,  \* tabs showing the result of the query
    Rows,     \* what the table may hold of it
    MaxMoves  \* bound: writes, and clients selecting the session again

ASSUME LiveQueryAssumption == MaxMoves \in Nat

VARIABLES
    stored,  \* the rows of the table
    entry,   \* the QueryEntry: exists, cachedRows, pendingEval
    queued,  \* microtasks evaluateQuery(cacheKey)
    subs,    \* clients whose connection is subscribed
    ghosts,  \* clients with a subscription of a connection that is lost
    online,  \* clients that are connected
    wish,    \* per client, the RPC under way
    wire,    \* per client, events under way, those of its subscription
    view,    \* per client, what it shows
    missed,  \* history: a write was not reported, and nothing evaluated since
    moves    \* counts towards MaxMoves

lvars == <<stored, entry, queued, subs, ghosts, online, wish, wire, view, missed, moves>>

NoEntry == [up |-> FALSE, cached |-> {}, due |-> FALSE]
Entries == [up : BOOLEAN, cached : SUBSET Rows, due : BOOLEAN]
Events == [snapshot : BOOLEAN, added : SUBSET Rows, removed : SUBSET Rows]

LiveInit ==
    /\ stored = {} /\ entry = NoEntry /\ queued = 0
    /\ subs = {} /\ ghosts = {} /\ online = {} /\ missed = FALSE /\ moves = 0
    /\ wish = [c \in Clients |-> "none"]
    /\ wire = [c \in Clients |-> <<>>] /\ view = [c \in Clients |-> {}]

Move == moves < MaxMoves /\ moves' = moves + 1

-----------------------------------------------------------------------------
(* ---- writes ---- *)

(* A write, or a batch that commits: one event, heard unless one is pending. *)
Write(r) ==
    /\ Move
    /\ stored' = IF r \in stored THEN stored \ {r} ELSE stored \cup {r}
    /\ IF entry.up /\ ~entry.due
       THEN entry' = [entry EXCEPT !.due = TRUE] /\ queued' = queued + 1
       ELSE UNCHANGED <<entry, queued>>
    /\ UNCHANGED <<subs, ghosts, online, wish, wire, view, missed>>

(* A batch that throws after a write: abortTransaction drops the event, and    *)
(* nothing undoes the write.                                                   *)
AbortedWrite(r) ==
    /\ Move
    /\ stored' = IF r \in stored THEN stored \ {r} ELSE stored \cup {r}
    /\ missed' = TRUE
    /\ UNCHANGED <<entry, queued, subs, ghosts, online, wish, wire, view>>

-----------------------------------------------------------------------------
(* ---- the engine and its handlers ---- *)

DropsEntry(left) == \* mutant: an entry goes with any of its subscribers
    NoEntry

(* dispose(): the entry goes with its last subscriber, the microtask stays. *)
WithSubscribers(left) == IF left = {} THEN NoEntry ELSE entry

Queue(c, e) == [wire EXCEPT ![c] = Append(@, e)]

(* A client that asked to leave ignores the events of its old subscription. *)
Listens(c) == c \in subs /\ wish[c] = "none"

(* evaluateQuery(): a delta to every subscriber; the subscription of a         *)
(* connection found closed is disposed of.                                     *)
Evaluate ==
    /\ queued > 0 /\ queued' = queued - 1
    /\ IF ~entry.up THEN UNCHANGED <<entry, ghosts, wire, missed>>
       ELSE /\ missed' = FALSE
            /\ LET fresh == [entry EXCEPT !.cached = stored, !.due = FALSE]
                   delta == [snapshot |-> FALSE, added |-> stored \ entry.cached,
                             removed |-> entry.cached \ stored]
               IN IF stored = entry.cached
                  THEN entry' = fresh /\ UNCHANGED <<ghosts, wire>>
                  ELSE /\ ghosts' \in SUBSET ghosts
                       /\ entry' = IF subs \cup ghosts' = {} THEN NoEntry ELSE fresh
                       /\ wire' = [c \in Clients |->
                                      IF Listens(c) THEN Append(wire[c], delta) ELSE wire[c]]
    /\ UNCHANGED <<stored, subs, online, wish, view, moves>>

(* liveQuery.subscribe: the subscription may find the entry of others, with    *)
(* the rows they were sent last.                                               *)
Subscribe(c) ==
    /\ wish[c] = "subscribe" /\ c \notin subs
    /\ entry' = IF entry.up THEN entry ELSE [up |-> TRUE, cached |-> stored, due |-> FALSE]
    /\ subs' = subs \cup {c}
    /\ wire' = Queue(c, [snapshot |-> TRUE, added |-> entry'.cached, removed |-> {}])
    /\ wish' = [wish EXCEPT ![c] = "none"]
    /\ UNCHANGED <<stored, queued, ghosts, online, view, missed, moves>>

(* liveQuery.unsubscribe of a client that will subscribe again. *)
Unsubscribe(c) ==
    /\ wish[c] = "leave"
    /\ subs' = subs \ {c}
    /\ entry' = WithSubscribers(subs' \cup ghosts)
    /\ wish' = [wish EXCEPT ![c] = "subscribe"]
    /\ UNCHANGED <<stored, queued, ghosts, online, wire, view, missed, moves>>

(* onClientDisconnect *)
Disconnected(c) ==
    /\ c \in ghosts
    /\ ghosts' = ghosts \ {c}
    /\ entry' = WithSubscribers(subs \cup ghosts')
    /\ UNCHANGED <<stored, queued, subs, online, wish, wire, view, missed, moves>>

-----------------------------------------------------------------------------
(* ---- the client ---- *)

(* A snapshot replaces what is shown, a delta is applied to it. *)
Arrive(c) ==
    /\ wire[c] # <<>>
    /\ LET e == Head(wire[c])
       IN view' = [view EXCEPT ![c] = IF e.snapshot THEN e.added ELSE (@ \ e.removed) \cup e.added]
    /\ wire' = [wire EXCEPT ![c] = Tail(@)]
    /\ UNCHANGED <<stored, entry, queued, subs, ghosts, online, wish, missed, moves>>

(* On every connection the client subscribes again, with its old id. *)
Connect(c) ==
    /\ c \notin online
    /\ online' = online \cup {c}
    /\ wish' = [wish EXCEPT ![c] = "subscribe"]
    /\ UNCHANGED <<stored, entry, queued, subs, ghosts, wire, view, missed, moves>>

(* The connection is lost, and what was on it; the daemon hears of it later. *)
LoseConnection(c) ==
    /\ c \in online /\ c \notin ghosts
    /\ online' = online \ {c} /\ subs' = subs \ {c}
    /\ ghosts' = IF c \in subs THEN ghosts \cup {c} ELSE ghosts
    /\ wish' = [wish EXCEPT ![c] = "none"] /\ wire' = [wire EXCEPT ![c] = <<>>]
    /\ UNCHANGED <<stored, entry, queued, view, missed, moves>>

(* The user leaves the session and comes back. *)
Reselect(c) ==
    /\ Move
    /\ c \in online /\ wish[c] = "none"
    /\ wish' = [wish EXCEPT ![c] = "leave"] /\ wire' = [wire EXCEPT ![c] = <<>>]
    /\ view' = [view EXCEPT ![c] = {}]
    /\ UNCHANGED <<stored, entry, queued, subs, ghosts, online, missed>>

Serve(c) == Subscribe(c) \/ Unsubscribe(c)

LiveNext ==
    \/ \E r \in Rows : Write(r) \/ AbortedWrite(r)
    \/ Evaluate
    \/ \E c \in Clients : \/ Serve(c) \/ Disconnected(c) \/ Arrive(c)
                          \/ Connect(c) \/ LoseConnection(c) \/ Reselect(c)

LiveSpec == LiveInit /\ [][LiveNext]_lvars

(* Microtasks run, requests are handled and events arrive while the connection *)
(* lasts.                                                                      *)
LiveFairSpec ==
    /\ LiveSpec /\ WF_lvars(Evaluate)
    /\ \A c \in Clients : WF_lvars(Serve(c)) /\ WF_lvars(Arrive(c))

-----------------------------------------------------------------------------
(* The engine, the wires and the clients keep their types. *)
LiveTypeOK ==
    /\ stored \subseteq Rows /\ entry \in Entries /\ queued \in Nat
    /\ subs \subseteq Clients /\ ghosts \subseteq Clients /\ online \subseteq Clients
    /\ wish \in [Clients -> {"none", "subscribe", "leave"}]
    /\ wire \in [Clients -> Seq(Events)]
    /\ view \in [Clients -> SUBSET Rows]
    /\ missed \in BOOLEAN /\ moves \in 0..MaxMoves

(* A client that is left alone shows the table: when its RPC is answered, its  *)
(* events have arrived and no evaluation is queued for a change, it agrees,    *)
(* whatever deltas overtook whichever subscription, and whoever found an entry *)
(* of others half up to date; unless a batch threw after its write.            *)
QuietViewsAgree ==
    \A c \in online :
        wish[c] = "none" /\ wire[c] = <<>> /\ (entry.due => queued = 0) /\ ~missed
            => view[c] = stored

(* What a client shows catches up with the table, whoever else subscribes,     *)
(* leaves or is cut off while an evaluation is pending, unless the client is   *)
(* cut off itself or a batch threw after its write.                            *)
ViewsCatchUp ==
    \A c \in Clients :
        c \in online /\ view[c] # stored ~> view[c] = stored \/ c \notin online \/ missed
=============================================================================
