----------------------------- MODULE ServicesProofs -----------------------------
(* What TLAPS proves about LiveQuery and SelfSchedule, for every value of      *)
(* their constants, and about the four services together, as they are run: in  *)
(* MCServices one of them moves at a time, and each keeps its promises.        *)
EXTENDS MCServices, ChannelRouterProofs, PendingMessagesProofs, TLAPS

-----------------------------------------------------------------------------
(* ---- the jobs that schedule themselves ---- *)

(* complete() on any rows keeps a pending row pending. *)
LEMMA CloseSpares ==
  ASSUME NEW rows1 \in [Jobs -> RowStatus], NEW j \in Jobs
  PROVE  /\ Closed(rows1, j) \in [Jobs -> RowStatus]
         /\ \A k \in Jobs : rows1[k] = "pending" => Closed(rows1, j)[k] = "pending"
BY DEF Closed, RowStatus

LEMMA ResetCounter ==
  ASSUME fails \in [Jobs -> 0..MaxFails], NEW k \in Jobs, Enqueued(k)
  PROVE  fails' \in [Jobs -> 0..MaxFails] /\ gaveUp' \in BOOLEAN
<1>1. 0 \in 0..MaxFails
  BY ChainAssumption DEF ChainAssumption
<1>2. fails' \in [Jobs -> 0..MaxFails]
  BY <1>1 DEF Enqueued
<1>3. gaveUp' \in BOOLEAN
  BY DEF Enqueued
<1> QED BY <1>2, <1>3

LEMMA ChainTypes == ChainTypeOK /\ [ChainNext]_cvars => ChainTypeOK'
<1> SUFFICES ASSUME ChainTypeOK, [ChainNext]_cvars PROVE ChainTypeOK'
  OBVIOUS
<1> USE ChainAssumption DEF ChainAssumption
<1>1. ASSUME NEW s \in Slots, NEW j \in Jobs, Claim(s, j) PROVE ChainTypeOK'
  BY <1>1 DEF Claim, ChainTypeOK, RowStatus
<1>2. ASSUME NEW j \in Jobs, ReclaimStale(j) PROVE ChainTypeOK'
  BY <1>2 DEF ReclaimStale, ChainTypeOK, RowStatus
<1>3. ASSUME NEW s \in Slots, Finishes(s) PROVE ChainTypeOK'
  <2>1. slot[s] \in Jobs
    BY <1>3 DEF Finishes, ChainTypeOK
  <2>2. CASE row' = Closed(row, slot[s]) /\ UNCHANGED <<fails, gaveUp>>
    BY <1>3, <2>1, <2>2, CloseSpares DEF Finishes, ChainTypeOK
  <2>3. ASSUME NEW k \in Unused,
               row' = Closed([row EXCEPT ![k] = "pending"], slot[s]), Enqueued(k)
        PROVE  ChainTypeOK'
    <3>1. k \in Jobs /\ [row EXCEPT ![k] = "pending"] \in [Jobs -> RowStatus]
      BY DEF Unused, With, ChainTypeOK, RowStatus
    <3>2. row' \in [Jobs -> RowStatus]
      BY <2>1, <2>3, <3>1, CloseSpares
    <3>3. fails' \in [Jobs -> 0..MaxFails] /\ gaveUp' \in BOOLEAN
      BY <2>3, <3>1, ResetCounter DEF ChainTypeOK
    <3>4. slot' \in [Slots -> Jobs \cup {NoJob}] /\ serves' \in BOOLEAN
      BY <1>3 DEF Finishes, ChainTypeOK
    <3> QED BY <3>2, <3>3, <3>4 DEF ChainTypeOK
  <2> QED BY <1>3, <2>2, <2>3 DEF Finishes
<1>4. ASSUME NEW s \in Slots, Fails(s) PROVE ChainTypeOK'
  <2>1. slot[s] \in Jobs /\ fails[slot[s]] \in 0..MaxFails
    BY <1>4 DEF Fails, ChainTypeOK
  <2>2. row' \in [Jobs -> RowStatus]
    BY <1>4, <2>1 DEF Fails, ChainTypeOK, RowStatus
  <2>3. fails' \in [Jobs -> 0..MaxFails]
    BY <1>4, <2>1 DEF Fails, ChainTypeOK
  <2>4. slot' \in [Slots -> Jobs \cup {NoJob}] /\ serves' \in BOOLEAN
    BY <1>4 DEF Fails, ChainTypeOK
  <2>5. gaveUp' \in BOOLEAN
    BY <1>4 DEF Fails, ChainTypeOK
  <2> QED BY <2>2, <2>3, <2>4, <2>5 DEF ChainTypeOK
<1>5. CASE Starts
  <2>1. \A k \in Unused : k \in Jobs /\ [row EXCEPT ![k] = "pending"] \in [Jobs -> RowStatus]
    BY DEF Unused, With, ChainTypeOK, RowStatus
  <2>2. row' \in [Jobs -> RowStatus]
    BY <1>5, <2>1 DEF Starts, ChainTypeOK
  <2>3. fails' \in [Jobs -> 0..MaxFails] /\ gaveUp' \in BOOLEAN
    BY <1>5, <2>1, ResetCounter DEF Starts, ChainTypeOK
  <2> QED BY <1>5, <2>2, <2>3 DEF Starts, ChainTypeOK
<1>6. CASE Dies
  BY <1>6 DEF Dies, ChainTypeOK
<1>7. CASE DiesInHandler
  <2>1. \A k \in Unused : k \in Jobs /\ [row EXCEPT ![k] = "pending"] \in [Jobs -> RowStatus]
    BY DEF Unused, With, ChainTypeOK, RowStatus
  <2>2. row' \in [Jobs -> RowStatus]
    BY <1>7, <2>1 DEF DiesInHandler, ChainTypeOK
  <2>3. fails' \in [Jobs -> 0..MaxFails] /\ gaveUp' \in BOOLEAN
    BY <1>7, <2>1, ResetCounter DEF DiesInHandler, ChainTypeOK
  <2> QED BY <1>7, <2>2, <2>3 DEF DiesInHandler, ChainTypeOK
<1>8. CASE UNCHANGED cvars
  BY <1>8 DEF cvars, ChainTypeOK
<1> QED BY <1>1, <1>2, <1>3, <1>4, <1>5, <1>6, <1>7, <1>8 DEF ChainNext

LEMMA ChainInitial == ChainInit => ChainTypeOK /\ ChainGoesOn
<1> SUFFICES ASSUME ChainInit PROVE ChainTypeOK /\ ChainGoesOn
  OBVIOUS
<1>1. 0 \in 0..MaxFails
  BY ChainAssumption DEF ChainAssumption
<1>2. row \in [Jobs -> RowStatus] /\ fails \in [Jobs -> 0..MaxFails]
  BY <1>1 DEF ChainInit, RowStatus
<1>3. slot \in [Slots -> Jobs \cup {NoJob}] /\ serves = FALSE /\ gaveUp = FALSE
  BY DEF ChainInit
<1> QED BY <1>2, <1>3 DEF ChainTypeOK, ChainGoesOn

LEMMA ChainStep == ChainTypeOK /\ ChainGoesOn /\ [ChainNext]_cvars => ChainGoesOn'
<1> SUFFICES ASSUME ChainTypeOK, ChainGoesOn, [ChainNext]_cvars, serves', ~gaveUp'
             PROVE  \E j \in Jobs : row'[j] \in {"pending", "processing"}
  BY DEF ChainGoesOn, With
<1>0. ASSUME serves, ~gaveUp PROVE \E j \in Jobs : row[j] \in {"pending", "processing"}
  BY <1>0 DEF ChainGoesOn, With
<1>1. ASSUME NEW s \in Slots, NEW j \in Jobs, Claim(s, j)
      PROVE  \E k \in Jobs : row'[k] \in {"pending", "processing"}
  BY <1>1 DEF Claim, ChainTypeOK
<1>2. ASSUME NEW j \in Jobs, ReclaimStale(j)
      PROVE  \E k \in Jobs : row'[k] \in {"pending", "processing"}
  BY <1>2 DEF ReclaimStale, ChainTypeOK
<1>3. ASSUME NEW s \in Slots, Finishes(s)
      PROVE  \E k \in Jobs : row'[k] \in {"pending", "processing"}
  <2>1. slot[s] \in Jobs
    BY <1>3 DEF Finishes, ChainTypeOK
  <2>2. CASE Listed({"pending"}) /\ row' = Closed(row, slot[s])
    <3>1. PICK k \in Jobs : row[k] = "pending"
      BY <2>2 DEF Listed, With
    <3> QED BY <2>1, <2>2, <3>1, CloseSpares DEF ChainTypeOK
  <2>3. ASSUME NEW k \in Unused, row' = Closed([row EXCEPT ![k] = "pending"], slot[s])
        PROVE  \E l \in Jobs : row'[l] \in {"pending", "processing"}
    <3> DEFINE rows1 == [row EXCEPT ![k] = "pending"]
    <3>1. k \in Jobs /\ rows1 \in [Jobs -> RowStatus] /\ rows1[k] = "pending"
      BY DEF Unused, With, ChainTypeOK, RowStatus
    <3>2. row' = Closed(rows1, slot[s])
      BY <2>3
    <3> HIDE DEF rows1
    <3>3. row'[k] = "pending"
      BY <2>1, <3>1, <3>2, CloseSpares
    <3> QED BY <3>1, <3>3
  <2> QED BY <1>3, <2>2, <2>3 DEF Finishes
<1>4. ASSUME NEW s \in Slots, Fails(s)
      PROVE  \E k \in Jobs : row'[k] \in {"pending", "processing"}
  <2>1. slot[s] \in Jobs
    BY <1>4 DEF Fails, ChainTypeOK
  <2> QED BY <1>4, <2>1 DEF Fails, ChainTypeOK
<1>5. CASE Starts
  <2>1. ASSUME NEW k \in Unused, row' = [row EXCEPT ![k] = "pending"]
        PROVE  \E l \in Jobs : row'[l] \in {"pending", "processing"}
    BY <2>1 DEF Unused, With, ChainTypeOK
  <2>2. ASSUME Listed({"pending"}) \/ Listed({"pending", "processing"}), row' = row
        PROVE  \E l \in Jobs : row'[l] \in {"pending", "processing"}
    BY <2>2 DEF Listed, With
  <2> QED BY <1>5, <2>1, <2>2 DEF Starts
<1>6. CASE Dies
  BY <1>6 DEF Dies
<1>7. CASE DiesInHandler
  BY <1>7 DEF DiesInHandler
<1>8. CASE UNCHANGED cvars
  BY <1>0, <1>8 DEF cvars
<1> QED BY <1>1, <1>2, <1>3, <1>4, <1>5, <1>6, <1>7, <1>8 DEF ChainNext

(* A self-scheduling queue never runs dry while the daemon runs, whatever was  *)
(* reclaimed, run twice or met by a crash, unless a job used up its retries.   *)
THEOREM TheChainGoesOn == ChainSpec => []ChainGoesOn
BY ChainInitial, ChainTypes, ChainStep, PTL DEF ChainSpec

(* Rows, slots and counters keep their types. *)
THEOREM ChainTypeCorrect == ChainSpec => []ChainTypeOK
BY ChainInitial, ChainTypes, PTL DEF ChainSpec

-----------------------------------------------------------------------------
(* ---- live queries ---- *)

(* What a client will show of row r once the events on its wire have arrived.  *)
Decides(e, r) == e.snapshot \/ r \in e.added \/ r \in e.removed
WillShow(w, v, r) ==
  \/ \E i \in 1..Len(w) : /\ r \in w[i].added
                          /\ \A k \in 1..Len(w) : k > i => ~Decides(w[k], r)
  \/ r \in v /\ \A i \in 1..Len(w) : ~Decides(w[i], r)

Applied(e, v) == IF e.snapshot THEN e.added ELSE (v \ e.removed) \cup e.added

LEMMA NothingOnTheWire ==
  ASSUME NEW v, NEW r
  PROVE  WillShow(<<>>, v, r) <=> r \in v
BY DEF WillShow

LEMMA EventSent ==
  ASSUME NEW w \in Seq(Events), NEW e \in Events, NEW v, NEW r
  PROVE  WillShow(Append(w, e), v, r) <=> r \in e.added \/ (~Decides(e, r) /\ WillShow(w, v, r))
<1> DEFINE u == Append(w, e)
           n == Len(w)
<1>1. /\ Len(u) = n + 1 /\ n \in Nat /\ u[n + 1] = e
      /\ \A i \in 1..n : u[i] = w[i] /\ i \in 1..(n + 1)
      /\ \A i \in 1..(n + 1) : i \in 1..n \/ i = n + 1
      /\ n + 1 \in 1..(n + 1)
  OBVIOUS
<1> HIDE DEF u, n
<1>2. ASSUME r \in e.added PROVE WillShow(u, v, r)
  BY <1>1, <1>2 DEF WillShow
<1>3. ASSUME ~Decides(e, r), WillShow(w, v, r) PROVE WillShow(u, v, r)
  <2>1. CASE r \in v /\ \A i \in 1..n : ~Decides(w[i], r)
    BY <1>1, <1>3, <2>1 DEF WillShow
  <2>2. ASSUME NEW i \in 1..n, r \in w[i].added, \A k \in 1..n : k > i => ~Decides(w[k], r)
        PROVE  WillShow(u, v, r)
    BY <1>1, <1>3, <2>2 DEF WillShow
  <2> QED BY <1>3, <2>1, <2>2 DEF WillShow, n
<1>4. ASSUME WillShow(u, v, r), r \notin e.added PROVE ~Decides(e, r) /\ WillShow(w, v, r)
  <2>1. CASE r \in v /\ \A i \in 1..(n + 1) : ~Decides(u[i], r)
    BY <1>1, <2>1 DEF WillShow, n
  <2>2. ASSUME NEW i \in 1..(n + 1), r \in u[i].added,
               \A k \in 1..(n + 1) : k > i => ~Decides(u[k], r)
        PROVE  ~Decides(e, r) /\ WillShow(w, v, r)
    <3>1. i \in 1..n /\ n + 1 > i
      BY <1>1, <1>4, <2>2
    <3>2. ~Decides(e, r)
      BY <1>1, <2>2, <3>1
    <3>3. r \in w[i].added /\ \A k \in 1..n : k > i => ~Decides(w[k], r)
      BY <1>1, <2>2, <3>1
    <3> QED BY <3>1, <3>2, <3>3 DEF WillShow, n
  <2> QED BY <1>1, <1>4, <2>1, <2>2 DEF WillShow
<1>5. r \in e.added => Decides(e, r)
  BY DEF Decides
<1> QED BY <1>2, <1>3, <1>4 DEF u

LEMMA EventArrives ==
  ASSUME NEW w \in Seq(Events), w # <<>>, NEW v, NEW r
  PROVE  WillShow(Tail(w), Applied(Head(w), v), r) <=> WillShow(w, v, r)
<1> DEFINE t == Tail(w)
           e == Head(w)
           n == Len(t)
<1>1. /\ n \in Nat /\ Len(w) = n + 1 /\ w[1] = e
      /\ \A i \in 1..n : t[i] = w[i + 1] /\ i + 1 \in 1..(n + 1)
      /\ \A i \in 1..(n + 1) : i = 1 \/ (i - 1 \in 1..n /\ w[i] = t[i - 1] /\ i > 1)
      /\ 1 \in 1..(n + 1) /\ \A i \in 1..n : i + 1 > 1 /\ \A k \in 1..n : k > i <=> k + 1 > i + 1
  OBVIOUS
<1>2. r \in Applied(e, v) <=> r \in e.added \/ (~Decides(e, r) /\ r \in v)
  BY DEF Applied, Decides
<1> HIDE DEF t, e, n
<1>3. ASSUME NEW i \in 1..n
      PROVE  (\A k \in 1..n : k > i => ~Decides(t[k], r))
                <=> (\A k \in 1..(n + 1) : k > i + 1 => ~Decides(w[k], r))
  <2>1. ASSUME \A k \in 1..n : k > i => ~Decides(t[k], r), NEW k \in 1..(n + 1), k > i + 1
        PROVE  ~Decides(w[k], r)
    <3>1. k - 1 \in 1..n /\ w[k] = t[k - 1] /\ k - 1 > i
      BY <1>1, <2>1
    <3> QED BY <2>1, <3>1
  <2>2. ASSUME \A k \in 1..(n + 1) : k > i + 1 => ~Decides(w[k], r), NEW k \in 1..n, k > i
        PROVE  ~Decides(t[k], r)
    BY <1>1, <2>2
  <2> QED BY <2>1, <2>2
<1>4. (\A k \in 1..n : ~Decides(t[k], r)) <=> (\A k \in 1..(n + 1) : k > 1 => ~Decides(w[k], r))
  <2>1. ASSUME \A k \in 1..n : ~Decides(t[k], r), NEW k \in 1..(n + 1), k > 1
        PROVE  ~Decides(w[k], r)
    BY <1>1, <2>1
  <2>2. ASSUME \A k \in 1..(n + 1) : k > 1 => ~Decides(w[k], r), NEW k \in 1..n
        PROVE  ~Decides(t[k], r)
    BY <1>1, <2>2
  <2> QED BY <2>1, <2>2
<1>5. ASSUME WillShow(t, Applied(e, v), r) PROVE WillShow(w, v, r)
  <2>1. ASSUME NEW i \in 1..n, r \in t[i].added, \A k \in 1..n : k > i => ~Decides(t[k], r)
        PROVE  WillShow(w, v, r)
    <3>1. i + 1 \in 1..(n + 1) /\ r \in w[i + 1].added
      BY <1>1, <2>1
    <3> QED BY <1>1, <1>3, <2>1, <3>1 DEF WillShow
  <2>2. ASSUME r \in Applied(e, v), \A k \in 1..n : ~Decides(t[k], r)
        PROVE  WillShow(w, v, r)
    <3>1. CASE r \in e.added
      BY <1>1, <1>4, <2>2, <3>1 DEF WillShow
    <3>2. CASE ~Decides(e, r) /\ r \in v
      <4>1. \A k \in 1..(n + 1) : ~Decides(w[k], r)
        BY <1>1, <1>4, <2>2, <3>2
      <4> QED BY <1>1, <3>2, <4>1 DEF WillShow
    <3> QED BY <1>2, <2>2, <3>1, <3>2
  <2> QED BY <1>5, <2>1, <2>2 DEF WillShow, n
<1>6. ASSUME WillShow(w, v, r) PROVE WillShow(t, Applied(e, v), r)
  <2>1. ASSUME NEW i \in 1..(n + 1), r \in w[i].added,
               \A k \in 1..(n + 1) : k > i => ~Decides(w[k], r)
        PROVE  WillShow(t, Applied(e, v), r)
    <3>1. CASE i = 1
      BY <1>1, <1>2, <1>4, <2>1, <3>1 DEF WillShow, n
    <3>2. CASE i # 1
      <4>1. i - 1 \in 1..n /\ r \in t[i - 1].added /\ (i - 1) + 1 = i
        BY <1>1, <2>1, <3>2
      <4>2. \A k \in 1..n : k > i - 1 => ~Decides(t[k], r)
        BY <1>3, <2>1, <4>1
      <4> QED BY <4>1, <4>2 DEF WillShow, n
    <3> QED BY <3>1, <3>2
  <2>2. ASSUME r \in v, \A k \in 1..(n + 1) : ~Decides(w[k], r)
        PROVE  WillShow(t, Applied(e, v), r)
    BY <1>1, <1>2, <1>4, <2>2 DEF WillShow, n
  <2> QED BY <1>1, <1>6, <2>1, <2>2 DEF WillShow
<1> QED BY <1>5, <1>6 DEF t, e

Shows(c, r) == WillShow(wire[c], view[c], r)

(* A subscribed client will show the rows that were sent last. *)
Promised ==
  \A c \in subs : wish[c] = "none" => \A r \in Rows : Shows(c, r) <=> r \in entry.cached

(* An entry lives as long as a subscription, and an online client without an   *)
(* RPC under way has one. A write it has not seen is due, and what is due is   *)
(* queued.                                                                     *)
LiveInv ==
  /\ LiveTypeOK
  /\ Promised
  /\ entry.up <=> subs \cup ghosts # {}
  /\ \A c \in online : wish[c] = "none" => c \in subs
  /\ \A c \in subs : c \in online /\ wish[c] # "subscribe"
  /\ \A c \in Clients : wish[c] # "none" => c \in online
  /\ \A c \in Clients : wish[c] = "leave" => c \in subs
  /\ entry.up /\ ~missed /\ ~entry.due => entry.cached = stored
  /\ entry.due => queued > 0 /\ entry.up

LEMMA EntryFields ==
  ASSUME NEW e \in Entries
  PROVE  /\ e.up \in BOOLEAN /\ e.due \in BOOLEAN /\ e.cached \subseteq Rows
         /\ \A x \in BOOLEAN : [e EXCEPT !.due = x] \in Entries
         /\ \A x \in BOOLEAN : [e EXCEPT !.due = x].due = x
         /\ \A x \in BOOLEAN : [e EXCEPT !.due = x].up = e.up
         /\ \A x \in BOOLEAN : [e EXCEPT !.due = x].cached = e.cached
BY DEF Entries

LEMMA NoEntryFields ==
  NoEntry \in Entries /\ NoEntry.up = FALSE /\ NoEntry.due = FALSE
BY DEF NoEntry, Entries

LEMMA LiveInitial == LiveInit => LiveInv
<1> SUFFICES ASSUME LiveInit PROVE LiveInv
  OBVIOUS
<1>1. LiveTypeOK
  <2>1. 0 \in 0..MaxMoves /\ <<>> \in Seq(Events)
    BY LiveQueryAssumption DEF LiveQueryAssumption
  <2>2. /\ wish \in [Clients -> {"none", "subscribe", "leave"}]
        /\ wire \in [Clients -> Seq(Events)]
        /\ view \in [Clients -> SUBSET Rows]
    BY <2>1 DEF LiveInit
  <2> QED BY <2>1, <2>2, NoEntryFields DEF LiveInit, LiveTypeOK
<1> QED BY <1>1, NoEntryFields DEF LiveInit, LiveInv, Promised

(* A step that leaves the wires, the views and the rows that were sent as they *)
(* are keeps every promise to those subscribed before.                         *)
LEMMA PromisesStand ==
  ASSUME Promised, wire' = wire, view' = view, entry'.cached = entry.cached,
         \A c \in subs' : wish'[c] = "none" => c \in subs /\ wish[c] = "none"
  PROVE  Promised'
BY DEF Promised, Shows

LEMMA WriteKeeps ==
  ASSUME LiveInv, NEW r \in Rows, Write(r)
  PROVE  LiveInv'
<1>1. entry \in Entries /\ queued \in Nat /\ moves \in 0..MaxMoves /\ stored \subseteq Rows
  BY DEF LiveInv, LiveTypeOK
<1>2. stored' \subseteq Rows
  BY <1>1 DEF Write
<1>3. moves' \in 0..MaxMoves
  BY <1>1, LiveQueryAssumption DEF Write, Move, LiveQueryAssumption
<1>4. CASE entry.up /\ ~entry.due
  <2>1. entry' = [entry EXCEPT !.due = TRUE] /\ queued' = queued + 1
    BY <1>4 DEF Write
  <2>2. /\ entry' \in Entries /\ entry'.due = TRUE
        /\ entry'.up = entry.up /\ entry'.cached = entry.cached
    BY <1>1, <2>1, EntryFields
  <2>3. queued' \in Nat /\ queued' > 0
    BY <1>1, <2>1
  <2>4. LiveTypeOK'
    BY <1>2, <1>3, <2>2, <2>3 DEF LiveInv, LiveTypeOK, Write
  <2>5. Promised'
    BY <2>2, PromisesStand DEF LiveInv, Write
  <2> QED BY <1>4, <2>2, <2>3, <2>4, <2>5 DEF LiveInv, Write
<1>5. CASE ~(entry.up /\ ~entry.due)
  <2>1. UNCHANGED <<entry, queued>>
    BY <1>5 DEF Write
  <2>2. LiveTypeOK'
    BY <1>2, <1>3, <2>1 DEF LiveInv, LiveTypeOK, Write
  <2>3. Promised'
    BY <2>1, PromisesStand DEF LiveInv, Write
  <2> QED BY <1>5, <2>1, <2>2, <2>3 DEF LiveInv, Write
<1> QED BY <1>4, <1>5

LEMMA AbortedWriteKeeps ==
  ASSUME LiveInv, NEW r \in Rows, AbortedWrite(r)
  PROVE  LiveInv'
<1>1. stored' \subseteq Rows /\ moves' \in 0..MaxMoves
  BY LiveQueryAssumption DEF LiveInv, LiveTypeOK, AbortedWrite, Move, LiveQueryAssumption
<1>2. LiveTypeOK'
  BY <1>1 DEF LiveInv, LiveTypeOK, AbortedWrite
<1>3. Promised'
  BY PromisesStand DEF LiveInv, AbortedWrite
<1> QED BY <1>2, <1>3 DEF LiveInv, AbortedWrite

LEMMA EvaluateKeeps ==
  ASSUME LiveInv, Evaluate
  PROVE  LiveInv'
<1> DEFINE fresh == [entry EXCEPT !.cached = stored, !.due = FALSE]
           delta == [snapshot |-> FALSE, added |-> stored \ entry.cached,
                     removed |-> entry.cached \ stored]
<1>1. /\ entry \in Entries /\ stored \subseteq Rows /\ entry.cached \subseteq Rows
      /\ queued \in Nat /\ queued' \in Nat
  BY EntryFields DEF LiveInv, LiveTypeOK, Evaluate
<1>2. /\ fresh \in Entries /\ fresh.up = entry.up
      /\ fresh.cached = stored /\ fresh.due = FALSE
  BY <1>1 DEF Entries
<1>3. delta \in Events
  BY <1>1 DEF Events
<1>4. CASE ~entry.up
  <2>1. UNCHANGED <<entry, ghosts, wire, missed>>
    BY <1>4 DEF Evaluate
  <2>2. LiveTypeOK'
    BY <1>1, <2>1 DEF LiveInv, LiveTypeOK, Evaluate
  <2>3. Promised'
    BY <2>1, PromisesStand DEF LiveInv, Evaluate
  <2> QED BY <1>4, <2>1, <2>2, <2>3 DEF LiveInv, Evaluate
<1>5. CASE entry.up /\ stored = entry.cached
  <2>1. entry' = fresh /\ UNCHANGED <<ghosts, wire>> /\ missed' = FALSE
    BY <1>5 DEF Evaluate
  <2> HIDE DEF fresh
  <2>2. LiveTypeOK'
    BY <1>1, <1>2, <2>1 DEF LiveInv, LiveTypeOK, Evaluate
  <2>3. Promised'
    BY <1>2, <1>5, <2>1, PromisesStand DEF LiveInv, Evaluate
  <2> QED BY <1>2, <1>5, <2>1, <2>2, <2>3 DEF LiveInv, Evaluate
<1>6. CASE entry.up /\ stored # entry.cached
  <2>1. /\ ghosts' \in SUBSET ghosts /\ missed' = FALSE
        /\ entry' = IF subs \cup ghosts' = {} THEN NoEntry ELSE fresh
        /\ wire' = [c \in Clients |-> IF Listens(c) THEN Append(wire[c], delta) ELSE wire[c]]
    BY <1>6 DEF Evaluate
  <2>2. entry' \in Entries /\ entry'.due = FALSE /\ (entry'.up <=> subs \cup ghosts' # {})
    BY <1>2, <1>6, <2>1, NoEntryFields
  <2>3. subs \cup ghosts' # {} => entry'.cached = stored
    BY <1>2, <2>1
  <2> DEFINE d == delta
  <2> HIDE DEF fresh, d
  <2>4. wire' \in [Clients -> Seq(Events)]
    <3>1. ASSUME NEW c \in Clients PROVE Append(wire[c], d) \in Seq(Events) /\ wire[c] \in Seq(Events)
      BY <1>3 DEF LiveInv, LiveTypeOK, d
    <3> QED BY <2>1, <3>1 DEF d
  <2>5. LiveTypeOK'
    BY <1>1, <2>1, <2>2, <2>4 DEF LiveInv, LiveTypeOK, Evaluate
  <2>6. Promised'
    <3> SUFFICES ASSUME NEW c \in subs, wish[c] = "none", NEW r \in Rows
                 PROVE  Shows(c, r)' <=> r \in stored
      BY <2>3 DEF Promised, Evaluate
    <3>1. c \in Clients /\ Listens(c) /\ wire[c] \in Seq(Events)
      BY DEF LiveInv, LiveTypeOK, Listens
    <3>2. wire'[c] = Append(wire[c], d) /\ view' = view
      BY <2>1, <3>1 DEF d, Evaluate
    <3>3. WillShow(wire[c], view[c], r) <=> r \in entry.cached
      BY DEF LiveInv, Promised, Shows
    <3>4. d \in Events
      BY <1>3 DEF d
    <3>5. /\ r \in d.added <=> r \in stored /\ r \notin entry.cached
          /\ Decides(d, r) <=> ~(r \in stored <=> r \in entry.cached)
      BY DEF d, Decides
    <3> QED BY <3>1, <3>2, <3>3, <3>4, <3>5, EventSent DEF Shows
  <2> QED BY <1>6, <2>1, <2>2, <2>3, <2>5, <2>6 DEF LiveInv, Evaluate
<1> QED BY <1>4, <1>5, <1>6

LEMMA SubscribeKeeps ==
  ASSUME LiveInv, NEW c \in Clients, Subscribe(c)
  PROVE  LiveInv'
<1> DEFINE snap == [snapshot |-> TRUE, added |-> entry'.cached, removed |-> {}]
<1>1. entry \in Entries /\ stored \subseteq Rows
  BY DEF LiveInv, LiveTypeOK
<1>2. /\ entry' \in Entries /\ entry'.up = TRUE
      /\ entry.up => entry' = entry
      /\ ~entry.up => entry'.cached = stored /\ entry'.due = FALSE
  BY <1>1 DEF Subscribe, Entries
<1>3. snap \in Events
  BY <1>2, EntryFields DEF Events
<1>4. wire' = [wire EXCEPT ![c] = Append(@, snap)]
  BY DEF Subscribe, Queue
<1> DEFINE s == snap
<1>5. s \in Events /\ s.snapshot = TRUE /\ s.added = entry'.cached
  BY <1>3
<1> HIDE DEF s
<1>6. wire' \in [Clients -> Seq(Events)]
  <2>1. Append(wire[c], s) \in Seq(Events)
    BY <1>5 DEF LiveInv, LiveTypeOK
  <2> QED BY <1>4, <2>1 DEF LiveInv, LiveTypeOK, s
<1>7. LiveTypeOK'
  BY <1>2, <1>6 DEF LiveInv, LiveTypeOK, Subscribe
<1>8. Promised'
  <2> SUFFICES ASSUME NEW d \in subs', wish'[d] = "none", NEW r \in Rows
               PROVE  Shows(d, r)' <=> r \in entry'.cached
    BY DEF Promised
  <2>1. CASE d = c
    <3>1. wire'[c] = Append(wire[c], s) /\ wire[c] \in Seq(Events)
      BY <1>4 DEF LiveInv, LiveTypeOK, s
    <3>2. Decides(s, r)
      BY <1>5 DEF Decides
    <3>3. WillShow(wire'[c], view'[c], r) <=> r \in s.added \/ (~Decides(s, r) /\ WillShow(wire[c], view'[c], r))
      BY <1>5, <3>1, EventSent
    <3> QED BY <1>5, <2>1, <3>2, <3>3 DEF Shows
  <2>2. CASE d # c
    <3>1. d \in subs /\ wish[d] = "none" /\ wire'[d] = wire[d] /\ view'[d] = view[d]
      BY <1>4, <2>2 DEF Subscribe, LiveInv, LiveTypeOK
    <3>2. entry.up
      BY <3>1 DEF LiveInv
    <3> QED BY <1>2, <3>1, <3>2 DEF LiveInv, Promised, Shows
  <2> QED BY <2>1, <2>2
<1> QED BY <1>2, <1>7, <1>8 DEF LiveInv, LiveTypeOK, Subscribe

LEMMA EntryOfTheLast ==
  ASSUME LiveInv, NEW left, NEW c \in Clients, entry' = WithSubscribers(left),
         left \subseteq subs \cup ghosts, stored' = stored, missed' = missed, queued' = queued
  PROVE  /\ entry' \in Entries
         /\ entry'.up <=> left # {}
         /\ left # {} => entry'.cached = entry.cached
         /\ entry'.up /\ ~missed' /\ ~entry'.due => entry'.cached = stored'
         /\ entry'.due => queued' > 0 /\ entry'.up
BY NoEntryFields DEF WithSubscribers, LiveInv, LiveTypeOK

LEMMA UnsubscribeKeeps ==
  ASSUME LiveInv, NEW c \in Clients, Unsubscribe(c)
  PROVE  LiveInv'
<1>1. /\ entry' \in Entries
      /\ entry'.up <=> subs' \cup ghosts # {}
      /\ subs' \cup ghosts # {} => entry'.cached = entry.cached
      /\ entry'.up /\ ~missed' /\ ~entry'.due => entry'.cached = stored'
      /\ entry'.due => queued' > 0 /\ entry'.up
  <2>1. subs' \cup ghosts \subseteq subs \cup ghosts
    BY DEF Unsubscribe
  <2> QED BY <2>1, EntryOfTheLast DEF Unsubscribe
<1>2. LiveTypeOK'
  BY <1>1 DEF LiveInv, LiveTypeOK, Unsubscribe
<1>3. Promised'
  <2> SUFFICES ASSUME NEW d \in subs', wish'[d] = "none", NEW r \in Rows
               PROVE  Shows(d, r)' <=> r \in entry'.cached
    BY DEF Promised
  <2>1. d \in subs /\ d # c /\ wish[d] = "none" /\ entry'.cached = entry.cached
    BY <1>1 DEF Unsubscribe, LiveInv, LiveTypeOK
  <2> QED BY <2>1 DEF LiveInv, Promised, Shows, Unsubscribe
<1> QED BY <1>1, <1>2, <1>3 DEF LiveInv, LiveTypeOK, Unsubscribe

LEMMA DisconnectedKeeps ==
  ASSUME LiveInv, NEW c \in Clients, Disconnected(c)
  PROVE  LiveInv'
<1>1. /\ entry' \in Entries
      /\ entry'.up <=> subs \cup ghosts' # {}
      /\ subs \cup ghosts' # {} => entry'.cached = entry.cached
      /\ entry'.up /\ ~missed' /\ ~entry'.due => entry'.cached = stored'
      /\ entry'.due => queued' > 0 /\ entry'.up
  <2>1. subs \cup ghosts' \subseteq subs \cup ghosts
    BY DEF Disconnected
  <2> QED BY <2>1, EntryOfTheLast DEF Disconnected
<1>2. LiveTypeOK'
  BY <1>1 DEF LiveInv, LiveTypeOK, Disconnected
<1>3. Promised'
  BY <1>1 DEF LiveInv, Promised, Shows, Disconnected
<1> QED BY <1>1, <1>2, <1>3 DEF LiveInv, Disconnected

LEMMA ArriveKeeps ==
  ASSUME LiveInv, NEW c \in Clients, Arrive(c)
  PROVE  LiveInv'
<1> DEFINE e == Head(wire[c])
<1>1. wire[c] \in Seq(Events) /\ wire[c] # <<>> /\ view[c] \subseteq Rows
  BY DEF LiveInv, LiveTypeOK, Arrive
<1>2. e \in Events /\ Tail(wire[c]) \in Seq(Events)
  BY <1>1
<1>3. /\ view' = [view EXCEPT ![c] = Applied(e, view[c])]
      /\ wire' = [wire EXCEPT ![c] = Tail(wire[c])]
  BY DEF Arrive, Applied
<1>4. Applied(e, view[c]) \subseteq Rows
  BY <1>1, <1>2 DEF Applied, Events
<1> HIDE DEF e
<1>5. LiveTypeOK'
  BY <1>2, <1>3, <1>4 DEF LiveInv, LiveTypeOK, Arrive
<1>6. Promised'
  <2> SUFFICES ASSUME NEW d \in subs, wish[d] = "none", NEW r \in Rows
               PROVE  Shows(d, r)' <=> r \in entry.cached
    BY DEF Promised, Arrive
  <2>1. Shows(d, r) <=> r \in entry.cached
    BY DEF LiveInv, Promised
  <2>2. CASE d = c
    <3>1. wire'[c] = Tail(wire[c]) /\ view'[c] = Applied(e, view[c])
      BY <1>3 DEF LiveInv, LiveTypeOK
    <3>2. WillShow(Tail(wire[c]), Applied(e, view[c]), r) <=> WillShow(wire[c], view[c], r)
      BY <1>1, EventArrives DEF e
    <3> QED BY <2>1, <2>2, <3>1, <3>2 DEF Shows
  <2>3. CASE d # c
    <3>1. wire'[d] = wire[d] /\ view'[d] = view[d]
      BY <1>3, <2>3 DEF LiveInv, LiveTypeOK
    <3> QED BY <2>1, <3>1 DEF Shows
  <2> QED BY <2>2, <2>3
<1> QED BY <1>5, <1>6 DEF LiveInv, Arrive

LEMMA ConnectKeeps ==
  ASSUME LiveInv, NEW c \in Clients, Connect(c)
  PROVE  LiveInv'
<1>1. LiveTypeOK'
  BY DEF LiveInv, LiveTypeOK, Connect
<1>2. Promised'
  <2>1. \A d \in subs' : wish'[d] = "none" => d \in subs /\ wish[d] = "none"
    BY DEF LiveInv, LiveTypeOK, Connect
  <2> QED BY <2>1, PromisesStand DEF LiveInv, Connect
<1> QED BY <1>1, <1>2 DEF LiveInv, LiveTypeOK, Connect

LEMMA LoseConnectionKeeps ==
  ASSUME LiveInv, NEW c \in Clients, LoseConnection(c)
  PROVE  LiveInv'
<1>1. <<>> \in Seq(Events)
  OBVIOUS
<1>2. LiveTypeOK'
  BY <1>1 DEF LiveInv, LiveTypeOK, LoseConnection
<1>3. Promised'
  <2> SUFFICES ASSUME NEW d \in subs', wish'[d] = "none", NEW r \in Rows
               PROVE  Shows(d, r)' <=> r \in entry'.cached
    BY DEF Promised
  <2>1. d \in subs /\ d # c
    BY DEF LoseConnection
  <2>2. wish[d] = "none" /\ wire'[d] = wire[d] /\ view'[d] = view[d] /\ entry' = entry
    BY <2>1 DEF LoseConnection, LiveInv, LiveTypeOK
  <2> QED BY <2>1, <2>2 DEF LiveInv, Promised, Shows
<1>4. subs' \cup ghosts' = {} <=> subs \cup ghosts = {}
  BY DEF LoseConnection
<1> QED BY <1>2, <1>3, <1>4 DEF LiveInv, LiveTypeOK, LoseConnection

LEMMA ReselectKeeps ==
  ASSUME LiveInv, NEW c \in Clients, Reselect(c)
  PROVE  LiveInv'
<1>1. <<>> \in Seq(Events) /\ moves' \in 0..MaxMoves
  BY LiveQueryAssumption DEF LiveInv, LiveTypeOK, Reselect, Move, LiveQueryAssumption
<1>2. LiveTypeOK'
  BY <1>1 DEF LiveInv, LiveTypeOK, Reselect
<1>3. Promised'
  <2> SUFFICES ASSUME NEW d \in subs', wish'[d] = "none", NEW r \in Rows
               PROVE  Shows(d, r)' <=> r \in entry'.cached
    BY DEF Promised
  <2>1. d \in subs /\ d # c
    BY DEF Reselect, LiveInv, LiveTypeOK
  <2>2. wish[d] = "none" /\ wire'[d] = wire[d] /\ view'[d] = view[d] /\ entry' = entry
    BY <2>1 DEF Reselect, LiveInv, LiveTypeOK
  <2> QED BY <2>1, <2>2 DEF LiveInv, Promised, Shows
<1> QED BY <1>2, <1>3 DEF LiveInv, LiveTypeOK, Reselect

LEMMA LiveInductive == LiveInv /\ [LiveNext]_lvars => LiveInv'
<1> SUFFICES ASSUME LiveInv, [LiveNext]_lvars PROVE LiveInv'
  OBVIOUS
<1>1. CASE UNCHANGED lvars
  BY <1>1 DEF lvars, LiveInv, LiveTypeOK, Promised, Shows
<1> QED BY <1>1, WriteKeeps, AbortedWriteKeeps, EvaluateKeeps, SubscribeKeeps, UnsubscribeKeeps,
          DisconnectedKeeps, ArriveKeeps, ConnectKeeps, LoseConnectionKeeps, ReselectKeeps
       DEF LiveNext, Serve

LEMMA QuietFromInv == LiveInv => QuietViewsAgree
<1> SUFFICES ASSUME LiveInv, NEW c \in online, wish[c] = "none", wire[c] = <<>>,
                    entry.due => queued = 0, ~missed
             PROVE  view[c] = stored
  BY DEF QuietViewsAgree
<1>1. c \in subs /\ entry.up /\ entry.cached = stored
  BY DEF LiveInv, LiveTypeOK
<1>2. \A r \in Rows : r \in view[c] <=> r \in stored
  BY <1>1, NothingOnTheWire DEF LiveInv, Promised, Shows
<1> QED BY <1>2 DEF LiveInv, LiveTypeOK

(* However writes, evaluations, deltas, subscriptions and lost connections     *)
(* meet, a client that nothing is on its way to shows the rows of the table,   *)
(* unless a batch threw after its write: a write that the entry has not seen   *)
(* has an evaluation queued, and the snapshot and the deltas under way add up  *)
(* to the rows that were sent last.                                            *)
THEOREM QuietViewsAreRight == LiveSpec => []QuietViewsAgree
<1>1. LiveSpec => []LiveInv
  BY LiveInitial, LiveInductive, PTL DEF LiveSpec
<1> QED BY <1>1, QuietFromInv, PTL

(* The engine, the wires and the clients keep their types. *)
THEOREM LiveTypeCorrect == LiveSpec => []LiveTypeOK
<1>1. LiveInv => LiveTypeOK
  BY DEF LiveInv
<1> QED BY <1>1, LiveInitial, LiveInductive, PTL DEF LiveSpec

-----------------------------------------------------------------------------
(* ---- the four services together ---- *)

svars == <<rvars, pvars, lvars, cvars, focus>>

(* A step of all is a step of one, in which the others stand still. *)
LEMMA OneMoves ==
  [ServicesNext]_svars =>
     /\ [RouterNext]_rvars /\ [QueueNext]_pvars
     /\ [LiveNext]_lvars /\ [ChainNext]_cvars
BY DEF ServicesNext, svars

(* What the daemon runs is a behaviour of each of its services. *)
THEOREM ServicesAreServices ==
  ServicesSpec => RouterSpec /\ QueueSpec /\ LiveSpec /\ ChainSpec
<1>1. ServicesInit => RouterInit /\ QueueInit /\ LiveInit /\ ChainInit
  BY DEF ServicesInit
<1> QED BY <1>1, OneMoves, PTL DEF ServicesSpec, svars, RouterSpec, QueueSpec, LiveSpec, ChainSpec

(* The properties that the run of the four services checks, for any number of  *)
(* agents, channels, gates, handoffs, clients, rows and jobs.                  *)
THEOREM ServicesAreSafe ==
  ServicesSpec => /\ [](/\ TripBudget /\ ResetGatesHold /\ DeliveredMeansArrived
                        /\ QuietViewsAgree /\ ChainGoesOn)
                  /\ OpeningsAreServed /\ HandoffLife
BY ServicesAreServices, CapHolds, ResettingGatesHold, OpenedGatesAreServed,
   NothingDeliveredUnsent, HandoffsKeepTheirLife, QuietViewsAreRight, TheChainGoesOn, PTL

(* Every service keeps the types of its state, whatever the others do. *)
THEOREM ServicesTypesCorrect == ServicesSpec => []ServicesTypeOK
<1>1. ServicesTypeOK <=> RouterTypeOK /\ QueueTypeOK /\ LiveTypeOK /\ ChainTypeOK
  BY DEF ServicesTypeOK
<1> QED BY <1>1, ServicesAreServices, RouterTypeCorrect, QueueTypeCorrect, LiveTypeCorrect,
          ChainTypeCorrect, PTL
=============================================================================
