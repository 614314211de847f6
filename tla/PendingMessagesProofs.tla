----------------------- MODULE PendingMessagesProofs -----------------------
(* What TLAPS proves about PendingMessages, for any set of messages and any    *)
(* number of flushes: no row is marked delivered whose message was not written *)
(* to the session, and no row leaves the life of a handoff.                    *)
EXTENDS PendingMessages, WellFoundedInduction, TLAPS

(* A non-empty set of numbers has a least one, so a flush with rows has a      *)
(* first.                                                                      *)
LEMMA LeastNumber ==
  ASSUME NEW T, T \subseteq Nat, T # {}
  PROVE  \E m \in T : \A l \in T : m <= l
<1>1. PICK m \in T : \A l \in T : ~ (<<l, m>> \in OpToRel(<, Nat))
  BY NatLessThanWellFounded, WFMin
<1>2. ASSUME NEW l \in T PROVE m <= l
  <2>1. ~ (<<l, m>> \in OpToRel(<, Nat))
    BY <1>1
  <2>2. ~(l < m)
    BY <2>1 DEF OpToRel
  <2> QED BY <2>2
<1> QED BY <1>2

LEMMA FirstIsListed ==
  ASSUME flush \in [Flushes -> Flushing], NEW f \in Flushes, flush[f].todo # {}
  PROVE  First(f) \in flush[f].todo /\ First(f) \in Handoffs
<1>1. flush[f].todo \subseteq Handoffs
  BY DEF Flushing
<1>2. \E m \in flush[f].todo : \A l \in flush[f].todo : m <= l
  BY <1>1, LeastNumber, HandoffAssumption DEF HandoffAssumption
<1> QED BY <1>1, <1>2 DEF First

(* The message a flush is waiting on was written, or its row is settled        *)
(* already: the list of a flush keeps a deleted row's number from being used   *)
(* again.                                                                      *)
Awaited(x, todo) == x \in todo /\ (status[x] = "pending" => x \in arrived)

QueueInv ==
    /\ QueueTypeOK
    /\ \A m \in Handoffs : status[m] = "pending" => tries[m] < MaxTries
    /\ DeliveredMeansArrived
    /\ \A f \in Flushes : flush[f].pc = "wait" => Awaited(First(f), flush[f].todo)

-----------------------------------------------------------------------------
(* What the statements of the repository do to the rows *)

LEMMA Sweeps ==
  ASSUME status \in [Handoffs -> Statuses]
  PROVE  /\ Swept \in [Handoffs -> Statuses]
         /\ \A m \in Handoffs : /\ Swept[m] = "pending" => status[m] = "pending"
                                /\ Swept[m] = "delivered" => status[m] = "delivered"
BY DEF Swept, Pending, Statuses

LEMMA Tries ==
  ASSUME QueueInv, NEW M \in SUBSET Handoffs
  PROVE  /\ Tried(M) \in [Handoffs -> 0..MaxTries]
         /\ AfterTry(M) \in [Handoffs -> Statuses]
         /\ \A m \in Handoffs :
              /\ AfterTry(M)[m] = "pending" => status[m] = "pending" /\ Tried(M)[m] < MaxTries
              /\ AfterTry(M)[m] = "delivered" => status[m] = "delivered"
<1>1. tries \in [Handoffs -> 0..MaxTries] /\ status \in [Handoffs -> Statuses]
  BY DEF QueueInv, QueueTypeOK
<1>2. \A m \in Pending : tries[m] < MaxTries
  BY DEF QueueInv, Pending
<1> USE HandoffAssumption DEF HandoffAssumption
<1>3. Tried(M) \in [Handoffs -> 0..MaxTries]
  BY <1>1, <1>2 DEF Tried
<1>4. AfterTry(M) \in [Handoffs -> Statuses]
  BY <1>1 DEF AfterTry, Statuses
<1>5. ASSUME NEW m \in Handoffs
      PROVE  /\ AfterTry(M)[m] = "pending" => status[m] = "pending" /\ Tried(M)[m] < MaxTries
             /\ AfterTry(M)[m] = "delivered" => status[m] = "delivered"
  <2>1. tries[m] \in 0..MaxTries /\ status[m] \in Statuses
    BY <1>1
  <2>2. /\ Tried(M)[m] = IF m \in M \cap Pending THEN tries[m] + 1 ELSE tries[m]
        /\ AfterTry(M)[m] = IF m \in M \cap Pending /\ tries[m] + 1 >= MaxTries
                            THEN "failed" ELSE status[m]
    BY DEF Tried, AfterTry
  <2>3. status[m] = "pending" => tries[m] < MaxTries
    BY DEF QueueInv
  <2>4. CASE m \in M \cap Pending
    BY <2>1, <2>2, <2>4 DEF Pending
  <2>5. CASE m \notin M \cap Pending
    BY <2>2, <2>3, <2>5
  <2> QED BY <2>4, <2>5
<1> QED BY <1>3, <1>4, <1>5

-----------------------------------------------------------------------------
(* What a step must show: rows that are pending or delivered afterwards were   *)
(* so before, unless the step accounts for them, and every waiting flush was   *)
(* waiting before or has just written its message.                             *)

Kept ==
    /\ QueueTypeOK'
    /\ \A m \in Handoffs : status'[m] = "pending" => tries'[m] < MaxTries
    /\ \A m \in Handoffs : status'[m] = "delivered" => m \in arrived'

(* The flushes that still wait wait for the same row, which is not pending     *)
(* unless it was, and is no less written.                                      *)
Waits(f) ==
    flush'[f].pc = "wait" =>
        /\ First(f)' \in flush'[f].todo
        /\ status'[First(f)'] = "pending" => First(f)' \in arrived'

LEMMA FromParts ==
  ASSUME Kept, \A f \in Flushes : Waits(f)
  PROVE  QueueInv'
BY DEF Kept, Waits, QueueInv, DeliveredMeansArrived, Awaited

(* A flush the step leaves alone goes on waiting. *)
LEMMA StillWaits ==
  ASSUME QueueInv, NEW f \in Flushes, flush'[f] = flush[f],
         \A m \in Handoffs : status'[m] = "pending" /\ m \in flush[f].todo => status[m] = "pending",
         \A m \in arrived : status'[m] = "pending" => m \in arrived'
  PROVE  Waits(f)
<1> SUFFICES ASSUME flush[f].pc = "wait"
             PROVE  /\ First(f)' \in flush'[f].todo
                    /\ status'[First(f)'] = "pending" => First(f)' \in arrived'
  BY DEF Waits
<1>1. First(f)' = First(f)
  BY DEF First
<1>2. Awaited(First(f), flush[f].todo)
  BY DEF QueueInv
<1>3. First(f) \in Handoffs
  BY <1>2, FirstIsListed DEF QueueInv, QueueTypeOK, Awaited
<1> QED BY <1>1, <1>2, <1>3 DEF Awaited

LEMMA RestIsFlushing ==
  /\ Rest \in Flushing
  /\ Rest.pc = "rest"
  /\ \A T \in SUBSET Handoffs :
        /\ [Rest EXCEPT !.pc = "next", !.todo = T] \in Flushing
        /\ [Rest EXCEPT !.pc = "next", !.todo = T].pc = "next"
  /\ [Rest EXCEPT !.pc = "spawn"] \in Flushing
  /\ [Rest EXCEPT !.pc = "spawn"].pc = "spawn"
BY DEF Rest, Flushing

-----------------------------------------------------------------------------
(* One step per operation *)

LEMMA Unsweptable == Unswept \subseteq Handoffs /\ Pending \subseteq Handoffs
BY DEF Unswept, Pending

LEMMA PostKeeps == ASSUME QueueInv, NEW m \in Handoffs, Post(m) PROVE QueueInv'
<1> DEFINE posted == [Swept EXCEPT ![m] = "pending"]
           marked == [status EXCEPT ![m] = "pending"]
<1>0. QueueTypeOK /\ 0 \in 0..MaxTries /\ 0 < MaxTries
  BY HandoffAssumption DEF QueueInv, HandoffAssumption
<1>1. /\ posted \in [Handoffs -> Statuses] /\ marked \in [Handoffs -> Statuses]
      /\ \A l \in Handoffs \ {m} :
            /\ posted[l] = "pending" \/ marked[l] = "pending" => status[l] = "pending"
            /\ posted[l] = "delivered" \/ marked[l] = "delivered" => status[l] = "delivered"
      /\ posted[m] = "pending" /\ marked[m] = "pending"
  BY <1>0, Sweeps DEF QueueTypeOK, Statuses
<1>2. status' = posted \/ status' = marked
  BY DEF Post
<1> HIDE DEF posted, marked
<1>3. tries' \in [Handoffs -> 0..MaxTries] /\ tries'[m] = 0
      /\ \A l \in Handoffs \ {m} : tries'[l] = tries[l]
  BY <1>0 DEF Post, QueueTypeOK
<1>4. /\ flush' \in [Flushes -> Flushing]
      /\ \A f \in Flushes : flush'[f] = flush[f] \/ flush'[f].pc = "next"
  <2>1. CASE UNCHANGED flush
    BY <1>0, <2>1 DEF QueueTypeOK
  <2>2. ASSUME NEW f \in Background,
               flush' = [flush EXCEPT ![f] = [Rest EXCEPT !.pc = "next",
                                                          !.todo = Unswept \cup {m}]]
        PROVE  /\ flush' \in [Flushes -> Flushing]
               /\ \A g \in Flushes : flush'[g] = flush[g] \/ flush'[g].pc = "next"
    <3>1. Unswept \cup {m} \in SUBSET Handoffs
      BY Unsweptable
    <3>2. f \in Flushes
      BY DEF Flushes
    <3> QED BY <1>0, <2>2, <3>1, <3>2, RestIsFlushing DEF QueueTypeOK
  <2> QED BY <2>1, <2>2 DEF Post
<1>5. QueueTypeOK'
  BY <1>0, <1>1, <1>2, <1>3, <1>4 DEF QueueTypeOK, Post
<1>6. \A l \in Handoffs : status'[l] = "pending" => tries'[l] < MaxTries
  BY <1>0, <1>1, <1>2, <1>3 DEF QueueInv
<1>7. \A l \in Handoffs : status'[l] = "delivered" => l \in arrived'
  BY <1>1, <1>2 DEF QueueInv, DeliveredMeansArrived, Post
<1>8. ASSUME NEW f \in Flushes PROVE Waits(f)
  <2>1. CASE flush'[f].pc = "next"
    BY <2>1 DEF Waits
  <2>2. CASE flush'[f] = flush[f]
    <3>1. m \notin flush[f].todo /\ flush[f].todo \subseteq Handoffs
      BY <1>0 DEF Post, QueueTypeOK, Flushing
    <3>2. \A l \in Handoffs : status'[l] = "pending" /\ l \in flush[f].todo => status[l] = "pending"
      BY <1>1, <1>2, <3>1
    <3> QED BY <2>2, <3>2, StillWaits DEF Post
  <2> QED BY <1>4, <2>1, <2>2
<1> QED BY <1>5, <1>6, <1>7, <1>8, FromParts DEF Kept

LEMMA TimePassesKeeps == ASSUME QueueInv, NEW m \in Handoffs, TimePasses(m) PROVE QueueInv'
<1>1. Kept
  BY DEF TimePasses, Kept, QueueInv, QueueTypeOK, DeliveredMeansArrived
<1>2. \A f \in Flushes : Waits(f)
  BY StillWaits DEF TimePasses
<1> QED BY <1>1, <1>2, FromParts

LEMMA FeedKeeps == ASSUME QueueInv, NEW f \in Flushes, Feed(f) PROVE QueueInv'
<1>0. QueueTypeOK /\ First(f) \in flush[f].todo /\ First(f) \in Handoffs
  BY FirstIsListed DEF Feed, QueueInv, QueueTypeOK
<1>1. flush' = [flush EXCEPT ![f] = [flush[f] EXCEPT !.pc = "wait"]]
  BY DEF Feed
<1>2. [flush[f] EXCEPT !.pc = "wait"] \in Flushing
      /\ [flush[f] EXCEPT !.pc = "wait"].todo = flush[f].todo
  BY <1>0 DEF QueueTypeOK, Flushing
<1>3. flush' \in [Flushes -> Flushing] /\ flush'[f].todo = flush[f].todo
      /\ \A g \in Flushes \ {f} : flush'[g] = flush[g]
  BY <1>0, <1>1, <1>2 DEF QueueTypeOK
<1>4. Kept
  BY <1>0, <1>3 DEF Feed, Kept, QueueInv, QueueTypeOK, DeliveredMeansArrived
<1>5. ASSUME NEW g \in Flushes PROVE Waits(g)
  <2>1. CASE g = f
    <3>1. First(f)' = First(f)
      BY <1>3 DEF First
    <3> QED BY <1>0, <1>3, <2>1, <3>1 DEF Waits, Feed
  <2>2. CASE g # f
    BY <1>3, <2>2, StillWaits DEF Feed
  <2> QED BY <2>1, <2>2
<1> QED BY <1>4, <1>5, FromParts

(* Going on to the next row. *)
LEMMA DoneIsNext ==
  ASSUME QueueTypeOK, NEW f \in Flushes, flush' = Done(f)
  PROVE  /\ flush' \in [Flushes -> Flushing]
         /\ flush'[f].pc = "next"
         /\ \A g \in Flushes \ {f} : flush'[g] = flush[g]
<1> DEFINE x == [flush[f] EXCEPT !.pc = "next", !.todo = flush[f].todo \ {First(f)}]
<1>1. x \in Flushing /\ x.pc = "next"
  BY DEF QueueTypeOK, Flushing
<1>2. flush'[f] = x /\ flush' \in [Flushes -> Flushing]
  BY <1>1 DEF Done, QueueTypeOK
<1>3. \A g \in Flushes \ {f} : flush'[g] = flush[g]
  BY DEF Done, QueueTypeOK
<1> QED BY <1>1, <1>2, <1>3

LEMMA FedKeeps == ASSUME QueueInv, NEW f \in Flushes, Fed(f) PROVE QueueInv'
<1>0. QueueTypeOK /\ Awaited(First(f), flush[f].todo)
  BY DEF Fed, QueueInv
<1>1. First(f) \in Handoffs
  BY <1>0 DEF QueueTypeOK, Flushing, Awaited
<1>2. /\ flush' \in [Flushes -> Flushing] /\ flush'[f].pc = "next"
      /\ \A g \in Flushes \ {f} : flush'[g] = flush[g]
  BY <1>0, DoneIsNext DEF Fed
<1>3. /\ status' \in [Handoffs -> Statuses]
      /\ \A l \in Handoffs : status'[l] = "pending" => status[l] = "pending"
      /\ \A l \in Handoffs : status'[l] = "delivered" =>
            status[l] = "delivered" \/ (l = First(f) /\ status[l] = "pending")
  BY <1>0, <1>1 DEF Fed, MarkDelivered, Pending, QueueTypeOK, Statuses
<1>4. Kept
  BY <1>0, <1>2, <1>3 DEF Fed, Kept, QueueInv, QueueTypeOK, DeliveredMeansArrived, Awaited
<1>5. ASSUME NEW g \in Flushes PROVE Waits(g)
  <2>1. CASE g = f
    BY <1>2, <2>1 DEF Waits
  <2>2. CASE g # f
    BY <1>2, <1>3, <2>2, StillWaits DEF Fed
  <2> QED BY <2>1, <2>2
<1> QED BY <1>4, <1>5, FromParts

LEMMA NotFedKeeps == ASSUME QueueInv, NEW f \in Flushes, NotFed(f) PROVE QueueInv'
<1>0. QueueTypeOK
  BY DEF QueueInv
<1>1. First(f) \in Handoffs
  <2>1. CASE flush[f].pc = "next" /\ flush[f].todo # {}
    BY <1>0, <2>1, FirstIsListed DEF QueueTypeOK
  <2>2. CASE flush[f].pc = "wait"
    BY <1>0, <2>2 DEF QueueInv, QueueTypeOK, Flushing, Awaited
  <2> QED BY <2>1, <2>2 DEF NotFed
<1>2. /\ flush' \in [Flushes -> Flushing] /\ flush'[f].pc = "next"
      /\ \A g \in Flushes \ {f} : flush'[g] = flush[g]
  BY <1>0, DoneIsNext DEF NotFed
<1>3. /\ status' \in [Handoffs -> Statuses] /\ tries' \in [Handoffs -> 0..MaxTries]
      /\ \A l \in Handoffs :
            /\ status'[l] = "pending" => status[l] = "pending" /\ tries'[l] < MaxTries
            /\ status'[l] = "delivered" => status[l] = "delivered"
  <2>1. {First(f)} \in SUBSET Handoffs
    BY <1>1
  <2> QED BY <2>1, Tries DEF NotFed, MarkAttemptFailed
<1>4. Kept
  BY <1>0, <1>2, <1>3 DEF NotFed, Kept, QueueInv, QueueTypeOK, DeliveredMeansArrived
<1>5. ASSUME NEW g \in Flushes PROVE Waits(g)
  <2>1. CASE g = f
    BY <1>2, <2>1 DEF Waits
  <2>2. CASE g # f
    BY <1>2, <1>3, <2>2, StillWaits DEF NotFed
  <2> QED BY <2>1, <2>2
<1> QED BY <1>4, <1>5, FromParts

-----------------------------------------------------------------------------
(* The steps that start or end flushes, or none: rows pending or delivered     *)
(* afterwards were so before, and no flush begins to wait.                     *)
LEMMA Settling ==
  ASSUME QueueInv, tries' = tries, arrived' = arrived,
         stale' = stale, seen' \in SUBSET Handoffs, peer' \in BOOLEAN,
         phase' \in {"in_progress", "blocked", "closing", "done"},
         status' \in [Handoffs -> Statuses],
         \A m \in Handoffs : /\ status'[m] = "pending" => status[m] = "pending"
                             /\ status'[m] = "delivered" => status[m] = "delivered",
         flush' \in [Flushes -> Flushing],
         \A f \in Flushes : flush'[f] = flush[f] \/ flush'[f].pc # "wait"
  PROVE  QueueInv'
<1>1. Kept
  BY DEF Kept, QueueInv, QueueTypeOK, DeliveredMeansArrived
<1>2. ASSUME NEW f \in Flushes PROVE Waits(f)
  <2>1. CASE flush'[f].pc # "wait"
    BY <2>1 DEF Waits
  <2>2. CASE flush'[f] = flush[f]
    <3>1. flush[f].todo \subseteq Handoffs
      BY DEF QueueInv, QueueTypeOK, Flushing
    <3> QED BY <2>2, <3>1, StillWaits
  <2> QED BY <2>1, <2>2
<1> QED BY <1>1, <1>2, FromParts

LEMMA OneFlush ==
  ASSUME QueueTypeOK, NEW f \in Flushes, NEW x \in Flushing, x.pc # "wait",
         flush' = [flush EXCEPT ![f] = x]
  PROVE  /\ flush' \in [Flushes -> Flushing]
         /\ \A g \in Flushes : flush'[g] = flush[g] \/ flush'[g].pc # "wait"
BY DEF QueueTypeOK

LEMMA TickIsFlush == Tick \in Flushes /\ \A f \in Background : f \in Flushes
BY DEF Flushes

LEMMA FlushedKeeps == ASSUME QueueInv, NEW f \in Flushes, Flushed(f) PROVE QueueInv'
<1>0. QueueTypeOK
  BY DEF QueueInv
<1>1. /\ flush' \in [Flushes -> Flushing]
      /\ \A g \in Flushes : flush'[g] = flush[g] \/ flush'[g].pc # "wait"
  BY <1>0, OneFlush, RestIsFlushing DEF Flushed
<1> QED BY <1>0, <1>1, Settling DEF Flushed, QueueTypeOK

LEMMA TickBeginsKeeps == ASSUME QueueInv, TickBegins PROVE QueueInv'
<1>0. QueueTypeOK
  BY DEF QueueInv
<1> USE TickIsFlush
<1>1. CASE /\ phase = "closing"
           /\ status' = [m \in Handoffs |-> IF m \in Unswept THEN "failed" ELSE Swept[m]]
           /\ phase' = "done"
           /\ UNCHANGED <<flush, seen>>
  <2>1. /\ status' \in [Handoffs -> Statuses]
        /\ \A m \in Handoffs : /\ status'[m] = "pending" => status[m] = "pending"
                               /\ status'[m] = "delivered" => status[m] = "delivered"
    BY <1>0, <1>1, Sweeps DEF QueueTypeOK, Statuses
  <2> QED BY <1>0, <1>1, <2>1, Settling DEF TickBegins, QueueTypeOK
<1>2. CASE status' = Swept /\ Block /\ UNCHANGED <<flush, seen>>
  BY <1>0, <1>2, Sweeps, Settling DEF TickBegins, QueueTypeOK, Block
<1>3. CASE /\ seen' = Unswept
           /\ flush' = [flush EXCEPT ![Tick] =
                IF peer THEN [pc |-> "next", todo |-> Unswept, again |-> TRUE]
                        ELSE [Rest EXCEPT !.pc = "spawn"]]
           /\ UNCHANGED <<status, phase>>
  <2> DEFINE x == IF peer THEN [pc |-> "next", todo |-> Unswept, again |-> TRUE]
                          ELSE [Rest EXCEPT !.pc = "spawn"]
  <2>1. x \in Flushing /\ x.pc # "wait"
    BY Unsweptable, RestIsFlushing DEF Flushing
  <2>2. flush' = [flush EXCEPT ![Tick] = x]
    BY <1>3
  <2> HIDE DEF x
  <2>3. /\ flush' \in [Flushes -> Flushing]
        /\ \A g \in Flushes : flush'[g] = flush[g] \/ flush'[g].pc # "wait"
    BY <1>0, <2>1, <2>2, OneFlush
  <2> QED BY <1>0, <1>3, <2>3, Unsweptable, Settling DEF TickBegins, QueueTypeOK
<1> QED BY <1>1, <1>2, <1>3 DEF TickBegins

LEMMA SpawnedKeeps == ASSUME QueueInv, Spawned PROVE QueueInv'
<1> DEFINE fed == [Rest EXCEPT !.pc = "next", !.todo = Unswept]
<1>0. QueueTypeOK
  BY DEF QueueInv
<1>1. fed \in Flushing /\ fed.pc # "wait"
  BY Unsweptable, RestIsFlushing
<1>2. \/ \E f \in Background : flush' = [flush EXCEPT ![f] = fed, ![Tick] = fed]
      \/ flush' = [flush EXCEPT ![Tick] = fed]
  BY DEF Spawned
<1> HIDE DEF fed
<1>3. /\ flush' \in [Flushes -> Flushing]
      /\ \A g \in Flushes : flush'[g] = flush[g] \/ flush'[g].pc # "wait"
  BY <1>0, <1>1, <1>2, TickIsFlush DEF QueueTypeOK
<1> QED BY <1>0, <1>3, Sweeps, Settling DEF Spawned, QueueTypeOK

LEMMA TickRests ==
  ASSUME QueueTypeOK, flush' = [flush EXCEPT ![Tick] = Rest]
  PROVE  /\ flush' \in [Flushes -> Flushing]
         /\ \A g \in Flushes : flush'[g] = flush[g] \/ flush'[g].pc # "wait"
BY TickIsFlush, RestIsFlushing, OneFlush

LEMMA NotSpawnedKeeps == ASSUME QueueInv, NotSpawned PROVE QueueInv'
<1>0. QueueTypeOK /\ seen \in SUBSET Handoffs
  BY DEF QueueInv, QueueTypeOK
<1>1. /\ status' \in [Handoffs -> Statuses] /\ tries' \in [Handoffs -> 0..MaxTries]
      /\ \A l \in Handoffs :
            /\ status'[l] = "pending" => status[l] = "pending" /\ tries'[l] < MaxTries
            /\ status'[l] = "delivered" => status[l] = "delivered"
  BY <1>0, Tries DEF NotSpawned, MarkAttemptFailed
<1>2. /\ flush' \in [Flushes -> Flushing]
      /\ \A g \in Flushes : flush'[g] = flush[g] \/ flush'[g].pc # "wait"
  BY <1>0, TickRests DEF NotSpawned
<1>3. phase' \in {"in_progress", "blocked", "closing", "done"}
  BY <1>0 DEF NotSpawned, Block, QueueTypeOK
<1>4. Kept
  BY <1>0, <1>1, <1>2, <1>3
     DEF NotSpawned, Kept, QueueInv, QueueTypeOK, DeliveredMeansArrived
<1>5. ASSUME NEW g \in Flushes PROVE Waits(g)
  <2>1. CASE flush'[g].pc # "wait"
    BY <2>1 DEF Waits
  <2>2. CASE flush'[g] = flush[g]
    BY <1>1, <2>2, StillWaits DEF NotSpawned
  <2> QED BY <1>2, <2>1, <2>2
<1> QED BY <1>4, <1>5, FromParts

LEMMA TickEndsKeeps == ASSUME QueueInv, TickEnds PROVE QueueInv'
<1>0. QueueTypeOK
  BY DEF QueueInv
<1>1. CASE /\ status' = Swept
           /\ flush' = [flush EXCEPT ![Tick] = [Rest EXCEPT !.pc = "next", !.todo = Unswept]]
           /\ UNCHANGED <<phase, seen>>
  <2>1. /\ flush' \in [Flushes -> Flushing]
        /\ \A g \in Flushes : flush'[g] = flush[g] \/ flush'[g].pc # "wait"
    BY <1>0, <1>1, Unsweptable, TickIsFlush, RestIsFlushing, OneFlush
  <2> QED BY <1>0, <1>1, <2>1, Sweeps, Settling DEF TickEnds, QueueTypeOK
<1>2. CASE /\ IF \E m \in seen : status[m] = "failed" THEN Block ELSE UNCHANGED phase
           /\ flush' = [flush EXCEPT ![Tick] = Rest] /\ seen' = {}
           /\ UNCHANGED status
  <2>1. phase' \in {"in_progress", "blocked", "closing", "done"}
    BY <1>0, <1>2 DEF Block, QueueTypeOK
  <2> QED BY <1>0, <1>2, <2>1, TickRests, Settling DEF TickEnds, QueueTypeOK
<1> QED BY <1>1, <1>2 DEF TickEnds

LEMMA RestartKeeps == ASSUME QueueInv, Restart PROVE QueueInv'
<1>0. QueueTypeOK
  BY DEF QueueInv
<1>1. /\ flush' \in [Flushes -> Flushing]
      /\ \A g \in Flushes : flush'[g].pc # "wait"
  BY RestIsFlushing DEF Restart
<1> QED BY <1>0, <1>1, Settling DEF Restart, QueueTypeOK

LEMMA RecoverRunKeeps == ASSUME QueueInv, RecoverRun PROVE QueueInv'
<1>0. QueueTypeOK
  BY DEF QueueInv
<1>1. /\ status' \in [Handoffs -> Statuses]
      /\ \A m \in Handoffs : /\ status'[m] # "delivered"
                             /\ status'[m] = "pending" => m \in Pending
  BY DEF RecoverRun, Statuses
<1>2. Kept
  BY <1>0, <1>1 DEF RecoverRun, Kept, QueueInv, QueueTypeOK, Pending
<1>3. \A m \in arrived : status'[m] = "pending" => m \in arrived'
  BY <1>0, <1>1 DEF RecoverRun, QueueTypeOK
<1>4. ASSUME NEW f \in Flushes PROVE Waits(f)
  BY <1>1, <1>3, StillWaits DEF RecoverRun, Pending
<1> QED BY <1>2, <1>4, FromParts

LEMMA OthersKeep ==
  ASSUME QueueInv, PeerStops \/ Resume \/ TaskCloses \/ UNCHANGED pvars
  PROVE  QueueInv'
<1>0. QueueTypeOK
  BY DEF QueueInv
<1>1. CASE PeerStops
  BY <1>0, <1>1, Settling DEF PeerStops, QueueTypeOK
<1>2. CASE Resume
  BY <1>0, <1>2, Settling DEF Resume, QueueTypeOK
<1>3. CASE TaskCloses
  BY <1>0, <1>3, Settling DEF TaskCloses, QueueTypeOK
<1>4. CASE UNCHANGED pvars
  BY <1>0, <1>4, Settling DEF pvars, QueueTypeOK
<1> QED BY <1>1, <1>2, <1>3, <1>4

-----------------------------------------------------------------------------

LEMMA QueueStarts == QueueInit => QueueInv
<1> SUFFICES ASSUME QueueInit PROVE QueueInv
  OBVIOUS
<1>0. 0 \in 0..MaxTries /\ 0 < MaxTries
  BY HandoffAssumption DEF HandoffAssumption
<1>1. Rest \in Flushing
  BY RestIsFlushing
<1>2. QueueTypeOK
  BY <1>0, <1>1 DEF QueueInit, QueueTypeOK, Statuses
<1> QED BY <1>0, <1>2, RestIsFlushing DEF QueueInit, QueueInv, DeliveredMeansArrived

LEMMA QueueKeeps == QueueInv /\ [QueueNext]_pvars => QueueInv'
<1> SUFFICES ASSUME QueueInv, [QueueNext]_pvars PROVE QueueInv'
  OBVIOUS
<1>1. ASSUME NEW m \in Handoffs, Post(m) \/ TimePasses(m) PROVE QueueInv'
  BY <1>1, PostKeeps, TimePassesKeeps
<1>2. ASSUME NEW f \in Flushes, Flusher(f) PROVE QueueInv'
  BY <1>2, FeedKeeps, FedKeeps, NotFedKeeps, FlushedKeeps DEF Flusher
<1>3. CASE Repair
  BY <1>3, TickBeginsKeeps, SpawnedKeeps, NotSpawnedKeeps, TickEndsKeeps DEF Repair
<1>4. CASE PeerStops \/ Restart \/ Resume \/ RecoverRun \/ TaskCloses \/ UNCHANGED pvars
  BY <1>4, RestartKeeps, RecoverRunKeeps, OthersKeep
<1> QED BY <1>1, <1>2, <1>3, <1>4 DEF QueueNext

(* No handoff is reported delivered that never reached the session of its      *)
(* agent, however many flushes inject it side by side, whatever dies between   *)
(* injection and mark, and however often the run is recovered.                 *)
THEOREM NothingDeliveredUnsent == QueueSpec => []DeliveredMeansArrived
<1>1. QueueInv => DeliveredMeansArrived
  BY DEF QueueInv
<1> QED BY <1>1, QueueStarts, QueueKeeps, PTL DEF QueueSpec

(* Rows and flushes keep their types; in particular no row is tried more than  *)
(* MaxTries times, although flushes that run at once count on the same row.    *)
THEOREM QueueTypeCorrect == QueueSpec => []QueueTypeOK
<1>1. QueueInv => QueueTypeOK
  BY DEF QueueInv
<1> QED BY <1>1, QueueStarts, QueueKeeps, PTL DEF QueueSpec

-----------------------------------------------------------------------------
(* ---- the life of a handoff ---- *)

Lives == \A m \in Handoffs : status'[m] # status[m] => LivesOn(m)

LEMMA SweptLives ==
  ASSUME NEW m \in Handoffs
  PROVE  Swept[m] # status[m] => status[m] = "pending" /\ Swept[m] = "expired" /\ m \in stale
BY DEF Swept, Pending

LEMMA PostLives == ASSUME QueueInv, NEW m \in Handoffs, Post(m) PROVE Lives
<1> SUFFICES ASSUME NEW l \in Handoffs, status'[l] # status[l] PROVE LivesOn(l)
  BY DEF Lives
<1>1. Swept \in [Handoffs -> Statuses] /\ status \in [Handoffs -> Statuses]
      /\ tries \in [Handoffs -> 0..MaxTries]
  BY Sweeps DEF QueueInv, QueueTypeOK
<1>2. status' = [Swept EXCEPT ![m] = "pending"] \/ status' = [status EXCEPT ![m] = "pending"]
  BY DEF Post
<1>3. CASE l = m
  <2>1. status[l] = "none" /\ status'[l] = "pending" /\ tries'[l] = 0
    BY <1>1, <1>2, <1>3 DEF Post
  <2> QED BY <2>1 DEF LivesOn
<1>4. CASE l # m
  <2>1. status'[l] = Swept[l]
    BY <1>1, <1>2, <1>4
  <2> QED BY <2>1, SweptLives DEF LivesOn
<1> QED BY <1>3, <1>4

(* An attempt fails pending rows only, and only the last of them.              *)
LEMMA TryLives ==
  ASSUME QueueInv, NEW M \in SUBSET Handoffs, MarkAttemptFailed(M)
  PROVE  Lives
<1> SUFFICES ASSUME NEW m \in Handoffs, status'[m] # status[m] PROVE LivesOn(m)
  BY DEF Lives
<1>1. /\ status'[m] = IF m \in M \cap Pending /\ tries[m] + 1 >= MaxTries
                      THEN "failed" ELSE status[m]
      /\ tries'[m] = IF m \in M \cap Pending THEN tries[m] + 1 ELSE tries[m]
  BY DEF MarkAttemptFailed, AfterTry, Tried
<1>2. status[m] = "pending" /\ status'[m] = "failed" /\ tries[m] + 1 >= MaxTries
      /\ tries'[m] = tries[m] + 1
  BY <1>1 DEF Pending
<1>3. tries[m] \in 0..MaxTries /\ tries[m] < MaxTries
  BY <1>2 DEF QueueInv, QueueTypeOK
<1>4. tries'[m] = MaxTries
  BY <1>2, <1>3, HandoffAssumption DEF HandoffAssumption
<1> QED BY <1>2, <1>4 DEF LivesOn

LEMMA FedLives == ASSUME QueueInv, NEW f \in Flushes, Fed(f) PROVE Lives
<1> SUFFICES ASSUME NEW m \in Handoffs, status'[m] # status[m] PROVE LivesOn(m)
  BY DEF Lives
<1>1. status[m] = "pending" /\ status'[m] = "delivered"
  BY DEF Fed, MarkDelivered, Pending, QueueInv, QueueTypeOK
<1> QED BY <1>1 DEF LivesOn

LEMMA NotFedLives == ASSUME QueueInv, NEW f \in Flushes, NotFed(f) PROVE Lives
<1>1. First(f) \in Handoffs
  <2>1. CASE flush[f].pc = "next" /\ flush[f].todo # {}
    BY <2>1, FirstIsListed DEF QueueInv, QueueTypeOK
  <2>2. CASE flush[f].pc = "wait"
    BY <2>2 DEF QueueInv, QueueTypeOK, Flushing, Awaited
  <2> QED BY <2>1, <2>2 DEF NotFed
<1>2. {First(f)} \in SUBSET Handoffs /\ MarkAttemptFailed({First(f)})
  BY <1>1 DEF NotFed
<1> QED BY <1>2, TryLives

LEMMA TickBeginsLives == ASSUME QueueInv, TickBegins PROVE Lives
<1> SUFFICES ASSUME NEW m \in Handoffs, status'[m] # status[m] PROVE LivesOn(m)
  BY DEF Lives
<1>1. CASE /\ phase = "closing"
           /\ status' = [l \in Handoffs |-> IF l \in Unswept THEN "failed" ELSE Swept[l]]
  <2>1. CASE m \in Unswept
    BY <1>1, <2>1 DEF Unswept, Pending, LivesOn
  <2>2. CASE m \notin Unswept
    BY <1>1, <2>2, SweptLives DEF LivesOn
  <2> QED BY <2>1, <2>2
<1>2. CASE status' = Swept
  BY <1>2, SweptLives DEF LivesOn
<1> QED BY <1>1, <1>2 DEF TickBegins

LEMMA RecoverRunLives == ASSUME QueueInv, RecoverRun PROVE Lives
<1> SUFFICES ASSUME NEW m \in Handoffs, status'[m] # status[m] PROVE LivesOn(m)
  BY DEF Lives
<1>1. status[m] # "pending" /\ status'[m] = "none" /\ status[m] \in Statuses
  BY DEF RecoverRun, Pending, QueueInv, QueueTypeOK
<1>2. \A l \in Handoffs : status'[l] \in {"none", "pending"}
  BY DEF RecoverRun
<1> QED BY <1>1, <1>2 DEF LivesOn, Statuses

LEMMA QueueLives == QueueInv /\ [QueueNext]_pvars => [Lives]_pvars
<1> SUFFICES ASSUME QueueInv, QueueNext PROVE Lives
  BY DEF pvars
<1>1. ASSUME status' = status PROVE Lives
  BY <1>1 DEF Lives
<1>2. ASSUME NEW m \in Handoffs, Post(m) \/ TimePasses(m) PROVE Lives
  BY <1>1, <1>2, PostLives DEF TimePasses
<1>3. ASSUME NEW f \in Flushes, Flusher(f) PROVE Lives
  BY <1>1, <1>3, FedLives, NotFedLives DEF Flusher, Feed, Flushed
<1>4. CASE TickBegins
  BY <1>4, TickBeginsLives
<1>5. CASE Spawned
  BY <1>5, SweptLives DEF Spawned, Lives, LivesOn
<1>6. CASE NotSpawned
  BY <1>6, TryLives DEF NotSpawned, QueueInv, QueueTypeOK
<1>7. CASE TickEnds
  BY <1>7, <1>1, SweptLives DEF TickEnds, Lives, LivesOn
<1>8. CASE PeerStops \/ Restart \/ Resume \/ TaskCloses
  BY <1>1, <1>8 DEF PeerStops, Restart, Resume, TaskCloses
<1>9. CASE RecoverRun
  BY <1>9, RecoverRunLives
<1> QED BY <1>2, <1>3, <1>4, <1>5, <1>6, <1>7, <1>8, <1>9 DEF QueueNext, Repair

(* A handoff keeps to its life for any number of messages, flushes and         *)
(* attempts: a late mark of one flush never undoes what another settled.       *)
THEOREM HandoffsKeepTheirLife == QueueSpec => HandoffLife
BY QueueStarts, QueueKeeps, QueueLives, PTL DEF QueueSpec, HandoffLife, Lives
=============================================================================
