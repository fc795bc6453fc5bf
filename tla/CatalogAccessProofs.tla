------------------------ MODULE CatalogAccessProofs ------------------------
(***************************************************************************)
(* What CatalogAccess keeps true for any number of generations,            *)
(* collections, replicas and handlers and for pages of any size, and that  *)
(* Readiness stays within it.                                              *)
(***************************************************************************)
EXTENDS Readiness, FiniteSetTheorems, TLAPS

USE AccessAssumption

\* The constants are numbers, and positive ones.
LEMMA Natural ==
  /\ \A x \in Point \cup {0} : x \in Nat
  /\ \A x \in Limits \cup {0} : x \in Nat
OBVIOUS

\* The bounds are numbers, and ids and names come after zero, where a listing begins.
LEMMA Numbers ==
  /\ \A x \in Point : x \in Nat /\ x > 0 /\ Owner[x] \in Nat /\ Owner[x] > 0
  /\ Indexes \in Nat /\ 1 \in 0 .. Indexes /\ MaxResults \in Nat /\ PageSize \in Nat
<1>1. /\ Indexes \in Nat \ {0} /\ MaxResults \in Nat /\ PageSize \in Nat
      /\ \A x \in Point : x \in Nat \ {0} /\ Owner[x] \in Nat \ {0}
  OBVIOUS
<1> QED
  BY <1>1

\* The sets of points that are counted are finite.
LEMMA Counted ==
  ASSUME NEW S, S \subseteq Point, NEW T, T \subseteq S
  PROVE  /\ Cardinality(S) \in Nat /\ Cardinality(T) \in Nat
         /\ Cardinality(T) <= Cardinality(S)
<1>1. IsFiniteSet(S) /\ IsFiniteSet(T)
  BY FS_Subset
<1> QED
  BY <1>1, FS_Subset, FS_CardinalityType

\* The first points of a set stand before the rest of it.
LEMMA FirstPointsPrecede ==
  ASSUME NEW S, S \subseteq Point, NEW n \in Int,
         NEW p \in FirstPoints(S, n), NEW q \in S \ FirstPoints(S, n)
  PROVE  p < q
<1> DEFINE Before(x) == {y \in S : y < x}
<1>1. p \in S /\ p \in Nat /\ q \in Nat /\ \A x \in S : x \in Point /\ x \in Nat
  BY DEF FirstPoints
<1>2. Cardinality(Before(p)) < n /\ ~(Cardinality(Before(q)) < n)
  BY DEF FirstPoints
<1>3. SUFFICES ASSUME q <= p PROVE FALSE
  BY <1>1
<1>4. Before(p) \subseteq Point /\ Before(q) \subseteq Before(p)
  <2>1. ASSUME NEW x \in S, x < q PROVE x < p
    BY <2>1, <1>1, <1>3
  <2> QED
    BY <2>1, <1>1
<1>5. /\ Cardinality(Before(p)) \in Nat /\ Cardinality(Before(q)) \in Nat
      /\ Cardinality(Before(q)) <= Cardinality(Before(p))
  <2> HIDE DEF Before
  <2> QED BY <1>4, Counted
<1> QED
  <2> HIDE DEF Before
  <2> QED BY <1>2, <1>5

\* The records of a page stand before the rest of the listing.
LEMMA FirstRecordsPrecede ==
  ASSUME NEW S, S \subseteq Point, NEW n \in Int,
         NEW p \in FirstRecords(S, n), NEW q \in S \ FirstRecords(S, n)
  PROVE  Precedes(p, q)
<1> DEFINE Before(x) == {y \in S : Precedes(y, x)}
<1>1. /\ p \in S /\ p \in Point /\ q \in Point /\ p # q
      /\ \A x \in Point : x \in Nat /\ Owner[x] \in Nat
  BY DEF FirstRecords
<1>2. Cardinality(Before(p)) < n /\ ~(Cardinality(Before(q)) < n)
  BY DEF FirstRecords
<1>3. SUFFICES ASSUME ~Precedes(p, q) PROVE FALSE
  OBVIOUS
<1>4. Precedes(q, p)
  BY <1>1, <1>3 DEF Precedes
<1>5. Before(p) \subseteq Point /\ Before(q) \subseteq Before(p)
  <2>1. ASSUME NEW x \in S, Precedes(x, q) PROVE Precedes(x, p)
    BY <2>1, <1>1, <1>4 DEF Precedes
  <2> QED
    BY <2>1
<1>6. /\ Cardinality(Before(p)) \in Nat /\ Cardinality(Before(q)) \in Nat
      /\ Cardinality(Before(q)) <= Cardinality(Before(p))
  <2> HIDE DEF Before
  <2> QED BY <1>5, Counted
<1> QED
  <2> HIDE DEF Before
  <2> QED BY <1>2, <1>6

\* Init chooses any state of the collection; nobody is at work.
LEMMA InitInvariant ==
  ASSUME Init
  PROVE  IInv
<1>1. Idle \in Request
  BY DEF Idle, Request
<1>2. TypeOK
  <2>1. indexes \subseteq 1 .. Indexes
    BY DEF Init
  <2> QED
    BY <1>1, <2>1 DEF Init, TypeOK, Label
<1>3. LockIsHeld /\ FlagIsTrue /\ LateCallsFit /\ OneActive(Active)
  BY DEF Init, LockIsHeld, FlagIsTrue, LateCallsFit, Locking
<1>4. ASSUME NEW h \in Handler
      PROVE  CreationFits(h) /\ RequestFits(h) /\ ListingFits(h)
  BY <1>4 DEF Init, CreationFits, RequestFits, ListingFits, Reading, Idle
<1> QED
  BY <1>2, <1>3, <1>4 DEF IInv

----------------------------------------------------------------------------
\* What the collection may become in a step that is not a write.
Grows ==
  /\ records' = records
  /\ collection' \in {"none", "compatible", "incompatible"}
  /\ indexes' \subseteq 1 .. Indexes
  /\ late' \subseteq 0 .. Indexes
  /\ collection = "compatible" => collection' = "compatible"
  /\ collection # "incompatible" => collection' # "incompatible"
  /\ indexes \subseteq indexes'
  /\ LateCallsFit'

\* A step of one handler.
StepOf(h) ==
  /\ initialized' \in [Replica -> BOOLEAN]
  /\ lock' \in [Replica -> Handler \cup {None}]
  /\ pc' \in [Handler -> Label] /\ req' \in [Handler -> Request]
  /\ steady' \in [Handler -> SUBSET Point] /\ once' \in [Handler -> SUBSET Point]
  /\ \A g \in Handler \ {h} :
       pc'[g] = pc[g] /\ req'[g] = req[g] /\ steady'[g] = steady[g] /\ once'[g] = once[g]

\* What has been prepared stays prepared.
LEMMA GrowsKeeps ==
  ASSUME IInv, Grows
  PROVE  (Prepared => Prepared') /\ Active' = Active
BY DEF IInv, TypeOK, Grows, Prepared, Active

\* A creation call has its effect, or leaves it to later.
LEMMA CallsGrow ==
  ASSUME IInv, NEW call \in 0 .. Indexes, UNCHANGED records,
         call = 0 => collection # "incompatible",
         call # 0 => collection = "compatible",
         Applies(call) \/ Unanswered(call)
  PROVE  Grows
<1>1. /\ collection \in {"none", "compatible", "incompatible"}
      /\ indexes \subseteq 1 .. Indexes /\ late \subseteq 0 .. Indexes
      /\ LateCallsFit /\ Indexes \in Nat
  BY DEF IInv, TypeOK
<1>2. CASE Applies(call)
  BY <1>1, <1>2 DEF Applies, Grows, LateCallsFit
<1>3. CASE UNCHANGED <<collection, indexes, late>>
  BY <1>1, <1>3 DEF Grows, LateCallsFit
<1>4. CASE /\ ~Exists(call) /\ late' = late \cup {call}
           /\ UNCHANGED <<collection, indexes>>
  BY <1>1, <1>4 DEF Grows, LateCallsFit, Exists
<1> QED
  BY <1>2, <1>3, <1>4 DEF Unanswered

\* A step that leaves the collection alone.
LEMMA StoreGrows ==
  ASSUME IInv, UNCHANGED store
  PROVE  Grows
BY DEF IInv, TypeOK, Grows, store, LateCallsFit

\* One handler's step preserves the invariant if it does so for that handler.
LEMMA StepInvariant ==
  ASSUME IInv, NEW h \in Handler, Grows, StepOf(h), LockIsHeld', FlagIsTrue',
         CreationFits(h)', RequestFits(h)', ListingFits(h)'
  PROVE  IInv'
<1>1. Active' = Active
  BY GrowsKeeps
<1>2. TypeOK'
  BY DEF IInv, TypeOK, Grows, StepOf
<1>3. LateCallsFit' /\ OneActive(Active)'
  BY <1>1 DEF IInv, Grows, OneActive
<1>4. ASSUME NEW g \in Handler \ {h}
      PROVE  CreationFits(g)' /\ RequestFits(g)' /\ ListingFits(g)'
  <2>1. pc'[g] = pc[g] /\ req'[g] = req[g] /\ steady'[g] = steady[g] /\ once'[g] = once[g]
    BY <1>4 DEF StepOf
  <2>2. CreationFits(g) /\ RequestFits(g) /\ ListingFits(g)
    BY DEF IInv
  <2>3. CreationFits(g)'
    BY <2>1, <2>2 DEF CreationFits, Grows
  <2>4. RequestFits(g)'
    BY <2>1, <2>2 DEF RequestFits
  <2>5. ListingFits(g)'
    BY <2>1, <2>2, <1>1 DEF ListingFits, Reading
  <2> QED
    BY <2>3, <2>4, <2>5
<1> QED
  BY <1>2, <1>3, <1>4 DEF IInv

----------------------------------------------------------------------------
(* The steps of a handler.                                                 *)

\* What is known of a handler and its request.
LEMMA Known ==
  ASSUME IInv, NEW h \in Handler
  PROVE  /\ pc[h] \in Label /\ req[h] \in Request /\ Home[h] \in Replica
         /\ steady[h] \subseteq Point /\ once[h] \subseteq Point
         /\ CreationFits(h) /\ RequestFits(h) /\ ListingFits(h)
         /\ Idle \in Request
BY DEF IInv, TypeOK, Idle, Request

\* A request that fails leaves the lock free and the client's listing as it was.
LEMMA RaiseInvariant ==
  ASSUME IInv, NEW h \in Handler, Grows, Raise(h),
         pc[h] \in {"readyz", "enter", "get", "create", "index", "access"}
  PROVE  IInv'
<1>1. /\ pc[h] \in Label /\ req[h] \in Request /\ Home[h] \in Replica
      /\ CreationFits(h) /\ RequestFits(h) /\ ListingFits(h)
      /\ Idle \in Request
  BY Known
<1>2. /\ pc' = [pc EXCEPT ![h] = Outcome(h)] /\ req' = [req EXCEPT ![h] = Remains(h)]
      /\ lock' = [lock EXCEPT ![Home[h]] = IF @ = h THEN None ELSE @]
      /\ UNCHANGED <<initialized, steady, once>>
  BY DEF Raise, Goto, Release, views
<1>3. Outcome(h) \in {"paged", "unavailable", "idle"} /\ Remains(h) \in Request
  BY <1>1 DEF Outcome, Remains, Request, Idle
<1>4. StepOf(h) /\ pc'[h] = Outcome(h) /\ req'[h] = Remains(h)
  BY <1>2, <1>3 DEF IInv, TypeOK, StepOf, Label
<1>5. LockIsHeld'
  BY <1>2, <1>3 DEF IInv, TypeOK, LockIsHeld, Locking
<1>6. FlagIsTrue'
  <2>1. Prepared => Prepared'
    BY GrowsKeeps
  <2> QED
    BY <2>1, <1>2, <1>3 DEF IInv, TypeOK, FlagIsTrue
<1>7. CreationFits(h)'
  BY <1>3, <1>4 DEF CreationFits
<1>8. RequestFits(h)' /\ ListingFits(h)'
  <2>1. Active' = Active
    BY GrowsKeeps
  <2>2. steady'[h] = steady[h] /\ once'[h] = once[h]
    BY <1>2
  <2>3. CASE req[h].op = "list"
    <3>1. /\ pc'[h] = "paged" /\ req'[h].op = "list" /\ req'[h].found = {}
          /\ req'[h].offset = 0 /\ req'[h].page = req[h].page
          /\ req'[h].listed = req[h].listed /\ req'[h].after = req[h].after
      <4>1. Outcome(h) = "paged"
        BY <2>3 DEF Outcome
      <4>2. Remains(h) = [req[h] EXCEPT !.limit = 0, !.index = 0, !.offset = 0, !.found = {}]
        BY <2>3 DEF Remains
      <4> QED
        BY <4>1, <4>2, <2>3, <1>1, <1>4 DEF Request
    <3>2. RequestFits(h)'
      BY <3>1 DEF RequestFits
    <3>3. req[h].page = {}
      BY <1>1 DEF RequestFits
    <3>4. ListingFits(h)'
      BY <3>1, <3>3, <2>1, <2>2, <1>1 DEF ListingFits, Reading
    <3> QED
      BY <3>2, <3>4
  <2>4. CASE req[h].op # "list"
    <3>1. /\ \/ pc'[h] = "idle" /\ req'[h].op = "none"
             \/ pc'[h] = "unavailable" /\ req'[h].op = "probe"
          /\ req'[h].found = {} /\ req'[h].page = {} /\ req'[h].listed = {}
          /\ req'[h].offset = 0
      <4>1. CASE req[h].op = "probe"
        <5>1. Outcome(h) = "unavailable" /\ Remains(h) = [Idle EXCEPT !.op = "probe"]
          BY <4>1 DEF Outcome, Remains
        <5> QED
          BY <5>1, <1>4 DEF Idle
      <4>2. CASE req[h].op # "probe"
        <5>1. Outcome(h) = "idle" /\ Remains(h) = Idle
          BY <2>4, <4>2 DEF Outcome, Remains
        <5> QED
          BY <5>1, <1>4 DEF Idle
      <4> QED
        BY <4>1, <4>2
    <3>2. steady[h] = {}
      BY <2>4, <1>1 DEF RequestFits
    <3>3. RequestFits(h)'
      BY <3>1, <3>2, <2>2 DEF RequestFits
    <3>4. ListingFits(h)'
      BY <3>1, <3>2, <2>2 DEF ListingFits, Reading
    <3> QED
      BY <3>3, <3>4
  <2> QED
    BY <2>3, <2>4
<1> QED
  BY <1>4, <1>5, <1>6, <1>7, <1>8, StepInvariant

\* A step that changes neither the flag nor the lock preserves what they mean.
LEMMA ProcessKept ==
  ASSUME IInv, NEW h \in Handler, Grows, StepOf(h), UNCHANGED process,
         pc'[h] \in Locking <=> pc[h] \in Locking,
         pc'[h] \in {"access", "sort", "prepared"} => initialized[Home[h]]
  PROVE  LockIsHeld' /\ FlagIsTrue'
<1>1. /\ \A g \in Handler : pc'[g] \in Locking <=> pc[g] \in Locking
      /\ \A g \in Handler : pc'[g] \in {"access", "sort", "prepared"} => initialized[Home[g]]
      /\ initialized' = initialized /\ lock' = lock
  BY DEF StepOf, process, IInv, FlagIsTrue
<1>2. LockIsHeld'
  BY <1>1 DEF IInv, TypeOK, LockIsHeld
<1>3. FlagIsTrue'
  <2>1. Prepared => Prepared'
    BY GrowsKeeps
  <2> QED
    BY <2>1, <1>1 DEF IInv, FlagIsTrue
<1> QED
  BY <1>2, <1>3

\* A request that goes on, with another index to create.
Onward(h) ==
  /\ req' \in [Handler -> Request]
  /\ \A g \in Handler \ {h} : req'[g] = req[g]
  /\ req'[h].op = req[h].op /\ req'[h].found = req[h].found /\ req'[h].page = req[h].page
  /\ req'[h].listed = req[h].listed /\ req'[h].after = req[h].after
  /\ req'[h].offset = req[h].offset

\* Another index to create is all that changes.
LEMMA GoingOn ==
  ASSUME IInv, NEW h \in Handler,
         UNCHANGED req \/ \E i \in 0 .. Indexes : req' = [req EXCEPT ![h].index = i]
  PROVE  Onward(h)
<1>1. req \in [Handler -> Request]
  BY DEF IInv, TypeOK
<1>2. CASE UNCHANGED req
  BY <1>1, <1>2 DEF Onward
<1>3. ASSUME NEW i \in 0 .. Indexes, req' = [req EXCEPT ![h].index = i]
      PROVE  Onward(h)
  <2> DEFINE next == [req[h] EXCEPT !.index = i]
  <2>1. req[h] \in Request
    BY <1>1
  <2>2. next \in Request
    BY <2>1 DEF Request
  <2>3. /\ next.op = req[h].op /\ next.found = req[h].found /\ next.page = req[h].page
        /\ next.listed = req[h].listed /\ next.after = req[h].after
        /\ next.offset = req[h].offset
    BY <2>1 DEF Request
  <2>4. req' = [req EXCEPT ![h] = next]
    BY <1>1, <1>3
  <2> HIDE DEF next
  <2>5. req' \in [Handler -> Request] /\ req'[h] = next /\ \A g \in Handler \ {h} : req'[g] = req[g]
    BY <1>1, <2>2, <2>4
  <2> QED
    BY <2>3, <2>5 DEF Onward
<1> QED
  BY <1>2, <1>3

\* A step along the way to the records: nothing of the listing changes.
LEMMA PassInvariant ==
  ASSUME IInv, NEW h \in Handler, Grows, NEW label \in Label,
         label \in {"enter", "get", "create", "index", "access"},
         pc[h] \in {"readyz", "enter", "get", "create", "index"},
         pc' = [pc EXCEPT ![h] = label], Onward(h),
         initialized' \in [Replica -> BOOLEAN], lock' \in [Replica -> Handler \cup {None}],
         UNCHANGED views, LockIsHeld', FlagIsTrue', CreationFits(h)'
  PROVE  IInv'
<1>1. /\ pc[h] \in Label /\ req[h] \in Request
      /\ RequestFits(h) /\ ListingFits(h)
  BY Known
<1>2. /\ pc'[h] = label /\ steady'[h] = steady[h] /\ once'[h] = once[h]
      /\ req'[h].op = req[h].op /\ req'[h].found = req[h].found /\ req'[h].page = req[h].page
      /\ req'[h].listed = req[h].listed /\ req'[h].after = req[h].after
      /\ req'[h].offset = req[h].offset
  BY DEF Onward, views, IInv, TypeOK
<1>3. StepOf(h)
  BY <1>1 DEF Onward, StepOf, views, IInv, TypeOK
<1>4. RequestFits(h)'
  BY <1>1, <1>2 DEF RequestFits
<1>5. ListingFits(h)'
  <2>1. Active' = Active
    BY GrowsKeeps
  <2>2. req[h].found = {} /\ req[h].page = {} /\ req[h].offset = 0
    BY <1>1 DEF RequestFits
  <2>3. \A p \in steady[h] : ~(p < 0)
    <3>1. steady[h] \subseteq Point
      BY Known
    <3>2. \A p \in Point : ~(p < 0)
      BY Numbers
    <3> QED
      BY <3>1, <3>2
  <2>4. req[h].op = "list" => Active \subseteq once[h] \/ pc[h] = "readyz"
    BY <1>1 DEF ListingFits, Reading
  <2> QED
    BY <1>1, <1>2, <2>1, <2>2, <2>3, <2>4 DEF ListingFits, Reading, RequestFits
<1> QED
  BY <1>3, <1>4, <1>5, StepInvariant

\* The check of the flag without the lock, from readyz.
LEMMA ReadyZStep ==
  ASSUME IInv, NEW h \in Handler, ReadyZ(h)
  PROVE  IInv'
<1>1. Grows
  BY StoreGrows DEF ReadyZ, Fails
<1>2. CASE Fails(h)
  BY <1>1, <1>2, RaiseInvariant DEF ReadyZ, Fails
<1>3. CASE Goto(h, Checked(h)) /\ UNCHANGED <<req, store, process, views>>
  <2>1. Onward(h)
    BY <1>3, GoingOn
  <2>2. pc' = [pc EXCEPT ![h] = Checked(h)] /\ pc[h] = "readyz" /\ pc'[h] = Checked(h)
    BY <1>3 DEF ReadyZ, Goto, IInv, TypeOK
  <2>3. Checked(h) \in {"access", "enter"} /\ Checked(h) \in Label
    BY DEF Checked, Label
  <2>4. StepOf(h)
    BY <1>3, <2>1, <2>2, <2>3 DEF Onward, StepOf, process, views, IInv, TypeOK
  <2>5. LockIsHeld' /\ FlagIsTrue'
    BY <1>1, <1>3, <2>2, <2>3, <2>4, ProcessKept DEF Locking, Checked
  <2>6. CreationFits(h)'
    BY <2>2, <2>3 DEF CreationFits
  <2> QED
    BY <1>1, <1>3, <2>1, <2>2, <2>3, <2>5, <2>6, PassInvariant DEF process, IInv, TypeOK
<1> QED
  BY <1>2, <1>3 DEF ReadyZ

\* The check under the lock; whoever finds the flag down keeps the lock.
LEMMA EnterLockStep ==
  ASSUME IInv, NEW h \in Handler, EnterLock(h)
  PROVE  IInv'
<1>1. Grows /\ Onward(h)
  BY StoreGrows, GoingOn DEF EnterLock
<1>2. pc[h] = "enter" /\ lock[Home[h]] = None /\ UNCHANGED <<initialized, views>>
  BY DEF EnterLock
<1>3. CASE initialized[Home[h]] /\ Goto(h, "access") /\ UNCHANGED lock
  <2>1. pc' = [pc EXCEPT ![h] = "access"] /\ pc'[h] = "access" /\ "access" \in Label
    BY <1>3 DEF Goto, IInv, TypeOK, Label
  <2>2. StepOf(h) /\ UNCHANGED process
    BY <1>1, <1>2, <1>3, <2>1 DEF Onward, StepOf, process, views, IInv, TypeOK
  <2>3. LockIsHeld' /\ FlagIsTrue'
    BY <1>1, <1>2, <1>3, <2>1, <2>2, ProcessKept DEF Locking
  <2>4. CreationFits(h)'
    BY <2>1 DEF CreationFits
  <2> QED
    BY <1>1, <1>2, <1>3, <2>1, <2>3, <2>4, PassInvariant DEF IInv, TypeOK
<1>4. CASE ~initialized[Home[h]] /\ Goto(h, "get") /\ lock' = [lock EXCEPT ![Home[h]] = h]
  <2>1. pc' = [pc EXCEPT ![h] = "get"] /\ pc'[h] = "get" /\ "get" \in Label
    BY <1>4 DEF Goto, IInv, TypeOK, Label
  <2>2. lock' \in [Replica -> Handler \cup {None}]
    BY <1>4 DEF IInv, TypeOK
  <2>3. LockIsHeld'
    BY <1>2, <1>4, <2>1 DEF IInv, TypeOK, LockIsHeld, Locking
  <2>4. FlagIsTrue'
    <3>1. Prepared => Prepared'
      BY <1>1, GrowsKeeps
    <3> QED
      BY <1>2, <1>4, <2>1, <3>1 DEF IInv, TypeOK, FlagIsTrue
  <2>5. CreationFits(h)'
    BY <2>1 DEF CreationFits
  <2> QED
    BY <1>1, <1>2, <2>1, <2>2, <2>3, <2>4, <2>5, PassInvariant DEF IInv, TypeOK
<1> QED
  BY <1>3, <1>4 DEF EnterLock

\* A step under the lock that keeps it.
LEMMA LockedStep ==
  ASSUME IInv, NEW h \in Handler, Grows, Onward(h), NEW label \in {"create", "index"},
         pc[h] \in Locking, pc' = [pc EXCEPT ![h] = label], UNCHANGED <<process, views>>,
         CreationFits(h)'
  PROVE  IInv'
<1>1. label \in Label /\ pc'[h] = label /\ label \in Locking
  BY DEF Label, IInv, TypeOK, Locking
<1>2. StepOf(h)
  BY <1>1 DEF Onward, StepOf, process, views, IInv, TypeOK
<1>3. LockIsHeld' /\ FlagIsTrue'
  BY <1>1, <1>2, ProcessKept DEF Locking
<1> QED
  BY <1>1, <1>3, PassInvariant DEF IInv, TypeOK, process, Locking

\* _ensure_catalog finds the collection, or goes on to create it.
LEMMA GetCollectionStep ==
  ASSUME IInv, NEW h \in Handler, GetCollection(h)
  PROVE  IInv'
<1>1. Grows
  BY StoreGrows DEF GetCollection, Fails
<1>2. pc[h] = "get" /\ pc[h] \in Locking /\ pc \in [Handler -> Label]
      /\ req \in [Handler -> Request] /\ indexes \subseteq 1 .. Indexes /\ Indexes \in Nat \ {0}
  BY DEF GetCollection, Locking, IInv, TypeOK
<1>3. CASE /\ collection = "none" /\ Goto(h, "create")
           /\ UNCHANGED <<req, store, process, views>>
  <2>1. Onward(h)
    BY <1>3, GoingOn
  <2>2. pc' = [pc EXCEPT ![h] = "create"] /\ CreationFits(h)'
    BY <1>2, <1>3 DEF Goto, CreationFits, store
  <2> QED
    BY <1>1, <1>2, <1>3, <2>1, <2>2, LockedStep
<1>4. CASE /\ collection = "compatible" /\ Goto(h, "index")
           /\ req' = [req EXCEPT ![h].index = 1]
           /\ UNCHANGED <<store, process, views>>
  <2>1. Onward(h)
    BY <1>2, <1>4, GoingOn, Numbers
  <2>2. pc' = [pc EXCEPT ![h] = "index"] /\ CreationFits(h)'
    BY <1>2, <1>4 DEF Goto, CreationFits, store, Request
  <2> QED
    BY <1>1, <1>2, <1>4, <2>1, <2>2, LockedStep
<1>5. CASE Raise(h)
  BY <1>1, <1>2, <1>5, RaiseInvariant
<1> QED
  BY <1>3, <1>4, <1>5 DEF GetCollection, Fails

\* The flag goes up with the last index, and only then.
LEMMA InitializeStep ==
  ASSUME IInv, NEW h \in Handler, Grows, pc[h] = "index", Initialize(h), UNCHANGED views,
         indexes' = indexes \cup {req[h].index}
  PROVE  IInv'
<1>1. /\ CreationFits(h) /\ pc[h] \in Locking /\ Home[h] \in Replica
      /\ lock[Home[h]] = h /\ h # None
      /\ pc \in [Handler -> Label] /\ req \in [Handler -> Request]
      /\ lock \in [Replica -> Handler \cup {None}] /\ initialized \in [Replica -> BOOLEAN]
  BY Known DEF IInv, TypeOK, LockIsHeld, Locking
<1>2. /\ pc' = [pc EXCEPT ![h] = "access"] /\ req' = [req EXCEPT ![h].index = 0]
      /\ lock' = [lock EXCEPT ![Home[h]] = None]
      /\ initialized' = [initialized EXCEPT ![Home[h]] = TRUE]
      /\ req[h].index = Indexes
  BY <1>1 DEF Initialize, Goto, Release
<1>3. Onward(h)
  <2>1. 0 \in 0 .. Indexes
    BY Numbers
  <2> QED
    BY <1>2, <2>1, GoingOn
<1>4. Prepared'
  <2>1. 1 .. Indexes - 1 \subseteq indexes /\ indexes' \subseteq 1 .. Indexes
        /\ collection' = "compatible" /\ Indexes \in indexes'
    BY <1>1, <1>2 DEF CreationFits, Grows
  <2>2. \A i \in 1 .. Indexes : i \in 1 .. Indexes - 1 \/ i = Indexes
    BY Numbers
  <2> QED
    BY <2>1, <2>2 DEF Prepared, Grows
<1>5. pc'[h] = "access" /\ "access" \in Label /\ \A g \in Handler \ {h} : pc'[g] = pc[g]
  BY <1>1, <1>2 DEF Label
<1>6. LockIsHeld'
  BY <1>1, <1>2, <1>5 DEF IInv, LockIsHeld, Locking
<1>7. FlagIsTrue'
  BY <1>1, <1>2, <1>4, <1>5 DEF IInv, FlagIsTrue
<1>8. CreationFits(h)'
  BY <1>5 DEF CreationFits
<1> QED
  BY <1>1, <1>2, <1>3, <1>5, <1>6, <1>7, <1>8, PassInvariant

\* Whoever creates the collection goes on to its indexes.
LEMMA CreateCollectionStep ==
  ASSUME IInv, NEW h \in Handler, CreateCollection(h)
  PROVE  IInv'
<1>1. /\ pc[h] = "create" /\ pc[h] \in Locking /\ collection # "incompatible"
      /\ collection \in {"none", "compatible", "incompatible"}
      /\ pc \in [Handler -> Label] /\ req \in [Handler -> Request]
      /\ UNCHANGED records
  BY Known DEF CreateCollection, Locking, CreationFits, IInv, TypeOK
<1>2. 0 \in 0 .. Indexes
  BY Numbers
<1>3. Grows
  BY <1>1, <1>2, CallsGrow DEF CreateCollection
<1>4. CASE /\ Applies(0)
           /\ Goto(h, "index")
           /\ req' = [req EXCEPT ![h].index = 1]
           /\ UNCHANGED <<process, views>>
  <2>1. Onward(h)
    BY <1>4, GoingOn, Numbers
  <2>2. collection' = "compatible"
    BY <1>1, <1>4 DEF Applies
  <2>3. pc' = [pc EXCEPT ![h] = "index"] /\ CreationFits(h)'
    BY <1>1, <1>4, <2>2 DEF Goto, CreationFits, Request
  <2> QED
    BY <1>1, <1>3, <1>4, <2>1, <2>3, LockedStep
<1>5. CASE Raise(h)
  BY <1>1, <1>3, <1>5, RaiseInvariant
<1> QED
  BY <1>4, <1>5 DEF CreateCollection

\* One index after the other, up to the flag.
LEMMA CreateIndexStep ==
  ASSUME IInv, NEW h \in Handler, CreateIndex(h)
  PROVE  IInv'
<1>1. /\ pc[h] = "index" /\ pc[h] \in Locking /\ collection = "compatible"
      /\ req[h].index \in 0 .. Indexes /\ req[h].index > 0
      /\ 1 .. req[h].index - 1 \subseteq indexes
      /\ pc \in [Handler -> Label] /\ req \in [Handler -> Request]
      /\ UNCHANGED records
  BY Known DEF CreateIndex, Locking, CreationFits, Request, IInv, TypeOK
<1>2. Grows
  BY <1>1, CallsGrow DEF CreateIndex
<1>3. CASE Applies(req[h].index) /\ UNCHANGED views /\ Initialize(h)
  <2>1. indexes' = indexes \cup {req[h].index}
    BY <1>1, <1>3 DEF Applies
  <2> QED
    BY <1>1, <1>2, <1>3, <2>1, InitializeStep
<1>4. CASE /\ Applies(req[h].index) /\ UNCHANGED views
           /\ req[h].index < Indexes
           /\ req' = [req EXCEPT ![h].index = @ + 1]
           /\ UNCHANGED <<pc, process>>
  <2>1. /\ req[h].index + 1 \in 0 .. Indexes
        /\ req' = [req EXCEPT ![h].index = req[h].index + 1]
    BY <1>1, <1>4, Numbers
  <2>2. Onward(h)
    BY <2>1, GoingOn
  <2>3. indexes' = indexes \cup {req[h].index} /\ collection' = "compatible"
    BY <1>1, <1>4 DEF Applies
  <2>4. pc'[h] = "index" /\ req'[h].index = req[h].index + 1 /\ pc' = [pc EXCEPT ![h] = "index"]
    BY <1>1, <1>4, <2>1 DEF Request
  <2>5. \A i \in 1 .. req[h].index : i \in 1 .. req[h].index - 1 \/ i = req[h].index
    BY <1>1, Numbers
  <2>6. 1 .. req'[h].index - 1 \subseteq indexes'
    BY <1>1, <2>3, <2>4, <2>5, Numbers
  <2>7. CreationFits(h)'
    BY <1>1, <2>3, <2>4, <2>6, Numbers DEF CreationFits
  <2> QED
    BY <1>1, <1>2, <1>4, <2>2, <2>4, <2>7, LockedStep
<1>5. CASE Raise(h)
  BY <1>1, <1>2, <1>5, RaiseInvariant
<1> QED
  BY <1>3, <1>4, <1>5 DEF CreateIndex

\* A step of a handler that has nothing to do with the creation of the collection.
LEMMA PlainStep ==
  ASSUME IInv, NEW h \in Handler, Grows, UNCHANGED process,
         NEW label \in Label, pc' = [pc EXCEPT ![h] = label],
         label \notin Locking, pc[h] \notin Locking,
         label \in {"access", "sort", "prepared"} => initialized[Home[h]],
         NEW r \in Request, req' = [req EXCEPT ![h] = r],
         NEW s \in SUBSET Point, steady' = [steady EXCEPT ![h] = s],
         NEW o \in SUBSET Point, once' = [once EXCEPT ![h] = o],
         RequestFits(h)', ListingFits(h)'
  PROVE  IInv'
<1>1. StepOf(h) /\ pc'[h] = label
  BY DEF StepOf, process, IInv, TypeOK
<1>2. LockIsHeld' /\ FlagIsTrue'
  BY <1>1, ProcessKept
<1>3. CreationFits(h)'
  BY <1>1 DEF CreationFits, Locking
<1> QED
  BY <1>1, <1>2, <1>3, StepInvariant

\* The labels that the first check leads to.
LEMMA CheckedLabel ==
  ASSUME NEW h \in Handler
  PROVE  /\ Checked(h) \in Label /\ Checked(h) \notin Locking
         /\ Checked(h) \in {"access", "enter"}
         /\ Checked(h) \in {"access", "sort", "prepared"} => initialized[Home[h]]
BY DEF Checked, Label, Locking

\* A listing begins with nothing found and everything that is active to find.
LEMMA BeginListStep ==
  ASSUME IInv, NEW h \in Handler, BeginList(h)
  PROVE  IInv'
<1>1. /\ pc \in [Handler -> Label] /\ req \in [Handler -> Request]
      /\ steady \in [Handler -> SUBSET Point] /\ once \in [Handler -> SUBSET Point]
      /\ pc[h] = "idle" /\ UNCHANGED process
      /\ Active \subseteq Point /\ OneActive(Active) /\ UNCHANGED store
  BY DEF BeginList, IInv, TypeOK, Active
<1>2. Grows /\ Active' = Active
  BY <1>1, StoreGrows, GrowsKeeps
<1>3. PICK limit \in Limits : req' = [req EXCEPT ![h] = [Idle EXCEPT !.op = "list", !.limit = limit]]
  BY DEF BeginList
<1> DEFINE r == [Idle EXCEPT !.op = "list", !.limit = limit]
<1>4. /\ r \in Request /\ r.op = "list" /\ r.found = {} /\ r.page = {} /\ r.listed = {}
      /\ r.offset = 0 /\ r.after = 0
  <2>1. Idle \in Request
    BY Known
  <2>2. r \in Request
    BY <2>1 DEF Request
  <2> QED
    BY <2>2 DEF Idle
<1>5. /\ pc' = [pc EXCEPT ![h] = Checked(h)] /\ req' = [req EXCEPT ![h] = r]
      /\ steady' = [steady EXCEPT ![h] = Active] /\ once' = [once EXCEPT ![h] = Active]
  BY <1>3 DEF BeginList, Goto
<1> HIDE DEF r
<1>6. pc'[h] = Checked(h) /\ req'[h] = r /\ steady'[h] = Active /\ once'[h] = Active
  BY <1>1, <1>5
<1>7. RequestFits(h)'
  BY <1>4, <1>6, CheckedLabel DEF RequestFits
<1>8. ListingFits(h)'
  <2>1. \A p \in Active : ~(Owner[p] <= 0) /\ ~(p < 0)
    <3>1. \A p \in Point : ~(Owner[p] <= 0) /\ ~(p < 0)
      BY Numbers
    <3> QED
      BY <3>1, <1>1
  <2>2. \A p \in Active, q \in Active : Owner[p] = Owner[q] => p = q
    BY <1>1 DEF OneActive
  <2>3. pc'[h] \in {"access", "enter"}
    BY <1>6, CheckedLabel
  <2> QED
    BY <1>2, <1>4, <1>6, <2>1, <2>2, <2>3 DEF ListingFits, Reading
<1> QED
  BY <1>1, <1>2, <1>4, <1>5, <1>7, <1>8, CheckedLabel, PlainStep DEF Locking

\* The page the client holds becomes part of what it has been shown.
LEMMA NextPageStep ==
  ASSUME IInv, NEW h \in Handler, NextPage(h)
  PROVE  IInv'
<1>1. /\ pc \in [Handler -> Label] /\ req \in [Handler -> Request]
      /\ steady \in [Handler -> SUBSET Point] /\ once \in [Handler -> SUBSET Point]
      /\ pc[h] = "paged" /\ UNCHANGED process
      /\ Active \subseteq Point /\ OneActive(Active) /\ UNCHANGED store
  BY DEF NextPage, IInv, TypeOK, Active
<1>2. Grows /\ Active' = Active
  BY <1>1, StoreGrows, GrowsKeeps
<1>3. PICK limit \in Limits :
        req' = [req EXCEPT ![h] =
                 [req[h] EXCEPT !.limit = limit, !.listed = req[h].listed \cup req[h].page, !.page = {}]]
  BY DEF NextPage
<1> DEFINE r == [req[h] EXCEPT !.limit = limit, !.listed = req[h].listed \cup req[h].page, !.page = {}]
<1>4. /\ r \in Request /\ r.op = req[h].op /\ r.found = req[h].found /\ r.page = {}
      /\ r.listed = req[h].listed \cup req[h].page
      /\ r.offset = req[h].offset /\ r.after = req[h].after
  <2>1. req[h] \in Request
    BY <1>1
  <2>2. req[h].listed \cup req[h].page \subseteq Point
    BY <2>1 DEF Request
  <2>3. r \in Request
    BY <2>1, <2>2 DEF Request
  <2> QED
    BY <2>1, <2>3 DEF Request
<1>5. /\ pc' = [pc EXCEPT ![h] = Checked(h)] /\ req' = [req EXCEPT ![h] = r]
      /\ steady' = [steady EXCEPT ![h] = steady[h]] /\ once' = [once EXCEPT ![h] = Active]
  <2>1. req' = [req EXCEPT ![h] = r]
    BY <1>3
  <2>2. steady' = [steady EXCEPT ![h] = steady[h]]
    BY <1>1 DEF NextPage
  <2> QED
    BY <2>1, <2>2 DEF NextPage, Goto
<1> HIDE DEF r
<1>6. pc'[h] = Checked(h) /\ req'[h] = r /\ steady'[h] = steady[h] /\ once'[h] = Active
  BY <1>1, <1>5
<1>7. /\ RequestFits(h) /\ ListingFits(h) /\ req[h].op = "list"
      /\ req[h].found = {} /\ req[h].offset = 0 /\ steady[h] \subseteq Point
  BY <1>1, Known DEF RequestFits
<1>8. RequestFits(h)'
  BY <1>4, <1>6, <1>7, CheckedLabel DEF RequestFits
<1>9. ListingFits(h)'
  <2>1. \A p \in steady[h] : ~(p < 0)
    <3>1. \A p \in Point : ~(p < 0)
      BY Numbers
    <3> QED
      BY <3>1, <1>7
  <2> QED
    BY <1>1, <1>2, <1>4, <1>6, <1>7, <2>1, CheckedLabel DEF ListingFits, Reading, OneActive
<1> QED
  BY <1>1, <1>2, <1>4, <1>5, <1>8, <1>9, CheckedLabel, PlainStep DEF Locking

\* A write or a probe begins, or a request is over: no listing is under way.
LEMMA NoListing ==
  ASSUME IInv, NEW h \in Handler, NEW label, NEW r,
         pc'[h] = label, req'[h] = r, steady'[h] = {},
         r.op # "list", r.found = {}, r.page = {}, r.listed = {}, r.offset = 0,
         label = "idle" <=> r.op = "none",
         label \in {"readyz", "prepared", "unavailable"} => r.op = "probe",
         label \notin {"sort", "paged", "complete", "refused"}
  PROVE  RequestFits(h)' /\ ListingFits(h)'
BY DEF RequestFits, ListingFits, Reading

\* A write or a probe begins.
LEMMA BeginOtherStep ==
  ASSUME IInv, NEW h \in Handler, BeginWrite(h) \/ BeginProbe(h)
  PROVE  IInv'
<1>1. /\ pc \in [Handler -> Label] /\ req \in [Handler -> Request]
      /\ steady \in [Handler -> SUBSET Point] /\ once \in [Handler -> SUBSET Point]
      /\ pc[h] = "idle" /\ UNCHANGED <<process, views>> /\ UNCHANGED store
  BY DEF BeginWrite, BeginProbe, IInv, TypeOK
<1>2. Grows
  BY <1>1, StoreGrows
<1>3. PICK op \in {"write", "probe"}, label \in {"readyz", "enter", "access"} :
        /\ req' = [req EXCEPT ![h] = [Idle EXCEPT !.op = op]]
        /\ pc' = [pc EXCEPT ![h] = label]
        /\ label = "readyz" => op = "probe"
        /\ label = "access" => initialized[Home[h]]
  BY CheckedLabel DEF BeginWrite, BeginProbe, Goto
<1> DEFINE r == [Idle EXCEPT !.op = op]
<1>4. /\ r \in Request /\ r.op = op /\ r.found = {} /\ r.page = {} /\ r.listed = {}
      /\ r.offset = 0
  BY <1>3 DEF Idle, Request
<1>5. req' = [req EXCEPT ![h] = r]
  BY <1>3
<1> HIDE DEF r
<1>6. steady[h] = {}
  <2>1. RequestFits(h) /\ ListingFits(h)
    BY Known
  <2> QED
    BY <1>1, <2>1 DEF RequestFits, ListingFits
<1>7. pc'[h] = label /\ req'[h] = r /\ steady'[h] = {}
  BY <1>1, <1>3, <1>5, <1>6 DEF views
<1>8. RequestFits(h)' /\ ListingFits(h)'
  BY <1>3, <1>4, <1>7, NoListing
<1>9. steady' = [steady EXCEPT ![h] = {}] /\ once' = [once EXCEPT ![h] = once[h]]
  BY <1>1, <1>6 DEF views
<1>10. label \in Label /\ label \notin Locking
  BY <1>3 DEF Label, Locking
<1> QED
  BY <1>1, <1>2, <1>3, <1>4, <1>5, <1>8, <1>9, <1>10, PlainStep DEF Locking

\* A request is over, and so is what the client had of a listing.
LEMMA ReturnStep ==
  ASSUME IInv, NEW h \in Handler, Return(h)
  PROVE  IInv'
<1>1. /\ pc \in [Handler -> Label] /\ req \in [Handler -> Request]
      /\ steady \in [Handler -> SUBSET Point] /\ once \in [Handler -> SUBSET Point]
      /\ pc[h] \notin Locking /\ UNCHANGED process /\ UNCHANGED store
      /\ pc' = [pc EXCEPT ![h] = "idle"] /\ req' = [req EXCEPT ![h] = Idle]
      /\ steady' = [steady EXCEPT ![h] = {}] /\ once' = [once EXCEPT ![h] = {}]
  BY DEF Return, Goto, Locking, IInv, TypeOK
<1>2. Grows
  BY <1>1, StoreGrows
<1>3. /\ Idle \in Request /\ Idle.op = "none" /\ Idle.found = {} /\ Idle.page = {}
      /\ Idle.listed = {} /\ Idle.offset = 0
  BY DEF Idle, Request
<1>4. pc'[h] = "idle" /\ req'[h] = Idle /\ steady'[h] = {}
  BY <1>1
<1>5. RequestFits(h)' /\ ListingFits(h)'
  BY <1>3, <1>4, NoListing
<1>6. "idle" \in Label /\ "idle" \notin Locking
  BY DEF Label, Locking
<1> QED
  BY <1>1, <1>2, <1>3, <1>5, <1>6, PlainStep

----------------------------------------------------------------------------
(* Listing.                                                                *)

\* A scroll returns what is first from the offset on.
LEMMA ScrollReturns ==
  ASSUME IInv, NEW h \in Handler, pc[h] = "access", req[h].op = "list"
  PROVE  /\ ScrollPage(h) \subseteq Active /\ Behind(h) \subseteq Active
         /\ req[h].found \cup ScrollPage(h) \subseteq Point
         /\ \A p \in req[h].found \cup ScrollPage(h), q \in Behind(h) : p < q
         /\ req[h].found \cup ScrollPage(h) \subseteq once[h] /\ Behind(h) \subseteq once[h]
         /\ \A p \in steady[h] : p \in (req[h].found \cup ScrollPage(h)) \cup Behind(h)
<1>1. /\ req[h] \in Request /\ ListingFits(h) /\ Active \subseteq Point /\ Active \subseteq once[h]
      /\ req[h].found \subseteq Point /\ req[h].offset \in Point \cup {0}
      /\ steady[h] \subseteq Active /\ req[h].found \subseteq once[h]
  BY Known DEF Active, Request, ListingFits, Reading
<1> DEFINE S == {p \in Active : p >= req[h].offset}
<1> DEFINE room == MaxResults - Cardinality(req[h].found)
<1> DEFINE n == IF room < PageSize THEN room ELSE PageSize
<1>2. n \in Int
  <2>1. Cardinality(req[h].found) \in Nat
    BY <1>1, Counted
  <2> QED
    BY <2>1, Numbers
<1>3. ScrollPage(h) = FirstPoints(S, n)
  BY DEF ScrollPage
<1>4. S \subseteq Point
  BY <1>1
<1> HIDE DEF n, room
<1>5. ScrollPage(h) \subseteq S
  BY <1>3 DEF FirstPoints
<1>6. Behind(h) = S \ ScrollPage(h)
  BY DEF Behind
<1>7. \A p \in ScrollPage(h), q \in Behind(h) : p < q
  BY <1>2, <1>3, <1>4, <1>6, FirstPointsPrecede
<1>8. \A p \in req[h].found, q \in Behind(h) : p < q
  <2>1. \A p \in req[h].found : p < req[h].offset
    BY <1>1 DEF ListingFits
  <2>2. ASSUME NEW p \in req[h].found, NEW q \in Behind(h)
        PROVE  p < q
    <3>0. p \in Point \cup {0} /\ q \in Point \cup {0} /\ req[h].offset \in Point \cup {0}
      BY <1>1, <1>4, <1>6
    <3>1. p \in Nat /\ q \in Nat /\ req[h].offset \in Nat
      BY <3>0, Natural
    <3>2. p < req[h].offset /\ q >= req[h].offset
      BY <2>1, <1>6
    <3> QED
      BY <3>1, <3>2
  <2> QED
    BY <2>2
<1>9. \A p \in steady[h] : p \in req[h].found \/ p \in S
  <2>1. ASSUME NEW p \in steady[h]
        PROVE  p < req[h].offset \/ p >= req[h].offset
    <3>1. p \in Point \cup {0} /\ req[h].offset \in Point \cup {0}
      BY <1>1
    <3>2. p \in Nat /\ req[h].offset \in Nat
      BY <3>1, Natural
    <3> QED
      BY <3>2
  <2>2. \A p \in steady[h] : p < req[h].offset => p \in req[h].found
    BY <1>1 DEF ListingFits
  <2> QED
    BY <1>1, <2>1, <2>2
<1> QED
  BY <1>1, <1>4, <1>5, <1>6, <1>7, <1>8, <1>9

\* A scroll finds what it passes, and refuses only what is too much.
LEMMA ScrollStep ==
  ASSUME IInv, NEW h \in Handler, Scroll(h)
  PROVE  IInv'
<1>1. /\ pc \in [Handler -> Label] /\ req \in [Handler -> Request] /\ req[h] \in Request
      /\ steady \in [Handler -> SUBSET Point] /\ once \in [Handler -> SUBSET Point]
      /\ pc[h] = "access" /\ req[h].op = "list" /\ pc[h] \notin Locking
      /\ RequestFits(h) /\ ListingFits(h) /\ initialized[Home[h]] /\ UNCHANGED store
  BY Known DEF Scroll, Fails, Locking, IInv, TypeOK, FlagIsTrue
<1>2. Grows /\ Active' = Active
  BY <1>1, StoreGrows, GrowsKeeps
<1>3. CASE Fails(h)
  BY <1>1, <1>2, <1>3, RaiseInvariant DEF Fails
<1> DEFINE found == req[h].found \cup ScrollPage(h)
<1>4. /\ found \subseteq Point /\ found \subseteq once[h]
      /\ \A p \in steady[h] : p \in found \/ p \in Behind(h)
      /\ Behind(h) \subseteq Active /\ Behind(h) \subseteq once[h] /\ Behind(h) \subseteq Point
      /\ \A p \in found, q \in Behind(h) : p < q
  BY <1>1, ScrollReturns DEF Active
<1> HIDE DEF found
<1>5. CASE ScrollEnds(h, found) /\ UNCHANGED <<store, process, views>>
  <2>1. /\ steady' = [steady EXCEPT ![h] = steady[h]] /\ once' = [once EXCEPT ![h] = once[h]]
        /\ UNCHANGED process
    BY <1>1, <1>5 DEF views
  <2>2. CASE /\ Behind(h) = {}
             /\ Goto(h, "sort")
             /\ req' = [req EXCEPT ![h] = [req[h] EXCEPT !.found = found]]
    <3> DEFINE r == [req[h] EXCEPT !.found = found]
    <3>1. /\ r \in Request /\ r.op = "list" /\ r.found = found /\ r.page = req[h].page
          /\ r.listed = req[h].listed /\ r.offset = req[h].offset /\ r.after = req[h].after
      BY <1>1, <1>4 DEF Request
    <3>2. req' = [req EXCEPT ![h] = r] /\ pc' = [pc EXCEPT ![h] = "sort"]
      BY <2>2 DEF Goto
    <3> HIDE DEF r
    <3>3. pc'[h] = "sort" /\ req'[h] = r /\ steady'[h] = steady[h] /\ once'[h] = once[h]
      BY <1>1, <2>1, <3>2
    <3>4. RequestFits(h)'
      BY <1>1, <3>1, <3>3 DEF RequestFits
    <3>5. ListingFits(h)'
      BY <1>1, <1>2, <1>4, <2>2, <3>1, <3>3 DEF ListingFits, Reading, RequestFits
    <3>6. "sort" \in Label /\ "sort" \notin Locking
      BY DEF Label, Locking
    <3> QED
      BY <1>1, <1>2, <2>1, <3>1, <3>2, <3>4, <3>5, <3>6, PlainStep
  <2>3. ASSUME NEW next \in Behind(h), \A p \in Behind(h) : next <= p,
               req' = [req EXCEPT ![h] = [req[h] EXCEPT !.found = found, !.offset = next]],
               UNCHANGED pc \/ (Cardinality(found) >= MaxResults /\ Goto(h, "refused"))
        PROVE  IInv'
    <3> DEFINE r == [req[h] EXCEPT !.found = found, !.offset = next]
    <3>1. /\ r \in Request /\ r.op = "list" /\ r.found = found /\ r.page = req[h].page
          /\ r.listed = req[h].listed /\ r.offset = next /\ r.after = req[h].after
      <4>1. next \in Point \cup {0}
        BY <1>4
      <4> QED
        BY <1>1, <1>4, <4>1 DEF Request
    <3>2. req' = [req EXCEPT ![h] = r]
      BY <2>3
    <3> HIDE DEF r
    <3>3. PICK label \in {"access", "refused"} :
            /\ pc' = [pc EXCEPT ![h] = label]
            /\ label = "refused" => Cardinality(found) >= MaxResults
      BY <1>1, <2>3 DEF Goto
    <3>4. pc'[h] = label /\ req'[h] = r /\ steady'[h] = steady[h] /\ once'[h] = once[h]
      BY <1>1, <2>1, <3>2, <3>3
    <3>5. RequestFits(h)'
      BY <1>1, <3>1, <3>4 DEF RequestFits
    <3>6. \A p \in steady[h] : p < next => p \in found
      <4>1. \A p \in Behind(h) : ~(p < next)
        <5>1. \A p \in Behind(h) : p \in Nat
          BY <1>4, Numbers
        <5> QED
          BY <2>3, <5>1
      <4> QED
        BY <1>4, <4>1
    <3>7. label = "refused" => Cardinality(once[h]) > MaxResults
      <4>1. next \notin found
        <5>1. next \in Nat
          BY <1>4, Numbers
        <5>2. ~(next < next)
          BY <5>1
        <5> QED
          BY <1>4, <5>2
      <4>2. IsFiniteSet(found) /\ once[h] \subseteq Point /\ found \cup {next} \subseteq once[h]
        BY <1>1, <1>4, FS_Subset
      <4>3. Cardinality(found \cup {next}) = Cardinality(found) + 1
        BY <4>1, <4>2, FS_AddElement
      <4>4. /\ Cardinality(once[h]) \in Nat /\ Cardinality(found) \in Nat
            /\ Cardinality(found \cup {next}) <= Cardinality(once[h])
        BY <1>4, <4>2, Counted
      <4> QED
        BY <3>3, <4>3, <4>4, Numbers
    <3>8. ListingFits(h)'
      BY <1>1, <1>2, <1>4, <3>1, <3>3, <3>4, <3>6, <3>7 DEF ListingFits, Reading, RequestFits
    <3>9. label \in Label /\ label \notin Locking
      BY DEF Label, Locking
    <3> QED
      BY <1>1, <1>2, <2>1, <3>1, <3>2, <3>3, <3>5, <3>8, <3>9, PlainStep
  <2> QED
    BY <1>5, <2>2, <2>3 DEF ScrollEnds
<1> QED
  BY <1>3, <1>5 DEF Scroll, found

\* A page is cut behind the cursor, and the next cursor behind the page.
LEMMA SortStep ==
  ASSUME IInv, NEW h \in Handler, Sort(h)
  PROVE  IInv'
<1> DEFINE page == FirstRecords(Remaining(h), req[h].limit)
<1> DEFINE rest == Remaining(h) \ page
<1> DEFINE answered == [Remains(h) EXCEPT !.page = page]
<1>1. /\ pc \in [Handler -> Label] /\ req \in [Handler -> Request] /\ req[h] \in Request
      /\ steady \in [Handler -> SUBSET Point] /\ once \in [Handler -> SUBSET Point]
      /\ pc[h] = "sort" /\ req[h].op = "list" /\ pc[h] \notin Locking /\ req[h].page = {}
      /\ RequestFits(h) /\ ListingFits(h) /\ UNCHANGED <<store, process, views>>
  BY Known DEF Sort, Locking, IInv, TypeOK, RequestFits
<1>2. /\ Grows /\ Active' = Active /\ UNCHANGED process
      /\ steady' = [steady EXCEPT ![h] = steady[h]] /\ once' = [once EXCEPT ![h] = once[h]]
  BY <1>1, StoreGrows, GrowsKeeps DEF views
<1>3. /\ Remaining(h) \subseteq req[h].found /\ req[h].found \subseteq Point /\ page \subseteq Remaining(h)
      /\ \A p \in req[h].found : p \in Remaining(h) \/ ~(Owner[p] > req[h].after)
      /\ \A p \in Remaining(h) : Owner[p] > req[h].after
  BY <1>1 DEF Remaining, FirstRecords, Request
<1>4. \A p \in page, q \in rest : Precedes(p, q)
  <2>1. req[h].limit \in Int /\ Remaining(h) \subseteq Point
    <3>1. req[h].limit \in Limits \cup {0}
      BY <1>1 DEF Request
    <3>2. req[h].limit \in Nat
      BY <3>1, Natural, Zenon
    <3>3. req[h].limit \in Int
      BY <3>2
    <3> QED
      BY <1>3, <3>3
  <2> QED
    BY <2>1, FirstRecordsPrecede
<1>5. /\ answered \in Request /\ answered.op = "list" /\ answered.found = {}
      /\ answered.page = page /\ answered.listed = req[h].listed /\ answered.offset = 0
      /\ answered.after = req[h].after
  <2>1. Remains(h) = [req[h] EXCEPT !.limit = 0, !.index = 0, !.offset = 0, !.found = {}]
    BY <1>1 DEF Remains
  <2>2. Remains(h) \in Request
    <3>1. 0 \in 0 .. Indexes
      BY Numbers
    <3> QED
      BY <1>1, <2>1, <3>1 DEF Request
  <2>3. /\ Remains(h).op = "list" /\ Remains(h).found = {} /\ Remains(h).offset = 0
        /\ Remains(h).listed = req[h].listed /\ Remains(h).after = req[h].after
    BY <1>1, <2>1 DEF Request
  <2>4. page \subseteq Point
    BY <1>3
  <2> QED
    BY <2>2, <2>3, <2>4 DEF Request
<1>6. \A p \in Point : Owner[p] \in Nat
  BY Numbers
<1>7. /\ req[h].after \in Nat /\ steady[h] \subseteq req[h].found /\ req[h].listed \subseteq Point
      /\ req[h].found \subseteq once[h] /\ once[h] \subseteq Point
      /\ \A p \in req[h].listed : Owner[p] <= req[h].after
      /\ \A p \in steady[h] : Owner[p] <= req[h].after => p \in req[h].listed
      /\ \A p \in steady[h], q \in once[h] : Owner[p] = Owner[q] => p = q
  BY <1>1 DEF ListingFits, Request
<1>8. ASSUME NEW p \in page, NEW q \in req[h].listed
      PROVE  Owner[p] # Owner[q]
  <2>1. Owner[p] \in Nat /\ Owner[q] \in Nat /\ Owner[p] > req[h].after /\ Owner[q] <= req[h].after
    BY <1>3, <1>6, <1>7
  <2> QED
    BY <1>7, <2>1
<1>9. ASSUME NEW p \in steady[h]
      PROVE  p \in Remaining(h) \/ p \in req[h].listed
  <2>1. Owner[p] \in Nat /\ p \in req[h].found
    BY <1>3, <1>6, <1>7
  <2>2. Owner[p] > req[h].after \/ Owner[p] <= req[h].after
    BY <1>7, <2>1
  <2> QED
    BY <1>3, <1>7, <2>1, <2>2
<1> HIDE DEF answered, page
<1>10. CASE /\ rest = {} /\ Goto(h, "complete")
            /\ req' = [req EXCEPT ![h] = answered]
  <2>1. pc'[h] = "complete" /\ req'[h] = answered /\ pc' = [pc EXCEPT ![h] = "complete"]
        /\ steady'[h] = steady[h] /\ once'[h] = once[h]
    BY <1>1, <1>2, <1>10 DEF Goto
  <2>2. RequestFits(h)'
    BY <1>5, <2>1 DEF RequestFits
  <2>3. steady[h] \subseteq req[h].listed \cup page
    BY <1>9, <1>10
  <2>4. ListingFits(h)'
    BY <1>1, <1>2, <1>3, <1>5, <1>7, <1>8, <2>1, <2>3 DEF ListingFits, Reading
  <2>5. "complete" \in Label /\ "complete" \notin Locking
    BY DEF Label, Locking
  <2> QED
    BY <1>1, <1>2, <1>5, <1>10, <2>1, <2>2, <2>4, <2>5, PlainStep
<1>11. ASSUME NEW cursor \in Cursor(page, rest), Goto(h, "paged"),
              req' = [req EXCEPT ![h] = [answered EXCEPT !.after = cursor]]
       PROVE  IInv'
  <2> DEFINE r == [answered EXCEPT !.after = cursor]
  <2>1. PICK x \in page : cursor = Owner[x] /\ \A p \in page : Owner[p] <= Owner[x]
    BY <1>11 DEF Cursor
  <2>2. cursor \in Nat /\ x \in Point
    BY <2>1, <1>3, <1>6
  <2>3. /\ r \in Request /\ r.op = "list" /\ r.found = {}
        /\ r.page = page /\ r.listed = req[h].listed /\ r.offset = 0 /\ r.after = cursor
    BY <1>5, <2>2 DEF Request
  <2>4. req' = [req EXCEPT ![h] = r]
    BY <1>11
  <2> HIDE DEF r
  <2>5. pc'[h] = "paged" /\ req'[h] = r /\ pc' = [pc EXCEPT ![h] = "paged"]
        /\ steady'[h] = steady[h] /\ once'[h] = once[h]
    BY <1>1, <1>2, <1>11, <2>4 DEF Goto
  <2>6. RequestFits(h)'
    BY <2>3, <2>5 DEF RequestFits
  <2>7. \A p \in steady[h] : Owner[p] <= cursor => p \in req[h].listed \cup page
    <3>1. SUFFICES ASSUME NEW p \in steady[h], Owner[p] <= cursor, p \in rest
                   PROVE  FALSE
      BY <1>9
    <3>2. p \in Point /\ Owner[p] \in Nat /\ Owner[x] \in Nat
      BY <1>6, <1>7, <2>2
    <3>3. Precedes(x, p)
      BY <1>4, <2>1, <3>1
    <3>4. Owner[p] = Owner[x] /\ x < p
      BY <2>1, <3>1, <3>2, <3>3 DEF Precedes
    <3>5. x \in once[h]
      BY <1>3, <1>7, <2>1
    <3>6. p = x
      BY <1>7, <3>4, <3>5
    <3> QED
      BY <3>4, <3>6, <2>2, Numbers
  <2>8. \A p \in req[h].listed : Owner[p] <= cursor
    <3>1. Owner[x] > req[h].after
      BY <1>3, <2>1
    <3>2. SUFFICES ASSUME NEW p \in req[h].listed PROVE Owner[p] <= cursor
      OBVIOUS
    <3>3. Owner[p] \in Nat /\ Owner[p] <= req[h].after
      BY <1>6, <1>7
    <3> QED
      BY <1>7, <2>1, <2>2, <3>1, <3>3
  <2>9. ListingFits(h)'
    BY <1>1, <1>2, <1>3, <1>7, <1>8, <2>1, <2>3, <2>5, <2>7, <2>8 DEF ListingFits, Reading
  <2>10. "paged" \in Label /\ "paged" \notin Locking
    BY DEF Label, Locking
  <2> QED
    BY <1>1, <1>2, <2>3, <2>4, <2>5, <2>6, <2>9, <2>10, PlainStep
<1> QED
  BY <1>10, <1>11 DEF Sort, answered, page

----------------------------------------------------------------------------
(* Writes, probes and the environment.                                     *)

\* A write leaves one active generation of a collection at most.
LEMMA OutcomesKeep ==
  ASSUME IInv, records' \in Outcomes
  PROVE  /\ records' \in [Point -> {"inactive", "active", "retired"}]
         /\ OneActive(Active') /\ Active' \subseteq Point
<1>1. records \in [Point -> {"inactive", "active", "retired"}] /\ OneActive(Active)
  BY DEF IInv, TypeOK
<1>2. CASE records' = records
  BY <1>1, <1>2 DEF Active, OneActive
<1>3. ASSUME NEW p \in Point, records' = Activated(p)
      PROVE  /\ records' \in [Point -> {"inactive", "active", "retired"}]
             /\ OneActive(Active')
  <2>1. records' \in [Point -> {"inactive", "active", "retired"}]
    BY <1>1, <1>3 DEF Activated
  <2>2. \A q \in Point : q \in Active' <=> q = p \/ (q \in Active /\ Owner[q] # Owner[p])
    BY <1>1, <1>3 DEF Activated, Active
  <2>3. Active' \subseteq Point
    BY DEF Active
  <2> QED
    BY <1>1, <2>1, <2>2, <2>3 DEF OneActive
<1>4. ASSUME NEW p \in Point, records' = Retired(Owner[p])
      PROVE  /\ records' \in [Point -> {"inactive", "active", "retired"}]
             /\ OneActive(Active')
  <2>1. records' \in [Point -> {"inactive", "active", "retired"}]
    BY <1>1, <1>4 DEF Retired
  <2>2. \A q \in Point : q \in Active' => q \in Active
    BY <1>1, <1>4 DEF Retired, Active
  <2>3. Active' \subseteq Point
    BY DEF Active
  <2> QED
    BY <1>1, <2>1, <2>2, <2>3 DEF OneActive
<1>5. \/ records' = records
      \/ \E p \in Point : records' = Activated(p)
      \/ \E p \in Point : records' = Retired(Owner[p])
  BY DEF Outcomes, Active
<1>6. Active' \subseteq Point
  BY DEF Active
<1> QED
  BY <1>2, <1>3, <1>4, <1>5, <1>6

\* A write in the middle of listings changes only what they may or may not show.
LEMMA WriteStep ==
  ASSUME IInv, NEW h \in Handler, Write(h)
  PROVE  IInv'
<1>1. /\ pc \in [Handler -> Label] /\ req \in [Handler -> Request]
      /\ steady \in [Handler -> SUBSET Point] /\ once \in [Handler -> SUBSET Point]
      /\ pc[h] = "access" /\ req[h].op = "write" /\ RequestFits(h)
      /\ pc' = [pc EXCEPT ![h] = "idle"] /\ req' = [req EXCEPT ![h] = Idle]
      /\ Idle \in Request
      /\ UNCHANGED <<collection, indexes, late, initialized, lock>>
  BY Known DEF Write, Goto, process, IInv, TypeOK
<1>2. /\ records' \in [Point -> {"inactive", "active", "retired"}]
      /\ OneActive(Active') /\ Active' \subseteq Point
  BY OutcomesKeep DEF Write
<1>3. /\ steady' = [g \in Handler |-> steady[g] \cap Active']
      /\ once' = [g \in Handler |-> IF Reading(g) THEN once[g] \cup Active' ELSE once[g]]
  BY DEF Write, Observed
<1>4. /\ pc'[h] = "idle" /\ req'[h] = Idle
      /\ \A g \in Handler \ {h} : pc'[g] = pc[g] /\ req'[g] = req[g]
  BY <1>1
<1>5. TypeOK'
  <2>1. "idle" \in Label
    BY DEF Label
  <2>2. steady' \in [Handler -> SUBSET Point] /\ once' \in [Handler -> SUBSET Point]
    BY <1>1, <1>2, <1>3
  <2>3. pc' \in [Handler -> Label] /\ req' \in [Handler -> Request]
    BY <1>1, <2>1
  <2> QED
    BY <1>1, <1>2, <2>2, <2>3 DEF IInv, TypeOK
<1>6. LockIsHeld'
  BY <1>1, <1>4 DEF IInv, TypeOK, LockIsHeld, Locking
<1>7. FlagIsTrue'
  BY <1>1, <1>4 DEF IInv, TypeOK, FlagIsTrue, Prepared
<1>8. LateCallsFit' /\ OneActive(Active)'
  BY <1>1, <1>2 DEF IInv, LateCallsFit, OneActive
<1>9. ASSUME NEW g \in Handler \ {h}
      PROVE  CreationFits(g)' /\ RequestFits(g)' /\ ListingFits(g)'
  <2>1. /\ pc'[g] = pc[g] /\ req'[g] = req[g] /\ steady'[g] = steady[g] \cap Active'
        /\ once'[g] = IF Reading(g) THEN once[g] \cup Active' ELSE once[g]
    BY <1>3, <1>4
  <2>2. CreationFits(g) /\ RequestFits(g) /\ ListingFits(g)
    BY Known
  <2>3. CreationFits(g)'
    BY <1>1, <2>1, <2>2 DEF CreationFits
  <2>4. RequestFits(g)'
    BY <2>1, <2>2 DEF RequestFits
  <2>5. Reading(g)' <=> Reading(g)
    BY <2>1 DEF Reading
  <2>6. once[g] \subseteq once'[g] /\ steady'[g] \subseteq Active' \cap once'[g]
    BY <2>1, <2>2 DEF ListingFits
  <2>7. ASSUME NEW p \in steady'[g], NEW q \in once'[g], Owner[p] = Owner[q]
        PROVE  p = q
    <3>1. CASE q \in once[g]
      BY <2>1, <2>2, <2>7, <3>1 DEF ListingFits
    <3>2. CASE q \in Active'
      BY <1>2, <2>1, <2>7, <3>2 DEF OneActive
    <3> QED
      BY <2>1, <3>1, <3>2
  <2>8. pc[g] = "refused" => once'[g] = once[g]
    BY <2>1 DEF Reading
  <2>9. Reading(g) => Active' \subseteq once'[g]
    BY <2>1
  <2>10. steady'[g] \subseteq steady[g]
    BY <2>1
  <2>11. ListingFits(g)'
    BY <2>1, <2>2, <2>5, <2>6, <2>7, <2>8, <2>9, <2>10 DEF ListingFits
  <2> QED
    BY <2>3, <2>4, <2>11
<1>10. CreationFits(h)' /\ RequestFits(h)' /\ ListingFits(h)'
  <2>1. /\ Idle.op = "none" /\ Idle.found = {} /\ Idle.page = {} /\ Idle.listed = {}
        /\ Idle.offset = 0
    BY DEF Idle
  <2>2. steady'[h] = {}
    BY <1>1, <1>3 DEF RequestFits
  <2>3. RequestFits(h)' /\ ListingFits(h)'
    BY <1>4, <2>1, <2>2, NoListing
  <2> QED
    BY <1>4, <2>3 DEF CreationFits
<1> QED
  BY <1>5, <1>6, <1>7, <1>8, <1>9, <1>10 DEF IInv

\* The probe passes or fails; it has nothing else to lose.
LEMMA ProbeStep ==
  ASSUME IInv, NEW h \in Handler, Probe(h)
  PROVE  IInv'
<1>1. /\ pc \in [Handler -> Label] /\ req \in [Handler -> Request] /\ req[h] \in Request
      /\ steady \in [Handler -> SUBSET Point] /\ once \in [Handler -> SUBSET Point]
      /\ pc[h] = "access" /\ req[h].op = "probe" /\ pc[h] \notin Locking
      /\ RequestFits(h) /\ ListingFits(h) /\ initialized[Home[h]] /\ UNCHANGED store
  BY Known DEF Probe, Fails, Locking, IInv, TypeOK, FlagIsTrue
<1>2. Grows
  BY <1>1, StoreGrows
<1>3. CASE Fails(h)
  BY <1>1, <1>2, <1>3, RaiseInvariant DEF Fails
<1>4. CASE Goto(h, "prepared") /\ UNCHANGED <<req, store, process, views>>
  <2>1. /\ pc' = [pc EXCEPT ![h] = "prepared"] /\ req' = [req EXCEPT ![h] = req[h]]
        /\ steady' = [steady EXCEPT ![h] = steady[h]] /\ once' = [once EXCEPT ![h] = once[h]]
        /\ UNCHANGED process
    BY <1>1, <1>4 DEF views, Goto
  <2>2. pc'[h] = "prepared" /\ req'[h] = req[h] /\ steady'[h] = {}
    BY <1>1, <2>1 DEF RequestFits
  <2>3. RequestFits(h)' /\ ListingFits(h)'
    BY <1>1, <2>2, NoListing DEF RequestFits
  <2>4. "prepared" \in Label /\ "prepared" \notin Locking
    BY DEF Label, Locking
  <2> QED
    BY <1>1, <1>2, <2>1, <2>3, <2>4, PlainStep
<1> QED
  BY <1>3, <1>4 DEF Probe

\* Wherever a probe is cancelled, it leaves the lock.
LEMMA CancelStep ==
  ASSUME IInv, NEW h \in Handler, Cancel(h)
  PROVE  IInv'
<1>1. pc[h] \in {"readyz", "enter", "get", "create", "index", "access"} /\ Raise(h)
  BY DEF Cancel
<1>2. /\ collection \in {"none", "compatible", "incompatible"}
      /\ pc[h] = "create" => collection # "incompatible"
      /\ pc[h] = "index" => /\ collection = "compatible" /\ req[h].index > 0
                           /\ req[h].index \in 0 .. Indexes
  BY Known DEF IInv, TypeOK, CreationFits, Request
<1>3. CASE pc[h] = "create" /\ Unanswered(0) /\ UNCHANGED records
  <2>1. 0 \in 0 .. Indexes
    BY Numbers
  <2>2. Grows
    BY <1>2, <1>3, <2>1, CallsGrow
  <2> QED
    BY <1>1, <2>2, RaiseInvariant
<1>4. CASE pc[h] = "index" /\ Unanswered(req[h].index) /\ UNCHANGED records
  <2>1. Grows
    BY <1>2, <1>4, CallsGrow
  <2> QED
    BY <1>1, <2>1, RaiseInvariant
<1>5. CASE UNCHANGED store
  BY <1>1, <1>5, StoreGrows, RaiseInvariant
<1> QED
  BY <1>3, <1>4, <1>5 DEF Cancel

\* A creation that lands late only adds to the collection.
LEMMA LateCallStep ==
  ASSUME IInv, LateCallLands
  PROVE  IInv'
<1>1. PICK call \in late : Applies(call)
  BY DEF LateCallLands
<1>2. UNCHANGED <<records, process, pc, req, views>>
  BY DEF LateCallLands
<1>3. Grows
  <2>1. call \in 0 .. Indexes /\ (IF call = 0 THEN collection = "none" ELSE collection = "compatible")
    BY <1>1 DEF IInv, TypeOK, LateCallsFit
  <2> QED
    BY <1>1, <1>2, <2>1, CallsGrow
<1>4. (Prepared => Prepared') /\ Active' = Active
  BY <1>3, GrowsKeeps
<1>5. TypeOK'
  BY <1>2, <1>3 DEF IInv, TypeOK, Grows, process, views
<1>6. LockIsHeld' /\ FlagIsTrue' /\ LateCallsFit' /\ OneActive(Active)'
  BY <1>2, <1>3, <1>4 DEF IInv, Grows, LockIsHeld, FlagIsTrue, OneActive, process
<1>7. ASSUME NEW h \in Handler
      PROVE  CreationFits(h)' /\ RequestFits(h)' /\ ListingFits(h)'
  <2>1. CreationFits(h) /\ RequestFits(h) /\ ListingFits(h)
    BY Known
  <2>2. CreationFits(h)'
    BY <1>2, <1>3, <2>1 DEF CreationFits, Grows
  <2>3. RequestFits(h)'
    BY <1>2, <2>1 DEF RequestFits, views
  <2>4. ListingFits(h)'
    BY <1>2, <1>4, <2>1 DEF ListingFits, Reading, views
  <2> QED
    BY <2>2, <2>3, <2>4
<1> QED
  BY <1>5, <1>6, <1>7 DEF IInv

\* A restart frees the lock with everything that could hold it.
LEMMA CrashStep ==
  ASSUME IInv, NEW r \in Replica, Crash(r)
  PROVE  IInv'
<1> DEFINE lost == {h \in Handler : Home[h] = r /\ ~Told(h)}
<1>1. /\ initialized' = [initialized EXCEPT ![r] = FALSE]
      /\ lock' = [lock EXCEPT ![r] = None]
      /\ pc' = [h \in Handler |-> IF h \notin lost THEN pc[h]
                                ELSE IF req[h].op = "list" THEN "paged" ELSE "idle"]
      /\ req' = [h \in Handler |-> IF h \notin lost THEN req[h]
                                 ELSE IF req[h].op = "list" THEN Remains(h) ELSE Idle]
      /\ UNCHANGED <<store, views>>
  BY DEF Crash
<1>2. /\ Active' = Active /\ LateCallsFit' /\ OneActive(Active)'
      /\ UNCHANGED <<collection, indexes, records, late, steady, once>>
  BY <1>1 DEF store, views, Active, LateCallsFit, OneActive, IInv
<1>3. ASSUME NEW h \in Handler \ lost
      PROVE  /\ pc'[h] = pc[h] /\ req'[h] = req[h]
             /\ CreationFits(h)' /\ RequestFits(h)' /\ ListingFits(h)'
  <2>1. pc'[h] = pc[h] /\ req'[h] = req[h]
    BY <1>1
  <2>2. CreationFits(h) /\ RequestFits(h) /\ ListingFits(h)
    BY Known
  <2>3. CreationFits(h)'
    BY <1>2, <2>1, <2>2 DEF CreationFits
  <2>4. RequestFits(h)'
    BY <1>2, <2>1, <2>2 DEF RequestFits
  <2>5. ListingFits(h)'
    BY <1>2, <2>1, <2>2 DEF ListingFits, Reading
  <2> QED
    BY <2>1, <2>3, <2>4, <2>5
<1>4. ASSUME NEW h \in lost
      PROVE  /\ pc'[h] \in {"paged", "idle"} /\ req'[h] \in Request
             /\ CreationFits(h)' /\ RequestFits(h)' /\ ListingFits(h)'
  <2>1. /\ req[h] \in Request /\ RequestFits(h) /\ ListingFits(h) /\ Idle \in Request
        /\ pc[h] \notin {"idle", "paged", "complete", "refused"}
    BY Known DEF Told
  <2>2. CASE req[h].op = "list"
    <3>1. Remains(h) = [req[h] EXCEPT !.limit = 0, !.index = 0, !.offset = 0, !.found = {}]
      BY <2>2 DEF Remains
    <3>2. 0 \in 0 .. Indexes
      BY Numbers
    <3>3. pc'[h] = "paged" /\ req'[h] = Remains(h)
      BY <1>1, <2>2
    <3>4. /\ Remains(h) \in Request
          /\ req'[h].op = "list" /\ req'[h].found = {} /\ req'[h].offset = 0
          /\ req'[h].page = req[h].page /\ req'[h].listed = req[h].listed
          /\ req'[h].after = req[h].after
      <4>1. Remains(h) \in Request
        BY <2>1, <3>1, <3>2 DEF Request
      <4>2. /\ Remains(h).op = "list" /\ Remains(h).found = {} /\ Remains(h).offset = 0
            /\ Remains(h).page = req[h].page /\ Remains(h).listed = req[h].listed
            /\ Remains(h).after = req[h].after
        BY <2>1, <2>2, <3>1 DEF Request
      <4> QED
        BY <3>3, <4>1, <4>2
    <3>5. req[h].page = {}
      BY <2>1 DEF RequestFits
    <3>6. RequestFits(h)'
      BY <3>3, <3>4 DEF RequestFits
    <3>7. ListingFits(h)'
      BY <1>2, <2>1, <3>3, <3>4, <3>5 DEF ListingFits, Reading
    <3>8. CreationFits(h)'
      BY <3>3 DEF CreationFits
    <3> QED
      BY <3>3, <3>4, <3>6, <3>7, <3>8
  <2>3. CASE req[h].op # "list"
    <3>1. pc'[h] = "idle" /\ req'[h] = Idle
      BY <1>1, <2>3
    <3>2. /\ Idle.op = "none" /\ Idle.found = {} /\ Idle.page = {} /\ Idle.listed = {}
          /\ Idle.offset = 0
      BY DEF Idle
    <3>3. steady'[h] = {}
      BY <1>2, <2>1, <2>3 DEF RequestFits
    <3>4. RequestFits(h)' /\ ListingFits(h)'
      BY <3>1, <3>2, <3>3, NoListing
    <3> QED
      BY <2>1, <3>1, <3>4 DEF CreationFits
  <2> QED
    BY <2>2, <2>3
<1>5. TypeOK'
  <2>1. pc' \in [Handler -> Label]
    BY <1>1 DEF IInv, TypeOK, Label
  <2>2. \A h \in Handler : req'[h] \in Request
    BY <1>3, <1>4 DEF IInv, TypeOK
  <2>3. req' \in [Handler -> Request]
    BY <1>1, <2>2
  <2> QED
    BY <1>1, <1>2, <2>1, <2>3 DEF IInv, TypeOK
<1>6. LockIsHeld'
  <2>1. \A h \in Handler : pc'[h] \in Locking => pc'[h] = pc[h] /\ Home[h] # r
    BY <1>1 DEF Locking, Told
  <2>2. \A h \in Handler : Home[h] # r => pc'[h] = pc[h]
    BY <1>1
  <2> QED
    BY <1>1, <2>1, <2>2 DEF IInv, TypeOK, LockIsHeld
<1>7. FlagIsTrue'
  <2>1. \A h \in Handler : pc'[h] \in {"access", "sort", "prepared"} => pc'[h] = pc[h] /\ Home[h] # r
    BY <1>1 DEF Told
  <2> QED
    BY <1>1, <1>2, <2>1 DEF IInv, TypeOK, FlagIsTrue, Prepared
<1> QED
  BY <1>2, <1>3, <1>4, <1>5, <1>6, <1>7 DEF IInv

\* A step that changes nothing.
LEMMA StutterStep ==
  ASSUME IInv, UNCHANGED vars
  PROVE  IInv'
<1>1. UNCHANGED <<collection, indexes, records, late, initialized, lock, pc, req, steady, once>>
  BY DEF vars, store, process, views
<1>2. /\ TypeOK' /\ LockIsHeld' /\ FlagIsTrue' /\ LateCallsFit' /\ OneActive(Active)'
  BY <1>1 DEF IInv, TypeOK, LockIsHeld, FlagIsTrue, Prepared, LateCallsFit, OneActive, Active
<1>3. ASSUME NEW h \in Handler
      PROVE  CreationFits(h)' /\ RequestFits(h)' /\ ListingFits(h)'
  BY <1>1, Known DEF CreationFits, RequestFits, ListingFits, Reading, Active
<1> QED
  BY <1>2, <1>3 DEF IInv

\* The invariant of every request's way to the catalog: the flag and the lock of
\* each replica agree with the calls under way and with the collection, and every
\* listing can still be completed to a faithful one.
THEOREM AccessInvariant == Spec => []IInv
<1>1. Init => IInv
  BY InitInvariant
<1>2. IInv /\ [Next]_vars => IInv'
  <2> SUFFICES ASSUME IInv, [Next]_vars PROVE IInv'
    OBVIOUS
  <2>1. CASE UNCHANGED vars
    BY <2>1, StutterStep
  <2>2. ASSUME NEW h \in Handler, Begin(h) \/ BeginProbe(h) \/ Return(h)
        PROVE  IInv'
    BY <2>2, BeginListStep, NextPageStep, BeginOtherStep, ReturnStep DEF Begin
  <2>3. ASSUME NEW h \in Handler, EnterLock(h) \/ Continue(h) \/ Cancel(h)
        PROVE  IInv'
    BY <2>3, EnterLockStep, ReadyZStep, GetCollectionStep, CreateCollectionStep,
       CreateIndexStep, ScrollStep, SortStep, WriteStep, ProbeStep, CancelStep DEF Continue
  <2>4. CASE LateCallLands
    BY <2>4, LateCallStep
  <2>5. ASSUME NEW r \in Replica, Crash(r)
        PROVE  IInv'
    BY <2>5, CrashStep
  <2> QED
    BY <2>1, <2>2, <2>3, <2>4, <2>5 DEF Next
<1> QED
  BY <1>1, <1>2, PTL DEF Spec

\* What a client puts together page by page is faithful for any number of
\* generations and pages of any size: list_logical and its cursor, with writes,
\* failures, repeated requests and restarts between the scrolls and the pages.
THEOREM ListingTheorem == Spec => []ListingIsFaithful
<1>1. IInv => ListingIsFaithful
  <2> SUFFICES ASSUME IInv PROVE ListingIsFaithful
    OBVIOUS
  <2>1. ASSUME NEW h \in Handler
        PROVE  /\ req[h].page \subseteq once[h]
               /\ \A p \in req[h].page, q \in req[h].listed : Owner[p] # Owner[q]
               /\ \A p \in req[h].page \cap steady[h], q \in req[h].page : Owner[p] = Owner[q] => p = q
               /\ \A p \in steady[h] : Owner[p] <= req[h].after => p \in req[h].listed \cup req[h].page
               /\ pc[h] = "complete" => steady[h] \subseteq req[h].listed \cup req[h].page
    BY Known DEF ListingFits
  <2> QED
    BY <2>1 DEF ListingIsFaithful
<1> QED
  BY <1>1, AccessInvariant, PTL

\* A listing is refused only beyond the limit, whatever the limit and the size of
\* the scrolls that lead to it.
THEOREM LimitTheorem == Spec => []LimitIsExact
<1>1. IInv => LimitIsExact
  BY Known DEF LimitIsExact, ListingFits
<1> QED
  BY <1>1, AccessInvariant, PTL

----------------------------------------------------------------------------
(* Readiness.                                                              *)

\* A restart does what a crash does, and every other step of a readiness request
\* is a step of its probe or none.
THEOREM ReadinessImplementsAccess == ReadinessSpec => ImplementsAccess
<1>1. ReadinessInit => Init
  BY DEF ReadinessInit
<1>2. [ReadinessNext]_readinessVars => [Next]_vars
  <2> SUFFICES ASSUME [ReadinessNext]_readinessVars PROVE [Next]_vars
    OBVIOUS
  <2>1. CASE UNCHANGED readinessVars
    BY <2>1 DEF readinessVars
  <2>2. ASSUME NEW h \in Handler, BeginReady(h) \/ EmbeddingReady(h) \/ StoreReady(h)
        PROVE  [Next]_vars
    BY <2>2 DEF BeginReady, EmbeddingReady, StoreReady, Answers, Next
  <2>3. ASSUME NEW h \in Handler, Respond(h) \/ TotalTimeout(h) \/ Access(h)
        PROVE  [Next]_vars
    BY <2>3 DEF Respond, TotalTimeout, Stop, Access, Next
  <2>4. CASE LateCallLands /\ UNCHANGED <<checks, claimed>>
    BY <2>4 DEF Next
  <2>5. ASSUME NEW r \in Replica, ReplicaRestarts(r)
        PROVE  [Next]_vars
    BY <2>5 DEF ReplicaRestarts, Next
  <2> QED
    BY <2>1, <2>2, <2>3, <2>4, <2>5 DEF ReadinessNext
<1> QED
  BY <1>1, <1>2, PTL DEF ReadinessSpec, ImplementsAccess, Spec

\* Whoever has called itself ready has the flag, which no failure takes back.
ClaimsAreFlagged == claimed \in [Replica -> BOOLEAN] /\ \A r \in Replica : claimed[r] => initialized[r]

\* The flag goes down in a restart only.
LEMMA FlagStays ==
  ASSUME IInv, NEW r \in Replica, initialized[r],
         \/ UNCHANGED vars
         \/ LateCallLands
         \/ \E h \in Handler : Begin(h) \/ BeginProbe(h) \/ Return(h)
         \/ \E h \in Handler : EnterLock(h) \/ Continue(h) \/ Cancel(h)
  PROVE  initialized'[r]
<1>1. initialized \in [Replica -> BOOLEAN]
  BY DEF IInv, TypeOK
<1>2. CASE UNCHANGED vars
  BY <1>2 DEF vars, process
<1>3. ASSUME NEW h \in Handler, Begin(h) \/ BeginProbe(h) \/ Return(h)
      PROVE  initialized'[r]
  BY <1>3 DEF Begin, BeginList, NextPage, BeginWrite, BeginProbe, Return, process
<1>4. ASSUME NEW h \in Handler, EnterLock(h) \/ Continue(h) \/ Cancel(h)
      PROVE  initialized'[r]
  <2>1. CASE CreateIndex(h)
    BY <1>1, <2>1 DEF CreateIndex, Initialize, Raise, process
  <2>2. CASE ReadyZ(h) \/ GetCollection(h) \/ CreateCollection(h)
    BY <2>2 DEF ReadyZ, GetCollection, CreateCollection, Fails, Raise, process
  <2>3. CASE Scroll(h) \/ Sort(h) \/ Probe(h)
    BY <2>3 DEF Scroll, Sort, Probe, Fails, Raise, process
  <2>4. CASE Write(h) \/ EnterLock(h) \/ Cancel(h)
    BY <2>4 DEF Write, EnterLock, Cancel, Raise, process
  <2> QED
    BY <1>4, <2>1, <2>2, <2>3, <2>4 DEF Continue
<1>5. CASE LateCallLands
  BY <1>5 DEF LateCallLands, process
<1> QED
  BY <1>2, <1>3, <1>4, <1>5

\* GET /health/ready tells the truth for as long as the process runs, whatever
\* the probe met and however the three answers, the two bounds and the creations
\* of others interleave.
THEOREM ReadinessTheorem == ReadinessSpec => []ReadinessIsTruthful
<1>1. ReadinessInit => ClaimsAreFlagged
  BY DEF ReadinessInit, ClaimsAreFlagged
<1>2. IInv /\ ClaimsAreFlagged /\ [ReadinessNext]_readinessVars => ClaimsAreFlagged'
  <2> SUFFICES ASSUME IInv, ClaimsAreFlagged, [ReadinessNext]_readinessVars
               PROVE  ClaimsAreFlagged'
    OBVIOUS
  <2>1. ASSUME NEW r \in Replica, ReplicaRestarts(r)
        PROVE  ClaimsAreFlagged'
    BY <2>1 DEF ReplicaRestarts, Crash, ClaimsAreFlagged, IInv, TypeOK
  <2>2. ASSUME NEW h \in Handler, Respond(h)
        PROVE  ClaimsAreFlagged'
    <3>1. /\ claimed' = [claimed EXCEPT ![Home[h]] = claimed[Home[h]] \/ IsReady(h)]
          /\ UNCHANGED initialized /\ Home[h] \in Replica
      BY <2>2, Known DEF Respond, Return, process, ClaimsAreFlagged
    <3>2. IsReady(h) => initialized[Home[h]]
      BY DEF IsReady, IInv, FlagIsTrue
    <3>3. IsReady(h) \in BOOLEAN
      BY DEF IsReady
    <3> QED
      BY <3>1, <3>2, <3>3 DEF ClaimsAreFlagged
  <2>3. \A h \in Handler : (Answers(h, "embedding") \/ Answers(h, "vector_store")) => UNCHANGED <<vars, claimed>>
    BY DEF Answers
  <2>4. CASE UNCHANGED readinessVars
    BY <2>4, FlagStays DEF ClaimsAreFlagged, readinessVars
  <2>5. CASE LateCallLands /\ UNCHANGED <<checks, claimed>>
    BY <2>5, FlagStays DEF ClaimsAreFlagged
  <2>6. ASSUME NEW h \in Handler, BeginReady(h) \/ EmbeddingReady(h) \/ StoreReady(h)
        PROVE  ClaimsAreFlagged'
    BY <2>3, <2>6, FlagStays DEF ClaimsAreFlagged, BeginReady, EmbeddingReady, StoreReady
  <2>7. ASSUME NEW h \in Handler, TotalTimeout(h) \/ Access(h)
        PROVE  ClaimsAreFlagged'
    BY <2>7, FlagStays DEF ClaimsAreFlagged, TotalTimeout, Stop, Access
  <2> QED
    BY <2>1, <2>2, <2>4, <2>5, <2>6, <2>7 DEF ReadinessNext
<1>3. IInv /\ ClaimsAreFlagged => ReadinessIsTruthful
  <2> SUFFICES ASSUME IInv, ClaimsAreFlagged, NEW r \in Replica, claimed[r]
               PROVE  /\ Prepared
                      /\ \A h \in Handler : Home[h] = r => pc[h] \notin Locking
    BY DEF ReadinessIsTruthful
  <2>1. initialized[r] /\ Prepared /\ lock[r] = None
    BY DEF ClaimsAreFlagged, IInv, FlagIsTrue
  <2> QED
    BY <2>1 DEF IInv, LockIsHeld
<1>4. ReadinessSpec => []IInv
  BY ReadinessImplementsAccess, AccessInvariant, PTL DEF ImplementsAccess
<1> QED
  BY <1>1, <1>2, <1>3, <1>4, PTL DEF ReadinessSpec
=============================================================================
