--------------------------- MODULE CatalogAccess ---------------------------
(***************************************************************************)
(* How requests reach the records of QdrantCollectionCatalog, which are    *)
(* points of one private Qdrant collection.                                *)
(*                                                                         *)
(* Every operation first makes sure that the collection exists with all    *)
(* its payload indexes (_ensure_catalog: a double-checked flag under a     *)
(* lock), then reads or writes records.  Of the operations, list_logical   *)
(* is modelled page by page: several scroll calls make one page of the     *)
(* answer, and a client puts several answers together with the cursor of   *)
(* the one before, while other requests activate and retire generations.   *)
(* Of the records only what a listing sees is kept: whether a generation   *)
(* is active.  A write that lands after its timeout is a write whose       *)
(* request is still running.                                               *)
(***************************************************************************)
EXTENDS Integers, FiniteSets

CONSTANTS
  Point,        \* the ids of the points, one for each generation; scrolls go in their order
  Owner,        \* the logical collection of each point; pages go in its order
  PageSize,     \* _PAGE_SIZE: the most points of one scroll call
  MaxResults,   \* _MAX_CATALOG_RESULTS: the most points of one listing
  Limits,       \* the page sizes clients ask for
  Indexes,      \* how many payload indexes the collection needs
  Replica,      \* Core processes: each has a flag and a lock of its own
  Handler,      \* request slots that may be busy at the same time
  Home,         \* the replica of each slot
  Serves,       \* the operations each slot may serve: "list", "write", "probe"
  None,         \* the holder of a free lock
  Unreliable,   \* may calls to Qdrant fail?
  LateCalls,    \* how many creations that timed out may still take effect later
  Crashes       \* may a replica restart?

ASSUME AccessAssumption ==
  /\ Point \subseteq Nat \ {0}
  /\ IsFiniteSet(Point)
  /\ Owner \in [Point -> Nat \ {0}]
  /\ Limits \subseteq Nat \ {0}
  /\ {PageSize, MaxResults, Indexes} \subseteq Nat \ {0}
  /\ Home \in [Handler -> Replica]
  /\ Serves \in [Handler -> SUBSET {"list", "write", "probe"}]
  /\ None \notin Handler
  /\ LateCalls \in Nat
  /\ {Unreliable, Crashes} \subseteq BOOLEAN

VARIABLES
  collection,   \* the private collection: "none", "compatible" or "incompatible"
  indexes,      \* its payload indexes, in the order of _CATALOG_INDEXES
  records,      \* whether each generation is active, was, or is not yet
  late,         \* creation calls under way that will have effect: an index, or 0 for the collection
  initialized,  \* _initialized, in each replica
  lock,         \* the holder of _initialize_lock, in each replica
  pc,           \* the call each handler makes next
  req,          \* the local variables of its request and, for a listing, what the
                \* client has been told so far
  steady,       \* the points active ever since the client began its listing
  once          \* the points active at some time of its last request

store == <<collection, indexes, records, late>>

process == <<initialized, lock>>

views == <<steady, once>>

vars == <<store, process, pc, req, views>>

Active == {p \in Point : records[p] = "active"}

\* The collection has the right vector schema and every index.
Prepared == collection = "compatible" /\ indexes = 1 .. Indexes

Idle ==
  [op |-> "none", limit |-> 0, index |-> 0, offset |-> 0, found |-> {},
   after |-> 0, listed |-> {}, page |-> {}]

Request ==
  [op : {"none", "list", "write", "probe"}, limit : Limits \cup {0}, index : 0 .. Indexes,
   offset : Point \cup {0}, found : SUBSET Point, after : Nat,
   listed : SUBSET Point, page : SUBSET Point]

Label ==
  {"idle", "readyz", "enter", "get", "create", "index", "access", "sort",
   "paged", "complete", "refused", "prepared", "unavailable"}

\* At most one generation of a collection is active: CollectionLifecycle shows it.
OneActive(active) == \A p, q \in active : Owner[p] = Owner[q] => p = q

Init ==
  /\ collection \in {"none", "compatible", "incompatible"}
  /\ indexes \in {1 .. i : i \in 0 .. Indexes}
  /\ records \in [Point -> {"inactive", "active"}]
  /\ OneActive(Active)
  /\ collection # "compatible" => indexes = {}
  /\ ~Prepared => Active = {}
  /\ late = {}
  /\ initialized = [r \in Replica |-> FALSE]
  /\ lock = [r \in Replica |-> None]
  /\ pc = [h \in Handler |-> "idle"]
  /\ req = [h \in Handler |-> Idle]
  /\ steady = [h \in Handler |-> {}]
  /\ once = [h \in Handler |-> {}]

----------------------------------------------------------------------------
Goto(h, label) == pc' = [pc EXCEPT ![h] = label]

\* Slip: the lock is taken and given back by hand, and an error skips the latter.
ReleaseNot(h) == lock' = lock

\* Leaving the block that holds the lock, in whatever way.
Release(h) == lock' = [lock EXCEPT ![Home[h]] = IF @ = h THEN None ELSE @]

\* What a failed request leaves.  The client of a listing still has its cursor
\* and may send the request again.
Remains(h) ==
  CASE req[h].op = "list" -> [req[h] EXCEPT !.limit = 0, !.index = 0, !.offset = 0, !.found = {}]
    [] req[h].op = "probe" -> [Idle EXCEPT !.op = "probe"]
    [] OTHER -> Idle

\* Where a request ends that fails: ready answers for itself.
Outcome(h) ==
  CASE req[h].op = "list" -> "paged" [] req[h].op = "probe" -> "unavailable" [] OTHER -> "idle"

Raise(h) ==
  /\ Goto(h, Outcome(h))
  /\ req' = [req EXCEPT ![h] = Remains(h)]
  /\ Release(h)
  /\ UNCHANGED <<initialized, views>>

\* A call that only reads fails.
Fails(h) == Unreliable /\ Raise(h) /\ UNCHANGED store

\* The first check of the flag, without the lock.
Checked(h) == IF initialized[Home[h]] THEN "access" ELSE "enter"
----------------------------------------------------------------------------
(* The requests.                                                           *)

BeginList(h) ==
  /\ pc[h] = "idle" /\ "list" \in Serves[h]
  /\ \E limit \in Limits : req' = [req EXCEPT ![h] = [Idle EXCEPT !.op = "list", !.limit = limit]]
  /\ Goto(h, Checked(h))
  /\ steady' = [steady EXCEPT ![h] = Active]
  /\ once' = [once EXCEPT ![h] = Active]
  /\ UNCHANGED <<store, process>>

\* The client asks for the page after the cursor, or again for the page that failed.
NextPage(h) ==
  /\ pc[h] = "paged"
  /\ \E limit \in Limits :
       req' = [req EXCEPT ![h] =
                [req[h] EXCEPT !.limit = limit, !.listed = req[h].listed \cup req[h].page, !.page = {}]]
  /\ Goto(h, Checked(h))
  /\ once' = [once EXCEPT ![h] = Active]
  /\ UNCHANGED <<store, process, steady>>

\* A change of the records.
BeginWrite(h) ==
  /\ pc[h] = "idle" /\ "write" \in Serves[h]
  /\ req' = [req EXCEPT ![h] = [Idle EXCEPT !.op = "write"]]
  /\ Goto(h, Checked(h))
  /\ UNCHANGED <<store, process, views>>

BeginProbe(h) ==
  /\ pc[h] = "idle" /\ "probe" \in Serves[h]
  /\ req' = [req EXCEPT ![h] = [Idle EXCEPT !.op = "probe"]]
  /\ Goto(h, "readyz")
  /\ UNCHANGED <<store, process, views>>

\* ready asks Qdrant whether it is up before it touches the catalog.
ReadyZ(h) ==
  /\ pc[h] = "readyz"
  /\ \/ Goto(h, Checked(h)) /\ UNCHANGED <<req, store, process, views>>
     \/ Fails(h)

\* The client has all pages or gives up; a probe's result has been taken.
Return(h) ==
  /\ pc[h] \in {"paged", "complete", "refused", "prepared", "unavailable"}
  /\ Goto(h, "idle")
  /\ req' = [req EXCEPT ![h] = Idle]
  /\ steady' = [steady EXCEPT ![h] = {}]
  /\ once' = [once EXCEPT ![h] = {}]
  /\ UNCHANGED <<store, process>>
----------------------------------------------------------------------------
(* _ensure_catalog.                                                        *)

\* The second check of the flag, under the lock.
EnterLock(h) ==
  /\ pc[h] = "enter"
  /\ lock[Home[h]] = None
  /\ \/ initialized[Home[h]] /\ Goto(h, "access") /\ UNCHANGED lock
     \/ ~initialized[Home[h]] /\ Goto(h, "get") /\ lock' = [lock EXCEPT ![Home[h]] = h]
  /\ UNCHANGED <<req, store, initialized, views>>

\* A collection with another vector schema is a conflict that ends the request.
GetCollection(h) ==
  /\ pc[h] = "get"
  /\ \/ /\ collection = "none" /\ Goto(h, "create")
        /\ UNCHANGED <<req, store, process, views>>
     \/ /\ collection = "compatible" /\ Goto(h, "index")
        /\ req' = [req EXCEPT ![h].index = 1]
        /\ UNCHANGED <<store, process, views>>
     \/ collection = "incompatible" /\ Raise(h) /\ UNCHANGED store
     \/ Fails(h)

\* What a creation call would create is there.
Exists(call) == IF call = 0 THEN collection # "none" ELSE call \in indexes

\* A creation call in effect: creating what exists changes nothing, and Qdrant's
\* conflict is passed over.  Another one under way for the same has none any more.
Applies(call) ==
  /\ collection' = IF call = 0 /\ collection = "none" THEN "compatible" ELSE collection
  /\ indexes' = IF call = 0 THEN indexes ELSE indexes \cup {call}
  /\ late' = late \ {call}

\* A creation call without an answer: it may have been applied, or will be.
Unanswered(call) ==
  \/ Applies(call)
  \/ UNCHANGED <<collection, indexes, late>>
  \/ /\ ~Exists(call) /\ Cardinality(late) < LateCalls
     /\ late' = late \cup {call}
     /\ UNCHANGED <<collection, indexes>>

CreateCollection(h) ==
  /\ pc[h] = "create"
  /\ \/ /\ Applies(0)
        /\ Goto(h, "index")
        /\ req' = [req EXCEPT ![h].index = 1]
        /\ UNCHANGED <<process, views>>
     \/ Unreliable /\ Unanswered(0) /\ Raise(h)
  /\ UNCHANGED records

\* Slip: the flag is set before the other indexes are there.
InitializeEarly(h) ==
  /\ initialized' = [initialized EXCEPT ![Home[h]] = TRUE]
  /\ Release(h)
  /\ Goto(h, "access")
  /\ req' = [req EXCEPT ![h].index = 0]

\* The flag is set when the last index is there, and the lock is released.
Initialize(h) ==
  /\ req[h].index = Indexes
  /\ initialized' = [initialized EXCEPT ![Home[h]] = TRUE]
  /\ Release(h)
  /\ Goto(h, "access")
  /\ req' = [req EXCEPT ![h].index = 0]

\* One index after the other.
CreateIndex(h) ==
  /\ pc[h] = "index"
  /\ \/ /\ Applies(req[h].index) /\ UNCHANGED views
        /\ \/ Initialize(h)
           \/ /\ req[h].index < Indexes
              /\ req' = [req EXCEPT ![h].index = @ + 1]
              /\ UNCHANGED <<pc, process>>
     \/ Unreliable /\ Unanswered(req[h].index) /\ Raise(h)
  /\ UNCHANGED records
----------------------------------------------------------------------------
(* Listing.                                                                *)

\* The first n of a set of points in the order of their ids, and of a set of
\* records in the order of their collections (sorted is stable).
FirstPoints(S, n) == {p \in S : Cardinality({q \in S : q < p}) < n}

Precedes(p, q) == Owner[p] < Owner[q] \/ (Owner[p] = Owner[q] /\ p < q)

FirstRecords(S, n) == {p \in S : Cardinality({q \in S : Precedes(q, p)}) < n}

\* What a scroll call returns: active points from the offset on, no more than a
\* page and no more than the listing may still take.
ScrollPage(h) ==
  LET room == MaxResults - Cardinality(req[h].found)
  IN  FirstPoints({p \in Active : p >= req[h].offset}, IF room < PageSize THEN room ELSE PageSize)

\* The active points behind that page; Qdrant names the first as the next offset.
Behind(h) == {p \in Active \ ScrollPage(h) : p >= req[h].offset}

\* Slip: whether the limit is reached is asked before whether anything is left.
ScrollEndsFull(h, found) ==
  \/ /\ Cardinality(found) >= MaxResults
     /\ Goto(h, "refused")
     /\ req' = [req EXCEPT ![h] = [req[h] EXCEPT !.found = found]]
  \/ /\ Cardinality(found) < MaxResults
     /\ Behind(h) = {}
     /\ Goto(h, "sort")
     /\ req' = [req EXCEPT ![h] = [req[h] EXCEPT !.found = found]]
  \/ /\ Cardinality(found) < MaxResults
     /\ \E next \in Behind(h) :
          /\ \A p \in Behind(h) : next <= p
          /\ req' = [req EXCEPT ![h] = [req[h] EXCEPT !.found = found, !.offset = next]]
     /\ UNCHANGED pc

\* After a page: the answer, a refusal, or the next page.
ScrollEnds(h, found) ==
  \/ /\ Behind(h) = {}
     /\ Goto(h, "sort")
     /\ req' = [req EXCEPT ![h] = [req[h] EXCEPT !.found = found]]
  \/ /\ Behind(h) # {}
     /\ \E next \in Behind(h) :
          /\ \A p \in Behind(h) : next <= p
          /\ req' = [req EXCEPT ![h] = [req[h] EXCEPT !.found = found, !.offset = next]]
     /\ \/ Cardinality(found) < MaxResults /\ UNCHANGED pc
        \/ Cardinality(found) >= MaxResults /\ Goto(h, "refused")

Scroll(h) ==
  /\ pc[h] = "access" /\ req[h].op = "list"
  /\ \/ ScrollEnds(h, req[h].found \cup ScrollPage(h)) /\ UNCHANGED <<store, process, views>>
     \/ Fails(h)

\* The records behind the client's cursor.
Remaining(h) == {p \in req[h].found : Owner[p] > req[h].after}

\* Slip: the cursor names the first collection that did not fit.
CursorOfNext(page, rest) == {Owner[p] : p \in {q \in rest : \A r \in rest : Owner[q] <= Owner[r]}}

\* The cursor names the last collection of the page.
Cursor(page, rest) == {Owner[p] : p \in {q \in page : \A r \in page : Owner[r] <= Owner[q]}}

\* list_logical sorts the records, skips those the cursor covers and cuts a page.
Sort(h) ==
  /\ pc[h] = "sort"
  /\ LET page == FirstRecords(Remaining(h), req[h].limit)
         rest == Remaining(h) \ page
         answered == [Remains(h) EXCEPT !.page = page]
     IN  \/ rest = {} /\ Goto(h, "complete") /\ req' = [req EXCEPT ![h] = answered]
         \/ /\ rest # {}
            /\ Goto(h, "paged")
            /\ \E cursor \in Cursor(page, rest) :
                 req' = [req EXCEPT ![h] = [answered EXCEPT !.after = cursor]]
  /\ UNCHANGED <<store, process, views>>
----------------------------------------------------------------------------
(* Writes and probes.                                                      *)

\* A generation becomes active in place of the one that was.
Activated(p) ==
  [q \in Point |-> IF q = p THEN "active"
                  ELSE IF q \in Active /\ Owner[q] = Owner[p] THEN "retired" ELSE records[q]]

\* Every generation of a collection is retired.
Retired(c) == [q \in Point |-> IF Owner[q] = c THEN "retired" ELSE records[q]]

\* The states a write may leave the records in: set_active and retire_logical
\* have their effect, the other writes none that a listing sees.
Outcomes ==
  {Activated(p) : p \in {q \in Point : records[q] = "inactive"}}
    \cup {Retired(Owner[p]) : p \in Active}
    \cup {records}

\* A request whose reads may still return what is active now.
Reading(h) == req[h].op = "list" /\ pc[h] \in {"enter", "get", "create", "index", "access"}

\* What the clients of running listings could have seen.
Observed ==
  /\ steady' = [h \in Handler |-> steady[h] \cap Active']
  /\ once' = [h \in Handler |-> IF Reading(h) THEN once[h] \cup Active' ELSE once[h]]

\* The request is answered or fails; either way its write may have had effect.
Write(h) ==
  /\ pc[h] = "access" /\ req[h].op = "write"
  /\ records' \in Outcomes
  /\ Observed
  /\ Goto(h, "idle")
  /\ req' = [req EXCEPT ![h] = Idle]
  /\ UNCHANGED <<collection, indexes, late, process>>

\* ready ends with a scroll of one point.
Probe(h) ==
  /\ pc[h] = "access" /\ req[h].op = "probe"
  /\ \/ Goto(h, "prepared") /\ UNCHANGED <<req, store, process, views>>
     \/ Fails(h)

\* The timeout of ready cancels it at the call it waits for, or waiting for the
\* lock; what it was creating may have been created.
Cancel(h) ==
  /\ req[h].op = "probe" /\ pc[h] \in {"readyz", "enter", "get", "create", "index", "access"}
  /\ \/ pc[h] = "create" /\ Unanswered(0) /\ UNCHANGED records
     \/ pc[h] = "index" /\ Unanswered(req[h].index) /\ UNCHANGED records
     \/ pc[h] \notin {"create", "index"} /\ UNCHANGED store
  /\ Raise(h)
----------------------------------------------------------------------------
(* The environment.                                                        *)

LateCallLands ==
  /\ \E call \in late : Applies(call)
  /\ UNCHANGED <<records, process, pc, req, views>>

\* What a client has been told survives a restart of the process that told it.
Told(h) == pc[h] \in {"idle", "paged", "complete", "refused"}

Crash(r) ==
  /\ Crashes
  /\ initialized' = [initialized EXCEPT ![r] = FALSE]
  /\ lock' = [lock EXCEPT ![r] = None]
  /\ LET lost == {h \in Handler : Home[h] = r /\ ~Told(h)}
     IN  /\ pc' = [h \in Handler |-> IF h \notin lost THEN pc[h]
                                   ELSE IF req[h].op = "list" THEN "paged" ELSE "idle"]
         /\ req' = [h \in Handler |-> IF h \notin lost THEN req[h]
                                    ELSE IF req[h].op = "list" THEN Remains(h) ELSE Idle]
  /\ UNCHANGED <<store, views>>

Begin(h) == BeginList(h) \/ NextPage(h) \/ BeginWrite(h)

Continue(h) ==
  \/ ReadyZ(h) \/ GetCollection(h) \/ CreateCollection(h) \/ CreateIndex(h)
  \/ Scroll(h) \/ Sort(h) \/ Write(h) \/ Probe(h)

Next ==
  \/ \E h \in Handler : Begin(h) \/ BeginProbe(h) \/ Return(h)
  \/ \E h \in Handler : EnterLock(h) \/ Continue(h) \/ Cancel(h)
  \/ LateCallLands
  \/ \E r \in Replica : Crash(r)

Spec == Init /\ [][Next]_vars

\* A request that has been sent and not answered.
Busy(h) == pc[h] \in {"readyz", "enter", "get", "create", "index", "access", "sort"}
----------------------------------------------------------------------------
TypeOK ==
  /\ collection \in {"none", "compatible", "incompatible"}
  /\ indexes \subseteq 1 .. Indexes
  /\ records \in [Point -> {"inactive", "active", "retired"}]
  /\ late \subseteq 0 .. Indexes
  /\ initialized \in [Replica -> BOOLEAN]
  /\ lock \in [Replica -> Handler \cup {None}]
  /\ pc \in [Handler -> Label]
  /\ req \in [Handler -> Request]
  /\ steady \in [Handler -> SUBSET Point]
  /\ once \in [Handler -> SUBSET Point]

\* What a client puts together page by page is a listing of the collections, at
\* whatever moments generations are activated and retired, requests fail and are
\* sent again, and the process restarts between the pages:
\* a page shows only what was active while its request ran, no collection comes
\* back on a later page, one whose generation stays active is not shown twice on
\* a page either, and none of these is missing up to where the client has come.
ListingIsFaithful ==
  \A h \in Handler :
    LET r == req[h]
        shown == r.listed \cup r.page
    IN  /\ r.page \subseteq once[h]
        /\ \A p \in r.page, q \in r.listed : Owner[p] # Owner[q]
        /\ \A p \in r.page \cap steady[h], q \in r.page : Owner[p] = Owner[q] => p = q
        /\ \A p \in steady[h] : Owner[p] <= r.after => p \in shown
        /\ pc[h] = "complete" => steady[h] \subseteq shown

\* A listing is refused only when more generations than the limit were active
\* while it was read: a catalog that just reaches the limit is listed.
LimitIsExact == \A h \in Handler : pc[h] = "refused" => Cardinality(once[h]) > MaxResults

----------------------------------------------------------------------------
(* The inductive invariant.                                                *)

Locking == {"get", "create", "index"}

\* The lock is held by exactly those who work under it.
LockIsHeld ==
  /\ \A h \in Handler : pc[h] \in Locking => lock[Home[h]] = h
  /\ \A r \in Replica : lock[r] # None => Home[lock[r]] = r /\ pc[lock[r]] \in Locking

\* The flag, and whoever has passed the check, speak for the collection.
FlagIsTrue ==
  /\ \A r \in Replica : initialized[r] => Prepared /\ lock[r] = None
  /\ \A h \in Handler : pc[h] \in {"access", "sort", "prepared"} => initialized[Home[h]]

\* What the creation of the collection has reached.
CreationFits(h) ==
  /\ pc[h] = "create" => collection # "incompatible"
  /\ pc[h] = "index" => /\ collection = "compatible"
                       /\ req[h].index > 0
                       /\ 1 .. req[h].index - 1 \subseteq indexes

LateCallsFit ==
  \A call \in late : IF call = 0 THEN collection = "none" ELSE collection = "compatible"

\* Which request is where, and what it leaves alone.
RequestFits(h) ==
  /\ pc[h] = "idle" <=> req[h].op = "none"
  /\ pc[h] \in {"readyz", "prepared", "unavailable"} => req[h].op = "probe"
  /\ pc[h] \in {"sort", "paged", "complete", "refused"} => req[h].op = "list"
  /\ req[h].op # "list" =>
       steady[h] = {} /\ req[h].found \cup req[h].listed = {} /\ req[h].offset = 0
  /\ pc[h] \notin {"paged", "complete"} => req[h].page = {}
  /\ pc[h] \notin {"access", "sort", "refused"} => req[h].found = {} /\ req[h].offset = 0

\* How far a listing has come, with what it has found and what it has shown.
ListingFits(h) ==
  /\ steady[h] \subseteq Active \cap once[h]
  /\ \A p \in steady[h], q \in once[h] : Owner[p] = Owner[q] => p = q
  /\ Reading(h) => Active \subseteq once[h]
  /\ req[h].found \cup req[h].page \subseteq once[h]
  /\ pc[h] = "access" => \A p \in req[h].found : p < req[h].offset
  /\ pc[h] = "access" => \A p \in steady[h] : p < req[h].offset => p \in req[h].found
  /\ pc[h] = "sort" => steady[h] \subseteq req[h].found
  /\ \A p \in req[h].listed : Owner[p] <= req[h].after
  /\ pc[h] = "paged" => \A p \in req[h].page : Owner[p] <= req[h].after
  /\ \A p \in req[h].page, q \in req[h].listed : Owner[p] # Owner[q]
  /\ \A p \in steady[h] : Owner[p] <= req[h].after => p \in req[h].listed \cup req[h].page
  /\ pc[h] = "complete" => steady[h] \subseteq req[h].listed \cup req[h].page
  /\ pc[h] = "refused" => Cardinality(once[h]) > MaxResults

\* The flag and the lock of every replica agree with the calls under way and with
\* what the collection has become, through late creations, conflicts between two
\* creators, cancellations and restarts, and every listing is where it can still
\* be completed to a faithful one.
IInv ==
  /\ TypeOK /\ LockIsHeld /\ FlagIsTrue /\ LateCallsFit /\ OneActive(Active)
  /\ \A h \in Handler : CreationFits(h) /\ RequestFits(h) /\ ListingFits(h)
=============================================================================
