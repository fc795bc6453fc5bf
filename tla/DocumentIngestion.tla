------------------------- MODULE DocumentIngestion -------------------------
(***************************************************************************)
(* The points of one logical collection as RagService (ingest, delete,     *)
(* retrieve) changes and reads them through the Qdrant vector store        *)
(* adapter, while CollectionLifecycle moves its generations underneath.    *)
(*                                                                         *)
(* Of the lifecycle only the abstract catalog is seen here: the steps of   *)
(* GenerationCatalog are environment steps, and ServedCollection puts the  *)
(* lifecycle itself in their place.  Qdrant applies the points of one call *)
(* in no order the adapter controls: a call that fails may have applied    *)
(* any part of itself.  The crash of a replica before a call is that call  *)
(* failing without effect.                                                 *)
(***************************************************************************)
EXTENDS Naturals

CONSTANTS
  Gen,          \* the generations of the logical collection
  Start,        \* the states of the generations at the start
  Document,     \* document ids
  Version,      \* content versions of a document: hashes of its text
  Chunks,       \* how many chunks the text of a version is split into
  Handler,      \* request slots that may be busy at the same time
  None,         \* where a request has no generation, document or version
  Operations,   \* what clients ask for: "ingest", "delete", "retrieve"
  Unreliable,   \* may a vector-store call fail?
  LateCalls,    \* may a call that timed out take effect later?
  Exclusive     \* do clients write to a document one request at a time, its late calls included?

ASSUME IngestionAssumption ==
  /\ None \notin Gen \cup Document \cup Version
  /\ Chunks \in [Version -> Nat \ {0}]
  /\ Operations \subseteq {"ingest", "delete", "retrieve"}
  /\ {Unreliable, LateCalls, Exclusive} \subseteq BOOLEAN

VARIABLES
  catalog,      \* the catalog's state for each generation
  activated,    \* the generations that have been active: a history variable
  points,       \* the chunk points in all physical collections
  late,         \* calls that timed out and are still under way
  pc,           \* the vector-store call each handler makes next
  req           \* the local variables of the request in each handler

vars == <<catalog, activated, points, late, pc, req>>

Catalog == INSTANCE GenerationCatalog WITH Generation <- Gen

ASSUME StartAssumption == Start \in [Gen -> Catalog!State]

Active == Catalog!Active

\* Every step that moves the catalog remembers what it makes active.
Remember == activated' = activated \cup Active'

Point == [gen : Gen, doc : Document, version : Version, chunk : Nat]

\* The deterministic points of a version: collection, generation, document,
\* version and chunk index determine the point id, so equal points coincide.
PointsOf(g, d, v) ==
  {[gen |-> g, doc |-> d, version |-> v, chunk |-> i] : i \in 0..(Chunks[v] - 1)}

\* The points of a document in the physical collection of a generation.
Stored(g, d) == {p \in points : p.gen = g /\ p.doc = d}

\* All the chunks of one version are there.
Holds(g, d, v) == PointsOf(g, d, v) \subseteq points

Idle == [op |-> "none", gen |-> None, doc |-> None, version |-> None]

Request == [op : {"none", "ingest", "delete", "retrieve"}, gen : Gen \cup {None},
            doc : Document \cup {None}, version : Version \cup {None}]

Init ==
  /\ catalog = Start
  /\ activated = Active
  /\ points = {}
  /\ late = {}
  /\ pc = [h \in Handler |-> "idle"]
  /\ req = [h \in Handler |-> Idle]

----------------------------------------------------------------------------
Goto(h, label) == pc' = [pc EXCEPT ![h] = label]

Label == {"idle", "upsert", "count_older", "purge_older", "count_document", "remove", "search", "done"}

\* The request ends, with an answer or with an error.
Answer(h) == Goto(h, "idle") /\ req' = [req EXCEPT ![h] = Idle]

\* The points a call adds, and those it removes, in the state it lands in.
Added(call) == IF call.op = "upsert" THEN PointsOf(call.gen, call.doc, call.version) ELSE {}

\* Slip: the filter of the deletion lacks its must_not clause.
RemovedWithKept(call) == IF call.op = "upsert" THEN {} ELSE Stored(call.gen, call.doc)

Removed(call) ==
  IF call.op = "upsert" THEN {}
  ELSE {p \in Stored(call.gen, call.doc) : call.op = "purge" => p.version # call.version}

\* The call in flight for a request: the adapter's upsert, its deletion of the
\* other versions or its deletion of the document.
Call(h, op) == [op |-> op, gen |-> req[h].gen, doc |-> req[h].doc, version |-> req[h].version]

CallSet ==
  [op : {"upsert", "purge"}, gen : Gen, doc : Document, version : Version]
    \cup [op : {"remove"}, gen : Gen, doc : Document, version : {None}]

Done(call) == points' = (points \ Removed(call)) \cup Added(call) /\ UNCHANGED late

\* The call fails or times out: it applied some part of itself, or will apply
\* all of it later.
Fails(call) ==
  /\ Unreliable
  /\ \/ /\ \E added \in SUBSET Added(call), removed \in SUBSET Removed(call) :
             points' = (points \ removed) \cup added
        /\ UNCHANGED late
     \/ LateCalls /\ late' = late \cup {call} /\ UNCHANGED points

----------------------------------------------------------------------------
\* A client that writes a document one request at a time, and after a timeout
\* waits until the call it lost track of can no longer take effect.
MayWrite(h, d) ==
  Exclusive => /\ \A k \in Handler \ {h} : req[k].doc # d
               /\ \A call \in late : call.doc # d

\* Slip: any generation that has not failed will do.
BeginAnywhere(h, op, d, v, label) ==
  /\ pc[h] = "idle"
  /\ \E g \in Gen :
       /\ catalog[g] \notin {"absent", "failed"}
       /\ req' = [req EXCEPT ![h] = [op |-> op, gen |-> g, doc |-> d, version |-> v]]
  /\ Goto(h, label)
  /\ UNCHANGED <<catalog, activated, points, late>>

\* Every request first reads the active contract and verifies its collection;
\* the generation it found is the one it works on to its end.
Begin(h, op, d, v, label) ==
  /\ pc[h] = "idle"
  /\ op \in Operations
  /\ \E g \in Gen :
       /\ Active = {g}
       /\ req' = [req EXCEPT ![h] = [op |-> op, gen |-> g, doc |-> d, version |-> v]]
  /\ Goto(h, label)
  /\ UNCHANGED <<catalog, activated, points, late>>

BeginIngest(h) ==
  \E d \in Document, v \in Version : MayWrite(h, d) /\ Begin(h, "ingest", d, v, "upsert")

BeginDelete(h) ==
  \E d \in Document : MayWrite(h, d) /\ Begin(h, "delete", d, None, "count_document")

BeginRetrieve(h) == Begin(h, "retrieve", None, None, "search")

\* The answer of a write that succeeded.
Reply(h) ==
  /\ pc[h] = "done"
  /\ Answer(h)
  /\ UNCHANGED <<catalog, activated, points, late>>

\* ingest: the embedding calls come first and change nothing; when they or
\* the verification fail, so does the request.
Upsert(h) ==
  /\ pc[h] = "upsert"
  /\ \/ Done(Call(h, "upsert")) /\ Goto(h, "count_older") /\ UNCHANGED req
     \/ Fails(Call(h, "upsert")) /\ Answer(h)
  /\ UNCHANGED <<catalog, activated>>

\* Slip: deleting the older versions counts only the points of the kept one.
CountKept(h) ==
  /\ pc[h] = "count_older"
  /\ \/ ~Holds(req[h].gen, req[h].doc, req[h].version) /\ Goto(h, "purge_older")
     \/ Holds(req[h].gen, req[h].doc, req[h].version) /\ Goto(h, "done")
  /\ UNCHANGED <<catalog, activated, points, late, req>>

\* delete_older_document_versions counts the points of the other versions ...
CountOlder(h) ==
  /\ pc[h] = "count_older"
  /\ \/ Removed(Call(h, "purge")) = {} /\ Goto(h, "done") /\ UNCHANGED req
     \/ Removed(Call(h, "purge")) # {} /\ Goto(h, "purge_older") /\ UNCHANGED req
     \/ Unreliable /\ Answer(h)
  /\ UNCHANGED <<catalog, activated, points, late>>

\* ... and when there are any, deletes by the same filter.
PurgeOlder(h) ==
  /\ pc[h] = "purge_older"
  /\ \/ Done(Call(h, "purge")) /\ Goto(h, "done") /\ UNCHANGED req
     \/ Fails(Call(h, "purge")) /\ Answer(h)
  /\ UNCHANGED <<catalog, activated>>

\* delete_by_document counts the points of the document ...
CountDocument(h) ==
  /\ pc[h] = "count_document"
  /\ \/ Removed(Call(h, "remove")) = {} /\ Goto(h, "done") /\ UNCHANGED req
     \/ Removed(Call(h, "remove")) # {} /\ Goto(h, "remove") /\ UNCHANGED req
     \/ Unreliable /\ Answer(h)
  /\ UNCHANGED <<catalog, activated, points, late>>

\* ... and when there are any, deletes by the same filter.
RemoveDocument(h) ==
  /\ pc[h] = "remove"
  /\ \/ Done(Call(h, "remove")) /\ Goto(h, "done") /\ UNCHANGED req
     \/ Fails(Call(h, "remove")) /\ Answer(h)
  /\ UNCHANGED <<catalog, activated>>

\* retrieve: the query is embedded and every match the search returns becomes
\* a hit; the hits are ranked, never grouped by document or version.
Hits(h) == {p \in points : p.gen = req[h].gen}

Search(h) ==
  /\ pc[h] = "search"
  /\ Answer(h)
  /\ UNCHANGED <<catalog, activated, points, late>>
----------------------------------------------------------------------------
(* The environment.                                                        *)

\* A generation is added, becomes ready or fails, is cut over to, retired or
\* revalidated.
CatalogMoves ==
  /\ Catalog!CatalogNext
  /\ Remember
  /\ UNCHANGED <<points, late, pc, req>>

LateCallLands ==
  \E call \in late :
    /\ points' = (points \ Removed(call)) \cup Added(call)
    /\ late' = late \ {call}
    /\ UNCHANGED <<catalog, activated, pc, req>>

\* The steps of the requests and of Qdrant.
ServiceNext ==
  \/ \E h \in Handler : BeginIngest(h) \/ BeginDelete(h) \/ BeginRetrieve(h)
  \/ \E h \in Handler : Upsert(h) \/ CountOlder(h) \/ PurgeOlder(h)
  \/ \E h \in Handler : CountDocument(h) \/ RemoveDocument(h)
  \/ \E h \in Handler : Reply(h) \/ Search(h)
  \/ LateCallLands

Next == ServiceNext \/ CatalogMoves

Spec == Init /\ [][Next]_vars
----------------------------------------------------------------------------
TypeOK ==
  /\ catalog \in [Gen -> Catalog!State]
  /\ activated \subseteq Gen
  /\ points \subseteq Point
  /\ late \subseteq CallSet
  /\ pc \in [Handler -> Label]
  /\ req \in [Handler -> Request]

\* Some version of the document is completely stored in the generation.
Complete(g, d) == \E v \in Version : Holds(g, d, v)

\* A deletion of the document is being carried out, or may still land.
DeletionUnderWay(g, d) ==
  \/ \E h \in Handler : pc[h] = "remove" /\ req[h].gen = g /\ req[h].doc = d
  \/ \E call \in late : call.op = "remove" /\ call.gen = g /\ call.doc = d

\* A document of which one version was completely stored stays so until it is
\* deleted: replacing its content, failing or not, at no moment leaves less
\* than one whole version for searches to find.
NeverVanishes ==
  [][\A g \in Gen, d \in Document :
       Complete(g, d) /\ ~Complete(g, d)' => DeletionUnderWay(g, d)]_vars

\* A write reported as successful is exactly what is stored while it is being
\* reported: an ingest left its version, all of it and nothing of another,
\* whatever partial writes earlier attempts left behind; a delete left nothing.
AcknowledgedWritesHold ==
  \A h \in Handler :
    pc[h] = "done" =>
      Stored(req[h].gen, req[h].doc) =
        IF req[h].op = "ingest" THEN PointsOf(req[h].gen, req[h].doc, req[h].version) ELSE {}

\* Points are only written to a generation that is or has been active, however
\* late the write lands and whatever cutovers, retirements and rollbacks came
\* between: the target of a first cutover receives none by the public route.
OnlyActivatedIsWritten == [][\A p \in points' \ points : p.gen \in activated]_vars

\* A search never returns chunks of two versions of one document.
SearchSeesOneVersion ==
  [][\A h \in Handler :
       pc[h] = "search" /\ pc'[h] = "idle"
         => \A p, q \in Hits(h) : p.doc = q.doc => p.version = q.version]_vars
----------------------------------------------------------------------------
(* The inductive invariant behind NeverVanishes and AcknowledgedWritesHold *)
(* for clients that write a document one request at a time and let the     *)
(* calls of one request land before they write the document again.         *)

\* A request knows what its next call is about.
IsBound(h) ==
  /\ pc[h] \in {"upsert", "count_older", "purge_older"} =>
       req[h].op = "ingest" /\ req[h].doc \in Document /\ req[h].version \in Version
  /\ pc[h] \in {"count_document", "remove"} =>
       req[h].op = "delete" /\ req[h].doc \in Document /\ req[h].version = None
  /\ pc[h] = "done" =>
       /\ req[h].doc \in Document
       /\ req[h].op = "delete" \/ (req[h].op = "ingest" /\ req[h].version \in Version)
  /\ pc[h] # "idle" => req[h].gen \in Gen

\* Two requests never write the same document.
OneWriter == \A h, k \in Handler : h # k /\ req[h].doc \in Document => req[k].doc # req[h].doc

\* The version being kept is completely stored before anything is deleted.
KeepsItsVersion(h) ==
  pc[h] \in {"count_older", "purge_older"} => Holds(req[h].gen, req[h].doc, req[h].version)

\* Every point is a chunk of its version.
OnlyChunks == \A p \in points : p \in PointsOf(p.gen, p.doc, p.version)

\* A call that may still land is the only one about its document, no request
\* works on that document, and the version a late deletion spares is whole.
LateIsAlone ==
  \A call \in late :
    /\ \A h \in Handler : req[h].doc # call.doc
    /\ \A other \in late : other.doc = call.doc => other = call
    /\ call.op = "purge" => Holds(call.gen, call.doc, call.version)

IInv ==
  /\ TypeOK
  /\ OnlyChunks
  /\ LateIsAlone
  /\ OneWriter
  /\ AcknowledgedWritesHold
  /\ \A h \in Handler : IsBound(h) /\ KeepsItsVersion(h)

\* The invariant behind OnlyActivatedIsWritten, for any clients and calls: what
\* is under way concerns generations that are or have been active.
OnlyActivated ==
  /\ TypeOK
  /\ Active \subseteq activated
  /\ \A h \in Handler : IsBound(h) /\ (pc[h] # "idle" => req[h].gen \in activated)
  /\ \A call \in late : call.gen \in activated
=============================================================================
