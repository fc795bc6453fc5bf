----------------------- MODULE ServedCollectionProofs -----------------------
(***************************************************************************)
(* Theorems about ServedCollection: what the lifecycle guarantees is what  *)
(* the requests for documents rely on, for any number of generations,      *)
(* documents and requests of both kinds.                                   *)
(***************************************************************************)
EXTENDS ServedCollection, CollectionLifecycleProofs

\* Requests for documents only read the catalog.
LEMMA ServiceLeavesCatalog == Documents!ServiceNext => UNCHANGED <<catalog, activated>>
BY DEF Documents!ServiceNext, Documents!BeginIngest, Documents!BeginDelete, Documents!BeginRetrieve,
       Documents!Begin, Documents!Upsert, Documents!CountOlder, Documents!PurgeOlder,
       Documents!CountDocument, Documents!RemoveDocument, Documents!Reply, Documents!Search,
       Documents!LateCallLands

\* A step of the service is one of the lifecycle or leaves it where it is.
LEMMA ServedStepManages == [ServedNext]_servedVars => [Next]_vars
BY ServiceLeavesCatalog DEF ServedNext, Manage, Serve, servedVars, vars

LEMMA ServesTheLifecycle == ServedSpec => Spec
<1>1. ServedInit => Init
  BY DEF ServedInit
<1>2. QED
  BY <1>1, ServedStepManages, PTL DEF ServedSpec, Spec

----------------------------------------------------------------------------
(* The requests for documents see an atomic catalog.                       *)

\* The two modules mean the same by a step of the catalog.
LEMMA SameCatalog == Catalog!CatalogNext => Documents!Catalog!CatalogNext
<1>1. ASSUME NEW g \in Gen, Catalog!AddGeneration(g)
      PROVE  Documents!Catalog!AddGeneration(g)
  BY <1>1 DEF Catalog!AddGeneration, Documents!Catalog!AddGeneration
<1>2. ASSUME NEW g \in Gen, Catalog!MarkReady(g)
      PROVE  Documents!Catalog!MarkReady(g)
  BY <1>2 DEF Catalog!MarkReady, Documents!Catalog!MarkReady, Catalog!UpdateState,
              Documents!Catalog!UpdateState
<1>3. ASSUME NEW g \in Gen, Catalog!MarkFailed(g) \/ Catalog!Revalidate(g)
      PROVE  Documents!Catalog!MarkFailed(g) \/ Documents!Catalog!Revalidate(g)
  BY <1>3 DEF Catalog!MarkFailed, Documents!Catalog!MarkFailed, Catalog!Revalidate,
              Documents!Catalog!Revalidate, Catalog!UpdateState, Documents!Catalog!UpdateState
<1>4. ASSUME NEW g \in Gen, Catalog!SetActive(g)
      PROVE  Documents!Catalog!SetActive(g)
  BY <1>4 DEF Catalog!SetActive, Documents!Catalog!SetActive
<1>5. Catalog!Recorded = Documents!Catalog!Recorded
  BY DEF Catalog!Recorded, Documents!Catalog!Recorded
<1>6. ASSUME NEW listed \in SUBSET Catalog!Recorded, Catalog!Retire(listed)
      PROVE  Documents!Catalog!Retire(listed)
  BY <1>5, <1>6 DEF Catalog!Retire, Documents!Catalog!Retire, Catalog!Active, Documents!Catalog!Active
<1>7. QED
  BY <1>1, <1>2, <1>3, <1>4, <1>5, <1>6 DEF Catalog!CatalogNext, Documents!Catalog!CatalogNext

\* Whatever is active is remembered, so that a step that leaves the catalog as
\* it is changes nothing that requests for documents see.
LEMMA ActiveIsRemembered == ServedSpec => [](Documents!Active \subseteq activated)
<1>1. ServedInit => Documents!Active \subseteq activated
  BY DEF ServedInit, Documents!Init
<1>2. Documents!Active \subseteq activated /\ [ServedNext]_servedVars => (Documents!Active \subseteq activated)'
  <2> SUFFICES ASSUME Documents!Active \subseteq activated, [ServedNext]_servedVars
               PROVE  (Documents!Active \subseteq activated)'
    OBVIOUS
  <2>1. CASE Manage
    BY <2>1 DEF Manage, Documents!Remember
  <2>2. UNCHANGED catalog => Documents!Active' = Documents!Active
    BY DEF Documents!Active, Documents!Catalog!Active
  <2>3. CASE Serve
    <3>1. UNCHANGED <<catalog, activated>>
      BY <2>3, ServiceLeavesCatalog DEF Serve
    <3>2. QED
      BY <2>2, <3>1
  <2>4. CASE UNCHANGED servedVars
    BY <2>2, <2>4 DEF servedVars
  <2>5. QED
    BY <2>1, <2>3, <2>4 DEF ServedNext
<1>3. QED
  BY <1>1, <1>2, PTL DEF ServedSpec

\* With one replica and no late catalog write, what requests for documents see
\* of the lifecycle is what DocumentIngestion assumes of it: the reads and
\* writes that a lifecycle request makes under the lock look like one step.
THEOREM ServedImplementsIngestion ==
  ASSUME OneReplica, ~LateWrites PROVE ServedSpec => Documents!Spec
<1>1. ServedInit => Documents!Init
  BY DEF ServedInit
<1>2. ASSUME IInv, Documents!Active \subseteq activated, [ServedNext]_servedVars
      PROVE  [Documents!Next]_(Documents!vars)
  <2> USE DEF Documents!Next, Documents!vars
  <2>1. CASE Manage
    <3>1. [Catalog!CatalogNext]_catalog
      BY <1>2, <2>1, StepRefines DEF Manage
    <3>2. CASE Catalog!CatalogNext
      BY <2>1, <3>2, SameCatalog DEF Manage, documentVars, Documents!CatalogMoves
    <3>3. CASE UNCHANGED catalog
      <4>1. Documents!Active' = Documents!Active
        BY <3>3 DEF Documents!Active, Documents!Catalog!Active
      <4>2. UNCHANGED activated
        BY <1>2, <2>1, <4>1 DEF Manage, Documents!Remember
      <4>3. QED
        BY <2>1, <3>3, <4>2 DEF Manage, documentVars
    <3>4. QED
      BY <3>1, <3>2, <3>3
  <2>2. CASE Serve
    BY <2>2 DEF Serve
  <2>3. CASE UNCHANGED servedVars
    BY <2>3 DEF servedVars
  <2>4. QED
    BY <1>2, <2>1, <2>2, <2>3 DEF ServedNext
<1>3. ServedSpec => []IInv
  BY ServesTheLifecycle, InvariantHolds
<1>4. QED
  BY <1>1, <1>2, <1>3, ActiveIsRemembered, PTL DEF ServedSpec, Documents!Spec

----------------------------------------------------------------------------
(* Documents live in finished collections only: for any number of replicas *)
(* and with catalog writes and calls for documents that land late.         *)

Indexed(g) == g \in Gen /\ Verified(g)

\* What is stored, under way or in progress concerns finished collections.
DocumentInv ==
  /\ documentPc \in [DocumentHandler -> Documents!Label]
  /\ documentReq \in [DocumentHandler -> Documents!Request]
  /\ \A p \in points : Indexed(p.gen)
  /\ \A call \in lateCalls : Indexed(call.gen)
  /\ \A h \in DocumentHandler : documentPc[h] # "idle" => Indexed(documentReq[h].gen)

ServedInv == TypeOK /\ RequestIsBound /\ BuildInv /\ DocumentInv

\* No step of the lifecycle takes a finished collection away.
LEMMA IndexedStays ==
  ASSUME TypeOK, RequestIsBound, BuildInv, [Next]_vars, NEW g, Indexed(g)
  PROVE  Indexed(g)'
<1>1. g \in Gen /\ Verified(g)
  BY DEF Indexed
<1>2. ASSUME NEW h \in Handler, Begin(h) \/ Continue(h)
      PROVE  Verified(g)'
  BY <1>1, <1>2, BuiltStays
<1>3. CASE LateWriteLands
  BY <1>1, <1>3 DEF LateWriteLands, Indexed, Verified
<1>4. CASE \E p \in Replica : Crash(p)
  BY <1>1, <1>4 DEF Crash, Indexed, Verified
<1>5. CASE UNCHANGED vars
  BY <1>1, <1>5 DEF vars, Indexed, Verified
<1>6. QED
  BY <1>1, <1>2, <1>3, <1>4, <1>5 DEF Next, Indexed

\* A call for documents, whatever becomes of it, leaves points of its own
\* generation behind, and nothing else that is new.
LEMMA CallConcerns ==
  ASSUME NEW call, Documents!Done(call) \/ Documents!Fails(call)
  PROVE  /\ \A p \in points' \ points : p.gen = call.gen
         /\ lateCalls' \subseteq lateCalls \cup {call}
<1>1. \A p \in Documents!Added(call) : p.gen = call.gen
  BY DEF Documents!Added, Documents!PointsOf
<1>2. QED
  BY <1>1 DEF Documents!Done, Documents!Fails

\* A request for documents begins with a generation that is finished.
LEMMA BeginIsIndexed ==
  ASSUME ServedInv, NEW h \in DocumentHandler, UNCHANGED physical,
         NEW op \in {"ingest", "delete", "retrieve"}, NEW d \in Document \cup {None},
         NEW v \in Version \cup {None}, NEW label \in Documents!Label,
         Documents!Begin(h, op, d, v, label)
  PROVE  DocumentInv'
<1>1. PICK g \in Gen :
        /\ Documents!Active = {g}
        /\ documentReq' = [documentReq EXCEPT ![h] = [op |-> op, gen |-> g, doc |-> d, version |-> v]]
  BY DEF Documents!Begin
<1>2. catalog[g] = "active"
  BY <1>1 DEF Documents!Active, Documents!Catalog!Active
<1>3. Indexed(g)
  BY <1>2 DEF ServedInv, BuildInv, RecordsAreBuilt, OnlyBuiltIsServed, Indexed
<1>4. [op |-> op, gen |-> g, doc |-> d, version |-> v] \in Documents!Request
  BY DEF Documents!Request
<1>5. UNCHANGED <<points, lateCalls>> /\ documentPc' = [documentPc EXCEPT ![h] = label]
  BY DEF Documents!Begin, Documents!Goto
<1>6. QED
  BY <1>1, <1>3, <1>4, <1>5 DEF ServedInv, DocumentInv, Indexed, Verified

\* A request that makes one of its calls stays with its generation.
LEMMA CallIsIndexed ==
  ASSUME DocumentInv, NEW h \in DocumentHandler, UNCHANGED physical, NEW op,
         documentPc[h] # "idle",
         Documents!Done(Documents!Call(h, op)) \/ Documents!Fails(Documents!Call(h, op))
  PROVE  /\ \A p \in points' : Indexed(p.gen)'
         /\ \A call \in lateCalls' : Indexed(call.gen)'
<1> DEFINE call == Documents!Call(h, op)
<1>1. Indexed(call.gen)
  BY DEF DocumentInv, Documents!Call
<1>2. /\ \A p \in points' \ points : p.gen = call.gen
      /\ lateCalls' \subseteq lateCalls \cup {call}
  BY CallConcerns
<1> HIDE DEF call
<1>3. \A g : Indexed(g) => Indexed(g)'
  BY DEF Indexed, Verified
<1>4. QED
  BY <1>1, <1>2, <1>3 DEF DocumentInv

\* What a request does with its local variables keeps the invariant.
LEMMA RequestMoves ==
  ASSUME DocumentInv, NEW h \in DocumentHandler, UNCHANGED physical,
         \/ Documents!Answer(h)
         \/ /\ documentPc[h] # "idle" /\ UNCHANGED documentReq
            /\ \E label \in Documents!Label : Documents!Goto(h, label)
  PROVE  /\ documentPc' \in [DocumentHandler -> Documents!Label]
         /\ documentReq' \in [DocumentHandler -> Documents!Request]
         /\ \A k \in DocumentHandler : documentPc'[k] # "idle" => Indexed(documentReq[k].gen)'
<1> USE DEF DocumentInv, Documents!Goto
<1>1. \A g : Indexed(g) => Indexed(g)'
  BY DEF Indexed, Verified
<1>2. CASE Documents!Answer(h)
  <2>1. Documents!Idle \in Documents!Request /\ "idle" \in Documents!Label
    BY DEF Documents!Idle, Documents!Request, Documents!Label
  <2>2. /\ documentPc' = [documentPc EXCEPT ![h] = "idle"]
        /\ documentReq' = [documentReq EXCEPT ![h] = Documents!Idle]
    BY <1>2 DEF Documents!Answer
  <2>3. QED
    BY <1>1, <2>1, <2>2
<1>3. CASE /\ documentPc[h] # "idle" /\ UNCHANGED documentReq
           /\ \E label \in Documents!Label : Documents!Goto(h, label)
  BY <1>1, <1>3
<1>4. QED
  BY <1>2, <1>3

LEMMA ServeIsIndexed == ServedInv /\ Serve => DocumentInv'
<1> SUFFICES ASSUME ServedInv, Serve PROVE DocumentInv'
  OBVIOUS
<1>1. DocumentInv /\ UNCHANGED physical
  BY DEF ServedInv, Serve
<1>2. {"upsert", "count_older", "purge_older", "count_document", "remove", "search", "done"}
        \subseteq Documents!Label
  BY DEF Documents!Label
<1>3. ASSUME NEW h \in DocumentHandler,
             Documents!BeginIngest(h) \/ Documents!BeginDelete(h) \/ Documents!BeginRetrieve(h)
      PROVE  DocumentInv'
  BY <1>1, <1>2, <1>3, BeginIsIndexed
  DEF Documents!BeginIngest, Documents!BeginDelete, Documents!BeginRetrieve
<1>4. ASSUME NEW h \in DocumentHandler,
             Documents!Upsert(h) \/ Documents!PurgeOlder(h) \/ Documents!RemoveDocument(h)
      PROVE  DocumentInv'
  <2>1. /\ documentPc[h] # "idle"
        /\ \E op : Documents!Done(Documents!Call(h, op)) \/ Documents!Fails(Documents!Call(h, op))
    BY <1>4 DEF Documents!Upsert, Documents!PurgeOlder, Documents!RemoveDocument
  <2>2. \/ Documents!Answer(h)
        \/ UNCHANGED documentReq /\ \E label \in Documents!Label : Documents!Goto(h, label)
    BY <1>2, <1>4 DEF Documents!Upsert, Documents!PurgeOlder, Documents!RemoveDocument
  <2>3. /\ \A p \in points' : Indexed(p.gen)'
        /\ \A call \in lateCalls' : Indexed(call.gen)'
    BY <1>1, <2>1, CallIsIndexed
  <2>4. /\ documentPc' \in [DocumentHandler -> Documents!Label]
        /\ documentReq' \in [DocumentHandler -> Documents!Request]
        /\ \A k \in DocumentHandler : documentPc'[k] # "idle" => Indexed(documentReq[k].gen)'
    BY <1>1, <2>1, <2>2, RequestMoves
  <2>5. QED
    BY <2>3, <2>4 DEF DocumentInv
<1>5. ASSUME NEW h \in DocumentHandler,
             \/ Documents!CountOlder(h) \/ Documents!CountDocument(h)
             \/ Documents!Reply(h) \/ Documents!Search(h)
      PROVE  DocumentInv'
  <2>1. UNCHANGED <<points, lateCalls>>
    BY <1>5 DEF Documents!CountOlder, Documents!CountDocument, Documents!Reply, Documents!Search
  <2>2. \/ Documents!Answer(h)
        \/ /\ documentPc[h] # "idle" /\ UNCHANGED documentReq
           /\ \E label \in Documents!Label : Documents!Goto(h, label)
    BY <1>2, <1>5 DEF Documents!CountOlder, Documents!CountDocument, Documents!Reply, Documents!Search
  <2>3. /\ documentPc' \in [DocumentHandler -> Documents!Label]
        /\ documentReq' \in [DocumentHandler -> Documents!Request]
        /\ \A k \in DocumentHandler : documentPc'[k] # "idle" => Indexed(documentReq[k].gen)'
    BY <1>1, <2>2, RequestMoves
  <2>4. QED
    BY <1>1, <2>1, <2>3 DEF DocumentInv, Indexed, Verified
<1>6. CASE Documents!LateCallLands
  <2>1. PICK call \in lateCalls :
          /\ points' = (points \ Documents!Removed(call)) \cup Documents!Added(call)
          /\ lateCalls' = lateCalls \ {call}
    BY <1>6 DEF Documents!LateCallLands
  <2>2. \A p \in Documents!Added(call) : p.gen = call.gen
    BY DEF Documents!Added, Documents!PointsOf
  <2>3. \A g : Indexed(g) => Indexed(g)'
    BY <1>1 DEF Indexed, Verified
  <2>4. UNCHANGED <<documentPc, documentReq>>
    BY <1>6 DEF Documents!LateCallLands
  <2>5. QED
    BY <1>1, <2>1, <2>2, <2>3, <2>4 DEF DocumentInv
<1>7. QED
  BY <1>3, <1>4, <1>5, <1>6 DEF Serve, Documents!ServiceNext

LEMMA ServedInvStep == ServedInv /\ [ServedNext]_servedVars => ServedInv'
<1> SUFFICES ASSUME ServedInv, [ServedNext]_servedVars PROVE ServedInv'
  OBVIOUS
<1>1. [Next]_vars
  BY ServedStepManages
<1>2. (TypeOK /\ RequestIsBound /\ BuildInv)'
  BY <1>1, TypeStep, BuildInvStep DEF ServedInv
<1>3. CASE Manage \/ UNCHANGED servedVars
  <2>1. \A g : Indexed(g) => Indexed(g)'
    BY <1>1, IndexedStays DEF ServedInv
  <2>2. UNCHANGED documentVars
    BY <1>3 DEF Manage, servedVars, documentVars
  <2>3. QED
    BY <1>2, <2>1, <2>2 DEF ServedInv, DocumentInv, documentVars
<1>4. CASE Serve
  BY <1>2, <1>4, ServeIsIndexed DEF ServedInv
<1>5. QED
  BY <1>3, <1>4 DEF ServedNext

\* Documents are only ever stored in, and requests for documents only work on,
\* completely built collections: no failure, crash, late write or interleaving
\* of the lifecycle lets a search meet a missing payload index.
THEOREM ServedIndexed == ServedSpec => []DocumentsAreIndexed
<1>1. ServedInit => ServedInv
  <2> SUFFICES ASSUME ServedInit PROVE ServedInv
    OBVIOUS
  <2>1. TypeOK /\ RequestIsBound /\ BuildInv
    BY InitiallyTyped, BuildInvInitially DEF ServedInit
  <2>2. DocumentInv
    BY DEF ServedInit, DocumentInv, Documents!Init, Documents!Label, Documents!Idle, Documents!Request
  <2>3. QED
    BY <2>1, <2>2 DEF ServedInv
<1>2. ServedInv => DocumentsAreIndexed
  BY DEF ServedInv, DocumentInv, Indexed, DocumentsAreIndexed
<1>3. QED
  BY <1>1, <1>2, ServedInvStep, PTL DEF ServedSpec

----------------------------------------------------------------------------
(* What DocumentIngestion guarantees holds of the whole service.           *)

P == INSTANCE DocumentIngestionProofs
       WITH Start <- Nothing, Handler <- DocumentHandler, Unreliable <- PointsFail,
            late <- lateCalls, pc <- documentPc, req <- documentReq

\* The same definitions under another name.
LEMMA SameCalls ==
  /\ \A call : Documents!Done(call) <=> P!Done(call)
  /\ \A call : Documents!Fails(call) <=> P!Fails(call)
  /\ \A h, op : Documents!Call(h, op) = P!Call(h, op)
  /\ \A call : Documents!Removed(call) = P!Removed(call)
  /\ \A h : Documents!Answer(h) <=> P!Answer(h)
  /\ \A h, label : Documents!Goto(h, label) <=> P!Goto(h, label)
BY DEF Documents!Done, P!Done, Documents!Fails, P!Fails, Documents!Call, P!Call,
       Documents!Removed, P!Removed, Documents!Added, P!Added, Documents!Stored, P!Stored,
       Documents!PointsOf, P!PointsOf, Documents!Answer, P!Answer, Documents!Goto, P!Goto,
       Documents!Idle, P!Idle

LEMMA SameMoves == Documents!CatalogMoves => P!CatalogMoves
<1> SUFFICES ASSUME Documents!CatalogMoves PROVE P!CatalogMoves
  OBVIOUS
<1>1. ASSUME NEW g \in Gen, Documents!Catalog!AddGeneration(g)
      PROVE  P!Catalog!AddGeneration(g)
  BY <1>1 DEF P!Catalog!AddGeneration, Documents!Catalog!AddGeneration
<1>2. ASSUME NEW g \in Gen,
             \/ Documents!Catalog!MarkReady(g) \/ Documents!Catalog!MarkFailed(g)
             \/ Documents!Catalog!Revalidate(g)
      PROVE  P!Catalog!MarkReady(g) \/ P!Catalog!MarkFailed(g) \/ P!Catalog!Revalidate(g)
  BY <1>2 DEF P!Catalog!MarkReady, Documents!Catalog!MarkReady, P!Catalog!MarkFailed,
              Documents!Catalog!MarkFailed, P!Catalog!Revalidate, Documents!Catalog!Revalidate,
              P!Catalog!UpdateState, Documents!Catalog!UpdateState
<1>3. ASSUME NEW g \in Gen, Documents!Catalog!SetActive(g)
      PROVE  P!Catalog!SetActive(g)
  BY <1>3 DEF P!Catalog!SetActive, Documents!Catalog!SetActive
<1>4. P!Catalog!Recorded = Documents!Catalog!Recorded
  BY DEF P!Catalog!Recorded, Documents!Catalog!Recorded
<1>5. ASSUME NEW listed \in SUBSET Documents!Catalog!Recorded, Documents!Catalog!Retire(listed)
      PROVE  P!Catalog!Retire(listed)
  BY <1>4, <1>5 DEF P!Catalog!Retire, Documents!Catalog!Retire, P!Catalog!Active, Documents!Catalog!Active
<1>6. Documents!Catalog!CatalogNext => P!Catalog!CatalogNext
  BY <1>1, <1>2, <1>3, <1>4, <1>5 DEF P!Catalog!CatalogNext, Documents!Catalog!CatalogNext
<1>7. QED
  BY <1>6 DEF Documents!CatalogMoves, P!CatalogMoves, Documents!Remember, P!Remember, Documents!Active,
              P!Active, Documents!Catalog!Active, P!Catalog!Active

LEMMA SameBegin ==
  \A h, op, d, v, label : Documents!Begin(h, op, d, v, label) => P!Begin(h, op, d, v, label)
BY SameCalls DEF Documents!Begin, P!Begin, Documents!Active, P!Active, Documents!Catalog!Active,
                 P!Catalog!Active

LEMMA SameService == Documents!ServiceNext => P!ServiceNext
<1>1. ASSUME NEW h \in DocumentHandler,
             Documents!BeginIngest(h) \/ Documents!BeginDelete(h) \/ Documents!BeginRetrieve(h)
      PROVE  P!BeginIngest(h) \/ P!BeginDelete(h) \/ P!BeginRetrieve(h)
  BY <1>1, SameBegin
  DEF Documents!BeginIngest, P!BeginIngest, Documents!BeginDelete, P!BeginDelete,
      Documents!BeginRetrieve, P!BeginRetrieve, Documents!MayWrite, P!MayWrite
<1>2. ASSUME NEW h \in DocumentHandler,
             Documents!Upsert(h) \/ Documents!CountOlder(h) \/ Documents!PurgeOlder(h)
      PROVE  P!Upsert(h) \/ P!CountOlder(h) \/ P!PurgeOlder(h)
  BY <1>2, SameCalls
  DEF Documents!Upsert, P!Upsert, Documents!CountOlder, P!CountOlder,
      Documents!PurgeOlder, P!PurgeOlder
<1>3. ASSUME NEW h \in DocumentHandler,
             Documents!CountDocument(h) \/ Documents!RemoveDocument(h)
      PROVE  P!CountDocument(h) \/ P!RemoveDocument(h)
  BY <1>3, SameCalls
  DEF Documents!CountDocument, P!CountDocument, Documents!RemoveDocument, P!RemoveDocument
<1>4. ASSUME NEW h \in DocumentHandler, Documents!Reply(h) \/ Documents!Search(h)
      PROVE  P!Reply(h) \/ P!Search(h)
  BY <1>4, SameCalls DEF Documents!Reply, P!Reply, Documents!Search, P!Search
<1>5. Documents!LateCallLands => P!LateCallLands
  BY SameCalls
  DEF Documents!LateCallLands, P!LateCallLands, Documents!Added, P!Added, Documents!PointsOf, P!PointsOf
<1>6. QED
  BY <1>1, <1>2, <1>3, <1>4, <1>5 DEF Documents!ServiceNext, P!ServiceNext

LEMMA SameSpec == Documents!Spec => P!Spec
<1>1. Documents!Init => P!Init
  BY DEF Documents!Init, P!Init, Documents!Idle, P!Idle, Documents!Active, P!Active,
         Documents!Catalog!Active, P!Catalog!Active
<1>2. [Documents!Next]_(Documents!vars) => [P!Next]_(P!vars)
  BY SameMoves, SameService DEF Documents!Next, P!Next, Documents!vars, P!vars
<1>3. QED
  BY <1>1, <1>2, PTL DEF Documents!Spec, P!Spec

LEMMA ConstantsFit ==
  /\ None \notin Gen \cup Document \cup Version
  /\ Chunks \in [Version -> Nat \ {0}]
  /\ Operations \subseteq {"ingest", "delete", "retrieve"}
  /\ {PointsFail, LateCalls, Exclusive} \subseteq BOOLEAN
  /\ Nothing \in [Gen -> P!Catalog!State]
BY ServedAssumption DEF Nothing, P!Catalog!State

\* While lifecycle requests run, fail and crash, a write that is reported as
\* successful is exactly what is stored.
THEOREM ServedAcknowledges ==
  ASSUME OneReplica, ~LateWrites, Exclusive
  PROVE  ServedSpec => []Documents!AcknowledgedWritesHold
<1>1. P!Spec => []P!AcknowledgedWritesHold
  BY P!AcknowledgedWrites, ConstantsFit
<1>2. P!AcknowledgedWritesHold => Documents!AcknowledgedWritesHold
  BY DEF P!AcknowledgedWritesHold, Documents!AcknowledgedWritesHold, P!Stored, Documents!Stored,
         P!PointsOf, Documents!PointsOf
<1>3. QED
  BY <1>1, <1>2, ServedImplementsIngestion, SameSpec, PTL

\* Nor does any of them make a document vanish that is only being replaced.
THEOREM ServedNeverVanishes ==
  ASSUME OneReplica, ~LateWrites, Exclusive
  PROVE  ServedSpec => Documents!NeverVanishes
<1> DEFINE Kept == \A g \in Gen, d \in Document :
                     Documents!Complete(g, d) /\ ~Documents!Complete(g, d)'
                       => Documents!DeletionUnderWay(g, d)
           KeptToo == \A g \in Gen, d \in Document :
                        P!Complete(g, d) /\ ~P!Complete(g, d)' => P!DeletionUnderWay(g, d)
<1>1. P!Spec => [][KeptToo]_(P!vars)
  BY P!DocumentsNeverVanish, ConstantsFit DEF P!NeverVanishes
<1>2. [KeptToo]_(P!vars) => [Kept]_(Documents!vars)
  <2>1. \A g, d : Documents!Complete(g, d) = P!Complete(g, d)
    BY DEF Documents!Complete, P!Complete, Documents!Holds, P!Holds, Documents!PointsOf, P!PointsOf
  <2>2. \A g, d : Documents!Complete(g, d)' = P!Complete(g, d)'
    BY DEF Documents!Complete, P!Complete, Documents!Holds, P!Holds, Documents!PointsOf, P!PointsOf
  <2>3. \A g, d : Documents!DeletionUnderWay(g, d) = P!DeletionUnderWay(g, d)
    BY DEF Documents!DeletionUnderWay, P!DeletionUnderWay
  <2>4. Documents!vars = P!vars /\ Documents!vars' = P!vars'
    BY DEF Documents!vars, P!vars
  <2>5. QED
    BY <2>1, <2>2, <2>3, <2>4
<1>3. QED
  BY <1>1, <1>2, ServedImplementsIngestion, SameSpec, PTL DEF Documents!NeverVanishes

\* And points only reach generations that are or have been active: no document
\* is stored in one that a provisioning or a rollback merely prepares.
THEOREM ServedWritesActivated ==
  ASSUME OneReplica, ~LateWrites
  PROVE  ServedSpec => Documents!OnlyActivatedIsWritten
<1> DEFINE Step == \A p \in points' \ points : p.gen \in activated
<1>1. P!Spec => [][Step]_(P!vars)
  BY P!OnlyActivatedAreWritten, ConstantsFit DEF P!OnlyActivatedIsWritten
<1>2. [Step]_(P!vars) => [Step]_(Documents!vars)
  BY DEF P!vars, Documents!vars
<1>3. QED
  BY <1>1, <1>2, ServedImplementsIngestion, SameSpec, PTL DEF Documents!OnlyActivatedIsWritten
=============================================================================
