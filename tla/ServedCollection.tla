-------------------------- MODULE ServedCollection --------------------------
(***************************************************************************)
(* One logical collection as RAG Core serves it: the requests of the       *)
(* lifecycle and those for documents, at the same time.  CollectionService *)
(* and RagService share the catalog and the vector store and nothing else; *)
(* a crash leaves what a request for documents had not done undone.        *)
(*                                                                         *)
(* The lifecycle takes the place of the steps that the abstract catalog    *)
(* makes in DocumentIngestion.                                             *)
(***************************************************************************)
EXTENDS CollectionLifecycle

CONSTANTS
  Document, Version, Chunks,   \* see DocumentIngestion
  DocumentHandler,             \* the slots of requests for documents
  None,
  Operations,
  PointsFail,                  \* may their vector-store calls fail,
  LateCalls,                   \* or take effect later?
  Exclusive

ASSUME ServedAssumption ==
  /\ None \notin Gen \cup Document \cup Version
  /\ Chunks \in [Version -> Nat \ {0}]
  /\ Operations \subseteq {"ingest", "delete", "retrieve"}
  /\ {PointsFail, LateCalls, Exclusive} \subseteq BOOLEAN

VARIABLES
  activated,      \* the generations that have been active: a history variable
  points,         \* the chunk points in the physical collections
  lateCalls,      \* the calls for documents that are still under way
  documentPc,     \* what each slot for documents does next
  documentReq

documentVars == <<points, lateCalls, documentPc, documentReq>>

servedVars == <<catalog, late, physical, alias, lock, pc, req,
                activated, points, lateCalls, documentPc, documentReq>>

Documents == INSTANCE DocumentIngestion
               WITH Start <- Nothing, Handler <- DocumentHandler, Unreliable <- PointsFail,
                    late <- lateCalls, pc <- documentPc, req <- documentReq

ServedInit == Init /\ Documents!Init

Manage == Next /\ Documents!Remember /\ UNCHANGED documentVars

Serve == Documents!ServiceNext /\ UNCHANGED <<late, physical, alias, lock, pc, req>>

ServedNext == Manage \/ Serve

ServedSpec == ServedInit /\ [][ServedNext]_servedVars
----------------------------------------------------------------------------
\* A document is only ever stored in, and a request for documents only works
\* on, a physical collection that is completely built, however its building
\* failed or its catalog record was written late: no search needs a payload
\* index that is missing, and no points come before the schema marker.  Begin
\* leaves out the check of _active_verified: it never finds one incomplete.
DocumentsAreIndexed ==
  /\ \A p \in points : Verified(p.gen)
  /\ \A h \in DocumentHandler : documentPc[h] # "idle" => Verified(documentReq[h].gen)
=============================================================================
