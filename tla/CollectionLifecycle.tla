------------------------ MODULE CollectionLifecycle ------------------------
(***************************************************************************)
(* The lifecycle of one logical collection as RAG Core runs it:            *)
(* CollectionService (create, provision, activate, retire) over the Qdrant *)
(* catalog adapter and the Qdrant vector store adapter, and the operator   *)
(* who prepares a rollback on the catalog itself.                          *)
(*                                                                         *)
(* A handler is a slot that serves one HTTP request after another.  Every  *)
(* await on a dependency is one step, so handlers interleave exactly where *)
(* the event loop may switch.  A dependency call may fail with or without  *)
(* having taken effect, and a replica may crash between any two steps.     *)
(* An answer that refuses a request before anything was written changes no *)
(* state and is a stuttering step.                                         *)
(***************************************************************************)
EXTENDS Naturals, FiniteSets

CONSTANTS
  Gen,          \* the supply of fresh generation ids: the only bound on a behaviour
  Handler,      \* request slots that may be busy at the same time
  Replica,      \* RAG Core processes; each has its own _state_lock
  Home,         \* the replica that runs each handler
  NoGen,        \* None, where a generation is optional
  NoHandler,    \* the holder of a free lock
  Unreliable,   \* the dependencies whose calls may fail: "catalog", "store"
  LateWrites,   \* may a catalog write that timed out take effect later?
  MaxLate,      \* a bound on those under way at the same time
  Crashes       \* may a replica crash?

ASSUME LifecycleAssumption ==
  /\ NoGen \notin Gen
  /\ NoHandler \notin Handler
  /\ Home \in [Handler -> Replica]
  /\ Unreliable \subseteq {"catalog", "store"}
  /\ LateWrites \in BOOLEAN
  /\ MaxLate \in Nat
  /\ Crashes \in BOOLEAN

VARIABLES
  catalog,      \* the catalog's state for each generation
  late,         \* catalog batches that timed out and are still under way
  physical,     \* how far each generation's physical collection is built
  alias,        \* the generation the logical collection's alias points at
  lock,         \* the holder of each replica's _state_lock
  pc,           \* the call each handler makes next
  req           \* the local variables of the request in each handler

vars == <<catalog, late, physical, alias, lock, pc, req>>

Catalog == INSTANCE GenerationCatalog WITH Generation <- Gen

State == Catalog!State

Active == Catalog!Active

\* A batched upsert maps each generation to the state it writes; "absent"
\* marks a generation without a point in the batch.
Nothing == [g \in Gen |-> "absent"]

Batch == [Gen -> State]

\* The catalog after a batched upsert: each point overwrites its record.
Upserted(batch) == [g \in Gen |-> IF batch[g] = "absent" THEN catalog[g] ELSE batch[g]]

OnePoint(g, state) == [Nothing EXCEPT ![g] = state]

\* The expected_active_generation_id of a request as a set: {} for None.
ExpectedActive(h) == {req[h].expected} \ {NoGen}

Idle == [op |-> "none", gen |-> NoGen, expected |-> NoGen, batch |-> Nothing, fault |-> "none"]

\* The steps made while a handler holds its replica's lock.
Critical == {"commit_ready", "commit_failed", "target", "commit_active", "list", "commit_retired"}

Label == Critical \cup {"idle", "add", "build", "index", "verify", "mark_ready", "alias",
                        "set_active", "confirm", "recover", "mark_failed",
                        "require_active", "revalidate", "retire", "drop_alias"}

Request == [op : {"none", "create", "provision", "activate", "revalidate", "retire"},
            gen : Gen \cup {NoGen},
            expected : Gen \cup {NoGen},
            batch : Batch,
            fault : {"none", "refused", "unavailable"}]

Init ==
  /\ catalog = Nothing
  /\ late = {}
  /\ physical = [g \in Gen |-> "none"]
  /\ alias = NoGen
  /\ lock = [p \in Replica |-> NoHandler]
  /\ pc = [h \in Handler |-> "idle"]
  /\ req = [h \in Handler |-> Idle]

----------------------------------------------------------------------------
(* What one request does next.                                             *)

Goto(h, label) == pc' = [pc EXCEPT ![h] = label]

Answer(h) == Goto(h, "idle") /\ req' = [req EXCEPT ![h] = Idle]

\* Slip: the failure of a provisioning is not caught.
RaiseUncaught(h, fault) == Answer(h)

\* An exception: inside the try block of _provision it is caught, everywhere
\* else it ends the request.
Raise(h, fault) ==
  IF req[h].op \in {"create", "provision"}
  THEN Goto(h, "recover") /\ req' = [req EXCEPT ![h].fault = fault, ![h].batch = Nothing]
  ELSE Answer(h)

\* Slip: the lock is not waited for.
LockIgnored(h) == TRUE

LockIsFree(h) == lock[Home[h]] = NoHandler

\* Slip: the lock is tested but not taken.
AcquireNothing(h) == UNCHANGED lock

Acquire(h) == lock' = [lock EXCEPT ![Home[h]] = h]

Release(h) == lock' = [lock EXCEPT ![Home[h]] = NoHandler]

\* The request's batch is written and acknowledged.  It is one upsert, which
\* Qdrant logs as one operation: its points are applied together or not at all.
Written(h) == catalog' = Upserted(req[h].batch) /\ UNCHANGED late

\* The write fails or times out: whether it took effect, or will, is unknown.
WriteUnanswered(h) ==
  /\ "catalog" \in Unreliable
  /\ \/ UNCHANGED <<catalog, late>>
     \/ Written(h)
     \/ /\ LateWrites /\ Cardinality(late) < MaxLate
        /\ late' = late \cup {req[h].batch}
        /\ UNCHANGED catalog

\* A call to the vector store fails before or after its effect on v.
StoreFails(v, effect) == "store" \in Unreliable /\ v' \in {v, effect}
----------------------------------------------------------------------------
(* CollectionService._provision, for create and provision_generation.      *)

Fresh(g) ==
  /\ catalog[g] = "absent"
  /\ \A h \in Handler : req[h].gen # g
  /\ \A batch \in late : batch[g] = "absent"

BeginProvision(h, op) ==
  /\ pc[h] = "idle"
  /\ \E g \in Gen :
       /\ Fresh(g)
       /\ req' = [req EXCEPT ![h] = [Idle EXCEPT !.op = op, !.gen = g, !.batch = OnePoint(g, "building")]]
  /\ Goto(h, "add")
  /\ UNCHANGED <<catalog, late, physical, alias, lock>>

\* create: no generation of the logical id may exist, in any state.
BeginCreate(h) == Catalog!Recorded = {} /\ BeginProvision(h, "create")

\* provision_generation: the logical collection must have its active generation.
BeginProvisionGeneration(h) == (\E g \in Gen : Active = {g}) /\ BeginProvision(h, "provision")

\* add_generation takes no lock and is called before the try block.
AddGeneration(h) ==
  /\ pc[h] = "add"
  /\ \/ Written(h) /\ Goto(h, "build") /\ req' = [req EXCEPT ![h].batch = Nothing]
     \/ WriteUnanswered(h) /\ Answer(h)
  /\ UNCHANGED <<physical, alias, lock>>

\* create_collection; the adapter's own contract check may refuse a contract
\* the HTTP layer accepted.
CreateCollection(h) ==
  LET built == [physical EXCEPT ![req[h].gen] = "created"] IN
  /\ pc[h] = "build"
  /\ \/ physical' = built /\ Goto(h, "index") /\ UNCHANGED req
     \/ StoreFails(physical, built) /\ Raise(h, "unavailable")
     \/ Raise(h, "refused") /\ UNCHANGED physical
  /\ UNCHANGED <<catalog, late, alias, lock>>

\* Slip: a failed index creation is ignored, and verification with it.
IndexFailureIgnored(h) ==
  LET built == [physical EXCEPT ![req[h].gen] = "indexed"] IN
  /\ pc[h] = "index"
  /\ physical' = built \/ StoreFails(physical, built)
  /\ Goto(h, "mark_ready")
  /\ UNCHANGED <<req, catalog, late, alias, lock>>

\* create_payload_indexes: every index, then the schema marker point.
CreatePayloadIndexes(h) ==
  LET built == [physical EXCEPT ![req[h].gen] = "indexed"] IN
  /\ pc[h] = "index"
  /\ \/ physical' = built /\ Goto(h, "verify") /\ UNCHANGED req
     \/ StoreFails(physical, built) /\ Raise(h, "unavailable")
  /\ UNCHANGED <<catalog, late, alias, lock>>

Verified(g) == physical[g] = "indexed"

VerifyCollection(h) ==
  /\ pc[h] = "verify"
  /\ \/ Verified(req[h].gen) /\ Goto(h, "mark_ready") /\ UNCHANGED req
     \/ ("store" \in Unreliable \/ ~Verified(req[h].gen)) /\ Raise(h, "unavailable")
  /\ UNCHANGED <<catalog, late, physical, alias, lock>>

\* Slip: the record is written whatever state it is in.
StateUncompared(h, expected, new, commit) ==
  /\ LockIsFree(h)
  /\ Acquire(h)
  /\ Goto(h, commit)
  /\ req' = [req EXCEPT ![h].batch = OnePoint(req[h].gen, new)]

\* update_state up to its upsert: the record is compared with the expected state.
CompareState(h, expected, new, commit) ==
  /\ LockIsFree(h)
  /\ catalog[req[h].gen] = expected
  /\ Acquire(h)
  /\ Goto(h, commit)
  /\ req' = [req EXCEPT ![h].batch = OnePoint(req[h].gen, new)]

StateChanged(h, expected) ==
  LockIsFree(h) /\ catalog[req[h].gen] # expected /\ UNCHANGED lock

CatalogReadFails(h) == LockIsFree(h) /\ "catalog" \in Unreliable /\ UNCHANGED lock

MarkReady(h) ==
  /\ pc[h] = "mark_ready"
  /\ \/ CompareState(h, "building", "ready", "commit_ready")
     \/ StateChanged(h, "building") /\ Raise(h, "refused")
     \/ CatalogReadFails(h) /\ Raise(h, "unavailable")
  /\ UNCHANGED <<catalog, late, physical, alias>>

CommitReady(h) ==
  /\ pc[h] = "commit_ready"
  /\ Release(h)
  /\ \/ /\ Written(h)
        /\ IF req[h].op = "create"
           THEN Goto(h, "alias") /\ req' = [req EXCEPT ![h].batch = Nothing]
           ELSE Answer(h)
     \/ WriteUnanswered(h) /\ Raise(h, "unavailable")
  /\ UNCHANGED <<physical, alias>>

\* The except block of _provision: a generation still building is failed.
Recover(h) ==
  /\ pc[h] = "recover"
  /\ \/ catalog[req[h].gen] = "building" /\ Goto(h, "mark_failed") /\ UNCHANGED req
     \/ catalog[req[h].gen] # "building" /\ Answer(h)
     \/ "catalog" \in Unreliable /\ Answer(h)
  /\ UNCHANGED <<catalog, late, physical, alias, lock>>

\* update_state(BUILDING -> FAILED); its own failure ends the request.
MarkFailed(h) ==
  /\ pc[h] = "mark_failed"
  /\ \/ CompareState(h, "building", "failed", "commit_failed")
     \/ (StateChanged(h, "building") \/ CatalogReadFails(h)) /\ Answer(h)
  /\ UNCHANGED <<catalog, late, physical, alias>>

\* Slip: the lock is kept when the failure has been recorded.
CommitFailedHoldingLock(h) ==
  /\ pc[h] = "commit_failed"
  /\ Written(h) \/ WriteUnanswered(h)
  /\ Answer(h)
  /\ UNCHANGED <<physical, alias, lock>>

CommitFailed(h) ==
  /\ pc[h] = "commit_failed"
  /\ Release(h)
  /\ Written(h) \/ WriteUnanswered(h)
  /\ Answer(h)
  /\ UNCHANGED <<physical, alias>>
----------------------------------------------------------------------------
(* The cutover, shared by create and activate.                             *)

\* activate: the target is read first and must be ready.
BeginActivate(h, g) ==
  /\ pc[h] = "idle"
  /\ catalog[g] = "ready"
  /\ Goto(h, "require_active")
  /\ req' = [req EXCEPT ![h] = [Idle EXCEPT !.op = "activate", !.gen = g]]
  /\ UNCHANGED <<catalog, late, physical, alias, lock>>

\* _require_active and the comparison with the caller's expected generation:
\* only a caller that named the active generation goes on.
RequireActive(h) ==
  /\ pc[h] = "require_active"
  /\ \/ \E g \in Gen :
          /\ Active = {g}
          /\ Goto(h, "alias")
          /\ req' = [req EXCEPT ![h].expected = g]
     \/ Answer(h)
  /\ UNCHANGED <<catalog, late, physical, alias, lock>>

\* Qdrant may report a conflict on creating an alias that exists, and on
\* replacing one that does not.
AliasUnexpected(h) == ~(alias = NoGen <=> req[h].expected = NoGen)

\* verify_collection and activate_alias: the alias actions go in one update.
ActivateAlias(h) ==
  /\ pc[h] = "alias"
  /\ \/ Verified(req[h].gen) /\ alias' = req[h].gen /\ Goto(h, "set_active") /\ UNCHANGED req
     \/ (~Verified(req[h].gen) \/ AliasUnexpected(h)) /\ UNCHANGED alias /\ Raise(h, "refused")
     \/ StoreFails(alias, req[h].gen) /\ Raise(h, "unavailable")
  /\ UNCHANGED <<catalog, late, physical, lock>>

\* Slip: the active generation is not compared with the expected one.
SetActiveUnchecked(h) ==
  /\ pc[h] = "set_active"
  /\ LockIsFree(h)
  /\ Acquire(h)
  /\ Goto(h, "target")
  /\ UNCHANGED <<req, catalog, late, physical, alias>>

\* set_active, under the lock: the active generation is compared ...
SetActive(h) ==
  /\ pc[h] = "set_active"
  /\ LockIsFree(h)
  /\ \/ Active = ExpectedActive(h) /\ Acquire(h) /\ Goto(h, "target") /\ UNCHANGED req
     \/ Active # ExpectedActive(h) /\ UNCHANGED lock /\ Raise(h, "refused")
     \/ CatalogReadFails(h) /\ Raise(h, "unavailable")
  /\ UNCHANGED <<catalog, late, physical, alias>>

\* Slip: the predecessor is retired by a write of its own, before the target's.
PredecessorFirst(h) ==
  IF req[h].expected = NoGen THEN OnePoint(req[h].gen, "active") ELSE OnePoint(req[h].expected, "retired")

\* The target becomes active and its predecessor, if any, retired.
CutoverBatch(h) ==
  [g \in Gen |-> IF g = req[h].gen THEN "active"
                 ELSE IF g = req[h].expected THEN "retired" ELSE "absent"]

\* ... then the target is read and must still be ready ...
ReadTarget(h) ==
  /\ pc[h] = "target"
  /\ \/ /\ catalog[req[h].gen] = "ready"
        /\ Goto(h, "commit_active")
        /\ req' = [req EXCEPT ![h].batch = CutoverBatch(h)]
        /\ UNCHANGED lock
     \/ catalog[req[h].gen] # "ready" /\ Release(h) /\ Raise(h, "refused")
     \/ "catalog" \in Unreliable /\ Release(h) /\ Raise(h, "unavailable")
  /\ UNCHANGED <<catalog, late, physical, alias>>

\* ... and one batched upsert activates it and retires the predecessor.
CommitActive(h) ==
  /\ pc[h] = "commit_active"
  /\ Release(h)
  /\ \/ Written(h) /\ Goto(h, "confirm") /\ req' = [req EXCEPT ![h].batch = Nothing]
     \/ WriteUnanswered(h) /\ Raise(h, "unavailable")
  /\ UNCHANGED <<physical, alias>>

\* The generation is read back for the answer.
Confirm(h) ==
  /\ pc[h] = "confirm"
  /\ \/ Answer(h)
     \/ "catalog" \in Unreliable /\ Raise(h, "unavailable")
  /\ UNCHANGED <<catalog, late, physical, alias, lock>>
----------------------------------------------------------------------------
(* Rollback: an operator revalidates a retired generation and activates it *)
(* again.  No route leads here; update_state is called on the catalog.     *)

\* The operator has seen that the generation's collection is still complete.
BeginRevalidate(h) ==
  /\ pc[h] = "idle"
  /\ \E g \in Gen :
       /\ catalog[g] = "retired"
       /\ Verified(g)
       /\ req' = [req EXCEPT ![h] = [Idle EXCEPT !.op = "revalidate", !.gen = g]]
  /\ Goto(h, "revalidate")
  /\ UNCHANGED <<catalog, late, physical, alias, lock>>

\* update_state(RETIRED -> READY); the write is CommitReady's.
Revalidate(h) ==
  /\ pc[h] = "revalidate"
  /\ \/ CompareState(h, "retired", "ready", "commit_ready")
     \/ (StateChanged(h, "retired") \/ CatalogReadFails(h)) /\ Answer(h)
  /\ UNCHANGED <<catalog, late, physical, alias>>
----------------------------------------------------------------------------
(* Retirement of the logical collection.                                   *)

BeginRetire(h) ==
  /\ pc[h] = "idle"
  /\ \E g \in Gen :
       /\ Active = {g}
       /\ req' = [req EXCEPT ![h] = [Idle EXCEPT !.op = "retire", !.expected = g]]
  /\ Goto(h, "retire")
  /\ UNCHANGED <<catalog, late, physical, alias, lock>>

\* retire_logical, under the lock: the active generation is compared ...
RetireLogical(h) ==
  /\ pc[h] = "retire"
  /\ LockIsFree(h)
  /\ \/ Active = ExpectedActive(h) /\ Acquire(h) /\ Goto(h, "list") /\ UNCHANGED req
     \/ Active # ExpectedActive(h) /\ UNCHANGED lock /\ Answer(h)
     \/ CatalogReadFails(h) /\ Answer(h)
  /\ UNCHANGED <<catalog, late, physical, alias>>

\* Slip: only the active generation is retired.
RetirementOfActive == [g \in Gen |-> IF catalog[g] = "active" THEN "retired" ELSE "absent"]

\* Slip: failed generations are retired as well.
RetirementOfFailed == [g \in Gen |-> IF catalog[g] = "absent" THEN "absent" ELSE "retired"]

\* Every generation on record is retired, except that a failed one stays failed.
RetirementBatch ==
  [g \in Gen |-> IF catalog[g] \in {"absent", "failed"} THEN catalog[g] ELSE "retired"]

\* ... every generation is listed ...
ListGenerations(h) ==
  /\ pc[h] = "list"
  /\ \/ /\ Goto(h, "commit_retired")
        /\ req' = [req EXCEPT ![h].batch = RetirementBatch]
        /\ UNCHANGED lock
     \/ "catalog" \in Unreliable /\ Release(h) /\ Answer(h)
  /\ UNCHANGED <<catalog, late, physical, alias>>

\* ... and one batched upsert retires them.
CommitRetired(h) ==
  /\ pc[h] = "commit_retired"
  /\ Release(h)
  /\ \/ Written(h) /\ Goto(h, "drop_alias") /\ req' = [req EXCEPT ![h].batch = Nothing]
     \/ WriteUnanswered(h) /\ Answer(h)
  /\ UNCHANGED <<physical, alias>>

\* retire_alias comes after the catalog, and a missing alias is no error.
RetireAlias(h) ==
  /\ pc[h] = "drop_alias"
  /\ alias' = NoGen \/ StoreFails(alias, NoGen)
  /\ Answer(h)
  /\ UNCHANGED <<catalog, late, physical, lock>>
----------------------------------------------------------------------------
(* The environment.                                                        *)

\* A write that had timed out takes effect.
LateWriteLands ==
  \E batch \in late :
    /\ catalog' = Upserted(batch)
    /\ late' = late \ {batch}
    /\ UNCHANGED <<physical, alias, lock, pc, req>>

\* A replica crashes and restarts: its requests and its lock are gone, and
\* nothing at start-up looks for what they left behind.
Crash(p) ==
  /\ Crashes
  /\ \E h \in Handler : Home[h] = p /\ pc[h] # "idle"
  /\ pc' = [h \in Handler |-> IF Home[h] = p THEN "idle" ELSE pc[h]]
  /\ req' = [h \in Handler |-> IF Home[h] = p THEN Idle ELSE req[h]]
  /\ lock' = [lock EXCEPT ![p] = NoHandler]
  /\ UNCHANGED <<catalog, late, physical, alias>>

Begin(h) ==
  \/ BeginCreate(h)
  \/ BeginProvisionGeneration(h)
  \/ \E g \in Gen : BeginActivate(h, g)
  \/ BeginRevalidate(h)
  \/ BeginRetire(h)

Continue(h) ==
  \/ AddGeneration(h) \/ CreateCollection(h) \/ CreatePayloadIndexes(h) \/ VerifyCollection(h)
  \/ MarkReady(h) \/ CommitReady(h) \/ Recover(h) \/ MarkFailed(h) \/ CommitFailed(h)
  \/ RequireActive(h) \/ ActivateAlias(h)
  \/ SetActive(h) \/ ReadTarget(h) \/ CommitActive(h) \/ Confirm(h) \/ Revalidate(h)
  \/ RetireLogical(h) \/ ListGenerations(h) \/ CommitRetired(h) \/ RetireAlias(h)

Next ==
  \/ \E h \in Handler : Begin(h)
  \/ \E h \in Handler : Continue(h)
  \/ LateWriteLands
  \/ \E p \in Replica : Crash(p)

Spec == Init /\ [][Next]_vars
----------------------------------------------------------------------------
(* Fairness: a dependency call completes or times out, and asyncio.Lock    *)
(* hands the lock over in arrival order, so a request that is under way    *)
(* always moves on.  No client is obliged to begin a request.              *)
Fairness == \A h \in Handler : SF_vars(Continue(h))

FairSpec == Spec /\ Fairness

----------------------------------------------------------------------------
TypeOK ==
  /\ catalog \in [Gen -> State]
  /\ late \subseteq Batch
  /\ physical \in [Gen -> {"none", "created", "indexed"}]
  /\ alias \in Gen \cup {NoGen}
  /\ lock \in [Replica -> Handler \cup {NoHandler}]
  /\ pc \in [Handler -> Label]
  /\ req \in [Handler -> Request]

\* No request is under way.
Quiet == \A h \in Handler : pc[h] = "idle"

----------------------------------------------------------------------------
(* Safety.                                                                 *)

\* Only one generation is active, however creates, activations and a
\* retirement interleave, fail half-way or crash: reads and writes of the
\* whole service choose their physical collection through get_active.
AtMostOneActive == Catalog!AtMostOneActive

\* Whatever requests can be pointed at is completely built: a generation
\* that is ready or active, and the target of the alias, have their physical
\* collection, every payload index and the schema marker.
OnlyBuiltIsServed ==
  /\ \A g \in Gen : catalog[g] \in {"ready", "active"} => Verified(g)
  /\ alias # NoGen => Verified(alias)

\* When a generation becomes active, the generation active until that very
\* step is the one the request's caller expected (none for a create): the
\* comparison made before the alias moved, or at the start of set_active, is
\* still true when the write lands.
CutoverReplacesExpected ==
  [][\A g \in Gen :
       catalog[g] # "active" /\ catalog'[g] = "active"
         => \E h \in Handler :
              /\ pc[h] = "commit_active"
              /\ req[h].gen = g
              /\ Active = ExpectedActive(h)]_vars

\* Only retirement takes a collection offline: no cutover, failed or crashed
\* at any point, leaves a collection that had an active generation without one.
OnlyRetirementDeactivates ==
  [][Active # {} /\ Active' = {} => \E h \in Handler : pc[h] = "commit_retired"]_vars

\* Every step of the service is an atomic step of the abstract catalog, or
\* does not change it: the lock makes each read-compare-write indivisible.
ImplementsCatalog == Catalog!CatalogSpec

\* A provisioning that fails, whichever call failed, records its generation as
\* failed: when its request is answered the generation is left building only if
\* the very calls that should have told the catalog failed, and otherwise only
\* by a crash.
FailuresAreRecorded ==
  [][\A h \in Handler :
       (req[h].op \in {"create", "provision"} /\ pc'[h] = "idle" /\ catalog'[req[h].gen] = "building")
         => \/ "catalog" \in Unreliable /\ pc[h] \in {"add", "recover", "mark_failed", "commit_failed"}
            \/ \E p \in Replica : Crash(p)]_vars

\* No generation comes back by accident: whatever a request that read an
\* earlier state goes on to write, a failed generation stays failed, no record
\* is lost, and a retired one only becomes ready again by the write of the
\* operator who revalidates it.
OnlyRevalidationRestores ==
  [][\A g \in Gen :
       /\ catalog[g] = "failed" => catalog'[g] = "failed"
       /\ catalog[g] # "absent" => catalog'[g] # "absent"
       /\ catalog[g] = "retired" /\ catalog'[g] # "retired" =>
            /\ catalog'[g] = "ready"
            /\ \E h \in Handler :
                 pc[h] = "commit_ready" /\ req[h].op = "revalidate" /\ req[h].gen = g]_vars

\* A retirement that is acknowledged leaves nothing an activation could start
\* from: what its listing missed, because add_generation takes no lock, is
\* still building at that moment.
RetirementIsComplete ==
  [][\A h \in Handler :
       pc[h] = "commit_retired" /\ pc'[h] = "drop_alias"
         => \A g \in Gen : catalog'[g] \notin {"ready", "active"}]_vars

\* The provider's alias and the catalog name the same generation whenever no
\* request is under way.
AliasAgreesAtRest == Quiet => {alias} \ {NoGen} = Active

\* A request that has been accepted is answered: no step waits for ever, in
\* particular not for the lock a failed or refused request once held.
RequestsAreAnswered == \A h \in Handler : pc[h] # "idle" ~> pc[h] = "idle"

----------------------------------------------------------------------------
(* The inductive invariant behind AtMostOneActive, CutoverReplacesExpected *)
(* and ImplementsCatalog, for one replica without late writes.             *)

\* A handler inside a critical step holds its replica's lock.
HoldsLock(h) == pc[h] \in Critical => lock[Home[h]] = h

\* A request other than a retirement knows its generation; a retirement knows
\* the generation its caller expects to be active.
IsBound(h) ==
  /\ pc[h] \notin {"idle", "retire", "list", "commit_retired", "drop_alias"} => req[h].gen \in Gen
  /\ pc[h] \in {"retire", "list", "commit_retired"} => req[h].expected \in Gen

\* An operator only compares and writes.
OperatorCompares(h) ==
  /\ pc[h] = "revalidate" => req[h].op = "revalidate"
  /\ req[h].op = "revalidate" => pc[h] \in {"revalidate", "commit_ready"}

\* A generation about to be added has no record yet, and no other request
\* works on it.
AddsFresh(h) ==
  pc[h] = "add" =>
    /\ catalog[req[h].gen] = "absent"
    /\ req[h].batch = OnePoint(req[h].gen, "building")
    /\ \A k \in Handler \ {h} : req[k].gen # req[h].gen

\* What a handler read under the lock is still true, and the batch it is about
\* to write is the one those reads call for.
ReadsHold(h) ==
  /\ pc[h] = "commit_ready" =>
       /\ catalog[req[h].gen] = IF req[h].op = "revalidate" THEN "retired" ELSE "building"
       /\ req[h].batch = OnePoint(req[h].gen, "ready")
  /\ pc[h] = "commit_failed" =>
       catalog[req[h].gen] = "building" /\ req[h].batch = OnePoint(req[h].gen, "failed")
  /\ pc[h] \in {"target", "commit_active", "list", "commit_retired"} =>
       Active = ExpectedActive(h)
  /\ pc[h] = "commit_active" =>
       catalog[req[h].gen] = "ready" /\ req[h].batch = CutoverBatch(h)
  /\ pc[h] = "commit_retired" =>
       \A g \in Gen :
         /\ req[h].batch[g] # "absent" =>
              /\ catalog[g] # "absent"
              /\ req[h].batch[g] = IF catalog[g] = "failed" THEN "failed" ELSE "retired"
         /\ catalog[g] \notin {"absent", "building"} => req[h].batch[g] # "absent"

RequestIsBound == \A h \in Handler : IsBound(h) /\ OperatorCompares(h)

IInv ==
  /\ TypeOK
  /\ late = {}
  /\ AtMostOneActive
  /\ RequestIsBound
  /\ \A h \in Handler : HoldsLock(h) /\ AddsFresh(h) /\ ReadsHold(h)
=============================================================================
