--------------------- MODULE CollectionLifecycleProofs ---------------------
(***************************************************************************)
(* Theorems about CollectionLifecycle for any number of generations,       *)
(* request handlers and crashes, and any choice of failing dependencies.   *)
(***************************************************************************)
EXTENDS CollectionLifecycle, TLAPS

----------------------------------------------------------------------------
(* The abstract catalog, for any set of generations.                       *)

\* The catalog records one of the states of CollectionState, or nothing, for
\* every generation (the type invariant of the port).
THEOREM CatalogTypeCorrect == Catalog!CatalogSpec => []Catalog!CatalogTypeOK
<1>1. Catalog!CatalogInit => Catalog!CatalogTypeOK
  BY DEF Catalog!CatalogInit, Catalog!CatalogTypeOK, Catalog!State
<1>2. Catalog!CatalogTypeOK /\ [Catalog!CatalogNext]_catalog => Catalog!CatalogTypeOK'
  BY DEF Catalog!CatalogTypeOK, Catalog!CatalogNext, Catalog!AddGeneration, Catalog!MarkReady,
         Catalog!MarkFailed, Catalog!Revalidate, Catalog!UpdateState, Catalog!SetActive,
         Catalog!Retire, Catalog!State
<1>3. QED
  BY <1>1, <1>2, PTL DEF Catalog!CatalogSpec

\* No operation of the catalog makes a second generation active.
LEMMA CatalogOneActiveStep ==
  ASSUME Catalog!CatalogTypeOK, Catalog!AtMostOneActive, [Catalog!CatalogNext]_catalog
  PROVE  Catalog!AtMostOneActive'
<1> USE DEF Catalog!CatalogTypeOK, Catalog!AtMostOneActive, Catalog!Active
<1>1. ASSUME NEW g \in Gen, Catalog!AddGeneration(g)
      PROVE  Catalog!AtMostOneActive'
  BY <1>1 DEF Catalog!AddGeneration
<1>2. ASSUME NEW g \in Gen, Catalog!MarkReady(g) \/ Catalog!MarkFailed(g) \/ Catalog!Revalidate(g)
      PROVE  Catalog!AtMostOneActive'
  BY <1>2 DEF Catalog!MarkReady, Catalog!MarkFailed, Catalog!Revalidate, Catalog!UpdateState
<1>3. ASSUME NEW g \in Gen, Catalog!SetActive(g)
      PROVE  Catalog!AtMostOneActive'
  BY <1>3 DEF Catalog!SetActive
<1>4. ASSUME NEW listed \in SUBSET Catalog!Recorded, Catalog!Retire(listed)
      PROVE  Catalog!AtMostOneActive'
  BY <1>4 DEF Catalog!Retire
<1>5. CASE UNCHANGED catalog
  BY <1>5
<1>6. QED
  BY <1>1, <1>2, <1>3, <1>4, <1>5 DEF Catalog!CatalogNext

\* At most one generation of a logical collection is ever active.
THEOREM CatalogAtMostOneActive == Catalog!CatalogSpec => []Catalog!AtMostOneActive
<1>1. Catalog!CatalogInit => Catalog!AtMostOneActive
  BY DEF Catalog!CatalogInit, Catalog!AtMostOneActive, Catalog!Active
<1>2. Catalog!CatalogTypeOK /\ Catalog!AtMostOneActive /\ [Catalog!CatalogNext]_catalog
        => Catalog!AtMostOneActive'
  BY CatalogOneActiveStep
<1>3. QED
  BY <1>1, <1>2, CatalogTypeCorrect, PTL DEF Catalog!CatalogSpec

----------------------------------------------------------------------------
(* Batches.                                                                *)

\* The batches that requests build are batches, and writing one yields a
\* catalog again.
LEMMA BatchTypes ==
  /\ Nothing \in Batch
  /\ \A g \in Gen, s \in State : OnePoint(g, s) \in Batch
  /\ \A h \in Handler : CutoverBatch(h) \in Batch
  /\ catalog \in Batch => RetirementBatch \in Batch
  /\ catalog \in Batch => \A b \in Batch : Upserted(b) \in Batch
<1> USE DEF Nothing, Batch, State, Catalog!State
<1>1. Nothing \in Batch
  OBVIOUS
<1>2. \A g \in Gen, s \in State : OnePoint(g, s) \in Batch
  BY DEF OnePoint
<1>3. \A h \in Handler : CutoverBatch(h) \in Batch
  BY DEF CutoverBatch
<1>4. catalog \in Batch => RetirementBatch \in Batch
  BY DEF RetirementBatch
<1>5. catalog \in Batch => \A b \in Batch : Upserted(b) \in Batch
  BY DEF Upserted
<1>6. QED
  BY <1>1, <1>2, <1>3, <1>4, <1>5

\* The state names a request writes.
LEMMA WrittenStates == {"absent", "building", "ready", "active", "retired", "failed"} \subseteq State
BY DEF State, Catalog!State

----------------------------------------------------------------------------
(* Type correctness.                                                       *)

LEMMA IdleIsARequest ==
  /\ Idle \in Request
  /\ \A op \in {"create", "provision"}, g \in Gen, b \in Batch :
       [Idle EXCEPT !.op = op, !.gen = g, !.batch = b] \in Request
  /\ \A op \in {"activate", "revalidate"}, g \in Gen : [Idle EXCEPT !.op = op, !.gen = g] \in Request
  /\ \A g \in Gen : [Idle EXCEPT !.op = "retire", !.expected = g] \in Request
BY BatchTypes DEF Idle, Request

\* The two ways a request ends keep the types.
LEMMA AnswerType ==
  ASSUME TypeOK, NEW h \in Handler, Answer(h)
  PROVE  pc' \in [Handler -> Label] /\ req' \in [Handler -> Request]
BY IdleIsARequest DEF TypeOK, Answer, Goto, Label

LEMMA RaiseType ==
  ASSUME TypeOK, NEW h \in Handler, NEW fault \in {"refused", "unavailable"}, Raise(h, fault)
  PROVE  pc' \in [Handler -> Label] /\ req' \in [Handler -> Request]
<1>1. CASE Answer(h)
  BY <1>1, AnswerType
<1>2. CASE Goto(h, "recover") /\ req' = [req EXCEPT ![h].fault = fault, ![h].batch = Nothing]
  <2>1. "recover" \in Label
    BY DEF Label
  <2>2. pc' \in [Handler -> Label]
    BY <1>2, <2>1 DEF TypeOK, Goto
  <2>3. req[h] \in Request /\ Nothing \in Batch
    BY BatchTypes DEF TypeOK
  <2>4. [req[h] EXCEPT !.fault = fault, !.batch = Nothing] \in Request
    BY <2>3 DEF Request
  <2>5. req' \in [Handler -> Request]
    BY <1>2, <2>4 DEF TypeOK
  <2>6. QED
    BY <2>2, <2>5
<1>3. QED
  BY <1>1, <1>2 DEF Raise

LEMMA LockType ==
  ASSUME TypeOK, NEW h \in Handler, Acquire(h) \/ Release(h)
  PROVE  lock' \in [Replica -> Handler \cup {NoHandler}]
BY LifecycleAssumption DEF TypeOK, Acquire, Release

LEMMA WriteType ==
  ASSUME TypeOK, NEW h \in Handler, Written(h) \/ WriteUnanswered(h)
  PROVE  catalog' \in [Gen -> State] /\ late' \subseteq Batch
<1>1. req[h].batch \in Batch
  BY DEF TypeOK, Request
<1>2. Upserted(req[h].batch) \in [Gen -> State]
  BY <1>1, BatchTypes DEF TypeOK, Batch
<1>3. QED
  BY <1>1, <1>2 DEF TypeOK, Written, WriteUnanswered

\* A request that goes on to another label with its batch cleared.
LEMMA GotoType ==
  ASSUME TypeOK, NEW h \in Handler, NEW label \in Label, Goto(h, label),
         UNCHANGED req \/ req' = [req EXCEPT ![h].batch = Nothing]
  PROVE  pc' \in [Handler -> Label] /\ req' \in [Handler -> Request]
BY BatchTypes DEF TypeOK, Goto, Request

LEMMA CompareStateType ==
  ASSUME TypeOK, NEW h \in Handler, NEW new \in {"ready", "failed"},
         NEW commit \in {"commit_ready", "commit_failed"},
         NEW expected, req[h].gen \in Gen, CompareState(h, expected, new, commit)
  PROVE  /\ pc' \in [Handler -> Label]
         /\ req' \in [Handler -> Request]
         /\ lock' \in [Replica -> Handler \cup {NoHandler}]
<1>1. OnePoint(req[h].gen, new) \in Batch
  BY BatchTypes, WrittenStates
<1>2. QED
  BY <1>1, LockType DEF TypeOK, CompareState, Goto, Label, Critical, Request

\* The steps of create and provision_generation.
LEMMA ProvisionTypes ==
  ASSUME TypeOK, RequestIsBound, NEW h \in Handler,
         \/ BeginCreate(h) \/ BeginProvisionGeneration(h) \/ AddGeneration(h)
         \/ CreateCollection(h) \/ CreatePayloadIndexes(h) \/ VerifyCollection(h)
         \/ MarkReady(h) \/ CommitReady(h) \/ Recover(h) \/ MarkFailed(h) \/ CommitFailed(h)
  PROVE  TypeOK'
<1> USE DEF Label, Critical
<1>1. ASSUME NEW op \in {"create", "provision"}, BeginProvision(h, op)
      PROVE  TypeOK'
  <2>1. PICK g \in Gen :
          req' = [req EXCEPT ![h] = [Idle EXCEPT !.op = op, !.gen = g, !.batch = OnePoint(g, "building")]]
    BY <1>1 DEF BeginProvision
  <2>2. OnePoint(g, "building") \in Batch
    BY BatchTypes, WrittenStates
  <2>3. req' \in [Handler -> Request]
    BY <2>1, <2>2, IdleIsARequest DEF TypeOK
  <2>4. QED
    BY <1>1, <2>3 DEF TypeOK, BeginProvision, Goto
<1>2. CASE AddGeneration(h)
  BY <1>2, WriteType, AnswerType, GotoType DEF TypeOK, AddGeneration
<1>3. CASE CreateCollection(h)
  BY <1>3, RaiseType, GotoType DEF TypeOK, CreateCollection, StoreFails
<1>4. CASE CreatePayloadIndexes(h)
  BY <1>4, RaiseType, GotoType DEF TypeOK, CreatePayloadIndexes, StoreFails
<1>5. CASE VerifyCollection(h)
  BY <1>5, RaiseType, GotoType DEF TypeOK, VerifyCollection
<1>6. CASE MarkReady(h)
  <2>1. req[h].gen \in Gen
    BY <1>6 DEF RequestIsBound, IsBound, MarkReady
  <2>2. QED
    BY <1>6, <2>1, CompareStateType, RaiseType
    DEF TypeOK, MarkReady, StateChanged, CatalogReadFails
<1>7. CASE CommitReady(h)
  <2>1. lock' \in [Replica -> Handler \cup {NoHandler}]
    BY <1>7, LockType DEF CommitReady
  <2>2. catalog' \in [Gen -> State] /\ late' \subseteq Batch
    BY <1>7, WriteType DEF CommitReady
  <2>3. pc' \in [Handler -> Label] /\ req' \in [Handler -> Request]
    BY <1>7, RaiseType, AnswerType, GotoType DEF CommitReady
  <2>4. QED
    BY <1>7, <2>1, <2>2, <2>3 DEF TypeOK, CommitReady
<1>8. CASE Recover(h)
  BY <1>8, AnswerType, GotoType DEF TypeOK, Recover
<1>9. CASE MarkFailed(h)
  <2>1. req[h].gen \in Gen
    BY <1>9 DEF RequestIsBound, IsBound, MarkFailed
  <2>2. QED
    BY <1>9, <2>1, CompareStateType, AnswerType
    DEF TypeOK, MarkFailed, StateChanged, CatalogReadFails
<1>10. CASE CommitFailed(h)
  BY <1>10, WriteType, AnswerType, LockType DEF TypeOK, CommitFailed
<1>11. QED
  BY <1>1, <1>2, <1>3, <1>4, <1>5, <1>6, <1>7, <1>8, <1>9, <1>10
  DEF BeginCreate, BeginProvisionGeneration

\* The steps of activate, revalidate and retire, and those create shares with
\* activate.
LEMMA CutoverTypes ==
  ASSUME TypeOK, RequestIsBound, NEW h \in Handler,
         \/ \E g \in Gen : BeginActivate(h, g)
         \/ BeginRevalidate(h) \/ Revalidate(h) \/ RequireActive(h) \/ ActivateAlias(h) \/ SetActive(h) \/ ReadTarget(h)
         \/ CommitActive(h) \/ Confirm(h) \/ BeginRetire(h) \/ RetireLogical(h)
         \/ ListGenerations(h) \/ CommitRetired(h) \/ RetireAlias(h)
  PROVE  TypeOK'
<1> USE DEF Label, Critical
<1>1. ASSUME NEW g \in Gen, BeginActivate(h, g)
      PROVE  TypeOK'
  BY <1>1, IdleIsARequest DEF TypeOK, BeginActivate, Goto
<1>2. CASE RequireActive(h)
  <2>1. CASE Answer(h)
    BY <1>2, <2>1, AnswerType DEF TypeOK, RequireActive
  <2>2. CASE ~Answer(h)
    <3>1. PICK g \in Gen : Goto(h, "alias") /\ req' = [req EXCEPT ![h].expected = g]
      BY <1>2, <2>2 DEF RequireActive
    <3>2. [req[h] EXCEPT !.expected = g] \in Request
      BY DEF TypeOK, Request
    <3>3. QED
      BY <1>2, <3>1, <3>2 DEF TypeOK, RequireActive, Goto
  <2>3. QED
    BY <2>1, <2>2
<1>3. CASE ActivateAlias(h)
  <2>1. req[h].gen \in Gen
    BY <1>3 DEF RequestIsBound, IsBound, ActivateAlias
  <2>2. QED
    BY <1>3, <2>1, RaiseType, GotoType DEF TypeOK, ActivateAlias, StoreFails
<1>4. CASE SetActive(h)
  BY <1>4, RaiseType, GotoType, LockType DEF TypeOK, SetActive, CatalogReadFails
<1>5. CASE ReadTarget(h)
  <2>1. lock' \in [Replica -> Handler \cup {NoHandler}]
    BY <1>5, LockType DEF TypeOK, ReadTarget
  <2>2. pc' \in [Handler -> Label] /\ req' \in [Handler -> Request]
    <3>1. CutoverBatch(h) \in Batch
      BY BatchTypes
    <3>2. [req[h] EXCEPT !.batch = CutoverBatch(h)] \in Request
      BY <3>1 DEF TypeOK, Request
    <3>3. CASE Goto(h, "commit_active") /\ req' = [req EXCEPT ![h].batch = CutoverBatch(h)]
      BY <3>2, <3>3 DEF TypeOK, Goto
    <3>4. CASE Raise(h, "refused") \/ Raise(h, "unavailable")
      BY <3>4, RaiseType
    <3>5. QED
      BY <1>5, <3>3, <3>4 DEF ReadTarget
  <2>3. QED
    BY <1>5, <2>1, <2>2 DEF TypeOK, ReadTarget
<1>6. CASE CommitActive(h)
  <2>1. pc' \in [Handler -> Label] /\ req' \in [Handler -> Request]
    BY <1>6, RaiseType, GotoType DEF CommitActive
  <2>2. QED
    BY <1>6, <2>1, WriteType, LockType DEF TypeOK, CommitActive
<1>7. CASE Confirm(h)
  BY <1>7, RaiseType, AnswerType DEF TypeOK, Confirm
<1>8. CASE BeginRetire(h)
  <2>1. PICK g \in Gen : req' = [req EXCEPT ![h] = [Idle EXCEPT !.op = "retire", !.expected = g]]
    BY <1>8 DEF BeginRetire
  <2>2. QED
    BY <1>8, <2>1, IdleIsARequest DEF TypeOK, BeginRetire, Goto
<1>9. CASE RetireLogical(h)
  BY <1>9, AnswerType, GotoType, LockType DEF TypeOK, RetireLogical, CatalogReadFails
<1>10. CASE ListGenerations(h)
  <2>1. lock' \in [Replica -> Handler \cup {NoHandler}]
    BY <1>10, LockType DEF TypeOK, ListGenerations
  <2>2. pc' \in [Handler -> Label] /\ req' \in [Handler -> Request]
    <3>1. RetirementBatch \in Batch
      BY BatchTypes DEF TypeOK, Batch
    <3>2. [req[h] EXCEPT !.batch = RetirementBatch] \in Request
      BY <3>1 DEF TypeOK, Request
    <3>3. CASE Goto(h, "commit_retired") /\ req' = [req EXCEPT ![h].batch = RetirementBatch]
      BY <3>2, <3>3 DEF TypeOK, Goto
    <3>4. QED
      BY <1>10, <3>3, AnswerType DEF ListGenerations
  <2>3. QED
    BY <1>10, <2>1, <2>2 DEF TypeOK, ListGenerations
<1>11. CASE CommitRetired(h)
  BY <1>11, WriteType, AnswerType, GotoType, LockType DEF TypeOK, CommitRetired
<1>12. CASE RetireAlias(h)
  BY <1>12, AnswerType DEF TypeOK, RetireAlias, StoreFails
<1>13. CASE BeginRevalidate(h)
  <2>1. PICK g \in Gen : req' = [req EXCEPT ![h] = [Idle EXCEPT !.op = "revalidate", !.gen = g]]
    BY <1>13 DEF BeginRevalidate
  <2>2. req' \in [Handler -> Request]
    BY <2>1, IdleIsARequest DEF TypeOK
  <2>3. QED
    BY <1>13, <2>2 DEF TypeOK, BeginRevalidate, Goto
<1>14. CASE Revalidate(h)
  <2>1. req[h].gen \in Gen
    BY <1>14 DEF RequestIsBound, IsBound, Revalidate
  <2>2. QED
    BY <1>14, <2>1, CompareStateType, AnswerType DEF TypeOK, Revalidate, StateChanged, CatalogReadFails
<1>15. QED
  BY <1>1, <1>2, <1>3, <1>4, <1>5, <1>6, <1>7, <1>8, <1>9, <1>10, <1>11, <1>12, <1>13, <1>14

\* A step of one request leaves the others where they are.
LEMMA OthersUnmoved ==
  ASSUME TypeOK, NEW h \in Handler, Begin(h) \/ Continue(h), NEW k \in Handler \ {h}
  PROVE  pc'[k] = pc[k] /\ req'[k] = req[k]
<1> USE DEF TypeOK, Goto, Answer, Raise
<1>1. CASE BeginCreate(h) \/ BeginProvisionGeneration(h)
  BY <1>1 DEF BeginCreate, BeginProvisionGeneration, BeginProvision
<1>2. CASE (\E g \in Gen : BeginActivate(h, g)) \/ BeginRetire(h) \/ BeginRevalidate(h)
  BY <1>2 DEF BeginActivate, BeginRetire, BeginRevalidate
<1>3. CASE AddGeneration(h) \/ CreateCollection(h) \/ CreatePayloadIndexes(h) \/ VerifyCollection(h)
  BY <1>3 DEF AddGeneration, CreateCollection, CreatePayloadIndexes, VerifyCollection
<1>4. CASE MarkReady(h) \/ CommitReady(h) \/ Recover(h) \/ MarkFailed(h) \/ CommitFailed(h)
  BY <1>4 DEF MarkReady, CommitReady, Recover, MarkFailed, CommitFailed, CompareState
<1>5. CASE RequireActive(h) \/ ActivateAlias(h) \/ SetActive(h) \/ ReadTarget(h)
  BY <1>5 DEF RequireActive, ActivateAlias, SetActive, ReadTarget
<1>6. CASE CommitActive(h) \/ Confirm(h) \/ RetireLogical(h) \/ Revalidate(h)
  BY <1>6 DEF CommitActive, Confirm, RetireLogical, Revalidate, CompareState
<1>7. CASE ListGenerations(h) \/ CommitRetired(h) \/ RetireAlias(h)
  BY <1>7 DEF ListGenerations, CommitRetired, RetireAlias
<1>8. QED
  BY <1>1, <1>2, <1>3, <1>4, <1>5, <1>6, <1>7 DEF Begin, Continue

\* The request that moves stays bound to its generation.
LEMMA StaysBound ==
  ASSUME TypeOK, NEW h \in Handler, IsBound(h), Begin(h) \/ Continue(h)
  PROVE  IsBound(h)'
<1> USE DEF TypeOK, Goto, Answer, Raise, IsBound, Request
<1>1. ASSUME NEW op \in {"create", "provision"}, BeginProvision(h, op)
      PROVE  IsBound(h)'
  <2>1. PICK g \in Gen :
          req' = [req EXCEPT ![h] = [Idle EXCEPT !.op = op, !.gen = g, !.batch = OnePoint(g, "building")]]
    BY <1>1 DEF BeginProvision
  <2>2. pc'[h] = "add" /\ req'[h].gen = g /\ req'[h].op = op
    BY <1>1, <2>1 DEF BeginProvision, Idle
  <2>3. QED
    BY <2>2
<1>2. CASE (\E g \in Gen : BeginActivate(h, g)) \/ BeginRetire(h) \/ BeginRevalidate(h)
  <2>1. ASSUME NEW g \in Gen, BeginActivate(h, g)
        PROVE  IsBound(h)'
    BY <2>1 DEF BeginActivate, Idle
  <2>2. CASE BeginRetire(h)
    BY <2>2 DEF BeginRetire, Idle
  <2>3. CASE BeginRevalidate(h)
    BY <2>3 DEF BeginRevalidate, Idle
  <2>4. QED
    BY <1>2, <2>1, <2>2, <2>3
<1>3. CASE AddGeneration(h) \/ CreateCollection(h) \/ CreatePayloadIndexes(h) \/ VerifyCollection(h)
  BY <1>3 DEF AddGeneration, CreateCollection, CreatePayloadIndexes, VerifyCollection
<1>4. CASE MarkReady(h) \/ CommitReady(h) \/ Recover(h) \/ MarkFailed(h) \/ CommitFailed(h)
  BY <1>4 DEF MarkReady, CommitReady, Recover, MarkFailed, CommitFailed, CompareState
<1>5. CASE RequireActive(h) \/ ActivateAlias(h) \/ SetActive(h) \/ ReadTarget(h)
  BY <1>5 DEF RequireActive, ActivateAlias, SetActive, ReadTarget
<1>6. CASE CommitActive(h) \/ Confirm(h) \/ RetireLogical(h) \/ Revalidate(h)
  BY <1>6 DEF CommitActive, Confirm, RetireLogical, Revalidate, CompareState
<1>7. CASE ListGenerations(h) \/ CommitRetired(h) \/ RetireAlias(h)
  BY <1>7 DEF ListGenerations, CommitRetired, RetireAlias
<1>8. QED
  BY <1>1, <1>2, <1>3, <1>4, <1>5, <1>6, <1>7
  DEF Begin, Continue, BeginCreate, BeginProvisionGeneration

\* A request becomes an operator's, and stops being one, as a whole.
LEMMA OperatorStays ==
  ASSUME TypeOK, NEW h \in Handler, OperatorCompares(h), Begin(h) \/ Continue(h)
  PROVE  OperatorCompares(h)'
<1> USE DEF TypeOK, Goto, Answer, Raise, OperatorCompares, Request
<1>1. ASSUME NEW op \in {"create", "provision"}, BeginProvision(h, op)
      PROVE  OperatorCompares(h)'
  <2>1. PICK g \in Gen :
          req' = [req EXCEPT ![h] = [Idle EXCEPT !.op = op, !.gen = g, !.batch = OnePoint(g, "building")]]
    BY <1>1 DEF BeginProvision
  <2>2. pc'[h] = "add" /\ req'[h].op = op
    BY <1>1, <2>1 DEF BeginProvision, Idle
  <2>3. QED
    BY <2>2
<1>2. ASSUME NEW g \in Gen, BeginActivate(h, g)
      PROVE  OperatorCompares(h)'
  BY <1>2 DEF BeginActivate, Idle
<1>3. CASE BeginRetire(h)
  BY <1>3 DEF BeginRetire, Idle
<1>4. CASE BeginRevalidate(h)
  BY <1>4 DEF BeginRevalidate, Idle
<1>5. CASE pc'[h] = "idle" /\ req'[h] = Idle
  BY <1>5 DEF Idle
<1>6. CASE pc[h] \notin {"revalidate", "commit_ready"} /\ pc'[h] # "revalidate" /\ req'[h].op = req[h].op
  BY <1>6
<1>7. CASE AddGeneration(h) \/ CreateCollection(h) \/ CreatePayloadIndexes(h) \/ VerifyCollection(h)
  BY <1>5, <1>6, <1>7 DEF AddGeneration, CreateCollection, CreatePayloadIndexes, VerifyCollection
<1>8. CASE MarkReady(h) \/ MarkFailed(h) \/ Recover(h) \/ CommitFailed(h)
  BY <1>5, <1>6, <1>8 DEF MarkReady, Recover, MarkFailed, CommitFailed, CompareState
<1>9. CASE CommitReady(h)
  BY <1>5, <1>9 DEF CommitReady
<1>10. CASE Revalidate(h)
  BY <1>5, <1>10 DEF Revalidate, CompareState
<1>11. CASE RequireActive(h) \/ ActivateAlias(h) \/ SetActive(h) \/ ReadTarget(h)
  BY <1>5, <1>6, <1>11 DEF RequireActive, ActivateAlias, SetActive, ReadTarget
<1>12. CASE CommitActive(h) \/ Confirm(h) \/ RetireLogical(h)
  BY <1>5, <1>6, <1>12 DEF CommitActive, Confirm, RetireLogical
<1>13. CASE ListGenerations(h) \/ CommitRetired(h) \/ RetireAlias(h)
  BY <1>5, <1>6, <1>13 DEF ListGenerations, CommitRetired, RetireAlias
<1>14. QED
  BY <1>1, <1>2, <1>3, <1>4, <1>7, <1>8, <1>9, <1>10, <1>11, <1>12, <1>13
  DEF Begin, Continue, BeginCreate, BeginProvisionGeneration

LEMMA TypeStep == TypeOK /\ RequestIsBound /\ [Next]_vars => TypeOK' /\ RequestIsBound'
<1> SUFFICES ASSUME TypeOK, RequestIsBound, [Next]_vars
             PROVE  TypeOK' /\ RequestIsBound'
  OBVIOUS
<1>1. ASSUME NEW h \in Handler, Begin(h) \/ Continue(h)
      PROVE  TypeOK' /\ RequestIsBound'
  <2>1. TypeOK'
    BY <1>1, ProvisionTypes, CutoverTypes DEF Begin, Continue
  <2>2. IsBound(h)' /\ OperatorCompares(h)'
    BY <1>1, StaysBound, OperatorStays DEF RequestIsBound
  <2>3. ASSUME NEW k \in Handler \ {h}
        PROVE  IsBound(k)' /\ OperatorCompares(k)'
    BY <1>1, OthersUnmoved DEF RequestIsBound, IsBound, OperatorCompares
  <2>4. QED
    BY <2>1, <2>2, <2>3 DEF RequestIsBound
<1>2. CASE LateWriteLands
  <2>1. PICK batch \in late : catalog' = Upserted(batch) /\ late' = late \ {batch}
    BY <1>2 DEF LateWriteLands
  <2>2. catalog' \in [Gen -> State]
    BY <2>1, BatchTypes DEF TypeOK, Batch
  <2>3. QED
    BY <1>2, <2>1, <2>2 DEF LateWriteLands, TypeOK, RequestIsBound, IsBound, OperatorCompares
<1>3. ASSUME NEW p \in Replica, Crash(p)
      PROVE  TypeOK' /\ RequestIsBound'
  <2>1. TypeOK'
    BY <1>3, IdleIsARequest DEF Crash, TypeOK, Label
  <2>2. RequestIsBound'
    BY <1>3 DEF Crash, RequestIsBound, IsBound, OperatorCompares, Idle
  <2>3. QED
    BY <2>1, <2>2
<1>4. CASE UNCHANGED vars
  BY <1>4 DEF vars, TypeOK, RequestIsBound, IsBound, OperatorCompares
<1>5. QED
  BY <1>1, <1>2, <1>3, <1>4 DEF Next

LEMMA InitiallyTyped == Init => TypeOK /\ RequestIsBound
<1> SUFFICES ASSUME Init PROVE TypeOK /\ RequestIsBound
  OBVIOUS
<1>1. TypeOK
  BY BatchTypes, IdleIsARequest DEF Init, TypeOK, Batch, Label
<1>2. RequestIsBound
  BY DEF Init, RequestIsBound, IsBound, OperatorCompares, Idle
<1>3. QED
  BY <1>1, <1>2

\* Type correctness, for any number of replicas and with late writes.
THEOREM TypeCorrect == Spec => [](TypeOK /\ RequestIsBound)
BY InitiallyTyped, TypeStep, PTL DEF Spec

----------------------------------------------------------------------------
(* What a step may do to the catalog, to the lock and to its own request.  *)

Committing == {"commit_ready", "commit_failed", "commit_active", "commit_retired"}

\* Without late writes a request changes the catalog only by its batch, at
\* add_generation or at the end of a critical section.
LEMMA CatalogEffect ==
  ASSUME TypeOK, ~LateWrites, NEW h \in Handler, Begin(h) \/ Continue(h)
  PROVE  /\ UNCHANGED late
         /\ \/ UNCHANGED catalog
            \/ pc[h] \in Committing \cup {"add"} /\ catalog' = Upserted(req[h].batch)
<1> USE DEF Written, WriteUnanswered, Committing
<1>1. CASE BeginCreate(h) \/ BeginProvisionGeneration(h)
  BY <1>1 DEF BeginCreate, BeginProvisionGeneration, BeginProvision
<1>2. CASE (\E g \in Gen : BeginActivate(h, g)) \/ BeginRetire(h) \/ BeginRevalidate(h)
  BY <1>2 DEF BeginActivate, BeginRetire, BeginRevalidate
<1>3. CASE AddGeneration(h) \/ CreateCollection(h) \/ CreatePayloadIndexes(h) \/ VerifyCollection(h)
  BY <1>3 DEF AddGeneration, CreateCollection, CreatePayloadIndexes, VerifyCollection
<1>4. CASE MarkReady(h) \/ CommitReady(h) \/ Recover(h) \/ MarkFailed(h) \/ CommitFailed(h)
  BY <1>4 DEF MarkReady, CommitReady, Recover, MarkFailed, CommitFailed
<1>5. CASE RequireActive(h) \/ ActivateAlias(h) \/ SetActive(h) \/ ReadTarget(h)
  BY <1>5 DEF RequireActive, ActivateAlias, SetActive, ReadTarget
<1>6. CASE CommitActive(h) \/ Confirm(h) \/ RetireLogical(h) \/ Revalidate(h)
  BY <1>6 DEF CommitActive, Confirm, RetireLogical, Revalidate, CompareState
<1>7. CASE ListGenerations(h) \/ CommitRetired(h) \/ RetireAlias(h)
  BY <1>7 DEF ListGenerations, CommitRetired, RetireAlias
<1>8. QED
  BY <1>1, <1>2, <1>3, <1>4, <1>5, <1>6, <1>7 DEF Begin, Continue

\* The lock is taken only when free and released only by its holder; inside
\* a critical section the catalog is not written before the lock is released.
LEMMA LockEffect ==
  ASSUME TypeOK, NEW h \in Handler, Begin(h) \/ Continue(h)
  PROVE  \/ UNCHANGED lock /\ (pc[h] \in Critical <=> pc'[h] \in Critical)
         \/ LockIsFree(h) /\ Acquire(h)
         \/ pc[h] \in Critical /\ Release(h) /\ pc'[h] \notin Critical
<1> USE DEF TypeOK, Goto, Answer, Raise, Critical
<1>1. CASE BeginCreate(h) \/ BeginProvisionGeneration(h)
  BY <1>1 DEF BeginCreate, BeginProvisionGeneration, BeginProvision
<1>2. CASE (\E g \in Gen : BeginActivate(h, g)) \/ BeginRetire(h) \/ BeginRevalidate(h)
  BY <1>2 DEF BeginActivate, BeginRetire, BeginRevalidate
<1>3. CASE AddGeneration(h) \/ CreateCollection(h) \/ CreatePayloadIndexes(h) \/ VerifyCollection(h)
  BY <1>3 DEF AddGeneration, CreateCollection, CreatePayloadIndexes, VerifyCollection
<1>4. CASE MarkReady(h) \/ CommitReady(h) \/ Recover(h) \/ MarkFailed(h) \/ CommitFailed(h)
  BY <1>4 DEF MarkReady, CommitReady, Recover, MarkFailed, CommitFailed, CompareState,
              StateChanged, CatalogReadFails
<1>5. CASE RequireActive(h) \/ ActivateAlias(h) \/ SetActive(h) \/ ReadTarget(h)
  BY <1>5 DEF RequireActive, ActivateAlias, SetActive, ReadTarget, CatalogReadFails
<1>6. CASE CommitActive(h) \/ Confirm(h) \/ RetireLogical(h) \/ Revalidate(h)
  BY <1>6 DEF CommitActive, Confirm, RetireLogical, Revalidate, CompareState, StateChanged, CatalogReadFails
<1>7. CASE ListGenerations(h) \/ CommitRetired(h) \/ RetireAlias(h)
  BY <1>7 DEF ListGenerations, CommitRetired, RetireAlias
<1>8. QED
  BY <1>1, <1>2, <1>3, <1>4, <1>5, <1>6, <1>7 DEF Begin, Continue

\* What a request may be begun for: a new generation, a ready one or one that
\* was retired complete.
Open(g) == Fresh(g) \/ catalog[g] = "ready" \/ (catalog[g] = "retired" /\ Verified(g))

\* A request keeps its generation, forgets it, or takes up an open one.
LEMMA GenEffect ==
  ASSUME TypeOK, NEW h \in Handler, Begin(h) \/ Continue(h)
  PROVE  \/ req'[h].gen \in {req[h].gen, NoGen}
         \/ req'[h].gen \in Gen /\ Open(req'[h].gen)
<1> USE DEF TypeOK, Goto, Answer, Raise, Request, Idle
<1>1. ASSUME NEW op \in {"create", "provision"}, BeginProvision(h, op)
      PROVE  req'[h].gen \in Gen /\ Fresh(req'[h].gen)
  <2>1. PICK g \in Gen :
          /\ Fresh(g)
          /\ req' = [req EXCEPT ![h] = [Idle EXCEPT !.op = op, !.gen = g, !.batch = OnePoint(g, "building")]]
    BY <1>1 DEF BeginProvision
  <2>2. QED
    BY <2>1
<1>2. ASSUME NEW g \in Gen, BeginActivate(h, g)
      PROVE  req'[h].gen \in Gen /\ Open(req'[h].gen)
  BY <1>2 DEF BeginActivate, Open
<1>3. CASE BeginRetire(h)
  <2>1. PICK g \in Gen : req' = [req EXCEPT ![h] = [Idle EXCEPT !.op = "retire", !.expected = g]]
    BY <1>3 DEF BeginRetire
  <2>2. QED
    BY <2>1
<1>4. CASE AddGeneration(h) \/ CreateCollection(h) \/ CreatePayloadIndexes(h) \/ VerifyCollection(h)
  BY <1>4 DEF AddGeneration, CreateCollection, CreatePayloadIndexes, VerifyCollection
<1>5. CASE MarkReady(h) \/ CommitReady(h) \/ Recover(h) \/ MarkFailed(h) \/ CommitFailed(h)
  BY <1>5 DEF MarkReady, CommitReady, Recover, MarkFailed, CommitFailed, CompareState
<1>6. CASE RequireActive(h) \/ ActivateAlias(h) \/ SetActive(h) \/ ReadTarget(h)
  BY <1>6 DEF RequireActive, ActivateAlias, SetActive, ReadTarget
<1>7. CASE CommitActive(h) \/ Confirm(h) \/ RetireLogical(h) \/ Revalidate(h)
  BY <1>7 DEF CommitActive, Confirm, RetireLogical, Revalidate, CompareState
<1>8. CASE ListGenerations(h) \/ CommitRetired(h) \/ RetireAlias(h)
  BY <1>8 DEF ListGenerations, CommitRetired, RetireAlias
<1>9. CASE BeginRevalidate(h)
  <2>1. PICK g \in Gen :
          /\ catalog[g] = "retired" /\ Verified(g)
          /\ req' = [req EXCEPT ![h] = [Idle EXCEPT !.op = "revalidate", !.gen = g]]
    BY <1>9 DEF BeginRevalidate
  <2>2. QED
    BY <2>1 DEF Open
<1>10. QED
  BY <1>1, <1>2, <1>3, <1>4, <1>5, <1>6, <1>7, <1>8, <1>9
  DEF Begin, Continue, BeginCreate, BeginProvisionGeneration, Open

----------------------------------------------------------------------------
(* One replica.                                                            *)

OneReplica == \A p, q \in Replica : p = q

\* Two requests are never inside a critical section together.
LEMMA MutualExclusion ==
  ASSUME OneReplica, IInv, NEW h \in Handler, NEW k \in Handler \ {h},
         pc[h] \in Critical, pc[k] \in Critical
  PROVE  FALSE
<1>1. Home[h] = Home[k]
  BY LifecycleAssumption DEF OneReplica
<1>2. QED
  BY <1>1 DEF IInv, HoldsLock

\* What a critical section commits, as a step of the abstract catalog; no
\* generation without a record gets one.
LEMMA CommitRefines ==
  ASSUME IInv, NEW h \in Handler, pc[h] \in Committing, catalog' = Upserted(req[h].batch)
  PROVE  /\ Catalog!CatalogNext
         /\ \A g \in Gen : catalog[g] = "absent" => catalog'[g] = "absent"
<1> USE DEF IInv, TypeOK, ReadsHold, Upserted, RequestIsBound, IsBound
<1>1. CASE pc[h] = "commit_ready"
  <2> DEFINE g == req[h].gen
  <2>1. g \in Gen /\ catalog[g] \in {"building", "retired"} /\ req[h].batch = OnePoint(g, "ready")
    BY <1>1
  <2>2. catalog' = [catalog EXCEPT ![g] = "ready"]
    BY <2>1 DEF OnePoint, Nothing
  <2>3. Catalog!MarkReady(g) \/ Catalog!Revalidate(g)
    BY <2>1, <2>2 DEF Catalog!MarkReady, Catalog!Revalidate, Catalog!UpdateState
  <2>4. QED
    BY <2>1, <2>2, <2>3 DEF Catalog!CatalogNext
<1>2. CASE pc[h] = "commit_failed"
  <2> DEFINE g == req[h].gen
  <2>1. g \in Gen /\ catalog[g] = "building" /\ req[h].batch = OnePoint(g, "failed")
    BY <1>2
  <2>2. catalog' = [catalog EXCEPT ![g] = "failed"]
    BY <2>1 DEF OnePoint, Nothing
  <2>3. Catalog!MarkFailed(g)
    BY <2>1, <2>2 DEF Catalog!MarkFailed, Catalog!UpdateState
  <2>4. QED
    BY <2>1, <2>2, <2>3 DEF Catalog!CatalogNext
<1>3. CASE pc[h] = "commit_active"
  <2> DEFINE g == req[h].gen
  <2>1. /\ g \in Gen /\ catalog[g] = "ready"
        /\ req[h].batch = CutoverBatch(h)
        /\ Active = ExpectedActive(h)
    BY <1>3
  <2>2. \A x \in Gen : catalog[x] = "active" <=> x = req[h].expected
    BY <2>1, LifecycleAssumption DEF Active, Catalog!Active, ExpectedActive
  <2>3. \A x \in Gen : catalog'[x] = IF x = g THEN "active"
                                     ELSE IF catalog[x] = "active" THEN "retired" ELSE catalog[x]
    BY <2>1, <2>2 DEF CutoverBatch
  <2>4. Catalog!SetActive(g)
    BY <2>1, <2>3 DEF Catalog!SetActive
  <2>5. QED
    BY <2>1, <2>3, <2>4 DEF Catalog!CatalogNext
<1>4. CASE pc[h] = "commit_retired"
  <2> DEFINE listed == {g \in Gen : req[h].batch[g] # "absent"}
  <2>1. \A g \in Gen :
          /\ g \in listed => /\ catalog[g] # "absent"
                             /\ req[h].batch[g] = IF catalog[g] = "failed" THEN "failed" ELSE "retired"
          /\ catalog[g] \notin {"absent", "building"} => g \in listed
    BY <1>4
  <2>2. Active # {}
    <3>1. req[h].expected \in Gen
      BY <1>4
    <3>2. Active = {req[h].expected} \ {NoGen}
      BY <1>4 DEF ExpectedActive
    <3>3. QED
      BY <3>1, <3>2, LifecycleAssumption
  <2>3. Catalog!Retire(listed)
    BY <2>1, <2>2 DEF Catalog!Retire, Catalog!Recorded, Active, Catalog!Active
  <2>4. listed \in SUBSET Catalog!Recorded
    BY <2>1 DEF Catalog!Recorded
  <2>5. QED
    BY <2>1, <2>3, <2>4 DEF Catalog!CatalogNext
<1>5. QED
  BY <1>1, <1>2, <1>3, <1>4 DEF Committing

\* What add_generation records.
LEMMA AddRefines ==
  ASSUME IInv, NEW h \in Handler, pc[h] = "add", catalog' = Upserted(req[h].batch)
  PROVE  /\ Catalog!CatalogNext
         /\ catalog' = [catalog EXCEPT ![req[h].gen] = "building"]
<1> USE DEF IInv, TypeOK, AddsFresh, RequestIsBound, IsBound
<1>1. catalog' = [catalog EXCEPT ![req[h].gen] = "building"]
  BY DEF Upserted, OnePoint, Nothing
<1>2. Catalog!AddGeneration(req[h].gen)
  BY <1>1 DEF Catalog!AddGeneration
<1>3. QED
  BY <1>1, <1>2 DEF Catalog!CatalogNext

\* Every step of the service is a step of the abstract catalog or leaves the
\* catalog alone.
LEMMA StepRefines ==
  ASSUME ~LateWrites, IInv, [Next]_vars
  PROVE  [Catalog!CatalogNext]_catalog /\ late' = {}
<1>1. ASSUME NEW h \in Handler, Begin(h) \/ Continue(h)
      PROVE  [Catalog!CatalogNext]_catalog /\ late' = {}
  <2>1. late' = {}
    BY <1>1, CatalogEffect DEF IInv
  <2>2. \/ UNCHANGED catalog
        \/ pc[h] \in Committing \cup {"add"} /\ catalog' = Upserted(req[h].batch)
    BY <1>1, CatalogEffect DEF IInv
  <2>3. QED
    BY <2>1, <2>2, CommitRefines, AddRefines
<1>2. CASE LateWriteLands
  BY <1>2 DEF LateWriteLands, IInv
<1>3. ASSUME NEW p \in Replica, Crash(p)
      PROVE  [Catalog!CatalogNext]_catalog /\ late' = {}
  BY <1>3 DEF Crash, IInv
<1>4. CASE UNCHANGED vars
  BY <1>4 DEF vars, IInv
<1>5. QED
  BY <1>1, <1>2, <1>3, <1>4 DEF Next

LEMMA OneActiveStep ==
  ASSUME TypeOK, AtMostOneActive, [Catalog!CatalogNext]_catalog
  PROVE  AtMostOneActive'
BY DEF TypeOK, AtMostOneActive, Catalog!AtMostOneActive, Catalog!Active, Catalog!CatalogNext,
       Catalog!AddGeneration, Catalog!MarkReady, Catalog!MarkFailed, Catalog!Revalidate,
       Catalog!UpdateState, Catalog!SetActive, Catalog!Retire

\* A step of one request keeps what the others rely on.
LEMMA OthersKeepInvariant ==
  ASSUME OneReplica, ~LateWrites, IInv, NEW h \in Handler, Begin(h) \/ Continue(h),
         NEW k \in Handler \ {h}
  PROVE  HoldsLock(k)' /\ AddsFresh(k)' /\ ReadsHold(k)'
<1> DEFINE g == req[h].gen
<1>1. pc'[k] = pc[k] /\ req'[k] = req[k]
  BY OthersUnmoved DEF IInv
<1>2. HoldsLock(k)'
  <2>1. pc[k] \in Critical => lock[Home[k]] = k
    BY DEF IInv, HoldsLock
  <2>2. CASE UNCHANGED lock
    BY <1>1, <2>1, <2>2 DEF HoldsLock
  <2>3. CASE LockIsFree(h) /\ Acquire(h)
    BY <1>1, <2>1, <2>3, LifecycleAssumption DEF HoldsLock, LockIsFree, Acquire, IInv, TypeOK
  <2>4. CASE pc[h] \in Critical /\ Release(h)
    BY <1>1, <2>4, MutualExclusion DEF HoldsLock
  <2>5. QED
    BY <2>2, <2>3, <2>4, LockEffect DEF IInv
<1>3. CASE pc[h] = "add" /\ catalog' = Upserted(req[h].batch)
  <2>1. catalog' = [catalog EXCEPT ![g] = "building"] /\ catalog[g] = "absent" /\ g \in Gen
    BY <1>3, AddRefines DEF IInv, AddsFresh, RequestIsBound, IsBound
  <2>2. req[k].gen # g
    BY <1>3 DEF IInv, AddsFresh
  <2>3. \A x \in Gen : catalog[x] # "absent" => catalog'[x] = catalog[x]
    BY <2>1 DEF IInv, TypeOK
  <2>4. Active' = Active
    BY <2>1 DEF Active, Catalog!Active, IInv, TypeOK
  <2>5. AddsFresh(k)'
    <3>1. CASE pc[k] = "add"
      <4>1. req[k].gen \in Gen /\ catalog[req[k].gen] = "absent"
        BY <3>1 DEF IInv, AddsFresh, RequestIsBound, IsBound
      <4>2. catalog'[req[k].gen] = "absent"
        BY <2>1, <2>2, <4>1 DEF IInv, TypeOK
      <4>3. \A j \in Handler \ {k} : req'[j].gen # req'[k].gen
        <5>1. req'[h].gen # req[k].gen
          BY <3>1, <4>1, GenEffect, LifecycleAssumption DEF IInv, AddsFresh, Open, Fresh
        <5>2. \A j \in Handler \ {h, k} : req'[j].gen # req'[k].gen
          BY <1>1, <3>1, OthersUnmoved DEF IInv, AddsFresh
        <5>3. QED
          BY <1>1, <5>1, <5>2
      <4>4. QED
        BY <1>1, <3>1, <4>2, <4>3 DEF IInv, AddsFresh, OnePoint, Nothing
    <3>2. QED
      BY <1>1, <3>1 DEF AddsFresh
  <2>6. ReadsHold(k)'
    <3>1. ReadsHold(k) /\ IsBound(k)
      BY DEF IInv, RequestIsBound
    <3>2. pc[k] \in {"target", "commit_active", "list", "commit_retired"} => Active' = ExpectedActive(k)'
      BY <1>1, <2>4, <3>1 DEF ReadsHold, ExpectedActive
    <3>3. CASE pc[k] \in {"commit_ready", "commit_failed", "commit_active"}
      <4>1. req[k].gen \in Gen /\ catalog[req[k].gen] # "absent"
        BY <3>1, <3>3 DEF ReadsHold, IsBound
      <4>2. catalog'[req'[k].gen] = catalog[req[k].gen]
        BY <1>1, <2>3, <4>1
      <4>3. CutoverBatch(k)' = CutoverBatch(k)
        BY <1>1 DEF CutoverBatch
      <4>4. /\ OnePoint(req[k].gen, "ready")' = OnePoint(req[k].gen, "ready")
            /\ OnePoint(req[k].gen, "failed")' = OnePoint(req[k].gen, "failed")
        BY <1>1 DEF OnePoint, Nothing
      <4>5. QED
        BY <1>1, <3>1, <3>2, <3>3, <4>2, <4>3, <4>4 DEF ReadsHold
    <3>4. CASE pc[k] = "commit_retired"
      <4>1. \A x \in Gen : catalog'[x] # catalog[x] => catalog[x] = "absent" /\ catalog'[x] = "building"
        BY <2>1 DEF IInv, TypeOK
      <4>2. QED
        BY <1>1, <3>1, <3>2, <3>4, <4>1 DEF ReadsHold
    <3>5. QED
      BY <1>1, <3>2, <3>3, <3>4 DEF ReadsHold
  <2>7. QED
    BY <1>2, <2>5, <2>6
<1>4. CASE ~(pc[h] = "add" /\ catalog' = Upserted(req[h].batch))
  <2>1. \/ UNCHANGED catalog
        \/ pc[h] \in Committing /\ catalog' = Upserted(req[h].batch)
    BY <1>4, CatalogEffect DEF IInv
  <2>2. \A x \in Gen : catalog[x] = "absent" => catalog'[x] = "absent"
    BY <2>1, CommitRefines
  <2>3. pc[k] \in Critical => UNCHANGED catalog
    BY <2>1, MutualExclusion DEF Committing, Critical
  <2>4. AddsFresh(k)'
    <3>1. CASE pc[k] = "add"
      <4>1. req[k].gen \in Gen /\ catalog[req[k].gen] = "absent"
        BY <3>1 DEF IInv, AddsFresh, RequestIsBound, IsBound
      <4>2. \A j \in Handler \ {k} : req'[j].gen # req'[k].gen
        <5>1. req'[h].gen # req[k].gen
          BY <3>1, <4>1, GenEffect, LifecycleAssumption DEF IInv, AddsFresh, Open, Fresh
        <5>2. \A j \in Handler \ {h, k} : req'[j].gen # req'[k].gen
          BY <1>1, <3>1, OthersUnmoved DEF IInv, AddsFresh
        <5>3. QED
          BY <1>1, <5>1, <5>2
      <4>3. QED
        BY <1>1, <2>2, <3>1, <4>1, <4>2 DEF IInv, AddsFresh, OnePoint, Nothing
    <3>2. QED
      BY <1>1, <3>1 DEF AddsFresh
  <2>5. ReadsHold(k)'
    <3>1. CASE pc[k] \in Critical
      <4>1. ReadsHold(k)
        BY DEF IInv
      <4>2. /\ OnePoint(req[k].gen, "ready")' = OnePoint(req[k].gen, "ready")
            /\ OnePoint(req[k].gen, "failed")' = OnePoint(req[k].gen, "failed")
            /\ CutoverBatch(k)' = CutoverBatch(k)
            /\ ExpectedActive(k)' = ExpectedActive(k)
        BY <1>1 DEF OnePoint, Nothing, CutoverBatch, ExpectedActive
      <4>3. Active' = Active
        BY <2>3, <3>1 DEF Active, Catalog!Active
      <4>4. QED
        BY <1>1, <2>3, <3>1, <4>1, <4>2, <4>3 DEF ReadsHold
    <3>2. CASE pc[k] \notin Critical
      BY <1>1, <3>2 DEF ReadsHold, Critical
    <3>3. QED
      BY <3>1, <3>2
  <2>6. QED
    BY <1>2, <2>4, <2>5
<1>5. QED
  BY <1>3, <1>4

\* The request that moves re-establishes what it relies on.
LEMMA MoverKeepsLock ==
  ASSUME IInv, NEW h \in Handler, Begin(h) \/ Continue(h)
  PROVE  HoldsLock(h)'
<1>1. CASE UNCHANGED lock /\ (pc[h] \in Critical <=> pc'[h] \in Critical)
  BY <1>1 DEF IInv, HoldsLock
<1>2. CASE Acquire(h)
  BY <1>2, LifecycleAssumption DEF HoldsLock, Acquire, IInv, TypeOK
<1>3. CASE pc'[h] \notin Critical
  BY <1>3 DEF HoldsLock, Critical
<1>4. QED
  BY <1>1, <1>2, <1>3, LockEffect DEF IInv

\* The steps that lead into a critical section or to add_generation.
Prepares(h) ==
  \/ \E op \in {"create", "provision"} : BeginProvision(h, op)
  \/ MarkReady(h) \/ MarkFailed(h) \/ SetActive(h) \/ ReadTarget(h)
  \/ Revalidate(h) \/ RetireLogical(h) \/ ListGenerations(h)

LEMMA OnlyPreparedStepsRely ==
  ASSUME TypeOK, NEW h \in Handler, Begin(h) \/ Continue(h)
  PROVE  Prepares(h) \/ pc'[h] \notin Critical \cup {"add"}
<1> USE DEF TypeOK, Goto, Answer, Raise, Critical, Prepares
<1>1. CASE BeginCreate(h) \/ BeginProvisionGeneration(h)
  BY <1>1 DEF BeginCreate, BeginProvisionGeneration
<1>2. CASE (\E g \in Gen : BeginActivate(h, g)) \/ BeginRetire(h) \/ BeginRevalidate(h)
  BY <1>2 DEF BeginActivate, BeginRetire, BeginRevalidate
<1>3. CASE AddGeneration(h) \/ CreateCollection(h) \/ CreatePayloadIndexes(h) \/ VerifyCollection(h)
  BY <1>3 DEF AddGeneration, CreateCollection, CreatePayloadIndexes, VerifyCollection
<1>4. CASE MarkReady(h) \/ CommitReady(h) \/ Recover(h) \/ MarkFailed(h) \/ CommitFailed(h)
  BY <1>4 DEF CommitReady, Recover, CommitFailed
<1>5. CASE RequireActive(h) \/ ActivateAlias(h) \/ SetActive(h) \/ ReadTarget(h)
  BY <1>5 DEF RequireActive, ActivateAlias
<1>6. CASE CommitActive(h) \/ Confirm(h) \/ RetireLogical(h) \/ Revalidate(h)
  BY <1>6 DEF CommitActive, Confirm
<1>7. CASE ListGenerations(h) \/ CommitRetired(h) \/ RetireAlias(h)
  BY <1>7 DEF CommitRetired, RetireAlias
<1>8. QED
  BY <1>1, <1>2, <1>3, <1>4, <1>5, <1>6, <1>7 DEF Begin, Continue

LEMMA MoverKeepsReads ==
  ASSUME IInv, NEW h \in Handler, Begin(h) \/ Continue(h)
  PROVE  AddsFresh(h)' /\ ReadsHold(h)'
<1> USE DEF IInv, TypeOK, Goto, Request
<1>1. CASE pc'[h] \notin Critical \cup {"add"}
  BY <1>1 DEF AddsFresh, ReadsHold, Critical
<1>2. ASSUME NEW op \in {"create", "provision"}, BeginProvision(h, op)
      PROVE  AddsFresh(h)' /\ ReadsHold(h)'
  <2>1. PICK g \in Gen :
          /\ Fresh(g)
          /\ req' = [req EXCEPT ![h] = [Idle EXCEPT !.op = op, !.gen = g, !.batch = OnePoint(g, "building")]]
    BY <1>2 DEF BeginProvision
  <2>2. req'[h].gen = g /\ req'[h].batch = OnePoint(g, "building")
    BY <2>1 DEF Idle
  <2>3. pc'[h] = "add" /\ UNCHANGED catalog
    BY <1>2 DEF BeginProvision
  <2>4. \A k \in Handler \ {h} : req'[k].gen # g
    BY <2>1 DEF Fresh
  <2>5. OnePoint(req[h].gen, "building")' = OnePoint(g, "building")
    BY <2>2 DEF OnePoint, Nothing
  <2>6. QED
    BY <2>1, <2>2, <2>3, <2>4, <2>5 DEF AddsFresh, ReadsHold, Fresh
<1>3. ASSUME NEW expected, NEW new \in {"ready", "failed"}, NEW commit \in {"commit_ready", "commit_failed"},
             new = "ready" <=> commit = "commit_ready", UNCHANGED catalog,
             expected = IF new = "ready" /\ req[h].op = "revalidate" THEN "retired" ELSE "building",
             CompareState(h, expected, new, commit)
      PROVE  AddsFresh(h)' /\ ReadsHold(h)'
  <2>1. /\ pc'[h] = commit
        /\ req'[h].gen = req[h].gen
        /\ req'[h].op = req[h].op
        /\ req'[h].batch = OnePoint(req[h].gen, new)
        /\ catalog'[req'[h].gen] = expected
    BY <1>3 DEF CompareState
  <2>2. OnePoint(req[h].gen, "ready")' = OnePoint(req[h].gen, "ready")
    BY <2>1 DEF OnePoint, Nothing
  <2>3. OnePoint(req[h].gen, "failed")' = OnePoint(req[h].gen, "failed")
    BY <2>1 DEF OnePoint, Nothing
  <2>4. QED
    BY <1>3, <2>1, <2>2, <2>3 DEF AddsFresh, ReadsHold
<1>4. CASE SetActive(h) \/ RetireLogical(h)
  <2>1. CASE Active = ExpectedActive(h) /\ UNCHANGED <<catalog, req>> /\ pc'[h] \in {"target", "list"}
    <3>1. Active' = ExpectedActive(h)'
      BY <2>1 DEF Active, Catalog!Active, ExpectedActive
    <3>2. QED
      BY <2>1, <3>1 DEF AddsFresh, ReadsHold
  <2>2. QED
    BY <1>1, <1>4, <2>1 DEF SetActive, RetireLogical, Raise, Answer, Critical
<1>5. CASE ReadTarget(h)
  <2>1. CASE pc'[h] = "commit_active"
    <3>1. /\ catalog[req[h].gen] = "ready"
          /\ req' = [req EXCEPT ![h].batch = CutoverBatch(h)]
          /\ UNCHANGED catalog
      BY <1>5, <2>1 DEF ReadTarget, Raise, Answer
    <3>2. CutoverBatch(h)' = CutoverBatch(h) /\ ExpectedActive(h)' = ExpectedActive(h) /\ Active' = Active
      BY <3>1 DEF CutoverBatch, ExpectedActive, Active, Catalog!Active
    <3>3. Active = ExpectedActive(h)
      BY <1>5 DEF ReadTarget, ReadsHold
    <3>4. QED
      BY <2>1, <3>1, <3>2, <3>3 DEF AddsFresh, ReadsHold
  <2>2. QED
    BY <1>1, <1>5, <2>1 DEF ReadTarget, Raise, Answer, Critical
<1>6. CASE ListGenerations(h)
  <2>1. CASE pc'[h] = "commit_retired"
    <3>1. req' = [req EXCEPT ![h].batch = RetirementBatch] /\ UNCHANGED catalog
      BY <1>6, <2>1 DEF ListGenerations, Answer
    <3>2. ExpectedActive(h)' = ExpectedActive(h) /\ Active' = Active
      BY <3>1 DEF ExpectedActive, Active, Catalog!Active
    <3>3. Active = ExpectedActive(h)
      BY <1>6 DEF ListGenerations, ReadsHold
    <3>4. req'[h].batch = RetirementBatch
      BY <3>1
    <3>5. \A g \in Gen :
            /\ RetirementBatch[g] # "absent" =>
                 /\ catalog[g] # "absent"
                 /\ RetirementBatch[g] = IF catalog[g] = "failed" THEN "failed" ELSE "retired"
            /\ catalog[g] \notin {"absent", "building"} => RetirementBatch[g] # "absent"
      BY DEF RetirementBatch
    <3>6. QED
      BY <2>1, <3>1, <3>2, <3>3, <3>4, <3>5 DEF AddsFresh, ReadsHold
  <2>2. QED
    BY <1>1, <1>6, <2>1 DEF ListGenerations, Answer, Critical
<1>7. CASE MarkReady(h) \/ MarkFailed(h)
  <2>1. pc[h] = "mark_ready" => req[h].op # "revalidate"
    BY DEF RequestIsBound, OperatorCompares
  <2>2. QED
    BY <1>1, <1>3, <1>7, <2>1 DEF MarkReady, MarkFailed, Raise, Answer, Critical
<1>8. CASE Revalidate(h)
  <2>1. pc[h] = "revalidate" => req[h].op = "revalidate"
    BY DEF RequestIsBound, OperatorCompares
  <2>2. QED
    BY <1>1, <1>3, <1>8, <2>1 DEF Revalidate, Answer, Critical
<1>9. QED
  BY <1>1, <1>2, <1>4, <1>5, <1>6, <1>7, <1>8, OnlyPreparedStepsRely DEF Prepares

----------------------------------------------------------------------------
(* The inductive invariant and what follows from it.                       *)

LEMMA InvariantHoldsInitially == Init => IInv
<1> SUFFICES ASSUME Init PROVE IInv
  OBVIOUS
<1>1. TypeOK /\ RequestIsBound
  BY InitiallyTyped
<1>2. AtMostOneActive
  BY DEF Init, Nothing, AtMostOneActive, Catalog!AtMostOneActive, Catalog!Active
<1>3. \A h \in Handler : HoldsLock(h) /\ AddsFresh(h) /\ ReadsHold(h)
  BY DEF Init, HoldsLock, AddsFresh, ReadsHold, Critical
<1>4. QED
  BY <1>1, <1>2, <1>3 DEF Init, IInv

\* A crash forgets every request and frees the lock.
LEMMA CrashKeepsInvariant ==
  ASSUME OneReplica, IInv, NEW p \in Replica, Crash(p), NEW h \in Handler
  PROVE  HoldsLock(h)' /\ AddsFresh(h)' /\ ReadsHold(h)'
<1>1. Home[h] = p
  BY LifecycleAssumption DEF OneReplica
<1>2. pc'[h] = "idle"
  BY <1>1 DEF Crash
<1>3. QED
  BY <1>2 DEF HoldsLock, AddsFresh, ReadsHold, Critical

LEMMA InvStep ==
  ASSUME OneReplica, ~LateWrites, IInv, [Next]_vars
  PROVE  IInv'
<1>1. TypeOK' /\ RequestIsBound'
  BY TypeStep DEF IInv
<1>2. late' = {} /\ AtMostOneActive'
  BY StepRefines, OneActiveStep DEF IInv
<1>3. ASSUME NEW k \in Handler
      PROVE  HoldsLock(k)' /\ AddsFresh(k)' /\ ReadsHold(k)'
  <2>1. ASSUME NEW h \in Handler, Begin(h) \/ Continue(h)
        PROVE  HoldsLock(k)' /\ AddsFresh(k)' /\ ReadsHold(k)'
    <3>1. CASE k = h
      BY <2>1, <3>1, MoverKeepsLock, MoverKeepsReads
    <3>2. CASE k # h
      BY <2>1, <3>2, OthersKeepInvariant
    <3>3. QED
      BY <3>1, <3>2
  <2>2. CASE LateWriteLands
    BY <2>2 DEF LateWriteLands, IInv
  <2>3. ASSUME NEW p \in Replica, Crash(p)
        PROVE  HoldsLock(k)' /\ AddsFresh(k)' /\ ReadsHold(k)'
    BY <2>3, CrashKeepsInvariant
  <2>4. CASE UNCHANGED vars
    <3>1. HoldsLock(k) /\ AddsFresh(k) /\ ReadsHold(k)
      BY DEF IInv
    <3>2. HoldsLock(k)' /\ AddsFresh(k)'
      BY <2>4, <3>1 DEF vars, HoldsLock, AddsFresh, OnePoint, Nothing
    <3>3. ReadsHold(k)'
      BY <2>4, <3>1
      DEF vars, ReadsHold, OnePoint, Nothing, CutoverBatch, ExpectedActive, Active, Catalog!Active
    <3>4. QED
      BY <3>2, <3>3
  <2>5. QED
    BY <2>1, <2>2, <2>3, <2>4 DEF Next
<1>4. QED
  BY <1>1, <1>2, <1>3 DEF IInv

\* What a handler read under the lock is still true when it writes, for every
\* number of generations and requests, every choice of failing dependencies
\* and crashes at any point.
THEOREM InvariantHolds == ASSUME OneReplica, ~LateWrites PROVE Spec => []IInv
<1>1. IInv /\ [Next]_vars => IInv'
  BY InvStep
<1>2. QED
  BY <1>1, InvariantHoldsInitially, PTL DEF Spec

\* No interleaving, failure or crash makes a second generation active.
THEOREM LifecycleOneActive == ASSUME OneReplica, ~LateWrites PROVE Spec => []AtMostOneActive
<1>1. IInv => AtMostOneActive
  BY DEF IInv
<1>2. QED
  BY <1>1, InvariantHolds, PTL

\* The service implements the abstract catalog: each of its steps is an atomic
\* catalog step or a stutter.
THEOREM LifecycleImplementsCatalog == ASSUME OneReplica, ~LateWrites PROVE Spec => ImplementsCatalog
<1>1. Init => Catalog!CatalogInit
  BY DEF Init, Nothing, Catalog!CatalogInit
<1>2. IInv /\ [Next]_vars => [Catalog!CatalogNext]_catalog
  BY StepRefines
<1>3. QED
  BY <1>1, <1>2, InvariantHolds, PTL DEF Spec, ImplementsCatalog, Catalog!CatalogSpec

\* The only step that makes a generation active, or leaves none active, is the
\* commit of a cutover or of a retirement.
LEMMA ActivityChanges ==
  ASSUME ~LateWrites, IInv, [Next]_vars, ~UNCHANGED catalog
  PROVE  \E h \in Handler :
           pc[h] \in Committing \cup {"add"} /\ catalog' = Upserted(req[h].batch)
<1>1. ASSUME NEW h \in Handler, Begin(h) \/ Continue(h)
      PROVE  pc[h] \in Committing \cup {"add"} /\ catalog' = Upserted(req[h].batch)
  BY <1>1, CatalogEffect DEF IInv
<1>2. CASE LateWriteLands
  BY <1>2 DEF LateWriteLands, IInv
<1>3. ASSUME NEW p \in Replica, Crash(p)
      PROVE  FALSE
  BY <1>3 DEF Crash
<1>4. CASE UNCHANGED vars
  BY <1>4 DEF vars
<1>5. QED
  BY <1>1, <1>2, <1>3, <1>4 DEF Next

\* A generation becomes active only in place of the one its caller expected,
\* compared in the very state the write lands in.
THEOREM LifecycleCutovers == ASSUME OneReplica, ~LateWrites PROVE Spec => CutoverReplacesExpected
<1> DEFINE Step == \A g \in Gen :
                     catalog[g] # "active" /\ catalog'[g] = "active"
                       => \E h \in Handler :
                            /\ pc[h] = "commit_active"
                            /\ req[h].gen = g
                            /\ Active = ExpectedActive(h)
<1>1. ASSUME IInv, [Next]_vars
      PROVE  [Step]_vars
  <2> SUFFICES ASSUME NEW g \in Gen, catalog[g] # "active", catalog'[g] = "active"
               PROVE  \E h \in Handler : /\ pc[h] = "commit_active"
                                         /\ req[h].gen = g
                                         /\ Active = ExpectedActive(h)
    OBVIOUS
  <2>1. PICK h \in Handler :
          pc[h] \in Committing \cup {"add"} /\ catalog' = Upserted(req[h].batch)
    BY <1>1, ActivityChanges
  <2>2. req[h].batch[g] = "active"
    BY <2>1 DEF Upserted
  <2>3. CASE pc[h] \in {"add", "commit_ready", "commit_failed"}
    BY <1>1, <2>2, <2>3 DEF IInv, AddsFresh, ReadsHold, OnePoint, Nothing
  <2>4. CASE pc[h] = "commit_retired"
    BY <1>1, <2>2, <2>4 DEF IInv, ReadsHold
  <2>5. CASE pc[h] = "commit_active"
    BY <1>1, <2>2, <2>5 DEF IInv, ReadsHold, CutoverBatch
  <2>6. QED
    BY <2>1, <2>3, <2>4, <2>5 DEF Committing
<1>2. QED
  BY <1>1, InvariantHolds, PTL DEF Spec, CutoverReplacesExpected

\* No provisioning or cutover, however it fails, leaves a logical collection
\* that had an active generation without one.
THEOREM LifecycleStaysActive == ASSUME OneReplica, ~LateWrites PROVE Spec => OnlyRetirementDeactivates
<1> DEFINE Step == Active # {} /\ Active' = {} => \E h \in Handler : pc[h] = "commit_retired"
<1>1. ASSUME IInv, [Next]_vars
      PROVE  [Step]_vars
  <2> SUFFICES ASSUME Active # {}, Active' = {}
               PROVE  \E h \in Handler : pc[h] = "commit_retired"
    OBVIOUS
  <2> USE DEF IInv, TypeOK, RequestIsBound, IsBound, Active, Catalog!Active
  <2>1. PICK h \in Handler :
          pc[h] \in Committing \cup {"add"} /\ catalog' = Upserted(req[h].batch)
    BY <1>1, ActivityChanges
  <2>2. PICK g \in Gen : catalog[g] = "active"
    OBVIOUS
  <2>3. catalog'[g] # "active" /\ \A x \in Gen : catalog'[x] # "active"
    OBVIOUS
  <2>4. CASE pc[h] = "add"
    BY <1>1, <2>1, <2>2, <2>3, <2>4, AddRefines DEF AddsFresh
  <2>5. CASE pc[h] \in {"commit_ready", "commit_failed"}
    <3>1. catalog[req[h].gen] \in {"building", "retired"} /\ g # req[h].gen
      BY <1>1, <2>2, <2>5 DEF ReadsHold
    <3>2. \A s \in {"ready", "failed"} : OnePoint(req[h].gen, s)[g] = "absent"
      BY <3>1 DEF OnePoint, Nothing
    <3>3. req[h].batch[g] = "absent"
      BY <1>1, <2>5, <3>2 DEF ReadsHold
    <3>4. QED
      BY <2>1, <2>2, <2>3, <3>3 DEF Upserted
  <2>6. CASE pc[h] = "commit_active"
    <3>1. req[h].gen \in Gen /\ catalog'[req[h].gen] = "active"
      BY <1>1, <2>1, <2>6 DEF ReadsHold, Upserted, CutoverBatch
    <3>2. QED
      BY <2>3, <3>1
  <2>7. QED
    BY <2>1, <2>4, <2>5, <2>6 DEF Committing
<1>2. QED
  BY <1>1, InvariantHolds, PTL DEF Spec, OnlyRetirementDeactivates

\* A generation leaves "retired" only by the write of the operator who
\* revalidates it, a failed one stays failed and no record disappears, whatever
\* the requests that read an earlier state go on to write.
THEOREM LifecycleRevalidation == ASSUME OneReplica, ~LateWrites PROVE Spec => OnlyRevalidationRestores
<1> DEFINE Restored(g) == /\ catalog'[g] = "ready"
                          /\ \E h \in Handler :
                               pc[h] = "commit_ready" /\ req[h].op = "revalidate" /\ req[h].gen = g
           Step == \A g \in Gen :
                     /\ catalog[g] = "failed" => catalog'[g] = "failed"
                     /\ catalog[g] # "absent" => catalog'[g] # "absent"
                     /\ catalog[g] = "retired" /\ catalog'[g] # "retired" => Restored(g)
<1>1. ASSUME IInv, [Next]_vars
      PROVE  [Step]_vars
  <2> SUFFICES ASSUME NEW g \in Gen, catalog[g] # "absent", catalog'[g] # catalog[g]
               PROVE  /\ catalog[g] # "failed" /\ catalog'[g] # "absent"
                      /\ catalog[g] = "retired" => Restored(g)
    OBVIOUS
  <2> USE <1>1 DEF IInv, TypeOK, RequestIsBound, IsBound, ReadsHold
  <2>1. PICK h \in Handler :
          pc[h] \in Committing \cup {"add"} /\ catalog' = Upserted(req[h].batch)
    BY ActivityChanges
  <2>2. catalog'[g] = req[h].batch[g] /\ req[h].batch[g] # "absent"
    BY <2>1 DEF Upserted
  <2>3. CASE pc[h] = "add"
    <3>1. catalog[req[h].gen] = "absent" /\ req[h].batch = OnePoint(req[h].gen, "building")
      BY <2>3 DEF AddsFresh
    <3>2. g = req[h].gen
      BY <2>2, <3>1 DEF OnePoint, Nothing
    <3>3. QED
      BY <3>1, <3>2
  <2>4. CASE pc[h] = "commit_ready"
    <3>1. /\ req[h].gen \in Gen /\ req[h].batch = OnePoint(req[h].gen, "ready")
          /\ catalog[req[h].gen] = IF req[h].op = "revalidate" THEN "retired" ELSE "building"
      BY <2>4
    <3>2. g = req[h].gen /\ catalog'[g] = "ready"
      BY <2>2, <3>1 DEF OnePoint, Nothing
    <3>3. QED
      BY <2>4, <3>1, <3>2
  <2>5. CASE pc[h] = "commit_failed"
    BY <2>2, <2>5 DEF OnePoint, Nothing
  <2>6. CASE pc[h] = "commit_active"
    <3>1. /\ catalog[req[h].gen] = "ready"
          /\ req[h].batch = CutoverBatch(h)
          /\ Active = ExpectedActive(h)
      BY <2>6
    <3>2. g \in {req[h].gen, req[h].expected}
      BY <2>2, <3>1 DEF CutoverBatch
    <3>3. catalog[req[h].gen] = "ready" /\ (g = req[h].expected => catalog[g] = "active")
      BY <3>1, LifecycleAssumption DEF Active, Catalog!Active, ExpectedActive
    <3>4. QED
      BY <2>2, <3>2, <3>3
  <2>7. CASE pc[h] = "commit_retired"
    BY <2>2, <2>7
  <2>8. QED
    BY <2>1, <2>3, <2>4, <2>5, <2>6, <2>7 DEF Committing
<1>2. QED
  BY <1>1, InvariantHolds, PTL DEF Spec, OnlyRevalidationRestores

\* The alias is retired only once the retirement has been written.
LEMMA DropFollowsCommit ==
  ASSUME TypeOK, NEW h \in Handler, Begin(h) \/ Continue(h), pc[h] = "commit_retired", pc'[h] = "drop_alias"
  PROVE  catalog' = Upserted(req[h].batch)
<1>1. CommitRetired(h)
  BY DEF Begin, Continue, BeginCreate, BeginProvisionGeneration, BeginProvision, BeginActivate, BeginRevalidate,
         BeginRetire, AddGeneration, CreateCollection, CreatePayloadIndexes, VerifyCollection, MarkReady,
         CommitReady, Recover, MarkFailed, CommitFailed, RequireActive, ActivateAlias, SetActive, ReadTarget,
         CommitActive, Confirm, Revalidate, RetireLogical, ListGenerations, RetireAlias
<1>2. QED
  BY <1>1 DEF CommitRetired, Answer, Goto, Written, TypeOK

\* When a retirement is acknowledged no generation is ready or active, though
\* one may have been added since the others were listed.
THEOREM LifecycleRetirement == ASSUME OneReplica, ~LateWrites PROVE Spec => RetirementIsComplete
<1> DEFINE Step == \A h \in Handler :
                     pc[h] = "commit_retired" /\ pc'[h] = "drop_alias"
                       => \A g \in Gen : catalog'[g] \notin {"ready", "active"}
<1>1. ASSUME IInv, [Next]_vars
      PROVE  [Step]_vars
  <2> SUFFICES ASSUME Next, NEW h \in Handler, pc[h] = "commit_retired", pc'[h] = "drop_alias", NEW g \in Gen
               PROVE  catalog'[g] \notin {"ready", "active"}
    BY <1>1
  <2>1. Begin(h) \/ Continue(h)
    <3>1. ASSUME NEW k \in Handler \ {h}, Begin(k) \/ Continue(k)
          PROVE  FALSE
      BY <1>1, <3>1, OthersUnmoved DEF IInv
    <3>2. ~LateWriteLands
      BY <1>1 DEF LateWriteLands
    <3>3. ASSUME NEW p \in Replica, Crash(p)
          PROVE  FALSE
      BY <3>3 DEF Crash
    <3>4. QED
      BY <3>1, <3>2, <3>3 DEF Next
  <2>2. catalog' = Upserted(req[h].batch)
    BY <1>1, <2>1, DropFollowsCommit DEF IInv
  <2>3. /\ req[h].batch[g] # "absent" => req[h].batch[g] = IF catalog[g] = "failed" THEN "failed" ELSE "retired"
        /\ catalog[g] \notin {"absent", "building"} => req[h].batch[g] # "absent"
    BY <1>1 DEF IInv, ReadsHold
  <2>4. QED
    BY <2>2, <2>3 DEF Upserted
<1>2. QED
  BY <1>1, InvariantHolds, PTL DEF Spec, RetirementIsComplete

----------------------------------------------------------------------------
(***************************************************************************)
(* Nothing half-built is served: OnlyBuiltIsServed, for any number of      *)
(* generations, handlers and replicas, any failing dependencies, crashes,  *)
(* and catalog writes that land late.                                      *)
(***************************************************************************)

Served == {"ready", "active"}

\* The labels of a request that has seen its generation built.
Serving == {"mark_ready", "revalidate", "commit_ready", "require_active", "alias", "set_active", "target", "commit_active"}

\* Batches promise nothing that is not built.
Honest(batch) == \A g \in Gen : batch[g] \in Served => Verified(g)

\* A request that has seen its generation built, or is to write that it is, is
\* right; and one that is about to build its generation is the only one to
\* work on it, and starts from nothing.
BuildsAlone(h) ==
  /\ Honest(req[h].batch)
  /\ pc[h] \in Serving => Verified(req[h].gen)
  /\ pc[h] = "add" => req[h].batch[req[h].gen] # "absent"
  /\ pc[h] \in {"build", "index"} => catalog[req[h].gen] # "absent"
  /\ pc[h] \in {"add", "build"} =>
       /\ physical[req[h].gen] = "none"
       /\ \A k \in Handler \ {h} : req[k].gen # req[h].gen

\* What is built is on record, and what is on record, written late or the
\* target of the alias is built when it has to be.
RecordsAreBuilt ==
  /\ OnlyBuiltIsServed
  /\ \A batch \in late : Honest(batch)
  /\ \A g \in Gen : physical[g] # "none" => catalog[g] # "absent"

BuildInv == RecordsAreBuilt /\ \A h \in Handler : BuildsAlone(h)

----------------------------------------------------------------------------
(* What a step of a request does to the catalog, the store and the alias.  *)

\* The catalog changes by the request's batch only, now or late.
LEMMA WriteEffect ==
  ASSUME TypeOK, NEW h \in Handler, Begin(h) \/ Continue(h)
  PROVE  /\ catalog' = catalog \/ catalog' = Upserted(req[h].batch)
         /\ late' \subseteq late \cup {req[h].batch}
<1> USE DEF Written, WriteUnanswered
<1>1. CASE BeginCreate(h) \/ BeginProvisionGeneration(h)
  BY <1>1 DEF BeginCreate, BeginProvisionGeneration, BeginProvision
<1>2. CASE (\E g \in Gen : BeginActivate(h, g)) \/ BeginRetire(h) \/ BeginRevalidate(h)
  BY <1>2 DEF BeginActivate, BeginRetire, BeginRevalidate
<1>3. CASE AddGeneration(h) \/ CreateCollection(h) \/ CreatePayloadIndexes(h) \/ VerifyCollection(h)
  BY <1>3 DEF AddGeneration, CreateCollection, CreatePayloadIndexes, VerifyCollection
<1>4. CASE MarkReady(h) \/ CommitReady(h) \/ Recover(h) \/ MarkFailed(h) \/ CommitFailed(h)
  BY <1>4 DEF MarkReady, CommitReady, Recover, MarkFailed, CommitFailed
<1>5. CASE RequireActive(h) \/ ActivateAlias(h) \/ SetActive(h) \/ ReadTarget(h)
  BY <1>5 DEF RequireActive, ActivateAlias, SetActive, ReadTarget
<1>6. CASE CommitActive(h) \/ Confirm(h) \/ RetireLogical(h) \/ Revalidate(h)
  BY <1>6 DEF CommitActive, Confirm, RetireLogical, Revalidate, CompareState
<1>7. CASE ListGenerations(h) \/ CommitRetired(h) \/ RetireAlias(h)
  BY <1>7 DEF ListGenerations, CommitRetired, RetireAlias
<1>8. QED
  BY <1>1, <1>2, <1>3, <1>4, <1>5, <1>6, <1>7 DEF Begin, Continue

\* The physical collection and the alias change at the two building calls and
\* at the two alias calls.
LEMMA StoreEffect ==
  ASSUME TypeOK, NEW h \in Handler, Begin(h) \/ Continue(h)
  PROVE  /\ \/ UNCHANGED physical
            \/ pc[h] = "build" /\ physical' = [physical EXCEPT ![req[h].gen] = "created"]
            \/ pc[h] = "index" /\ physical' = [physical EXCEPT ![req[h].gen] = "indexed"]
         /\ alias' \in {alias, NoGen} \/ (pc[h] = "alias" /\ alias' = req[h].gen)
<1> USE DEF StoreFails
<1>1. CASE BeginCreate(h) \/ BeginProvisionGeneration(h)
  BY <1>1 DEF BeginCreate, BeginProvisionGeneration, BeginProvision
<1>2. CASE (\E g \in Gen : BeginActivate(h, g)) \/ BeginRetire(h) \/ BeginRevalidate(h)
  BY <1>2 DEF BeginActivate, BeginRetire, BeginRevalidate
<1>3. CASE AddGeneration(h) \/ CreateCollection(h) \/ CreatePayloadIndexes(h) \/ VerifyCollection(h)
  BY <1>3 DEF AddGeneration, CreateCollection, CreatePayloadIndexes, VerifyCollection
<1>4. CASE MarkReady(h) \/ CommitReady(h) \/ Recover(h) \/ MarkFailed(h) \/ CommitFailed(h)
  BY <1>4 DEF MarkReady, CommitReady, Recover, MarkFailed, CommitFailed
<1>5. CASE RequireActive(h) \/ ActivateAlias(h) \/ SetActive(h) \/ ReadTarget(h)
  BY <1>5 DEF RequireActive, ActivateAlias, SetActive, ReadTarget
<1>6. CASE CommitActive(h) \/ Confirm(h) \/ RetireLogical(h) \/ Revalidate(h)
  BY <1>6 DEF CommitActive, Confirm, RetireLogical, Revalidate, CompareState
<1>7. CASE ListGenerations(h) \/ CommitRetired(h) \/ RetireAlias(h)
  BY <1>7 DEF ListGenerations, CommitRetired, RetireAlias
<1>8. QED
  BY <1>1, <1>2, <1>3, <1>4, <1>5, <1>6, <1>7 DEF Begin, Continue

\* A step takes away neither a finished collection nor a record, and builds
\* nothing that is not on record.
LEMMA BuiltStays ==
  ASSUME TypeOK, RequestIsBound, BuildInv, NEW h \in Handler, Begin(h) \/ Continue(h), NEW g \in Gen
  PROVE  /\ Verified(g) => Verified(g)'
         /\ catalog[g] # "absent" => catalog'[g] # "absent"
         /\ physical'[g] # "none" => catalog'[g] # "absent"
<1> USE DEF TypeOK
<1>1. catalog[g] # "absent" => catalog'[g] # "absent"
  BY WriteEffect DEF Upserted
<1>2. physical[g] # "none" => catalog[g] # "absent"
  BY DEF BuildInv, RecordsAreBuilt
<1>3. CASE UNCHANGED physical
  BY <1>1, <1>2, <1>3 DEF Verified
<1>4. CASE pc[h] = "build" /\ physical' = [physical EXCEPT ![req[h].gen] = "created"]
  <2>1. physical[req[h].gen] = "none" /\ catalog[req[h].gen] # "absent"
    BY <1>4 DEF BuildInv, BuildsAlone
  <2>2. QED
    BY <1>1, <1>2, <1>4, <2>1 DEF Verified
<1>5. CASE pc[h] = "index" /\ physical' = [physical EXCEPT ![req[h].gen] = "indexed"]
  <2>1. catalog[req[h].gen] # "absent"
    BY <1>5 DEF BuildInv, BuildsAlone
  <2>2. QED
    BY <1>1, <1>2, <1>5, <2>1 DEF Verified
<1>6. QED
  BY <1>3, <1>4, <1>5, StoreEffect

\* An honest batch stays so.
LEMMA HonestStays ==
  ASSUME TypeOK, RequestIsBound, BuildInv, NEW h \in Handler, Begin(h) \/ Continue(h),
         NEW batch \in Batch, Honest(batch)
  PROVE  Honest(batch)'
<1>1. \A g \in Gen : Verified(g) => Verified(g)'
  BY BuiltStays
<1>2. QED
  BY <1>1 DEF Honest

LEMMA RecordsStayBuilt ==
  ASSUME TypeOK, RequestIsBound, BuildInv, NEW h \in Handler, Begin(h) \/ Continue(h)
  PROVE  RecordsAreBuilt'
<1>1. \A g \in Gen : Verified(g) => Verified(g)'
  BY BuiltStays
<1>2. req[h].batch \in Batch /\ Honest(req[h].batch)
  BY DEF TypeOK, Request, BuildInv, BuildsAlone
<1>3. ASSUME NEW g \in Gen, catalog'[g] \in Served
      PROVE  Verified(g)'
  <2>1. catalog[g] \in Served \/ req[h].batch[g] \in Served
    BY <1>3, WriteEffect DEF Upserted
  <2>2. Verified(g)
    BY <1>2, <2>1 DEF Honest, BuildInv, RecordsAreBuilt, OnlyBuiltIsServed, Served
  <2>3. QED
    BY <1>1, <2>2
<1>4. ASSUME alias' # NoGen
      PROVE  Verified(alias)'
  <2>1. CASE alias' = alias
    <3>1. alias \in Gen /\ Verified(alias)
      BY <1>4, <2>1 DEF TypeOK, BuildInv, RecordsAreBuilt, OnlyBuiltIsServed
    <3>2. QED
      BY <1>1, <2>1, <3>1 DEF Verified
  <2>2. CASE pc[h] = "alias" /\ alias' = req[h].gen
    <3>1. req[h].gen \in Gen
      BY <2>2 DEF RequestIsBound, IsBound
    <3>2. Verified(req[h].gen)
      BY <2>2 DEF BuildInv, BuildsAlone, Serving
    <3>3. QED
      BY <1>1, <2>2, <3>1, <3>2 DEF Verified
  <2>3. QED
    BY <1>4, <2>1, <2>2, StoreEffect
<1>5. ASSUME NEW batch \in late'
      PROVE  Honest(batch)'
  <2>1. batch \in late \/ batch = req[h].batch
    BY WriteEffect
  <2>2. batch \in Batch /\ Honest(batch)
    BY <1>2, <2>1 DEF TypeOK, BuildInv, RecordsAreBuilt
  <2>3. QED
    BY <2>2, HonestStays
<1>6. \A g \in Gen : physical'[g] # "none" => catalog'[g] # "absent"
  BY BuiltStays
<1>7. QED
  BY <1>3, <1>4, <1>5, <1>6 DEF RecordsAreBuilt, OnlyBuiltIsServed, Served

----------------------------------------------------------------------------
(* The requests.                                                           *)

\* A request that does not move relies on nothing that another one changes.
LEMMA OthersBuildAlone ==
  ASSUME TypeOK, RequestIsBound, BuildInv, NEW h \in Handler, Begin(h) \/ Continue(h),
         NEW k \in Handler \ {h}
  PROVE  BuildsAlone(k)'
<1> DEFINE g == req[k].gen
<1>1. pc'[k] = pc[k] /\ req'[k] = req[k]
  BY OthersUnmoved
<1>2. req[k].batch \in Batch /\ BuildsAlone(k)
  BY DEF TypeOK, Request, BuildInv
<1>3. Honest(req[k].batch)'
  <2>1. Honest(req[k].batch)
    BY <1>2 DEF BuildsAlone
  <2>2. \A x \in Gen : Verified(x) => Verified(x)'
    BY BuiltStays
  <2>3. QED
    BY <1>1, <2>1, <2>2 DEF Honest
<1>4. pc[k] \in Serving \cup {"add", "build", "index"} => g \in Gen
  BY DEF RequestIsBound, IsBound, Serving
<1>5. pc'[k] \in Serving => Verified(req[k].gen)'
  <2>1. SUFFICES ASSUME pc[k] \in Serving PROVE Verified(req[k].gen)'
    BY <1>1
  <2>2. g \in Gen /\ Verified(g)
    BY <1>2, <1>4, <2>1 DEF BuildsAlone
  <2>3. physical'[g] = "indexed"
    BY <2>2, BuiltStays DEF Verified
  <2>4. QED
    BY <1>1, <2>3 DEF Verified
<1>6. pc[k] \in {"build", "index"} => catalog'[g] # "absent"
  BY <1>2, <1>4, BuiltStays DEF BuildsAlone
<1>7. ASSUME pc[k] \in {"add", "build"}
      PROVE  physical'[g] = "none" /\ \A m \in Handler \ {k} : req'[m].gen # g
  <2>1. g \in Gen /\ physical[g] = "none" /\ \A m \in Handler \ {k} : req[m].gen # g
    BY <1>2, <1>4, <1>7 DEF BuildsAlone
  <2>2. physical'[g] = "none"
    BY <2>1, StoreEffect DEF TypeOK
  <2>3. catalog[g] # "ready" /\ ~Verified(g)
    BY <2>1 DEF BuildInv, RecordsAreBuilt, OnlyBuiltIsServed, Verified
  <2>4. ~Open(g)
    BY <2>3 DEF Open, Fresh
  <2>5. req'[h].gen # g
    BY <2>1, <2>4, GenEffect, LifecycleAssumption
  <2>6. \A m \in Handler \ {h} : req'[m] = req[m]
    BY OthersUnmoved
  <2>7. QED
    BY <2>1, <2>2, <2>5, <2>6
<1>8. QED
  BY <1>1, <1>2, <1>3, <1>5, <1>6, <1>7 DEF BuildsAlone

\* The batch a request carries after its own step.
LEMMA MoverIsHonest ==
  ASSUME TypeOK, RequestIsBound, BuildInv, NEW h \in Handler, Begin(h) \/ Continue(h)
  PROVE  Honest(req'[h].batch)
<1> USE DEF TypeOK, Goto, Answer, Raise, Request, Idle
<1> DEFINE b == req'[h].batch
<1>1. Honest(Nothing) /\ Honest(req[h].batch)
  BY DEF Honest, Nothing, Served, BuildInv, BuildsAlone
<1>2. \A g \in Gen : Honest(OnePoint(g, "building")) /\ Honest(OnePoint(g, "failed"))
  BY DEF Honest, OnePoint, Nothing, Served
<1>3. CASE b \in {Nothing, req[h].batch}
  BY <1>1, <1>3
<1>4. ASSUME NEW op \in {"create", "provision"}, BeginProvision(h, op)
      PROVE  Honest(b)
  <2>1. PICK g \in Gen :
          req' = [req EXCEPT ![h] = [Idle EXCEPT !.op = op, !.gen = g, !.batch = OnePoint(g, "building")]]
    BY <1>4 DEF BeginProvision
  <2>2. b = OnePoint(g, "building")
    BY <2>1
  <2>3. QED
    BY <1>2, <2>2
<1>5. CASE (\E g \in Gen : BeginActivate(h, g)) \/ BeginRetire(h) \/ BeginRevalidate(h)
  <2>1. b = Nothing
    <3>1. ASSUME NEW g \in Gen, BeginActivate(h, g)
          PROVE  b = Nothing
      BY <3>1 DEF BeginActivate
    <3>2. CASE BeginRetire(h)
      BY <3>2 DEF BeginRetire
    <3>3. CASE BeginRevalidate(h)
      BY <3>3 DEF BeginRevalidate
    <3>4. QED
      BY <1>5, <3>1, <3>2, <3>3
  <2>2. QED
    BY <1>3, <2>1
<1>6. CASE AddGeneration(h) \/ CreateCollection(h) \/ CreatePayloadIndexes(h) \/ VerifyCollection(h)
  BY <1>3, <1>6 DEF AddGeneration, CreateCollection, CreatePayloadIndexes, VerifyCollection
<1>7. CASE MarkReady(h) \/ Revalidate(h)
  <2>1. req[h].gen \in Gen /\ Verified(req[h].gen)
    BY <1>7 DEF MarkReady, Revalidate, RequestIsBound, IsBound, BuildInv, BuildsAlone, Serving
  <2>2. Honest(OnePoint(req[h].gen, "ready"))
    BY <2>1 DEF Honest, OnePoint, Nothing, Served
  <2>3. b \in {Nothing, req[h].batch, OnePoint(req[h].gen, "ready")}
    BY <1>7 DEF MarkReady, Revalidate, CompareState
  <2>4. QED
    BY <1>3, <2>2, <2>3
<1>8. CASE CommitReady(h) \/ Recover(h) \/ CommitFailed(h)
  BY <1>3, <1>8 DEF CommitReady, Recover, CommitFailed
<1>9. CASE MarkFailed(h)
  <2>1. req[h].gen \in Gen
    BY <1>9 DEF MarkFailed, RequestIsBound, IsBound
  <2>2. b \in {Nothing, req[h].batch, OnePoint(req[h].gen, "failed")}
    BY <1>9 DEF MarkFailed, CompareState
  <2>3. QED
    BY <1>2, <1>3, <2>1, <2>2
<1>10. CASE RequireActive(h) \/ ActivateAlias(h) \/ SetActive(h)
  BY <1>3, <1>10 DEF RequireActive, ActivateAlias, SetActive
<1>11. CASE ReadTarget(h)
  <2>1. req[h].gen \in Gen /\ Verified(req[h].gen)
    BY <1>11 DEF ReadTarget, RequestIsBound, IsBound, BuildInv, BuildsAlone, Serving
  <2>2. Honest(CutoverBatch(h))
    BY <2>1 DEF Honest, CutoverBatch, Served
  <2>3. b \in {Nothing, req[h].batch, CutoverBatch(h)}
    BY <1>11 DEF ReadTarget
  <2>4. QED
    BY <1>3, <2>2, <2>3
<1>12. CASE CommitActive(h) \/ Confirm(h) \/ RetireLogical(h)
  BY <1>3, <1>12 DEF CommitActive, Confirm, RetireLogical
<1>13. CASE ListGenerations(h)
  <2>1. Honest(RetirementBatch)
    BY DEF Honest, RetirementBatch, Served
  <2>2. b \in {Nothing, req[h].batch, RetirementBatch}
    BY <1>13 DEF ListGenerations
  <2>3. QED
    BY <1>3, <2>1, <2>2
<1>14. CASE CommitRetired(h) \/ RetireAlias(h)
  BY <1>3, <1>14 DEF CommitRetired, RetireAlias
<1>15. QED
  BY <1>4, <1>5, <1>6, <1>7, <1>8, <1>9, <1>10, <1>11, <1>12, <1>13, <1>14
  DEF Begin, Continue, BeginCreate, BeginProvisionGeneration

\* A request is about to serve only a generation it has seen built.
LEMMA MoverServes ==
  ASSUME TypeOK, RequestIsBound, BuildInv, NEW h \in Handler, Begin(h) \/ Continue(h),
         pc'[h] \in Serving
  PROVE  req'[h].gen \in Gen /\ Verified(req'[h].gen)
<1> USE DEF TypeOK, Goto, Answer, Raise, Request, Serving
<1>1. CASE pc[h] \in Serving /\ req'[h].gen = req[h].gen
  BY <1>1 DEF RequestIsBound, IsBound, BuildInv, BuildsAlone
<1>2. CASE BeginCreate(h) \/ BeginProvisionGeneration(h) \/ BeginRetire(h)
  BY <1>2 DEF BeginCreate, BeginProvisionGeneration, BeginProvision, BeginRetire
<1>3. ASSUME NEW g \in Gen, BeginActivate(h, g)
      PROVE  req'[h].gen \in Gen /\ Verified(req'[h].gen)
  <2>1. req'[h].gen = g /\ catalog[g] = "ready"
    BY <1>3 DEF BeginActivate, Idle
  <2>2. QED
    BY <2>1 DEF BuildInv, RecordsAreBuilt, OnlyBuiltIsServed
<1>4. CASE AddGeneration(h) \/ CreateCollection(h) \/ CreatePayloadIndexes(h)
  BY <1>4 DEF AddGeneration, CreateCollection, CreatePayloadIndexes
<1>5. CASE VerifyCollection(h)
  BY <1>5 DEF VerifyCollection, RequestIsBound, IsBound
<1>6. CASE MarkReady(h) \/ CommitReady(h)
  BY <1>1, <1>6 DEF MarkReady, CommitReady, CompareState
<1>7. CASE Recover(h) \/ MarkFailed(h) \/ CommitFailed(h)
  BY <1>7 DEF Recover, MarkFailed, CommitFailed, CompareState
<1>8. CASE RequireActive(h) \/ ActivateAlias(h) \/ SetActive(h) \/ ReadTarget(h)
  BY <1>1, <1>8 DEF RequireActive, ActivateAlias, SetActive, ReadTarget
<1>9. CASE CommitActive(h) \/ Confirm(h) \/ RetireLogical(h)
  BY <1>9 DEF CommitActive, Confirm, RetireLogical
<1>10. CASE ListGenerations(h) \/ CommitRetired(h) \/ RetireAlias(h)
  BY <1>10 DEF ListGenerations, CommitRetired, RetireAlias
<1>11. CASE BeginRevalidate(h)
  <2>1. PICK g \in Gen : Verified(g) /\ req' = [req EXCEPT ![h] = [Idle EXCEPT !.op = "revalidate", !.gen = g]]
    BY <1>11 DEF BeginRevalidate
  <2>2. QED
    BY <2>1
<1>12. CASE Revalidate(h)
  BY <1>1, <1>12 DEF Revalidate, CompareState
<1>13. QED
  BY <1>2, <1>3, <1>4, <1>5, <1>6, <1>7, <1>8, <1>9, <1>10, <1>11, <1>12 DEF Begin, Continue

\* The steps that lead to the recording and the building of a generation.
LEMMA OnlyBuildingStepsBuild ==
  ASSUME TypeOK, NEW h \in Handler, Begin(h) \/ Continue(h), pc'[h] \in {"add", "build", "index"}
  PROVE  \/ \E op \in {"create", "provision"} : BeginProvision(h, op)
         \/ AddGeneration(h) /\ pc'[h] = "build"
         \/ CreateCollection(h) /\ pc'[h] = "index"
<1> USE DEF TypeOK, Goto, Answer, Raise
<1>1. CASE BeginCreate(h) \/ BeginProvisionGeneration(h)
  BY <1>1 DEF BeginCreate, BeginProvisionGeneration
<1>2. CASE (\E g \in Gen : BeginActivate(h, g)) \/ BeginRetire(h) \/ BeginRevalidate(h)
  BY <1>2 DEF BeginActivate, BeginRetire, BeginRevalidate
<1>3. CASE AddGeneration(h) \/ CreateCollection(h) \/ CreatePayloadIndexes(h) \/ VerifyCollection(h)
  BY <1>3 DEF AddGeneration, CreateCollection, CreatePayloadIndexes, VerifyCollection
<1>4. CASE MarkReady(h) \/ CommitReady(h) \/ Recover(h) \/ MarkFailed(h) \/ CommitFailed(h)
  BY <1>4 DEF MarkReady, CommitReady, Recover, MarkFailed, CommitFailed, CompareState
<1>5. CASE RequireActive(h) \/ ActivateAlias(h) \/ SetActive(h) \/ ReadTarget(h)
  BY <1>5 DEF RequireActive, ActivateAlias, SetActive, ReadTarget
<1>6. CASE CommitActive(h) \/ Confirm(h) \/ RetireLogical(h) \/ Revalidate(h)
  BY <1>6 DEF CommitActive, Confirm, RetireLogical, Revalidate, CompareState
<1>7. CASE ListGenerations(h) \/ CommitRetired(h) \/ RetireAlias(h)
  BY <1>7 DEF ListGenerations, CommitRetired, RetireAlias
<1>8. QED
  BY <1>1, <1>2, <1>3, <1>4, <1>5, <1>6, <1>7 DEF Begin, Continue

\* What is recorded first and built next is a generation nobody else works on.
LEMMA MoverBuilds ==
  ASSUME TypeOK, RequestIsBound, BuildInv, NEW h \in Handler, Begin(h) \/ Continue(h)
  PROVE  /\ pc'[h] = "add" => req'[h].batch[req'[h].gen] # "absent"
         /\ pc'[h] \in {"build", "index"} => catalog'[req'[h].gen] # "absent"
         /\ pc'[h] \in {"add", "build"} =>
              /\ physical'[req'[h].gen] = "none"
              /\ \A k \in Handler \ {h} : req'[k].gen # req'[h].gen
<1> USE DEF TypeOK, Goto, Request
<1>1. \A k \in Handler \ {h} : req'[k] = req[k]
  BY OthersUnmoved
<1>2. ASSUME NEW op \in {"create", "provision"}, BeginProvision(h, op)
      PROVE  /\ pc'[h] = "add" /\ req'[h].batch[req'[h].gen] # "absent"
             /\ physical'[req'[h].gen] = "none"
             /\ \A k \in Handler \ {h} : req'[k].gen # req'[h].gen
  <2>1. PICK g \in Gen :
          /\ Fresh(g)
          /\ req' = [req EXCEPT ![h] = [Idle EXCEPT !.op = op, !.gen = g, !.batch = OnePoint(g, "building")]]
    BY <1>2 DEF BeginProvision
  <2>2. req'[h].gen = g /\ req'[h].batch = OnePoint(g, "building")
    BY <2>1 DEF Idle
  <2>3. req'[h].batch[g] # "absent"
    BY <2>2 DEF OnePoint, Nothing
  <2>4. physical[g] = "none"
    BY <2>1 DEF Fresh, BuildInv, RecordsAreBuilt
  <2>5. pc'[h] = "add" /\ UNCHANGED physical
    BY <1>2 DEF BeginProvision
  <2>6. \A k \in Handler \ {h} : req[k].gen # g
    BY <2>1 DEF Fresh
  <2>7. QED
    BY <1>1, <2>2, <2>3, <2>4, <2>5, <2>6
<1>3. CASE AddGeneration(h) /\ pc'[h] = "build"
  <2>1. req[h].gen \in Gen /\ req'[h].gen = req[h].gen
    BY <1>3 DEF AddGeneration, RequestIsBound, IsBound, Answer
  <2>2. UNCHANGED physical /\ catalog' = Upserted(req[h].batch)
    BY <1>3 DEF AddGeneration, Answer, Written
  <2>3. /\ req[h].batch[req[h].gen] # "absent"
        /\ physical[req[h].gen] = "none"
        /\ \A k \in Handler \ {h} : req[k].gen # req[h].gen
    BY <1>3 DEF AddGeneration, BuildInv, BuildsAlone
  <2>4. catalog'[req[h].gen] # "absent"
    BY <2>1, <2>2, <2>3 DEF Upserted
  <2>5. QED
    BY <1>1, <1>3, <2>1, <2>2, <2>3, <2>4
<1>4. CASE CreateCollection(h) /\ pc'[h] = "index"
  <2>1. UNCHANGED <<req, catalog>> /\ catalog[req[h].gen] # "absent"
    BY <1>4 DEF CreateCollection, Raise, Answer, BuildInv, BuildsAlone
  <2>2. QED
    BY <1>4, <2>1
<1>5. QED
  BY <1>2, <1>3, <1>4, OnlyBuildingStepsBuild

LEMMA MoverBuildsAlone ==
  ASSUME TypeOK, RequestIsBound, BuildInv, NEW h \in Handler, Begin(h) \/ Continue(h)
  PROVE  BuildsAlone(h)'
<1>1. \A g \in Gen : Verified(g) => Verified(g)'
  BY BuiltStays
<1>2. Honest(req[h].batch)'
  BY <1>1, MoverIsHonest DEF Honest
<1>3. ASSUME pc'[h] \in Serving
      PROVE  Verified(req[h].gen)'
  <2>1. req'[h].gen \in Gen /\ Verified(req'[h].gen)
    BY <1>3, MoverServes
  <2>2. QED
    BY <1>1, <2>1 DEF Verified
<1>4. QED
  BY <1>2, <1>3, MoverBuilds DEF BuildsAlone

----------------------------------------------------------------------------
(* The invariant.                                                          *)

LEMMA BuildInvInitially == Init => BuildInv
BY DEF Init, BuildInv, RecordsAreBuilt, OnlyBuiltIsServed, BuildsAlone, Honest, Idle, Nothing,
       Served, Serving

\* A batch that lands late was honest when it was sent.
LEMMA LateWritesAreHonest ==
  ASSUME TypeOK, RequestIsBound, BuildInv, LateWriteLands
  PROVE  BuildInv'
<1> USE DEF LateWriteLands, BuildInv
<1>1. PICK batch \in late : catalog' = Upserted(batch) /\ late' = late \ {batch}
  OBVIOUS
<1>2. Honest(batch)
  BY DEF RecordsAreBuilt
<1>3. \A g \in Gen : catalog'[g] \in Served => Verified(g)
  BY <1>1, <1>2 DEF Upserted, Honest, RecordsAreBuilt, OnlyBuiltIsServed, Served
<1>4. \A g \in Gen : catalog[g] # "absent" => catalog'[g] # "absent"
  BY <1>1 DEF Upserted
<1>5. RecordsAreBuilt'
  BY <1>1, <1>3, <1>4 DEF RecordsAreBuilt, OnlyBuiltIsServed, Honest, Verified, Served
<1>6. ASSUME NEW h \in Handler
      PROVE  BuildsAlone(h)'
  <2>1. pc[h] \in {"build", "index"} => req[h].gen \in Gen
    BY DEF RequestIsBound, IsBound
  <2>2. QED
    BY <1>4, <2>1 DEF BuildsAlone, Honest, Verified
<1>7. QED
  BY <1>5, <1>6

\* A crash only forgets requests.
LEMMA CrashesBuildNothing ==
  ASSUME TypeOK, RequestIsBound, BuildInv, NEW p \in Replica, Crash(p)
  PROVE  BuildInv'
<1> USE DEF Crash, BuildInv
<1>1. RecordsAreBuilt'
  BY DEF RecordsAreBuilt, OnlyBuiltIsServed, Honest, Verified
<1>2. ASSUME NEW h \in Handler
      PROVE  BuildsAlone(h)'
  <2>1. CASE Home[h] = p
    <3>1. pc'[h] = "idle" /\ req'[h] = Idle
      BY <2>1
    <3>2. Honest(req[h].batch)'
      BY <3>1 DEF Honest, Idle, Nothing, Served
    <3>3. QED
      BY <3>1, <3>2 DEF BuildsAlone, Serving
  <2>2. CASE Home[h] # p
    <3>1. pc'[h] = pc[h] /\ req'[h] = req[h]
      BY <2>2
    <3>2. BuildsAlone(h)
      OBVIOUS
    <3>3. \A k \in Handler : req'[k].gen \in {req[k].gen, NoGen}
      BY DEF Idle
    <3>4. pc[h] \in {"add", "build"} => req[h].gen \in Gen
      BY DEF RequestIsBound, IsBound
    <3>5. QED
      BY <3>1, <3>2, <3>3, <3>4, LifecycleAssumption DEF BuildsAlone, Honest, Verified
  <2>3. QED
    BY <2>1, <2>2
<1>3. QED
  BY <1>1, <1>2

LEMMA BuildInvStep == TypeOK /\ RequestIsBound /\ BuildInv /\ [Next]_vars => BuildInv'
<1> SUFFICES ASSUME TypeOK, RequestIsBound, BuildInv, [Next]_vars
             PROVE  BuildInv'
  OBVIOUS
<1>1. ASSUME NEW h \in Handler, Begin(h) \/ Continue(h)
      PROVE  BuildInv'
  <2>1. RecordsAreBuilt'
    BY <1>1, RecordsStayBuilt
  <2>2. ASSUME NEW k \in Handler
        PROVE  BuildsAlone(k)'
    <3>1. CASE k = h
      BY <1>1, <3>1, MoverBuildsAlone
    <3>2. CASE k # h
      BY <1>1, <3>2, OthersBuildAlone
    <3>3. QED
      BY <3>1, <3>2
  <2>3. QED
    BY <2>1, <2>2 DEF BuildInv
<1>2. CASE UNCHANGED vars
  BY <1>2 DEF vars, BuildInv, RecordsAreBuilt, OnlyBuiltIsServed, BuildsAlone, Honest, Verified
<1>3. QED
  BY <1>1, <1>2, LateWritesAreHonest, CrashesBuildNothing DEF Next

\* A generation that is ready or active, or that the alias names, has its
\* collection, every payload index and the schema marker: for any number of
\* replicas, with every kind of failure and with writes that land late.
THEOREM LifecycleBuilt == Spec => []OnlyBuiltIsServed
<1>1. BuildInv => OnlyBuiltIsServed
  BY DEF BuildInv, RecordsAreBuilt
<1>2. QED
  BY <1>1, InitiallyTyped, TypeStep, BuildInvInitially, BuildInvStep, PTL DEF Spec

----------------------------------------------------------------------------
(* Failures are recorded.                                                  *)

\* Only the addition of a generation writes that it is building, and only its
\* own provisioning or revalidation that it is ready; what is committed is
\* about the request's own generation.
BatchFits(h) ==
  /\ \A g \in Gen : req[h].batch[g] = "building" => pc[h] = "add" /\ g = req[h].gen
  /\ \A g \in Gen : req[h].batch[g] = "ready" => pc[h] = "commit_ready" /\ g = req[h].gen
  /\ pc[h] = "commit_ready" => req[h].batch[req[h].gen] = "ready"
  /\ pc[h] = "commit_failed" => req[h].batch[req[h].gen] = "failed"
  /\ pc[h] = "commit_active" => req[h].batch[req[h].gen] = "active"

\* A provisioning is at one of its own calls, in none of which it may raise
\* without recovering.
OpFits(h) ==
  req[h].op \in {"create", "provision"} =>
    pc[h] \notin {"idle", "require_active", "revalidate", "retire", "list", "commit_retired", "drop_alias"}

\* No request can begin to activate or revalidate a generation: it is not built,
\* not ready, and will not be by a write that is under way.
Untaken(g) == ~Verified(g) /\ catalog[g] # "ready" /\ \A batch \in late : batch[g] # "ready"

AddsAlone(h) ==
  pc[h] = "add" => Untaken(req[h].gen) /\ \A k \in Handler \ {h} : req[k].gen # req[h].gen

\* A generation that was activated is not building again.
Confirmed(h) == pc[h] = "confirm" => catalog[req[h].gen] # "building"

\* A generation whose addition is late is nobody's any more.
LateAdds ==
  \A batch \in late : \A g \in Gen :
    batch[g] = "building" => Untaken(g) /\ \A h \in Handler : req[h].gen # g

FailureInv ==
  /\ LateAdds
  /\ \A h \in Handler : BatchFits(h) /\ OpFits(h) /\ AddsAlone(h) /\ Confirmed(h)

\* What the batches say of a generation.
LEMMA EmptySays == \A g \in Gen : Nothing[g] = "absent"
BY DEF Nothing

LEMMA BuildingSays ==
  \A x \in Gen : \A g \in Gen : OnePoint(x, "building")[g] = IF g = x THEN "building" ELSE "absent"
BY DEF OnePoint, Nothing

LEMMA ReadySays ==
  \A x \in Gen : \A g \in Gen : OnePoint(x, "ready")[g] = IF g = x THEN "ready" ELSE "absent"
BY DEF OnePoint, Nothing

LEMMA FailedSays ==
  \A x \in Gen : \A g \in Gen : OnePoint(x, "failed")[g] = IF g = x THEN "failed" ELSE "absent"
BY DEF OnePoint, Nothing

LEMMA CutoverSays ==
  ASSUME NEW h \in Handler
  PROVE  /\ \A g \in Gen : CutoverBatch(h)[g] \in {"active", "retired", "absent"}
         /\ req[h].gen \in Gen => CutoverBatch(h)[req[h].gen] = "active"
BY DEF CutoverBatch

LEMMA RetirementSays == \A g \in Gen : RetirementBatch[g] \in {"absent", "failed", "retired"}
BY DEF RetirementBatch

\* A step that leaves the batch alone, or empties it, and does not lead to a
\* commit keeps it fitting.
LEMMA PlainStepFits ==
  ASSUME NEW h \in Handler, BatchFits(h), pc[h] \notin {"add", "commit_ready"},
         req'[h].batch \in {req[h].batch, Nothing}, pc'[h] \notin {"commit_ready", "commit_failed", "commit_active"}
  PROVE  BatchFits(h)'
BY EmptySays DEF BatchFits

LEMMA EmptyBatchFits ==
  ASSUME NEW h \in Handler, req'[h].batch = Nothing,
         pc'[h] \notin {"commit_ready", "commit_failed", "commit_active"}
  PROVE  BatchFits(h)'
BY EmptySays DEF BatchFits

\* The batch of a request fits after its own step.
LEMMA MoverBatchFits ==
  ASSUME TypeOK, RequestIsBound, NEW h \in Handler, BatchFits(h), Begin(h) \/ Continue(h)
  PROVE  BatchFits(h)'
<1> USE DEF TypeOK, Goto, Answer, Raise, Request, Idle
<1>1. ASSUME NEW op \in {"create", "provision"}, BeginProvision(h, op)
      PROVE  BatchFits(h)'
  <2>1. PICK g \in Gen :
          req' = [req EXCEPT ![h] = [Idle EXCEPT !.op = op, !.gen = g, !.batch = OnePoint(g, "building")]]
    BY <1>1 DEF BeginProvision
  <2>2. pc'[h] = "add" /\ req'[h].gen = g /\ req'[h].batch = OnePoint(g, "building")
    BY <1>1, <2>1 DEF BeginProvision
  <2>3. QED
    BY <2>2, BuildingSays DEF BatchFits
<1>2. ASSUME NEW g \in Gen, BeginActivate(h, g)
      PROVE  BatchFits(h)'
  BY <1>2, EmptyBatchFits DEF BeginActivate
<1>3. CASE BeginRetire(h) \/ BeginRevalidate(h)
  <2>1. req'[h].batch = Nothing
    <3>1. CASE BeginRetire(h)
      BY <3>1 DEF BeginRetire
    <3>2. CASE BeginRevalidate(h)
      BY <3>2 DEF BeginRevalidate
    <3>3. QED
      BY <1>3, <3>1, <3>2
  <2>2. pc'[h] \in {"retire", "revalidate"}
    BY <1>3 DEF BeginRetire, BeginRevalidate
  <2>3. QED
    BY <2>1, <2>2, EmptyBatchFits
<1>4. CASE AddGeneration(h)
  BY <1>4, EmptyBatchFits DEF AddGeneration
<1>5. CASE CreateCollection(h) \/ CreatePayloadIndexes(h) \/ VerifyCollection(h)
  BY <1>5, PlainStepFits DEF CreateCollection, CreatePayloadIndexes, VerifyCollection
<1>6. ASSUME NEW expected, NEW s, NEW commit, CompareState(h, expected, s, commit)
      PROVE  pc'[h] = commit /\ req'[h].gen = req[h].gen /\ req'[h].batch = OnePoint(req[h].gen, s)
  BY <1>6 DEF CompareState
<1>7. CASE MarkReady(h) \/ Revalidate(h)
  <2>1. req[h].gen \in Gen
    BY <1>7 DEF MarkReady, Revalidate, RequestIsBound, IsBound
  <2>2. ASSUME NEW expected, CompareState(h, expected, "ready", "commit_ready")
        PROVE  BatchFits(h)'
    BY <1>6, <2>1, <2>2, ReadySays DEF BatchFits
  <2>3. CASE Raise(h, "refused") \/ Raise(h, "unavailable") \/ Answer(h)
    BY <2>3, EmptyBatchFits
  <2>4. QED
    BY <1>7, <2>2, <2>3 DEF MarkReady, Revalidate
<1>8. CASE CommitReady(h)
  BY <1>8, EmptyBatchFits DEF CommitReady
<1>9. CASE Recover(h)
  BY <1>9, PlainStepFits DEF Recover
<1>10. CASE MarkFailed(h)
  <2>1. req[h].gen \in Gen
    BY <1>10 DEF MarkFailed, RequestIsBound, IsBound
  <2>2. CASE CompareState(h, "building", "failed", "commit_failed")
    BY <1>6, <2>1, <2>2, FailedSays DEF BatchFits
  <2>3. CASE Answer(h)
    BY <2>3, EmptyBatchFits
  <2>4. QED
    BY <1>10, <2>2, <2>3 DEF MarkFailed
<1>11. CASE CommitFailed(h)
  BY <1>11, EmptyBatchFits DEF CommitFailed
<1>12. CASE RequireActive(h) \/ ActivateAlias(h) \/ SetActive(h)
  BY <1>12, PlainStepFits DEF RequireActive, ActivateAlias, SetActive
<1>13. CASE ReadTarget(h)
  <2>1. req[h].gen \in Gen
    BY <1>13 DEF ReadTarget, RequestIsBound, IsBound
  <2>2. CASE req' = [req EXCEPT ![h].batch = CutoverBatch(h)] /\ Goto(h, "commit_active")
    <3>1. pc'[h] = "commit_active" /\ req'[h].gen = req[h].gen /\ req'[h].batch = CutoverBatch(h)
      BY <2>2
    <3>2. QED
      BY <2>1, <3>1, CutoverSays DEF BatchFits
  <2>3. CASE Raise(h, "refused") \/ Raise(h, "unavailable")
    BY <2>3, EmptyBatchFits
  <2>4. QED
    BY <1>13, <2>2, <2>3 DEF ReadTarget
<1>14. CASE CommitActive(h) \/ Confirm(h)
  BY <1>14, EmptyBatchFits, PlainStepFits DEF CommitActive, Confirm
<1>15. CASE RetireLogical(h) \/ CommitRetired(h) \/ RetireAlias(h)
  BY <1>15, EmptyBatchFits, PlainStepFits DEF RetireLogical, CommitRetired, RetireAlias
<1>16. CASE ListGenerations(h)
  <2>1. CASE Goto(h, "commit_retired") /\ req' = [req EXCEPT ![h].batch = RetirementBatch]
    <3>1. pc'[h] = "commit_retired" /\ req'[h].batch = RetirementBatch
      BY <2>1
    <3>2. QED
      BY <3>1, RetirementSays DEF BatchFits
  <2>2. CASE Answer(h)
    BY <2>2, EmptyBatchFits
  <2>3. QED
    BY <1>16, <2>1, <2>2 DEF ListGenerations
<1>17. QED
  BY <1>1, <1>2, <1>3, <1>4, <1>5, <1>7, <1>8, <1>9, <1>10, <1>11, <1>12, <1>13, <1>14, <1>15, <1>16
  DEF Begin, Continue, BeginCreate, BeginProvisionGeneration

\* A provisioning stays at the calls of a provisioning.
LEMMA MoverOpFits ==
  ASSUME TypeOK, NEW h \in Handler, OpFits(h), Begin(h) \/ Continue(h)
  PROVE  OpFits(h)'
<1> USE DEF TypeOK, Goto, Answer, Raise, Request, Idle, OpFits
<1>1. CASE BeginCreate(h) \/ BeginProvisionGeneration(h)
  BY <1>1 DEF BeginCreate, BeginProvisionGeneration, BeginProvision
<1>2. ASSUME NEW g \in Gen, BeginActivate(h, g)
      PROVE  OpFits(h)'
  BY <1>2 DEF BeginActivate
<1>3. CASE BeginRetire(h) \/ BeginRevalidate(h)
  <2>1. req'[h].op \in {"retire", "revalidate"}
    <3>1. CASE BeginRetire(h)
      BY <3>1 DEF BeginRetire
    <3>2. CASE BeginRevalidate(h)
      BY <3>2 DEF BeginRevalidate
    <3>3. QED
      BY <1>3, <3>1, <3>2
  <2>2. QED
    BY <2>1
<1>4. CASE AddGeneration(h) \/ CreateCollection(h) \/ CreatePayloadIndexes(h) \/ VerifyCollection(h)
  BY <1>4 DEF AddGeneration, CreateCollection, CreatePayloadIndexes, VerifyCollection
<1>5. CASE MarkReady(h) \/ CommitReady(h) \/ Recover(h) \/ MarkFailed(h) \/ CommitFailed(h)
  BY <1>5 DEF MarkReady, CommitReady, Recover, MarkFailed, CommitFailed, CompareState
<1>6. CASE RequireActive(h) \/ ActivateAlias(h) \/ SetActive(h) \/ ReadTarget(h)
  BY <1>6 DEF RequireActive, ActivateAlias, SetActive, ReadTarget
<1>7. CASE CommitActive(h) \/ Confirm(h) \/ RetireLogical(h) \/ Revalidate(h)
  BY <1>7 DEF CommitActive, Confirm, RetireLogical, Revalidate, CompareState
<1>8. CASE ListGenerations(h) \/ CommitRetired(h) \/ RetireAlias(h)
  BY <1>8 DEF ListGenerations, CommitRetired, RetireAlias
<1>9. QED
  BY <1>1, <1>2, <1>3, <1>4, <1>5, <1>6, <1>7, <1>8 DEF Begin, Continue

\* A generation is read back only when its activation has been written.
LEMMA ConfirmFollowsCommit ==
  ASSUME TypeOK, NEW h \in Handler, Begin(h) \/ Continue(h), pc'[h] = "confirm"
  PROVE  pc[h] = "commit_active" /\ Written(h) /\ req'[h].gen = req[h].gen
<1> USE DEF TypeOK, Goto, Answer, Raise, Request
<1>1. CASE BeginCreate(h) \/ BeginProvisionGeneration(h)
  BY <1>1 DEF BeginCreate, BeginProvisionGeneration, BeginProvision
<1>2. CASE (\E g \in Gen : BeginActivate(h, g)) \/ BeginRetire(h) \/ BeginRevalidate(h)
  BY <1>2 DEF BeginActivate, BeginRetire, BeginRevalidate
<1>3. CASE AddGeneration(h) \/ CreateCollection(h) \/ CreatePayloadIndexes(h) \/ VerifyCollection(h)
  BY <1>3 DEF AddGeneration, CreateCollection, CreatePayloadIndexes, VerifyCollection
<1>4. CASE MarkReady(h) \/ CommitReady(h) \/ Recover(h) \/ MarkFailed(h) \/ CommitFailed(h)
  BY <1>4 DEF MarkReady, CommitReady, Recover, MarkFailed, CommitFailed, CompareState
<1>5. CASE RequireActive(h) \/ ActivateAlias(h) \/ SetActive(h) \/ ReadTarget(h)
  BY <1>5 DEF RequireActive, ActivateAlias, SetActive, ReadTarget
<1>6. CASE CommitActive(h) \/ Confirm(h) \/ RetireLogical(h) \/ Revalidate(h)
  BY <1>6 DEF CommitActive, Confirm, RetireLogical, Revalidate, CompareState
<1>7. CASE ListGenerations(h) \/ CommitRetired(h) \/ RetireAlias(h)
  BY <1>7 DEF ListGenerations, CommitRetired, RetireAlias
<1>8. QED
  BY <1>1, <1>2, <1>3, <1>4, <1>5, <1>6, <1>7 DEF Begin, Continue

\* A catalog write newly under way ends an addition.
LEMMA LateAdditionEnds ==
  ASSUME TypeOK, NEW h \in Handler, Begin(h) \/ Continue(h), pc[h] = "add", ~(late' \subseteq late)
  PROVE  catalog' = catalog /\ req'[h].gen = NoGen
<1>1. AddGeneration(h)
  BY DEF Begin, Continue, BeginCreate, BeginProvisionGeneration, BeginProvision, BeginActivate,
         BeginRevalidate, BeginRetire, CreateCollection, CreatePayloadIndexes, VerifyCollection, MarkReady, CommitReady,
         Recover, MarkFailed, CommitFailed, RequireActive, ActivateAlias, SetActive, ReadTarget,
         CommitActive, Confirm, Revalidate, RetireLogical, ListGenerations, CommitRetired, RetireAlias
<1>2. QED
  BY <1>1 DEF AddGeneration, Written, WriteUnanswered, Answer, Idle, TypeOK

\* A step writes, now or late, only what its request's batch says.
LEMMA StepWrites ==
  ASSUME TypeOK, RequestIsBound, FailureInv, NEW h \in Handler, Begin(h) \/ Continue(h), NEW g \in Gen
  PROVE  /\ catalog'[g] = "building" => catalog[g] = "building" \/ (pc[h] = "add" /\ g = req[h].gen)
         /\ catalog'[g] = "ready" => catalog[g] = "ready" \/ (pc[h] = "commit_ready" /\ g = req[h].gen)
         /\ \A batch \in late' \ late :
              /\ batch[g] = "building" => pc[h] = "add" /\ g = req[h].gen
              /\ batch[g] = "ready" => pc[h] = "commit_ready" /\ g = req[h].gen
BY WriteEffect DEF Upserted, FailureInv, BatchFits, TypeOK

\* A generation nobody can begin to activate stays so while another request
\* than its own moves.
LEMMA StaysUntaken ==
  ASSUME TypeOK, RequestIsBound, FailureInv, NEW h \in Handler, Begin(h) \/ Continue(h),
         NEW g \in Gen, Untaken(g), req[h].gen # g \/ pc[h] = "add"
  PROVE  Untaken(g)'
BY StepWrites, StoreEffect DEF Untaken, Verified, TypeOK

\* The new request of a slot is not about a generation that is taken.
LEMMA NotTakenUp ==
  ASSUME TypeOK, NEW h \in Handler, Begin(h) \/ Continue(h), NEW g \in Gen, Untaken(g),
         req[h].gen # g, ~Fresh(g)
  PROVE  req'[h].gen # g
BY GenEffect, LifecycleAssumption DEF Untaken, Open

\* What a request that does not move relies on stays true.
LEMMA OthersStayRecorded ==
  ASSUME TypeOK, RequestIsBound, FailureInv, NEW h \in Handler, Begin(h) \/ Continue(h),
         NEW k \in Handler \ {h}
  PROVE  BatchFits(k)' /\ OpFits(k)' /\ AddsAlone(k)' /\ Confirmed(k)'
<1> DEFINE g == req[k].gen
<1>1. pc'[k] = pc[k] /\ req'[k] = req[k]
  BY OthersUnmoved
<1>2. BatchFits(k) /\ OpFits(k) /\ AddsAlone(k) /\ Confirmed(k) /\ AddsAlone(h)
  BY DEF FailureInv
<1>3. BatchFits(k)' /\ OpFits(k)'
  BY <1>1, <1>2 DEF BatchFits, OpFits
<1>4. ASSUME pc[k] = "add"
      PROVE  Untaken(g)' /\ \A m \in Handler \ {k} : req'[m].gen # g
  <2>1. g \in Gen /\ Untaken(g) /\ \A m \in Handler \ {k} : req[m].gen # g
    BY <1>2, <1>4 DEF AddsAlone, RequestIsBound, IsBound
  <2>2. Untaken(g)'
    <3>1. ASSUME NEW x \in Gen, x = g
          PROVE  Untaken(x)'
      BY <2>1, <3>1, StaysUntaken
    <3>2. QED
      BY <1>1, <2>1, <3>1 DEF Untaken, Verified
  <2>3. ~Fresh(g)
    BY DEF Fresh
  <2>4. req'[h].gen # g
    BY <2>1, <2>3, NotTakenUp
  <2>5. \A m \in Handler \ {h} : req'[m] = req[m]
    BY OthersUnmoved
  <2>6. QED
    BY <2>1, <2>2, <2>4, <2>5
<1>5. AddsAlone(k)'
  BY <1>1, <1>4 DEF AddsAlone, Untaken, Verified
<1>6. Confirmed(k)'
  <2>1. SUFFICES ASSUME pc[k] = "confirm" PROVE catalog'[g] # "building"
    BY <1>1 DEF Confirmed
  <2>2. g \in Gen /\ catalog[g] # "building"
    BY <1>2, <2>1 DEF Confirmed, RequestIsBound, IsBound
  <2>3. pc[h] = "add" => req[k].gen # req[h].gen
    BY <1>2 DEF AddsAlone
  <2>4. QED
    BY <2>2, <2>3, StepWrites
<1>7. QED
  BY <1>3, <1>5, <1>6

\* What the request that moved relies on is true.
LEMMA MoverStaysRecorded ==
  ASSUME TypeOK, RequestIsBound, BuildInv, FailureInv, NEW h \in Handler, Begin(h) \/ Continue(h)
  PROVE  BatchFits(h)' /\ OpFits(h)' /\ AddsAlone(h)' /\ Confirmed(h)'
<1>1. BatchFits(h) /\ OpFits(h)
  BY DEF FailureInv
<1>2. BatchFits(h)' /\ OpFits(h)'
  BY <1>1, MoverBatchFits, MoverOpFits
<1>3. ASSUME pc'[h] = "add"
      PROVE  Untaken(req[h].gen)' /\ \A k \in Handler \ {h} : req'[k].gen # req'[h].gen
  <2>1. PICK op \in {"create", "provision"} : BeginProvision(h, op)
    BY <1>3, OnlyBuildingStepsBuild
  <2>2. PICK g \in Gen :
          /\ Fresh(g)
          /\ req' = [req EXCEPT ![h] = [Idle EXCEPT !.op = op, !.gen = g, !.batch = OnePoint(g, "building")]]
    BY <2>1 DEF BeginProvision
  <2>3. req'[h].gen = g
    BY <2>2 DEF Idle, TypeOK
  <2>4. Untaken(g)'
    BY <2>1, <2>2 DEF Fresh, Untaken, Verified, BuildInv, RecordsAreBuilt, BeginProvision
  <2>5. \A k \in Handler \ {h} : req'[k] = req[k]
    BY OthersUnmoved
  <2>6. QED
    BY <2>2, <2>3, <2>4, <2>5 DEF Fresh, Untaken, Verified
<1>4. AddsAlone(h)'
  BY <1>3 DEF AddsAlone
<1>5. Confirmed(h)'
  <2>1. SUFFICES ASSUME pc'[h] = "confirm" PROVE catalog'[req'[h].gen] # "building"
    BY DEF Confirmed
  <2>2. pc[h] = "commit_active" /\ catalog' = Upserted(req[h].batch) /\ req'[h].gen = req[h].gen
    BY <2>1, ConfirmFollowsCommit DEF Written
  <2>3. req[h].gen \in Gen /\ req[h].batch[req[h].gen] = "active"
    BY <1>1, <2>2 DEF BatchFits, RequestIsBound, IsBound
  <2>4. QED
    BY <2>2, <2>3 DEF Upserted
<1>6. QED
  BY <1>2, <1>4, <1>5

\* An addition that is late is its own request's last word.
LEMMA AdditionsStayLate ==
  ASSUME TypeOK, RequestIsBound, FailureInv, NEW h \in Handler, Begin(h) \/ Continue(h)
  PROVE  LateAdds'
<1> SUFFICES ASSUME NEW batch \in late', NEW g \in Gen, batch[g] = "building"
             PROVE  Untaken(g)' /\ \A k \in Handler : req'[k].gen # g
  BY DEF LateAdds, Untaken, Verified
<1>1. \A k \in Handler \ {h} : req'[k] = req[k]
  BY OthersUnmoved
<1>2. CASE batch \in late
  <2>1. Untaken(g) /\ \A k \in Handler : req[k].gen # g
    BY <1>2 DEF FailureInv, LateAdds
  <2>2. ~Fresh(g)
    BY <1>2 DEF Fresh
  <2>3. QED
    BY <1>1, <2>1, <2>2, StaysUntaken, NotTakenUp
<1>3. CASE batch \notin late
  <2>1. pc[h] = "add" /\ g = req[h].gen
    BY <1>3, StepWrites
  <2>2. Untaken(g) /\ \A k \in Handler \ {h} : req[k].gen # g
    BY <2>1 DEF FailureInv, AddsAlone
  <2>3. req'[h].gen = NoGen
    BY <1>3, <2>1, LateAdditionEnds
  <2>4. QED
    BY <1>1, <2>1, <2>2, <2>3, StaysUntaken, LifecycleAssumption
<1>4. QED
  BY <1>2, <1>3

LEMMA FailureInvInitially == Init => FailureInv
BY EmptySays DEF Init, FailureInv, LateAdds, BatchFits, OpFits, AddsAlone, Confirmed, Idle

\* A batch that lands late is about generations no request works on, or says
\* neither building nor ready.
LEMMA LateWritesStayRecorded ==
  ASSUME TypeOK, RequestIsBound, FailureInv, LateWriteLands
  PROVE  FailureInv'
<1>1. PICK batch \in late : catalog' = Upserted(batch) /\ late' = late \ {batch}
  BY DEF LateWriteLands
<1>2. UNCHANGED <<pc, req>>
  BY DEF LateWriteLands
<1>3. \A g \in Gen : Untaken(g) => Untaken(g)'
  BY <1>1 DEF Untaken, Verified, Upserted, LateWriteLands
<1>4. LateAdds'
  BY <1>1, <1>2, <1>3 DEF FailureInv, LateAdds, Untaken, Verified
<1>5. ASSUME NEW h \in Handler
      PROVE  BatchFits(h)' /\ OpFits(h)' /\ AddsAlone(h)' /\ Confirmed(h)'
  <2>1. BatchFits(h) /\ OpFits(h) /\ AddsAlone(h) /\ Confirmed(h)
    BY DEF FailureInv
  <2>2. pc[h] \in {"add", "confirm"} => req[h].gen \in Gen
    BY DEF RequestIsBound, IsBound
  <2>3. BatchFits(h)' /\ OpFits(h)'
    BY <1>2, <2>1 DEF BatchFits, OpFits
  <2>4. AddsAlone(h)'
    BY <1>2, <1>3, <2>1, <2>2 DEF AddsAlone, Untaken, Verified
  <2>5. pc[h] = "confirm" => batch[req[h].gen] # "building"
    BY <2>2 DEF FailureInv, LateAdds
  <2>6. Confirmed(h)'
    BY <1>1, <1>2, <2>1, <2>2, <2>5 DEF Confirmed, Upserted
  <2>7. QED
    BY <2>3, <2>4, <2>6
<1>6. QED
  BY <1>4, <1>5 DEF FailureInv

LEMMA CrashesStayRecorded ==
  ASSUME TypeOK, RequestIsBound, FailureInv, NEW p \in Replica, Crash(p)
  PROVE  FailureInv'
<1>1. UNCHANGED <<catalog, late>> /\ \A g \in Gen : Untaken(g) <=> Untaken(g)'
  BY DEF Crash, Untaken, Verified
<1>2. \A h \in Handler : \/ Home[h] = p /\ pc'[h] = "idle" /\ req'[h] = Idle
                         \/ pc'[h] = pc[h] /\ req'[h] = req[h]
  BY DEF Crash
<1>3. \A h \in Handler : req'[h].gen \in {req[h].gen, NoGen}
  BY <1>2 DEF Idle
<1>4. LateAdds'
  BY <1>1, <1>3, LifecycleAssumption DEF FailureInv, LateAdds, Untaken, Verified
<1>5. ASSUME NEW h \in Handler
      PROVE  BatchFits(h)' /\ OpFits(h)' /\ AddsAlone(h)' /\ Confirmed(h)'
  <2>1. BatchFits(h) /\ OpFits(h) /\ AddsAlone(h) /\ Confirmed(h)
    BY DEF FailureInv
  <2>2. CASE pc'[h] = "idle" /\ req'[h] = Idle
    BY <2>2, EmptySays DEF BatchFits, OpFits, AddsAlone, Confirmed, Idle
  <2>3. CASE pc'[h] = pc[h] /\ req'[h] = req[h]
    <3>1. BatchFits(h)' /\ OpFits(h)' /\ Confirmed(h)'
      BY <1>1, <2>1, <2>3 DEF BatchFits, OpFits, Confirmed
    <3>2. pc[h] = "add" => req[h].gen \in Gen
      BY DEF RequestIsBound, IsBound
    <3>3. AddsAlone(h)'
      BY <1>1, <1>3, <2>1, <2>3, <3>2, LifecycleAssumption DEF AddsAlone, Untaken, Verified
    <3>4. QED
      BY <3>1, <3>3
  <2>4. QED
    BY <1>2, <2>2, <2>3
<1>6. QED
  BY <1>4, <1>5 DEF FailureInv

LEMMA FailureInvStep == TypeOK /\ RequestIsBound /\ BuildInv /\ FailureInv /\ [Next]_vars => FailureInv'
<1> SUFFICES ASSUME TypeOK, RequestIsBound, BuildInv, FailureInv, [Next]_vars
             PROVE  FailureInv'
  OBVIOUS
<1>1. ASSUME NEW h \in Handler, Begin(h) \/ Continue(h)
      PROVE  FailureInv'
  <2>1. ASSUME NEW k \in Handler
        PROVE  BatchFits(k)' /\ OpFits(k)' /\ AddsAlone(k)' /\ Confirmed(k)'
    <3>1. CASE k = h
      BY <1>1, <3>1, MoverStaysRecorded
    <3>2. CASE k # h
      BY <1>1, <3>2, OthersStayRecorded
    <3>3. QED
      BY <3>1, <3>2
  <2>2. LateAdds'
    BY <1>1, AdditionsStayLate
  <2>3. QED
    BY <2>1, <2>2 DEF FailureInv
<1>2. CASE UNCHANGED vars
  BY <1>2 DEF vars, FailureInv, LateAdds, BatchFits, OpFits, AddsAlone, Confirmed, Untaken, Verified
<1>3. QED
  BY <1>1, <1>2, LateWritesStayRecorded, CrashesStayRecorded DEF Next

\* How a provisioning is answered: after a failed call to the catalog, with the
\* generation read in another state than building, or after its own write.
LEMMA LastStep ==
  ASSUME TypeOK, NEW h \in Handler, Continue(h), OpFits(h), pc'[h] = "idle",
         req[h].op \in {"create", "provision"}
  PROVE  \/ "catalog" \in Unreliable /\ pc[h] \in {"add", "recover", "mark_failed", "commit_failed"}
         \/ pc[h] \in {"recover", "mark_failed"} /\ catalog[req[h].gen] # "building" /\ UNCHANGED catalog
         \/ pc[h] \in {"commit_ready", "commit_failed"} /\ Written(h)
         \/ pc[h] = "confirm" /\ UNCHANGED catalog
<1> USE DEF TypeOK, Goto, Answer, Raise, OpFits
<1>1. CASE AddGeneration(h) \/ CreateCollection(h) \/ CreatePayloadIndexes(h) \/ VerifyCollection(h)
  BY <1>1 DEF AddGeneration, CreateCollection, CreatePayloadIndexes, VerifyCollection, WriteUnanswered
<1>2. CASE MarkReady(h) \/ CommitReady(h)
  BY <1>2 DEF MarkReady, CommitReady, CompareState
<1>3. CASE Recover(h)
  BY <1>3 DEF Recover
<1>4. CASE MarkFailed(h) \/ CommitFailed(h)
  BY <1>4 DEF MarkFailed, CommitFailed, CompareState, StateChanged, CatalogReadFails, WriteUnanswered
<1>5. CASE ActivateAlias(h) \/ SetActive(h) \/ ReadTarget(h)
  BY <1>5 DEF ActivateAlias, SetActive, ReadTarget
<1>6. CASE CommitActive(h) \/ Confirm(h)
  BY <1>6 DEF CommitActive, Confirm
<1>7. CASE RequireActive(h) \/ Revalidate(h) \/ RetireLogical(h) \/ ListGenerations(h) \/ CommitRetired(h)
            \/ RetireAlias(h)
  BY <1>7 DEF RequireActive, Revalidate, RetireLogical, ListGenerations, CommitRetired, RetireAlias
<1>8. QED
  BY <1>1, <1>2, <1>3, <1>4, <1>5, <1>6, <1>7 DEF Continue

\* A provisioning that fails records its generation as failed, unless the very
\* calls that tell the catalog fail or its replica crashes: for any number of
\* replicas and requests, and with writes that land late.
THEOREM LifecycleFailures == Spec => FailuresAreRecorded
<1> DEFINE Step == \A h \in Handler :
                     (req[h].op \in {"create", "provision"} /\ pc'[h] = "idle" /\ catalog'[req[h].gen] = "building")
                       => \/ "catalog" \in Unreliable /\ pc[h] \in {"add", "recover", "mark_failed", "commit_failed"}
                          \/ \E p \in Replica : Crash(p)
<1>1. ASSUME TypeOK, RequestIsBound, FailureInv, [Next]_vars
      PROVE  [Step]_vars
  <2> DEFINE Excused(h) == \/ "catalog" \in Unreliable /\ pc[h] \in {"add", "recover", "mark_failed", "commit_failed"}
                           \/ \E p \in Replica : Crash(p)
  <2> SUFFICES ASSUME Next, NEW h \in Handler, req[h].op \in {"create", "provision"}, pc'[h] = "idle",
                      catalog'[req[h].gen] = "building"
               PROVE  Excused(h)
    BY <1>1
  <2>1. BatchFits(h) /\ OpFits(h) /\ Confirmed(h) /\ pc[h] # "idle"
    BY <1>1 DEF FailureInv, OpFits
  <2>2. ASSUME NEW k \in Handler, Begin(k) \/ Continue(k)
        PROVE  Excused(h)
    <3>1. k = h
      BY <1>1, <2>1, <2>2, OthersUnmoved
    <3>2. Continue(h)
      BY <2>1, <2>2, <3>1 DEF Begin, BeginCreate, BeginProvisionGeneration, BeginProvision, BeginActivate,
                              BeginRevalidate, BeginRetire
    <3>3. req[h].gen \in Gen
      BY <1>1, <2>1 DEF RequestIsBound, IsBound, OpFits
    <3>4. CASE pc[h] \in {"commit_ready", "commit_failed"} /\ Written(h)
      BY <1>1, <2>1, <3>3, <3>4 DEF BatchFits, Written, Upserted
    <3>5. CASE pc[h] = "confirm" /\ UNCHANGED catalog
      BY <2>1, <3>5 DEF Confirmed
    <3>6. QED
      BY <1>1, <2>1, <3>2, <3>4, <3>5, LastStep
  <2>3. ~LateWriteLands
    BY <2>1 DEF LateWriteLands
  <2>4. QED
    BY <2>2, <2>3 DEF Next
<1>2. QED
  BY <1>1, InitiallyTyped, TypeStep, BuildInvInitially, BuildInvStep, FailureInvInitially, FailureInvStep, PTL
  DEF Spec, FailuresAreRecorded

=============================================================================
