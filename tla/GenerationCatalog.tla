------------------------- MODULE GenerationCatalog -------------------------
(***************************************************************************)
(* What the collection catalog promises about ONE logical collection: its  *)
(* generations move through building, ready, active, retired and failed in *)
(* atomic compare-and-set steps, and at most one of them is active.        *)
(*                                                                         *)
(* This is the abstract specification of the CollectionCatalog port.       *)
(* CollectionLifecycle, in which every await is a step of its own, is      *)
(* checked and proved to implement it.                                     *)
(***************************************************************************)

CONSTANT Generation   \* the generation ids of the logical collection

VARIABLE catalog      \* the state recorded for each generation

\* CollectionState, and "absent" for an id without a catalog record.
State == {"absent", "building", "ready", "active", "retired", "failed"}

Active == {g \in Generation : catalog[g] = "active"}

Recorded == {g \in Generation : catalog[g] # "absent"}

CatalogInit == catalog = [g \in Generation |-> "absent"]

----------------------------------------------------------------------------
\* A new generation is recorded as building, under an id never seen before.
AddGeneration(g) ==
  /\ catalog[g] = "absent"
  /\ catalog' = [catalog EXCEPT ![g] = "building"]

\* update_state: a compare-and-set of one record.  The port takes any pair of
\* states; the three below are the pairs it is used with.
UpdateState(g, expected, new) ==
  /\ catalog[g] = expected
  /\ catalog' = [catalog EXCEPT ![g] = new]

MarkReady(g) == UpdateState(g, "building", "ready")

MarkFailed(g) == UpdateState(g, "building", "failed")

\* The first step of a rollback: a retired generation may be cut over to again.
Revalidate(g) == UpdateState(g, "retired", "ready")

\* A ready target replaces exactly the generations that are active: the one
\* the caller named, or none when the caller expected none.
SetActive(g) ==
  /\ catalog[g] = "ready"
  /\ catalog' = [x \in Generation |-> CASE x = g -> "active"
                                        [] x # g /\ catalog[x] = "active" -> "retired"
                                        [] OTHER -> catalog[x]]

\* Retirement covers the generations its caller listed: every one on record,
\* except that one still building may have been added since.  A failed
\* generation stays failed.
Retire(listed) ==
  /\ Active # {}
  /\ {g \in Recorded : catalog[g] # "building"} \subseteq listed
  /\ catalog' = [g \in Generation |->
                   IF g \in listed /\ catalog[g] # "failed" THEN "retired" ELSE catalog[g]]

CatalogNext ==
  \/ \E g \in Generation : AddGeneration(g)
  \/ \E g \in Generation : MarkReady(g)
  \/ \E g \in Generation : MarkFailed(g)
  \/ \E g \in Generation : Revalidate(g)
  \/ \E g \in Generation : SetActive(g)
  \/ \E listed \in SUBSET Recorded : Retire(listed)

CatalogSpec == CatalogInit /\ [][CatalogNext]_catalog

----------------------------------------------------------------------------
CatalogTypeOK == catalog \in [Generation -> State]

\* At most one generation of a logical collection is active at a time: the
\* claim get_active relies on when it reports a conflict on a second record.
AtMostOneActive == \A g, k \in Active : g = k
=============================================================================
