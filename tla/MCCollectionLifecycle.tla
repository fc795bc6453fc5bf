----------------------- MODULE MCCollectionLifecycle -----------------------
(* CollectionLifecycle on small instances.                                 *)
EXTENDS CollectionLifecycle, TLC

\* The handlers spread over all replicas.
MCHome == CHOOSE f \in [Handler -> Replica] : \A p \in Replica : \E h \in Handler : f[h] = p

\* Sound for the safety runs with one replica: no value is singled out.
MCSymmetry == Permutations(Gen) \cup Permutations(Handler)
=============================================================================
