------------------------- MODULE MCServedCollection -------------------------
(* ServedCollection on a small instance.                                   *)
EXTENDS ServedCollection, TLC

MCHome == [h \in Handler |-> CHOOSE p \in Replica : TRUE]

\* Texts of one chunk: what matters here is the collection they go to.
MCChunks == [v \in Version |-> 1]

MCSymmetry == Permutations(Gen) \cup Permutations(Handler)
=============================================================================
