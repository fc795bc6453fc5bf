------------------------ MODULE MCDocumentIngestion ------------------------
(* DocumentIngestion on small instances.                                   *)
EXTENDS DocumentIngestion, TLC

CONSTANTS v1, g1

\* One generation is served, another may be added.
MCStart == [g \in Gen |-> IF g = g1 THEN "active" ELSE "absent"]

\* A long and a short text: one version has chunks the other lacks.
MCChunks == [v \in Version |-> IF v = v1 THEN 2 ELSE 1]

\* Sound for the safety runs: documents and handlers are interchangeable.
MCSymmetry == Permutations(Document) \cup Permutations(Handler)
=============================================================================
