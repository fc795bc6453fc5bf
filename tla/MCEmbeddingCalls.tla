-------------------------- MODULE MCEmbeddingCalls --------------------------
(* EmbeddingCalls on small documents.                                      *)
EXTENDS EmbeddingCalls

CONSTANT Lengths

\* Documents of small chunks with one that may be larger, at the end of which
\* batches are full or not: within every limit, beyond the limit of a batch,
\* and beyond the limit of a single input, in bytes or in tokens.
MCDocument ==
  {[i \in 1 .. n |-> IF i = large THEN size ELSE [bytes |-> 2, tokens |-> 1]] :
     n \in Lengths, large \in {1, 4},
     size \in {[bytes |-> 2, tokens |-> 1], [bytes |-> 4, tokens |-> 2],
               [bytes |-> 5, tokens |-> 1], [bytes |-> 6, tokens |-> 1], [bytes |-> 4, tokens |-> 3],
               [bytes |-> 2, tokens |-> 3]}}
=============================================================================
