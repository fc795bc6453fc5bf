-------------------------- MODULE EmbeddingService --------------------------
(***************************************************************************)
(* The Embedding API: what EmbedTexts and SentenceTransformerEngine make   *)
(* of one request.  The service keeps no state between requests, and only  *)
(* serves once its engine is loaded and warmed up, so a request is one     *)
(* step.                                                                   *)
(*                                                                         *)
(* An input has a size in bytes and in tokens, [text, bytes, tokens]; a    *)
(* vector is the text it was computed from and how many of its tokens it   *)
(* reflects, [text, tokens].  An input is never blank here: a chunk is     *)
(* not, nor is a query.                                                    *)
(***************************************************************************)
EXTENDS Integers, Sequences, Functions

CONSTANTS
  MaxBatchItems, MaxInputBytes, MaxTotalInputBytes, MaxBatchTokens,   \* settings
  MaxTokensPerInput                                                   \* of the model

ASSUME EmbeddingServiceAssumption ==
  {MaxBatchItems, MaxInputBytes, MaxTotalInputBytes, MaxBatchTokens, MaxTokensPerInput} \subseteq Nat

Total(sizes) == FoldFunction(+, 0, sizes)

Bytes(inputs) == [i \in DOMAIN inputs |-> inputs[i].bytes]

Tokens(inputs) == [i \in DOMAIN inputs |-> inputs[i].tokens]

\* 422 and 413 of the application: no or too many inputs, or too many bytes.
ExceedsApplicationLimits(inputs) ==
  \/ Len(inputs) \notin 1 .. MaxBatchItems
  \/ \E i \in DOMAIN inputs : inputs[i].bytes > MaxInputBytes
  \/ Total(Bytes(inputs)) > MaxTotalInputBytes

\* Slip: the model's own limit is left to the model.
ExceedsBatchLimitOnly(inputs) == Total(Tokens(inputs)) > MaxBatchTokens

\* 413 of the engine: an input is never cut to what the model can take.
ExceedsEngineLimits(inputs) ==
  \/ \E i \in DOMAIN inputs : inputs[i].tokens > MaxTokensPerInput
  \/ Total(Tokens(inputs)) > MaxBatchTokens

Refuses(inputs) == ExceedsApplicationLimits(inputs) \/ ExceedsEngineLimits(inputs)

\* The model reads the first tokens of a text, as many as it can take.
Encoded(input) ==
  [text |-> input.text,
   tokens |-> IF input.tokens > MaxTokensPerInput THEN MaxTokensPerInput ELSE input.tokens]

Encodings(inputs) == [i \in DOMAIN inputs |-> Encoded(inputs[i])]

\* Slip: the items are numbered from one.
NumberedFromOne(vectors) == [i \in DOMAIN vectors |-> [index |-> i, vector |-> vectors[i]]]

\* The items of the response, numbered from zero in the order of the inputs.
Items(vectors) == [i \in DOMAIN vectors |-> [index |-> i - 1, vector |-> vectors[i]]]

\* The items of the response to inputs that are not refused, unless the engine
\* fails or its output does not pass the check, which is answered 503 or 500.
Response(inputs) == Items(Encodings(inputs))
=============================================================================
