--------------------------- MODULE EmbeddingCalls ---------------------------
(***************************************************************************)
(* How RagService.ingest obtains one vector for each chunk: batch after    *)
(* batch through HttpEmbeddingGateway.embed, which posts a batch, retries  *)
(* transient failures and maps the items of the answer back to the chunks  *)
(* by their index.                                                         *)
(*                                                                         *)
(* A document is the sequence of the sizes of its chunks, and a vector is  *)
(* the number of the chunk it was computed from and how many of its tokens *)
(* it reflects.  The service that answers is the Embedding API of this     *)
(* repository, as EmbeddingService describes it, or any other              *)
(* implementation of its interface: of that, all that is assumed is that   *)
(* an item carries the vector of the input its index names.  Time is       *)
(* counted in ticks.                                                       *)
(***************************************************************************)
EXTENDS EmbeddingService

CONSTANTS
  Document,     \* the documents, each as the sizes of its chunks
  BatchSize,    \* max_embedding_batch_items
  MaxAttempts,  \* how often the gateway posts a batch at most
  Deadline,     \* the deadline of the request, given to each post as its timeout
  Waits,        \* how often a post waits at most: for a connection, to send, for a
                \* part of the answer; the timeout limits each wait, not their sum
  Backoff,      \* the pause after the first failure
  Duration      \* how long a post may take

\* The size of a chunk.
Size == [bytes : Nat, tokens : Nat]

ASSUME EmbeddingAssumption ==
  /\ Document \subseteq Seq(Size) \ {<<>>}
  /\ {BatchSize, MaxAttempts} \subseteq Nat \ {0}
  /\ {Deadline, Waits, Backoff} \subseteq Nat
  /\ Duration \subseteq 0 .. (Waits * Deadline)

VARIABLES
  document,     \* the document that is ingested
  service,      \* who answers
  compatible,   \* has the collection the revision, dimension and normalization the
                \* gateway is configured with?
  pc,           \* what the request does next, or how it ended
  vectors,      \* the vectors obtained so far
  attempt,      \* the posts of the current batch that failed
  posts,        \* all posts of the request
  elapsed       \* the time since the request began to embed

vars == <<document, service, compatible, pc, vectors, attempt, posts, elapsed>>

\* The Embedding API, configured like RAG Core or with another model or another
\* dimension, or another implementation of its interface.
Service == {"alike", "other_model", "other_dimension", "foreign"}

Chunks == Len(document)

Vector == [text : 1 .. Chunks, tokens : Nat]

\* The vector of a whole chunk.
Whole(chunk) == [text |-> chunk, tokens |-> document[chunk].tokens]

\* A vector of the wrong length or with a value that is not finite.
Malformed == [text |-> 0, tokens |-> 0]

\* How an embedding ends: with all vectors, with EmbeddingUnavailableError or
\* with EmbeddingContractError.
Ended == {"embedded", "unavailable", "mismatch"}

Init ==
  /\ document \in Document
  /\ service \in Service
  /\ compatible \in BOOLEAN
  /\ pc = "post"
  /\ vectors = <<>>
  /\ attempt = 0
  /\ posts = 0
  /\ elapsed = 0

----------------------------------------------------------------------------
\* The number of chunks in the current batch; its input i is chunk
\* Len(vectors) + i + 1.
Count == IF Len(vectors) + BatchSize <= Chunks THEN BatchSize ELSE Chunks - Len(vectors)

\* The texts of the batch.
Inputs ==
  [i \in 1 .. Count |->
     [text |-> Len(vectors) + i,
      bytes |-> document[Len(vectors) + i].bytes,
      tokens |-> document[Len(vectors) + i].tokens]]

\* An item of a foreign answer: a vector for the input it names, if there is one.
ForeignItem ==
  {[index |-> i, vector |-> Malformed] : i \in -1 .. Count}
    \cup {[index |-> i, vector |-> Whole(Len(vectors) + i + 1)] : i \in 0 .. (Count - 1)}

\* What an answer with status 200 may contain.  Of a foreign service: items in
\* any number and order, with or without the model and the dimension that were
\* asked for.
Answer ==
  CASE service = "foreign" ->
         [expected : BOOLEAN, items : UNION {[1 .. n -> ForeignItem] : n \in 0 .. (Count + 1)}]
    [] service \in {"alike", "other_dimension"} /\ ~Refuses(Inputs) ->
         {[expected |-> service = "alike", items |-> Response(Inputs)]}
    [] OTHER -> {}

\* A status other than 200 below 500: the model is not the one the service
\* has, or the batch exceeds a limit.
Refused == service \in {"other_model", "foreign"} \/ Refuses(Inputs)

\* _parse: as many items as inputs, each with a valid vector and an index no
\* other item has, and in the end no input without a vector.
Accepts(answer) ==
  /\ answer.expected
  /\ Len(answer.items) = Count
  /\ \A k \in 1 .. Count : answer.items[k].index \in 0 .. (Count - 1) /\ answer.items[k].vector # Malformed
  /\ \A j, k \in 1 .. Count : j # k => answer.items[j].index # answer.items[k].index
  /\ \A i \in 0 .. (Count - 1) : \E k \in 1 .. Count : answer.items[k].index = i

\* Slip: the items are taken in the order they arrive in.
InArrivalOrder(answer) == [i \in 1 .. Count |-> answer.items[i].vector]

\* The vectors in the order of the inputs.
Ordered(answer) ==
  [i \in 1 .. Count |->
     answer.items[CHOOSE k \in 1 .. Count : answer.items[k].index = i - 1].vector]

Spend(ticks) == posts' = posts + 1 /\ elapsed' = elapsed + ticks

\* Slip: the last attempt is not counted as one.
RetryOnceMore(ticks) ==
  /\ Spend(ticks)
  /\ IF attempt = MaxAttempts
     THEN pc' = "unavailable" /\ UNCHANGED attempt
     ELSE pc' = "pause" /\ UNCHANGED attempt

\* A failure that may be transient: another attempt, if one is left.
Retry(ticks) ==
  /\ Spend(ticks)
  /\ IF attempt + 1 = MaxAttempts
     THEN pc' = "unavailable"
     ELSE pc' = "pause"
  /\ UNCHANGED attempt

\* The post fails to connect, as while the service starts, is answered with a
\* status of 500 or more, as when its engine fails, or times out.
PostFails ==
  /\ pc = "post"
  /\ \E ticks \in Duration : Retry(ticks)
  /\ UNCHANGED <<document, service, compatible, vectors>>

\* Any other status than 200 is final.
PostRefused ==
  /\ pc = "post"
  /\ Refused
  /\ \E ticks \in Duration : Spend(ticks)
  /\ pc' = "unavailable"
  /\ UNCHANGED <<document, service, compatible, vectors, attempt>>

\* The next batch, with attempts of its own, or the end.
Continue ==
  /\ pc' = IF Len(vectors') < Chunks THEN "post" ELSE "embedded"
  /\ attempt' = 0

\* An answer that is accepted, for a contract that agrees with the gateway's
\* configuration, adds the vectors of the batch.
PostAnswered ==
  /\ pc = "post"
  /\ \E ticks \in Duration : Spend(ticks)
  /\ \E answer \in Answer :
       IF Accepts(answer) /\ compatible
       THEN vectors' = vectors \o Ordered(answer) /\ Continue
       ELSE pc' = "mismatch" /\ UNCHANGED <<vectors, attempt>>
  /\ UNCHANGED <<document, service, compatible>>

\* Slip: the pause is not capped.
PausesUncapped == {Backoff * 2 ^ attempt}

\* The pause after the failed attempt doubles, up to a tenth of the deadline.
Pauses ==
  LET doubled == Backoff * 2 ^ attempt
      cap == Deadline \div 10 IN
  {ticks \in 0 .. cap : ticks = doubled \/ (ticks = cap /\ doubled > cap)}

Pause ==
  /\ pc = "pause"
  /\ pc' = "post"
  /\ attempt' = attempt + 1
  /\ \E ticks \in Pauses : elapsed' = elapsed + ticks
  /\ UNCHANGED <<document, service, compatible, vectors, posts>>

Next == PostFails \/ PostRefused \/ PostAnswered \/ Pause

Spec == Init /\ [][Next]_vars

----------------------------------------------------------------------------
TypeOK ==
  /\ document \in Document
  /\ service \in Service
  /\ compatible \in BOOLEAN
  /\ pc \in {"post", "pause"} \cup Ended
  /\ vectors \in Seq(Vector)
  /\ attempt \in 0 .. (MaxAttempts - 1)
  /\ posts \in Nat
  /\ elapsed \in Nat

\* Every chunk gets the vector of its own whole text, whatever the order of the
\* items in the answers, however the chunks are batched and whichever posts were
\* repeated, and never of the part of it that the model could take; and nothing
\* is stored unless every chunk has one, for the contract of the collection.
VectorsBelongToChunks ==
  /\ \A i \in 1 .. Len(vectors) : vectors[i] = Whole(i)
  /\ pc = "embedded" => compatible /\ Len(vectors) = Chunks

\* The two services agree on their interface: an answer of the Embedding API is
\* never taken for a violation of the contract if it is configured like RAG Core
\* and RAG Core like the collection.
OwnServiceIsAccepted == service = "alike" /\ compatible => pc # "mismatch"

\* The batches that are finished or under way.
Batches == IF pc = "embedded" THEN (Chunks + BatchSize - 1) \div BatchSize ELSE Len(vectors) \div BatchSize + 1

\* Retries multiply neither with the failures of other batches nor beyond
\* MaxAttempts posts for a batch.
RetriesAreBounded == posts <= Batches * MaxAttempts

\* The time of the posts and pauses of a batch all of whose posts fail but the last.
BatchTime == MaxAttempts * Waits * Deadline + (MaxAttempts - 1) * (Deadline \div 10)

\* A document is embedded in a time that its size, the deadline and the number
\* of attempts bound, pauses included (the bound is not the deadline itself:
\* every wait of every post is given all of it).
TimeIsBounded == elapsed <= Batches * BatchTime

\* How many posts of the current batch have been made, and how many of them
\* have been paused after.
Made == IF pc = "post" THEN attempt ELSE attempt + 1

\* What q batches that are finished and the one under way may have cost.
Budget(q) ==
  /\ Len(vectors) = q * BatchSize
  /\ posts <= q * MaxAttempts + Made
  /\ elapsed <= q * BatchTime + Made * (Waits * Deadline) + attempt * (Deadline \div 10)

\* What the q batches of the whole document may have cost.
FinalBudget(q) ==
  /\ q * BatchSize \in Chunks .. (Chunks + BatchSize - 1)
  /\ posts <= q * MaxAttempts
  /\ elapsed <= q * BatchTime

\* The invariant behind RetriesAreBounded and TimeIsBounded: only the last batch
\* of a document may be short.
WithinBudget == \E q \in 0 .. Chunks : IF pc = "embedded" THEN FinalBudget(q) ELSE Budget(q)

\* The inductive invariant behind all of them.
IInv ==
  /\ TypeOK
  /\ VectorsBelongToChunks
  /\ OwnServiceIsAccepted
  /\ pc \in {"post", "pause"} => Len(vectors) < Chunks
  /\ pc = "pause" => attempt + 1 < MaxAttempts
  /\ vectors # <<>> => compatible
  /\ WithinBudget
=============================================================================
