------------------------ MODULE EmbeddingCallsProofs ------------------------
(* Theorems about the embedding of a document, for any number of chunks,   *)
(* batch size and number of attempts.                                      *)
EXTENDS EmbeddingCalls, SequenceTheorems, TLAPS

\* The constants as numbers.
LEMMA ConstantsAreNumbers ==
  /\ BatchSize \in Nat /\ MaxAttempts \in Nat
  /\ BatchSize > 0 /\ MaxAttempts > 0
  /\ Deadline \in Nat /\ Backoff \in Nat /\ Duration \subseteq Nat
  BY EmbeddingAssumption

\* A document has a chunk, and each of its chunks has a size.
LEMMA DocumentHasChunks ==
  ASSUME document \in Document
  PROVE  /\ Chunks \in Nat /\ Chunks > 0
         /\ \A c \in 1 .. Chunks : document[c].tokens \in Nat /\ Whole(c) \in Vector
<1>1. document \in Seq(Size) /\ document # <<>>
  BY EmbeddingAssumption
<1>2. Chunks \in Nat /\ Chunks > 0 /\ \A c \in 1 .. Chunks : document[c] \in Size
  BY <1>1 DEF Chunks
<1>3. QED
  BY <1>2 DEF Whole, Size, Vector

\* A batch has a chunk, and the batches do not exceed the document.
LEMMA BatchIsPartOfDocument ==
  ASSUME TypeOK, Len(vectors) < Chunks
  PROVE  Len(vectors) \in Nat /\ Count \in Nat /\ Count > 0 /\ Len(vectors) + Count <= Chunks
<1>1. Len(vectors) \in Nat /\ Chunks \in Nat
  BY DocumentHasChunks DEF TypeOK
<1>2. QED
  BY <1>1, ConstantsAreNumbers DEF Count

\* What the Embedding API answers: item k has the index k - 1 and the vector of
\* the whole text of input k, as no input that it does not refuse is cut.
LEMMA OwnItems ==
  ASSUME TypeOK, Len(vectors) < Chunks, service # "foreign", NEW answer \in Answer
  PROVE  /\ answer.expected <=> service = "alike"
         /\ Len(answer.items) = Count
         /\ \A k \in 1 .. Count : /\ answer.items[k].index = k - 1
                                /\ answer.items[k].vector = Whole(Len(vectors) + k)
<1>1. /\ Len(vectors) \in Nat /\ Count \in Nat /\ Count > 0 /\ Len(vectors) + Count <= Chunks
      /\ Chunks \in Nat
      /\ \A c \in 1 .. Chunks : document[c].tokens \in Nat
  BY BatchIsPartOfDocument, DocumentHasChunks DEF TypeOK
<1>2. ~Refuses(Inputs) /\ answer = [expected |-> service = "alike", items |-> Response(Inputs)]
  BY DEF Answer
<1>3. /\ answer.items = Response(Inputs)
      /\ answer.expected <=> service = "alike"
  BY <1>2
<1>4. /\ DOMAIN Inputs = 1 .. Count
      /\ \A k \in 1 .. Count : /\ Inputs[k].text = Len(vectors) + k
                             /\ Inputs[k].tokens = document[Len(vectors) + k].tokens
  BY DEF Inputs
<1>5. \A k \in 1 .. Count : ~(Inputs[k].tokens > MaxTokensPerInput)
  BY <1>2, <1>4 DEF Refuses, ExceedsEngineLimits
<1>6. \A k \in 1 .. Count : Encoded(Inputs[k]) = Whole(Len(vectors) + k)
  BY <1>4, <1>5 DEF Encoded, Whole
<1>7. Encodings(Inputs) = [k \in 1 .. Count |-> Whole(Len(vectors) + k)]
  BY <1>4, <1>6 DEF Encodings
<1> DEFINE items == [k \in 1 .. Count |-> [index |-> k - 1, vector |-> Whole(Len(vectors) + k)]]
<1>8. Response(Inputs) = items
  BY <1>7 DEF Response, Items
<1>9. Len(items) = Count
  BY <1>1
<1>10. \A k \in 1 .. Count : items[k].index = k - 1 /\ items[k].vector = Whole(Len(vectors) + k)
  OBVIOUS
<1> HIDE DEF items
<1>11. QED
  BY <1>3, <1>8, <1>9, <1>10

\* RAG Core and the Embedding API agree: an answer of a service configured alike
\* passes the check of the gateway.
LEMMA OwnAnswerAccepted ==
  ASSUME TypeOK, Len(vectors) < Chunks, service = "alike", NEW answer \in Answer
  PROVE  Accepts(answer)
<1>1. Len(vectors) \in Nat /\ Count \in Nat /\ Count > 0
  BY BatchIsPartOfDocument
<1>2. /\ answer.expected
      /\ Len(answer.items) = Count
      /\ \A k \in 1 .. Count : /\ answer.items[k].index = k - 1
                             /\ answer.items[k].vector = Whole(Len(vectors) + k)
  BY OwnItems
<1>3. \A k \in 1 .. Count : Whole(Len(vectors) + k) # Malformed
  <2>1. \A k \in 1 .. Count : Len(vectors) + k # 0
    BY <1>1
  <2>2. QED
    BY <2>1 DEF Whole, Malformed
<1>4. \A k \in 1 .. Count : answer.items[k].index \in 0 .. (Count - 1)
  BY <1>1, <1>2
<1>5. \A j, k \in 1 .. Count : j # k => answer.items[j].index # answer.items[k].index
  BY <1>1, <1>2
<1>6. ASSUME NEW i \in 0 .. (Count - 1)
      PROVE  \E k \in 1 .. Count : answer.items[k].index = i
  <2>1. i + 1 \in 1 .. Count /\ (i + 1) - 1 = i
    BY <1>1
  <2>2. QED
    BY <1>2, <2>1
<1>7. \A k \in 1 .. Count : answer.items[k].index \in 0 .. (Count - 1) /\ answer.items[k].vector # Malformed
  BY <1>2, <1>3, <1>4
<1>8. answer.expected /\ Len(answer.items) = Count
  BY <1>2
<1>9. QED
  BY <1>5, <1>6, <1>7, <1>8, Zenon DEF Accepts

\* An answer that is accepted is put into the order of the inputs.
LEMMA AnswerIsOrdered ==
  ASSUME TypeOK, Len(vectors) < Chunks, NEW answer \in Answer, Accepts(answer),
         NEW i \in 1 .. Count
  PROVE  Ordered(answer)[i] = Whole(Len(vectors) + i)
<1>1. Len(vectors) \in Nat /\ Count \in Nat /\ Count > 0
  BY BatchIsPartOfDocument
<1> DEFINE named == CHOOSE k \in 1 .. Count : answer.items[k].index = i - 1
<1>2. \E k \in 1 .. Count : answer.items[k].index = i - 1
  <2>1. i - 1 \in 0 .. (Count - 1)
    BY <1>1
  <2>2. \A j \in 0 .. (Count - 1) : \E k \in 1 .. Count : answer.items[k].index = j
    BY Zenon DEF Accepts
  <2>3. QED
    BY <2>1, <2>2
<1>3. named \in 1 .. Count /\ answer.items[named].index = i - 1
  BY <1>2
<1>4. Ordered(answer)[i] = answer.items[named].vector
  BY DEF Ordered
<1> HIDE DEF named
<1>5. CASE service = "foreign"
  <2>1. PICK n \in 0 .. (Count + 1) : answer.items \in [1 .. n -> ForeignItem]
    BY <1>5 DEF Answer
  <2>2. n = Count
    BY <1>1, <2>1 DEF Accepts
  <2>3. answer.items[named] \in ForeignItem
    BY <1>3, <2>1, <2>2
  <2>4. answer.items[named].vector # Malformed
    BY <1>3 DEF Accepts
  <2> DEFINE item == answer.items[named]
  <2>5. PICK k \in 0 .. (Count - 1) :
          item = [index |-> k, vector |-> Whole(Len(vectors) + k + 1)]
    <3>1. item \in ForeignItem /\ item.vector # Malformed
      BY <2>3, <2>4
    <3> HIDE DEF item
    <3>2. \A j \in -1 .. Count : item # [index |-> j, vector |-> Malformed]
      BY <3>1
    <3>3. QED
      BY <3>1, <3>2 DEF ForeignItem
  <2>6. k = i - 1 /\ answer.items[named].vector = Whole(Len(vectors) + k + 1)
    BY <1>3, <2>5
  <2>7. Len(vectors) + k + 1 = Len(vectors) + i
    BY <1>1, <2>6
  <2>8. QED
    BY <1>4, <2>6, <2>7
<1>6. CASE service # "foreign"
  <2>1. answer.items[named].index = named - 1 /\ answer.items[named].vector = Whole(Len(vectors) + named)
    BY <1>3, <1>6, OwnItems
  <2>2. named = i
    BY <1>1, <1>3, <2>1
  <2>3. QED
    BY <1>4, <2>1, <2>2
<1>7. QED
  BY <1>5, <1>6

\* The vectors of an accepted answer continue those of the batches before it.
LEMMA AnswerContinues ==
  ASSUME IInv, Len(vectors) < Chunks, NEW answer \in Answer, Accepts(answer)
  PROVE  /\ vectors \o Ordered(answer) \in Seq(Vector)
         /\ Len(vectors \o Ordered(answer)) = Len(vectors) + Count
         /\ \A j \in 1 .. (Len(vectors) + Count) : (vectors \o Ordered(answer))[j] = Whole(j)
<1>1. /\ TypeOK /\ vectors \in Seq(Vector)
      /\ \A j \in 1 .. Len(vectors) : vectors[j] = Whole(j)
  BY DEF IInv, TypeOK, VectorsBelongToChunks
<1>2. /\ Len(vectors) \in Nat /\ Count \in Nat /\ Count > 0
      /\ Len(vectors) + Count <= Chunks /\ Chunks \in Nat
  BY <1>1, BatchIsPartOfDocument, DocumentHasChunks DEF TypeOK
<1>3. \A i \in 1 .. Count : Ordered(answer)[i] = Whole(Len(vectors) + i)
  BY <1>1, AnswerIsOrdered
<1>4. DOMAIN Ordered(answer) = 1 .. Count
  BY DEF Ordered
<1>5. \A i \in 1 .. Count : Whole(Len(vectors) + i) \in Vector
  <2>1. \A i \in 1 .. Count : Len(vectors) + i \in 1 .. Chunks
    BY <1>2
  <2>2. QED
    BY <1>1, <2>1, DocumentHasChunks DEF TypeOK
<1>6. Ordered(answer) = [i \in 1 .. Count |-> Ordered(answer)[i]]
  BY DEF Ordered
<1>7. Ordered(answer) \in [1 .. Count -> Vector]
  BY <1>3, <1>5, <1>6
<1>8. Ordered(answer) \in Seq(Vector) /\ Len(Ordered(answer)) = Count
  BY <1>2, <1>7
<1> DEFINE added == Ordered(answer)
<1>9. /\ added \in Seq(Vector) /\ Len(added) = Count
      /\ \A i \in 1 .. Count : added[i] = Whole(Len(vectors) + i)
  BY <1>3, <1>8
<1> HIDE DEF added
<1>10. /\ vectors \o added \in Seq(Vector)
       /\ Len(vectors \o added) = Len(vectors) + Count
  BY <1>1, <1>9, ConcatProperties
<1>11. ASSUME NEW j \in 1 .. (Len(vectors) + Count)
       PROVE  (vectors \o added)[j] = Whole(j)
  <2>1. CASE j <= Len(vectors)
    BY <2>1, <1>1, <1>2, <1>9
  <2>2. CASE j > Len(vectors)
    <3>1. (vectors \o added)[j] = added[j - Len(vectors)]
      BY <2>2, <1>1, <1>2, <1>9
    <3>2. j - Len(vectors) \in 1 .. Count /\ Len(vectors) + (j - Len(vectors)) = j
      BY <2>2, <1>2
    <3>3. QED
      BY <3>1, <3>2, <1>2, <1>9
  <2>3. j <= Len(vectors) \/ j > Len(vectors)
    BY <1>2
  <2>4. QED
    BY <2>1, <2>2, <2>3
<1>12. QED
  BY <1>10, <1>11 DEF added

----------------------------------------------------------------------------
(* What posts and pauses cost.                                             *)

LEMMA Products ==
  ASSUME NEW a \in Nat, NEW b \in Nat, NEW x \in Nat
  PROVE  /\ a * x \in Nat
         /\ (a + 1) * x = a * x + x
         /\ a <= b => a * x <= b * x
OBVIOUS

\* A quotient is what its remainder leaves.
LEMMA Quotient ==
  ASSUME NEW q \in Nat, NEW n \in Nat, NEW r \in 0 .. (n - 1)
  PROVE  (q * n + r) \div n = q
OBVIOUS

\* The units costs are counted in.
LEMMA Costs ==
  /\ Waits * Deadline \in Nat
  /\ Deadline \div 10 \in Nat
  /\ BatchTime \in Nat
  /\ BatchTime = MaxAttempts * (Waits * Deadline) + (MaxAttempts - 1) * (Deadline \div 10)
  /\ Duration \subseteq 0 .. (Waits * Deadline)
<1>1. Waits \in Nat /\ Deadline \in Nat /\ MaxAttempts \in Nat /\ MaxAttempts - 1 \in Nat
  BY EmbeddingAssumption
<1>2. Waits * Deadline \in Nat /\ Deadline \div 10 \in Nat
  BY <1>1
<1>3. MaxAttempts * Waits * Deadline = MaxAttempts * (Waits * Deadline)
  BY <1>1
<1> DEFINE post == Waits * Deadline
           pause == Deadline \div 10
<1>4. BatchTime = MaxAttempts * post + (MaxAttempts - 1) * pause
  BY <1>3 DEF BatchTime
<1>5. post \in Nat /\ pause \in Nat
  BY <1>2
<1>6. MaxAttempts * post \in Nat /\ (MaxAttempts - 1) * pause \in Nat
  <2> HIDE DEF post, pause
  <2> QED
    BY <1>1, <1>5, Products
<1>7. BatchTime \in Nat
  BY <1>4, <1>6
<1> QED
  BY <1>2, <1>4, <1>7, EmbeddingAssumption

\* A batch never costs more than its share.
LEMMA BatchKeepsBudget ==
  ASSUME NEW n \in Nat, n < MaxAttempts
  PROVE  /\ n + 1 <= MaxAttempts
         /\ (n + 1) * (Waits * Deadline) + n * (Deadline \div 10) <= BatchTime
<1> DEFINE post == Waits * Deadline
           pause == Deadline \div 10
<1>1. /\ MaxAttempts \in Nat /\ n + 1 <= MaxAttempts
      /\ n + 1 \in Nat /\ MaxAttempts - 1 \in Nat /\ n <= MaxAttempts - 1
  BY ConstantsAreNumbers
<1>2. post \in Nat /\ pause \in Nat /\ BatchTime = MaxAttempts * post + (MaxAttempts - 1) * pause
  BY Costs
<1> HIDE DEF post, pause
<1>3. /\ (n + 1) * post <= MaxAttempts * post /\ n * pause <= (MaxAttempts - 1) * pause
      /\ (n + 1) * post \in Nat /\ n * pause \in Nat
      /\ MaxAttempts * post \in Nat /\ (MaxAttempts - 1) * pause \in Nat
  BY <1>1, <1>2, Products
<1>4. (n + 1) * post + n * pause <= BatchTime
  BY <1>2, <1>3
<1> QED
  BY <1>1, <1>4 DEF post, pause

\* Another post that does not end its batch.
LEMMA PostKeepsBudget ==
  ASSUME TypeOK, pc = "post", NEW q \in Nat, Budget(q), NEW ticks \in Duration, Spend(ticks),
         pc' # "post", UNCHANGED <<vectors, attempt>>
  PROVE  Budget(q)'
<1> DEFINE post == Waits * Deadline
           pauses == attempt * (Deadline \div 10)
           spent == q * BatchTime
           made == q * MaxAttempts
<1>1. /\ attempt \in Nat /\ attempt + 1 \in Nat /\ posts \in Nat /\ elapsed \in Nat /\ MaxAttempts \in Nat
  BY ConstantsAreNumbers DEF TypeOK
<1>2. post \in Nat /\ Deadline \div 10 \in Nat /\ BatchTime \in Nat /\ ticks \in Nat /\ ticks <= post
  BY Costs
<1>3. spent \in Nat /\ made \in Nat /\ pauses \in Nat
  BY <1>1, <1>2, Products
<1>4. (attempt + 1) * post = attempt * post + post /\ attempt * post \in Nat
  <2> HIDE DEF post
  <2> QED
    BY <1>1, <1>2, Products
<1>5. posts <= made + attempt /\ elapsed <= spent + attempt * post + pauses /\ Len(vectors) = q * BatchSize
  BY DEF Budget, Made
<1>6. posts' = posts + 1 /\ elapsed' = elapsed + ticks
  BY DEF Spend
<1> HIDE DEF post, pauses, spent, made
<1>7. posts' <= made + (attempt + 1)
  BY <1>1, <1>3, <1>5, <1>6
<1>8. elapsed' <= spent + (attempt + 1) * post + pauses
  BY <1>1, <1>2, <1>3, <1>4, <1>5, <1>6
<1>9. Made' = attempt + 1
  BY DEF Made
<1> QED
  BY <1>5, <1>7, <1>8, <1>9 DEF Budget, post, pauses, spent, made

\* A pause is capped, and the next post is made after it.
LEMMA PauseKeepsBudget ==
  ASSUME TypeOK, Pause, NEW q \in Nat, Budget(q)
  PROVE  Budget(q)'
<1> DEFINE pause == Deadline \div 10
           made == (attempt + 1) * (Waits * Deadline)
           spent == q * BatchTime
<1>1. /\ pc = "pause" /\ pc' = "post" /\ attempt' = attempt + 1
      /\ UNCHANGED <<vectors, posts>>
  BY DEF Pause
<1>2. PICK ticks \in Pauses : elapsed' = elapsed + ticks
  BY DEF Pause
<1>3. pause \in Nat /\ ticks \in 0 .. pause
  BY Costs DEF Pauses
<1>4. attempt \in Nat /\ attempt + 1 \in Nat /\ elapsed \in Nat
  BY DEF TypeOK
<1>5. spent \in Nat /\ made \in Nat
  BY <1>4, Costs, Products
<1>6. elapsed <= spent + made + attempt * pause
  BY <1>1 DEF Budget, Made
<1>7. /\ Made = attempt + 1 /\ Made' = attempt + 1
  BY <1>1 DEF Made
<1>8. (attempt + 1) * pause = attempt * pause + pause /\ attempt * pause \in Nat
  <2> HIDE DEF pause
  <2> QED
    BY <1>3, <1>4, Products
<1> HIDE DEF pause, made, spent
<1>9. elapsed' <= spent + made + (attempt + 1) * pause
  BY <1>2, <1>3, <1>4, <1>5, <1>6, <1>8
<1> QED
  BY <1>1, <1>7, <1>9 DEF Budget, pause, made, spent

\* An answer that is accepted ends its batch; only the last batch is short.
LEMMA AnswerKeepsBudget ==
  ASSUME TypeOK, pc = "post", Len(vectors) < Chunks, NEW q \in Nat, Budget(q),
         NEW ticks \in Duration, Spend(ticks), Continue, UNCHANGED document,
         Len(vectors') = Len(vectors) + Count
  PROVE  WithinBudget'
<1> DEFINE post == Waits * Deadline
           pauses == attempt * (Deadline \div 10)
           spent == q * BatchTime
           made == q * MaxAttempts
<1>1. /\ attempt \in Nat /\ attempt < MaxAttempts /\ posts \in Nat /\ elapsed \in Nat
      /\ MaxAttempts \in Nat /\ BatchSize \in Nat /\ BatchSize > 0
  BY ConstantsAreNumbers DEF TypeOK
<1>2. post \in Nat /\ BatchTime \in Nat /\ ticks \in Nat /\ ticks <= post
  BY Costs
<1>3. spent \in Nat /\ made \in Nat /\ pauses \in Nat /\ attempt * post \in Nat
  BY <1>1, <1>2, Costs, Products
<1>4. posts <= made + attempt /\ elapsed <= spent + attempt * post + pauses /\ Len(vectors) = q * BatchSize
  BY DEF Budget, Made
<1>5. posts' = posts + 1 /\ elapsed' = elapsed + ticks
  BY DEF Spend
<1>6. attempt + 1 <= MaxAttempts /\ (attempt + 1) * post + pauses <= BatchTime
  BY <1>1, BatchKeepsBudget
<1>7. (attempt + 1) * post = attempt * post + post
  BY <1>1, <1>2, Products
<1>8. /\ (q + 1) * MaxAttempts = made + MaxAttempts
      /\ (q + 1) * BatchTime = spent + BatchTime
      /\ (q + 1) * BatchSize = q * BatchSize + BatchSize
  BY <1>1, <1>2, Products
<1> HIDE DEF post, pauses, spent, made
<1>9. posts' <= made + MaxAttempts /\ posts' \in Nat
  BY <1>1, <1>3, <1>4, <1>5, <1>6
<1>10. elapsed' <= spent + BatchTime /\ elapsed' \in Nat
  BY <1>1, <1>2, <1>3, <1>4, <1>5, <1>6, <1>7
<1>11. posts' <= (q + 1) * MaxAttempts /\ elapsed' <= (q + 1) * BatchTime
  BY <1>8, <1>9, <1>10
<1>12. /\ Len(vectors) \in Nat /\ Count \in Nat /\ Count > 0 /\ Len(vectors) + Count <= Chunks
       /\ Chunks \in Nat /\ Chunks' = Chunks
  BY BatchIsPartOfDocument, DocumentHasChunks DEF TypeOK, Chunks
<1>13. q <= q * BatchSize
  <2>1. q * 1 <= q * BatchSize
    BY <1>1
  <2> QED
    BY <2>1
<1>14. q + 1 \in 0 .. Chunks'
  BY <1>4, <1>12, <1>13
<1>15. CASE Len(vectors') < Chunks
  <2>1. pc' = "post" /\ attempt' = 0 /\ Made' = 0
    BY <1>12, <1>15 DEF Continue, Made
  <2>2. Count = BatchSize
    BY <1>1, <1>12, <1>15 DEF Count
  <2>3. Len(vectors') = (q + 1) * BatchSize
    BY <1>4, <1>8, <2>2
  <2>4. /\ (q + 1) * MaxAttempts \in Nat /\ (q + 1) * BatchTime \in Nat
        /\ 0 * post = 0 /\ 0 * (Deadline \div 10) = 0
    BY <1>1, <1>2, Costs, Products
  <2>5. posts' <= (q + 1) * MaxAttempts + 0 /\ elapsed' <= (q + 1) * BatchTime + 0 + 0
    BY <1>9, <1>10, <1>11, <2>4
  <2>6. Budget(q + 1)'
    BY <2>1, <2>3, <2>4, <2>5 DEF Budget, post
  <2> QED
    BY <1>14, <2>1, <2>6 DEF WithinBudget
<1>16. CASE ~(Len(vectors') < Chunks)
  <2>1. pc' = "embedded"
    BY <1>12, <1>16 DEF Continue
  <2>2. Len(vectors) + Count = Chunks
    BY <1>12, <1>16
  <2>3. Len(vectors) + BatchSize \in Chunks .. (Chunks + BatchSize - 1)
    BY <1>1, <1>12, <2>2 DEF Count
  <2>4. FinalBudget(q + 1)'
    BY <1>4, <1>8, <1>11, <1>12, <2>3 DEF FinalBudget
  <2> QED
    BY <1>14, <2>1, <2>4 DEF WithinBudget
<1> QED
  BY <1>15, <1>16

\* No step costs more than its batch has left.
LEMMA StepKeepsBudget ==
  ASSUME IInv, [Next]_vars
  PROVE  WithinBudget'
<1>1. TypeOK /\ (pc \in {"post", "pause"} => Len(vectors) < Chunks)
  BY DEF IInv
<1>2. PICK q \in 0 .. Chunks : IF pc = "embedded" THEN FinalBudget(q) ELSE Budget(q)
  BY DEF IInv, WithinBudget
<1>3. Chunks \in Nat /\ q \in Nat
  BY <1>1, DocumentHasChunks DEF TypeOK
<1>4. CASE PostFails \/ PostRefused
  <2>1. pc = "post" /\ pc' \in {"pause", "unavailable"} /\ UNCHANGED <<document, vectors, attempt>>
    BY <1>4 DEF PostFails, PostRefused, Retry
  <2>2. PICK ticks \in Duration : Spend(ticks)
    BY <1>4 DEF PostFails, PostRefused, Retry
  <2>3. Budget(q)'
    BY <1>1, <1>2, <1>3, <2>1, <2>2, PostKeepsBudget
  <2>4. Chunks' = Chunks
    BY <2>1 DEF Chunks
  <2> QED
    BY <2>1, <2>3, <2>4 DEF WithinBudget
<1>5. CASE PostAnswered
  <2>1. pc = "post" /\ UNCHANGED document
    BY <1>5 DEF PostAnswered
  <2>2. PICK ticks \in Duration : Spend(ticks)
    BY <1>5 DEF PostAnswered
  <2>3. PICK answer \in Answer :
          IF Accepts(answer) /\ compatible
          THEN vectors' = vectors \o Ordered(answer) /\ Continue
          ELSE pc' = "mismatch" /\ UNCHANGED <<vectors, attempt>>
    BY <1>5 DEF PostAnswered
  <2>4. CASE Accepts(answer) /\ compatible
    <3>1. vectors' = vectors \o Ordered(answer) /\ Continue /\ Len(vectors) < Chunks
      BY <1>1, <2>1, <2>3, <2>4
    <3>2. Len(vectors') = Len(vectors) + Count
      BY <2>4, <3>1, AnswerContinues
    <3> QED
      BY <1>1, <1>2, <1>3, <2>1, <2>2, <3>1, <3>2, AnswerKeepsBudget
  <2>5. CASE ~(Accepts(answer) /\ compatible)
    <3>1. pc' = "mismatch" /\ UNCHANGED <<vectors, attempt>>
      BY <2>3, <2>5
    <3>2. Budget(q)'
      BY <1>1, <1>2, <1>3, <2>1, <2>2, <3>1, PostKeepsBudget
    <3>3. Chunks' = Chunks
      BY <2>1 DEF Chunks
    <3> QED
      BY <3>1, <3>2, <3>3 DEF WithinBudget
  <2> QED
    BY <2>4, <2>5
<1>6. CASE Pause
  <2>1. pc = "pause" /\ pc' = "post" /\ UNCHANGED document
    BY <1>6 DEF Pause
  <2>2. Budget(q)'
    BY <1>1, <1>2, <1>3, <1>6, <2>1, PauseKeepsBudget
  <2>3. Chunks' = Chunks
    BY <2>1 DEF Chunks
  <2> QED
    BY <2>1, <2>2, <2>3 DEF WithinBudget
<1>7. CASE UNCHANGED vars
  BY <1>2, <1>7 DEF vars, WithinBudget, Budget, FinalBudget, Made, Chunks
<1> QED
  BY <1>4, <1>5, <1>6, <1>7 DEF Next

\* What the budgets say of the batches: at most as many posts, and as much time,
\* as the batches have.
LEMMA BudgetBounds ==
  ASSUME IInv
  PROVE  RetriesAreBounded /\ TimeIsBounded
<1>1. PICK q \in 0 .. Chunks : IF pc = "embedded" THEN FinalBudget(q) ELSE Budget(q)
  BY DEF IInv, WithinBudget
<1>2. /\ Chunks \in Nat /\ q \in Nat /\ attempt \in Nat /\ attempt < MaxAttempts
      /\ posts \in Nat /\ elapsed \in Nat
      /\ MaxAttempts \in Nat /\ BatchSize \in Nat /\ BatchSize > 0
      /\ BatchTime \in Nat
  BY DocumentHasChunks, ConstantsAreNumbers, Costs DEF IInv, TypeOK
<1>3. CASE pc = "embedded"
  <2> DEFINE rest == Chunks + BatchSize - 1 - q * BatchSize
  <2>1. rest \in 0 .. (BatchSize - 1) /\ q * BatchSize + rest = Chunks + BatchSize - 1
    BY <1>1, <1>2, <1>3 DEF FinalBudget
  <2> HIDE DEF rest
  <2>2. (Chunks + BatchSize - 1) \div BatchSize = q
    BY <1>2, <2>1, Quotient
  <2>3. Batches = q
    BY <1>3, <2>2 DEF Batches
  <2> QED
    BY <1>1, <1>3, <2>3 DEF FinalBudget, RetriesAreBounded, TimeIsBounded
<1>4. CASE pc # "embedded"
  <2>1. Budget(q)
    BY <1>1, <1>4
  <2>2. (q * BatchSize + 0) \div BatchSize = q
    BY <1>2, Quotient
  <2>3. Len(vectors) \div BatchSize = q
    BY <1>2, <2>1, <2>2 DEF Budget
  <2>4. Batches = q + 1
    BY <1>4, <2>3 DEF Batches
  <2> DEFINE post == Waits * Deadline
             pauses == attempt * (Deadline \div 10)
             spent == q * BatchTime
  <2>5. /\ (q + 1) * MaxAttempts = q * MaxAttempts + MaxAttempts /\ q * MaxAttempts \in Nat
        /\ (q + 1) * BatchTime = spent + BatchTime /\ spent \in Nat
        /\ pauses \in Nat
        /\ (attempt + 1) * post = attempt * post + post /\ attempt * post \in Nat /\ post \in Nat
    BY <1>2, Costs, Products
  <2>6. attempt + 1 <= MaxAttempts /\ (attempt + 1) * post + pauses <= BatchTime
    BY <1>2, BatchKeepsBudget
  <2> HIDE DEF post, pauses, spent
  <2>7. Made \in 0 .. (attempt + 1)
    BY <1>2 DEF Made
  <2>8. Made * post <= (attempt + 1) * post /\ Made * post \in Nat
    BY <1>2, <2>5, <2>7, Products
  <2>9. posts <= q * MaxAttempts + Made /\ elapsed <= spent + Made * post + pauses
    BY <2>1 DEF Budget, post, pauses, spent
  <2>10. posts <= (q + 1) * MaxAttempts
    BY <1>2, <2>5, <2>6, <2>7, <2>9
  <2>11. elapsed <= (q + 1) * BatchTime
    BY <1>2, <2>5, <2>6, <2>8, <2>9
  <2> QED
    BY <2>4, <2>10, <2>11 DEF RetriesAreBounded, TimeIsBounded
<1> QED
  BY <1>3, <1>4

\* The invariant of the embedding of a document.
THEOREM EmbeddingInvariant == Spec => []IInv
<1>1. Init => IInv
  <2> SUFFICES ASSUME Init
               PROVE  IInv
    OBVIOUS
  <2>1. Budget(0)
    <3>1. /\ BatchSize \in Nat /\ MaxAttempts \in Nat
          /\ BatchTime \in Nat /\ Waits * Deadline \in Nat /\ Deadline \div 10 \in Nat
      BY ConstantsAreNumbers, Costs
    <3>2. /\ 0 * BatchSize = 0 /\ 0 * MaxAttempts = 0 /\ 0 * BatchTime = 0
          /\ 0 * (Waits * Deadline) = 0 /\ 0 * (Deadline \div 10) = 0
      BY <3>1
    <3>3. Made = 0 /\ attempt = 0 /\ Len(vectors) = 0 /\ posts = 0 /\ elapsed = 0
      BY DEF Init, Made
    <3> QED
      BY <3>2, <3>3 DEF Budget
  <2>2. 0 \in 0 .. Chunks /\ pc = "post"
    BY DocumentHasChunks DEF Init
  <2>3. WithinBudget
    BY <2>1, <2>2 DEF WithinBudget
  <2> QED
    BY <2>3, ConstantsAreNumbers, DocumentHasChunks DEF Init, IInv, TypeOK, VectorsBelongToChunks, OwnServiceIsAccepted, Chunks, Whole, Vector, Ended
<1>2. IInv /\ [Next]_vars => IInv'
  <2> SUFFICES ASSUME IInv, [Next]_vars
               PROVE  IInv'
    OBVIOUS
  <2>0. WithinBudget'
    BY StepKeepsBudget
  <2>1. TypeOK /\ VectorsBelongToChunks
    BY DEF IInv
  <2>2. ASSUME NEW ticks \in Nat, Spend(ticks)
        PROVE  posts' \in Nat /\ elapsed' \in Nat
    BY <2>1, <2>2 DEF Spend, TypeOK
  <2>3. CASE PostFails
    <3>1. PICK ticks \in Duration : Retry(ticks)
      BY <2>3 DEF PostFails
    <3>2. ticks \in Nat
      BY ConstantsAreNumbers
    <3>3. posts' \in Nat /\ elapsed' \in Nat
      BY <2>2, <3>1, <3>2 DEF Retry
    <3>4. pc' \in {"pause", "unavailable"} /\ UNCHANGED <<document, service, compatible, vectors, attempt>>
      BY <2>3, <3>1 DEF PostFails, Retry
    <3>5. pc = "post"
      BY <2>3 DEF PostFails
    <3>6. pc' = "pause" => attempt' + 1 < MaxAttempts
      BY <3>1, <3>4, ConstantsAreNumbers DEF Retry, IInv, TypeOK
    <3>7. QED
      BY <2>0, <3>3, <3>4, <3>5, <3>6 DEF IInv, TypeOK, VectorsBelongToChunks, OwnServiceIsAccepted, Chunks, Whole, Vector, Ended
  <2>4. CASE PostRefused
    <3>1. posts' \in Nat /\ elapsed' \in Nat
      BY <2>2, <2>4, ConstantsAreNumbers DEF PostRefused
    <3>2. pc' = "unavailable" /\ UNCHANGED <<document, service, compatible, vectors, attempt>>
      BY <2>4 DEF PostRefused
    <3>3. QED
      BY <2>0, <3>1, <3>2 DEF IInv, TypeOK, VectorsBelongToChunks, OwnServiceIsAccepted, Chunks, Whole, Vector, Ended
  <2>5. CASE PostAnswered
    <3>1. posts' \in Nat /\ elapsed' \in Nat
      BY <2>2, <2>5, ConstantsAreNumbers DEF PostAnswered
    <3>2. pc = "post" /\ UNCHANGED <<document, service, compatible>>
      BY <2>5 DEF PostAnswered
    <3>3. PICK answer \in Answer :
            IF Accepts(answer) /\ compatible
            THEN vectors' = vectors \o Ordered(answer) /\ Continue
            ELSE pc' = "mismatch" /\ UNCHANGED <<vectors, attempt>>
      BY <2>5 DEF PostAnswered
    <3>4. CASE ~(Accepts(answer) /\ compatible)
      <4>1. pc' = "mismatch" /\ UNCHANGED <<vectors, attempt>>
        BY <3>3, <3>4
      <4>2. ~(service = "alike" /\ compatible)
        BY <2>1, <3>2, <3>4, OwnAnswerAccepted DEF IInv
      <4>3. QED
        BY <2>0, <3>1, <3>2, <4>1, <4>2 DEF IInv, TypeOK, VectorsBelongToChunks, OwnServiceIsAccepted, Chunks, Whole, Vector, Ended
    <3>5. CASE Accepts(answer) /\ compatible
      <4>1. Len(vectors) < Chunks
        BY <3>2 DEF IInv
      <4>2. vectors' = vectors \o Ordered(answer) /\ Continue
        BY <3>3, <3>5
      <4>3. /\ vectors' \in Seq(Vector)
            /\ Len(vectors') = Len(vectors) + Count
            /\ \A j \in 1 .. Len(vectors') : vectors'[j] = Whole(j)
        BY <3>5, <4>1, <4>2, AnswerContinues
      <4>4. Len(vectors') \in Nat /\ Len(vectors') <= Chunks /\ Chunks \in Nat /\ Chunks' = Chunks
        BY <2>1, <3>2, <4>1, <4>3, BatchIsPartOfDocument, DocumentHasChunks DEF TypeOK, Chunks
      <4>5. /\ pc' = IF Len(vectors') < Chunks THEN "post" ELSE "embedded"
            /\ attempt' = 0
        BY <4>2 DEF Continue
      <4>6. TypeOK'
        <5>1. Vector' = Vector
          BY <4>4 DEF Vector
        <5>2. QED
          BY <2>1, <3>1, <3>2, <4>3, <4>5, <5>1, ConstantsAreNumbers DEF TypeOK, Ended
      <4>7. VectorsBelongToChunks'
        BY <3>2, <3>5, <4>3, <4>4, <4>5 DEF VectorsBelongToChunks, Whole
      <4>8. QED
        BY <2>0, <3>2, <3>5, <4>4, <4>5, <4>6, <4>7 DEF IInv, OwnServiceIsAccepted
    <3>6. QED
      BY <3>4, <3>5
  <2>6. CASE Pause
    <3>1. PICK ticks \in Pauses : elapsed' = elapsed + ticks
      BY <2>6 DEF Pause
    <3>2. ticks \in Nat
      BY ConstantsAreNumbers DEF Pauses
    <3>3. elapsed' \in Nat
      BY <2>1, <3>1, <3>2 DEF TypeOK
    <3>4. /\ pc = "pause" /\ pc' = "post" /\ attempt' = attempt + 1
          /\ UNCHANGED <<document, service, compatible, vectors, posts>>
      BY <2>6 DEF Pause
    <3>5. attempt' \in 0 .. (MaxAttempts - 1)
      BY <3>4, ConstantsAreNumbers DEF IInv, TypeOK
    <3>6. QED
      BY <2>0, <3>3, <3>4, <3>5 DEF IInv, TypeOK, VectorsBelongToChunks, OwnServiceIsAccepted, Chunks, Whole, Vector, Ended
  <2>7. CASE UNCHANGED vars
    BY <2>0, <2>7 DEF vars, IInv, TypeOK, VectorsBelongToChunks, OwnServiceIsAccepted, Chunks, Whole, Vector, Ended
  <2>8. QED
    BY <2>3, <2>4, <2>5, <2>6, <2>7 DEF Next
<1>3. QED
  BY <1>1, <1>2, PTL DEF Spec

\* Every chunk is stored with its own vector and none without, whatever order,
\* repetition or damage the answers show.
THEOREM VectorsMatch == Spec => []VectorsBelongToChunks
<1>1. IInv => VectorsBelongToChunks
  BY DEF IInv
<1>2. QED
  BY <1>1, EmbeddingInvariant, PTL

\* RAG Core and the Embedding API agree on their interface: the gateway takes no
\* answer of a service configured alike for a violation of the contract.
THEOREM ServicesAgree == Spec => []OwnServiceIsAccepted
<1>1. IInv => OwnServiceIsAccepted
  BY DEF IInv
<1>2. QED
  BY <1>1, EmbeddingInvariant, PTL

\* Retries stay within MaxAttempts posts for a batch, whatever fails and however
\* many batches a document has.
THEOREM RetriesBounded == Spec => []RetriesAreBounded
<1>1. IInv => RetriesAreBounded
  BY BudgetBounds
<1>2. QED
  BY <1>1, EmbeddingInvariant, PTL

\* A document is embedded, or its embedding given up, within the time its batches
\* have, all posts and pauses included.
THEOREM TimeBounded == Spec => []TimeIsBounded
<1>1. IInv => TimeIsBounded
  BY BudgetBounds
<1>2. QED
  BY <1>1, EmbeddingInvariant, PTL
=============================================================================
