--------------------------- MODULE ChunkingProofs ---------------------------
(***************************************************************************)
(* Theorems about normalize_text and chunk_text, for any document, size    *)
(* and overlap.                                                            *)
(***************************************************************************)
EXTENDS Chunking, SequenceTheorems, WellFoundedInduction, TLAPS

----------------------------------------------------------------------------
(* Keeping some characters of a text.                                      *)

\* What holds of 0 and goes on from each number to the next holds of all.
LEMMA Counting ==
  ASSUME NEW S, 0 \in S, \A n \in Nat : n \in S => n + 1 \in S
  PROVE  Nat \subseteq S
<1> DEFINE T == Nat \ S
           Less == {p \in Nat \X Nat : p[1] < p[2]}
<1> SUFFICES ASSUME T # {} PROVE FALSE
  OBVIOUS
<1>1. Less = OpToRel(<, Nat)
  BY DEF OpToRel
<1>2. IsWellFoundedOn(Less, Nat) /\ T \subseteq Nat
  BY <1>1, NatLessThanWellFounded
<1> HIDE DEF T, Less
<1>3. PICK x \in T : \A y \in T : ~ (<<y, x>> \in Less)
  BY <1>2, WFMin
<1>4. x \in Nat /\ x # 0
  BY DEF T
<1>5. x - 1 \in Nat /\ x - 1 < x /\ (x - 1) + 1 = x
  BY <1>4
<1>6. <<x - 1, x>> \in Less
  BY <1>4, <1>5 DEF Less
<1>7. x - 1 \notin T
  BY <1>3, <1>6
<1>8. QED
  BY <1>3, <1>4, <1>5, <1>7 DEF T

\* The recursion of Keep has a solution, and Keep is its last value.
LEMMA KeepRecursion ==
  ASSUME NEW s, Len(s) \in Nat, NEW kept
  PROVE  \E upTo : /\ upTo[0] = <<>> /\ Keep(s, kept) = upTo[Len(s)]
                   /\ \A i \in 1 .. Len(s) : upTo[i] = IF i \in kept THEN Append(upTo[i - 1], s[i]) ELSE upTo[i - 1]
<1> DEFINE Step(upTo, i) == IF i = 0 THEN <<>> ELSE IF i \in kept THEN Append(upTo[i - 1], s[i]) ELSE upTo[i - 1]
           Known(upTo, n) == \A i \in 0 .. n : upTo[i] = Step(upTo, i)
           S == {n \in Nat : \E upTo : Known(upTo, n)}
           keep == CHOOSE upTo : upTo = [i \in 0 .. Len(s) |-> Step(upTo, i)]
<1>1. 0 \in S
  <2>1. Known([i \in 0 .. 0 |-> <<>>], 0)
    OBVIOUS
  <2>2. QED
    BY <2>1
<1>2. ASSUME NEW n \in Nat, n \in S
      PROVE  n + 1 \in S
  <2>1. PICK upTo : Known(upTo, n)
    BY <1>2
  <2> DEFINE more == [i \in 0 .. (n + 1) |-> Step(upTo, i)]
  <2>2. \A i \in 0 .. n : more[i] = upTo[i]
    BY <2>1
  <2>3. ASSUME NEW i \in 0 .. (n + 1)
        PROVE  more[i] = Step(more, i)
    <3>1. more[i] = Step(upTo, i)
      OBVIOUS
    <3>2. i # 0 => i - 1 \in 0 .. n
      OBVIOUS
    <3> HIDE DEF more
    <3>3. i # 0 => more[i - 1] = upTo[i - 1]
      BY <2>2, <3>2
    <3>4. QED
      BY <3>1, <3>3
  <2> HIDE DEF more
  <2>4. QED
    BY <2>3
<1>3. Len(s) \in S
  <2>1. Nat \subseteq S
    <3> HIDE DEF S
    <3> QED
      BY <1>1, <1>2, Counting
  <2>2. QED
    BY <2>1
<1>4. PICK some : Known(some, Len(s))
  BY <1>3
<1> DEFINE known == [i \in 0 .. Len(s) |-> some[i]]
<1>5. known = [i \in 0 .. Len(s) |-> Step(known, i)]
  <2>1. ASSUME NEW i \in 0 .. Len(s)
        PROVE  some[i] = Step(known, i)
    <3>1. i # 0 => known[i - 1] = some[i - 1]
      OBVIOUS
    <3> HIDE DEF known
    <3>2. QED
      BY <1>4, <3>1
  <2>2. QED
    BY <2>1
<1> HIDE DEF known
<1>6. keep = [i \in 0 .. Len(s) |-> Step(keep, i)]
  BY <1>5
<1>7. Keep(s, kept) = keep[Len(s)]
  BY DEF Keep
<1> HIDE DEF keep
<1>8. \A i \in 0 .. Len(s) : keep[i] = Step(keep, i)
  BY <1>6
<1>9. QED
  BY <1>7, <1>8

\* t is what is left of s when the positions in kept are kept, order[i] being
\* where its i-th character was.
Left(t, s, kept, order) ==
  /\ order \in [1 .. Len(t) -> kept]
  /\ \A i, j \in 1 .. Len(t) : i < j => order[i] < order[j]
  /\ \A p \in kept : \E i \in 1 .. Len(t) : order[i] = p
  /\ \A i \in 1 .. Len(t) : t[i] = s[order[i]]

LEMMA KeepIs ==
  ASSUME NEW T, NEW s \in Seq(T), NEW kept \in SUBSET (1 .. Len(s))
  PROVE  Keep(s, kept) \in Seq(T) /\ \E order : Left(Keep(s, kept), s, kept, order)
<1>1. PICK upTo : /\ upTo[0] = <<>> /\ Keep(s, kept) = upTo[Len(s)]
                  /\ \A i \in 1 .. Len(s) : upTo[i] = IF i \in kept THEN Append(upTo[i - 1], s[i]) ELSE upTo[i - 1]
  BY KeepRecursion
<1>2. Len(s) \in Nat /\ \A p \in kept : p \in Nat /\ 1 <= p /\ p <= Len(s)
  OBVIOUS
<1> DEFINE Part(i) == {p \in kept : p <= i}
           Built(i) == upTo[i] \in Seq(T) /\ \E order : Left(upTo[i], s, Part(i), order)
           S == {i \in Nat : i <= Len(s) => Built(i)}
<1>3. Built(0)
  <2>1. Part(0) = {}
    <3>1. \A p \in kept : ~(p <= 0)
      BY <1>2
    <3>2. QED
      BY <3>1
  <2>2. Left(<<>>, s, {}, <<>>)
    BY DEF Left
  <2>3. <<>> \in Seq(T)
    OBVIOUS
  <2> HIDE DEF Part
  <2>4. QED
    BY <1>1, <2>1, <2>2, <2>3
<1>4. ASSUME NEW i \in Nat, i + 1 <= Len(s), Built(i)
      PROVE  Built(i + 1)
  <2>1. i + 1 \in 1 .. Len(s) /\ (i + 1) - 1 = i /\ s[i + 1] \in T
    BY <1>4
  <2>2. PICK order : Left(upTo[i], s, Part(i), order)
    BY <1>4
  <2>3. upTo[i] \in Seq(T)
    BY <1>4
  <2>4. CASE i + 1 \notin kept
    <3>1. upTo[i + 1] = upTo[i]
      BY <1>1, <2>1, <2>4
    <3>2. \A p \in kept : p <= i + 1 <=> p <= i
      BY <1>2, <2>4
    <3>3. Part(i + 1) = Part(i)
      BY <3>2
    <3> HIDE DEF Part
    <3>4. QED
      BY <2>2, <2>3, <3>1, <3>3
  <2>5. CASE i + 1 \in kept
    <3> DEFINE n == Len(upTo[i])
               more == [k \in 1 .. (n + 1) |-> IF k = n + 1 THEN i + 1 ELSE order[k]]
    <3>1. n \in Nat
      BY <2>3
    <3>2. upTo[i + 1] = Append(upTo[i], s[i + 1])
      BY <1>1, <2>1, <2>5
    <3>3. /\ upTo[i + 1] \in Seq(T) /\ Len(upTo[i + 1]) = n + 1 /\ upTo[i + 1][n + 1] = s[i + 1]
          /\ \A k \in 1 .. n : upTo[i + 1][k] = upTo[i][k]
      BY <2>1, <2>3, <3>2, AppendProperties
    <3>4. Part(i + 1) = Part(i) \cup {i + 1} /\ \A p \in Part(i) : p \in Nat /\ p < i + 1
      <4>1. \A p \in kept : p <= i + 1 <=> p <= i \/ p = i + 1
        BY <1>2
      <4>2. \A p \in kept : p \in Nat /\ (p <= i => p < i + 1)
        BY <1>2
      <4>3. QED
        BY <2>5, <4>1, <4>2
    <3> HIDE DEF Part, n
    <3>5. /\ order \in [1 .. n -> Part(i)]
          /\ \A k, l \in 1 .. n : k < l => order[k] < order[l]
          /\ \A p \in Part(i) : \E k \in 1 .. n : order[k] = p
          /\ \A k \in 1 .. n : upTo[i][k] = s[order[k]]
      BY <2>2 DEF Left, n
    <3>6. 1 .. (n + 1) = (1 .. n) \cup {n + 1} /\ n + 1 \notin 1 .. n
      BY <3>1
    <3>7. more \in [1 .. (n + 1) -> Part(i + 1)]
      BY <3>4, <3>5, <3>6
    <3>8. more[n + 1] = i + 1 /\ \A k \in 1 .. n : more[k] = order[k] /\ order[k] \in Part(i)
      BY <3>5, <3>6
    <3> HIDE DEF more
    <3>9. \A k, l \in 1 .. (n + 1) : k < l => more[k] < more[l]
      <4> SUFFICES ASSUME NEW k \in 1 .. (n + 1), NEW l \in 1 .. (n + 1), k < l PROVE more[k] < more[l]
        OBVIOUS
      <4>1. k \in 1 .. n
        BY <3>1
      <4>2. CASE l = n + 1
        BY <3>4, <3>8, <4>1, <4>2
      <4>3. CASE l \in 1 .. n
        BY <3>5, <3>8, <4>1, <4>3
      <4>4. QED
        BY <3>6, <4>2, <4>3
    <3>10. \A p \in Part(i + 1) : \E k \in 1 .. (n + 1) : more[k] = p
      BY <3>4, <3>5, <3>6, <3>8
    <3>11. \A k \in 1 .. (n + 1) : upTo[i + 1][k] = s[more[k]]
      BY <3>3, <3>5, <3>6, <3>8
    <3>12. Left(upTo[i + 1], s, Part(i + 1), more)
      BY <3>3, <3>7, <3>9, <3>10, <3>11 DEF Left
    <3>13. QED
      BY <3>3, <3>12
  <2>6. QED
    BY <2>4, <2>5
<1>5. 0 \in S /\ \A i \in Nat : i \in S => i + 1 \in S
  <2> HIDE DEF Built
  <2> QED
    BY <1>2, <1>3, <1>4
<1>6. Nat \subseteq S
  <2> HIDE DEF S
  <2> QED
    BY <1>5, Counting
<1>7. Built(Len(s))
  <2> HIDE DEF Built
  <2> QED
    BY <1>2, <1>6
<1>8. Part(Len(s)) = kept
  BY <1>2
<1> HIDE DEF Part
<1>9. QED
  BY <1>1, <1>7, <1>8

\* Keeping every position changes nothing.
LEMMA KeepAll ==
  ASSUME NEW T, NEW s \in Seq(T)
  PROVE  Keep(s, 1 .. Len(s)) = s
<1>1. Len(s) \in Nat
  OBVIOUS
<1>2. PICK upTo : /\ upTo[0] = <<>> /\ Keep(s, 1 .. Len(s)) = upTo[Len(s)]
                  /\ \A i \in 1 .. Len(s) : upTo[i] = IF i \in 1 .. Len(s) THEN Append(upTo[i - 1], s[i]) ELSE upTo[i - 1]
  BY <1>1, KeepRecursion
<1> DEFINE Same(i) == upTo[i] \in Seq(T) /\ Len(upTo[i]) = i /\ \A k \in 1 .. i : upTo[i][k] = s[k]
           S == {i \in Nat : i <= Len(s) => Same(i)}
<1>3. Same(0)
  BY <1>2
<1>4. ASSUME NEW i \in Nat, i + 1 <= Len(s), Same(i)
      PROVE  Same(i + 1)
  <2>1. i + 1 \in 1 .. Len(s) /\ (i + 1) - 1 = i /\ s[i + 1] \in T
    BY <1>1, <1>4
  <2>2. upTo[i + 1] = Append(upTo[i], s[i + 1])
    BY <1>2, <2>1
  <2>3. QED
    BY <1>4, <2>1, <2>2, AppendProperties
<1>5. 0 \in S /\ \A i \in Nat : i \in S => i + 1 \in S
  <2> HIDE DEF Same
  <2> QED
    BY <1>1, <1>3, <1>4
<1>6. Nat \subseteq S
  <2> HIDE DEF S
  <2> QED
    BY <1>5, Counting
<1>7. Same(Len(s))
  <2> HIDE DEF Same
  <2> QED
    BY <1>1, <1>6
<1>8. QED
  BY <1>2, <1>7, SeqEqual

\* The characters that became the neighbours i - 1 and i, p and q in s, and
\* nothing between them that was kept.
Joined(t, s, kept, i, p, q) ==
  /\ p \in kept /\ q \in kept /\ t[i - 1] = s[p] /\ t[i] = s[q]
  /\ p \in Nat /\ 1 <= p /\ q \in Nat /\ q <= Len(s) /\ p < q
  /\ \A m \in kept : ~(p < m /\ m < q)

LEMMA Neighbours ==
  ASSUME NEW s, Len(s) \in Nat, NEW kept, kept \subseteq 1 .. Len(s), NEW t, Len(t) \in Nat,
         NEW order, Left(t, s, kept, order), NEW i \in 2 .. Len(t)
  PROVE  Joined(t, s, kept, i, order[i - 1], order[i])
<1>1. i - 1 \in 1 .. Len(t) /\ i \in 1 .. Len(t) /\ i - 1 < i
  OBVIOUS
<1>2. order[i - 1] \in kept /\ order[i] \in kept /\ order[i - 1] < order[i]
  BY <1>1 DEF Left
<1>3. t[i - 1] = s[order[i - 1]] /\ t[i] = s[order[i]]
  BY <1>1 DEF Left
<1>4. \A p \in kept : p \in Nat /\ 1 <= p /\ p <= Len(s)
  OBVIOUS
<1>5. ASSUME NEW p \in kept, order[i - 1] < p, p < order[i]
      PROVE  FALSE
  <2>1. PICK j \in 1 .. Len(t) : order[j] = p
    BY DEF Left
  <2>2. j \in Nat /\ (j < i - 1 \/ j = i - 1 \/ j = i \/ i < j)
    BY <1>1
  <2>3. \A k, l \in 1 .. Len(t) : k < l => order[k] < order[l]
    BY DEF Left
  <2>4. order[i - 1] \in Nat /\ order[i] \in Nat /\ p \in Nat
    BY <1>2, <1>4
  <2>5. QED
    BY <1>1, <1>5, <2>1, <2>2, <2>3, <2>4
<1>6. QED
  BY <1>2, <1>3, <1>4, <1>5 DEF Joined

\* When all the text is kept, what was between two characters that are no
\* whitespace, of the line or of the whole text, still is.
Around(t, i, s, q, r) ==
  \E j \in 1 .. i, k \in i .. Len(t) :
    IsText(t, j) /\ IsText(t, k) /\ ((\A m \in q .. r : s[m] # "lf") => \A m \in j .. k : t[m] # "lf")

LEMMA TextStays ==
  ASSUME NEW s, Len(s) \in Nat, NEW kept, kept \subseteq 1 .. Len(s), NEW t, Len(t) \in Nat,
         NEW order, Left(t, s, kept, order), NEW i \in 1 .. Len(t),
         \A p \in 1 .. Len(s) : IsText(s, p) => p \in kept,
         NEW q \in 1 .. order[i], NEW r \in order[i] .. Len(s), IsText(s, q), IsText(s, r)
  PROVE  Around(t, i, s, q, r)
<1>1. \A p \in kept : p \in Nat /\ 1 <= p /\ p <= Len(s)
  OBVIOUS
<1>2. /\ \A k, l \in 1 .. Len(t) : k < l => order[k] < order[l]
      /\ \A p \in kept : \E k \in 1 .. Len(t) : order[k] = p
      /\ \A k \in 1 .. Len(t) : order[k] \in kept /\ t[k] = s[order[k]]
  BY DEF Left
<1>3. order[i] \in Nat /\ 1 <= order[i] /\ order[i] <= Len(s) /\ i \in Nat
  <2>1. order[i] \in kept
    BY <1>2
  <2>2. i \in Nat
    OBVIOUS
  <2>3. QED
    BY <1>1, <2>1, <2>2
<1>4. q \in 1 .. Len(s) /\ r \in 1 .. Len(s) /\ q <= order[i] /\ order[i] <= r
  BY <1>3
<1>5. q \in kept /\ r \in kept
  BY <1>4
<1>6. PICK j \in 1 .. Len(t) : order[j] = q
  BY <1>2, <1>5
<1>7. PICK k \in 1 .. Len(t) : order[k] = r
  BY <1>2, <1>5
<1>8. j <= i /\ i <= k
  <2>1. ~(i < j)
    BY <1>2, <1>3, <1>4, <1>6
  <2>2. ~(k < i)
    BY <1>2, <1>3, <1>4, <1>7
  <2>3. QED
    BY <1>3, <2>1, <2>2
<1>9. IsText(t, j) /\ IsText(t, k)
  <2>1. t[j] = s[q] /\ t[k] = s[r]
    BY <1>2, <1>6, <1>7
  <2>2. QED
    BY <2>1 DEF IsText
<1>10. ASSUME \A m \in q .. r : s[m] # "lf", NEW m \in j .. k
       PROVE  t[m] # "lf"
  <2>1. m \in 1 .. Len(t) /\ j <= m /\ m <= k /\ m \in Nat
    OBVIOUS
  <2>2. order[m] \in Nat /\ order[j] <= order[m] /\ order[m] <= order[k]
    <3>1. order[m] \in Nat /\ order[j] \in Nat /\ order[k] \in Nat
      BY <1>1, <1>2, <2>1
    <3>2. (j = m \/ j < m) /\ (m = k \/ m < k)
      BY <2>1
    <3>3. QED
      BY <1>2, <2>1, <3>1, <3>2
  <2>3. order[m] \in q .. r
    BY <1>4, <1>6, <1>7, <2>2
  <2>4. QED
    BY <1>2, <1>10, <2>1, <2>3
<1>11. j \in 1 .. i /\ k \in i .. Len(t)
  BY <1>3, <1>8
<1>12. QED
  BY <1>9, <1>10, <1>11 DEF Around

----------------------------------------------------------------------------
(* Normalized texts.                                                       *)

Single(t) == \A p \in 2 .. Len(t) : ~(t[p] = "space" /\ t[p - 1] = "space")

Trimmed(t) == \A p \in 1 .. Len(t) : t[p] = "lf" \/ InLine(t, p)

Paired(t) == \A p \in 3 .. Len(t) : ~(t[p] = "lf" /\ t[p - 1] = "lf" /\ t[p - 2] = "lf")

Edged(t) == \A p \in 1 .. Len(t) : \E q \in 1 .. p, r \in p .. Len(t) : IsText(t, q) /\ IsText(t, r)

Normal(t) == t \in Seq(Kind) /\ Single(t) /\ Trimmed(t) /\ Paired(t) /\ Edged(t)

\* Each step of the normalization gives its part of the form, whatever the text.
LEMMA UnixIs ==
  ASSUME NEW s \in Seq(RawKind)
  PROVE  UnixNewlines(s) \in Seq(RawKind \ {"cr"})
<1> DEFINE kept == {p \in 1 .. Len(s) : ~(s[p] = "lf" /\ p > 1 /\ s[p - 1] = "cr")}
           unix == Keep(s, kept)
<1>1. unix \in Seq(RawKind)
  BY KeepIs
<1>2. UnixNewlines(s) = [p \in 1 .. Len(unix) |-> IF unix[p] = "cr" THEN "lf" ELSE unix[p]]
  BY DEF UnixNewlines
<1> HIDE DEF unix
<1>3. Len(unix) \in Nat /\ \A p \in 1 .. Len(unix) : unix[p] \in RawKind
  BY <1>1
<1>4. \A p \in 1 .. Len(unix) : (IF unix[p] = "cr" THEN "lf" ELSE unix[p]) \in RawKind \ {"cr"}
  BY <1>3 DEF RawKind
<1>5. QED
  BY <1>2, <1>3, <1>4

LEMMA SpacesAre ==
  ASSUME NEW s \in Seq(RawKind \ {"cr"})
  PROVE  SingleSpaces(s) \in Seq(Kind) /\ Single(SingleSpaces(s))
<1> DEFINE kept == {p \in 1 .. Len(s) : ~(IsHorizontal(s, p) /\ p > 1 /\ IsHorizontal(s, p - 1))}
           single == Keep(s, kept)
<1>1. single \in Seq(RawKind \ {"cr"}) /\ \E order : Left(single, s, kept, order)
  BY KeepIs
<1>2. SingleSpaces(s) = [p \in 1 .. Len(single) |-> IF single[p] = "tab" THEN "space" ELSE single[p]]
  BY DEF SingleSpaces
<1>3. kept \subseteq 1 .. Len(s) /\ \A p \in 1 .. Len(s) : p \notin kept => IsHorizontal(s, p)
  OBVIOUS
<1>4. \A p \in kept : IsHorizontal(s, p) /\ p > 1 => ~IsHorizontal(s, p - 1)
  OBVIOUS
<1> HIDE DEF single, kept
<1>5. Len(s) \in Nat /\ Len(single) \in Nat /\ \A p \in 1 .. Len(single) : single[p] \in RawKind \ {"cr"}
  BY <1>1
<1>6. \A p \in 1 .. Len(single) : (IF single[p] = "tab" THEN "space" ELSE single[p]) \in Kind
  BY <1>5 DEF RawKind, Kind
<1>7. SingleSpaces(s) \in Seq(Kind) /\ Len(SingleSpaces(s)) = Len(single)
  BY <1>2, <1>5, <1>6
<1>8. PICK order : Left(single, s, kept, order)
  BY <1>1
<1>9. ASSUME NEW i \in 2 .. Len(single), IsHorizontal(single, i), IsHorizontal(single, i - 1)
      PROVE  FALSE
  <2> DEFINE p == order[i - 1]
             q == order[i]
  <2>1. /\ p \in Nat /\ 1 <= p /\ q \in Nat /\ q <= Len(s) /\ p < q /\ q \in kept
        /\ single[i - 1] = s[p] /\ single[i] = s[q] /\ \A m \in kept : ~(p < m /\ m < q)
    <3>1. Joined(single, s, kept, i, p, q)
      BY <1>3, <1>5, <1>8, Neighbours
    <3> HIDE DEF p, q
    <3>2. QED
      BY <3>1 DEF Joined
  <2> HIDE DEF p, q
  <2>2. IsHorizontal(s, p) /\ IsHorizontal(s, q) /\ ~IsHorizontal(s, q - 1)
    BY <1>4, <1>9, <2>1 DEF IsHorizontal
  <2>3. q - 1 # p /\ q - 1 \in 1 .. Len(s)
    BY <1>5, <2>1, <2>2
  <2>4. p < q - 1 /\ q - 1 < q
    BY <2>1, <2>3
  <2>5. q - 1 \notin kept
    BY <2>1, <2>4
  <2>6. QED
    BY <1>3, <2>2, <2>3, <2>5
<1>10. Single(SingleSpaces(s))
  <2> SUFFICES ASSUME NEW i \in 2 .. Len(single), SingleSpaces(s)[i] = "space", SingleSpaces(s)[i - 1] = "space"
               PROVE  FALSE
    BY <1>7 DEF Single
  <2>1. i \in 1 .. Len(single) /\ i - 1 \in 1 .. Len(single)
    BY <1>5
  <2>2. IsHorizontal(single, i) /\ IsHorizontal(single, i - 1)
    BY <1>2, <2>1 DEF IsHorizontal
  <2>3. QED
    BY <1>9, <2>2
<1>11. QED
  BY <1>7, <1>10

LEMMA LinesAre ==
  ASSUME NEW s \in Seq(Kind), Single(s)
  PROVE  /\ StripLines(s) \in Seq(Kind)
         /\ Single(StripLines(s)) /\ Trimmed(StripLines(s))
<1> DEFINE kept == {p \in 1 .. Len(s) : s[p] = "lf" \/ InLine(s, p)}
           t == StripLines(s)
<1>1. t \in Seq(Kind) /\ \E order : Left(t, s, kept, order)
  BY KeepIs DEF StripLines
<1>2. Len(s) \in Nat /\ Len(t) \in Nat /\ kept \subseteq 1 .. Len(s)
  BY <1>1
<1>3. \A p \in 1 .. Len(s) : p \in kept <=> s[p] = "lf" \/ InLine(s, p)
  OBVIOUS
<1>4. ASSUME NEW p \in 1 .. Len(s), IsText(s, p)
      PROVE  p \in kept
  <2>1. p \in 1 .. p /\ p \in p .. Len(s) /\ \A m \in p .. p : m = p
    OBVIOUS
  <2>2. s[p] # "lf"
    BY <1>4 DEF IsText
  <2>3. InLine(s, p)
    BY <1>4, <2>1, <2>2 DEF InLine
  <2>4. QED
    BY <2>3
<1> HIDE DEF t, kept
<1>5. PICK order : Left(t, s, kept, order)
  BY <1>1
<1>6. ASSUME NEW i \in 2 .. Len(t), t[i] = "space", t[i - 1] = "space"
      PROVE  FALSE
  <2> DEFINE p == order[i - 1]
             q == order[i]
  <2>1. /\ p \in Nat /\ 1 <= p /\ q \in Nat /\ q <= Len(s) /\ p < q /\ p \in kept /\ q \in kept
        /\ s[p] = "space" /\ s[q] = "space" /\ \A m \in kept : ~(p < m /\ m < q)
    <3>1. Joined(t, s, kept, i, p, q)
      BY <1>2, <1>5, Neighbours
    <3> HIDE DEF p, q
    <3>2. QED
      BY <1>6, <3>1 DEF Joined
  <2> HIDE DEF p, q
  <2>2. p # q - 1
    <3>1. q \in 2 .. Len(s)
      BY <1>2, <2>1
    <3>2. QED
      BY <2>1, <3>1 DEF Single
  <2>3. \A m \in p .. q : s[m] # "lf"
    <3> SUFFICES ASSUME NEW m \in p .. q, s[m] = "lf" PROVE FALSE
      OBVIOUS
    <3>1. m # p /\ m # q
      BY <2>1
    <3>2. m \in 1 .. Len(s) /\ p < m /\ m < q
      BY <1>2, <2>1, <3>1
    <3>3. QED
      BY <1>3, <2>1, <3>2
  <2>4. PICK before \in 1 .. p, other \in p .. Len(s) :
          IsText(s, before) /\ \A m \in before .. other : s[m] # "lf"
    <3>1. p \in 1 .. Len(s) /\ s[p] # "lf"
      BY <1>2, <2>1
    <3>2. InLine(s, p)
      BY <1>3, <2>1, <3>1
    <3>3. QED
      BY <3>2 DEF InLine
  <2>5. PICK another \in 1 .. q, after \in q .. Len(s) :
          IsText(s, after) /\ \A m \in another .. after : s[m] # "lf"
    <3>1. q \in 1 .. Len(s) /\ s[q] # "lf"
      BY <1>2, <2>1
    <3>2. InLine(s, q)
      BY <1>3, <2>1, <3>1
    <3>3. QED
      BY <3>2 DEF InLine
  <2>6. \A m \in before .. after : s[m] # "lf"
    <3> SUFFICES ASSUME NEW m \in before .. after PROVE s[m] # "lf"
      OBVIOUS
    <3>1. /\ before \in Nat /\ other \in Nat /\ another \in Nat /\ after \in Nat /\ m \in Nat
          /\ p <= other /\ another <= q
      BY <1>2, <2>1
    <3>2. CASE m <= p
      BY <2>1, <2>4, <3>1, <3>2
    <3>3. CASE p <= m /\ m <= q
      BY <2>1, <2>3, <3>1, <3>3
    <3>4. CASE q <= m
      BY <2>1, <2>5, <3>1, <3>4
    <3>5. QED
      BY <2>1, <3>1, <3>2, <3>3, <3>4
  <2>7. p + 1 \in 1 .. Len(s) /\ before \in 1 .. (p + 1) /\ after \in (p + 1) .. Len(s)
    BY <1>2, <2>1
  <2>8. p + 1 \in kept
    BY <1>3, <2>4, <2>5, <2>6, <2>7 DEF InLine
  <2>9. QED
    BY <2>1, <2>2, <2>8
<1>7. ASSUME NEW i \in 1 .. Len(t), t[i] # "lf"
      PROVE  InLine(t, i)
  <2>1. order[i] \in kept /\ t[i] = s[order[i]]
    BY <1>5 DEF Left
  <2>2. InLine(s, order[i])
    BY <1>2, <1>3, <1>7, <2>1
  <2>3. PICK q \in 1 .. order[i], r \in order[i] .. Len(s) :
          IsText(s, q) /\ IsText(s, r) /\ \A m \in q .. r : s[m] # "lf"
    BY <2>2 DEF InLine
  <2>4. Around(t, i, s, q, r)
    BY <1>2, <1>4, <1>5, <2>3, TextStays
  <2>5. QED
    BY <2>3, <2>4 DEF InLine, Around
<1>8. QED
  BY <1>1, <1>6, <1>7 DEF Single, Trimmed, t

LEMMA NewlinesAre ==
  ASSUME NEW s \in Seq(Kind), Single(s), Trimmed(s)
  PROVE  /\ TwoNewlines(s) \in Seq(Kind)
         /\ Single(TwoNewlines(s)) /\ Trimmed(TwoNewlines(s)) /\ Paired(TwoNewlines(s))
<1> DEFINE kept == {p \in 1 .. Len(s) : ~(p > 2 /\ s[p] = "lf" /\ s[p - 1] = "lf" /\ s[p - 2] = "lf")}
           t == TwoNewlines(s)
<1>1. t \in Seq(Kind) /\ \E order : Left(t, s, kept, order)
  BY KeepIs DEF TwoNewlines
<1>2. Len(s) \in Nat /\ Len(t) \in Nat /\ kept \subseteq 1 .. Len(s)
  BY <1>1
<1>3. \A p \in 1 .. Len(s) : p \notin kept <=> p > 2 /\ s[p] = "lf" /\ s[p - 1] = "lf" /\ s[p - 2] = "lf"
  OBVIOUS
<1>4. \A p \in 1 .. Len(s) : IsText(s, p) => p \in kept
  BY <1>3 DEF IsText
<1> HIDE DEF t, kept
<1>5. PICK order : Left(t, s, kept, order)
  BY <1>1
\* Neighbours that were none before are newlines before a newline that was dropped.
<1>6. ASSUME NEW i \in 2 .. Len(t)
      PROVE  /\ order[i - 1] \in Nat /\ order[i] \in Nat /\ 1 <= order[i - 1] /\ order[i] <= Len(s)
             /\ order[i - 1] < order[i] /\ order[i] \in kept
             /\ t[i - 1] = s[order[i - 1]] /\ t[i] = s[order[i]]
             /\ order[i - 1] = order[i] - 1 \/ (t[i - 1] = "lf" /\ s[order[i] - 1] = "lf" /\ s[order[i] - 2] = "lf")
  <2> DEFINE p == order[i - 1]
             q == order[i]
  <2>1. /\ p \in Nat /\ 1 <= p /\ q \in Nat /\ q <= Len(s) /\ p < q /\ q \in kept
        /\ t[i - 1] = s[p] /\ t[i] = s[q] /\ \A m \in kept : ~(p < m /\ m < q)
    <3>1. Joined(t, s, kept, i, p, q)
      BY <1>2, <1>5, Neighbours
    <3> HIDE DEF p, q
    <3>2. QED
      BY <3>1 DEF Joined
  <2> HIDE DEF p, q
  <2>2. CASE p # q - 1
    <3>1. /\ p + 1 \in 1 .. Len(s) /\ p < p + 1 /\ p + 1 < q /\ (p + 1) - 1 = p
          /\ q - 1 \in 1 .. Len(s) /\ p < q - 1 /\ q - 1 < q /\ (q - 1) - 1 = q - 2
      BY <1>2, <2>1, <2>2
    <3>2. p + 1 \notin kept /\ q - 1 \notin kept
      BY <2>1, <3>1
    <3>3. s[p] = "lf" /\ s[q - 1] = "lf" /\ s[q - 2] = "lf"
      BY <1>3, <3>1, <3>2
    <3>4. QED
      BY <2>1, <3>3 DEF p, q
  <2>3. QED
    BY <2>1, <2>2 DEF p, q
<1>7. Single(t)
  <2> SUFFICES ASSUME NEW i \in 2 .. Len(t), t[i] = "space", t[i - 1] = "space"
               PROVE  FALSE
    BY DEF Single
  <2>1. order[i - 1] = order[i] - 1 /\ order[i] \in 2 .. Len(s) /\ s[order[i]] = "space" /\ s[order[i] - 1] = "space"
    BY <1>2, <1>6
  <2>2. QED
    BY <2>1 DEF Single
<1>8. Trimmed(t)
  <2> SUFFICES ASSUME NEW i \in 1 .. Len(t), t[i] # "lf"
               PROVE  InLine(t, i)
    BY DEF Trimmed
  <2>1. order[i] \in kept /\ t[i] = s[order[i]]
    BY <1>5 DEF Left
  <2>2. InLine(s, order[i])
    BY <1>2, <2>1 DEF Trimmed
  <2>3. PICK q \in 1 .. order[i], r \in order[i] .. Len(s) :
          IsText(s, q) /\ IsText(s, r) /\ \A m \in q .. r : s[m] # "lf"
    BY <2>2 DEF InLine
  <2>4. Around(t, i, s, q, r)
    BY <1>2, <1>4, <1>5, <2>3, TextStays
  <2>5. QED
    BY <2>3, <2>4 DEF InLine, Around
<1>9. Paired(t)
  <2> SUFFICES ASSUME NEW i \in 3 .. Len(t), t[i] = "lf", t[i - 1] = "lf", t[i - 2] = "lf"
               PROVE  FALSE
    BY DEF Paired
  <2>1. i \in 2 .. Len(t) /\ i - 1 \in 2 .. Len(t) /\ (i - 1) - 1 = i - 2
    BY <1>2
  <2> DEFINE p == order[i - 2]
             q == order[i - 1]
             r == order[i]
  <2>2. /\ q \in Nat /\ r \in Nat /\ r <= Len(s) /\ q < r /\ r \in kept /\ s[r] = "lf"
        /\ q = r - 1 \/ (s[r - 1] = "lf" /\ s[r - 2] = "lf")
    BY <1>6, <2>1
  <2>3. /\ p \in Nat /\ 1 <= p /\ p < q /\ s[p] = "lf" /\ s[q] = "lf"
        /\ p = q - 1 \/ (s[q - 1] = "lf" /\ s[q - 2] = "lf")
    BY <1>6, <2>1
  <2> HIDE DEF p, q, r
  <2>4. r \in 1 .. Len(s) /\ r > 2
    BY <1>2, <2>2, <2>3
  <2>5. s[r - 1] = "lf" /\ s[r - 2] = "lf"
    <3>1. CASE q = r - 1
      <4>1. q - 1 = r - 2
        BY <2>2, <3>1
      <4>2. QED
        BY <2>3, <3>1, <4>1
    <3>2. CASE q # r - 1
      BY <2>2, <3>2
    <3>3. QED
      BY <3>1, <3>2
  <2>6. QED
    BY <1>3, <2>2, <2>4, <2>5
<1>10. QED
  BY <1>1, <1>7, <1>8, <1>9 DEF t

LEMMA StripIs ==
  ASSUME NEW s \in Seq(Kind), Single(s), Trimmed(s), Paired(s)
  PROVE  Normal(Strip(s))
<1> DEFINE Edge(p) == \E q \in 1 .. p, r \in p .. Len(s) : IsText(s, q) /\ IsText(s, r)
           kept == {p \in 1 .. Len(s) : Edge(p)}
           t == Strip(s)
<1>1. t \in Seq(Kind) /\ \E order : Left(t, s, kept, order)
  BY KeepIs DEF Strip
<1>2. Len(s) \in Nat /\ Len(t) \in Nat /\ kept \subseteq 1 .. Len(s)
  BY <1>1
<1>3. \A p \in 1 .. Len(s) : p \in kept <=> Edge(p)
  OBVIOUS
<1>4. ASSUME NEW p \in 1 .. Len(s), IsText(s, p)
      PROVE  p \in kept
  <2>1. p \in 1 .. p /\ p \in p .. Len(s)
    OBVIOUS
  <2>2. QED
    BY <1>4, <2>1
<1> HIDE DEF t, kept
<1>5. PICK order : Left(t, s, kept, order)
  BY <1>1
\* What is kept is one piece.
<1>6. ASSUME NEW i \in 2 .. Len(t)
      PROVE  /\ order[i] \in 2 .. Len(s) /\ order[i - 1] = order[i] - 1
             /\ t[i - 1] = s[order[i] - 1] /\ t[i] = s[order[i]]
  <2> DEFINE p == order[i - 1]
             q == order[i]
  <2>1. /\ p \in Nat /\ 1 <= p /\ q \in Nat /\ q <= Len(s) /\ p < q /\ p \in kept /\ q \in kept
        /\ t[i - 1] = s[p] /\ t[i] = s[q] /\ \A m \in kept : ~(p < m /\ m < q)
    <3>1. Joined(t, s, kept, i, p, q)
      BY <1>2, <1>5, Neighbours
    <3> HIDE DEF p, q
    <3>2. QED
      BY <3>1 DEF Joined
  <2> HIDE DEF p, q
  <2>2. PICK before \in 1 .. p : IsText(s, before)
    BY <1>3, <2>1
  <2>3. PICK after \in q .. Len(s) : IsText(s, after)
    BY <1>3, <2>1
  <2>4. p + 1 \in 1 .. Len(s) /\ before \in 1 .. (p + 1) /\ after \in (p + 1) .. Len(s)
    BY <1>2, <2>1
  <2>5. p + 1 \in kept
    BY <1>3, <2>2, <2>3, <2>4
  <2>6. p = q - 1
    BY <2>1, <2>5
  <2>7. q \in 2 .. Len(s)
    BY <1>2, <2>1
  <2>8. QED
    BY <2>1, <2>6, <2>7 DEF p, q
<1>7. Single(t)
  BY <1>6 DEF Single
<1>8. Paired(t)
  <2> SUFFICES ASSUME NEW i \in 3 .. Len(t), t[i] = "lf", t[i - 1] = "lf", t[i - 2] = "lf"
               PROVE  FALSE
    BY DEF Paired
  <2>1. i \in 2 .. Len(t) /\ i - 1 \in 2 .. Len(t) /\ (i - 1) - 1 = i - 2
    BY <1>2
  <2>2. order[i] \in Nat /\ s[order[i]] = "lf" /\ s[order[i] - 1] = "lf" /\ order[i - 1] = order[i] - 1 /\ order[i] <= Len(s)
    BY <1>2, <1>6, <2>1
  <2>3. order[i - 1] \in 2 .. Len(s) /\ s[order[i - 1] - 1] = "lf"
    BY <1>6, <2>1
  <2>4. order[i] \in 3 .. Len(s) /\ order[i - 1] - 1 = order[i] - 2
    BY <1>2, <2>2, <2>3
  <2>5. QED
    BY <2>2, <2>3, <2>4 DEF Paired
<1>9. ASSUME NEW i \in 1 .. Len(t)
      PROVE  order[i] \in kept /\ order[i] \in 1 .. Len(s) /\ t[i] = s[order[i]] /\ Edge(order[i])
  <2>1. order[i] \in kept /\ t[i] = s[order[i]]
    BY <1>5 DEF Left
  <2>2. QED
    BY <1>2, <1>3, <2>1
<1>10. Trimmed(t)
  <2> SUFFICES ASSUME NEW i \in 1 .. Len(t), t[i] # "lf"
               PROVE  InLine(t, i)
    BY DEF Trimmed
  <2>1. InLine(s, order[i])
    BY <1>9 DEF Trimmed
  <2>2. PICK q \in 1 .. order[i], r \in order[i] .. Len(s) :
          IsText(s, q) /\ IsText(s, r) /\ \A m \in q .. r : s[m] # "lf"
    BY <2>1 DEF InLine
  <2>3. Around(t, i, s, q, r)
    BY <1>2, <1>4, <1>5, <2>2, TextStays
  <2>4. QED
    BY <2>2, <2>3 DEF InLine, Around
<1>11. Edged(t)
  <2> SUFFICES ASSUME NEW i \in 1 .. Len(t)
               PROVE  \E q \in 1 .. i, r \in i .. Len(t) : IsText(t, q) /\ IsText(t, r)
    BY DEF Edged
  <2>1. PICK q \in 1 .. order[i], r \in order[i] .. Len(s) : IsText(s, q) /\ IsText(s, r)
    BY <1>9
  <2>2. Around(t, i, s, q, r)
    BY <1>2, <1>4, <1>5, <2>1, TextStays
  <2>3. QED
    BY <2>2 DEF Around
<1>12. QED
  BY <1>1, <1>7, <1>8, <1>10, <1>11 DEF Normal, t

\* Whatever a client sends, its normalization is in normal form: no tab and no
\* carriage return, single spaces, trimmed lines, at most two newlines in a row,
\* and text at both ends.
THEOREM NormalizeIs ==
  ASSUME NEW s \in Seq(RawKind)
  PROVE  Normal(Normalize(s))
<1>1. UnixNewlines(s) \in Seq(RawKind \ {"cr"})
  BY UnixIs
<1> DEFINE spaced == SingleSpaces(UnixNewlines(s))
           lines == StripLines(spaced)
           paired == TwoNewlines(lines)
<1>2. spaced \in Seq(Kind) /\ Single(spaced)
  BY <1>1, SpacesAre
<1> HIDE DEF spaced
<1>3. lines \in Seq(Kind) /\ Single(lines) /\ Trimmed(lines)
  BY <1>2, LinesAre
<1> HIDE DEF lines
<1>4. paired \in Seq(Kind) /\ Single(paired) /\ Trimmed(paired) /\ Paired(paired)
  BY <1>3, NewlinesAre
<1> HIDE DEF paired
<1>5. Normal(Strip(paired))
  BY <1>4, StripIs
<1>6. QED
  BY <1>5 DEF Normalize, paired, lines, spaced

\* No step of normalize_text changes a text that is in normal form.
THEOREM NormalStays ==
  ASSUME NEW t, Normal(t)
  PROVE  Normalize(t) = t
<1>1. /\ t \in Seq(Kind) /\ Len(t) \in Nat /\ \A p \in 1 .. Len(t) : t[p] \in Kind
      /\ t = [p \in 1 .. Len(t) |-> t[p]]
  BY DEF Normal
<1>2. Keep(t, 1 .. Len(t)) = t
  BY <1>1, KeepAll
<1>3. \A p \in 1 .. Len(t) : t[p] # "cr" /\ t[p] # "tab"
  BY <1>1 DEF Kind
<1>4. UnixNewlines(t) = t
  <2> DEFINE kept == {p \in 1 .. Len(t) : ~(t[p] = "lf" /\ p > 1 /\ t[p - 1] = "cr")}
  <2>1. kept = 1 .. Len(t)
    <3>1. \A p \in 1 .. Len(t) : p > 1 => p - 1 \in 1 .. Len(t)
      BY <1>1
    <3>2. QED
      BY <1>3, <3>1
  <2>2. Keep(t, kept) = t
    BY <1>2, <2>1
  <2>3. UnixNewlines(t) = [p \in 1 .. Len(t) |-> IF t[p] = "cr" THEN "lf" ELSE t[p]]
    BY <2>2 DEF UnixNewlines
  <2>4. [p \in 1 .. Len(t) |-> IF t[p] = "cr" THEN "lf" ELSE t[p]] = [p \in 1 .. Len(t) |-> t[p]]
    BY <1>3
  <2>5. QED
    BY <1>1, <2>3, <2>4
<1>5. SingleSpaces(t) = t
  <2> DEFINE kept == {p \in 1 .. Len(t) : ~(IsHorizontal(t, p) /\ p > 1 /\ IsHorizontal(t, p - 1))}
  <2>1. kept = 1 .. Len(t)
    <3>1. \A p \in 1 .. Len(t) : p > 1 => p \in 2 .. Len(t) /\ p - 1 \in 1 .. Len(t)
      BY <1>1
    <3>2. QED
      BY <1>3, <3>1 DEF IsHorizontal, Normal, Single
  <2>2. Keep(t, kept) = t
    BY <1>2, <2>1
  <2>3. SingleSpaces(t) = [p \in 1 .. Len(t) |-> IF t[p] = "tab" THEN "space" ELSE t[p]]
    BY <2>2 DEF SingleSpaces
  <2>4. [p \in 1 .. Len(t) |-> IF t[p] = "tab" THEN "space" ELSE t[p]] = [p \in 1 .. Len(t) |-> t[p]]
    BY <1>3
  <2>5. QED
    BY <1>1, <2>3, <2>4
<1>6. StripLines(t) = t
  <2>1. {p \in 1 .. Len(t) : t[p] = "lf" \/ InLine(t, p)} = 1 .. Len(t)
    BY DEF Normal, Trimmed
  <2>2. QED
    BY <1>2, <2>1 DEF StripLines
<1>7. TwoNewlines(t) = t
  <2>1. {p \in 1 .. Len(t) : ~(p > 2 /\ t[p] = "lf" /\ t[p - 1] = "lf" /\ t[p - 2] = "lf")} = 1 .. Len(t)
    <3>1. \A p \in 1 .. Len(t) : p > 2 => p \in 3 .. Len(t)
      BY <1>1
    <3>2. QED
      BY <3>1 DEF Normal, Paired
  <2>2. QED
    BY <1>2, <2>1 DEF TwoNewlines
<1>8. Strip(t) = t
  <2>1. {p \in 1 .. Len(t) : \E q \in 1 .. p, r \in p .. Len(t) : IsText(t, q) /\ IsText(t, r)} = 1 .. Len(t)
    BY DEF Normal, Edged
  <2>2. QED
    BY <1>2, <2>1 DEF Strip
<1>9. QED
  BY <1>4, <1>5, <1>6, <1>7, <1>8 DEF Normalize

----------------------------------------------------------------------------
(* The loop of chunk_text.                                                 *)

\* A window is cut after its first position and at most chunk_size further.
LEMMA CutIsInWindow ==
  ASSUME TypeOK, Valid, start <= Length, NEW end \in Cuts
  PROVE  /\ end \in (start + 1) .. (Length + 1)
         /\ end <= start + chunk_size
<1>1. /\ Length \in Nat /\ start \in 1 .. (Length + 1)
      /\ chunk_size \in Nat /\ chunk_size > 0
  BY DEF TypeOK, Valid, Length
<1>2. WindowEnd \in (start + 1) .. (Length + 1) /\ WindowEnd <= start + chunk_size
  BY <1>1 DEF WindowEnd
<1>3. QED
  BY <1>1, <1>2 DEF Cuts, Breaks

\* The next window starts after this one did, at most at the cut, and at most
\* overlap positions before it; what is skipped is whitespace.
LEMMA NextStartIsAfter ==
  ASSUME TypeOK, Valid, start <= Length, NEW end \in Cuts, NEW n \in NextStarts(end)
  PROVE  n \in (start + 1) .. end /\ n >= end - overlap
<1>1. end \in (start + 1) .. (Length + 1)
  BY CutIsInWindow
<1>2. start \in Nat /\ overlap \in Int /\ overlap >= 0 /\ end \in Nat
  BY <1>1 DEF TypeOK, Valid, Length
<1>3. Back(end) \in Int /\ Back(end) >= start + 1 /\ Back(end) >= end - overlap
  BY <1>2 DEF Back
<1>4. QED
  BY <1>2, <1>3 DEF NextStarts

\* A stripped window keeps all its characters that are no whitespace.
LEMMA StripKeepsText ==
  ASSUME TypeOK, NEW end \in 1 .. (Length + 1)
  PROVE  /\ Stripped(end) \subseteq start .. (end - 1)
         /\ Stripped(end) \subseteq 1 .. Length
         /\ \A p \in start .. (end - 1) : ~IsSpace(p) => p \in Stripped(end)
<1>1. start \in Nat /\ start >= 1 /\ Length \in Nat
  BY DEF TypeOK, Length
<1>2. QED
  BY <1>1 DEF Stripped

\* Emitting a chunk keeps those before it and appends it unless it is empty.
LEMMA EmitAppends ==
  ASSUME TypeOK, NEW chunk \in SUBSET (1 .. Length), Emit(chunk)
  PROVE  /\ chunks' \in Seq(Chunk)
         /\ \A k \in 1 .. Len(chunks) : k \in 1 .. Len(chunks') /\ chunks'[k] = chunks[k]
         /\ chunk = {} => chunks' = chunks
         /\ chunk # {} => /\ Len(chunks') = Len(chunks) + 1
                          /\ chunks'[Len(chunks) + 1] = chunk
<1>1. chunks \in Seq(Chunk)
  BY DEF TypeOK
<1>2. CASE chunk = {}
  BY <1>1, <1>2 DEF Emit
<1>3. CASE chunk # {}
  <2>1. chunk \in Chunk
    BY <1>3 DEF Chunk
  <2>2. chunks' = Append(chunks, chunk)
    BY <1>3 DEF Emit
  <2>3. chunks' \in Seq(Chunk) /\ Len(chunks') = Len(chunks) + 1
    BY <1>1, <2>1, <2>2
  <2>4. chunks'[Len(chunks) + 1] = chunk
    BY <1>1, <2>1, <2>2
  <2>5. \A k \in 1 .. Len(chunks) : k \in 1 .. Len(chunks') /\ chunks'[k] = chunks[k]
    BY <1>1, <2>1, <2>2
  <2>6. QED
    BY <1>3, <2>3, <2>4, <2>5
<1>4. QED
  BY <1>2, <1>3

\* One iteration of the loop keeps the invariant.
LEMMA SplitKeepsInvariant == IInv /\ Split => IInv'
<1> SUFFICES ASSUME IInv, Split
             PROVE  IInv'
  OBVIOUS
<1>1. PICK end \in Cuts :
        /\ Emit(Stripped(end))
        /\ IF end > Length
           THEN outcome' = "returned" /\ UNCHANGED start
           ELSE start' \in NextStarts(end) /\ UNCHANGED outcome
  BY DEF Split
<1>2. /\ TypeOK /\ Valid /\ start <= Length /\ outcome = "running"
      /\ UNCHANGED <<text, chunk_size, overlap>>
  BY DEF Split, IInv
<1>3. Length' = Length /\ \A p : IsSpace(p)' = IsSpace(p)
  BY <1>2 DEF Length, IsSpace
<1>4. /\ Length \in Nat /\ start \in 1 .. (Length + 1) /\ chunk_size \in Nat
      /\ overlap \in Int /\ overlap >= 0
  BY <1>2 DEF TypeOK, Valid, Length
<1>5. end \in (start + 1) .. (Length + 1) /\ end <= start + chunk_size
  BY <1>2, CutIsInWindow
<1>6. end \in 1 .. (Length + 1)
  BY <1>4, <1>5
<1> DEFINE chunk == Stripped(end)
<1>7. /\ chunk \subseteq start .. (end - 1)
      /\ chunk \in SUBSET (1 .. Length)
      /\ \A p \in start .. (end - 1) : ~IsSpace(p) => p \in chunk
  BY <1>2, <1>6, StripKeepsText
<1> HIDE DEF chunk
<1>8. /\ chunks' \in Seq(Chunk)
      /\ \A k \in 1 .. Len(chunks) : k \in 1 .. Len(chunks') /\ chunks'[k] = chunks[k]
      /\ chunk = {} => chunks' = chunks
      /\ chunk # {} => /\ Len(chunks') = Len(chunks) + 1
                       /\ chunks'[Len(chunks) + 1] = chunk
  BY <1>1, <1>2, <1>7, EmitAppends DEF chunk
<1>9. Chunk' = Chunk /\ chunks \in Seq(Chunk)
  BY <1>2, <1>3 DEF Chunk, TypeOK
<1>10. Len(chunks) \in Nat /\ Len(chunks') \in Nat
  BY <1>8, <1>9
<1>11. CoveredBefore(end)'
  <2> SUFFICES ASSUME NEW p \in 1 .. Length, p < end, ~IsSpace(p)
               PROVE  Covered(p)'
    BY <1>3 DEF CoveredBefore
  <2>1. CASE p < start
    <3>1. Covered(p)
      BY <2>1 DEF IInv, CoveredBefore
    <3>2. QED
      BY <3>1, <1>8 DEF Covered
  <2>2. CASE p >= start
    <3>1. p \in chunk
      BY <2>2, <1>4, <1>5, <1>7
    <3>2. QED
      BY <3>1, <1>8, <1>10 DEF Covered
  <2>3. QED
    BY <2>1, <2>2, <1>4
<1>12. ChunksFit'
  <2> SUFFICES ASSUME NEW k \in 1 .. Len(chunks'), NEW p \in chunks'[k], NEW q \in chunks'[k]
               PROVE  q - p < chunk_size
    BY <1>2 DEF ChunksFit
  <2>1. CASE k \in 1 .. Len(chunks)
    BY <2>1, <1>8 DEF IInv, ChunksFit
  <2>2. CASE k \notin 1 .. Len(chunks)
    <3>1. k = Len(chunks) + 1 /\ chunk # {}
      BY <2>2, <1>8, <1>10
    <3>2. p \in start .. (end - 1) /\ q \in start .. (end - 1)
      BY <3>1, <1>7, <1>8
    <3>3. QED
      BY <3>2, <1>4, <1>5
  <2>3. QED
    BY <2>1, <2>2
<1>13. OverlapIsBounded'
  <2> SUFFICES ASSUME NEW k \in 1 .. (Len(chunks') - 1),
                      NEW p \in chunks'[k] \cap chunks'[k + 1],
                      NEW q \in chunks'[k] \cap chunks'[k + 1]
               PROVE  q - p < overlap
    BY <1>2 DEF OverlapIsBounded
  <2>1. CASE k \in 1 .. (Len(chunks) - 1)
    <3>1. chunks'[k] = chunks[k] /\ chunks'[k + 1] = chunks[k + 1]
      BY <2>1, <1>8, <1>10
    <3>2. QED
      BY <2>1, <3>1 DEF IInv, OverlapIsBounded
  <2>2. CASE k \notin 1 .. (Len(chunks) - 1)
    <3>1. k = Len(chunks) /\ chunk # {} /\ chunks # <<>>
      BY <2>2, <1>8, <1>9, <1>10
    <3>2. chunks'[k] = chunks[Len(chunks)] /\ chunks'[k + 1] = chunk
      BY <3>1, <1>8, <1>10
    <3>3. q < start + overlap
      BY <3>1, <3>2, <1>2 DEF IInv, LastReach
    <3>4. p \in start .. (end - 1) /\ q \in start .. (end - 1)
      BY <3>2, <1>7
    <3>5. QED
      BY <3>3, <3>4, <1>4, <1>5
  <2>3. QED
    BY <2>1, <2>2
<1>14. CASE end > Length
  <2>1. outcome' = "returned" /\ start' = start
    BY <1>1, <1>14
  <2>2. TypeOK'
    BY <2>1, <1>2, <1>3, <1>4, <1>8, <1>9 DEF TypeOK
  <2>3. NothingIsLost' /\ CoveredBefore(start)'
    BY <2>1, <1>3, <1>4, <1>5, <1>11, <1>14 DEF NothingIsLost, CoveredBefore
  <2>4. QED
    BY <2>1, <2>2, <2>3, <1>12, <1>13 DEF IInv
<1>15. CASE ~(end > Length)
  <2>1. outcome' = outcome
    BY <1>1, <1>15
  <2>2. PICK n \in NextStarts(end) : start' = n
    BY <1>1, <1>15
  <2>3. n \in (start + 1) .. end /\ n >= end - overlap
    BY <1>2, NextStartIsAfter
  <2>4. TypeOK'
    BY <2>1, <2>2, <2>3, <1>2, <1>3, <1>4, <1>5, <1>8, <1>9 DEF TypeOK
  <2>5. NothingIsLost'
    BY <2>1, <1>2 DEF NothingIsLost
  <2>6. CoveredBefore(start)'
    BY <2>2, <2>3, <1>3, <1>4, <1>5, <1>11 DEF CoveredBefore
  <2>7. LastReach'
    <3> SUFFICES ASSUME chunks' # <<>>, NEW p \in chunks'[Len(chunks')]
                 PROVE  p < n + overlap
      BY <1>2, <2>2 DEF LastReach
    <3>1. CASE chunk = {}
      <4>1. p < start + overlap
        BY <3>1, <1>2, <1>8 DEF IInv, LastReach
      <4>2. p \in Nat
        BY <3>1, <1>4, <1>8, <1>9 DEF Chunk
      <4>3. QED
        BY <4>1, <4>2, <2>3, <1>4, <1>5
    <3>2. CASE chunk # {}
      <4>1. p \in start .. (end - 1)
        BY <3>2, <1>7, <1>8
      <4>2. QED
        BY <4>1, <2>3, <1>4, <1>5
    <3>3. QED
      BY <3>1, <3>2
  <2>8. QED
    BY <2>4, <2>5, <2>6, <2>7, <1>12, <1>13 DEF IInv
<1>16. QED
  BY <1>14, <1>15

\* The invariant of the loop, for any text, size and overlap.
THEOREM ChunkingInvariant == Spec => []IInv
<1>1. Init => IInv
  <2> SUFFICES ASSUME Init
               PROVE  IInv
    OBVIOUS
  <2>1. /\ text \in Seq(Kind) /\ chunk_size \in Nat /\ overlap \in Int
        /\ start = 1 /\ chunks = <<>> /\ outcome = "running"
    <3>1. PICK raw \in Raw : text = Normalize(raw)
      BY DEF Init, Documents
    <3>2. Normal(text)
      BY <3>1, ChunkingAssumption, NormalizeIs
    <3>3. QED
      BY <3>2, ChunkingAssumption DEF Init, Normal
  <2>2. TypeOK
    BY <2>1 DEF TypeOK, Length
  <2>3. CoveredBefore(start)
    BY <2>1 DEF CoveredBefore, Length
  <2>4. QED
    BY <2>1, <2>2, <2>3 DEF IInv, LastReach, NothingIsLost, ChunksFit, OverlapIsBounded
<1>2. IInv /\ [Next]_vars => IInv'
  <2> SUFFICES ASSUME IInv, [Next]_vars
               PROVE  IInv'
    OBVIOUS
  <2> USE DEF IInv, TypeOK, Chunk, LastReach, CoveredBefore, Covered, NothingIsLost, ChunksFit,
              OverlapIsBounded, Length, IsSpace
  <2>1. CASE Split
    BY <2>1, SplitKeepsInvariant
  <2>2. CASE Reject
    BY <2>2 DEF Reject
  <2>3. CASE UNCHANGED vars
    BY <2>3 DEF vars
  <2>4. QED
    BY <2>1, <2>2, <2>3 DEF Next
<1>3. QED
  BY <1>1, <1>2, PTL DEF Spec

\* chunk_text loses no text: when it returns, every character that is no
\* whitespace is in some chunk.
THEOREM TextIsKept == Spec => []NothingIsLost
<1>1. IInv => NothingIsLost
  BY DEF IInv
<1>2. QED
  BY <1>1, ChunkingInvariant, PTL

\* No chunk exceeds the character budget.
THEOREM BudgetIsKept == Spec => []ChunksFit
<1>1. IInv => ChunksFit
  BY DEF IInv
<1>2. QED
  BY <1>1, ChunkingInvariant, PTL

\* Consecutive chunks share at most overlap characters.
THEOREM OverlapIsKept == Spec => []OverlapIsBounded
<1>1. IInv => OverlapIsBounded
  BY DEF IInv
<1>2. QED
  BY <1>1, ChunkingInvariant, PTL

\* Every iteration that is not the last moves the window forward and not past
\* the end of the text, so that there are at most as many as characters.
THEOREM LoopAdvances == Spec => WindowAdvances
<1>1. ASSUME IInv, Split, outcome' = "running"
      PROVE  start' \in (start + 1) .. (Length + 1)
  <2>1. TypeOK /\ Valid /\ start <= Length
    BY <1>1 DEF IInv, Split
  <2>2. PICK end \in Cuts : start' \in NextStarts(end)
    BY <1>1 DEF Split
  <2>3. PICK n \in NextStarts(end) : start' = n
    BY <2>2
  <2>4. n \in (start + 1) .. end
    BY <2>1, NextStartIsAfter
  <2>5. end \in (start + 1) .. (Length + 1)
    BY <2>1, CutIsInWindow
  <2>6. start \in Int /\ Length \in Int
    BY <2>1 DEF TypeOK, Length
  <2>7. QED
    BY <2>3, <2>4, <2>5, <2>6
<1>2. IInv /\ [Next]_vars => [Split /\ outcome' = "running" => start' \in (start + 1) .. (Length + 1)]_vars
  BY <1>1
<1>3. QED
  BY <1>2, ChunkingInvariant, PTL DEF Spec, WindowAdvances

\* Normalizing the document that is being chunked would not change it: what
\* normalize_text returns is in normal form, where lines are trimmed, single
\* spaces and at most two newlines separate, and both ends are text; and a text
\* in normal form is its own normalization.
THEOREM NormalizationStable == Spec => []NormalizationIsStable
<1>1. Init => NormalizationIsStable
  <2> SUFFICES ASSUME Init
               PROVE  NormalizationIsStable
    OBVIOUS
  <2>1. PICK raw \in Raw : text = Normalize(raw)
    BY DEF Init, Documents
  <2>2. Normal(text)
    BY <2>1, ChunkingAssumption, NormalizeIs
  <2>3. QED
    BY <2>2, NormalStays DEF NormalizationIsStable
<1>2. NormalizationIsStable /\ [Next]_vars => NormalizationIsStable'
  <2> SUFFICES ASSUME NormalizationIsStable, [Next]_vars
               PROVE  NormalizationIsStable'
    OBVIOUS
  <2>1. text' = text
    BY DEF Next, Split, Reject, vars
  <2>2. QED
    BY <2>1 DEF NormalizationIsStable
<1>3. QED
  BY <1>1, <1>2, PTL DEF Spec
=============================================================================
