-------------------------- MODULE RetrievalProofs --------------------------
(***************************************************************************)
(* Theorems about Retrieval for any schema, any metadata, any set of       *)
(* filter trees however deep and wide, and any limits: what the recursive  *)
(* visit of a filter accepts, that the translated filter matches what the  *)
(* filter means, and that a retrieval answers with the best of it.         *)
(***************************************************************************)
EXTENDS Retrieval, FiniteSetTheorems, SequenceTheorems, TLAPS

----------------------------------------------------------------------------
(* Numbers.                                                                *)

\* What holds of 0 and goes on from each number to the next holds of all.
LEMMA Counting ==
  ASSUME NEW S, 0 \in S, \A n \in Nat : n \in S => n + 1 \in S
  PROVE  Nat \subseteq S
<1> DEFINE T == Nat \ S
           Less == {p \in Nat \X Nat : p[1] < p[2]}
<1> SUFFICES ASSUME T # {} PROVE FALSE
  OBVIOUS
<1>1. Less = OpToRel(<, Nat)
  BY DEF OpToRel
<1>2. IsWellFoundedOn(Less, Nat) /\ T \subseteq Nat
  BY <1>1, NatLessThanWellFounded
<1> HIDE DEF T, Less
<1>3. PICK x \in T : \A y \in T : ~ (<<y, x>> \in Less)
  BY <1>2, WFMin
<1>4. x \in Nat /\ x # 0
  BY DEF T
<1>5. x - 1 \in Nat /\ x - 1 < x /\ (x - 1) + 1 = x
  BY <1>4
<1>6. <<x - 1, x>> \in Less
  BY <1>4, <1>5 DEF Less
<1>7. x - 1 \notin T
  BY <1>3, <1>6
<1>8. QED
  BY <1>3, <1>4, <1>5, <1>7 DEF T

LEMMA Limits == MaxDepth \in Nat \ {0} /\ MaxConditions \in Nat \ {0} /\ MaxValues \in Nat \ {0}
BY RetrievalAssumption

----------------------------------------------------------------------------
(* Trees.                                                                  *)

\* The nodes of the subtree at a path, and its conditions.
Below(filter, path) == {node \in DOMAIN filter : Under(path, node)}

Wanted(filter, path) == {node \in Conditions(filter) : Under(path, node)}

\* The conditions below the first i clauses of a group.
First(filter, path, i) == {node \in Conditions(filter) : \E j \in 1..i : Under(Append(path, j), node)}

LEMMA NodeTypes ==
  ASSUME NEW filter, IsTree(filter), NEW path \in DOMAIN filter
  PROVE  /\ path \in Seq(Nat) /\ Len(path) \in Nat
         /\ IsGroup(filter[path]) => filter[path] \in Group /\ filter[path].size \in Nat
         /\ ~IsGroup(filter[path]) => filter[path] \in Condition
<1>1. path \in Seq(Nat) /\ filter[path] \in Condition \cup Group
  BY DEF IsTree
<1>2. QED
  BY <1>1 DEF IsGroup, Condition, Group

\* A clause of a group is a node, one deeper.
LEMMA ClauseIsNode ==
  ASSUME NEW filter, IsTree(filter), NEW path \in DOMAIN filter, IsGroup(filter[path]),
         NEW i \in 1..filter[path].size
  PROVE  /\ i \in Nat
         /\ Append(path, i) \in DOMAIN filter /\ Len(Append(path, i)) = Len(path) + 1
         /\ \A k \in 1..Len(path) : Append(path, i)[k] = path[k]
         /\ Append(path, i)[Len(path) + 1] = i
<1>1. path \in Seq(Nat) /\ filter[path].size \in Nat
  BY NodeTypes
<1>2. i \in Nat
  BY <1>1
<1>3. Append(path, i) \in DOMAIN filter
  BY DEF IsTree
<1>4. QED
  BY <1>1, <1>2, <1>3, AppendProperties

\* A node is below a clause when it is below its group and goes on with the clause.
LEMMA UnderClause ==
  ASSUME NEW filter, IsTree(filter), NEW path \in DOMAIN filter, IsGroup(filter[path]),
         NEW i \in 1..filter[path].size, NEW node \in DOMAIN filter
  PROVE  Under(Append(path, i), node) <=> Under(path, node) /\ node # path /\ node[Len(path) + 1] = i
<1> DEFINE n == Len(path)
           clause == Append(path, i)
<1>1. /\ Len(clause) = n + 1 /\ clause[n + 1] = i
      /\ \A k \in 1..n : clause[k] = path[k]
  BY ClauseIsNode
<1>2. n \in Nat /\ Len(node) \in Nat
  BY NodeTypes
<1>3. 1..(n + 1) = (1..n) \cup {n + 1}
  BY <1>2
<1> HIDE DEF clause
<1>4. ASSUME Under(clause, node)
      PROVE  Under(path, node) /\ node # path /\ node[n + 1] = i
  BY <1>1, <1>2, <1>3, <1>4 DEF Under
<1>5. ASSUME Under(path, node), node # path, node[n + 1] = i
      PROVE  Under(clause, node)
  <2>1. path \in Seq(Nat) /\ node \in Seq(Nat)
    BY NodeTypes
  <2>2. n # Len(node)
    BY <1>5, <2>1, SeqEqual DEF Under
  <2>3. QED
    BY <1>1, <1>2, <1>3, <1>5, <2>2 DEF Under
<1>6. QED
  BY <1>4, <1>5 DEF clause

\* Below a group are the group itself and what is below its clauses.
LEMMA BelowGroup ==
  ASSUME NEW filter, IsTree(filter), NEW path \in DOMAIN filter, IsGroup(filter[path])
  PROVE  \A node \in DOMAIN filter :
           Under(path, node) <=> \/ node = path
                                 \/ \E i \in 1..filter[path].size : Under(Append(path, i), node)
<1>1. Under(path, path)
  BY NodeTypes DEF Under
<1>2. \A node \in DOMAIN filter \ {path} : Under(path, node) => node[Len(path) + 1] \in 1..filter[path].size
  BY DEF IsTree
<1>3. QED
  BY <1>1, <1>2, UnderClause

\* Below a condition is the condition only, and below the root is everything.
LEMMA BelowCondition ==
  ASSUME NEW filter, IsTree(filter), NEW path \in DOMAIN filter, ~IsGroup(filter[path])
  PROVE  \A node \in DOMAIN filter : Under(path, node) <=> node = path
<1>1. Under(path, path)
  BY NodeTypes DEF Under
<1>2. QED
  BY <1>1 DEF IsTree

LEMMA BelowRoot ==
  ASSUME NEW filter, IsTree(filter)
  PROVE  /\ <<>> \in DOMAIN filter /\ Len(<<>>) = 0
         /\ \A node \in DOMAIN filter : Under(<<>>, node)
<1>1. Len(<<>>) = 0
  OBVIOUS
<1>2. QED
  BY <1>1, NodeTypes DEF IsTree, Under

LEMMA ConditionsAreFinite ==
  ASSUME NEW filter, IsTree(filter), NEW S \in SUBSET Conditions(filter)
  PROVE  IsFiniteSet(S) /\ Cardinality(S) \in Nat
<1>1. S \in SUBSET DOMAIN filter
  BY DEF Conditions
<1>2. QED
  BY <1>1, FS_Subset, FS_CardinalityType DEF IsTree

\* The conditions below the clauses of a group add up.
LEMMA ClausesAddUp ==
  ASSUME NEW filter, IsTree(filter), NEW path \in DOMAIN filter, IsGroup(filter[path]),
         NEW i \in 1..filter[path].size
  PROVE  Cardinality(First(filter, path, i))
           = Cardinality(First(filter, path, i - 1)) + Cardinality(Wanted(filter, Append(path, i)))
<1> DEFINE before == First(filter, path, i - 1)
           new == Wanted(filter, Append(path, i))
<1>0. i \in Nat /\ 1..i = (1..(i - 1)) \cup {i} /\ 1..(i - 1) \subseteq 1..filter[path].size /\ i \notin 1..(i - 1)
  BY NodeTypes
<1>1. First(filter, path, i) = before \cup new
  BY <1>0 DEF First, Wanted
<1>2. before \cap new = {}
  <2> SUFFICES ASSUME NEW node \in before, node \in new PROVE FALSE
    OBVIOUS
  <2>1. node \in DOMAIN filter /\ Under(Append(path, i), node)
    BY DEF Wanted, Conditions
  <2>2. PICK j \in 1..(i - 1) : Under(Append(path, j), node)
    BY DEF First
  <2>3. j \in 1..filter[path].size /\ j # i
    BY <1>0
  <2>4. QED
    BY <2>1, <2>2, <2>3, UnderClause
<1>3. before \in SUBSET Conditions(filter) /\ new \in SUBSET Conditions(filter)
  BY DEF First, Wanted
<1> HIDE DEF before, new
<1>4. IsFiniteSet(before) /\ IsFiniteSet(new) /\ Cardinality(before) \in Nat /\ Cardinality(new) \in Nat
  BY <1>3, ConditionsAreFinite
<1>5. Cardinality(before \cup new) = Cardinality(before) + Cardinality(new) - Cardinality(before \cap new)
  BY <1>4, FS_Union
<1>6. Cardinality(before \cap new) = 0
  BY <1>2, FS_EmptySet
<1>7. QED
  BY <1>1, <1>4, <1>5, <1>6 DEF before, new

----------------------------------------------------------------------------
(* The visit of a filter.                                                  *)

Counts == {Refused} \cup 0..MaxConditions

\* A node is right in itself.
Right(filter, accepted, node) ==
  /\ Len(node) < MaxDepth
  /\ IF IsGroup(filter[node]) THEN ValidGroup(filter[node]) ELSE node \in accepted

Fine(filter, accepted, path) == \A node \in Below(filter, path) : Right(filter, accepted, node)

\* The count after the conditions of a set, when they are within the limit.
Added(fine, count, n) == IF count # Refused /\ fine /\ count + n <= MaxConditions THEN count + n ELSE Refused

\* What the visit of a node comes to, and that of the first i clauses of a group.
Total(filter, accepted, path, count) ==
  Added(Fine(filter, accepted, path), count, Cardinality(Wanted(filter, path)))

Partial(filter, accepted, path, i, count) ==
  Added(\A j \in 1..i : Fine(filter, accepted, Append(path, j)), count, Cardinality(First(filter, path, i)))

\* One call of the visit.
Call(filter, accepted, visit, path, count) ==
  LET node == filter[path]
      rejected == IF IsGroup(node) THEN ~ValidGroup(node) ELSE count = MaxConditions \/ path \notin accepted
  IN  IF count = Refused \/ Len(path) >= MaxDepth \/ rejected THEN Refused
      ELSE IF IsGroup(node) THEN AfterClauses(visit, path, node.size, count)
      ELSE count + 1

LEMMA AddedTypes ==
  ASSUME NEW fine \in BOOLEAN, NEW count \in Counts, NEW n \in Nat
  PROVE  Added(fine, count, n) \in Counts
BY Limits DEF Added, Counts, Refused

\* Sets of conditions are added one after the other or at once.
LEMMA AddedTwice ==
  ASSUME NEW fine \in BOOLEAN, NEW more \in BOOLEAN, NEW count \in Counts, NEW n \in Nat, NEW m \in Nat
  PROVE  Added(more, Added(fine, count, n), m) = Added(fine /\ more, count, n + m)
BY Limits DEF Added, Counts, Refused

LEMMA PartialStep ==
  ASSUME NEW filter, IsTree(filter), NEW accepted, NEW path \in DOMAIN filter, IsGroup(filter[path]),
         NEW i \in 1..filter[path].size, NEW count \in Counts
  PROVE  /\ Partial(filter, accepted, path, i - 1, count) \in Counts
         /\ Total(filter, accepted, Append(path, i), Partial(filter, accepted, path, i - 1, count))
              = Partial(filter, accepted, path, i, count)
<1> DEFINE fine == \A j \in 1..(i - 1) : Fine(filter, accepted, Append(path, j))
           more == Fine(filter, accepted, Append(path, i))
           n == Cardinality(First(filter, path, i - 1))
           m == Cardinality(Wanted(filter, Append(path, i)))
<1>1. i \in Nat /\ 1..i = (1..(i - 1)) \cup {i}
  BY NodeTypes
<1>2. n \in Nat /\ m \in Nat
  BY ConditionsAreFinite DEF First, Wanted
<1>3. Cardinality(First(filter, path, i)) = n + m
  BY ClausesAddUp
<1>4. (\A j \in 1..i : Fine(filter, accepted, Append(path, j))) <=> fine /\ more
  BY <1>1
<1>5. fine \in BOOLEAN /\ more \in BOOLEAN
  BY DEF Fine
<1> HIDE DEF fine, more, n, m
<1>6. Added(more, Added(fine, count, n), m) = Added(fine /\ more, count, n + m)
  BY <1>2, <1>5, AddedTwice
<1>7. Added(fine, count, n) \in Counts
  BY <1>2, <1>5, AddedTypes
<1>8. Partial(filter, accepted, path, i, count) = Added(fine /\ more, count, n + m)
  BY <1>3, <1>4 DEF Partial, Added
<1>9. Partial(filter, accepted, path, i - 1, count) = Added(fine, count, n)
  BY DEF Partial, fine, n
<1>10. \A c : Total(filter, accepted, Append(path, i), c) = Added(more, c, m)
  BY DEF Total, more, m
<1>11. QED
  BY <1>6, <1>7, <1>8, <1>9, <1>10

\* The clauses of a group are visited one after the other.
LEMMA AfterClausesAre ==
  ASSUME NEW filter, IsTree(filter), NEW accepted, NEW path \in DOMAIN filter, IsGroup(filter[path]),
         NEW visit, NEW count \in Counts,
         \A i \in 1..filter[path].size : \A c \in Counts :
           visit[Append(path, i)][c] = Total(filter, accepted, Append(path, i), c)
  PROVE  AfterClauses(visit, path, filter[path].size, count)
           = Partial(filter, accepted, path, filter[path].size, count)
<1> DEFINE size == filter[path].size
           Next1(after, i) == IF i = 0 THEN count ELSE visit[Append(path, i)][after[i - 1]]
           Known(i) == Partial(filter, accepted, path, i, count)
           known == [i \in 0..size |-> Known(i)]
           after == CHOOSE after : after = [i \in 0..size |-> Next1(after, i)]
<1>1. size \in Nat
  BY NodeTypes
<1>2. Known(0) = count
  <2>1. First(filter, path, 0) = {}
    BY DEF First
  <2>2. Cardinality(First(filter, path, 0)) = 0
    BY <2>1, FS_EmptySet
  <2>3. QED
    BY <2>2, Limits DEF Partial, Added, Counts, Refused
<1>3. ASSUME NEW i \in 1..size
      PROVE  visit[Append(path, i)][Known(i - 1)] = Known(i)
  BY <1>3, PartialStep
<1> HIDE DEF Known
<1>4. known = [i \in 0..size |-> Next1(known, i)]
  <2>1. ASSUME NEW i \in 0..size
        PROVE  Next1(known, i) = Known(i)
    <3>1. CASE i = 0
      BY <1>2, <3>1
    <3>2. CASE i # 0
      <4>1. i \in 1..size /\ i - 1 \in 0..size
        BY <1>1, <3>2
      <4>2. known[i - 1] = Known(i - 1)
        BY <4>1
      <4>3. QED
        BY <1>3, <3>2, <4>1, <4>2
    <3>3. QED
      BY <3>1, <3>2
  <2>2. QED
    BY <2>1
<1>5. after = [i \in 0..size |-> Next1(after, i)]
  BY <1>4
<1>6. AfterClauses(visit, path, size, count) = after[size]
  BY DEF AfterClauses
<1> HIDE DEF after
<1>7. \A i \in 0..size : after[i] = Next1(after, i)
  BY <1>5
<1> DEFINE S == {i \in Nat : i \in 0..size => after[i] = Known(i)}
<1>8. 0 \in S
  BY <1>1, <1>2, <1>7
<1>9. ASSUME NEW i \in Nat, i \in S
      PROVE  i + 1 \in S
  <2> SUFFICES ASSUME i + 1 \in 0..size PROVE after[i + 1] = Known(i + 1)
    OBVIOUS
  <2>1. i + 1 \in 1..size /\ i \in 0..size /\ (i + 1) - 1 = i /\ i + 1 # 0
    BY <1>1
  <2>2. after[i + 1] = visit[Append(path, i + 1)][after[i]]
    BY <1>7, <2>1
  <2>3. after[i] = Known(i)
    BY <1>9, <2>1
  <2>4. QED
    BY <1>3, <2>1, <2>2, <2>3
<1>10. Nat \subseteq S
  <2> HIDE DEF S
  <2> QED
    BY <1>8, <1>9, Counting
<1>11. QED
  BY <1>1, <1>6, <1>10 DEF Known

\* A call that finds the clauses right is right.
LEMMA CallIs ==
  ASSUME NEW filter, IsTree(filter), NEW accepted, NEW path \in DOMAIN filter, NEW visit, NEW count \in Counts,
         IsGroup(filter[path]) /\ Len(path) < MaxDepth =>
           \A i \in 1..filter[path].size : \A c \in Counts :
             visit[Append(path, i)][c] = Total(filter, accepted, Append(path, i), c)
  PROVE  Call(filter, accepted, visit, path, count) = Total(filter, accepted, path, count)
<1>1. path \in Below(filter, path) /\ Len(path) \in Nat
  BY NodeTypes DEF Below, Under
<1>2. CASE count = Refused \/ ~Right(filter, accepted, path)
  BY <1>1, <1>2, Limits DEF Call, Total, Added, Fine, Right
<1>3. CASE IsGroup(filter[path]) /\ count # Refused /\ Right(filter, accepted, path)
  <2> DEFINE size == filter[path].size
  <2>1. Call(filter, accepted, visit, path, count) = AfterClauses(visit, path, size, count)
    BY <1>1, <1>3, Limits DEF Call, Right
  <2>2. AfterClauses(visit, path, size, count) = Partial(filter, accepted, path, size, count)
    BY <1>3, AfterClausesAre DEF Right
  <2>3. Wanted(filter, path) = First(filter, path, size)
    BY <1>3, BelowGroup DEF Wanted, First, Conditions
  <2>4. Fine(filter, accepted, path) <=> \A i \in 1..size : Fine(filter, accepted, Append(path, i))
    BY <1>3, BelowGroup DEF Fine, Below
  <2>5. QED
    BY <2>1, <2>2, <2>3, <2>4 DEF Total, Partial, Added
<1>4. CASE ~IsGroup(filter[path]) /\ count # Refused /\ Right(filter, accepted, path)
  <2>1. Wanted(filter, path) = {path}
    BY <1>4, BelowCondition DEF Wanted, Conditions
  <2>2. Cardinality(Wanted(filter, path)) = 1
    BY <2>1, FS_Singleton
  <2>3. Fine(filter, accepted, path)
    BY <1>4, BelowCondition DEF Fine, Below
  <2>4. count \in 0..MaxConditions /\ MaxConditions \in Nat
    BY <1>4, Limits DEF Counts
  <2>5. Call(filter, accepted, visit, path, count) = IF count = MaxConditions THEN Refused ELSE count + 1
    BY <1>1, <1>4, Limits DEF Call, Right
  <2>6. Total(filter, accepted, path, count) = IF count + 1 <= MaxConditions THEN count + 1 ELSE Refused
    BY <1>4, <2>2, <2>3 DEF Total, Added
  <2>7. QED
    BY <2>4, <2>5, <2>6
<1>5. QED
  BY <1>2, <1>3, <1>4

\* The recursive visit of every node comes to its total.
LEMMA VisitIs ==
  ASSUME NEW filter, IsTree(filter), NEW accepted, NEW path \in DOMAIN filter, NEW count \in Counts
  PROVE  Visit(filter, accepted)[path][count] = Total(filter, accepted, path, count)
<1> DEFINE Calls(visit) == [p \in DOMAIN filter |-> [c \in Counts |-> Call(filter, accepted, visit, p, c)]]
           known == [p \in DOMAIN filter |-> [c \in Counts |-> Total(filter, accepted, p, c)]]
           visit == Visit(filter, accepted)
<1>1. visit = CHOOSE v : v = Calls(v)
  BY DEF Visit, Call, Counts
<1>2. known = Calls(known)
  <2>1. ASSUME NEW p \in DOMAIN filter, NEW c \in Counts
        PROVE  Call(filter, accepted, known, p, c) = Total(filter, accepted, p, c)
    <3>1. ASSUME IsGroup(filter[p]), NEW i \in 1..filter[p].size, NEW d \in Counts
          PROVE  known[Append(p, i)][d] = Total(filter, accepted, Append(p, i), d)
      BY <3>1, ClauseIsNode
    <3> HIDE DEF known
    <3>2. QED
      BY <3>1, CallIs
  <2>2. QED
    BY <2>1
<1>3. visit = Calls(visit)
  BY <1>1, <1>2
<1> HIDE DEF visit, known
<1>4. \A p \in DOMAIN filter : \A c \in Counts : visit[p][c] = Call(filter, accepted, visit, p, c)
  BY <1>3
<1> HIDE DEF Calls
<1> DEFINE S == {n \in Nat : \A p \in DOMAIN filter : Len(p) >= MaxDepth - n =>
                               \A c \in Counts : visit[p][c] = Total(filter, accepted, p, c)}
<1>5. 0 \in S
  <2>1. ASSUME NEW p \in DOMAIN filter, Len(p) >= MaxDepth, NEW c \in Counts
        PROVE  visit[p][c] = Total(filter, accepted, p, c)
    <3>1. ~(Len(p) < MaxDepth)
      BY <2>1, NodeTypes, Limits
    <3>2. QED
      BY <1>4, <3>1, CallIs
  <2>2. QED
    BY <2>1, Limits
<1>6. ASSUME NEW n \in Nat, n \in S
      PROVE  n + 1 \in S
  <2> SUFFICES ASSUME NEW p \in DOMAIN filter, Len(p) >= MaxDepth - (n + 1), NEW c \in Counts
               PROVE  visit[p][c] = Total(filter, accepted, p, c)
    OBVIOUS
  <2>1. ASSUME IsGroup(filter[p]), NEW i \in 1..filter[p].size, NEW d \in Counts
        PROVE  visit[Append(p, i)][d] = Total(filter, accepted, Append(p, i), d)
    <3>1. Append(p, i) \in DOMAIN filter /\ Len(Append(p, i)) = Len(p) + 1
      BY <2>1, ClauseIsNode
    <3>2. Len(Append(p, i)) >= MaxDepth - n
      BY <3>1, NodeTypes, Limits
    <3>3. QED
      BY <1>6, <3>1, <3>2
  <2>2. QED
    BY <1>4, <2>1, CallIs
<1>7. Nat \subseteq S
  <2> HIDE DEF S
  <2> QED
    BY <1>5, <1>6, Counting
<1>8. MaxDepth \in S
  BY <1>7, Limits
<1>9. Len(path) >= MaxDepth - MaxDepth
  BY NodeTypes, Limits
<1>10. QED
  BY <1>8, <1>9 DEF visit

\* A filter is accepted exactly when every node is right in itself, and its
\* conditions together are within the limit, wherever they are in the tree.
LEMMA VisitAccepts ==
  ASSUME NEW filter, IsTree(filter), NEW accepted
  PROVE  Visit(filter, accepted)[<<>>][0] # Refused
           <=> /\ \A path \in DOMAIN filter : Right(filter, accepted, path)
               /\ Cardinality(Conditions(filter)) <= MaxConditions
<1>1. 0 \in Counts /\ <<>> \in DOMAIN filter
  BY Limits, BelowRoot DEF Counts
<1>2. Visit(filter, accepted)[<<>>][0] = Total(filter, accepted, <<>>, 0)
  BY <1>1, VisitIs
<1>3. Below(filter, <<>>) = DOMAIN filter
  BY BelowRoot DEF Below
<1>4. Wanted(filter, <<>>) = Conditions(filter)
  BY BelowRoot DEF Wanted, Conditions
<1>5. Cardinality(Conditions(filter)) \in Nat
  BY ConditionsAreFinite
<1>6. QED
  BY <1>2, <1>3, <1>4, <1>5, Limits DEF Total, Added, Fine, Refused

----------------------------------------------------------------------------
(* The conditions.                                                         *)

LEMMA MatchingTypes ==
  /\ Matching("keyword") = "str" /\ Matching("integer") = "int"
  /\ Matching("float") = "float" /\ Matching("boolean") = "bool"
BY DEF Matching

LEMMA FieldTypes ==
  ASSUME NEW name \in DOMAIN Schema
  PROVE  Schema[name].type \in {"keyword", "boolean", "integer", "float"}
BY RetrievalAssumption DEF Numeric

LEMMA ConditionTypes ==
  ASSUME NEW c \in Condition
  PROVE  /\ c.kind = "condition" /\ c.op \in {"eq", "in"} \cup Ordering /\ c.list \in BOOLEAN
         /\ c.values \in Seq(Value) /\ Len(c.values) \in Nat /\ DOMAIN c.values = 1..Len(c.values)
         /\ c.values # <<>> <=> Len(c.values) # 0
         /\ ~c.list => Len(c.values) = 1 /\ DOMAIN c.values = {1} /\ Head(c.values) = c.values[1]
<1>1. /\ c.kind = "condition" /\ c.op \in {"eq", "in"} \cup Ordering /\ c.list \in BOOLEAN
      /\ c.values \in Seq(Value) /\ (~c.list => Len(c.values) = 1)
  BY DEF Condition
<1>2. Len(c.values) \in Nat /\ DOMAIN c.values = 1..Len(c.values)
  BY <1>1
<1>3. c.values # <<>> <=> Len(c.values) # 0
  BY <1>1, EmptySeq
<1>4. ~c.list => DOMAIN c.values = {1}
  <2>1. 1..1 = {1}
    OBVIOUS
  <2>2. QED
    BY <1>1, <1>2, <2>1
<1>5. c.values # <<>> => Head(c.values) = c.values[1]
  BY <1>1, HeadTailProperties
<1>6. QED
  BY <1>1, <1>2, <1>3, <1>4, <1>5

\* The application accepts the conditions the grammar gives a meaning.
LEMMA ValidIsWellTyped ==
  ASSUME NEW c \in Condition
  PROVE  ValidCondition(c) <=> WellTyped(c)
<1>1. c.field \in DOMAIN Schema =>
        LET type == Schema[c.field].type
            allowed == IF type = "float" THEN {"float", "nan", "int"} ELSE {Matching(type)}
        IN  \A value : MatchesType(value, type) <=> value.type \in allowed
  BY FieldTypes, MatchingTypes DEF MatchesType
<1>2. (IF c.op = "in" THEN c.list /\ Len(c.values) \in 1..MaxValues ELSE ~c.list)
        <=> (c.list = (c.op = "in")) /\ (c.list => c.values # <<>> /\ Len(c.values) <= MaxValues)
  BY ConditionTypes, Limits
<1>3. QED
  BY <1>1, <1>2 DEF ValidCondition, WellTyped

\* What the adapter refuses and the application accepts is a number.
LEMMA RefusalsAreDisputed ==
  ASSUME NEW c \in Condition, ValidCondition(c), ~TranslatableCondition(c)
  PROVE  \E i \in DOMAIN c.values : Disputed(c.values[i], c.field)
<1>1. c.field \in DOMAIN Schema
  BY DEF ValidCondition
<1>2. c.op = "in" => c.values # <<>> /\ Len(c.values) <= MaxValues
  BY ConditionTypes, Limits DEF ValidCondition
<1>3. PICK i \in DOMAIN c.values : ~ScalarFits(c.values[i], Schema[c.field].type)
  BY <1>2 DEF ValidCondition, TranslatableCondition
<1>4. MatchesType(c.values[i], Schema[c.field].type)
  BY DEF ValidCondition
<1>5. QED
  BY <1>1, <1>3, <1>4 DEF Disputed, MatchesType, ScalarFits

\* The same for the metadata of a document.
LEMMA MetadataIsDisputed ==
  ASSUME NEW metadata, ValidMetadata(metadata), ~EncodableMetadata(metadata)
  PROVE  \E name \in DOMAIN metadata : Disputed(metadata[name], name)
BY DEF ValidMetadata, EncodableMetadata, Disputed, MatchesType, ScalarFits

----------------------------------------------------------------------------
(* The filters.                                                            *)

\* The application accepts exactly the filters the documents describe.
LEMMA ValidIsWellFormed ==
  ASSUME NEW filter, IsTree(filter)
  PROVE  ValidFilter(filter) <=> WellFormed(filter)
<1> DEFINE accepted == {path \in Conditions(filter) : ValidCondition(filter[path])}
<1>1. \A path \in Conditions(filter) : filter[path] \in Condition
  BY NodeTypes DEF Conditions
<1>2. \A path \in Conditions(filter) : path \in accepted <=> WellTyped(filter[path])
  BY <1>1, ValidIsWellTyped
<1> HIDE DEF accepted
<1>3. (\A path \in DOMAIN filter : Right(filter, accepted, path))
        <=> /\ \A path \in DOMAIN filter : Len(path) < MaxDepth /\ (IsGroup(filter[path]) => ValidGroup(filter[path]))
            /\ \A path \in Conditions(filter) : WellTyped(filter[path])
  BY <1>2 DEF Right, Conditions
<1>4. ValidFilter(filter) <=> Visit(filter, accepted)[<<>>][0] # Refused
  BY DEF ValidFilter, accepted
<1>5. QED
  BY <1>3, <1>4, VisitAccepts DEF WellFormed

\* The adapter accepts the same shapes and limits, with its own conditions.
LEMMA TranslatableIs ==
  ASSUME NEW filter, IsTree(filter)
  PROVE  Translatable(filter)
           <=> /\ \A path \in DOMAIN filter : Len(path) < MaxDepth /\ (IsGroup(filter[path]) => ValidGroup(filter[path]))
               /\ Cardinality(Conditions(filter)) <= MaxConditions
               /\ \A path \in Conditions(filter) : TranslatableCondition(filter[path])
<1> DEFINE accepted == {path \in Conditions(filter) : TranslatableCondition(filter[path])}
<1>1. \A path \in Conditions(filter) : path \in accepted <=> TranslatableCondition(filter[path])
  OBVIOUS
<1> HIDE DEF accepted
<1>2. (\A path \in DOMAIN filter : Right(filter, accepted, path))
        <=> /\ \A path \in DOMAIN filter : Len(path) < MaxDepth /\ (IsGroup(filter[path]) => ValidGroup(filter[path]))
            /\ \A path \in Conditions(filter) : TranslatableCondition(filter[path])
  BY <1>1 DEF Right, Conditions
<1>3. Translatable(filter) <=> Visit(filter, accepted)[<<>>][0] # Refused
  BY DEF Translatable, accepted
<1>4. QED
  BY <1>2, <1>3, VisitAccepts

LEMMA FiltersAreDisputed ==
  ASSUME NEW filter, IsTree(filter), ValidFilter(filter), ~Translatable(filter)
  PROVE  \E path \in Conditions(filter) :
           LET c == filter[path] IN \E i \in DOMAIN c.values : Disputed(c.values[i], c.field)
<1>1. WellFormed(filter)
  BY ValidIsWellFormed
<1>2. PICK path \in Conditions(filter) : ~TranslatableCondition(filter[path])
  BY <1>1, TranslatableIs DEF WellFormed
<1>3. filter[path] \in Condition
  BY NodeTypes DEF Conditions
<1>4. ValidCondition(filter[path])
  BY <1>1, <1>3, ValidIsWellTyped DEF WellFormed
<1>5. QED
  BY <1>2, <1>3, <1>4, RefusalsAreDisputed

----------------------------------------------------------------------------
(* What a filter means.                                                    *)

\* The keys a payload of the collection has.
IsPayload(payload) == \A key \in DOMAIN payload : Len(key) = 2 => key = Key(key[2])

\* The value of a field is stored under its key.
LEMMA FieldsAreKeys ==
  ASSUME NEW payload, IsPayload(payload), NEW field
  PROVE  /\ field \in DOMAIN MetadataOf(payload) <=> Key(field) \in DOMAIN payload
         /\ field \in DOMAIN MetadataOf(payload) => MetadataOf(payload)[field] = payload[Key(field)]
<1> DEFINE names == {key[2] : key \in {k \in DOMAIN payload : Len(k) = 2}}
<1>1. Len(Key(field)) = 2 /\ Key(field)[2] = field
  BY DEF Key
<1>2. field \in names <=> Key(field) \in DOMAIN payload
  BY <1>1 DEF IsPayload
<1>3. MetadataOf(payload) = [name \in names |-> payload[Key(name)]]
  BY DEF MetadataOf
<1> HIDE DEF names
<1>4. QED
  BY <1>2, <1>3

\* A translated condition holds of a payload exactly when its metadata meets
\* the condition.
LEMMA ConditionsTranslate ==
  ASSUME NEW c \in Condition, TranslatableCondition(c), NEW payload, IsPayload(payload)
  PROVE  Holds(payload, Translated(c)) <=> MeansOne(c, MetadataOf(payload))
<1> DEFINE key == Key(c.field)
           value == payload[key]
<1>1. c.field \in DOMAIN MetadataOf(payload) <=> key \in DOMAIN payload
  BY FieldsAreKeys
<1>2. c.field \in DOMAIN MetadataOf(payload) => MetadataOf(payload)[c.field] = value
  BY FieldsAreKeys
<1>3. CASE c.op \in Ordering
  <2>1. ~c.list
    BY <1>3 DEF TranslatableCondition, Ordering
  <2>2. DOMAIN c.values = {1} /\ Head(c.values) = c.values[1]
    BY <2>1, ConditionTypes
  <2>3. Translated(c) = FieldIn(key, c.op, c.values[1])
    BY <1>3, <2>2 DEF Translated
  <2>4. Holds(payload, Translated(c)) <=> key \in DOMAIN payload /\ InRange(c.op, value.n, c.values[1].n)
    BY <1>3, <2>3 DEF Holds, FieldIn, Ordering
  <2>5. QED
    BY <1>1, <1>2, <1>3, <2>2, <2>4 DEF MeansOne
<1>4. CASE c.op \notin Ordering
  <2>1. Translated(c) = FieldIs(key, Range(c.values))
    BY <1>4 DEF Translated
  <2>2. Holds(payload, Translated(c)) <=> key \in DOMAIN payload /\ value \in Range(c.values)
    BY <2>1 DEF Holds, FieldIs, Ordering
  <2>3. value \in Range(c.values) <=> \E i \in DOMAIN c.values : value = c.values[i]
    BY DEF Range
  <2>4. QED
    BY <1>1, <1>2, <1>4, <2>2, <2>3 DEF MeansOne
<1>5. QED
  BY <1>3, <1>4

\* One node of the translation, and of the filter, given the answers for the clauses.
Satisfied(payload, query, answers, path) ==
  LET f == query[path]
  IN  \/ f.clause = "must" /\ (\A i \in 1..f.size : answers[Append(path, i)])
      \/ f.clause = "should" /\ (\E i \in 1..f.size : answers[Append(path, i)])
      \/ f.clause = "must_not" /\ ~(\E i \in 1..f.size : answers[Append(path, i)])
      \/ f.clause \in {"any"} \cup Ordering /\ Holds(payload, f)

Meant(filter, metadata, answers, path) ==
  LET node == filter[path]
  IN  CASE node.kind = "all" -> \A i \in 1..node.size : answers[Append(path, i)]
        [] node.kind = "any" -> \E i \in 1..node.size : answers[Append(path, i)]
        [] node.kind = "not" -> ~answers[Append(path, 1)]
        [] node.kind = "condition" -> MeansOne(node, metadata)

\* Whatever the clauses answer, the translation of a node asks what the node means.
LEMMA NodesTranslate ==
  ASSUME NEW filter, IsTree(filter), Translatable(filter), NEW payload, IsPayload(payload),
         NEW answers, NEW path \in DOMAIN filter
  PROVE  Satisfied(payload, Translation(filter), answers, path)
           = Meant(filter, MetadataOf(payload), answers, path)
<1> DEFINE node == filter[path]
           f == Translation(filter)[path]
<1>1. f = IF IsGroup(node) THEN [clause |-> ClauseName(node.kind), size |-> node.size] ELSE Translated(node)
  BY DEF Translation
<1>2. CASE IsGroup(node)
  <2>1. node.kind \in {"all", "any", "not"} /\ f.clause = ClauseName(node.kind) /\ f.size = node.size
    BY <1>1, <1>2, NodeTypes DEF Group
  <2>2. node.kind = "not" => node.size = 1
    BY <1>2, TranslatableIs DEF ValidGroup
  <2>3. CASE node.kind = "all"
    BY <2>1, <2>3 DEF Satisfied, Meant, ClauseName, Ordering
  <2>4. CASE node.kind = "any"
    BY <2>1, <2>4 DEF Satisfied, Meant, ClauseName, Ordering
  <2>5. CASE node.kind = "not"
    <3>1. 1..f.size = {1}
      BY <2>1, <2>2, <2>5
    <3>2. QED
      BY <2>1, <2>5, <3>1 DEF Satisfied, Meant, ClauseName, Ordering
  <2>6. QED
    BY <2>1, <2>3, <2>4, <2>5
<1>3. CASE ~IsGroup(node)
  <2>1. node \in Condition /\ node.kind = "condition" /\ TranslatableCondition(node)
    BY <1>3, NodeTypes, ConditionTypes, TranslatableIs DEF Conditions
  <2>2. f = Translated(node)
    BY <1>1, <1>3
  <2>3. f.clause \in {"any"} \cup Ordering
    BY <2>2 DEF Translated, FieldIn, FieldIs
  <2>4. Holds(payload, f) <=> MeansOne(node, MetadataOf(payload))
    BY <2>1, <2>2, ConditionsTranslate
  <2>5. Satisfied(payload, Translation(filter), answers, path) <=> Holds(payload, f)
    BY <2>3 DEF Satisfied, Ordering
  <2>6. Satisfied(payload, Translation(filter), answers, path) \in BOOLEAN
    BY DEF Satisfied
  <2>7. Meant(filter, MetadataOf(payload), answers, path) = MeansOne(node, MetadataOf(payload))
    BY <2>1 DEF Meant
  <2>8. MeansOne(node, MetadataOf(payload)) \in BOOLEAN
    BY DEF MeansOne
  <2>9. QED
    BY <2>4, <2>5, <2>6, <2>7, <2>8
<1>4. QED
  BY <1>2, <1>3

\* A translated filter matches exactly the payloads whose metadata it means.
THEOREM FiltersTranslate ==
  ASSUME NEW filter, IsTree(filter), Translatable(filter), NEW payload, IsPayload(payload)
  PROVE  Satisfies(payload, Translation(filter)) = Means(filter, MetadataOf(payload))
<1> DEFINE query == Translation(filter)
           metadata == MetadataOf(payload)
<1>1. DOMAIN query = DOMAIN filter
  BY DEF Translation
<1> HIDE DEF query, metadata
<1>2. ASSUME NEW answers
      PROVE  [path \in DOMAIN query |-> Satisfied(payload, query, answers, path)]
               = [path \in DOMAIN filter |-> Meant(filter, metadata, answers, path)]
  BY <1>1, NodesTranslate DEF query, metadata
<1>3. (CHOOSE answers : answers = [path \in DOMAIN query |-> Satisfied(payload, query, answers, path)])
        = (CHOOSE answers : answers = [path \in DOMAIN filter |-> Meant(filter, metadata, answers, path)])
  BY <1>2
<1>4. Satisfies(payload, query)
        = (CHOOSE answers : answers = [path \in DOMAIN query |-> Satisfied(payload, query, answers, path)])[<<>>]
  BY DEF Satisfies, Satisfied
<1>5. Means(filter, metadata)
        = (CHOOSE answers : answers = [path \in DOMAIN filter |-> Meant(filter, metadata, answers, path)])[<<>>]
  BY DEF Means, Meant
<1>6. QED
  BY <1>3, <1>4, <1>5 DEF query, metadata

----------------------------------------------------------------------------
(* The meaning of a filter.                                                *)

\* A node means what its clauses decide.
LEMMA ClausesDecide ==
  ASSUME NEW filter, IsTree(filter), NEW metadata, NEW path \in DOMAIN filter, NEW answers, NEW others,
         IsGroup(filter[path]) => ValidGroup(filter[path]),
         IsGroup(filter[path]) => \A i \in 1..filter[path].size : answers[Append(path, i)] = others[Append(path, i)]
  PROVE  Meant(filter, metadata, answers, path) = Meant(filter, metadata, others, path)
<1>1. CASE IsGroup(filter[path])
  <2> DEFINE size == filter[path].size
  <2>1. filter[path].kind \in {"all", "any", "not"} /\ (filter[path].kind = "not" => 1 \in 1..size)
    BY <1>1, NodeTypes DEF Group, ValidGroup
  <2>2. \A i \in 1..size : answers[Append(path, i)] = others[Append(path, i)]
    BY <1>1
  <2>3. CASE filter[path].kind = "all"
    <3>1. (\A i \in 1..size : answers[Append(path, i)]) <=> (\A i \in 1..size : others[Append(path, i)])
      BY <2>2
    <3>2. QED
      BY <2>3, <3>1 DEF Meant
  <2>4. CASE filter[path].kind = "any"
    <3>1. (\E i \in 1..size : answers[Append(path, i)]) <=> (\E i \in 1..size : others[Append(path, i)])
      BY <2>2
    <3>2. QED
      BY <2>4, <3>1 DEF Meant
  <2>5. CASE filter[path].kind = "not"
    <3>1. answers[Append(path, 1)] = others[Append(path, 1)]
      BY <2>1, <2>2, <2>5
    <3>2. QED
      BY <2>5, <3>1 DEF Meant
  <2>6. QED
    BY <2>1, <2>3, <2>4, <2>5
<1>2. CASE ~IsGroup(filter[path])
  BY <1>2 DEF IsGroup, Meant
<1>3. QED
  BY <1>1, <1>2

\* The recursion that gives a well-formed filter its meaning has a solution,
\* and the meaning is one: it is none chosen at random.
THEOREM MeansIs ==
  ASSUME NEW filter, IsTree(filter), WellFormed(filter), NEW metadata
  PROVE  \E answers : /\ answers = [path \in DOMAIN filter |-> Meant(filter, metadata, answers, path)]
                      /\ Means(filter, metadata) = answers[<<>>]
<1> DEFINE Answers(answers) == [path \in DOMAIN filter |-> Meant(filter, metadata, answers, path)]
           Right1(answers, n) == \A path \in DOMAIN filter : Len(path) >= MaxDepth - n =>
                                   answers[path] = Meant(filter, metadata, answers, path)
           S == {n \in Nat : \E answers : Right1(answers, n)}
<1>0. \A path \in DOMAIN filter : Len(path) \in Nat /\ Len(path) < MaxDepth
  BY NodeTypes DEF WellFormed
<1>1. 0 \in S
  BY <1>0, Limits
<1>2. ASSUME NEW n \in Nat, n \in S
      PROVE  n + 1 \in S
  <2>1. PICK answers : Right1(answers, n)
    BY <1>2
  <2> DEFINE more == [path \in DOMAIN filter |-> IF Len(path) >= MaxDepth - (n + 1)
                                                 THEN Meant(filter, metadata, answers, path) ELSE FALSE]
  <2>2. ASSUME NEW path \in DOMAIN filter, Len(path) >= MaxDepth - n
        PROVE  more[path] = answers[path]
    <3>1. Len(path) >= MaxDepth - (n + 1)
      BY <1>0, <2>2, Limits
    <3>2. answers[path] = Meant(filter, metadata, answers, path)
      BY <2>1, <2>2
    <3>3. QED
      BY <3>1, <3>2
  <2>3. ASSUME NEW path \in DOMAIN filter, Len(path) >= MaxDepth - (n + 1)
        PROVE  more[path] = Meant(filter, metadata, more, path)
    <3>1. more[path] = Meant(filter, metadata, answers, path)
      BY <2>3
    <3>2. ASSUME IsGroup(filter[path]), NEW i \in 1..filter[path].size
          PROVE  more[Append(path, i)] = answers[Append(path, i)]
      <4>1. Append(path, i) \in DOMAIN filter /\ Len(Append(path, i)) = Len(path) + 1
        BY <3>2, ClauseIsNode
      <4>2. Len(Append(path, i)) >= MaxDepth - n
        BY <1>0, <2>3, <4>1, Limits
      <4>3. QED
        BY <2>2, <4>1, <4>2
    <3> HIDE DEF more
    <3>3. Meant(filter, metadata, answers, path) = Meant(filter, metadata, more, path)
      BY <3>2, ClausesDecide DEF WellFormed
    <3>4. QED
      BY <3>1, <3>3
  <2> HIDE DEF more
  <2>4. Right1(more, n + 1)
    BY <2>3
  <2>5. QED
    BY <2>4
<1>3. MaxDepth \in S
  <2>1. Nat \subseteq S
    <3> HIDE DEF S
    <3> QED
      BY <1>1, <1>2, Counting
  <2>2. QED
    BY <2>1, Limits
<1>4. PICK answers : Right1(answers, MaxDepth)
  BY <1>3
<1>5. \A path \in DOMAIN filter : answers[path] = Meant(filter, metadata, answers, path)
  BY <1>0, <1>4, Limits
<1> DEFINE known == [path \in DOMAIN filter |-> answers[path]]
           means == CHOOSE some : some = Answers(some)
<1>6. known = Answers(known)
  <2>1. ASSUME NEW path \in DOMAIN filter
        PROVE  answers[path] = Meant(filter, metadata, known, path)
    <3>1. ASSUME IsGroup(filter[path]), NEW i \in 1..filter[path].size
          PROVE  known[Append(path, i)] = answers[Append(path, i)]
      BY <3>1, ClauseIsNode
    <3> HIDE DEF known
    <3>2. Meant(filter, metadata, answers, path) = Meant(filter, metadata, known, path)
      BY <3>1, ClausesDecide DEF WellFormed
    <3>3. QED
      BY <1>5, <3>2
  <2>2. QED
    BY <2>1
<1> HIDE DEF known
<1>7. means = Answers(means)
  BY <1>6
<1>8. Means(filter, metadata) = means[<<>>]
  BY DEF Means, Meant
<1> HIDE DEF means
<1>9. QED
  BY <1>7, <1>8

----------------------------------------------------------------------------
(* The payloads.                                                           *)

\* What the points of the collection store.
Stored(payload) ==
  \/ payload = Marker
  \/ \E tenant \in {Text(1), Local}, metadata \in Metadata :
       EncodableMetadata(metadata) /\ payload = Payload(tenant, metadata)

\* The keys of a chunk's payload.
Keys(metadata) == {RecordType, Tenant} \cup {Key(name) : name \in DOMAIN metadata}

LEMMA KeysDiffer ==
  /\ RecordType # Tenant /\ Len(RecordType) = 1 /\ Len(Tenant) = 1
  /\ \A name : Len(Key(name)) = 2 /\ Key(name)[2] = name
  /\ \A name : Key(name) # RecordType /\ Key(name) # Tenant
<1>1. /\ Len(RecordType) = 1 /\ Len(Tenant) = 1 /\ RecordType[1] # Tenant[1]
      /\ \A name : Len(Key(name)) = 2 /\ Key(name)[2] = name
  BY DEF RecordType, Tenant, Key
<1>2. QED
  BY <1>1

LEMMA MarkerIs == DOMAIN Marker = {RecordType} /\ Marker[RecordType] = SchemaRecord
BY DEF Marker

LEMMA PayloadIs ==
  ASSUME NEW tenant, NEW metadata
  PROVE  /\ DOMAIN Payload(tenant, metadata) = Keys(metadata)
         /\ Payload(tenant, metadata)[RecordType] = ChunkRecord
         /\ Payload(tenant, metadata)[Tenant] = tenant
         /\ \A name \in DOMAIN metadata : Payload(tenant, metadata)[Key(name)] = metadata[name]
BY KeysDiffer DEF Payload, Keys

LEMMA StoredIsPayload ==
  ASSUME NEW payload, Stored(payload)
  PROVE  IsPayload(payload)
<1>1. CASE payload = Marker
  BY <1>1, KeysDiffer, MarkerIs DEF IsPayload
<1>2. ASSUME NEW tenant, NEW metadata, payload = Payload(tenant, metadata)
      PROVE  IsPayload(payload)
  <2> SUFFICES ASSUME NEW key \in DOMAIN payload, Len(key) = 2 PROVE key = Key(key[2])
    BY DEF IsPayload
  <2>1. key \in Keys(metadata)
    BY <1>2, PayloadIs
  <2>2. PICK name \in DOMAIN metadata : key = Key(name)
    BY <2>1, KeysDiffer DEF Keys
  <2>3. QED
    BY <2>2, KeysDiffer
<1>3. QED
  BY <1>1, <1>2 DEF Stored

\* The fields of a stored payload have the types the schema declares.
LEMMA StoredIsTyped ==
  ASSUME NEW payload, Stored(payload), NEW key \in DOMAIN payload, Len(key) = 2
  PROVE  payload[key].type = Matching(Schema[key[2]].type)
<1>1. payload # Marker
  BY KeysDiffer, MarkerIs
<1>2. PICK tenant \in {Text(1), Local}, metadata \in Metadata :
        EncodableMetadata(metadata) /\ payload = Payload(tenant, metadata)
  BY <1>1 DEF Stored
<1>3. /\ DOMAIN payload = Keys(metadata)
      /\ \A name \in DOMAIN metadata : payload[Key(name)] = metadata[name]
  <2>1. /\ DOMAIN Payload(tenant, metadata) = Keys(metadata)
        /\ \A name \in DOMAIN metadata : Payload(tenant, metadata)[Key(name)] = metadata[name]
    BY PayloadIs
  <2>2. QED
    BY <1>2, <2>1
<1>4. PICK name \in DOMAIN metadata : key = Key(name)
  BY <1>3, KeysDiffer DEF Keys
<1>5. payload[key] = metadata[name] /\ key[2] = name
  BY <1>3, <1>4, KeysDiffer
<1>6. QED
  BY <1>2, <1>5 DEF EncodableMetadata, ScalarFits

\* Qdrant's conditions on the record and the tenant select the tenant's chunks.
LEMMA MatchesAre ==
  ASSUME NEW payload, Stored(payload), NEW filter,
         filter # <<>> => IsTree(filter) /\ Translatable(filter)
  PROVE  Matches(payload, filter)
           <=> /\ payload[RecordType] = ChunkRecord /\ payload[Tenant] = Local
               /\ filter # <<>> => Means(filter, MetadataOf(payload))
<1>1. filter # <<>> => Satisfies(payload, Translation(filter)) = Means(filter, MetadataOf(payload))
  BY StoredIsPayload, FiltersTranslate
<1>2. /\ RecordType \in DOMAIN payload
      /\ payload[RecordType] = ChunkRecord => Tenant \in DOMAIN payload
  <2>1. CASE payload = Marker
    BY <2>1, MarkerIs DEF SchemaRecord, ChunkRecord, Text
  <2>2. CASE \E tenant \in {Text(1), Local}, metadata \in Metadata :
               EncodableMetadata(metadata) /\ payload = Payload(tenant, metadata)
    BY <2>2, PayloadIs DEF Keys
  <2>3. QED
    BY <2>1, <2>2 DEF Stored
<1>3. Holds(payload, FieldIs(RecordType, {ChunkRecord})) <=> payload[RecordType] = ChunkRecord
  BY <1>2 DEF Holds, FieldIs, Ordering
<1>4. payload[RecordType] = ChunkRecord =>
        (Holds(payload, FieldIs(Tenant, {Local})) <=> payload[Tenant] = Local)
  BY <1>2 DEF Holds, FieldIs, Ordering
<1>5. QED
  BY <1>1, <1>3, <1>4 DEF Matches, Trusted

----------------------------------------------------------------------------
(* The ranking.                                                            *)

LEMMA TwoNumbers ==
  ASSUME NEW a \in Int, NEW b \in Int
  PROVE  Max({a, b}) = (IF a >= b THEN a ELSE b) /\ Min({a, b}) = (IF a <= b THEN a ELSE b)
<1>1. \A x : x = (IF a >= b THEN a ELSE b) <=> x \in {a, b} /\ \A y \in {a, b} : x >= y
  OBVIOUS
<1>2. \A x : x = (IF a <= b THEN a ELSE b) <=> x \in {a, b} /\ \A y \in {a, b} : x <= y
  OBVIOUS
<1>3. QED
  BY <1>1, <1>2 DEF Max, Min

\* Division rounds larger numbers to no less.
LEMMA Rounding ==
  ASSUME NEW n \in Nat \ {0}, NEW x \in Int, NEW y \in Int, x >= y
  PROVE  x \div n \in Int /\ y \div n \in Int /\ x \div n >= y \div n
OBVIOUS

\* A more similar point has no lower score.
LEMMA ScoreIsMonotone ==
  ASSUME NEW p, NEW q, p.similarity \in Int, q.similarity \in Int, p.similarity >= q.similarity
  PROVE  Score(p) \in Int /\ Score(q) \in Int /\ Score(p) >= Score(q)
<1> DEFINE Clamped(s) == Min({Unit, Max({-Unit, s})})
<1>1. Unit \in Nat /\ Coarse \in Nat \ {0}
  BY RetrievalAssumption
<1>2. ASSUME NEW s \in Int
      PROVE  Clamped(s) = LET top == IF -Unit >= s THEN -Unit ELSE s IN IF Unit <= top THEN Unit ELSE top
  <2> DEFINE top == Max({-Unit, s})
  <2>1. Unit \in Int /\ -Unit \in Int
    BY <1>1
  <2>2. top = (IF -Unit >= s THEN -Unit ELSE s) /\ top \in Int
    BY <2>1, TwoNumbers
  <2> HIDE DEF top
  <2>3. Min({Unit, top}) = IF Unit <= top THEN Unit ELSE top
    BY <2>1, <2>2, TwoNumbers
  <2>4. QED
    BY <2>2, <2>3 DEF top
<1> HIDE DEF Clamped
<1>3. /\ Clamped(p.similarity) + Unit \in Int /\ Clamped(q.similarity) + Unit \in Int
      /\ Clamped(p.similarity) + Unit >= Clamped(q.similarity) + Unit
  BY <1>1, <1>2
<1>4. Score(p) = (Clamped(p.similarity) + Unit) \div Coarse /\ Score(q) = (Clamped(q.similarity) + Unit) \div Coarse
  BY DEF Score, Clamped
<1>5. QED
  BY <1>1, <1>3, <1>4, Rounding

\* A ranking lists every match that reaches the minimum.
LEMMA RankedIs ==
  ASSUME NEW matches, IsFiniteSet(matches), NEW minimum, NEW ranking \in Ranked(matches, minimum),
         \A p \in matches : Score(p) \in Int /\ p.chunk \in Int
  PROVE  /\ Range(ranking) = {p \in matches : Score(p) >= minimum}
         /\ Len(ranking) = Cardinality({p \in matches : Score(p) >= minimum})
         /\ DOMAIN ranking = 1..Len(ranking)
         /\ \A i, j \in DOMAIN ranking : i < j => Before(ranking[i], ranking[j])
<1> DEFINE scored == {p \in matches : Score(p) >= minimum}
           n == Cardinality(scored)
<1>1. IsFiniteSet(scored) /\ n \in Nat
  BY FS_Subset, FS_CardinalityType
<1>2. ranking \in [1..n -> scored] /\ \A i, j \in DOMAIN ranking : i < j => Before(ranking[i], ranking[j])
  BY DEF Ranked
<1>3. \A p \in scored : ~Before(p, p)
  BY DEF Before
<1> HIDE DEF scored
<1>4. \A i, j \in 1..n : ranking[i] = ranking[j] => i = j
  <2> SUFFICES ASSUME NEW i \in 1..n, NEW j \in 1..n, ranking[i] = ranking[j], i # j PROVE FALSE
    OBVIOUS
  <2>1. i < j \/ j < i
    BY <1>1
  <2>2. QED
    BY <1>2, <1>3, <2>1
<1>5. ranking \in Injection(1..n, scored)
  BY <1>2, <1>4 DEF Injection, IsInjective
<1>6. Cardinality(1..n) = n
  BY <1>1, FS_Interval
<1>7. ranking \in Surjection(1..n, scored)
  BY <1>1, <1>5, <1>6, FS_Injection
<1>8. Range(ranking) = scored
  BY <1>2, <1>7 DEF Surjection, Range
<1>9. Len(ranking) = n
  BY <1>1, <1>2
<1>10. QED
  BY <1>1, <1>2, <1>8, <1>9 DEF scored

\* The best of the matches, ranked: whatever was left out comes after them.
LEMMA BestRanked ==
  ASSUME NEW S, IsFiniteSet(S), NEW limit \in Nat, NEW minimum \in Int,
         NEW matches \in Best(S, limit), NEW ranking \in Ranked(matches, minimum),
         \A p \in S : p.similarity \in Int /\ p.chunk \in Int
  PROVE  /\ Range(ranking) \subseteq {p \in S : Score(p) >= minimum} /\ Len(ranking) <= limit
         /\ \A i, j \in DOMAIN ranking : i < j => Before(ranking[i], ranking[j])
         /\ \A p \in {q \in S : Score(q) >= minimum} \ Range(ranking) :
              Len(ranking) = limit /\ \A i \in DOMAIN ranking : NoBetter(p, ranking[i])
<1> DEFINE scored == {p \in matches : Score(p) >= minimum}
<1>1. /\ matches \in SUBSET S /\ IsFiniteSet(matches) /\ Cardinality(S) \in Nat /\ Cardinality(matches) \in Nat
      /\ Cardinality(matches) = IF Cardinality(S) < limit THEN Cardinality(S) ELSE limit
      /\ \A p \in matches, q \in S \ matches : p.similarity >= q.similarity
  BY FS_Subset, FS_CardinalityType DEF Best
<1>2. \A p \in S : Score(p) \in Int
  BY ScoreIsMonotone
<1>3. /\ Range(ranking) = scored /\ Len(ranking) = Cardinality(scored)
      /\ \A i, j \in DOMAIN ranking : i < j => Before(ranking[i], ranking[j])
  BY <1>1, <1>2, RankedIs
<1>4. scored \in SUBSET matches /\ Cardinality(scored) \in Nat /\ Cardinality(scored) <= Cardinality(matches)
  BY <1>1, FS_Subset, FS_CardinalityType
<1>5. ASSUME NEW p \in S, Score(p) >= minimum, p \notin scored
      PROVE  Len(ranking) = limit /\ \A i \in DOMAIN ranking : NoBetter(p, ranking[i])
  <2>1. p \in S \ matches
    BY <1>5
  <2>2. Cardinality(matches) = limit
    BY <1>1, <2>1, FS_Subset
  <2>3. \A q \in matches : Score(q) \in Int /\ Score(q) >= Score(p) /\ p.similarity <= q.similarity
    BY <1>1, <2>1, ScoreIsMonotone
  <2>4. scored = matches
    BY <1>2, <1>5, <2>1, <2>3
  <2>5. \A i \in DOMAIN ranking : ranking[i] \in matches
    BY <1>3, <2>4 DEF Range
  <2>6. \A q \in matches : NoBetter(p, q)
    BY <1>2, <2>1, <2>3 DEF NoBetter, Before
  <2> HIDE DEF scored
  <2>7. QED
    BY <1>3, <2>2, <2>4, <2>5, <2>6
<1>6. QED
  BY <1>1, <1>3, <1>4, <1>5

----------------------------------------------------------------------------
(* The inductive invariant.                                                *)

\* The points are finitely many, what they store was encoded, and an id is used once.
PointsInv ==
  /\ IsFiniteSet(points)
  /\ \A p \in points : /\ p.chunk \in Chunk \cup {0} /\ p.similarity \in Similarity \cup {0, Unit}
                       /\ Stored(p.payload)
  /\ \A p, q \in points : p.chunk = q.chunk /\ p.chunk # 0 => p = q

\* Where a request is says what the two layers found of its arguments.
RequestInv ==
  /\ pc \in {"idle", "encode", "stored", "search", "answered", "refused", "refused_late"}
  /\ pc = "idle" => request = Idle /\ hits = <<>>
  /\ hits # <<>> => pc = "answered"
  /\ request.filter \in Filters \cup {<<>>}
  /\ pc \in {"idle", "encode", "stored"} => request.filter = <<>>
  /\ pc = "encode" => request.metadata \in Metadata /\ ValidMetadata(request.metadata)
  /\ pc = "search" => request.top_k \in Nat /\ request.minimum \in Int
  /\ request.filter # <<>> => (pc = "refused" <=> ~ValidFilter(request.filter))
  /\ pc = "answered" /\ request.filter # <<>> => Translatable(request.filter)

RetrievalInv == PointsInv /\ RequestInv /\ OnlyNumbersAreDisputed /\ HitsAreBest

LEMMA PointsAreNumbers ==
  ASSUME PointsInv
  PROVE  \A p \in points : p.similarity \in Int /\ p.chunk \in Int
<1>1. Similarity \cup {0, Unit} \subseteq Int /\ Chunk \cup {0} \subseteq Int
  <2>1. Unit \in Nat /\ Similarity \subseteq Int /\ Chunk \subseteq Nat
    BY RetrievalAssumption
  <2>2. QED
    BY <2>1
<1>2. QED
  BY <1>1 DEF PointsInv

LEMMA InvInit ==
  ASSUME Init
  PROVE  RetrievalInv
<1>1. PICK metadata \in {m \in Metadata : EncodableMetadata(m)} :
        points = {[chunk |-> 0, similarity |-> 0, payload |-> Marker],
                  [chunk |-> 0, similarity |-> Unit, payload |-> Payload(Text(1), metadata)]}
  BY DEF Init
<1>2. PointsInv
  <2> DEFINE marker == [chunk |-> 0, similarity |-> 0, payload |-> Marker]
             other == [chunk |-> 0, similarity |-> Unit, payload |-> Payload(Text(1), metadata)]
  <2>1. points = {marker} \cup {other}
    BY <1>1
  <2>2. IsFiniteSet(points)
    BY <2>1, FS_Singleton, FS_Union
  <2>3. Stored(marker.payload) /\ Stored(other.payload)
    BY DEF Stored
  <2>4. /\ marker.chunk = 0 /\ other.chunk = 0
        /\ marker.similarity \in Similarity \cup {0, Unit} /\ other.similarity \in Similarity \cup {0, Unit}
    OBVIOUS
  <2> HIDE DEF marker, other
  <2>5. QED
    BY <2>1, <2>2, <2>3, <2>4 DEF PointsInv
<1>3. RequestInv /\ OnlyNumbersAreDisputed /\ HitsAreBest
  BY DEF Init, Idle, RequestInv, OnlyNumbersAreDisputed, HitsAreBest
<1>4. QED
  BY <1>2, <1>3 DEF RetrievalInv

\* What a search leaves in hits is the best of what the filter means.
LEMMA SearchIsBest ==
  ASSUME PointsInv, request.filter \in Filters \cup {<<>>}, request.top_k \in Nat, request.minimum \in Int,
         request.filter # <<>> => Translatable(request.filter),
         NEW matches \in Best({p \in points : Matches(p.payload, request.filter)}, request.top_k),
         hits' \in Ranked(matches, request.minimum), points' = points, request' = request
  PROVE  HitsAreBest'
<1> DEFINE S == {p \in points : Matches(p.payload, request.filter)}
           eligible == {p \in points : /\ p.payload[RecordType] = ChunkRecord /\ p.payload[Tenant] = Local
                                       /\ Score(p) >= request.minimum
                                       /\ request.filter # <<>> => Means(request.filter, MetadataOf(p.payload))}
<1>1. IsFiniteSet(S)
  BY FS_Subset DEF PointsInv
<1>2. \A p \in S : p.similarity \in Int /\ p.chunk \in Int
  BY PointsAreNumbers
<1>3. eligible = {p \in S : Score(p) >= request.minimum}
  <2>1. request.filter # <<>> => IsTree(request.filter)
    BY RetrievalAssumption
  <2>2. ASSUME NEW p \in points
        PROVE  Matches(p.payload, request.filter)
                 <=> /\ p.payload[RecordType] = ChunkRecord /\ p.payload[Tenant] = Local
                     /\ request.filter # <<>> => Means(request.filter, MetadataOf(p.payload))
    <3>1. Stored(p.payload)
      BY DEF PointsInv
    <3>2. QED
      BY <2>1, <3>1, MatchesAre
  <2>3. QED
    BY <2>2
<1> HIDE DEF S
<1>4. /\ Range(hits') \subseteq {p \in S : Score(p) >= request.minimum} /\ Len(hits') <= request.top_k
      /\ \A i, j \in DOMAIN hits' : i < j => Before(hits'[i], hits'[j])
      /\ \A p \in {q \in S : Score(q) >= request.minimum} \ Range(hits') :
           Len(hits') = request.top_k /\ \A i \in DOMAIN hits' : NoBetter(p, hits'[i])
  BY <1>1, <1>2, BestRanked DEF S
<1> HIDE DEF eligible
<1>5. /\ Range(hits') \subseteq eligible /\ Len(hits') <= request.top_k
      /\ \A i, j \in DOMAIN hits' : i < j => Before(hits'[i], hits'[j])
      /\ \A p \in eligible \ Range(hits') :
           Len(hits') = request.top_k /\ \A i \in DOMAIN hits' : NoBetter(p, hits'[i])
  BY <1>3, <1>4
<1>6. QED
  BY <1>5 DEF HitsAreBest, eligible

\* Each step keeps the invariant.
LEMMA InvStep ==
  ASSUME RetrievalInv, [Next]_vars
  PROVE  RetrievalInv'
<1> USE DEF RetrievalInv
<1>1. CASE BeginIngest
  <2>1. PICK metadata \in Metadata :
          /\ pc = "idle" /\ request' = [Idle EXCEPT !.metadata = metadata]
          /\ pc' = IF ValidMetadata(metadata) THEN "encode" ELSE "refused"
          /\ points' = points /\ hits' = hits
    BY <1>1 DEF BeginIngest
  <2>2. request'.filter = <<>> /\ request'.metadata = metadata
    BY <2>1 DEF Idle
  <2>3. PointsInv'
    BY <2>1 DEF PointsInv
  <2>4. RequestInv'
    BY <2>1, <2>2 DEF RequestInv
  <2>5. OnlyNumbersAreDisputed' /\ HitsAreBest'
    BY <2>1 DEF OnlyNumbersAreDisputed, HitsAreBest
  <2>6. QED
    BY <2>3, <2>4, <2>5
<1>2. CASE Encode
  <2>1. pc = "encode" /\ request' = request /\ hits' = hits
    BY <1>2 DEF Encode
  <2>2. request.filter = <<>> /\ request.metadata \in Metadata /\ ValidMetadata(request.metadata) /\ hits = <<>>
    BY <2>1 DEF RequestInv
  <2>3. CASE EncodableMetadata(request.metadata)
    <3>1. PICK chunk \in Chunk, similarity \in Similarity :
            /\ \A p \in points : p.chunk # chunk
            /\ points' = points \cup {[chunk |-> chunk, similarity |-> similarity,
                                       payload |-> Payload(Trusted, request.metadata)]}
      BY <1>2, <2>3 DEF Encode
    <3>2. pc' = "stored"
      BY <1>2, <2>3 DEF Encode
    <3> DEFINE new == [chunk |-> chunk, similarity |-> similarity, payload |-> Payload(Trusted, request.metadata)]
    <3>3. Stored(new.payload)
      BY <2>2, <2>3 DEF Stored, Trusted
    <3>4. new.chunk = chunk /\ new.similarity = similarity /\ points' = points \cup {new}
      BY <3>1
    <3> HIDE DEF new
    <3>5. IsFiniteSet(points')
      BY <3>4, FS_AddElement DEF PointsInv
    <3>6. PointsInv'
      BY <3>1, <3>3, <3>4, <3>5 DEF PointsInv
    <3>7. RequestInv'
      BY <2>1, <2>2, <3>2 DEF RequestInv
    <3>8. OnlyNumbersAreDisputed' /\ HitsAreBest'
      BY <3>2 DEF OnlyNumbersAreDisputed, HitsAreBest
    <3>9. QED
      BY <3>6, <3>7, <3>8
  <2>4. CASE ~EncodableMetadata(request.metadata)
    <3>1. pc' = "refused_late" /\ points' = points
      BY <1>2, <2>4 DEF Encode
    <3>2. PointsInv'
      BY <3>1 DEF PointsInv
    <3>3. RequestInv'
      BY <2>1, <2>2, <3>1 DEF RequestInv
    <3>4. OnlyNumbersAreDisputed'
      BY <2>1, <2>2, <2>4, MetadataIsDisputed DEF OnlyNumbersAreDisputed
    <3>5. HitsAreBest'
      BY <3>1 DEF HitsAreBest
    <3>6. QED
      BY <3>2, <3>3, <3>4, <3>5
  <2>5. QED
    BY <2>3, <2>4
<1>3. CASE BeginRetrieve
  <2>1. PICK filter \in Filters \cup {<<>>}, k \in 1..MaxTopK, minimum \in 0..((2 * Unit) \div Coarse) :
          /\ request' = [Idle EXCEPT !.filter = filter, !.top_k = k, !.minimum = minimum]
          /\ pc' = IF filter = <<>> \/ ValidFilter(filter) THEN "search" ELSE "refused"
    BY <1>3 DEF BeginRetrieve
  <2>2. pc = "idle" /\ points' = points /\ hits' = hits
    BY <1>3 DEF BeginRetrieve
  <2>3. request'.filter = filter /\ request'.top_k = k /\ request'.minimum = minimum
    BY <2>1 DEF Idle
  <2>4. k \in Nat /\ minimum \in Int
    OBVIOUS
  <2>5. PointsInv'
    BY <2>2 DEF PointsInv
  <2>6. RequestInv'
    BY <2>1, <2>2, <2>3, <2>4 DEF RequestInv
  <2>7. OnlyNumbersAreDisputed' /\ HitsAreBest'
    BY <2>1 DEF OnlyNumbersAreDisputed, HitsAreBest
  <2>8. QED
    BY <2>5, <2>6, <2>7
<1>4. CASE Search
  <2>1. pc = "search" /\ points' = points /\ request' = request
    BY <1>4 DEF Search
  <2>2. /\ request.filter \in Filters \cup {<<>>} /\ request.top_k \in Nat /\ request.minimum \in Int /\ hits = <<>>
        /\ request.filter # <<>> => IsTree(request.filter) /\ ValidFilter(request.filter)
    BY <2>1, RetrievalAssumption DEF RequestInv
  <2>3. PointsInv'
    BY <2>1 DEF PointsInv
  <2>4. CASE request.filter # <<>> /\ ~Translatable(request.filter)
    <3>1. pc' = "refused_late" /\ hits' = hits
      BY <1>4, <2>4 DEF Search
    <3>2. RequestInv'
      BY <2>1, <2>2, <3>1 DEF RequestInv
    <3>3. OnlyNumbersAreDisputed'
      BY <2>1, <2>2, <2>4, FiltersAreDisputed DEF OnlyNumbersAreDisputed
    <3>4. HitsAreBest'
      BY <3>1 DEF HitsAreBest
    <3>5. QED
      BY <2>3, <3>2, <3>3, <3>4
  <2>5. CASE ~(request.filter # <<>> /\ ~Translatable(request.filter))
    <3>1. pc' = "answered"
      BY <1>4, <2>5 DEF Search
    <3>2. PICK matches \in Best({p \in points : Matches(p.payload, request.filter)}, request.top_k) :
            hits' \in Ranked(matches, request.minimum)
      BY <1>4, <2>5 DEF Search
    <3>3. RequestInv'
      BY <2>1, <2>2, <2>5, <3>1 DEF RequestInv
    <3>4. OnlyNumbersAreDisputed'
      BY <3>1 DEF OnlyNumbersAreDisputed
    <3>5. HitsAreBest'
      BY <2>1, <2>2, <2>5, <3>2, SearchIsBest
    <3>6. QED
      BY <2>3, <3>3, <3>4, <3>5
  <2>6. QED
    BY <2>4, <2>5
<1>5. CASE Reply
  <2>1. pc' = "idle" /\ request' = Idle /\ hits' = <<>> /\ points' = points
    BY <1>5 DEF Reply
  <2>2. PointsInv'
    BY <2>1 DEF PointsInv
  <2>3. RequestInv'
    BY <2>1 DEF RequestInv, Idle
  <2>4. OnlyNumbersAreDisputed' /\ HitsAreBest'
    BY <2>1 DEF OnlyNumbersAreDisputed, HitsAreBest
  <2>5. QED
    BY <2>2, <2>3, <2>4
<1>6. CASE UNCHANGED vars
  BY <1>6 DEF vars, PointsInv, RequestInv, OnlyNumbersAreDisputed, HitsAreBest
<1>7. QED
  BY <1>1, <1>2, <1>3, <1>4, <1>5, <1>6 DEF Next

\* The invariant of ingestion and retrieval, for any schema, documents, filter
\* trees, similarities and limits.
THEOREM InvHolds == Spec => []RetrievalInv
BY InvInit, InvStep, PTL DEF Spec

----------------------------------------------------------------------------
(* The properties.                                                         *)

\* Whatever was ingested and asked, the points of the collection are its
\* marker and well-typed chunks, each stored under an id of its own.
THEOREM RetrievalTypeCorrect == Spec => []TypeOK
<1>1. RetrievalInv => TypeOK
  BY StoredIsTyped DEF RetrievalInv, PointsInv, RequestInv, TypeOK
<1>2. QED
  BY <1>1, InvHolds, PTL

\* A retrieval is refused before its query is embedded exactly when its filter
\* is none the documents describe, however deep and wide the tree is.
THEOREM RefusalsJustified == Spec => []RefusalsAreJustified
<1>1. ASSUME RetrievalInv
      PROVE  RefusalsAreJustified
  <2> SUFFICES ASSUME request.filter # <<>>
               PROVE  pc = "refused" <=> (pc # "idle" /\ ~WellFormed(request.filter))
    BY DEF RefusalsAreJustified
  <2>1. request.filter \in Filters /\ pc # "idle" /\ (pc = "refused" <=> ~ValidFilter(request.filter))
    BY <1>1 DEF RetrievalInv, RequestInv
  <2>2. IsTree(request.filter)
    BY <2>1, RetrievalAssumption
  <2>3. QED
    BY <2>1, <2>2, ValidIsWellFormed
<1>2. QED
  BY <1>1, InvHolds, PTL

\* What one layer accepts and the other refuses carries an integer, or a
\* number that is not finite, for a field of floats.
THEOREM NumbersDisputed == Spec => []OnlyNumbersAreDisputed
<1>1. RetrievalInv => OnlyNumbersAreDisputed
  BY DEF RetrievalInv
<1>2. QED
  BY <1>1, InvHolds, PTL

\* The hits of an answer are chunks of the tenant that mean what the filter
\* says, best first; what a full answer leaves out is no more similar than any.
THEOREM HitsBest == Spec => []HitsAreBest
<1>1. RetrievalInv => HitsAreBest
  BY DEF RetrievalInv
<1>2. QED
  BY <1>1, InvHolds, PTL

=============================================================================
