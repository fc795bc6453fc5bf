----------------------------- MODULE Retrieval -----------------------------
(* The metadata of documents and the filters of retrievals, from their     *)
(* validation by the application (application/validation.py), through the  *)
(* encoding and the translation of the vector store adapter                *)
(* (adapters/vector_store/_filters.py), to the points Qdrant matches and   *)
(* the ranking of the hits (application/rag.py).                           *)
(*                                                                         *)
(* Both layers check metadata and filters on their own: the application    *)
(* before anything is embedded, the adapter after.  One document is one    *)
(* chunk here and one query is asked, so that a point has one similarity.  *)
(*                                                                         *)
(* A filter is a tree, given as a function from the path of each node, the *)
(* positions of the clauses that lead to it from the root, to the node: a  *)
(* condition, or a group and how many clauses it has.                      *)
EXTENDS Integers, Sequences, FiniteSetsExt

CONSTANTS
  Schema,         \* the declared fields: name |-> [type, indexed]
  Metadata,       \* the metadata documents are ingested with: name |-> value
  Filters,        \* the filter trees retrievals carry: path |-> node
  Similarity,     \* what Qdrant measures between a chunk and the query
  Unit,           \* the similarity of identical directions
  Coarse,         \* how many similarities rounding gives one score
  Chunk,          \* the chunk ids, in their order
  MaxTopK,
  MaxDepth,       \* MAX_FILTER_DEPTH, max_depth
  MaxConditions,  \* MAX_FILTER_PREDICATES, max_conditions
  MaxValues       \* MAX_IN_VALUES

VARIABLES
  points,   \* the points of the physical collection
  pc,       \* where the request under way is, or how it ended
  request,  \* its arguments
  hits      \* its answer

vars == <<points, pc, request, hits>>

Numeric == {"integer", "float"}

Ordering == {"gt", "gte", "lt", "lte"}

\* A JSON value: its type and a number that orders the values of a type.  The
\* type "nan" stands for the floats that are not finite.
Value == [type : {"str", "int", "float", "nan", "bool"}, n : Int]

Matching(type) == CHOOSE own \in {"str", "int", "float", "bool"} :
  <<type, own>> \in {<<"keyword", "str">>, <<"integer", "int">>, <<"float", "float">>, <<"boolean", "bool">>}

IsGroup(node) == node.kind # "condition"

\* A value of a filter is one scalar or a list, whatever the operator.
Condition ==
  {c \in [kind : {"condition"}, field : STRING, op : {"eq", "in"} \cup Ordering, list : BOOLEAN, values : Seq(Value)] :
     ~c.list => Len(c.values) = 1}

Group == [kind : {"all", "any", "not"}, size : Nat]

Under(path, node) == Len(path) <= Len(node) /\ \A i \in 1..Len(path) : path[i] = node[i]

\* Every clause of a group is a node, and every node but the root a clause of
\* the groups above it.
IsTree(filter) ==
  /\ IsFiniteSet(DOMAIN filter) /\ <<>> \in DOMAIN filter
  /\ \A path \in DOMAIN filter :
       /\ path \in Seq(Nat)
       /\ filter[path] \in Condition \cup Group
       /\ IsGroup(filter[path]) => \A i \in 1..filter[path].size : Append(path, i) \in DOMAIN filter
       /\ \A node \in DOMAIN filter \ {path} :
            Under(path, node) => IsGroup(filter[path]) /\ node[Len(path) + 1] \in 1..filter[path].size

ASSUME RetrievalAssumption ==
  /\ Similarity \subseteq Int /\ Chunk \subseteq Nat
  /\ {Unit, Coarse, MaxTopK, MaxDepth, MaxConditions, MaxValues} \subseteq Nat \ {0}
  /\ \A name \in DOMAIN Schema : Schema[name].type \in {"keyword", "boolean"} \cup Numeric
  /\ \A filter \in Filters : IsTree(filter)
----------------------------------------------------------------------------
(* The application's checks.                                               *)

\* A field of floats takes every number, the infinite ones included.
MatchesType(value, type) ==
  \/ value.type = Matching(type)
  \/ type = "float" /\ value.type \in {"int", "nan"}

ValidMetadata(metadata) ==
  \A name \in DOMAIN metadata : name \in DOMAIN Schema /\ MatchesType(metadata[name], Schema[name].type)

ValidCondition(c) ==
  /\ c.field \in DOMAIN Schema /\ Schema[c.field].indexed
  /\ IF c.op = "in" THEN c.list /\ Len(c.values) \in 1..MaxValues ELSE ~c.list
  /\ \A i \in DOMAIN c.values : MatchesType(c.values[i], Schema[c.field].type)
  /\ c.op \in Ordering => Schema[c.field].type \in Numeric

ValidGroup(group) == group.size # 0 /\ (group.kind = "not" => group.size = 1)

Conditions(filter) == {path \in DOMAIN filter : ~IsGroup(filter[path])}

Refused == -1

\* The conditions counted after the clauses of a group, one after the other.
AfterClauses(visit, path, size, count) ==
  LET after[i \in 0..size] == IF i = 0 THEN count ELSE visit[Append(path, i)][after[i - 1]]
  IN  after[size]

\* The conditions counted up to a node and after it, or Refused; accepted are
\* the conditions that are right in themselves.
Visit(filter, accepted) ==
  LET visit[path \in DOMAIN filter] == [count \in {Refused} \cup 0..MaxConditions |->
        LET node == filter[path]
            rejected == IF IsGroup(node) THEN ~ValidGroup(node) ELSE count = MaxConditions \/ path \notin accepted
        IN  IF count = Refused \/ Len(path) >= MaxDepth \/ rejected THEN Refused
            ELSE IF IsGroup(node) THEN AfterClauses(visit, path, node.size, count)
            ELSE count + 1]
  IN  visit

\* A mutant: each clause of a group is counted from the start.
ValidFilterPerClause(filter) ==
  LET visit == Visit(filter, {path \in Conditions(filter) : ValidCondition(filter[path])})
      root == filter[<<>>]
  IN  IF IsGroup(root) /\ ValidGroup(root) THEN \A i \in 1..root.size : visit[<<i>>][0] # Refused
      ELSE visit[<<>>][0] # Refused

ValidFilter(filter) ==
  Visit(filter, {path \in Conditions(filter) : ValidCondition(filter[path])})[<<>>][0] # Refused
----------------------------------------------------------------------------
(* The adapter's checks and translation.                                   *)

ScalarFits(value, type) == value.type = Matching(type)

\* A mutant: the adapter trusts what the application checked.
EncodableUnchecked(metadata) == ValidMetadata(metadata)

EncodableMetadata(metadata) ==
  \A name \in DOMAIN metadata : name \in DOMAIN Schema /\ ScalarFits(metadata[name], Schema[name].type)

\* A mutant: one value less than the application allows.
TranslatableBelowLimit(c) ==
  /\ c.field \in DOMAIN Schema /\ Schema[c.field].indexed
  /\ IF c.op = "in" THEN c.list /\ c.values # <<>> /\ Len(c.values) < MaxValues ELSE ~c.list
  /\ \A i \in DOMAIN c.values : ScalarFits(c.values[i], Schema[c.field].type)
  /\ c.op \in Ordering => Schema[c.field].type \in Numeric

TranslatableCondition(c) ==
  /\ c.field \in DOMAIN Schema /\ Schema[c.field].indexed
  /\ IF c.op = "in" THEN c.list /\ c.values # <<>> /\ Len(c.values) <= MaxValues ELSE ~c.list
  /\ \A i \in DOMAIN c.values : ScalarFits(c.values[i], Schema[c.field].type)
  /\ c.op \in Ordering => Schema[c.field].type \in Numeric

\* The key of a consumer's field in a payload, and those of the server.
Key(field) == <<"metadata", field>>

Tenant == <<"__tenant_id">>

RecordType == <<"__record_type">>

\* A Qdrant condition on one key: the value is one of these, or in this range.
FieldIs(key, values) == [clause |-> "any", key |-> key, values |-> values]

FieldIn(key, range, bound) == [clause |-> range, key |-> key, values |-> {bound}]

Translated(c) ==
  IF c.op \in Ordering THEN FieldIn(Key(c.field), c.op, Head(c.values))
  ELSE FieldIs(Key(c.field), Range(c.values))

\* A mutant: a negated group is translated like a disjunction.
ClauseNameNotAsAny(kind) == CASE kind = "all" -> "must" [] OTHER -> "should"

ClauseName(kind) == CASE kind = "all" -> "must" [] kind = "any" -> "should" [] kind = "not" -> "must_not"

\* The adapter visits the tree like the application, with its own view of a condition.
Translatable(filter) ==
  Visit(filter, {path \in Conditions(filter) : TranslatableCondition(filter[path])})[<<>>][0] # Refused

Translation(filter) ==
  [path \in DOMAIN filter |->
     LET node == filter[path]
     IN  IF IsGroup(node) THEN [clause |-> ClauseName(node.kind), size |-> node.size] ELSE Translated(node)]
----------------------------------------------------------------------------
(* Qdrant.                                                                 *)

Text(n) == [type |-> "str", n |-> n]

ChunkRecord == Text(0)

SchemaRecord == Text(1)

Local == Text(0)

\* The adapter's trusted_tenant_id: create_app leaves it at its default.
Trusted == Local

\* What the point of a chunk stores under its keys.
Payload(tenant, metadata) ==
  [key \in {RecordType, Tenant} \cup {Key(name) : name \in DOMAIN metadata} |->
     CASE key = RecordType -> ChunkRecord [] key = Tenant -> tenant [] OTHER -> metadata[key[2]]]

\* What the schema marker of a collection stores.
Marker == [key \in {RecordType} |-> SchemaRecord]

InRange(op, a, b) ==
  \/ op \in {"gt", "gte"} /\ a > b
  \/ op \in {"lt", "lte"} /\ a < b
  \/ op \in {"gte", "lte"} /\ a = b

\* Whether a payload satisfies a condition; a key it lacks satisfies none.
Holds(payload, f) ==
  /\ f.key \in DOMAIN payload
  /\ \/ f.clause = "any" /\ payload[f.key] \in f.values
     \/ f.clause \in Ordering /\ \E v \in f.values : InRange(f.clause, payload[f.key].n, v.n)

Satisfies(payload, query) ==
  LET satisfied[path \in DOMAIN query] ==
        LET f == query[path]
        IN  \/ f.clause = "must" /\ (\A i \in 1..f.size : satisfied[Append(path, i)])
            \/ f.clause = "should" /\ (\E i \in 1..f.size : satisfied[Append(path, i)])
            \/ f.clause = "must_not" /\ ~(\E i \in 1..f.size : satisfied[Append(path, i)])
            \/ f.clause \in {"any"} \cup Ordering /\ Holds(payload, f)
  IN  satisfied[<<>>]

\* The limit best of some points, ties in any order.
Best(S, limit) ==
  {best \in SUBSET S : /\ Cardinality(best) = IF Cardinality(S) < limit THEN Cardinality(S) ELSE limit
                       /\ \A p \in best, q \in S \ best : p.similarity >= q.similarity}
----------------------------------------------------------------------------
Idle == [metadata |-> <<>>, filter |-> <<>>, top_k |-> 0, minimum |-> 0]

\* What a search asks for: records of chunks, of the adapter's tenant and of the
\* one the application names, that the consumer's filter matches.
Matches(payload, filter) ==
  /\ Holds(payload, FieldIs(RecordType, {ChunkRecord}))
  /\ Holds(payload, FieldIs(Tenant, {Trusted}))
  /\ Holds(payload, FieldIs(Tenant, {Local}))
  /\ filter # <<>> => Satisfies(payload, Translation(filter))

\* The public score: the similarity, clamped, on a scale from 0 and rounded.
Score(p) == (Min({Unit, Max({-Unit, p.similarity})}) + Unit) \div Coarse

Before(p, q) == Score(p) > Score(q) \/ (Score(p) = Score(q) /\ p.chunk < q.chunk)

\* The matches that reach the minimum, best first, ties by id.
Ranked(matches, minimum) ==
  LET scored == {p \in matches : Score(p) >= minimum}
  IN  {ranking \in [1..Cardinality(scored) -> scored] :
         \A i, j \in DOMAIN ranking : i < j => Before(ranking[i], ranking[j])}

\* A built collection: its schema marker, and a chunk of another tenant.
Init ==
  /\ \E metadata \in {m \in Metadata : EncodableMetadata(m)} :
       points = {[chunk |-> 0, similarity |-> 0, payload |-> Marker],
                 [chunk |-> 0, similarity |-> Unit, payload |-> Payload(Text(1), metadata)]}
  /\ pc = "idle" /\ request = Idle /\ hits = <<>>

\* ingest: the metadata is checked before the text is cut and embedded.
BeginIngest ==
  /\ pc = "idle"
  /\ \E metadata \in Metadata :
       /\ request' = [Idle EXCEPT !.metadata = metadata]
       /\ pc' = IF ValidMetadata(metadata) THEN "encode" ELSE "refused"
  /\ UNCHANGED <<points, hits>>

\* upsert: the adapter checks the metadata again while it encodes the points.
Encode ==
  /\ pc = "encode"
  /\ IF EncodableMetadata(request.metadata)
     THEN /\ \E chunk \in Chunk, similarity \in Similarity :
               /\ \A p \in points : p.chunk # chunk
               /\ points' = points \cup {[chunk |-> chunk, similarity |-> similarity,
                                          payload |-> Payload(Trusted, request.metadata)]}
          /\ pc' = "stored"
     ELSE pc' = "refused_late" /\ UNCHANGED points
  /\ UNCHANGED <<request, hits>>

\* retrieve: the filter is checked before the query is embedded.  No filter
\* is an empty sequence.
BeginRetrieve ==
  /\ pc = "idle"
  /\ \E filter \in Filters \cup {<<>>}, k \in 1..MaxTopK, minimum \in 0..((2 * Unit) \div Coarse) :
       /\ request' = [Idle EXCEPT !.filter = filter, !.top_k = k, !.minimum = minimum]
       /\ pc' = IF filter = <<>> \/ ValidFilter(filter) THEN "search" ELSE "refused"
  /\ UNCHANGED <<points, hits>>

\* search: the adapter checks the filter again while it translates it; the
\* application ranks what Qdrant matched.
Search ==
  /\ pc = "search"
  /\ IF request.filter # <<>> /\ ~Translatable(request.filter)
     THEN pc' = "refused_late" /\ UNCHANGED hits
     ELSE /\ pc' = "answered"
          /\ \E matches \in Best({p \in points : Matches(p.payload, request.filter)}, request.top_k) :
               hits' \in Ranked(matches, request.minimum)
  /\ UNCHANGED <<points, request>>

\* The request is answered.
Reply ==
  /\ pc \in {"stored", "answered", "refused", "refused_late"}
  /\ pc' = "idle" /\ request' = Idle /\ hits' = <<>>
  /\ UNCHANGED points

Next == BeginIngest \/ Encode \/ BeginRetrieve \/ Search \/ Reply

Spec == Init /\ [][Next]_vars
----------------------------------------------------------------------------
(* What the documents define, stated over the nodes of a tree.             *)

\* A condition on a declared and indexed field that the grammar gives a meaning;
\* numbers that are not finite are left to the adapter.
WellTyped(c) ==
  /\ c.field \in {name \in DOMAIN Schema : Schema[name].indexed}
  /\ c.list = (c.op = "in")
  /\ c.list => c.values # <<>> /\ Len(c.values) <= MaxValues
  /\ LET type == Schema[c.field].type
         allowed == IF type = "float" THEN {"float", "nan", "int"} ELSE {Matching(type)}
     IN  (\A i \in DOMAIN c.values : c.values[i].type \in allowed) /\ (c.op \in Ordering => type \in Numeric)

WellFormed(filter) ==
  /\ \A path \in DOMAIN filter : Len(path) < MaxDepth /\ (IsGroup(filter[path]) => ValidGroup(filter[path]))
  /\ Cardinality(Conditions(filter)) <= MaxConditions
  /\ \A path \in Conditions(filter) : WellTyped(filter[path])

\* Whether metadata satisfies a condition, and a filter, as a consumer reads it.
MeansOne(c, metadata) ==
  /\ c.field \in DOMAIN metadata
  /\ \E i \in DOMAIN c.values :
       IF c.op \in Ordering THEN InRange(c.op, metadata[c.field].n, c.values[i].n)
       ELSE metadata[c.field] = c.values[i]

Means(filter, metadata) ==
  LET means[path \in DOMAIN filter] ==
        LET node == filter[path]
        IN  CASE node.kind = "all" -> \A i \in 1..node.size : means[Append(path, i)]
              [] node.kind = "any" -> \E i \in 1..node.size : means[Append(path, i)]
              [] node.kind = "not" -> ~means[Append(path, 1)]
              [] node.kind = "condition" -> MeansOne(node, metadata)
  IN  means[<<>>]

\* The metadata a payload carries.
MetadataOf(payload) ==
  LET names == {key[2] : key \in {k \in DOMAIN payload : Len(k) = 2}}
  IN  [name \in names |-> payload[Key(name)]]

\* The numbers the two layers judge differently.
Disputed(value, name) == name \in DOMAIN Schema /\ Schema[name].type = "float" /\ value.type \in {"int", "nan"}
----------------------------------------------------------------------------
\* The points are the marker, another tenant's chunk and well-typed chunks of
\* the tenant, one per id; a request is where its arguments say.
TypeOK ==
  /\ \A p \in points : p.chunk \in Chunk \cup {0} /\ p.similarity \in Similarity \cup {0, Unit}
  /\ \A p, q \in points : p.chunk = q.chunk /\ p.chunk # 0 => p = q
  /\ \A p \in points : \A key \in DOMAIN p.payload :
       Len(key) = 2 => p.payload[key].type = Matching(Schema[key[2]].type)
  /\ pc \in {"idle", "encode", "stored", "search", "answered", "refused", "refused_late"}
  /\ pc = "idle" => request = Idle /\ hits = <<>>
  /\ hits # <<>> => pc = "answered"

\* A retrieval is refused before its query is embedded exactly when its filter
\* is none the documents describe: too deep, too many conditions in the whole
\* tree, an empty group, a field that may not be filtered, a wrong type.
RefusalsAreJustified ==
  request.filter # <<>> => (pc = "refused" <=> (pc # "idle" /\ ~WellFormed(request.filter)))

\* The two layers disagree on numbers only: what the application accepted and
\* the adapter refuses carries an integer or a non-finite number for a float.
OnlyNumbersAreDisputed ==
  pc = "refused_late" =>
    \/ \E name \in DOMAIN request.metadata : Disputed(request.metadata[name], name)
    \/ request.filter # <<>> /\ \E path \in Conditions(request.filter) :
         LET c == request.filter[path] IN \E i \in DOMAIN c.values : Disputed(c.values[i], c.field)

\* No fault of the answer: p is less similar than a hit, or as similar.  It may
\* still precede the hit in the order of the answer, by its id, but only where
\* the two scores are the same, rounded: the store cuts the list by similarity,
\* before the scores and the ids are compared.
NoBetter(p, hit) == p.similarity <= hit.similarity /\ (Before(p, hit) => Score(p) = Score(hit))

\* The hits of an answer: chunks of the tenant that mean what the filter says
\* and reach the minimum, best first, ties by id; and a chunk is left out only
\* of a full answer, of which every hit is at least as similar to the query.
HitsAreBest ==
  LET eligible == {p \in points : /\ p.payload[RecordType] = ChunkRecord /\ p.payload[Tenant] = Local
                                  /\ Score(p) >= request.minimum
                                  /\ request.filter # <<>> => Means(request.filter, MetadataOf(p.payload))}
  IN  pc = "answered" =>
        /\ Range(hits) \subseteq eligible /\ Len(hits) <= request.top_k
        /\ \A i, j \in DOMAIN hits : i < j => Before(hits[i], hits[j])
        /\ \A p \in eligible \ Range(hits) :
             Len(hits) = request.top_k /\ \A i \in DOMAIN hits : NoBetter(p, hits[i])

\* What the application accepts the adapter accepts.  The documents say that
\* a float field takes any finite JSON number and that an invalid request is
\* answered before Qdrant is called (api-usage-101.md:182,
\* rag-core-api-decisions.md:152-155).
AcceptedIsApplied == pc # "refused_late"
=============================================================================
