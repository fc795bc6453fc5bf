---------------------------- MODULE MCRetrieval ----------------------------
(* Retrieval with one field of each kind and filters of every shape.       *)
EXTENDS Retrieval, TLC

MCSchema == [topic |-> [type |-> "keyword", indexed |-> TRUE],
             price |-> [type |-> "float", indexed |-> TRUE],
             year |-> [type |-> "integer", indexed |-> TRUE],
             note |-> [type |-> "keyword", indexed |-> FALSE]]

\* Below, within, between and beyond the similarities of unit vectors.
MCSimilarity == {-3, 0, 1, 3}

V(type, n) == [type |-> type, n |-> n]

\* HTTP lets no number that is not finite into metadata.
MCMetadata ==
  {[topic |-> V("str", 0)], [topic |-> V("str", 1), price |-> V("float", 1)], [price |-> V("float", 2)],
   [price |-> V("int", 1)], [year |-> V("bool", 1)], [note |-> V("str", 0)], [other |-> V("str", 0)]}

Leaf(field, op, list, values) ==
  <<>> :> [kind |-> "condition", field |-> field, op |-> op, list |-> list, values |-> values]

\* A group over the trees of its clauses.
Over(kind, clauses) ==
  (<<>> :> [kind |-> kind, size |-> Len(clauses)])
    @@ [path \in UNION {{<<i>> \o below : below \in DOMAIN clauses[i]} : i \in DOMAIN clauses} |->
          clauses[Head(path)][Tail(path)]]

Leaves ==
  {Leaf(field, op, FALSE, <<v>>) : field \in {"topic", "price", "year", "note", "other"}, op \in {"eq", "gt", "lte"},
     v \in {V("str", 0), V("float", 1), V("int", 1), V("nan", 0), V("bool", 1)}}
  \cup {Leaf("topic", op, TRUE, values) : op \in {"in", "eq"},
          values \in {<<>>, <<V("str", 0)>>, <<V("str", 0), V("str", 1)>>, <<V("str", 0), V("int", 0)>>,
                      <<V("str", 0), V("str", 1), V("str", 2)>>}}

Cheap == Leaf("price", "lte", FALSE, <<V("float", 1)>>)

Topical == Leaf("topic", "eq", FALSE, <<V("str", 0)>>)

Shallow == {Over(kind, clauses) : kind \in {"all", "any", "not"},
              clauses \in {<<>>, <<Cheap>>, <<Topical, Cheap>>, <<Cheap, Topical, Cheap>>}}

Deep == {Over(outer, <<Over(inner, <<Topical>>), Cheap>>) : outer \in {"all", "any"}, inner \in {"all", "not"}}
        \cup {Over("not", <<Over("any", <<Over("not", <<Topical>>)>>)>>),
              Over("all", <<Over("any", <<Topical, Cheap>>), Over("not", <<Topical>>)>>),
              Over("not", <<Over("not", <<Cheap>>)>>)}

MCFilters == Leaves \cup Shallow \cup Deep
=============================================================================
