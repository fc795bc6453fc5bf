---------------------- MODULE DocumentIngestionProofs ----------------------
(***************************************************************************)
(* Theorems about DocumentIngestion for any number of generations,         *)
(* documents, versions, chunks and concurrent requests.                    *)
(***************************************************************************)
EXTENDS DocumentIngestion, TLAPS

\* A request at one of its vector-store calls, or answering.
Continue(h) ==
  \/ Upsert(h) \/ CountOlder(h) \/ PurgeOlder(h)
  \/ CountDocument(h) \/ RemoveDocument(h)
  \/ Reply(h) \/ Search(h)

BeginSome(h) == BeginIngest(h) \/ BeginDelete(h) \/ BeginRetrieve(h)

LEMMA NextSplits == Next <=> (\E h \in Handler : BeginSome(h) \/ Continue(h)) \/ CatalogMoves \/ LateCallLands
BY DEF Next, ServiceNext, BeginSome, Continue

----------------------------------------------------------------------------
(* Points.                                                                 *)

LEMMA PointsAreTyped ==
  ASSUME NEW g \in Gen, NEW d \in Document, NEW v \in Version
  PROVE  PointsOf(g, d, v) \subseteq Point
BY IngestionAssumption DEF PointsOf, Point

\* What the members of PointsOf have in common.
LEMMA PointFields ==
  \A g, d, v : \A p \in PointsOf(g, d, v) : p.gen = g /\ p.doc = d /\ p.version = v
BY DEF PointsOf

\* A successful, failed or late call on (g, d) adds chunks of (g, d) and
\* removes points of (g, d) only.
LEMMA CallEffect ==
  ASSUME NEW call, NEW added \in SUBSET Added(call), NEW removed \in SUBSET Removed(call),
         points' = (points \ removed) \cup added
  PROVE  /\ \A g, d : (g # call.gen \/ d # call.doc) => Stored(g, d)' = Stored(g, d)
         /\ \A p \in points' \ points : p \in PointsOf(call.gen, call.doc, call.version)
         /\ call.op = "upsert" => points \subseteq points'
         /\ call.op # "upsert" => points' \subseteq points
         /\ call.op = "purge" => \A p \in points : p.version = call.version => p \in points'
<1>1. \A p \in added : p \in PointsOf(call.gen, call.doc, call.version)
  BY DEF Added
<1>2. \A p \in added : p.gen = call.gen /\ p.doc = call.doc
  BY <1>1, PointFields
<1>3. \A p \in removed : p.gen = call.gen /\ p.doc = call.doc
  BY DEF Removed, Stored
<1>4. \A g, d : (g # call.gen \/ d # call.doc) => Stored(g, d)' = Stored(g, d)
  BY <1>2, <1>3 DEF Stored
<1>5. call.op = "upsert" => removed = {}
  BY DEF Removed
<1>6. call.op # "upsert" => added = {}
  BY DEF Added
<1>7. call.op = "purge" => \A p \in removed : p.version # call.version
  BY DEF Removed
<1>8. QED
  BY <1>1, <1>4, <1>5, <1>6, <1>7

\* The calls a request makes, and what they may leave behind.
LEMMA CallOutcome ==
  ASSUME NEW call, Done(call) \/ Fails(call)
  PROVE  \/ /\ UNCHANGED late
            /\ \E added \in SUBSET Added(call), removed \in SUBSET Removed(call) :
                 points' = (points \ removed) \cup added
         \/ LateCalls /\ late' = late \cup {call} /\ UNCHANGED points
BY DEF Done, Fails

----------------------------------------------------------------------------
(* Type correctness.                                                       *)

LEMMA CallTypes ==
  ASSUME TypeOK, NEW h \in Handler, IsBound(h),
         NEW op \in {"upsert", "purge", "remove"},
         op = "upsert" => pc[h] = "upsert",
         op = "purge" => pc[h] \in {"count_older", "purge_older"},
         op = "remove" => pc[h] \in {"count_document", "remove"}
  PROVE  /\ Call(h, op) \in CallSet
         /\ Added(Call(h, op)) \subseteq Point
<1>1. Call(h, op) \in CallSet
  BY DEF Call, CallSet, IsBound, TypeOK, Request
<1>2. Added(Call(h, op)) \subseteq Point
  BY PointsAreTyped DEF Call, Added, IsBound
<1>3. QED
  BY <1>1, <1>2

LEMMA ContinueTypes ==
  ASSUME TypeOK, NEW h \in Handler, IsBound(h), Continue(h)
  PROVE  TypeOK' /\ IsBound(h)'
<1>1. /\ pc' \in [Handler -> Label]
      /\ req' \in [Handler -> Request]
      /\ UNCHANGED <<catalog, activated>>
  BY DEF Continue, Upsert, CountOlder, PurgeOlder, CountDocument, RemoveDocument, Reply, Search,
         Goto, Answer, Idle, Request, Label, TypeOK
<1>2. points' \subseteq Point /\ late' \subseteq CallSet
  <2>1. ASSUME NEW op \in {"upsert", "purge", "remove"},
               op = "upsert" => pc[h] = "upsert",
               op = "purge" => pc[h] \in {"count_older", "purge_older"},
               op = "remove" => pc[h] \in {"count_document", "remove"},
               Done(Call(h, op)) \/ Fails(Call(h, op))
        PROVE  points' \subseteq Point /\ late' \subseteq CallSet
    <3> DEFINE call == Call(h, op)
    <3>1. call \in CallSet /\ Added(call) \subseteq Point
      BY <2>1, CallTypes
    <3>2. CASE LateCalls /\ late' = late \cup {call} /\ UNCHANGED points
      BY <3>1, <3>2 DEF TypeOK
    <3>3. CASE UNCHANGED late /\ \E added \in SUBSET Added(call), removed \in SUBSET Removed(call) :
                                  points' = (points \ removed) \cup added
      BY <3>1, <3>3 DEF TypeOK
    <3>4. QED
      BY <2>1, <3>2, <3>3, CallOutcome
  <2>2. CASE UNCHANGED <<points, late>>
    BY <2>2 DEF TypeOK
  <2>3. CASE Upsert(h)
    BY <2>1, <2>3 DEF Upsert
  <2>4. CASE PurgeOlder(h)
    BY <2>1, <2>4 DEF PurgeOlder
  <2>5. CASE RemoveDocument(h)
    BY <2>1, <2>5 DEF RemoveDocument
  <2>6. CASE CountOlder(h) \/ CountDocument(h) \/ Reply(h) \/ Search(h)
    BY <2>2, <2>6 DEF CountOlder, CountDocument, Reply, Search
  <2>7. QED
    BY <2>3, <2>4, <2>5, <2>6 DEF Continue
<1>3. IsBound(h)'
  <2>1. CASE pc'[h] = "idle"
    BY <2>1 DEF IsBound
  <2>2. CASE UNCHANGED req /\ \/ pc[h] = "upsert" /\ pc'[h] = "count_older"
                              \/ pc[h] = "count_older" /\ pc'[h] \in {"purge_older", "done"}
                              \/ pc[h] = "purge_older" /\ pc'[h] = "done"
                              \/ pc[h] = "count_document" /\ pc'[h] \in {"remove", "done"}
                              \/ pc[h] = "remove" /\ pc'[h] = "done"
    BY <2>2 DEF IsBound
  <2> USE DEF Goto, Answer, TypeOK
  <2>3. CASE Upsert(h) \/ PurgeOlder(h) \/ RemoveDocument(h)
    BY <2>1, <2>2, <2>3 DEF Upsert, PurgeOlder, RemoveDocument
  <2>4. CASE CountOlder(h) \/ CountDocument(h)
    BY <2>1, <2>2, <2>4 DEF CountOlder, CountDocument
  <2>5. CASE Reply(h) \/ Search(h)
    BY <2>1, <2>5 DEF Reply, Search
  <2>6. QED
    BY <2>3, <2>4, <2>5 DEF Continue
<1>4. QED
  BY <1>1, <1>2, <1>3 DEF TypeOK

\* What a request keeps of its first read.
LEMMA BeginEffect ==
  ASSUME TypeOK, NEW h \in Handler, NEW op \in {"ingest", "delete", "retrieve"},
         NEW d \in Document \cup {None}, NEW v \in Version \cup {None}, NEW label \in Label,
         Begin(h, op, d, v, label)
  PROVE  /\ UNCHANGED <<catalog, activated, points, late>>
         /\ \A k \in Handler \ {h} : pc'[k] = pc[k] /\ req'[k] = req[k]
         /\ pc' \in [Handler -> Label] /\ pc'[h] = label
         /\ req'[h].op = op /\ req'[h].doc = d /\ req'[h].version = v
         /\ req'[h].gen \in Gen /\ Active = {req'[h].gen}
         /\ req' \in [Handler -> Request]
<1>1. PICK g \in Gen : Active = {g} /\ req' = [req EXCEPT ![h] = [op |-> op, gen |-> g, doc |-> d, version |-> v]]
  BY DEF Begin
<1>2. [op |-> op, gen |-> g, doc |-> d, version |-> v] \in Request
  BY DEF Request
<1>3. QED
  BY <1>1, <1>2 DEF Begin, Goto, TypeOK

LEMMA BeginSets ==
  ASSUME TypeOK, NEW h \in Handler, BeginSome(h)
  PROVE  /\ UNCHANGED <<catalog, activated, points, late>>
         /\ \A k \in Handler \ {h} : pc'[k] = pc[k] /\ req'[k] = req[k]
         /\ pc' \in [Handler -> Label]
         /\ req' \in [Handler -> Request]
         /\ req'[h].gen \in Gen /\ Active = {req'[h].gen}
         /\ \/ /\ pc'[h] = "upsert" /\ req'[h].op = "ingest"
               /\ req'[h].doc \in Document /\ req'[h].version \in Version /\ MayWrite(h, req'[h].doc)
            \/ /\ pc'[h] = "count_document" /\ req'[h].op = "delete"
               /\ req'[h].doc \in Document /\ req'[h].version = None /\ MayWrite(h, req'[h].doc)
            \/ pc'[h] = "search" /\ req'[h].doc = None
<1> USE DEF Label
<1>1. CASE BeginIngest(h)
  <2>1. PICK d \in Document, v \in Version : MayWrite(h, d) /\ Begin(h, "ingest", d, v, "upsert")
    BY <1>1 DEF BeginIngest
  <2>2. QED
    BY <2>1, BeginEffect
<1>2. CASE BeginDelete(h)
  <2>1. PICK d \in Document : MayWrite(h, d) /\ Begin(h, "delete", d, None, "count_document")
    BY <1>2 DEF BeginDelete
  <2>2. QED
    BY <2>1, BeginEffect
<1>3. CASE BeginRetrieve(h)
  BY <1>3, BeginEffect DEF BeginRetrieve
<1>4. QED
  BY <1>1, <1>2, <1>3 DEF BeginSome

LEMMA BeginTypes ==
  ASSUME TypeOK, NEW h \in Handler, BeginSome(h)
  PROVE  TypeOK' /\ IsBound(h)'
BY BeginSets DEF TypeOK, IsBound

LEMMA MoveTypes ==
  ASSUME TypeOK, CatalogMoves
  PROVE  TypeOK'
<1>1. catalog' \in [Gen -> Catalog!State]
  <2> USE DEF TypeOK, Catalog!State
  <2>1. CASE \E g \in Gen : Catalog!AddGeneration(g)
    BY <2>1 DEF Catalog!AddGeneration
  <2>2. CASE \E g \in Gen : Catalog!MarkReady(g) \/ Catalog!MarkFailed(g) \/ Catalog!Revalidate(g)
    BY <2>2 DEF Catalog!MarkReady, Catalog!MarkFailed, Catalog!Revalidate, Catalog!UpdateState
  <2>3. CASE \E g \in Gen : Catalog!SetActive(g)
    BY <2>3 DEF Catalog!SetActive
  <2>4. CASE \E listed \in SUBSET Catalog!Recorded : Catalog!Retire(listed)
    BY <2>4 DEF Catalog!Retire
  <2>5. QED
    BY <2>1, <2>2, <2>3, <2>4 DEF CatalogMoves, Catalog!CatalogNext
<1>2. activated' \subseteq Gen
  BY DEF TypeOK, CatalogMoves, Remember, Active, Catalog!Active
<1>3. QED
  BY <1>1, <1>2 DEF TypeOK, CatalogMoves

LEMMA LateTypes ==
  ASSUME TypeOK, LateCallLands
  PROVE  TypeOK'
<1>1. PICK call \in late :
        points' = (points \ Removed(call)) \cup Added(call) /\ late' = late \ {call}
  BY DEF LateCallLands
<1>2. Added(call) \subseteq Point
  BY PointsAreTyped DEF TypeOK, CallSet, Added
<1>3. QED
  BY <1>1, <1>2 DEF TypeOK, LateCallLands

\* A step of one request leaves the others where they are.
LEMMA OthersUnmoved ==
  ASSUME TypeOK, NEW h \in Handler, BeginSome(h) \/ Continue(h), NEW k \in Handler \ {h}
  PROVE  pc'[k] = pc[k] /\ req'[k] = req[k]
<1>1. CASE BeginSome(h)
  BY <1>1, BeginSets DEF TypeOK
<1>2. CASE Continue(h)
  BY <1>2 DEF Continue, Upsert, CountOlder, PurgeOlder, CountDocument, RemoveDocument, Reply, Search,
              Goto, Answer, TypeOK
<1>3. QED
  BY <1>1, <1>2

LEMMA TypeStep ==
  ASSUME TypeOK, \A h \in Handler : IsBound(h), [Next]_vars
  PROVE  TypeOK' /\ \A h \in Handler : IsBound(h)'
<1>1. ASSUME NEW h \in Handler, BeginSome(h) \/ Continue(h)
      PROVE  TypeOK' /\ \A k \in Handler : IsBound(k)'
  <2>1. TypeOK' /\ IsBound(h)'
    BY <1>1, BeginTypes, ContinueTypes
  <2>2. ASSUME NEW k \in Handler \ {h}
        PROVE  IsBound(k)'
    BY <1>1, OthersUnmoved DEF IsBound
  <2>3. QED
    BY <2>1, <2>2
<1>2. CASE CatalogMoves
  BY <1>2, MoveTypes DEF CatalogMoves, IsBound
<1>3. CASE LateCallLands
  BY <1>3, LateTypes DEF LateCallLands, IsBound
<1>4. CASE UNCHANGED vars
  BY <1>4 DEF vars, TypeOK, IsBound
<1>5. QED
  BY <1>1, <1>2, <1>3, <1>4, NextSplits

----------------------------------------------------------------------------
(* The inductive invariant, for clients that write a document one request  *)
(* at a time and let the calls of one request land before the next.        *)

LEMMA InvariantHoldsInitially == Init => IInv
<1> SUFFICES ASSUME Init PROVE IInv
  OBVIOUS
<1>1. TypeOK
  BY StartAssumption DEF Init, TypeOK, Catalog!State, Active, Catalog!Active, Label, Idle, Request
<1>2. OneWriter
  BY IngestionAssumption DEF Init, OneWriter, Idle
<1>3. OnlyChunks /\ LateIsAlone /\ AcknowledgedWritesHold /\ \A h \in Handler : IsBound(h) /\ KeepsItsVersion(h)
  BY DEF Init, OnlyChunks, LateIsAlone, AcknowledgedWritesHold, IsBound, KeepsItsVersion
<1>4. QED
  BY <1>1, <1>2, <1>3 DEF Init, IInv

\* Whether a version is complete depends on the points of its document only.
LEMMA HoldsStored ==
  \A g, d, v : Holds(g, d, v) <=> PointsOf(g, d, v) \subseteq Stored(g, d)
BY PointFields DEF Holds, Stored

\* A step of a request leaves its call to land later, or applies what it does.
LEMMA LateEffect ==
  ASSUME TypeOK, NEW h \in Handler, Continue(h)
  PROVE  \/ UNCHANGED late
         \/ /\ UNCHANGED points
            /\ pc[h] \in {"upsert", "purge_older", "remove"}
            /\ pc'[h] = "idle" /\ req'[h].doc = None
            /\ late \subseteq late'
            /\ \A mine \in late' \ late :
                 /\ mine.doc = req[h].doc /\ mine.gen = req[h].gen /\ mine.version = req[h].version
                 /\ mine.op = "purge" => pc[h] = "purge_older"
            /\ \A mine, other \in late' \ late : mine = other
<1>1. ASSUME NEW op, Fails(Call(h, op)), Answer(h), op = "purge" => pc[h] = "purge_older"
      PROVE  \/ UNCHANGED late
             \/ /\ UNCHANGED points /\ pc'[h] = "idle" /\ req'[h].doc = None
                /\ late \subseteq late'
                /\ \A mine \in late' \ late :
                     /\ mine.doc = req[h].doc /\ mine.gen = req[h].gen /\ mine.version = req[h].version
                     /\ mine.op = "purge" => pc[h] = "purge_older"
                /\ \A mine, other \in late' \ late : mine = other
  <2>1. pc'[h] = "idle" /\ req'[h].doc = None
    BY <1>1 DEF Answer, Goto, Idle, TypeOK
  <2>2. CASE late' = late \cup {Call(h, op)} /\ UNCHANGED points
    <3>1. \A mine \in late' \ late : mine = Call(h, op)
      BY <2>2
    <3>2. /\ Call(h, op).op = op /\ Call(h, op).gen = req[h].gen
          /\ Call(h, op).doc = req[h].doc /\ Call(h, op).version = req[h].version
      BY DEF Call
    <3>3. QED
      BY <1>1, <2>1, <2>2, <3>1, <3>2
  <2>3. QED
    BY <1>1, <2>1, <2>2 DEF Fails
<1>2. CASE Upsert(h)
  <2>1. CASE Done(Call(h, "upsert"))
    BY <2>1 DEF Done
  <2>2. CASE Fails(Call(h, "upsert")) /\ Answer(h)
    BY <1>1, <1>2, <2>2 DEF Upsert
  <2>3. QED
    BY <1>2, <2>1, <2>2 DEF Upsert
<1>3. CASE PurgeOlder(h)
  <2>1. CASE Done(Call(h, "purge"))
    BY <2>1 DEF Done
  <2>2. CASE Fails(Call(h, "purge")) /\ Answer(h)
    BY <1>1, <1>3, <2>2 DEF PurgeOlder
  <2>3. QED
    BY <1>3, <2>1, <2>2 DEF PurgeOlder
<1>4. CASE RemoveDocument(h)
  <2>1. CASE Done(Call(h, "remove"))
    BY <2>1 DEF Done
  <2>2. CASE Fails(Call(h, "remove")) /\ Answer(h)
    BY <1>1, <1>4, <2>2 DEF RemoveDocument
  <2>3. QED
    BY <1>4, <2>1, <2>2 DEF RemoveDocument
<1>5. CASE CountOlder(h) \/ CountDocument(h) \/ Reply(h) \/ Search(h)
  BY <1>5 DEF CountOlder, CountDocument, Reply, Search
<1>6. QED
  BY <1>2, <1>3, <1>4, <1>5 DEF Continue

\* What a step of a request does to the points.
LEMMA WriterEffect ==
  ASSUME TypeOK, NEW h \in Handler, IsBound(h), Continue(h)
  PROVE  \/ UNCHANGED points
         \/ /\ pc[h] \in {"upsert", "purge_older", "remove"}
            /\ \A g, d : (g # req[h].gen \/ d # req[h].doc) => Stored(g, d)' = Stored(g, d)
            /\ \A p \in points' \ points :
                 pc[h] = "upsert" /\ p \in PointsOf(req[h].gen, req[h].doc, req[h].version)
            /\ pc[h] = "upsert" => points \subseteq points'
            /\ pc[h] = "purge_older" => \A p \in points : p.version = req[h].version => p \in points'
<1>1. ASSUME NEW op \in {"upsert", "purge", "remove"},
             Done(Call(h, op)) \/ Fails(Call(h, op)),
             op = "upsert" <=> pc[h] = "upsert", op = "purge" <=> pc[h] = "purge_older",
             pc[h] \in {"upsert", "purge_older", "remove"}, ~UNCHANGED points
      PROVE  /\ \A g, d : (g # req[h].gen \/ d # req[h].doc) => Stored(g, d)' = Stored(g, d)
             /\ \A p \in points' \ points :
                  pc[h] = "upsert" /\ p \in PointsOf(req[h].gen, req[h].doc, req[h].version)
             /\ pc[h] = "upsert" => points \subseteq points'
             /\ pc[h] = "purge_older" => \A p \in points : p.version = req[h].version => p \in points'
  <2> DEFINE call == Call(h, op)
  <2>1. call.op = op /\ call.gen = req[h].gen /\ call.doc = req[h].doc /\ call.version = req[h].version
    BY DEF Call
  <2>2. PICK added \in SUBSET Added(call), removed \in SUBSET Removed(call) :
          points' = (points \ removed) \cup added
    BY <1>1, CallOutcome
  <2> HIDE DEF call
  <2>3. /\ \A g, d : (g # call.gen \/ d # call.doc) => Stored(g, d)' = Stored(g, d)
        /\ \A p \in points' \ points : p \in PointsOf(call.gen, call.doc, call.version)
        /\ call.op = "upsert" => points \subseteq points'
        /\ call.op # "upsert" => points' \subseteq points
        /\ call.op = "purge" => \A p \in points : p.version = call.version => p \in points'
    BY <2>2, CallEffect
  <2>4. QED
    BY <1>1, <2>1, <2>3
<1>2. CASE Upsert(h)
  BY <1>1, <1>2 DEF Upsert
<1>3. CASE PurgeOlder(h)
  BY <1>1, <1>3 DEF PurgeOlder
<1>4. CASE RemoveDocument(h)
  BY <1>1, <1>4 DEF RemoveDocument
<1>5. CASE CountOlder(h) \/ CountDocument(h) \/ Reply(h) \/ Search(h)
  BY <1>5 DEF CountOlder, CountDocument, Reply, Search
<1>6. QED
  BY <1>2, <1>3, <1>4, <1>5 DEF Continue

\* A request keeps its document or forgets it.
LEMMA DocEffect ==
  ASSUME TypeOK, NEW h \in Handler, Continue(h)
  PROVE  req'[h] = req[h] \/ req'[h].doc = None
BY DEF Continue, Upsert, CountOlder, PurgeOlder, CountDocument, RemoveDocument, Reply, Search,
       Goto, Answer, Idle, TypeOK

LEMMA OneWriterStep ==
  ASSUME Exclusive, IInv, NEW h \in Handler, BeginSome(h) \/ Continue(h)
  PROVE  OneWriter'
<1> USE DEF IInv
<1>1. \A k \in Handler \ {h} : req'[k] = req[k]
  BY OthersUnmoved
<1>2. ASSUME NEW k \in Handler \ {h}
      PROVE  req'[h].doc \in Document => req'[k].doc # req'[h].doc
  <2>1. CASE Continue(h)
    BY <1>1, <2>1, DocEffect, IngestionAssumption DEF OneWriter
  <2>2. CASE BeginSome(h)
    BY <1>1, <2>2, BeginSets, IngestionAssumption DEF MayWrite
  <2>3. QED
    BY <2>1, <2>2
<1>3. QED
  BY <1>1, <1>2 DEF OneWriter

\* A request changes the points of its own document only.
LEMMA OthersKeepDocument ==
  ASSUME IInv, NEW h \in Handler, BeginSome(h) \/ Continue(h),
         NEW d \in Document, req[h].doc # d
  PROVE  \A g : Stored(g, d)' = Stored(g, d)
<1>1. CASE BeginSome(h)
  BY <1>1, BeginSets DEF IInv, Stored
<1>2. CASE Continue(h)
  <2>1. CASE UNCHANGED points
    BY <2>1 DEF Stored
  <2>2. QED
    BY <1>2, <2>1, WriterEffect DEF IInv
<1>3. QED
  BY <1>1, <1>2

\* What a request has established stays true while nobody touches its document.
LEMMA UntouchedKeeps ==
  ASSUME IInv, NEW k \in Handler, pc'[k] = pc[k], req'[k] = req[k],
         \A c \in Document : req[k].doc = c => \A e : Stored(e, c)' = Stored(e, c)
  PROVE  /\ KeepsItsVersion(k)'
         /\ pc'[k] = "done" =>
              Stored(req[k].gen, req[k].doc)' =
                IF req'[k].op = "ingest" THEN PointsOf(req[k].gen, req[k].doc, req[k].version)' ELSE {}
<1>1. pc'[k] = pc[k] /\ req'[k] = req[k]
  OBVIOUS
<1>2. CASE pc[k] \in {"count_older", "purge_older", "done"}
  <2> DEFINE g == req[k].gen
             d == req[k].doc
             v == req[k].version
  <2>1. d \in Document
    BY <1>2 DEF IInv, IsBound
  <2>2. Stored(g, d)' = {p \in points' : p.gen = g /\ p.doc = d}
    BY <1>1 DEF Stored
  <2>3. {p \in points' : p.gen = g /\ p.doc = d} = Stored(g, d)
    <3>1. ASSUME NEW c \in Document, c = d, NEW e
          PROVE  Stored(e, c)' = Stored(e, c)
      BY <3>1
    <3>2. ASSUME NEW c \in Document, c = d, NEW e
          PROVE  {p \in points' : p.gen = e /\ p.doc = c} = Stored(e, c)
      BY <3>1, <3>2 DEF Stored
    <3>3. QED
      BY <2>1, <3>2
  <2>4. PointsOf(g, d, v)' = PointsOf(g, d, v)
    BY <1>1 DEF PointsOf
  <2>5. CASE pc[k] \in {"count_older", "purge_older"}
    <3>1. PointsOf(g, d, v) \subseteq Stored(g, d)
      BY <2>5, HoldsStored DEF IInv, KeepsItsVersion
    <3>2. PointsOf(g, d, v) \subseteq points'
      BY <2>3, <3>1
    <3>3. Holds(req[k].gen, req[k].doc, req[k].version)'
      BY <2>4, <3>2 DEF Holds
    <3>4. QED
      BY <1>1, <2>5, <3>3 DEF KeepsItsVersion
  <2>6. CASE pc[k] = "done"
    <3>1. Stored(g, d) = IF req[k].op = "ingest" THEN PointsOf(g, d, v) ELSE {}
      BY <2>6 DEF IInv, AcknowledgedWritesHold
    <3>2. QED
      BY <1>1, <2>2, <2>3, <2>4, <2>6, <3>1 DEF KeepsItsVersion
  <2>7. QED
    BY <1>2, <2>5, <2>6
<1>3. CASE pc[k] \notin {"count_older", "purge_older", "done"}
  BY <1>1, <1>3 DEF KeepsItsVersion
<1>4. QED
  BY <1>2, <1>3

\* What the other requests have established stays true.
LEMMA OthersKeepInvariant ==
  ASSUME IInv, NEW h \in Handler, BeginSome(h) \/ Continue(h), NEW k \in Handler \ {h}
  PROVE  /\ KeepsItsVersion(k)'
         /\ pc'[k] = "done" =>
              Stored(req[k].gen, req[k].doc)' =
                IF req'[k].op = "ingest" THEN PointsOf(req[k].gen, req[k].doc, req[k].version)' ELSE {}
<1>1. pc'[k] = pc[k] /\ req'[k] = req[k]
  BY OthersUnmoved DEF IInv
<1>2. ASSUME NEW c \in Document, req[k].doc = c
      PROVE  \A e : Stored(e, c)' = Stored(e, c)
  <2>1. req[h].doc # c
    BY <1>2 DEF IInv, OneWriter
  <2>2. QED
    BY <2>1, OthersKeepDocument
<1>3. QED
  BY <1>1, <1>2, UntouchedKeeps

\* A request that goes on has established what it relies on.
LEMMA MoverKeepsVersion ==
  ASSUME IInv, NEW h \in Handler, BeginSome(h) \/ Continue(h)
  PROVE  KeepsItsVersion(h)'
<1> USE DEF IInv, TypeOK, Goto, Answer
<1>1. CASE pc'[h] \notin {"count_older", "purge_older"}
  BY <1>1 DEF KeepsItsVersion
<1>2. CASE BeginSome(h)
  BY <1>1, <1>2, BeginSets
<1>3. CASE Upsert(h)
  <2>1. CASE Done(Call(h, "upsert")) /\ Goto(h, "count_older") /\ UNCHANGED req
    <3>1. PointsOf(req[h].gen, req[h].doc, req[h].version) \subseteq points'
      BY <2>1 DEF Done, Call, Added
    <3>2. Holds(req[h].gen, req[h].doc, req[h].version)'
      BY <2>1, <3>1 DEF Holds, PointsOf
    <3>3. QED
      BY <2>1, <3>2 DEF KeepsItsVersion
  <2>2. QED
    BY <1>1, <1>3, <2>1 DEF Upsert
<1>4. CASE CountOlder(h)
  <2>1. CASE pc'[h] = "purge_older" /\ UNCHANGED <<req, points>>
    <3>1. Holds(req[h].gen, req[h].doc, req[h].version)
      BY <1>4 DEF KeepsItsVersion, CountOlder
    <3>2. Holds(req[h].gen, req[h].doc, req[h].version)'
      BY <2>1, <3>1 DEF Holds, PointsOf
    <3>3. QED
      BY <2>1, <3>2 DEF KeepsItsVersion
  <2>2. QED
    BY <1>1, <1>4, <2>1 DEF CountOlder
<1>5. CASE PurgeOlder(h) \/ CountDocument(h) \/ RemoveDocument(h) \/ Reply(h) \/ Search(h)
  BY <1>1, <1>5 DEF PurgeOlder, CountDocument, RemoveDocument, Reply, Search
<1>6. QED
  BY <1>2, <1>3, <1>4, <1>5 DEF Continue

\* A request that reports success has left exactly what it was asked for.
LEMMA MoverAcknowledges ==
  ASSUME IInv, NEW h \in Handler, BeginSome(h) \/ Continue(h), pc'[h] = "done"
  PROVE  /\ req'[h] = req[h]
         /\ {p \in points' : p.gen = req[h].gen /\ p.doc = req[h].doc} =
              IF req[h].op = "ingest" THEN PointsOf(req[h].gen, req[h].doc, req[h].version) ELSE {}
<1> USE DEF IInv, TypeOK, Goto, Answer
<1> DEFINE g == req[h].gen
           d == req[h].doc
           v == req[h].version
           stored == {p \in points' : p.gen = g /\ p.doc = d}
<1>1. ~BeginSome(h)
  BY BeginSets
<1>2. CASE CountOlder(h)
  <2>1. UNCHANGED <<points, req>> /\ Removed(Call(h, "purge")) = {}
    BY <1>2 DEF CountOlder
  <2>2. req[h].op = "ingest" /\ Holds(g, d, v)
    BY <1>2 DEF CountOlder, IsBound, KeepsItsVersion
  <2>3. \A p \in Stored(g, d) : p.version = v
    BY <2>1 DEF Removed, Call
  <2>4. Stored(g, d) = PointsOf(g, d, v)
    BY <2>2, <2>3, HoldsStored DEF OnlyChunks, Stored
  <2>5. QED
    BY <2>1, <2>2, <2>4 DEF Stored
<1>3. CASE PurgeOlder(h)
  <2>1. Done(Call(h, "purge")) /\ UNCHANGED req
    BY <1>3 DEF PurgeOlder
  <2>2. req[h].op = "ingest" /\ Holds(g, d, v)
    BY <1>3 DEF PurgeOlder, IsBound, KeepsItsVersion
  <2>3. points' = points \ {p \in Stored(g, d) : p.version # v}
    BY <2>1 DEF Done, Removed, Added, Call
  <2>4. stored = {p \in Stored(g, d) : p.version = v}
    BY <2>3 DEF Stored
  <2>5. stored = PointsOf(g, d, v)
    BY <2>2, <2>4, HoldsStored, PointFields DEF OnlyChunks, Stored
  <2>6. QED
    BY <2>1, <2>2, <2>5
<1>4. CASE CountDocument(h)
  <2>1. UNCHANGED <<points, req>> /\ Removed(Call(h, "remove")) = {}
    BY <1>4 DEF CountDocument
  <2>2. req[h].op = "delete"
    BY <1>4 DEF CountDocument, IsBound
  <2>3. Stored(g, d) = {}
    BY <2>1 DEF Removed, Call
  <2>4. QED
    BY <2>1, <2>2, <2>3 DEF Stored
<1>5. CASE RemoveDocument(h)
  <2>1. Done(Call(h, "remove")) /\ UNCHANGED req
    BY <1>5 DEF RemoveDocument
  <2>2. req[h].op = "delete"
    BY <1>5 DEF RemoveDocument, IsBound
  <2>3. points' = points \ Stored(g, d)
    BY <2>1 DEF Done, Removed, Added, Call
  <2>4. QED
    BY <2>1, <2>2, <2>3 DEF Stored
<1>6. CASE Upsert(h) \/ Reply(h) \/ Search(h)
  BY <1>6 DEF Upsert, Reply, Search
<1>7. QED
  BY <1>1, <1>2, <1>3, <1>4, <1>5, <1>6 DEF Continue

LEMMA OnlyChunksStep ==
  ASSUME IInv, NEW h \in Handler, BeginSome(h) \/ Continue(h)
  PROVE  OnlyChunks'
<1>1. CASE BeginSome(h)
  BY <1>1, BeginSets DEF IInv, OnlyChunks, PointsOf
<1>2. CASE Continue(h)
  <2>1. \A p \in points' \ points : p \in PointsOf(req[h].gen, req[h].doc, req[h].version)
    BY <1>2, WriterEffect DEF IInv
  <2>2. \A p \in points' : p \in PointsOf(p.gen, p.doc, p.version)
    BY <2>1, PointFields DEF IInv, OnlyChunks
  <2>3. QED
    BY <2>2 DEF OnlyChunks, PointsOf
<1>3. QED
  BY <1>1, <1>2

\* A version stays whole when the points of its document stay.
LEMMA HoldsKept ==
  ASSUME NEW g, NEW d, NEW v, Holds(g, d, v), Stored(g, d)' = Stored(g, d)
  PROVE  Holds(g, d, v)'
<1>1. PointsOf(g, d, v) \subseteq Stored(g, d)'
  BY HoldsStored
<1>2. Stored(g, d)' \subseteq points'
  BY DEF Stored
<1>3. QED
  BY <1>1, <1>2 DEF Holds, PointsOf

\* A request that loses track of its call was the only one on its document.
LEMMA LateIsAloneStep ==
  ASSUME Exclusive, IInv, NEW h \in Handler, BeginSome(h) \/ Continue(h)
  PROVE  LateIsAlone'
<1>1. \A k \in Handler \ {h} : req'[k] = req[k]
  BY OthersUnmoved DEF IInv
<1>2. \A call \in late : call.doc \in Document
  BY DEF IInv, TypeOK, CallSet
<1>3. \A call \in late : req[h].doc # call.doc
  BY DEF IInv, LateIsAlone
<1>4. ASSUME NEW call \in late, call.op = "purge"
      PROVE  Holds(call.gen, call.doc, call.version)'
  <2> DEFINE d == call.doc
  <2>1. d \in Document /\ req[h].doc # d
    BY <1>2, <1>3
  <2>2. \A g : Stored(g, d)' = Stored(g, d)
    <3> HIDE DEF d
    <3> QED
      BY <2>1, OthersKeepDocument
  <2>3. Holds(call.gen, call.doc, call.version)
    BY <1>4 DEF IInv, LateIsAlone
  <2> DEFINE g == call.gen
             v == call.version
  <2>4. Stored(g, d)' = Stored(g, d) /\ Holds(g, d, v)
    BY <2>2, <2>3
  <2>5. Holds(g, d, v)'
    <3> HIDE DEF g, d, v
    <3> QED
      BY <2>2, <2>4, HoldsKept
  <2>6. QED
    BY <2>5
<1>5. ASSUME NEW call \in late
      PROVE  /\ \A k \in Handler : req'[k].doc # call.doc
             /\ \A other \in late : other.doc = call.doc => other = call
  <2>1. req'[h].doc # call.doc
    <3>1. CASE BeginSome(h)
      BY <1>2, <3>1, BeginSets, IngestionAssumption DEF MayWrite, IInv
    <3>2. CASE Continue(h)
      BY <1>2, <1>3, <3>2, DocEffect, IngestionAssumption DEF IInv
    <3>3. QED
      BY <3>1, <3>2
  <2>2. \A k \in Handler \ {h} : req'[k].doc # call.doc
    BY <1>1 DEF IInv, LateIsAlone
  <2>3. QED
    BY <2>1, <2>2 DEF IInv, LateIsAlone
<1>6. CASE UNCHANGED late
  BY <1>4, <1>5, <1>6 DEF LateIsAlone
<1>7. CASE late' # late
  <2>1. Continue(h)
    BY <1>7, BeginSets DEF IInv
  <2>2. /\ UNCHANGED points /\ pc[h] \in {"upsert", "purge_older", "remove"} /\ req'[h].doc = None
        /\ \A mine \in late' \ late :
             /\ mine.doc = req[h].doc /\ mine.gen = req[h].gen /\ mine.version = req[h].version
             /\ mine.op = "purge" => pc[h] = "purge_older"
        /\ \A mine, other \in late' \ late : mine = other
    BY <1>7, <2>1, LateEffect DEF IInv
  <2>3. req[h].doc \in Document
    BY <2>2 DEF IInv, IsBound
  <2>4. ASSUME NEW mine \in late', mine \notin late
        PROVE  /\ \A k \in Handler : req'[k].doc # mine.doc
               /\ \A other \in late : other.doc # mine.doc
               /\ mine.op = "purge" => Holds(mine.gen, mine.doc, mine.version)'
    <3>1. \A k \in Handler : req'[k].doc # mine.doc
      BY <1>1, <2>2, <2>3, <2>4, IngestionAssumption DEF IInv, OneWriter
    <3>2. ASSUME mine.op = "purge"
          PROVE  Holds(mine.gen, mine.doc, mine.version)'
      <4>1. Holds(req[h].gen, req[h].doc, req[h].version)
        BY <2>2, <2>4, <3>2 DEF IInv, KeepsItsVersion
      <4>2. Holds(mine.gen, mine.doc, mine.version)
        BY <2>2, <2>4, <4>1
      <4>3. QED
        BY <2>2, <4>2 DEF Holds, PointsOf
    <3>3. QED
      BY <1>3, <2>2, <2>4, <3>1, <3>2
  <2>5. QED
    BY <1>4, <1>5, <2>2, <2>4 DEF LateIsAlone
<1>8. QED
  BY <1>6, <1>7

\* A call that lands late finds nobody working on its document.
LEMMA LandingEffect ==
  ASSUME IInv, LateCallLands
  PROVE  \E call \in late :
           /\ late' = late \ {call} /\ UNCHANGED <<catalog, pc, req>>
           /\ \A k \in Handler : req[k].doc # call.doc
           /\ \A other \in late' : other.doc # call.doc
           /\ \A g, d : d # call.doc => Stored(g, d)' = Stored(g, d)
           /\ \A p \in points' \ points : p \in PointsOf(call.gen, call.doc, call.version)
<1>1. PICK call \in late :
        points' = (points \ Removed(call)) \cup Added(call) /\ late' = late \ {call}
  BY DEF LateCallLands
<1>2. /\ \A g, d : (g # call.gen \/ d # call.doc) => Stored(g, d)' = Stored(g, d)
      /\ \A p \in points' \ points : p \in PointsOf(call.gen, call.doc, call.version)
  BY <1>1, CallEffect
<1>3. QED
  BY <1>1, <1>2 DEF LateCallLands, IInv, LateIsAlone

LEMMA LandingStep ==
  ASSUME IInv, LateCallLands
  PROVE  IInv'
<1>1. PICK call \in late :
        /\ late' = late \ {call} /\ UNCHANGED <<catalog, pc, req>>
        /\ \A k \in Handler : req[k].doc # call.doc
        /\ \A other \in late' : other.doc # call.doc
        /\ \A g, d : d # call.doc => Stored(g, d)' = Stored(g, d)
        /\ \A p \in points' \ points : p \in PointsOf(call.gen, call.doc, call.version)
  BY LandingEffect
<1>2. TypeOK' /\ \A k \in Handler : IsBound(k)'
  BY <1>1, LateTypes DEF IInv, IsBound
<1>3. OnlyChunks'
  <2>1. \A p \in points' : p \in PointsOf(p.gen, p.doc, p.version)
    BY <1>1, PointFields DEF IInv, OnlyChunks
  <2>2. QED
    BY <2>1 DEF OnlyChunks, PointsOf
<1>4. ASSUME NEW k \in Handler
      PROVE  /\ KeepsItsVersion(k)'
             /\ pc'[k] = "done" =>
                  Stored(req[k].gen, req[k].doc)' =
                    IF req'[k].op = "ingest" THEN PointsOf(req[k].gen, req[k].doc, req[k].version)' ELSE {}
  BY <1>1, UntouchedKeeps
<1>5. AcknowledgedWritesHold'
  BY <1>4 DEF AcknowledgedWritesHold
<1>6. ASSUME NEW other \in late', other.op = "purge"
      PROVE  Holds(other.gen, other.doc, other.version)'
  <2>1. Holds(other.gen, other.doc, other.version)
    BY <1>1, <1>6 DEF IInv, LateIsAlone
  <2>2. \A g : Stored(g, other.doc)' = Stored(g, other.doc)
    BY <1>1
  <2>3. QED
    BY <2>1, <2>2, HoldsKept
<1>7. LateIsAlone'
  BY <1>1, <1>6 DEF IInv, LateIsAlone
<1>8. OneWriter'
  BY <1>1 DEF IInv, OneWriter
<1>9. QED
  BY <1>2, <1>3, <1>4, <1>5, <1>7, <1>8 DEF IInv

LEMMA InvStep ==
  ASSUME Exclusive, IInv, [Next]_vars
  PROVE  IInv'
<1>1. ASSUME NEW h \in Handler, BeginSome(h) \/ Continue(h)
      PROVE  IInv'
  <2>1. TypeOK' /\ \A k \in Handler : IsBound(k)'
    BY <1>1, TypeStep, NextSplits DEF IInv
  <2>2. OneWriter'
    BY <1>1, OneWriterStep
  <2>3. OnlyChunks' /\ LateIsAlone'
    BY <1>1, OnlyChunksStep, LateIsAloneStep
  <2>4. \A k \in Handler : KeepsItsVersion(k)'
    BY <1>1, MoverKeepsVersion, OthersKeepInvariant
  <2>5. ASSUME NEW k \in Handler, pc'[k] = "done"
        PROVE  Stored(req[k].gen, req[k].doc)' =
                 IF req'[k].op = "ingest" THEN PointsOf(req[k].gen, req[k].doc, req[k].version)' ELSE {}
    <3>1. CASE k = h
      BY <1>1, <2>5, <3>1, MoverAcknowledges DEF Stored, PointsOf
    <3>2. CASE k # h
      BY <1>1, <2>5, <3>2, OthersKeepInvariant
    <3>3. QED
      BY <3>1, <3>2
  <2>6. AcknowledgedWritesHold'
    BY <2>5 DEF AcknowledgedWritesHold
  <2>7. QED
    BY <2>1, <2>2, <2>3, <2>4, <2>6 DEF IInv
<1>2. CASE CatalogMoves
  <2>1. UNCHANGED <<points, late, pc, req>>
    BY <1>2 DEF CatalogMoves
  <2>2. TypeOK'
    BY <1>2, MoveTypes DEF IInv
  <2>3. QED
    BY <2>1, <2>2 DEF IInv, OnlyChunks, LateIsAlone, OneWriter, AcknowledgedWritesHold, IsBound, KeepsItsVersion,
                      Stored, PointsOf, Holds
<1>3. CASE LateCallLands
  BY <1>3, LandingStep
<1>4. CASE UNCHANGED vars
  BY <1>4 DEF vars, IInv, TypeOK, OnlyChunks, LateIsAlone, OneWriter, AcknowledgedWritesHold, IsBound,
              KeepsItsVersion, Stored, PointsOf, Holds
<1>5. QED
  BY <1>1, <1>2, <1>3, <1>4, NextSplits

\* For clients that write a document one request at a time, its late calls
\* included: whatever fails, whenever a call that timed out lands, and however
\* requests on different documents, searches and cutovers interleave.
THEOREM IngestionInvariant == ASSUME Exclusive PROVE Spec => []IInv
<1>1. IInv /\ [Next]_vars => IInv'
  BY InvStep
<1>2. QED
  BY <1>1, InvariantHoldsInitially, PTL DEF Spec

\* A successful write is exactly what is stored when it is reported.
THEOREM AcknowledgedWrites == ASSUME Exclusive PROVE Spec => []AcknowledgedWritesHold
<1>1. IInv => AcknowledgedWritesHold
  BY DEF IInv
<1>2. QED
  BY <1>1, IngestionInvariant, PTL

\* Replacing the content of a document never leaves less than a whole version.
THEOREM DocumentsNeverVanish == ASSUME Exclusive PROVE Spec => NeverVanishes
<1> DEFINE Step == \A g \in Gen, d \in Document :
                     Complete(g, d) /\ ~Complete(g, d)' => DeletionUnderWay(g, d)
<1>1. ASSUME IInv, [Next]_vars
      PROVE  [Step]_vars
  <2> SUFFICES ASSUME NEW g \in Gen, NEW d \in Document, Complete(g, d), ~Complete(g, d)'
               PROVE  DeletionUnderWay(g, d)
    OBVIOUS
  <2>1. PICK v \in Version : Holds(g, d, v)
    BY DEF Complete
  <2>2. \A w \in Version : ~(PointsOf(g, d, w) \subseteq points')
    BY DEF Complete, Holds, PointsOf
  <2>3. ~UNCHANGED points
    BY <2>1, <2>2 DEF Holds
  <2>11. CASE LateCallLands
    <3>1. PICK call \in late : points' = (points \ Removed(call)) \cup Added(call)
      BY <2>11 DEF LateCallLands
    <3>2. /\ \A e, c : (e # call.gen \/ c # call.doc) => Stored(e, c)' = Stored(e, c)
          /\ call.op = "upsert" => points \subseteq points'
          /\ call.op = "purge" => \A p \in points : p.version = call.version => p \in points'
      BY <3>1, CallEffect
    <3>3. call.gen = g /\ call.doc = d
      BY <2>1, <2>2, <3>2, HoldsStored DEF Stored
    <3>4. call.op # "upsert"
      BY <2>1, <2>2, <3>2 DEF Holds
    <3>5. call.op # "purge"
      <4>1. SUFFICES ASSUME call.op = "purge"
                     PROVE  FALSE
        OBVIOUS
      <4>2. call.version \in Version /\ PointsOf(g, d, call.version) \subseteq points
        BY <1>1, <3>3, <4>1 DEF IInv, LateIsAlone, TypeOK, CallSet, Holds
      <4>3. PointsOf(g, d, call.version) \subseteq points'
        BY <3>2, <4>1, <4>2, PointFields
      <4>4. QED
        BY <2>2, <4>2, <4>3
    <3>6. call.op = "remove"
      BY <1>1, <3>4, <3>5 DEF IInv, TypeOK, CallSet
    <3>7. QED
      BY <3>3, <3>6 DEF DeletionUnderWay
  <2> SUFFICES ASSUME ~LateCallLands
               PROVE  DeletionUnderWay(g, d)
    BY <2>11
  <2>4. PICK h \in Handler : Continue(h)
    <3>1. ASSUME NEW h \in Handler, BeginSome(h)
          PROVE  FALSE
      BY <1>1, <2>3, <3>1, BeginSets DEF IInv
    <3>2. ~CatalogMoves /\ ~LateCallLands /\ ~UNCHANGED vars
      BY <1>1, <2>3 DEF CatalogMoves, LateCallLands, IInv, vars
    <3>3. QED
      BY <1>1, <3>1, <3>2, NextSplits
  <2>5. IsBound(h) /\ KeepsItsVersion(h) /\ TypeOK
    BY <1>1 DEF IInv
  <2>6. /\ pc[h] \in {"upsert", "purge_older", "remove"}
        /\ \A e, c : (e # req[h].gen \/ c # req[h].doc) => Stored(e, c)' = Stored(e, c)
        /\ pc[h] = "upsert" => points \subseteq points'
        /\ pc[h] = "purge_older" => \A p \in points : p.version = req[h].version => p \in points'
    BY <2>3, <2>4, <2>5, WriterEffect
  <2>7. req[h].gen = g /\ req[h].doc = d
    <3>1. SUFFICES ASSUME g # req[h].gen \/ d # req[h].doc
                   PROVE  FALSE
      OBVIOUS
    <3>2. Stored(g, d)' = Stored(g, d)
      BY <2>6, <3>1
    <3>3. PointsOf(g, d, v) \subseteq Stored(g, d)
      BY <2>1, HoldsStored
    <3>4. PointsOf(g, d, v) \subseteq points'
      BY <3>2, <3>3 DEF Stored
    <3>5. QED
      BY <2>2, <3>4
  <2>8. pc[h] # "upsert"
    BY <2>1, <2>2, <2>6 DEF Holds
  <2>9. pc[h] # "purge_older"
    <3>1. SUFFICES ASSUME pc[h] = "purge_older"
                   PROVE  FALSE
      OBVIOUS
    <3>2. req[h].version \in Version /\ PointsOf(g, d, req[h].version) \subseteq points
      BY <2>5, <2>7, <3>1 DEF IsBound, KeepsItsVersion, Holds
    <3>3. PointsOf(g, d, req[h].version) \subseteq points'
      BY <2>6, <3>1, <3>2, PointFields
    <3>4. QED
      BY <2>2, <3>2, <3>3
  <2>10. QED
    BY <2>6, <2>7, <2>8, <2>9 DEF DeletionUnderWay
<1>2. QED
  BY <1>1, IngestionInvariant, PTL DEF Spec, NeverVanishes

----------------------------------------------------------------------------
(* The generations that are written, for any clients and calls.            *)

\* The points a call adds belong to its generation.
LEMMA CallWrites ==
  ASSUME NEW call, NEW added \in SUBSET Added(call), NEW removed \in SUBSET Removed(call),
         points' = (points \ removed) \cup added
  PROVE  \A p \in points' \ points : p.gen = call.gen
BY PointFields DEF Added

LEMMA ContinueWrites ==
  ASSUME TypeOK, NEW h \in Handler, Continue(h)
  PROVE  /\ UNCHANGED <<catalog, activated>>
         /\ \A p \in points' \ points : pc[h] # "idle" /\ p.gen = req[h].gen
         /\ \A call \in late' \ late : pc[h] # "idle" /\ call.gen = req[h].gen
         /\ pc'[h] # "idle" => req'[h] = req[h] /\ pc[h] # "idle"
<1> USE DEF TypeOK, Goto, Answer
<1>1. ASSUME NEW op, Done(Call(h, op)) \/ Fails(Call(h, op))
      PROVE  /\ \A p \in points' \ points : p.gen = req[h].gen
             /\ \A call \in late' \ late : call.gen = req[h].gen
  <2>1. Call(h, op).gen = req[h].gen
    BY DEF Call
  <2>2. CASE late' = late \cup {Call(h, op)} /\ UNCHANGED points
    BY <2>1, <2>2
  <2>3. CASE UNCHANGED late /\ \E added \in SUBSET Added(Call(h, op)), removed \in SUBSET Removed(Call(h, op)) :
                                points' = (points \ removed) \cup added
    BY <2>1, <2>3, CallWrites
  <2>4. QED
    BY <1>1, <2>2, <2>3, CallOutcome
<1>2. CASE Upsert(h)
  BY <1>1, <1>2 DEF Upsert
<1>3. CASE PurgeOlder(h)
  BY <1>1, <1>3 DEF PurgeOlder
<1>4. CASE RemoveDocument(h)
  BY <1>1, <1>4 DEF RemoveDocument
<1>5. CASE CountOlder(h) \/ CountDocument(h) \/ Reply(h) \/ Search(h)
  BY <1>5 DEF CountOlder, CountDocument, Reply, Search
<1>6. QED
  BY <1>2, <1>3, <1>4, <1>5 DEF Continue

LEMMA OnlyActivatedStep ==
  ASSUME OnlyActivated, [Next]_vars
  PROVE  /\ OnlyActivated'
         /\ \A p \in points' \ points : p.gen \in activated
<1> USE DEF OnlyActivated
<1>1. TypeOK' /\ \A h \in Handler : IsBound(h)'
  BY TypeStep
<1>2. ASSUME NEW h \in Handler, BeginSome(h)
      PROVE  /\ UNCHANGED <<catalog, activated, points, late>>
             /\ \A k \in Handler : pc'[k] # "idle" => req'[k].gen \in activated
  BY <1>2, BeginSets
<1>3. ASSUME NEW h \in Handler, Continue(h)
      PROVE  /\ UNCHANGED <<catalog, activated>>
             /\ \A k \in Handler : pc'[k] # "idle" => req'[k].gen \in activated
             /\ \A call \in late' : call.gen \in activated
             /\ \A p \in points' \ points : p.gen \in activated
  BY <1>3, ContinueWrites, OthersUnmoved
<1>4. UNCHANGED catalog => Active' = Active
  BY DEF Active, Catalog!Active
<1>5. CASE CatalogMoves
  BY <1>1, <1>5 DEF CatalogMoves, Remember
<1>6. CASE LateCallLands
  <2>1. PICK call \in late :
          points' = (points \ Removed(call)) \cup Added(call) /\ late' = late \ {call}
    BY <1>6 DEF LateCallLands
  <2>2. \A p \in points' \ points : p.gen = call.gen
    BY <2>1, CallWrites
  <2>3. UNCHANGED <<catalog, activated, pc, req>>
    BY <1>6 DEF LateCallLands
  <2>4. QED
    BY <1>1, <1>4, <2>1, <2>2, <2>3
<1>7. CASE UNCHANGED vars
  BY <1>1, <1>4, <1>7 DEF vars
<1>8. QED
  BY <1>1, <1>2, <1>3, <1>4, <1>5, <1>6, <1>7, NextSplits

LEMMA OnlyActivatedInitially == Init => OnlyActivated
BY InvariantHoldsInitially DEF Init, IInv, OnlyActivated

\* No interleaving, failure or late call of the public routes writes a point
\* into a generation that has not been active.
THEOREM OnlyActivatedAreWritten == Spec => OnlyActivatedIsWritten
<1> DEFINE Step == \A p \in points' \ points : p.gen \in activated
<1>1. OnlyActivated /\ [Next]_vars => OnlyActivated'
  BY OnlyActivatedStep
<1>2. OnlyActivated /\ [Next]_vars => [Step]_vars
  BY OnlyActivatedStep
<1>3. QED
  BY <1>1, <1>2, OnlyActivatedInitially, PTL DEF Spec, OnlyActivatedIsWritten
=============================================================================
