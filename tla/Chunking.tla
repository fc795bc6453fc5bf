------------------------------ MODULE Chunking ------------------------------
(***************************************************************************)
(* How ingest splits a document: it is normalized, and chunk_text cuts a   *)
(* window of chunk_size characters at its last space or newline, strips    *)
(* and emits it, and starts the next window overlap characters before the  *)
(* cut.                                                                    *)
(*                                                                         *)
(* A text is a sequence of character kinds; position p is index p - 1 of   *)
(* the Python string.  A chunk is the set of the positions it is made of.  *)
(* A step is one iteration of the loop.  Chunk ids are a hash of the index *)
(* (the place in the sequence of chunks) and are left out.                 *)
(***************************************************************************)
EXTENDS TextNormalization

CONSTANTS
  Raw,       \* the documents clients send
  Size,      \* the values of the settings: the size of chunks
  Overlap    \* and how much they overlap

ASSUME ChunkingAssumption == Raw \subseteq Seq(RawKind) /\ Size \subseteq Nat /\ Overlap \subseteq Int

VARIABLES
  text,         \* the arguments of the call, which do not change
  chunk_size,
  overlap,
  start,        \* the first position of the next window
  chunks,       \* the chunks emitted so far
  outcome       \* "running", "returned" or "rejected"

vars == <<text, chunk_size, overlap, start, chunks, outcome>>

Length == Len(text)

IsSpace(p) == text[p] \in {"space", "lf", "blank"}

\* The separators that rfind looks for.
IsBreak(p) == text[p] \in {"space", "lf"}

\* What ingest has cut into chunks: a blank document is rejected before.
Documents == {Normalize(raw) : raw \in Raw} \ {<<>>}

Init ==
  /\ text \in Documents
  /\ chunk_size \in Size /\ overlap \in Overlap
  /\ start = 1
  /\ chunks = <<>>
  /\ outcome = "running"

----------------------------------------------------------------------------
Valid == chunk_size > 0 /\ overlap >= 0 /\ overlap < chunk_size

Reject ==
  /\ start = 1 /\ chunks = <<>>
  /\ outcome = "running"
  /\ ~Valid
  /\ outcome' = "rejected"
  /\ UNCHANGED <<text, chunk_size, overlap, start, chunks>>

\* Slip: the window has one position too many.
WindowTooLong == IF start + chunk_size < Length THEN start + chunk_size + 1 ELSE Length + 1

\* The position after the window.
WindowEnd == IF start + chunk_size <= Length THEN start + chunk_size ELSE Length + 1

\* rfind includes the position after the window and excludes the first one,
\* so that a window is never cut down to nothing.
Breaks == {p \in (start + 1) .. WindowEnd : p <= Length /\ IsBreak(p)}

\* Slip: the first character of the window may be the separator.
CutsAtStart ==
  LET breaks == {p \in start .. WindowEnd : p <= Length /\ IsBreak(p)} IN
  IF WindowEnd <= Length /\ breaks # {}
  THEN {p \in breaks : \A q \in breaks : q <= p}
  ELSE {WindowEnd}

\* Where the window is cut: at its last separator, unless it reaches the end
\* of the text or contains none.
Cuts ==
  IF WindowEnd <= Length /\ Breaks # {}
  THEN {p \in Breaks : \A q \in Breaks : q <= p}
  ELSE {WindowEnd}

\* Slip: the character before the cut is lost.
StrippedShort(end) ==
  {p \in start .. (end - 2) : \E q, r \in start .. (end - 2) : q <= p /\ p <= r /\ ~IsSpace(q) /\ ~IsSpace(r)}

\* text[start:end].strip(): what lies between two characters that are no space.
Stripped(end) ==
  {p \in start .. (end - 1) : \E q, r \in start .. (end - 1) : q <= p /\ p <= r /\ ~IsSpace(q) /\ ~IsSpace(r)}

Emit(chunk) == chunks' = IF chunk = {} THEN chunks ELSE Append(chunks, chunk)

\* Slip: the window goes back by one position too many.
BackBeyondOverlap(end) == IF end - overlap - 1 > start THEN end - overlap - 1 ELSE start + 1

Back(end) == IF end - overlap > start THEN end - overlap ELSE start + 1

\* The next window starts overlap positions before the cut, after the spaces
\* there, and at least one position further than this one.
NextStarts(end) ==
  {n \in Back(end) .. end :
     /\ n = end \/ ~IsSpace(n)
     /\ \A m \in Back(end) .. (n - 1) : IsSpace(m)}

\* One iteration of the loop, which the window that reaches the end of the
\* text ends: as a document is never blank, the loop condition never does.
Split ==
  /\ outcome = "running"
  /\ Valid
  /\ start <= Length
  /\ \E end \in Cuts :
       /\ Emit(Stripped(end))
       /\ IF end > Length
          THEN outcome' = "returned" /\ UNCHANGED start
          ELSE start' \in NextStarts(end) /\ UNCHANGED outcome
  /\ UNCHANGED <<text, chunk_size, overlap>>

Next == Reject \/ Split

Spec == Init /\ [][Next]_vars

\* The loop is pure computation: it keeps running.
FairSpec == Spec /\ WF_vars(Next)
----------------------------------------------------------------------------
\* Some positions, and never none.
Chunk == (SUBSET (1 .. Length)) \ {{}}

TypeOK ==
  /\ text \in Seq(Kind)
  /\ chunk_size \in Nat /\ overlap \in Int
  /\ start \in 1 .. (Length + 1)
  /\ chunks \in Seq(Chunk)
  /\ outcome \in {"running", "returned", "rejected"}

Covered(p) == \E k \in 1 .. Len(chunks) : p \in chunks[k]

\* No text is lost: whatever the separators, the size and the overlap, every
\* character of the document that is no whitespace is in some chunk when
\* chunk_text returns, so every word of it can be retrieved.
NothingIsLost ==
  outcome = "returned" => \A p \in 1 .. Length : ~IsSpace(p) => Covered(p)

\* A chunk has at most chunk_size characters, the budget the embedding model
\* is given.
ChunksFit == \A k \in 1 .. Len(chunks) : \A p, q \in chunks[k] : q - p < chunk_size

\* Consecutive chunks share at most overlap characters, also where a window
\* was cut short, spaces were skipped or a window was empty.
OverlapIsBounded ==
  \A k \in 1 .. (Len(chunks) - 1) : \A p, q \in chunks[k] \cap chunks[k + 1] : q - p < overlap

\* Normalizing a document again changes nothing: its version, the hash of the
\* normalized text, is the same when what is stored is ingested again.
NormalizationIsStable == Normalize(text) = text

\* Every iteration that is not the last moves the window forward, to a place
\* still inside the text or just after it: the variant of the loop.
WindowAdvances ==
  [][Split /\ outcome' = "running" => start' \in (start + 1) .. (Length + 1)]_vars

\* The loop ends, for every size, overlap and place of the separators.
Terminates == <>(outcome # "running")
----------------------------------------------------------------------------
(* The inductive invariant behind NothingIsLost, ChunksFit and             *)
(* OverlapIsBounded.                                                       *)

\* Everything before the next window is in a chunk.
CoveredBefore(limit) == \A p \in 1 .. Length : p < limit /\ ~IsSpace(p) => Covered(p)

\* The last chunk reaches at most overlap positions into the next window.
LastReach ==
  chunks # <<>> => \A p \in chunks[Len(chunks)] : p < start + overlap

IInv ==
  /\ TypeOK
  /\ outcome = "running" => LastReach
  /\ CoveredBefore(start)
  /\ NothingIsLost
  /\ ChunksFit
  /\ OverlapIsBounded
=============================================================================
