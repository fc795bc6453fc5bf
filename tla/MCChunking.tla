----------------------------- MODULE MCChunking -----------------------------
(* Chunking of short documents and of longer normalized ones.              *)
EXTENDS Chunking, SequencesExt

CONSTANTS
  RawLength,    \* the length of the documents of any kind
  MaxLength,    \* the length of longer documents that are normalized already
  MaxSize       \* the largest chunk size

MCRaw == SeqOf(RawKind, RawLength) \cup {t \in SeqOf(Kind, MaxLength) : Normalize(t) = t}

\* The settings allow any size and overlap that chunk_text accepts; one more
\* overlap is tried than it does.
MCSize == 1 .. MaxSize

MCOverlap == 0 .. MaxSize
=============================================================================
