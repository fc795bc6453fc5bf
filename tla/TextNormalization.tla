-------------------------- MODULE TextNormalization --------------------------
(***************************************************************************)
(* normalize_text on character kinds.  Every step of it drops characters   *)
(* or replaces them one by one, so a step is given by the positions it     *)
(* keeps.  Unicode composition (NFC) concerns characters other than        *)
(* whitespace and is left out.                                             *)
(***************************************************************************)
EXTENDS Integers, Sequences

\* What a client may send: characters other than whitespace, the space, other
\* horizontal whitespace ("tab": tab, form feed, vertical tab), carriage
\* returns, newlines, and whitespace the regular expression does not name but
\* strip() removes ("blank": the no-break space and the like).
RawKind == {"letter", "space", "tab", "cr", "lf", "blank"}

\* What normalizing leaves of them.
Kind == RawKind \ {"tab", "cr"}

\* The characters of s at some positions, in their order.
Keep(s, kept) ==
  LET upTo[i \in 0 .. Len(s)] ==
        IF i = 0 THEN <<>> ELSE IF i \in kept THEN Append(upTo[i - 1], s[i]) ELSE upTo[i - 1]
  IN  upTo[Len(s)]

IsText(s, p) == s[p] \notin {"space", "lf", "blank"}

\* CRLF and CR become LF.
UnixNewlines(s) ==
  LET unix == Keep(s, {p \in 1 .. Len(s) : ~(s[p] = "lf" /\ p > 1 /\ s[p - 1] = "cr")}) IN
  [p \in 1 .. Len(unix) |-> IF unix[p] = "cr" THEN "lf" ELSE unix[p]]

IsHorizontal(s, p) == s[p] \in {"space", "tab"}

\* A run of spaces, tabs, form feeds and vertical tabs becomes one space.
SingleSpaces(s) ==
  LET single == Keep(s, {p \in 1 .. Len(s) : ~(IsHorizontal(s, p) /\ p > 1 /\ IsHorizontal(s, p - 1))}) IN
  [p \in 1 .. Len(single) |-> IF single[p] = "tab" THEN "space" ELSE single[p]]

\* A position of a line between two characters of it that are no whitespace.
InLine(s, p) ==
  \E q \in 1 .. p, r \in p .. Len(s) :
    IsText(s, q) /\ IsText(s, r) /\ \A m \in q .. r : s[m] # "lf"

\* The whitespace at both ends of every line is dropped.
StripLines(s) == Keep(s, {p \in 1 .. Len(s) : s[p] = "lf" \/ InLine(s, p)})

\* Three newlines or more become two.
TwoNewlines(s) ==
  Keep(s, {p \in 1 .. Len(s) : ~(p > 2 /\ s[p] = "lf" /\ s[p - 1] = "lf" /\ s[p - 2] = "lf")})

Strip(s) ==
  Keep(s, {p \in 1 .. Len(s) : \E q \in 1 .. p, r \in p .. Len(s) : IsText(s, q) /\ IsText(s, r)})

\* Slip: blank lines are collapsed before they are recognised as blank.
NormalizeNewlinesFirst(s) == Strip(StripLines(SingleSpaces(TwoNewlines(UnixNewlines(s)))))

Normalize(s) == Strip(TwoNewlines(StripLines(SingleSpaces(UnixNewlines(s)))))

=============================================================================
