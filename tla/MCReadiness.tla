---------------------------- MODULE MCReadiness ----------------------------
(***************************************************************************)
(* Two collections, one with two generations that may replace each other   *)
(* in the middle of a listing; scrolls of one point, at most two of them.  *)
(***************************************************************************)
EXTENDS Readiness

CONSTANTS h1, h2, r1

MCOwner == [p \in Point |-> IF p = 2 THEN 1 ELSE 2]

MCHome == [h \in Handler |-> r1]

MCServes == [h \in Handler |-> IF h = h1 THEN {"list"} ELSE {"write", "probe"}]

FairSpec == ReadinessSpec /\ ReadinessFairness
=============================================================================
