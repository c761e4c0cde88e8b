---------------------------- MODULE VersionOrder ----------------------------
(***************************************************************************)
(* compare_versions: the order that decides which script runs first.  A    *)
(* version is a sequence of segments, a segment a sequence of runs; a run  *)
(* of digits is its number, a run of letters a larger one.                 *)
(***************************************************************************)
EXTENDS Naturals, Sequences

\* A segment that a version does not have counts as 0.
Segment(v, i) == IF i <= Len(v) THEN v[i] ELSE <<0>>

\* The first run that differs decides, and a segment that ends before it is smaller.
SmallerSegment(a, b) ==
  \E i \in 1..Len(b) :
    /\ \A j \in 1..(i - 1) : j <= Len(a) /\ a[j] = b[j]
    /\ i <= Len(a) => a[i] < b[i]

\* The first segment that differs decides.
Older(v, w) ==
  \E i \in 1..(Len(v) + Len(w)) :
    /\ \A j \in 1..(i - 1) : Segment(v, j) = Segment(w, j)
    /\ SmallerSegment(Segment(v, i), Segment(w, i))
=============================================================================
