--------------------------- MODULE MCSubjectStream ---------------------------
(* Small instances of SubjectStream for TLC.                               *)
EXTENDS SubjectStream, TLC

CONSTANTS hip, knee

\* 0-based joint lists, as the transforms' indices on the wire.
OneJoint  == {0 :> hip}
TwoShapes == {0 :> hip, 0 :> knee @@ 1 :> hip}

\* Floats are half as fine as doubles.
Floor2 == [v \in Value |-> v - (v % 2)]
Exact  == [v \in Value |-> v]
=============================================================================
