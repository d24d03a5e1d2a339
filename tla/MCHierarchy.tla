----------------------------- MODULE MCHierarchy -----------------------------
(* Small instances of Hierarchy for TLC.                                   *)
EXTENDS Hierarchy, TLC

List(a, b, c) == 0 :> a @@ 1 :> b @@ 2 :> c

\* Lists of three transforms with the root in the middle of the list: trees,
\* self-parents, cycles, parents out of range.
RootAmid == {List(a, -1, c) : a \in 1 .. 2, c \in 0 .. 3} \cup {List(0, -1, 1), List(3, -1, 1)}

\* Children first, so that each sweep finds one of them; no root; two roots.
Backwards == List(1, 2, -1)
NoRoot    == List(1, 0, 0)
TwoRoots  == List(-1, 0, -1)

Single == {0 :> -1}

ThreeThenOne == <<RootAmid \cup {Backwards, NoRoot, TwoRoots}, Single>>
OneOfThree   == <<RootAmid>>

\* Overflowing components: in one list, in the first subject, beside values that
\* are finite.
OneOverflow ==
    \/ \A s \in Subject : \A i \in Transform(s) : value[s][i] \notin Burst /\ ~burst[s][i]
    \/ /\ parent[1] = Backwards
       /\ \A i \in Transform(1) : value[1][i] \notin Huge \cup {NaN}
       /\ \A i \in Transform(2) : value[2][i] \notin Huge \cup Burst \cup {NaN}
=============================================================================
