--------------------------- MODULE HierarchyProofs ---------------------------
(***************************************************************************)
(* Proofs about Hierarchy, for lists of any number of subjects of any size *)
(* and any parents whatever, cycles and indices out of range included.     *)
(***************************************************************************)
EXTENDS Hierarchy, Induction, FiniteSetTheorems, TLAPS

\* The transforms of every shape are the indices below its size.
LEMMA ShapeFacts ==
    ASSUME NEW s \in Subject, NEW p \in Shapes[s]
    PROVE  /\ Size(p) \in Nat
           /\ DOMAIN p = 0 .. (Size(p) - 1)
           /\ IsFiniteSet(DOMAIN p)
           /\ \A i \in DOMAIN p : p[i] \in Int
<1>1. Size(p) \in Nat /\ p \in [0 .. (Size(p) - 1) -> Int]
  BY HierarchyAssumption DEF HierarchyAssumption
<1>2. DOMAIN p = 0 .. (Size(p) - 1) /\ \A i \in DOMAIN p : p[i] \in Int
  BY <1>1
<1>3. IsFiniteSet(DOMAIN p)
  BY <1>1, <1>2, FS_Interval
<1> QED
  BY <1>1, <1>2, <1>3

\* The subjects are numbered from 1.
LEMMA SubjectFacts ==
    /\ Len(Shapes) \in Nat \ {0}
    /\ Subject = 1 .. Len(Shapes)
    /\ 1 \in Subject
    /\ Subject \subseteq Int
<1>1. Subject = 1 .. Len(Shapes) /\ Len(Shapes) \in Nat \ {0}
  BY HierarchyAssumption DEF HierarchyAssumption
<1> QED
  BY <1>1

\* The transforms of the subject at hand.
LEMMA SizeFacts ==
    ASSUME TypeOK
    PROVE  /\ n \in Nat
           /\ Transform(subject) = 0 .. (n - 1)
           /\ IsFiniteSet(Transform(subject)) /\ Cardinality(Transform(subject)) = n
           /\ \A i \in Transform(subject) : parent[subject][i] \in Int
<1>1. subject \in Subject /\ parent[subject] \in Shapes[subject]
  BY DEF TypeOK
<1> QED
  BY <1>1, ShapeFacts DEF n, Transform, Size

-----------------------------------------------------------------------------
(* Type correctness.                                                       *)

\* The empty flags and identity matrices of a new list are typed.
LEMMA TypedInit == Init => TypeOK
<1> SUFFICES ASSUME Init PROVE TypeOK
  OBVIOUS
<1>1. DOMAIN parent = Subject /\ \A s \in Subject : parent[s] \in Shapes[s]
  BY DEF Init
<1>2. PICK v \in Value : value = [s \in Subject |-> [i \in DOMAIN parent[s] |-> v]]
  BY DEF Init
<1> QED
  BY <1>1, <1>2, SubjectFacts DEF Init, TypeOK, Transform

\* A step that only moves the locals on keeps the types.
LEMMA LocalsTyped ==
    ASSUME TypeOK,
           \/ \E r : Return(r)
           \/ \E where \in {"update", "roots", "sweep", "visit", "convert"}, s \in Subject,
                i \in Nat, k \in Nat, d \in BOOLEAN :
                /\ Continue(where, s, i, k, d)
                /\ where = "visit" => s = subject /\ i <= n
    PROVE  /\ pc' \in {"idle", "update", "roots", "sweep", "visit", "convert"}
           /\ subject' \in Subject
           /\ pc' = "visit" => subject' = subject /\ index' \in 0 .. n
           /\ iterations' \in Nat /\ done' \in BOOLEAN
<1>1. CASE \E r : Return(r)
  BY <1>1, SubjectFacts DEF Return
<1>2. ASSUME NEW where \in {"update", "roots", "sweep", "visit", "convert"}, NEW s \in Subject,
             NEW i \in Nat, NEW k \in Nat, NEW d \in BOOLEAN,
             Continue(where, s, i, k, d),
             where = "visit" => s = subject /\ i <= n
      PROVE  /\ pc' = where /\ subject' \in Subject
             /\ where = "visit" => subject' = subject /\ index' \in 0 .. n
             /\ iterations' \in Nat /\ done' \in BOOLEAN
  <2>1. n \in Nat
    BY SizeFacts
  <2> QED
    BY <1>2, <2>1 DEF Continue
<1> QED
  BY <1>1, <1>2

\* Every step of the list and of a call keeps the types.
LEMMA TypedNext == TypeOK /\ [Next]_vars => TypeOK'
<1> SUFFICES ASSUME TypeOK, [Next]_vars PROVE TypeOK'
  OBVIOUS
<1> USE DEF Transform
<1>1. ASSUME NEW s \in Subject, NEW p \in Shapes[s], Replace(s, p) PROVE TypeOK'
  <2>1. PICK v \in Value : value' = [value EXCEPT ![s] = [i \in DOMAIN p |-> v]]
    BY <1>1 DEF Replace
  <2> QED
    BY <2>1, <1>1 DEF Replace, TypeOK, locals
<1>2. ASSUME NEW s \in Subject, NEW i \in Transform(s), NEW v \in Value \cup {NaN}, Write(s, i, v)
      PROVE  TypeOK'
  BY <1>2 DEF Write, TypeOK, locals, n
\* The steps of a call leave parents and values alone.
<1>3. ASSUME UNCHANGED listVars, conversion' \in BOOLEAN,
             DOMAIN burst' = Subject,
             \A s \in Subject : burst'[s] \in [Transform(s) -> BOOLEAN],
             DOMAIN known' = Subject,
             \A s \in Subject : known'[s] \in [Transform(s) -> BOOLEAN],
             DOMAIN world' = Subject,
             \A s \in Subject : DOMAIN world'[s] = Transform(s),
             \/ \E r : Return(r)
             \/ \E where \in {"update", "roots", "sweep", "visit", "convert"}, s \in Subject,
                  i \in Nat, k \in Nat, d \in BOOLEAN :
                  /\ Continue(where, s, i, k, d)
                  /\ where = "visit" => s = subject /\ i <= n
      PROVE  TypeOK'
  <2>1. /\ pc' \in {"idle", "update", "roots", "sweep", "visit", "convert"}
        /\ subject' \in Subject
        /\ pc' = "visit" => subject' = subject /\ index' \in 0 .. n
        /\ iterations' \in Nat /\ done' \in BOOLEAN
    BY <1>3, LocalsTyped
  <2>2. pc' = "visit" => n' = n
    BY <1>3, <2>1 DEF n, listVars
  <2> QED
    BY <1>3, <2>1, <2>2 DEF TypeOK, listVars
<1>4. ASSUME NEW parsing \in BOOLEAN, NEW c \in BOOLEAN, Call(parsing, c) PROVE TypeOK'
  <2>1. Continue("update", 1, 0, 0, TRUE) \/ \E r : Return(r)
    BY <1>4 DEF Call
  <2> QED
    BY <2>1, <1>3, <1>4, SubjectFacts DEF Call, TypeOK
<1>5. CASE Update
  <2>1. Continue("roots", subject, 0, 0, TRUE) \/ \E r : Return(r)
    BY <1>5 DEF Update
  <2> DEFINE stops   == {i \in Transform(subject) :
                            ~Finite(subject, i) \/ value[subject][i] \in Burst}
             updated == {i \in Transform(subject) :
                            Finite(subject, i) /\ \A k \in stops : i <= k}
             B       == [i \in Transform(subject) |->
                            burst[subject][i] \/ (i \in updated /\ value[subject][i] \in Burst)]
             K       == [i \in Transform(subject) |-> i \notin updated /\ known[subject][i]]
  <2>2. burst' = [burst EXCEPT ![subject] = B] /\ known' = [known EXCEPT ![subject] = K]
    BY <1>5 DEF Update
  <2>3. /\ subject \in Subject /\ DOMAIN known = Subject /\ DOMAIN burst = Subject
        /\ \A s \in Subject : known[s] \in [Transform(s) -> BOOLEAN]
        /\ \A s \in Subject : burst[s] \in [Transform(s) -> BOOLEAN]
    BY DEF TypeOK
  <2>4. B \in [Transform(subject) -> BOOLEAN] /\ K \in [Transform(subject) -> BOOLEAN]
    <3> HIDE DEF updated
    <3>1. ASSUME NEW i \in Transform(subject) PROVE K[i] \in BOOLEAN
      BY <2>3
    <3>2. ASSUME NEW i \in Transform(subject) PROVE B[i] \in BOOLEAN
      BY <2>3
    <3> QED
      BY <3>1, <3>2
  <2> HIDE DEF B, K
  <2>5. /\ DOMAIN burst' = Subject /\ DOMAIN known' = Subject
        /\ \A s \in Subject : burst'[s] \in [Transform(s) -> BOOLEAN]
        /\ \A s \in Subject : known'[s] \in [Transform(s) -> BOOLEAN]
    BY <2>2, <2>3, <2>4
  <2>6. /\ UNCHANGED <<listVars, world, conversion>>
        /\ DOMAIN world' = Subject /\ \A s \in Subject : DOMAIN world'[s] = Transform(s)
    BY <1>5 DEF Update, TypeOK
  <2> QED
    BY <2>1, <2>5, <2>6, <1>3 DEF TypeOK
<1>6. CASE FindRoot
  <2>1. Continue("sweep", subject, 0, 0, FALSE) \/ \E r : Return(r)
    BY <1>6 DEF FindRoot
  <2>2. DOMAIN known' = Subject /\ \A s \in Subject : known'[s] \in [Transform(s) -> BOOLEAN]
    BY <1>6 DEF FindRoot, TypeOK
  <2>3. DOMAIN world' = Subject /\ \A s \in Subject : DOMAIN world'[s] = Transform(s)
    BY <1>6 DEF FindRoot, TypeOK
  <2> QED
    BY <2>1, <2>2, <2>3, <1>3, <1>6 DEF FindRoot, TypeOK
<1>7. CASE Sweep
  <2>1. Continue("visit", subject, 0, iterations + 1, TRUE) \/ \E r : Return(r)
    BY <1>7 DEF Sweep
  <2>2. iterations + 1 \in Nat /\ 0 <= n
    BY SizeFacts DEF TypeOK
  <2> QED
    BY <2>1, <2>2, <1>3, <1>7 DEF Sweep, TypeOK
<1>8. CASE Skip
  <2>1. index + 1 \in Nat /\ index + 1 <= n
    BY <1>8, SizeFacts DEF Skip, TypeOK
  <2> QED
    BY <2>1, <1>3, <1>8 DEF Skip, TypeOK
<1>9. CASE BadParent
  <2>1. \E r : Return(r)
    BY <1>9 DEF BadParent
  <2> QED
    BY <2>1, <1>3, <1>9 DEF BadParent, TypeOK
<1>10. CASE Attach
  <2>1. index + 1 \in Nat /\ index + 1 <= n
    BY <1>10, SizeFacts DEF Attach, TypeOK
  <2>2. Continue("visit", subject, index + 1, iterations, FALSE) \/ \E r : Return(r)
    BY <1>10 DEF Attach
  <2>3. /\ DOMAIN known' = Subject /\ \A s \in Subject : known'[s] \in [Transform(s) -> BOOLEAN]
        /\ DOMAIN world' = Subject /\ \A s \in Subject : DOMAIN world'[s] = Transform(s)
    BY <1>10 DEF Attach, TypeOK
  <2> QED
    BY <2>1, <2>2, <2>3, <1>3, <1>10 DEF Attach, TypeOK
<1>11. CASE EndSweep
  <2> DEFINE where == IF done THEN "convert" ELSE "sweep"
  <2>1. /\ Continue(where, subject, 0, iterations, done)
        /\ UNCHANGED <<listVars, burst, known, world, conversion>>
    BY <1>11 DEF EndSweep
  <2>2. where \in {"update", "roots", "sweep", "visit", "convert"} /\ where # "visit"
    OBVIOUS
  <2>3. subject \in Subject /\ iterations \in Nat /\ done \in BOOLEAN
    BY DEF TypeOK
  <2> HIDE DEF where
  <2>4. \E w \in {"update", "roots", "sweep", "visit", "convert"}, s \in Subject,
          i \in Nat, k \in Nat, d \in BOOLEAN :
          Continue(w, s, i, k, d) /\ (w = "visit" => s = subject /\ i <= n)
    BY <2>1, <2>2, <2>3
  <2> QED
    BY <2>1, <2>4, <1>3 DEF TypeOK
<1>12. CASE Convert
  <2>1. DOMAIN world' = Subject /\ \A s \in Subject : DOMAIN world'[s] = Transform(s)
    BY <1>12 DEF Convert, TypeOK
  <2>2. subject # Len(Shapes) => subject + 1 \in Subject
    BY SubjectFacts DEF TypeOK
  <2>3. \/ subject + 1 \in Subject /\ Continue("update", subject + 1, 0, 0, TRUE)
        \/ \E r : Return(r)
    BY <2>2, <1>12 DEF Convert
  <2> QED
    BY <2>1, <2>3, <1>3, <1>12 DEF Convert, TypeOK
<1>13. CASE UNCHANGED vars
  BY <1>13 DEF vars, listVars, locals, TypeOK, n
<1> QED
  BY <1>1, <1>2, <1>4, <1>5, <1>6, <1>7, <1>8, <1>9, <1>10, <1>11, <1>12, <1>13 DEF Next

\* The call's locals and the lists keep their types; in particular the subject
\* and the index never leave the lists they run over.
THEOREM TypeCorrect == Spec => []TypeOK
BY TypedInit, TypedNext, PTL DEF Spec

-----------------------------------------------------------------------------
(* The call.                                                               *)

Inv == TypeOK /\ CallInv

\* A subject whose matrices a step leaves alone stays settled.
LEMMA SettledFrame ==
    ASSUME NEW s, UNCHANGED <<parent, value, conversion>>,
           known'[s] = known[s], world'[s] = world[s],
           \A i \in Transform(s) : Settled(s, i)
    PROVE  (\A i \in Transform(s) : Settled(s, i))'
<1>1. Transform(s)' = Transform(s)
  BY DEF Transform
<1>2. ASSUME NEW i \in Transform(s) PROVE Settled(s, i)'
  <2>1. Settled(s, i) /\ \A j : Local(s, j)' = Local(s, j)
    BY DEF Local
  <2> QED
    BY <2>1, <1>1 DEF Settled
<1> QED
  BY <1>1, <1>2

\* A return with an error promises nothing about the matrices.
LEMMA FailedKeepsInv ==
    ASSUME NEW r, Return(r), r \notin {"ok", "cycle"}
    PROVE  CallInv'
<1>1. pc' = "idle" /\ result' \notin {"ok", "cycle"}
  BY DEF Return
<1>2. FlagsInv' /\ DoneInv' /\ SweepInv' /\ FinishedInv'
  BY <1>1 DEF FlagsInv, DoneInv, SweepInv, FinishedInv
<1>3. WorldsSettled' /\ CycleNeverReported'
  BY <1>1 DEF WorldsSettled, CycleNeverReported
<1> QED
  BY <1>2, <1>3 DEF CallInv

\* Within one subject the subjects finished with stay so.
LEMMA FinishedKept ==
    ASSUME Inv, pc # "idle", UNCHANGED <<parent, value, conversion, subject>>,
           \A s \in Subject \ {subject} : known'[s] = known[s] /\ world'[s] = world[s]
    PROVE  FinishedInv'
<1>1. subject \in Subject
  BY DEF Inv, TypeOK
<1>2. \A s \in 1 .. (subject - 1) : s \in Subject \ {subject}
  BY <1>1, SubjectFacts
<1>3. ASSUME NEW s \in 1 .. (subject - 1)
      PROVE  (\A i \in Transform(s) : Settled(s, i))'
  <2>1. \A i \in Transform(s) : Settled(s, i)
    BY DEF Inv, CallInv, FinishedInv
  <2> QED
    BY <2>1, <1>2, SettledFrame
<1> QED
  BY <1>3 DEF FinishedInv

\* The known transforms are finitely many, and no more than the list has.
LEMMA KnownFacts ==
    ASSUME TypeOK
    PROVE  /\ IsFiniteSet(Known) /\ Cardinality(Known) \in Nat
           /\ Cardinality(Known) <= n
<1>1. Known \subseteq Transform(subject)
  BY DEF Known
<1> QED
  BY <1>1, SizeFacts, FS_Subset, FS_CardinalityType

\* calcMatrices begins with no subject finished.
LEMMA CallKeepsInv ==
    ASSUME Inv, NEW parsing \in BOOLEAN, NEW c \in BOOLEAN, Call(parsing, c)
    PROVE  CallInv'
<1>1. CASE Return("not finite")
  BY <1>1, FailedKeepsInv
<1>2. CASE Continue("update", 1, 0, 0, TRUE)
  <2>1. 1 .. (1 - 1) = {}
    OBVIOUS
  <2> QED
    BY <2>1, <1>2 DEF Continue, Inv, CallInv, FlagsInv, DoneInv, SweepInv, FinishedInv,
                      WorldsSettled, CycleNeverReported
<1> QED
  BY <1>1, <1>2 DEF Call

\* Transform::update clears the flags, so that no stale matrix is taken for known.
LEMMA UpdateKeepsInv == ASSUME Inv, Update PROVE CallInv'
<1> DEFINE stops   == {i \in Transform(subject) :
                          ~Finite(subject, i) \/ value[subject][i] \in Burst}
           updated == {i \in Transform(subject) :
                          Finite(subject, i) /\ \A k \in stops : i <= k}
           K       == [i \in Transform(subject) |-> i \notin updated /\ known[subject][i]]
<1>1. /\ pc = "update" /\ known' = [known EXCEPT ![subject] = K]
      /\ IF stops # {} THEN Return("not finite") ELSE Continue("roots", subject, 0, 0, TRUE)
      /\ UNCHANGED <<listVars, world, conversion>>
  BY DEF Update
<1>2. CASE stops # {}
  BY <1>1, <1>2, FailedKeepsInv
<1>3. CASE stops = {}
  <2>1. Continue("roots", subject, 0, 0, TRUE) /\ \A i \in Transform(subject) : ~K[i]
    BY <1>1, <1>3
  <2> HIDE DEF stops, updated, K
  <2>2. subject \in Subject /\ DOMAIN known = Subject
    BY DEF Inv, TypeOK
  <2>3. Known' = {}
    BY <2>1, <2>2, <1>1 DEF Known, Transform, listVars, Continue
  <2>4. FinishedInv'
    BY <2>1, <2>2, <1>1, FinishedKept DEF listVars, Continue
  <2> QED
    BY <2>1, <2>3, <2>4, <1>1 DEF Continue, Inv, CallInv, FlagsInv, DoneInv, SweepInv,
                                  WorldsSettled, CycleNeverReported
<1> QED
  BY <1>2, <1>3

\* After the roots, the known are one root that is built, or the call returns.
LEMMA FindRootKeepsInv == ASSUME Inv, FindRoot PROVE CallInv'
<1> DEFINE roots == {i \in Transform(subject) : parent[subject][i] = -1}
           K == [i \in Transform(subject) |-> i \in roots \/ known[subject][i]]
           W == [i \in Transform(subject) |->
                    IF i \in roots THEN Root(subject, i) ELSE world[subject][i]]
<1>1. /\ pc = "roots"
      /\ known' = [known EXCEPT ![subject] = K]
      /\ world' = [world EXCEPT ![subject] = W]
      /\ UNCHANGED <<listVars, conversion>>
      /\ \/ roots # {} /\ Continue("sweep", subject, 0, 0, FALSE)
         \/ Return("no root") \/ Return("more than one root")
  BY DEF FindRoot
<1>2. CASE Return("no root") \/ Return("more than one root")
  BY <1>2, FailedKeepsInv
<1>3. CASE roots # {} /\ Continue("sweep", subject, 0, 0, FALSE)
  <2>1. /\ subject \in Subject /\ DOMAIN known = Subject /\ DOMAIN world = Subject
        /\ subject' = subject /\ pc' = "sweep" /\ iterations' = 0 /\ result' = result
        /\ UNCHANGED <<parent, value, conversion>>
    BY <1>1, <1>3 DEF Inv, TypeOK, Continue, listVars
  <2>2. \A i \in Transform(subject) : ~known[subject][i]
    BY <1>1 DEF Inv, CallInv, FlagsInv, Known
  <2>3. known'[subject] = K /\ world'[subject] = W
    BY <1>1, <2>1
  <2>4. Known' = roots
    BY <2>1, <2>2, <2>3 DEF Known, Transform
  <2>5. ASSUME NEW i \in roots PROVE Built(i)'
    <3>1. i \in Transform(subject) /\ parent'[subject'][i] = -1
      BY <2>1, <2>5
    <3>2. world'[subject'][i] = [product |-> <<Local(subject, i)>>, converted |-> 0]
      BY <2>1, <2>3, <3>1 DEF Root
    <3>3. Local(subject, i)' = Local(subject, i)
      BY <2>1 DEF Local
    <3> HIDE DEF roots, K, W
    <3> QED
      BY <3>1, <3>2, <3>3 DEF Built
  <2>6. \A i \in Transform(subject)' \ Known' : parent'[subject'][i] # -1
    BY <2>1, <2>4 DEF Transform
  <2>7. 0 + 1 <= Cardinality(roots)
    <3>1. IsFiniteSet(roots)
      BY SizeFacts, FS_Subset DEF Inv
    <3>2. Cardinality(roots) \in Nat /\ Cardinality(roots) # 0
      BY <3>1, <1>3, FS_CardinalityType, FS_EmptySet
    <3> QED
      BY <3>2
  <2>8. FinishedInv'
    <3> HIDE DEF roots, K, W
    <3> QED
      BY <1>1, <2>1, FinishedKept
  <2> HIDE DEF roots, K, W
  <2>9. FlagsInv' /\ SweepInv' /\ DoneInv'
    BY <2>1, <2>4, <2>5, <2>6, <2>7 DEF FlagsInv, SweepInv, DoneInv
  <2>10. iterations' <= n'
    BY <2>1, SizeFacts DEF Inv, n
  <2>11. WorldsSettled' /\ CycleNeverReported'
    BY <2>1, <2>10 DEF Inv, CallInv, WorldsSettled, CycleNeverReported
  <2> QED
    BY <2>8, <2>9, <2>11 DEF CallInv
<1> QED
  BY <1>1, <1>2, <1>3

\* The steps of a sweep that give no matrix leave the flags as they are.
LEMMA SameKnown ==
    ASSUME Inv, pc # "idle", UNCHANGED <<listVars, known, world, conversion, subject>>
    PROVE  /\ Known' = Known /\ Transform(subject)' = Transform(subject) /\ n' = n
           /\ \A i : Built(i)' <=> Built(i)
           /\ \A i : Waiting(i)' <=> Waiting(i)
           /\ FinishedInv'
<1>1. FinishedInv'
  BY FinishedKept DEF listVars
<1> QED
  BY <1>1 DEF Known, Transform, n, Built, Waiting, Local, listVars

\* A sweep begins only when the one before it gave some transform its matrix.
LEMMA SweepKeepsInv == ASSUME Inv, Sweep PROVE CallInv'
<1>1. /\ pc = "sweep" /\ UNCHANGED <<listVars, known, world, conversion>>
      /\ iterations + 1 <= Cardinality(Known) /\ Cardinality(Known) <= n
      /\ n \in Nat /\ iterations \in Nat /\ Cardinality(Known) \in Nat
  BY SizeFacts, KnownFacts DEF Sweep, Inv, CallInv, SweepInv, TypeOK
<1>2. ~(iterations + 1 > n)
  BY <1>1
<1>3. Continue("visit", subject, 0, iterations + 1, TRUE)
  BY <1>2 DEF Sweep
<1>4. /\ pc' = "visit" /\ subject' = subject /\ index' = 0 /\ iterations' = iterations + 1
      /\ done' = TRUE /\ result' = result
  BY <1>3 DEF Continue
<1>5. /\ Known' = Known /\ Transform(subject)' = Transform(subject) /\ n' = n
      /\ \A i : Built(i)' <=> Built(i)
      /\ \A i : Waiting(i)' <=> Waiting(i)
      /\ FinishedInv'
  BY <1>1, <1>4, SameKnown
<1>6. FlagsInv'
  BY <1>1, <1>4, <1>5 DEF Inv, CallInv, FlagsInv, listVars
<1>7. \A i \in Transform(subject) : ~(i < 0)
  BY SizeFacts DEF Inv
<1>8. DoneInv' /\ SweepInv'
  BY <1>1, <1>4, <1>5, <1>7 DEF DoneInv, SweepInv
<1>9. WorldsSettled' /\ CycleNeverReported'
  BY <1>1, <1>4, <1>5 DEF Inv, CallInv, WorldsSettled, CycleNeverReported
<1> QED
  BY <1>5, <1>6, <1>8, <1>9 DEF CallInv

\* Passing a transform by is sound: it is known, or it waits for its parent.
LEMMA SkipKeepsInv == ASSUME Inv, Skip PROVE CallInv'
<1>1. /\ pc = "visit" /\ UNCHANGED <<listVars, known, world, conversion>>
      /\ pc' = "visit" /\ subject' = subject /\ index' = index + 1
      /\ iterations' = iterations /\ done' = done /\ result' = result
      /\ index \in 0 .. n /\ index < n
  BY DEF Skip, Continue, Inv, TypeOK
<1>2. /\ Known' = Known /\ Transform(subject)' = Transform(subject) /\ n' = n
      /\ \A i : Built(i)' <=> Built(i)
      /\ \A i : Waiting(i)' <=> Waiting(i)
      /\ FinishedInv'
  BY <1>1, SameKnown
<1>3. Transform(subject) = 0 .. (n - 1) /\ n \in Nat
  BY SizeFacts DEF Inv
<1>4. index \in Known \/ Waiting(index)
  BY <1>1, <1>3 DEF Skip, Known, Waiting
<1>5. \A i \in Transform(subject) : i < index + 1 => i < index \/ i = index
  BY <1>1, <1>3
<1>6. FlagsInv'
  BY <1>1, <1>2 DEF Inv, CallInv, FlagsInv, listVars
<1>7. DoneInv'
  BY <1>1, <1>2, <1>4, <1>5 DEF Inv, CallInv, DoneInv
<1>8. SweepInv' /\ WorldsSettled' /\ CycleNeverReported'
  BY <1>1, <1>2 DEF Inv, CallInv, SweepInv, WorldsSettled, CycleNeverReported
<1> QED
  BY <1>2, <1>6, <1>7, <1>8 DEF CallInv

\* A self-parent or a parent out of range ends the call.
LEMMA BadParentKeepsInv == ASSUME Inv, BadParent PROVE CallInv'
BY FailedKeepsInv DEF BadParent

\* A transform attached to a known parent is built, and is one more that is known.
LEMMA AttachKeepsInv == ASSUME Inv, Attach PROVE CallInv'
<1>1. PICK j, p, m :
        /\ j = index /\ p = parent[subject][j]
        /\ m = Times(world[subject][p], Local(subject, j))
  OBVIOUS
<1>2. /\ pc = "visit" /\ j \in Transform(subject) /\ ~known[subject][j]
      /\ p \in Transform(subject) /\ p # j /\ known[subject][p] /\ p # -1
      /\ world' = [world EXCEPT ![subject][j] = m]
      /\ known' = [known EXCEPT ![subject][j] = TRUE]
      /\ UNCHANGED <<listVars, conversion>>
      /\ Continue("visit", subject, index + 1, iterations, FALSE) \/ Return("overflow")
  <2>1. Transform(subject) = 0 .. (n - 1) /\ n \in Nat
    BY SizeFacts DEF Inv
  <2>2. pc = "visit" /\ index < n /\ index \in 0 .. n
    BY DEF Attach, Inv, TypeOK
  <2>3. j \in Transform(subject)
    BY <1>1, <2>1, <2>2
  <2>4. /\ ~known[subject][j] /\ p # j /\ p \in 0 .. (n - 1) /\ known[subject][p]
        /\ world' = [world EXCEPT ![subject][j] = m]
        /\ known' = [known EXCEPT ![subject][j] = TRUE]
        /\ UNCHANGED <<listVars, conversion>>
        /\ Continue("visit", subject, index + 1, iterations, FALSE) \/ Return("overflow")
    BY <1>1 DEF Attach
  <2>5. p # -1
    BY <2>1, <2>4
  <2> QED
    BY <2>1, <2>2, <2>3, <2>4, <2>5
<1>3. CASE Return("overflow")
  BY <1>3, FailedKeepsInv
<1>4. CASE Continue("visit", subject, index + 1, iterations, FALSE)
  <2>1. /\ subject \in Subject /\ DOMAIN known = Subject /\ DOMAIN world = Subject
        /\ known[subject] \in [Transform(subject) -> BOOLEAN]
        /\ DOMAIN world[subject] = Transform(subject)
        /\ subject' = subject /\ pc' = "visit" /\ iterations' = iterations
        /\ done' = FALSE /\ result' = result
        /\ UNCHANGED <<parent, value, conversion>>
    BY <1>2, <1>4 DEF Inv, TypeOK, Continue, listVars
  <2>2. /\ world'[subject][j] = m /\ known'[subject][j] = TRUE
        /\ \A i \in Transform(subject) \ {j} :
              /\ world'[subject][i] = world[subject][i]
              /\ known'[subject][i] = known[subject][i]
        /\ \A s \in Subject \ {subject} : known'[s] = known[s] /\ world'[s] = world[s]
    BY <1>2, <2>1
  <2>3. Known' = Known \cup {j} /\ j \notin Known /\ p \in Known
    BY <1>2, <2>1, <2>2 DEF Known, Transform
  <2>4. \A i : Local(subject, i)' = Local(subject, i)
    BY <2>1 DEF Local
  <2>5. ASSUME NEW i \in Known PROVE Built(i)'
    <3>1. i \in Transform(subject) \ {j} /\ Built(i)
      BY <1>2, <2>3, <2>5 DEF Known, Inv, CallInv, FlagsInv
    <3>2. parent[subject][i] # -1 => parent[subject][i] \in Transform(subject) \ {j}
      BY <3>1, <2>3 DEF Built, Known
    <3> QED
      BY <3>1, <3>2, <2>1, <2>2, <2>3, <2>4 DEF Built
  <2>6. Built(j)'
    <3>1. Built(p) /\ p \in Transform(subject) \ {j}
      BY <1>2, <2>3 DEF Inv, CallInv, FlagsInv
    <3>2. /\ m.product = Append(world[subject][p].product, Local(subject, j))
          /\ m.converted = 0
      BY <1>1, <3>1 DEF Built, Times
    <3>3. parent'[subject'][j] = p /\ p \in Known'
      BY <1>1, <2>1, <2>3
    <3>4. /\ world'[subject'][j].converted = 0
          /\ world'[subject'][j].product
                = Append(world'[subject'][p].product, Local(subject, j)')
      BY <2>1, <2>2, <2>4, <3>1, <3>2
    <3> QED
      BY <1>2, <3>3, <3>4 DEF Built
  <2>7. FlagsInv'
    <3>1. \A i \in Known' : Built(i)'
      BY <2>3, <2>5, <2>6
    <3>2. \A i \in Transform(subject) \ Known : parent[subject][i] # -1
      BY <1>2 DEF Inv, CallInv, FlagsInv
    <3> QED
      BY <3>1, <3>2, <2>1, <2>3 DEF FlagsInv, Transform
  <2>8. DoneInv'
    BY <2>1 DEF DoneInv
  <2>9. SweepInv'
    <3>1. IsFiniteSet(Known) /\ Cardinality(Known) \in Nat /\ iterations \in Nat
          /\ iterations <= Cardinality(Known)
      BY <1>2, KnownFacts DEF Inv, TypeOK, CallInv, SweepInv
    <3>2. Cardinality(Known') = Cardinality(Known) + 1
      BY <3>1, <2>3, FS_AddElement
    <3> QED
      BY <3>1, <3>2, <2>1 DEF SweepInv
  <2>10. FinishedInv'
    BY <1>2, <2>1, <2>2, FinishedKept
  <2>11. n' = n
    BY <2>1 DEF n
  <2>12. WorldsSettled' /\ CycleNeverReported'
    BY <1>2, <2>1, <2>11 DEF Inv, CallInv, WorldsSettled, CycleNeverReported
  <2> QED
    BY <2>7, <2>8, <2>9, <2>10, <2>12 DEF CallInv
<1> QED
  BY <1>2, <1>3, <1>4

\* A sweep that found nothing leaves only transforms that wait.
LEMMA EndSweepKeepsInv == ASSUME Inv, EndSweep PROVE CallInv'
<1>1. /\ pc = "visit" /\ index = n /\ n \in Nat /\ done \in BOOLEAN
      /\ UNCHANGED <<listVars, known, world, conversion>>
      /\ pc' = IF done THEN "convert" ELSE "sweep"
      /\ subject' = subject /\ iterations' = iterations /\ result' = result
      /\ iterations \in Nat
  BY SizeFacts DEF EndSweep, Continue, Inv, TypeOK
<1>2. /\ Known' = Known /\ Transform(subject)' = Transform(subject) /\ n' = n
      /\ \A i : Built(i)' <=> Built(i)
      /\ \A i : Waiting(i)' <=> Waiting(i)
      /\ FinishedInv'
  BY <1>1, SameKnown
<1>3. FlagsInv'
  BY <1>1, <1>2 DEF Inv, CallInv, FlagsInv, listVars
<1>4. \A i \in Transform(subject) : i < index
  BY <1>1, SizeFacts DEF Inv
<1>5. DoneInv'
  BY <1>1, <1>2, <1>4 DEF Inv, CallInv, DoneInv
<1>6. SweepInv' /\ WorldsSettled'
  BY <1>1, <1>2 DEF Inv, CallInv, SweepInv, WorldsSettled
<1>7. CycleNeverReported'
  BY <1>1, <1>2 DEF Inv, CallInv, CycleNeverReported
<1> QED
  BY <1>2, <1>3, <1>5, <1>6, <1>7 DEF CallInv

\* Conversion settles the subject at hand.
LEMMA ConvertSettles ==
    ASSUME Inv, Convert, NEW s, s = subject, NEW i \in Transform(s)
    PROVE  Settled(s, i)'
<1> DEFINE W == [j \in Transform(subject) |-> Converted(world[subject][j])]
<1>1. /\ pc = "convert" /\ UNCHANGED <<parent, value, known, conversion>>
      /\ world' = IF conversion THEN [world EXCEPT ![subject] = W] ELSE world
      /\ subject \in Subject /\ DOMAIN world = Subject /\ conversion \in BOOLEAN
  BY DEF Convert, Inv, TypeOK, listVars
<1>2. \A j \in Transform(s) :
        /\ world'[s][j].product = world[s][j].product
        /\ world[s][j].converted = 0 =>
              world'[s][j].converted = IF conversion THEN 1 ELSE 0
  <2>1. CASE conversion
    <3>1. world'[s] = W
      BY <1>1, <2>1
    <3>2. \A j \in Transform(s) : world'[s][j] = Converted(world[s][j])
      BY <3>1
    <3>3. \A matrix : /\ Converted(matrix).product = matrix.product
                      /\ matrix.converted = 0 => Converted(matrix).converted = 1
      BY DEF Converted, MaxConversions
    <3>4. (IF conversion THEN 1 ELSE 0) = 1
      BY <2>1
    <3> HIDE DEF W
    <3> QED
      BY <3>2, <3>3, <3>4
  <2>2. CASE ~conversion
    BY <1>1, <2>2
  <2> QED
    BY <2>1, <2>2
<1> HIDE DEF W
<1>3. Transform(s)' = Transform(s) /\ \A j : Local(s, j)' = Local(s, j)
  BY <1>1 DEF Transform, Local
<1>4. CASE known[s][i]
  <2>1. Built(i)
    BY <1>1, <1>4 DEF Known, Inv, CallInv, FlagsInv
  <2>2. parent[s][i] # -1 => parent[s][i] \in Transform(s) /\ known[s][parent[s][i]]
    BY <2>1 DEF Built, Known
  <2> QED
    BY <1>1, <1>2, <1>3, <1>4, <2>1, <2>2 DEF Built, Settled
<1>5. CASE ~known[s][i]
  <2>1. Waiting(i)
    BY <1>1, <1>5 DEF Known, Inv, CallInv, DoneInv
  <2> QED
    BY <1>1, <1>3, <1>5, <2>1 DEF Waiting, Known, Settled
<1> QED
  BY <1>4, <1>5

\* Converting finishes the subject at hand and leaves those before it alone.
LEMMA ConvertKeepsInv == ASSUME Inv, Convert PROVE CallInv'
<1>1. /\ pc = "convert" /\ UNCHANGED <<parent, value, known, conversion>>
      /\ subject \in Subject /\ DOMAIN world = Subject
      /\ \A s \in Subject \ {subject} : world'[s] = world[s]
      /\ IF subject = Len(Shapes) THEN Return("ok")
                                  ELSE Continue("update", subject + 1, 0, 0, TRUE)
  BY DEF Convert, Inv, TypeOK, listVars
<1>2. ASSUME NEW s \in 1 .. subject PROVE (\A i \in Transform(s) : Settled(s, i))'
  <2>1. CASE s = subject
    <3>1. \A i \in Transform(s) : Settled(s, i)'
      BY <2>1, ConvertSettles
    <3>2. Transform(s)' = Transform(s)
      BY <1>1 DEF Transform
    <3> QED
      BY <3>1, <3>2
  <2>2. CASE s # subject
    <3>1. s \in 1 .. (subject - 1) /\ s \in Subject \ {subject}
      BY <2>2, <1>1, SubjectFacts
    <3>2. \A i \in Transform(s) : Settled(s, i)
      BY <3>1, <1>1 DEF Inv, CallInv, FinishedInv
    <3> QED
      BY <1>1, <3>1, <3>2, SettledFrame
  <2> QED
    BY <2>1, <2>2
<1>3. CASE subject = Len(Shapes)
  <2>1. pc' = "idle" /\ result' = "ok"
    BY <1>1, <1>3 DEF Return
  <2>2. WorldsSettled'
    BY <1>2, <1>3, SubjectFacts DEF WorldsSettled
  <2> QED
    BY <2>1, <2>2 DEF CallInv, FlagsInv, DoneInv, SweepInv, FinishedInv, CycleNeverReported
<1>4. CASE subject # Len(Shapes)
  <2>1. pc' = "update" /\ subject' = subject + 1 /\ result' = result
    BY <1>1, <1>4 DEF Continue
  <2>2. FinishedInv'
    <3>1. \A s \in 1 .. ((subject + 1) - 1) : s \in 1 .. subject
      BY <1>1, SubjectFacts
    <3> QED
      BY <2>1, <3>1, <1>2 DEF FinishedInv
  <2> QED
    BY <1>1, <2>1, <2>2 DEF Inv, CallInv, FlagsInv, DoneInv, SweepInv, WorldsSettled,
                      CycleNeverReported
<1> QED
  BY <1>3, <1>4

\* The invariant holds before the first call.
LEMMA CallInvInit == Init => CallInv
BY DEF Init, CallInv, FlagsInv, DoneInv, SweepInv, FinishedInv, WorldsSettled, CycleNeverReported

\* Every step of calcMatrices, parse and the application keeps the invariant.
LEMMA CallInvNext == Inv /\ [Next]_vars => CallInv'
<1> SUFFICES ASSUME Inv, [Next]_vars PROVE CallInv'
  OBVIOUS
<1>1. ASSUME NEW s \in Subject, NEW p \in Shapes[s], Replace(s, p) PROVE CallInv'
  BY <1>1 DEF Replace, CallInv, FlagsInv, DoneInv, SweepInv, FinishedInv, WorldsSettled,
              CycleNeverReported
<1>2. ASSUME NEW s \in Subject, NEW i, NEW v, Write(s, i, v) PROVE CallInv'
  BY <1>2 DEF Write, CallInv, FlagsInv, DoneInv, SweepInv, FinishedInv, WorldsSettled,
              CycleNeverReported
<1>3. CASE UNCHANGED vars
  <2>1. /\ Known' = Known /\ n' = n /\ Transform(subject)' = Transform(subject)
        /\ \A i : Built(i)' <=> Built(i)
        /\ \A i : Waiting(i)' <=> Waiting(i)
    BY <1>3 DEF vars, listVars, locals, Known, n, Transform, Built, Waiting, Local
  <2>2. \A s : \A i : Settled(s, i)' <=> Settled(s, i)
    BY <1>3 DEF vars, listVars, Settled, Transform, Local
  <2>3. FinishedInv' /\ WorldsSettled' /\ CycleNeverReported'
    BY <1>3, <2>1, <2>2 DEF Inv, CallInv, FinishedInv, WorldsSettled, CycleNeverReported,
                            vars, listVars, locals, Transform
  <2>4. FlagsInv' /\ DoneInv' /\ SweepInv'
    <3>1. /\ pc' = pc /\ index' = index /\ iterations' = iterations /\ done' = done
          /\ parent' = parent /\ subject' = subject
      BY <1>3 DEF vars, listVars, locals
    <3>2. FlagsInv'
      BY <2>1, <3>1 DEF Inv, CallInv, FlagsInv
    <3>3. DoneInv'
      BY <2>1, <3>1 DEF Inv, CallInv, DoneInv
    <3>4. SweepInv'
      BY <2>1, <3>1 DEF Inv, CallInv, SweepInv
    <3> QED
      BY <3>2, <3>3, <3>4
  <2> QED
    BY <2>3, <2>4 DEF CallInv
<1> QED
  BY <1>1, <1>2, <1>3, CallKeepsInv, UpdateKeepsInv, FindRootKeepsInv, SweepKeepsInv,
     SkipKeepsInv, BadParentKeepsInv, AttachKeepsInv, EndSweepKeepsInv, ConvertKeepsInv
     DEF Next

\* The invariant of calcMatrices, of which the theorems below are parts.
LEMMA CallCorrect == Spec => []CallInv
<1>1. Init => Inv
  BY TypedInit, CallInvInit DEF Inv
<1>2. Inv /\ [Next]_vars => Inv'
  BY TypedNext, CallInvNext DEF Inv
<1>3. Inv => CallInv
  BY DEF Inv
<1> QED
  BY <1>1, <1>2, <1>3, PTL DEF Spec

\* The check for cycles is dead code, whatever the hierarchy: a cycle makes the
\* loop end, not run on.
THEOREM NoCycleReported == Spec => []CycleNeverReported
<1>1. CallInv => CycleNeverReported
  BY DEF CallInv
<1> QED
  BY <1>1, CallCorrect, PTL

\* When calcMatrices returns true, the matrices of every subject are those its
\* hierarchy defines, and none that could be computed was left out.
THEOREM Settles == Spec => []WorldsSettled
<1>1. CallInv => WorldsSettled
  BY DEF CallInv
<1> QED
  BY <1>1, CallCorrect, PTL

-----------------------------------------------------------------------------
(* Calls end.                                                              *)

\* Sweeps of m transforms of which k were begun: one more takes m + 2 statements.
LEMMA SweepsLeft ==
    ASSUME NEW m \in Nat, NEW k \in 0 .. m
    PROVE  /\ (m - k) * (m + 2) \in Nat
           /\ k < m => (m - k) * (m + 2) = (m - (k + 1)) * (m + 2) + (m + 2)
<1>1. m - k \in Nat /\ m + 2 \in Nat
  OBVIOUS
<1>2. \A a, b \in Nat : a * b \in Nat /\ (a + 1) * b = a * b + b
  OBVIOUS
<1>3. k < m => m - (k + 1) \in Nat /\ m - k = (m - (k + 1)) + 1
  OBVIOUS
<1> QED
  BY <1>1, <1>2, <1>3

\* What is left in each place of a call.
StepsByPlace ==
    /\ n \in Nat /\ n * (n + 2) \in Nat
    /\ pc = "update" => StepsLeft = n * (n + 2) + 4
    /\ pc = "roots" => StepsLeft = n * (n + 2) + 3
    /\ pc = "convert" => StepsLeft = 1
    /\ pc = "idle" => StepsLeft = 0
    /\ pc = "sweep" => /\ iterations \in 0 .. n
                       /\ StepsLeft = (n - iterations) * (n + 2) + 2
    /\ pc = "visit" => /\ iterations \in 0 .. n /\ index \in 0 .. n
                       /\ StepsLeft = (n - iterations) * (n + 2) + (n - index) + 3

\* The bound by its cases.
LEMMA StepsFacts == Inv => StepsByPlace
<1> SUFFICES ASSUME Inv PROVE StepsByPlace
  OBVIOUS
<1>1. n \in Nat
  BY SizeFacts DEF Inv
<1>2. n * (n + 2) \in Nat
  <2>1. (n - 0) * (n + 2) \in Nat
    BY <1>1, SweepsLeft
  <2> QED
    BY <2>1, <1>1
<1>3. pc \in {"sweep", "visit"} => iterations \in 0 .. n
  BY <1>1 DEF Inv, CallInv, CycleNeverReported, TypeOK
<1>4. pc = "visit" => index \in 0 .. n
  BY DEF Inv, TypeOK
<1> HIDE DEF n
<1> QED
  BY <1>1, <1>2, <1>3, <1>4 DEF StepsLeft, StepsByPlace

\* StepsLeft is a number.
LEMMA StepsNatural == ASSUME Inv PROVE StepsLeft \in Nat
<1>1. n \in Nat
  BY StepsFacts DEF StepsByPlace
<1>2. ASSUME iterations \in 0 .. n PROVE (n - iterations) * (n + 2) \in Nat
  BY <1>1, <1>2, SweepsLeft
<1> DEFINE rest == (n - iterations) * (n + 2)
           all  == n * (n + 2)
<1>3. pc \in {"idle", "update", "roots", "sweep", "visit", "convert"}
  BY DEF Inv, TypeOK
<1>4. all \in Nat
  BY StepsFacts DEF StepsByPlace
<1>5. CASE pc \in {"idle", "update", "roots", "convert"}
  <2>1. StepsLeft \in {all + 4, all + 3, 1, 0}
    BY <1>5, StepsFacts DEF StepsByPlace
  <2> HIDE DEF all
  <2> QED
    BY <2>1, <1>4
<1>6. CASE pc \in {"sweep", "visit"}
  <2>1. rest \in Nat
    BY <1>2, <1>6, StepsFacts DEF StepsByPlace
  <2>2. \/ StepsLeft = rest + 2
        \/ index \in 0 .. n /\ StepsLeft = rest + (n - index) + 3
    BY <1>6, StepsFacts DEF StepsByPlace
  <2> HIDE DEF rest
  <2> QED
    BY <2>1, <2>2, <1>1
<1> QED
  BY <1>3, <1>5, <1>6

\* Each statement but a return leaves less to do.
LEMMA StepsFewer ==
    ASSUME Inv, Inv', Next, pc # "idle", pc' # "idle", subject' # subject + 1
    PROVE  subject' = subject /\ StepsLeft' < StepsLeft
<1> USE DEF Return, Continue
<1>0. StepsByPlace /\ StepsByPlace'
  BY StepsFacts, PTL
<1>1. parent' = parent /\ subject' = subject /\ n' = n
  <2>1. parent' = parent
    BY DEF Next, Replace, Write, Call, Update, FindRoot, Sweep, Skip, BadParent, Attach,
           EndSweep, Convert, listVars
  <2>2. subject' = subject
    BY DEF Next, Replace, Write, Call, Update, FindRoot, Sweep, Skip, BadParent, Attach,
           EndSweep, Convert
  <2> QED
    BY <2>1, <2>2 DEF n
<1>2. n \in Nat /\ n * (n + 2) \in Nat
  BY <1>0 DEF StepsByPlace
<1> DEFINE all == n * (n + 2)
           rest == (n - iterations) * (n + 2)
<1> HIDE DEF n
<1>3. CASE Update
  <2>1. pc = "update" /\ pc' = "roots"
    BY <1>3 DEF Update
  <2>2. StepsLeft = all + 4 /\ StepsLeft' = all + 3
    BY <1>0, <2>1, <1>1 DEF StepsByPlace
  <2> HIDE DEF all
  <2> QED
    BY <2>2, <1>1, <1>2 DEF all
<1>4. CASE FindRoot
  <2>1. pc = "roots" /\ pc' = "sweep" /\ iterations' = 0
    BY <1>4 DEF FindRoot
  <2>2. StepsLeft = all + 3 /\ StepsLeft' = (n - 0) * (n + 2) + 2
    BY <1>0, <2>1, <1>1 DEF StepsByPlace
  <2>3. StepsLeft' = all + 2
    BY <2>2, <1>2
  <2> QED
    BY <2>2, <2>3, <1>1, <1>2
<1>5. CASE Sweep
  <2>1. /\ pc = "sweep" /\ pc' = "visit" /\ ~(iterations + 1 > n)
        /\ iterations' = iterations + 1 /\ index' = 0
    BY <1>5 DEF Sweep
  <2>2. iterations \in 0 .. n /\ StepsLeft = rest + 2
    BY <1>0, <2>1 DEF StepsByPlace
  <2>3. StepsLeft' = (n - (iterations + 1)) * (n + 2) + (n - 0) + 3
    BY <1>0, <2>1, <1>1 DEF StepsByPlace
  <2>4. iterations + 1 \in 0 .. n /\ iterations < n
    BY <2>1, <2>2, <1>2
  <2>5. (n - (iterations + 1)) * (n + 2) \in Nat
    BY <2>4, <1>2, SweepsLeft
  <2>6. rest = (n - (iterations + 1)) * (n + 2) + (n + 2)
    BY <2>2, <2>4, <1>2, SweepsLeft
  <2> DEFINE next == (n - (iterations + 1)) * (n + 2)
  <2> HIDE DEF next, rest
  <2>7. StepsLeft' = next + (n - 0) + 3 /\ StepsLeft = next + (n + 2) + 2 /\ next \in Nat
    BY <2>2, <2>3, <2>5, <2>6 DEF next
  <2> QED
    BY <2>7, <1>1, <1>2
<1>6. CASE Skip \/ Attach
  <2>1. pc = "visit" /\ pc' = "visit" /\ iterations' = iterations /\ index' = index + 1
    BY <1>6 DEF Skip, Attach
  <2>2. /\ iterations \in 0 .. n /\ index \in 0 .. n
        /\ StepsLeft = rest + (n - index) + 3
    BY <1>0, <2>1 DEF StepsByPlace
  <2>3. StepsLeft' = rest + (n - (index + 1)) + 3
    BY <1>0, <2>1, <1>1 DEF StepsByPlace
  <2>4. rest \in Nat
    BY <2>2, <1>2, SweepsLeft
  <2> HIDE DEF rest
  <2> QED
    BY <2>2, <2>3, <2>4, <1>1, <1>2
<1>7. CASE EndSweep
  <2>1. /\ pc = "visit" /\ index = n /\ iterations' = iterations
        /\ pc' \in {"sweep", "convert"}
    BY <1>7 DEF EndSweep
  <2>2. iterations \in 0 .. n /\ StepsLeft = rest + (n - n) + 3
    BY <1>0, <2>1 DEF StepsByPlace
  <2>3. rest \in Nat
    BY <2>2, <1>2, SweepsLeft
  <2>4. StepsLeft' \in {rest + 2, 1}
    BY <1>0, <2>1, <1>1 DEF StepsByPlace
  <2> HIDE DEF rest
  <2> QED
    BY <2>2, <2>3, <2>4, <1>1, <1>2
<1>8. CASE BadParent \/ Convert
  BY <1>1, <1>8, SubjectFacts DEF BadParent, Convert, Inv, TypeOK
<1> QED
  BY <1>3, <1>4, <1>5, <1>6, <1>7, <1>8 DEF Next, Replace, Write, Call

\* No parents make a call of calcMatrices run on: for n transforms it takes no
\* more than n * (n + 2) + 4 of its statements.
THEOREM CallsTerminate == Spec => CallsEnd
<1> DEFINE Advances ==
        pc # "idle" =>
            /\ StepsLeft \in Nat
            /\ \/ pc' = "idle"
               \/ subject' = subject + 1
               \/ subject' = subject /\ StepsLeft' < StepsLeft
<1>1. Init => Inv
  BY TypedInit, CallInvInit DEF Inv
<1>2. Inv /\ [Next]_vars => Inv'
  BY TypedNext, CallInvNext DEF Inv
<1>3. Inv /\ Inv' /\ [Next]_vars => [Advances]_vars
  BY StepsNatural, StepsFewer
<1> QED
  BY <1>1, <1>2, <1>3, PTL DEF Spec, CallsEnd

-----------------------------------------------------------------------------
(* A subject with a matrix that overflowed stays so, and no call succeeds  *)
(* meanwhile.                                                              *)

\* What a step leaves of a subject's matrices alone stays as it was.
LEMMA OverflownFrame ==
    ASSUME NEW s, parent'[s] = parent[s], burst'[s] = burst[s], world'[s] = world[s]
    PROVE  Overflown(s)' <=> Overflown(s)
BY DEF Overflown, Transform, FiniteMatrix

\* The matrix of a root is a single local matrix.
LEMMA RootFinite == ASSUME NEW s, NEW i PROVE FiniteMatrix(Root(s, i))
<1> DEFINE huge == {k \in DOMAIN Root(s, i).product : Root(s, i).product[k][2] \in Huge}
<1>1. Root(s, i).product = <<Local(s, i)>>
  BY DEF Root
<1>2. DOMAIN Root(s, i).product = {1}
  BY <1>1
<1>3. huge \in SUBSET {1}
  BY <1>2
<1>4. Cardinality(huge) <= 1
  <2> HIDE DEF huge
  <2>1. IsFiniteSet({1}) /\ Cardinality({1}) = 1
    BY FS_Singleton
  <2>2. Cardinality(huge) <= Cardinality({1})
    BY <1>3, <2>1, FS_Subset
  <2> QED
    BY <2>1, <2>2
<1> QED
  BY <1>4 DEF FiniteMatrix

\* Converting a matrix leaves its factors alone.
LEMMA ConvertedFinite == ASSUME NEW m PROVE FiniteMatrix(Converted(m)) <=> FiniteMatrix(m)
BY DEF FiniteMatrix, Converted

\* A failed call promises nothing.
LEMMA FailedFinite ==
    ASSUME NEW r, Return(r), r # "ok"
    PROVE  FiniteInv'
BY DEF Return, FiniteInv

\* Nothing is known to be finite before the first call.
LEMMA FiniteInit == Init => FiniteInv
BY DEF Init, FiniteInv

\* Every step of calcMatrices, parse and the application keeps the invariant.
LEMMA FiniteNext == TypeOK /\ FiniteInv /\ [Next]_vars => FiniteInv'
<1> SUFFICES ASSUME TypeOK, FiniteInv, [Next]_vars PROVE FiniteInv'
  OBVIOUS
<1>0. subject \in Subject /\ Subject = 1 .. Len(Shapes) /\ Len(Shapes) \in Nat
  BY SubjectFacts DEF TypeOK
<1>1. ASSUME NEW s \in Subject, NEW p \in Shapes[s], Replace(s, p) PROVE FiniteInv'
  BY <1>1 DEF Replace, FiniteInv
<1>2. ASSUME NEW s \in Subject, NEW i \in Transform(s), NEW v \in Value \cup {NaN}, Write(s, i, v)
      PROVE  FiniteInv'
  BY <1>2 DEF Write, FiniteInv
\* A step that leaves the matrices alone.
<1>3. ASSUME UNCHANGED <<parent, burst, world, result>>, subject' = subject,
             pc' \notin {"idle", "update"}, pc \notin {"idle", "update"}
      PROVE  FiniteInv'
  <2>1. \A s : Overflown(s)' <=> Overflown(s)
    BY <1>3, OverflownFrame
  <2> QED
    BY <2>1, <1>3 DEF FiniteInv
<1>4. ASSUME NEW parsing \in BOOLEAN, NEW c \in BOOLEAN, Call(parsing, c) PROVE FiniteInv'
  <2>1. CASE Return("not finite")
    BY <2>1, FailedFinite
  <2>2. CASE Continue("update", 1, 0, 0, TRUE)
    <3>1. \A s : Overflown(s)' <=> Overflown(s)
      BY <1>4, OverflownFrame DEF Call, listVars
    <3>2. 1 .. (1 - 1) = {}
      OBVIOUS
    <3> QED
      BY <3>1, <3>2, <2>2 DEF Continue, FiniteInv
  <2> QED
    BY <1>4, <2>1, <2>2 DEF Call
<1>5. CASE Update
  <2> DEFINE stops   == {i \in Transform(subject) :
                            ~Finite(subject, i) \/ value[subject][i] \in Burst}
             updated == {i \in Transform(subject) :
                            Finite(subject, i) /\ \A k \in stops : i <= k}
             B       == [i \in Transform(subject) |->
                            burst[subject][i] \/ (i \in updated /\ value[subject][i] \in Burst)]
  <2>1. /\ pc = "update" /\ burst' = [burst EXCEPT ![subject] = B]
        /\ IF stops # {} THEN Return("not finite") ELSE Continue("roots", subject, 0, 0, TRUE)
        /\ UNCHANGED <<listVars, world>>
    BY <1>5 DEF Update
  <2>2. CASE stops # {}
    BY <2>1, <2>2, FailedFinite
  <2>3. CASE stops = {}
    <3>1. \A i \in Transform(subject) : ~B[i] /\ FiniteMatrix(world[subject][i])
      BY <2>3 DEF Finite
    <3> HIDE DEF stops, updated, B
    <3>2. ~Overflown(subject)'
      BY <3>1, <2>1, <2>3, <1>0
         DEF Overflown, Transform, FiniteMatrix, listVars, Continue, TypeOK
    <3>3. \A s \in Subject \ {subject} : Overflown(s)' <=> Overflown(s)
      BY <2>1, <1>0, OverflownFrame DEF listVars, TypeOK
    <3>4. 1 .. (subject - 1) \subseteq Subject \ {subject}
      BY <1>0
    <3> QED
      BY <3>2, <3>3, <3>4, <2>1, <2>3 DEF Continue, FiniteInv
  <2> QED
    BY <2>2, <2>3
\* A step that gives transforms of the subject at hand finite world matrices.
<1>6. ASSUME pc \notin {"idle", "update"}, pc' \notin {"idle", "update"},
             UNCHANGED <<parent, burst, result, subject>>, DOMAIN world' = Subject,
             \A s \in Subject \ {subject} : world'[s] = world[s],
             \A i \in Transform(subject) :
                FiniteMatrix(world[subject][i]) => FiniteMatrix(world'[subject][i])
      PROVE  FiniteInv'
  <2>1. ~Overflown(subject)'
    <3>1. \A i \in Transform(subject) : ~burst[subject][i] /\ FiniteMatrix(world[subject][i])
      BY <1>6 DEF FiniteInv, Overflown
    <3>2. \A i \in Transform(subject) : ~burst'[subject'][i] /\ FiniteMatrix(world'[subject'][i])
      BY <3>1, <1>6
    <3>3. Transform(subject)' = Transform(subject)
      BY <1>6 DEF Transform
    <3> QED
      BY <3>2, <3>3, <1>6 DEF Overflown, FiniteMatrix
  <2>2. \A s \in Subject \ {subject} : Overflown(s)' <=> Overflown(s)
    BY <1>6, OverflownFrame
  <2>3. 1 .. (subject - 1) \subseteq Subject \ {subject}
    BY <1>0
  <2> QED
    BY <2>1, <2>2, <2>3, <1>6 DEF FiniteInv
<1>7. CASE FindRoot
  <2> DEFINE roots == {i \in Transform(subject) : parent[subject][i] = -1}
             W     == [i \in Transform(subject) |->
                          IF i \in roots THEN Root(subject, i) ELSE world[subject][i]]
  <2>1. /\ pc = "roots" /\ world' = [world EXCEPT ![subject] = W]
        /\ UNCHANGED <<listVars, burst>>
        /\ \/ Return("no root") \/ Return("more than one root")
           \/ Continue("sweep", subject, 0, 0, FALSE)
    BY <1>7 DEF FindRoot
  <2>2. \A i \in Transform(subject) : FiniteMatrix(world[subject][i]) => FiniteMatrix(W[i])
    BY RootFinite
  <2> HIDE DEF roots, W
  <2>3. CASE Continue("sweep", subject, 0, 0, FALSE)
    <3>1. /\ DOMAIN world' = Subject /\ world'[subject] = W
          /\ \A s \in Subject \ {subject} : world'[s] = world[s]
      BY <2>1, <1>0 DEF TypeOK
    <3>2. \A i \in Transform(subject) :
             FiniteMatrix(world[subject][i]) => FiniteMatrix(world'[subject][i])
      BY <2>2, <3>1
    <3> QED
      BY <2>1, <2>3, <3>1, <3>2, <1>6 DEF listVars, Continue
  <2> QED
    BY <2>1, <2>3, FailedFinite
<1>8. CASE Attach
  <2> DEFINE m == Times(world[subject][parent[subject][index]], Local(subject, index))
  <2>1. /\ pc = "visit" /\ world' = [world EXCEPT ![subject][index] = m]
        /\ UNCHANGED <<listVars, burst>>
        /\ \/ Return("overflow")
           \/ FiniteMatrix(m) /\ Continue("visit", subject, index + 1, iterations, FALSE)
    BY <1>8 DEF Attach
  <2> HIDE DEF m
  <2>2. CASE FiniteMatrix(m) /\ Continue("visit", subject, index + 1, iterations, FALSE)
    <3>1. /\ DOMAIN world' = Subject
          /\ \A s \in Subject \ {subject} : world'[s] = world[s]
      BY <2>1, <1>0 DEF TypeOK
    <3>2. \A i \in Transform(subject) : world'[subject][i] \in {m, world[subject][i]}
      BY <2>1, <1>0 DEF TypeOK
    <3>3. \A i \in Transform(subject) :
             FiniteMatrix(world[subject][i]) => FiniteMatrix(world'[subject][i])
      BY <3>2, <2>2
    <3> QED
      BY <2>1, <2>2, <3>1, <3>3, <1>6 DEF listVars, Continue
  <2> QED
    BY <2>1, <2>2, FailedFinite
<1>9. CASE Convert
  <2> DEFINE W == [i \in Transform(subject) |-> Converted(world[subject][i])]
  <2>1. /\ pc = "convert" /\ UNCHANGED <<listVars, burst>>
        /\ world' = IF conversion THEN [world EXCEPT ![subject] = W] ELSE world
        /\ IF subject = Len(Shapes) THEN Return("ok")
                                    ELSE Continue("update", subject + 1, 0, 0, TRUE)
    BY <1>9 DEF Convert
  <2>2. \A i \in Transform(subject) : FiniteMatrix(W[i]) <=> FiniteMatrix(world[subject][i])
    BY ConvertedFinite
  <2> HIDE DEF W
  <2>3. /\ \A s \in Subject \ {subject} : world'[s] = world[s]
        /\ \A i \in Transform(subject) :
             FiniteMatrix(world'[subject][i]) <=> FiniteMatrix(world[subject][i])
    BY <2>1, <2>2, <1>0 DEF TypeOK
  <2>4. \A s \in Subject \ {subject} : Overflown(s)' <=> Overflown(s)
    BY <2>1, <2>3, OverflownFrame DEF listVars
  <2>5. ~Overflown(subject) /\ \A s \in 1 .. (subject - 1) : ~Overflown(s)
    BY <2>1 DEF FiniteInv
  <2>6. ASSUME NEW s, s = subject PROVE ~Overflown(s)'
    <3>1. \A i \in Transform(s) : ~burst'[s][i] /\ FiniteMatrix(world'[s][i])
      BY <2>1, <2>3, <2>5, <2>6 DEF Overflown
    <3>2. DOMAIN parent'[s] = Transform(s)
      BY <2>1 DEF Transform, listVars
    <3> QED
      BY <3>1, <3>2 DEF Overflown, Transform, FiniteMatrix
  <2>7. \A s \in 1 .. (subject - 1) \cup {subject} : ~Overflown(s)'
    BY <2>4, <2>5, <2>6, <1>0
  <2> QED
    <3>1. CASE subject = Len(Shapes) /\ Return("ok")
      BY <3>1, <2>7, <1>0 DEF Return, FiniteInv
    <3>2. CASE Continue("update", subject + 1, 0, 0, TRUE)
      <4>1. (result = "ok" => \A s \in Subject : ~Overflown(s))'
        BY <3>2, <2>4, <2>6 DEF Continue, FiniteInv
      <4>2. \A s \in 1 .. (subject' - 1) : s \in 1 .. (subject - 1) \cup {subject}
        BY <3>2, <1>0 DEF Continue
      <4> QED
        BY <3>2, <4>1, <4>2, <2>7 DEF Continue, FiniteInv
    <3> QED
      BY <3>1, <3>2, <2>1
<1>10. CASE Sweep
  BY <1>10, <1>3, FailedFinite DEF Sweep, Continue, listVars
<1>11. CASE Skip
  BY <1>11, <1>3 DEF Skip, Continue, listVars
<1>12. CASE BadParent
  BY <1>12, FailedFinite DEF BadParent
<1>13. CASE EndSweep
  BY <1>13, <1>3 DEF EndSweep, Continue, listVars
<1>14. CASE UNCHANGED vars
  <2>1. \A s : Overflown(s)' <=> Overflown(s)
    BY <1>14, OverflownFrame DEF vars, listVars
  <2> QED
    BY <1>14, <2>1 DEF FiniteInv, vars, locals
<1> QED
  BY <1>1, <1>2, <1>4, <1>5, <1>7, <1>8, <1>9, <1>10, <1>11, <1>12, <1>13, <1>14 DEF Next

\* One step from an overflow: it stays, unless the subject's list is built anew.
LEMMA OverflowStep ==
    ASSUME TypeOK, FiniteInv, [Next]_vars,
           NEW s \in Subject, Overflown(s), \A p \in Shapes[s] : ~Replace(s, p)
    PROVE  Overflown(s)'
<1>0. subject \in Subject
  BY DEF TypeOK
\* It stays where the step leaves the subject's matrices alone.
<1>1. ASSUME parent'[s] = parent[s], burst'[s] = burst[s], world'[s] = world[s]
      PROVE  Overflown(s)'
  BY <1>1, OverflownFrame
\* Past its update, the subject at hand is another one.
<1>2. pc \notin {"idle", "update"} => s # subject
  BY DEF FiniteInv
<1>3. ASSUME NEW r \in Subject, NEW p \in Shapes[r], Replace(r, p) PROVE Overflown(s)'
  <2>1. r # s
    BY <1>3
  <2> QED
    BY <2>1, <1>3, <1>1 DEF Replace, TypeOK
<1>4. ASSUME NEW r \in Subject, NEW i \in Transform(r), NEW v \in Value \cup {NaN}, Write(r, i, v)
      PROVE  Overflown(s)'
  BY <1>4, <1>1 DEF Write
<1>5. ASSUME NEW parsing \in BOOLEAN, NEW c \in BOOLEAN, Call(parsing, c) PROVE Overflown(s)'
  BY <1>5, <1>1 DEF Call, listVars
<1>6. CASE Update
  <2> DEFINE stops   == {i \in Transform(subject) :
                            ~Finite(subject, i) \/ value[subject][i] \in Burst}
             updated == {i \in Transform(subject) :
                            Finite(subject, i) /\ \A k \in stops : i <= k}
             B       == [i \in Transform(subject) |->
                            burst[subject][i] \/ (i \in updated /\ value[subject][i] \in Burst)]
  <2>1. burst' = [burst EXCEPT ![subject] = B] /\ UNCHANGED <<listVars, world>>
    BY <1>6 DEF Update
  <2>2. \A i \in Transform(subject) : burst[subject][i] => B[i]
    OBVIOUS
  <2> HIDE DEF B
  <2>3. \A i \in Transform(s) : burst[s][i] => burst'[s][i]
    BY <2>1, <2>2, <1>0 DEF TypeOK
  <2>4. PICK i \in Transform(s) : burst[s][i] \/ ~FiniteMatrix(world[s][i])
    BY DEF Overflown
  <2>5. i \in DOMAIN parent'[s] /\ (burst'[s][i] \/ ~FiniteMatrix(world'[s][i]))
    BY <2>1, <2>3, <2>4 DEF Transform, listVars
  <2> QED
    BY <2>5 DEF Overflown, Transform, FiniteMatrix
<1>7. CASE FindRoot
  BY <1>7, <1>0, <1>1, <1>2 DEF FindRoot, listVars, TypeOK
<1>8. CASE Attach
  BY <1>8, <1>0, <1>1, <1>2 DEF Attach, listVars, TypeOK
<1>9. CASE Convert
  BY <1>9, <1>0, <1>1, <1>2 DEF Convert, listVars, TypeOK
<1>10. CASE Sweep \/ Skip \/ BadParent \/ EndSweep
  BY <1>10, <1>1 DEF Sweep, Skip, BadParent, EndSweep, listVars
<1>11. CASE UNCHANGED vars
  BY <1>11, <1>1 DEF vars, listVars
<1> QED
  BY <1>3, <1>4, <1>5, <1>6, <1>7, <1>8, <1>9, <1>10, <1>11 DEF Next

\* A matrix that overflowed makes every later call fail, and only a full packet of
\* its subject, which builds the transforms anew, brings the subject back.
THEOREM OverflowStays == Spec => OverflowSticks
<1>1. Init => TypeOK /\ FiniteInv
  BY TypedInit, FiniteInit
<1>2. TypeOK /\ FiniteInv /\ [Next]_vars => (TypeOK /\ FiniteInv)'
  BY TypedNext, FiniteNext
<1>3. ASSUME TypeOK, FiniteInv, FiniteInv', [Next]_vars, NEW s \in Subject, Overflown(s)
      PROVE  /\ result' # "ok"
             /\ Overflown(s)' \/ \E p \in Shapes[s] : Replace(s, p)
  <2>1. CASE \E p \in Shapes[s] : Replace(s, p)
    BY <2>1 DEF Replace
  <2>2. CASE \A p \in Shapes[s] : ~Replace(s, p)
    <3>1. Overflown(s)'
      BY <1>3, <2>2, OverflowStep
    <3> QED
      BY <1>3, <3>1 DEF FiniteInv
  <2> QED
    BY <2>1, <2>2
<1>4. TypeOK /\ FiniteInv /\ FiniteInv' /\ [Next]_vars =>
        [\A s \in Subject : Overflown(s) =>
            /\ result' # "ok"
            /\ Overflown(s)' \/ \E p \in Shapes[s] : Replace(s, p)]_vars
  BY <1>3
<1> QED
  BY <1>1, <1>2, <1>4, PTL DEF Spec, OverflowSticks

-----------------------------------------------------------------------------
(* What the parent lists lead to.                                          *)

\* The way up from i: itself, its parent, the parent's parent.
IsUp(f, p, i, m) == f = [k \in 0 .. m |-> IF k = 0 THEN i ELSE p[f[k - 1]]]

\* A definition by recursion over the steps has a solution.
LEMMA UpExists ==
    ASSUME NEW p, NEW i, NEW m \in Nat
    PROVE  \E f : IsUp(f, p, i, m)
<1> DEFINE T == {j \in Nat : \E f : IsUp(f, p, i, j)}
<1>1. 0 \in T
  <2> DEFINE g == [k \in 0 .. 0 |-> i]
  <2>1. g = [k \in 0 .. 0 |-> IF k = 0 THEN i ELSE p[g[k - 1]]]
    OBVIOUS
  <2> HIDE DEF g
  <2>2. IsUp(g, p, i, 0)
    BY <2>1 DEF IsUp
  <2> QED
    BY <2>2
<1>2. ASSUME NEW j \in Nat, j \in T PROVE j + 1 \in T
  <2>0. PICK f : IsUp(f, p, i, j)
    BY <1>2
  <2>1. f = [k \in 0 .. j |-> IF k = 0 THEN i ELSE p[f[k - 1]]]
    BY <2>0 DEF IsUp
  <2> DEFINE g == [k \in 0 .. j + 1 |-> IF k <= j THEN f[k] ELSE p[f[j]]]
  <2>2. ASSUME NEW k \in 0 .. j + 1 PROVE g[k] = IF k = 0 THEN i ELSE p[g[k - 1]]
    <3>1. CASE k = 0
      BY <2>1, <3>1
    <3>2. CASE k # 0 /\ k <= j
      <4>1. k \in 0 .. j /\ k - 1 \in 0 .. j + 1 /\ k - 1 <= j
        BY <3>2, <2>2
      <4>2. f[k] = p[f[k - 1]]
        BY <4>1, <3>2, <2>1
      <4> QED
        BY <4>1, <4>2, <3>2
    <3>3. CASE k = j + 1
      <4>1. k - 1 = j /\ j \in 0 .. j + 1 /\ ~(k <= j) /\ k # 0
        BY <3>3
      <4> QED
        BY <4>1
    <3> QED
      BY <3>1, <3>2, <3>3
  <2> HIDE DEF g
  <2>3. DOMAIN g = 0 .. j + 1 /\ g = [k \in 0 .. j + 1 |-> g[k]]
    BY DEF g
  <2>4. g = [k \in 0 .. j + 1 |-> IF k = 0 THEN i ELSE p[g[k - 1]]]
    BY <2>2, <2>3
  <2>5. IsUp(g, p, i, j + 1)
    BY <2>4 DEF IsUp
  <2> QED
    BY <2>5
<1> HIDE DEF T
<1>3. Nat \subseteq T
  BY <1>1, <1>2, SetInduction
<1> QED
  BY <1>3 DEF T

\* K are transforms of the parent list p with a product in P each, which follows
\* from the parent's.
Chained(p, K, P, leaf) ==
    /\ \A i \in K : Len(P[i]) \in Nat /\ Len(P[i]) >= 1
    /\ \A i \in K : p[i] = -1 => Len(P[i]) = 1
    /\ \A i \in K : p[i] # -1 => p[i] \in K /\ Len(P[i]) = Len(P[p[i]]) + 1
    /\ \A i \in K : p[i] # -1 => \A j \in 1 .. Len(P[p[i]]) : P[i][j] = P[p[i]][j]
    /\ \A i \in K : P[i][Len(P[i])] = leaf[i]

\* Going up from i.
Climbs(p, i, up, m) ==
    /\ DOMAIN up = 0 .. m /\ up[0] = i
    /\ \A k \in 0 .. m : k # 0 => up[k] = p[up[k - 1]]

\* What i has from the k-th above it.
FromAbove(K, P, leaf, i, up, k) ==
    /\ up[k] \in K
    /\ Len(P[up[k]]) = Len(P[i]) - k
    /\ \A j \in 1 .. Len(P[i]) - k : P[i][j] = P[up[k]][j]

\* Going up, each product is the front of the one before it.
LEMMA Climbing ==
    ASSUME NEW p, NEW K, NEW P, NEW leaf, Chained(p, K, P, leaf), NEW i \in K,
           NEW m \in Nat, NEW up, Climbs(p, i, up, m)
    PROVE  \A k \in 0 .. m : k < Len(P[i]) => FromAbove(K, P, leaf, i, up, k)
<1> DEFINE l(j) == Len(P[j])
<1>0. /\ \A j \in K : l(j) \in Nat /\ l(j) >= 1
      /\ \A j \in K : p[j] = -1 => l(j) = 1
      /\ \A j \in K : p[j] # -1 => p[j] \in K /\ l(j) = l(p[j]) + 1
      /\ \A j \in K : p[j] # -1 => \A k \in 1 .. l(p[j]) : P[j][k] = P[p[j]][k]
  BY DEF Chained
<1>u. up[0] = i /\ \A k \in 0 .. m : k # 0 => up[k] = p[up[k - 1]]
  BY DEF Climbs
<1> DEFINE Q(k) == /\ up[k] \in K
                   /\ l(up[k]) = l(i) - k
                   /\ \A j \in 1 .. l(i) - k : P[i][j] = P[up[k]][j]
           T == {k \in Nat : k <= m /\ k < l(i) => Q(k)}
<1> HIDE DEF l
<1>1. 0 \in T
  <2>1. l(i) - 0 = l(i)
    BY <1>0
  <2> QED
    BY <2>1, <1>u
<1>2. ASSUME NEW k \in Nat, k \in T PROVE k + 1 \in T
  <2> SUFFICES ASSUME k + 1 <= m, k + 1 < l(i) PROVE Q(k + 1)
    BY <1>2
  <2>1. k <= m /\ k < l(i) /\ k \in 0 .. m /\ k + 1 \in 0 .. m /\ k + 1 # 0 /\ (k + 1) - 1 = k
        /\ l(i) \in Nat
    BY <1>0
  <2>2. Q(k)
    BY <2>1, <1>2
  <2>3. up[k] \in K /\ l(up[k]) = l(i) - k
    BY <2>2
  <2>4. l(up[k]) # 1
    BY <2>1, <2>3
  <2>5. p[up[k]] # -1
    BY <2>3, <2>4, <1>0
  <2>6. up[k + 1] = p[up[k]]
    BY <2>1, <1>u
  <2>7. up[k + 1] \in K /\ l(up[k]) = l(up[k + 1]) + 1 /\ l(up[k + 1]) \in Nat
    BY <2>3, <2>5, <2>6, <1>0
  <2>8. l(up[k + 1]) = l(i) - (k + 1)
    BY <2>1, <2>3, <2>7
  <2>9. ASSUME NEW j \in 1 .. l(i) - (k + 1) PROVE P[i][j] = P[up[k + 1]][j]
    <3>1. j \in 1 .. l(i) - k /\ j \in 1 .. l(p[up[k]])
      BY <2>1, <2>6, <2>8, <2>9
    <3>2. P[i][j] = P[up[k]][j]
      BY <3>1, <2>2
    <3>3. P[up[k]][j] = P[p[up[k]]][j]
      BY <3>1, <2>3, <2>5, <1>0
    <3> QED
      BY <3>2, <3>3, <2>6
  <2> QED
    BY <2>7, <2>8, <2>9
<1> HIDE DEF T
<1>3. Nat \subseteq T
  BY <1>1, <1>2, SetInduction
<1> QED
  BY <1>3 DEF T, FromAbove, l

\* There are no more above i than transforms.
LEMMA PathShort ==
    ASSUME NEW p, NEW K, NEW P, NEW leaf, Chained(p, K, P, leaf), NEW i \in K,
           IsFiniteSet(K)
    PROVE  Len(P[i]) <= Cardinality(K)
<1> DEFINE d == Len(P[i]) - 1
<1>1. Len(P[i]) \in Nat /\ Len(P[i]) >= 1 /\ d \in Nat /\ Len(P[i]) = d + 1
  BY DEF Chained
<1> HIDE DEF d
<1>2. PICK up : IsUp(up, p, i, d)
  BY <1>1, UpExists
<1>3. Climbs(p, i, up, d)
  BY <1>1, <1>2 DEF IsUp, Climbs
<1>4. \A k \in 0 .. d : FromAbove(K, P, leaf, i, up, k)
  <2>1. \A k \in 0 .. d : k < Len(P[i])
    BY <1>1
  <2> QED
    BY <2>1, <1>1, <1>3, Climbing
<1>5. up \in Injection(0 .. d, K)
  <2>1. up \in [0 .. d -> K]
    BY <1>2, <1>4 DEF IsUp, FromAbove
  <2>2. ASSUME NEW j \in 0 .. d, NEW k \in 0 .. d, up[j] = up[k] PROVE j = k
    <3>1. Len(P[up[j]]) = Len(P[i]) - j /\ Len(P[up[k]]) = Len(P[i]) - k
      BY <1>4 DEF FromAbove
    <3>2. Len(P[i]) - j = Len(P[i]) - k
      BY <3>1, <2>2
    <3> QED
      BY <3>2, <1>1
  <2> QED
    BY <2>1, <2>2 DEF Injection, IsInjective
<1>6. Cardinality(0 .. d) <= Cardinality(K)
  BY <1>5, FS_Injection
<1>7. Cardinality(0 .. d) = d + 1
  BY <1>1, FS_Interval
<1> QED
  BY <1>1, <1>6, <1>7

\* How far up the first root is.
FirstRoot(p, up, m) ==
    CHOOSE k \in 0 .. m : p[up[k]] = -1 /\ \A j \in 0 .. (k - 1) : p[up[j]] # -1

\* The way from i up to the root, and the product along it.
LEMMA PathFound ==
    ASSUME NEW p, NEW K, NEW P, NEW leaf, Chained(p, K, P, leaf), NEW i \in K,
           NEW m \in Nat, Len(P[i]) <= m, NEW up, Climbs(p, i, up, m)
    PROVE  /\ Len(P[i]) - 1 = FirstRoot(p, up, m)
           /\ \A k \in 1 .. Len(P[i]) : P[i][k] = leaf[up[Len(P[i]) - k]]
<1> DEFINE l(j) == Len(P[j])
           d == l(i) - 1
           First(k) == p[up[k]] = -1 /\ \A j \in 0 .. (k - 1) : p[up[j]] # -1
<1>0. /\ \A j \in K : l(j) \in Nat /\ l(j) >= 1
      /\ \A j \in K : p[j] = -1 => l(j) = 1
      /\ \A j \in K : p[j] # -1 => p[j] \in K /\ l(j) = l(p[j]) + 1
      /\ \A j \in K : P[j][l(j)] = leaf[j]
  BY DEF Chained
<1>1. \A k \in 0 .. m : k < l(i) => FromAbove(K, P, leaf, i, up, k)
  BY Climbing
<1>2. l(i) \in Nat /\ l(i) >= 1 /\ l(i) <= m /\ d \in 0 .. m /\ d \in Nat
  BY <1>0
<1>3. \A k \in 0 .. d : k \in 0 .. m /\ k < l(i)
  BY <1>2
<1>4. \A k \in 0 .. d : up[k] \in K /\ l(up[k]) = l(i) - k
  BY <1>1, <1>3 DEF FromAbove
<1> HIDE DEF l
<1>5. First(d)
  <2>1. p[up[d]] = -1
    <3>1. up[d] \in K /\ l(up[d]) = 1
      <4>1. d \in 0 .. d /\ l(i) - d = 1
        BY <1>2
      <4> QED
        BY <4>1, <1>4
    <3> SUFFICES ASSUME p[up[d]] # -1 PROVE FALSE
      OBVIOUS
    <3>2. p[up[d]] \in K /\ l(up[d]) = l(p[up[d]]) + 1
      BY <3>1, <1>0
    <3>3. l(p[up[d]]) \in Nat /\ l(p[up[d]]) >= 1
      BY <3>2, <1>0
    <3> QED
      BY <3>1, <3>2, <3>3
  <2>2. ASSUME NEW k \in 0 .. (d - 1) PROVE p[up[k]] # -1
    <3>1. k \in 0 .. d /\ l(i) - k # 1
      BY <1>2, <2>2
    <3>2. up[k] \in K /\ l(up[k]) # 1
      BY <3>1, <1>4
    <3> QED
      BY <3>2, <1>0
  <2> QED
    BY <2>1, <2>2
<1>6. ASSUME NEW k \in 0 .. m, First(k) PROVE k = d
  <2>1. CASE k < d
    <3>1. k \in 0 .. (d - 1)
      BY <1>2, <2>1
    <3> QED
      BY <3>1, <1>5, <1>6
  <2>2. CASE k > d
    <3>1. d \in 0 .. (k - 1)
      BY <1>2, <2>2
    <3> QED
      BY <3>1, <1>5, <1>6
  <2> QED
    BY <2>1, <2>2, <1>2
<1> HIDE DEF First, d
<1>7. d = CHOOSE k \in 0 .. m : First(k)
  <2>1. \E k \in 0 .. m : First(k)
    BY <1>2, <1>5
  <2> DEFINE c == CHOOSE k \in 0 .. m : First(k)
  <2>2. c \in 0 .. m /\ First(c)
    BY <2>1, Zenon
  <2> HIDE DEF c
  <2>3. c = d
    BY <2>2, <1>6
  <2> QED
    BY <2>3 DEF c
<1>8. ASSUME NEW k \in 1 .. l(i) PROVE P[i][k] = leaf[up[l(i) - k]]
  <2> DEFINE a == l(i) - k
  <2>1. a \in 0 .. m /\ a < l(i) /\ l(i) - a = k /\ k \in 1 .. l(i) - a
    BY <1>2, <1>8
  <2> HIDE DEF a
  <2>2. FromAbove(K, P, leaf, i, up, a)
    BY <2>1, <1>1
  <2>3. up[a] \in K /\ l(up[a]) = l(i) - a /\ \A j \in 1 .. l(i) - a : P[i][j] = P[up[a]][j]
    BY <2>2 DEF FromAbove, l
  <2>4. P[i][k] = P[up[a]][k] /\ l(up[a]) = k
    BY <2>1, <2>3
  <2>5. P[up[a]][l(up[a])] = leaf[up[a]]
    BY <2>3, <1>0
  <2> QED
    BY <2>4, <2>5 DEF a
<1> QED
  BY <1>7, <1>8 DEF First, FirstRoot, d, l

\* The transforms the roots of p lead to.
IsReach(f, p, m) ==
    f = [k \in 0 .. m |-> IF k = 0 THEN {i \in DOMAIN p : p[i] = -1}
                          ELSE f[k - 1] \cup {i \in DOMAIN p : p[i] \in f[k - 1]}]

\* So has the one over the generations.
LEMMA ReachExists ==
    ASSUME NEW p, NEW m \in Nat
    PROVE  \E f : IsReach(f, p, m)
<1> DEFINE roots == {i \in DOMAIN p : p[i] = -1}
           Below(X) == X \cup {i \in DOMAIN p : p[i] \in X}
           T == {j \in Nat : \E f : IsReach(f, p, j)}
<1>1. 0 \in T
  <2> DEFINE g == [k \in 0 .. 0 |-> roots]
  <2>1. g = [k \in 0 .. 0 |-> IF k = 0 THEN roots ELSE Below(g[k - 1])]
    OBVIOUS
  <2> HIDE DEF g
  <2>2. IsReach(g, p, 0)
    BY <2>1 DEF IsReach
  <2> QED
    BY <2>2
<1>2. ASSUME NEW j \in Nat, j \in T PROVE j + 1 \in T
  <2>0. PICK f : IsReach(f, p, j)
    BY <1>2
  <2> HIDE DEF roots, Below
  <2>1. f = [k \in 0 .. j |-> IF k = 0 THEN roots ELSE Below(f[k - 1])]
    BY <2>0 DEF IsReach, roots, Below
  <2> DEFINE g == [k \in 0 .. j + 1 |-> IF k <= j THEN f[k] ELSE Below(f[j])]
  <2>2. ASSUME NEW k \in 0 .. j + 1 PROVE g[k] = IF k = 0 THEN roots ELSE Below(g[k - 1])
    <3>1. CASE k = 0
      BY <2>1, <3>1
    <3>2. CASE k # 0 /\ k <= j
      <4>1. k \in 0 .. j /\ k - 1 \in 0 .. j + 1 /\ k - 1 <= j
        BY <3>2, <2>2
      <4>2. f[k] = Below(f[k - 1])
        BY <4>1, <3>2, <2>1
      <4> QED
        BY <4>1, <4>2, <3>2
    <3>3. CASE k = j + 1
      <4>1. k - 1 = j /\ j \in 0 .. j + 1 /\ ~(k <= j) /\ k # 0
        BY <3>3
      <4> QED
        BY <4>1
    <3> QED
      BY <3>1, <3>2, <3>3
  <2> HIDE DEF g
  <2>3. DOMAIN g = 0 .. j + 1 /\ g = [k \in 0 .. j + 1 |-> g[k]]
    BY DEF g
  <2>4. g = [k \in 0 .. j + 1 |-> IF k = 0 THEN roots ELSE Below(g[k - 1])]
    BY <2>2, <2>3
  <2>5. IsReach(g, p, j + 1)
    BY <2>4 DEF IsReach, roots, Below
  <2> QED
    BY <2>5
<1> HIDE DEF T
<1>3. Nat \subseteq T
  BY <1>1, <1>2, SetInduction
<1> QED
  BY <1>3 DEF T

\* They are those that have a product, if its parts are all there.
LEMMA ReachedAll ==
    ASSUME NEW p, NEW K, NEW P, NEW leaf, Chained(p, K, P, leaf), K \subseteq DOMAIN p,
           \A i \in DOMAIN p : p[i] = -1 \/ p[i] \in K => i \in K,
           NEW m \in Nat, \A i \in K : Len(P[i]) <= m,
           NEW reach, IsReach(reach, p, m)
    PROVE  reach[m] = K
<1> DEFINE none == {i \in DOMAIN p : p[i] = -1}
           Below(X) == {i \in DOMAIN p : p[i] \in X}
<1>r. reach[0] = none /\ \A k \in 0 .. m : k # 0 => reach[k] = reach[k - 1] \cup Below(reach[k - 1])
  <2>1. reach = [k \in 0 .. m |-> IF k = 0 THEN none ELSE reach[k - 1] \cup Below(reach[k - 1])]
    BY DEF IsReach
  <2>2. 0 \in 0 .. m
    OBVIOUS
  <2> HIDE DEF none, Below
  <2> QED
    BY <2>1, <2>2
<1>1. reach[m] \subseteq K
  <2> DEFINE T == {k \in Nat : k <= m => reach[k] \subseteq K}
  <2>1. 0 \in T
    BY <1>r
  <2>2. ASSUME NEW k \in Nat, k \in T PROVE k + 1 \in T
    <3> SUFFICES ASSUME k + 1 <= m PROVE reach[k + 1] \subseteq K
      OBVIOUS
    <3>1. k <= m /\ k + 1 \in 0 .. m /\ k + 1 # 0 /\ (k + 1) - 1 = k
      OBVIOUS
    <3>2. reach[k] \subseteq K /\ reach[k + 1] = reach[k] \cup {i \in DOMAIN p : p[i] \in reach[k]}
      BY <3>1, <2>2, <1>r
    <3> QED
      BY <3>2
  <2> HIDE DEF T
  <2>3. Nat \subseteq T
    BY <2>1, <2>2, SetInduction
  <2> QED
    BY <2>3 DEF T
<1> DEFINE l(j) == Len(P[j])
<1>2. /\ \A j \in K : l(j) \in Nat /\ l(j) >= 1 /\ l(j) <= m
      /\ \A j \in K : p[j] = -1 => l(j) = 1
      /\ \A j \in K : p[j] # -1 => p[j] \in K /\ l(j) = l(p[j]) + 1
  BY DEF Chained
<1> HIDE DEF l
<1>3. ASSUME NEW i \in K PROVE i \in reach[m]
  <2> DEFINE T == {k \in Nat : k <= m => \A j \in K : l(j) <= k + 1 => j \in reach[k]}
  <2>1. 0 \in T
    <3> SUFFICES ASSUME NEW j \in K, l(j) <= 0 + 1 PROVE j \in reach[0]
      OBVIOUS
    <3>1. p[j] = -1
      <4> SUFFICES ASSUME p[j] # -1 PROVE FALSE
        OBVIOUS
      <4>1. p[j] \in K /\ l(j) = l(p[j]) + 1 /\ l(j) \in Nat
        BY <1>2
      <4>2. l(p[j]) \in Nat /\ l(p[j]) >= 1
        BY <4>1, <1>2
      <4> QED
        BY <4>1, <4>2
    <3> QED
      BY <3>1, <1>r
  <2>2. ASSUME NEW k \in Nat, k \in T PROVE k + 1 \in T
    <3> SUFFICES ASSUME k + 1 <= m, NEW j \in K, l(j) <= (k + 1) + 1 PROVE j \in reach[k + 1]
      OBVIOUS
    <3>1. k <= m /\ k + 1 \in 0 .. m /\ k + 1 # 0 /\ (k + 1) - 1 = k
      OBVIOUS
    <3>2. /\ \A h \in K : l(h) <= k + 1 => h \in reach[k]
          /\ reach[k + 1] = reach[k] \cup {h \in DOMAIN p : p[h] \in reach[k]}
      BY <3>1, <2>2, <1>r
    <3>3. CASE p[j] = -1
      <4>1. l(j) <= k + 1
        BY <3>3, <1>2
      <4> QED
        BY <4>1, <3>2
    <3>4. CASE p[j] # -1
      <4>1. p[j] \in K /\ l(j) = l(p[j]) + 1 /\ l(p[j]) \in Nat
        BY <3>4, <1>2
      <4>2. l(p[j]) <= k + 1
        BY <4>1
      <4> QED
        BY <4>1, <4>2, <3>2
    <3> QED
      BY <3>3, <3>4
  <2> HIDE DEF T
  <2>3. Nat \subseteq T
    BY <2>1, <2>2, SetInduction
  <2>4. l(i) <= m + 1
    BY <1>2, <1>3
  <2> QED
    BY <2>3, <2>4 DEF T
<1> QED
  BY <1>1, <1>3

-----------------------------------------------------------------------------
\* World matrices are products of local ones.
Matrices    == [product : Seq(Int \X (Value \cup {NaN})), converted : 0 .. MaxConversions]
WorldsTyped == \A s \in Subject : \A i \in Transform(s) : world[s][i] \in Matrices

\* What the operations on matrices return.
LEMMA MatrixFacts ==
    /\ Identity \in Matrices
    /\ \A l \in Int \X (Value \cup {NaN}) : [product |-> <<l>>, converted |-> 0] \in Matrices
    /\ \A m \in Matrices, l \in Int \X (Value \cup {NaN}) : Times(m, l) \in Matrices
    /\ \A m \in Matrices : Converted(m) \in Matrices
<1> DEFINE S == Int \X (Value \cup {NaN})
<1> HIDE DEF S
<1>1. Identity \in [product : Seq(S), converted : 0 .. 2]
  BY DEF Identity
<1>2. ASSUME NEW l \in S PROVE [product |-> <<l>>, converted |-> 0] \in [product : Seq(S), converted : 0 .. 2]
  OBVIOUS
<1>3. ASSUME NEW m \in [product : Seq(S), converted : 0 .. 2], NEW l \in S
      PROVE  Times(m, l) \in [product : Seq(S), converted : 0 .. 2]
  BY DEF Times
<1>4. ASSUME NEW m \in [product : Seq(S), converted : 0 .. 2]
      PROVE  Converted(m) \in [product : Seq(S), converted : 0 .. 2]
  BY DEF Converted, MaxConversions
<1> QED
  BY <1>1, <1>2, <1>3, <1>4 DEF Matrices, MaxConversions, S

\* Initially they are identities.
LEMMA WorldsTypedInit == Init => WorldsTyped
BY MatrixFacts DEF Init, WorldsTyped, Transform

\* Every step leaves them so.
LEMMA WorldsTypedNext == TypeOK /\ WorldsTyped /\ [Next]_vars => WorldsTyped'
<1> SUFFICES ASSUME TypeOK, WorldsTyped, [Next]_vars PROVE WorldsTyped'
  OBVIOUS
<1>0. subject \in Subject
  BY DEF TypeOK
<1>l. \A s \in Subject : \A i \in Transform(s) : Local(s, i) \in Int \X (Value \cup {NaN})
  <2> SUFFICES ASSUME NEW s \in Subject, NEW i \in Transform(s)
               PROVE  i \in Int /\ value[s][i] \in Value \cup {NaN}
    BY DEF Local
  <2>1. Size(parent[s]) \in Nat /\ DOMAIN parent[s] = 0 .. (Size(parent[s]) - 1)
    BY ShapeFacts DEF TypeOK
  <2> QED
    BY <2>1 DEF TypeOK, Transform
<1>f. ASSUME UNCHANGED <<parent, world>> PROVE WorldsTyped'
  BY <1>f DEF WorldsTyped, Transform
\* The matrices of one subject are put in place.
<1>w. ASSUME NEW s \in Subject, UNCHANGED parent, NEW f, world' = [world EXCEPT ![s] = f],
             \A i \in Transform(s) : f[i] \in Matrices
      PROVE  WorldsTyped'
  BY <1>w DEF WorldsTyped, Transform, TypeOK
<1>1. ASSUME NEW s \in Subject, NEW p \in Shapes[s], Replace(s, p) PROVE WorldsTyped'
  <2>1. /\ parent' = [parent EXCEPT ![s] = p]
        /\ world' = [world EXCEPT ![s] = [i \in DOMAIN p |-> Identity]]
    BY <1>1 DEF Replace
  <2> SUFFICES ASSUME NEW r \in Subject, NEW i \in DOMAIN parent'[r] PROVE world'[r][i] \in Matrices
    BY DEF WorldsTyped, Transform
  <2>2. CASE r = s
    BY <2>1, <2>2, MatrixFacts DEF TypeOK
  <2>3. CASE r # s
    <3>1. i \in Transform(r) /\ world'[r][i] = world[r][i]
      BY <2>1, <2>3 DEF TypeOK, Transform
    <3> QED
      BY <3>1 DEF WorldsTyped
  <2> QED
    BY <2>2, <2>3
<1>2. ASSUME NEW s \in Subject, NEW i \in Transform(s), NEW v \in Value \cup {NaN}, Write(s, i, v)
      PROVE  WorldsTyped'
  BY <1>2, <1>f DEF Write
<1>3. ASSUME NEW parsing \in BOOLEAN, NEW c \in BOOLEAN, Call(parsing, c) PROVE WorldsTyped'
  BY <1>3, <1>f DEF Call, listVars
<1>4. CASE Update \/ Sweep \/ Skip \/ BadParent \/ EndSweep
  BY <1>4, <1>f DEF Update, Sweep, Skip, BadParent, EndSweep, listVars
<1>5. CASE FindRoot
  <2> DEFINE roots == {i \in Transform(subject) : parent[subject][i] = -1}
             f == [i \in Transform(subject) |->
                      IF i \in roots THEN Root(subject, i) ELSE world[subject][i]]
  <2>1. UNCHANGED parent /\ world' = [world EXCEPT ![subject] = f]
    BY <1>5 DEF FindRoot, listVars
  <2>2. ASSUME NEW i \in Transform(subject) PROVE f[i] \in Matrices
    <3>1. Root(subject, i) \in Matrices
      BY <1>0, <1>l, MatrixFacts DEF Root
    <3>2. world[subject][i] \in Matrices
      BY <1>0 DEF WorldsTyped
    <3> QED
      BY <3>1, <3>2
  <2> HIDE DEF f
  <2> QED
    BY <2>1, <2>2, <1>0, <1>w
<1>6. CASE Attach
  <2> DEFINE p == parent[subject][index]
             m == Times(world[subject][p], Local(subject, index))
             f == [world[subject] EXCEPT ![index] = m]
  <2>1. UNCHANGED parent /\ world' = [world EXCEPT ![subject] = f]
    BY <1>6 DEF Attach, listVars
  <2>2. p \in Transform(subject) /\ index \in Transform(subject)
    <3>1. p \in 0 .. (n - 1) /\ pc = "visit" /\ index < n
      BY <1>6 DEF Attach
    <3>2. index \in 0 .. n
      BY <3>1 DEF TypeOK
    <3>3. n \in Nat /\ Transform(subject) = 0 .. (n - 1)
      BY SizeFacts
    <3> QED
      BY <3>1, <3>2, <3>3
  <2>3. m \in Matrices
    <3>1. world[subject][p] \in Matrices /\ Local(subject, index) \in Int \X (Value \cup {NaN})
      BY <2>2, <1>0, <1>l DEF WorldsTyped
    <3> QED
      BY <3>1, MatrixFacts
  <2> HIDE DEF m
  <2>4. \A i \in Transform(subject) : f[i] \in Matrices
    BY <2>3, <1>0 DEF WorldsTyped, TypeOK
  <2> HIDE DEF f
  <2> QED
    BY <2>1, <2>4, <1>0, <1>w
<1>7. CASE Convert
  <2> DEFINE f == [i \in Transform(subject) |-> Converted(world[subject][i])]
  <2>1. UNCHANGED parent /\ world' \in {world, [world EXCEPT ![subject] = f]}
    BY <1>7 DEF Convert, listVars
  <2>2. \A i \in Transform(subject) : f[i] \in Matrices
    BY <1>0, MatrixFacts DEF WorldsTyped
  <2> HIDE DEF f
  <2> QED
    BY <2>1, <2>2, <1>0, <1>f, <1>w
<1>8. CASE UNCHANGED vars
  BY <1>8, <1>f DEF vars, listVars
<1> QED
  BY <1>1, <1>2, <1>3, <1>4, <1>5, <1>6, <1>7, <1>8 DEF Next

\* What the subject's hierarchy defines is what it leads to.
LEMMA SettledRight ==
    ASSUME TypeOK, WorldsTyped, NEW s \in Subject, \A i \in Transform(s) : Settled(s, i)
    PROVE  \A i \in Transform(s) :
              /\ known[s][i] <=> i \in Reached(parent[s])
              /\ known[s][i] =>
                   world[s][i] = [product   |-> PathProduct(s, i),
                                  converted |-> IF conversion THEN 1 ELSE 0]
<1> DEFINE p == parent[s]
           D == Transform(s)
           m == Size(p)
           K == {i \in D : known[s][i]}
           P == [i \in D |-> world[s][i].product]
           leaf == [i \in D |-> Local(s, i)]
           A == Int \X (Value \cup {NaN})
<1>1. /\ m \in Nat /\ D = DOMAIN p /\ D = 0 .. (m - 1) /\ IsFiniteSet(D) /\ Cardinality(D) = m
      /\ \A i \in D : p[i] \in Int
  BY ShapeFacts DEF TypeOK, Transform, Size
<1>2. \A i \in D : P[i] \in Seq(A) /\ world[s][i] = [product |-> P[i], converted |-> world[s][i].converted]
  BY DEF WorldsTyped, Matrices
<1>3. \A i \in K : IF p[i] = -1 THEN P[i] = <<leaf[i]>>
                    ELSE p[i] \in K /\ P[i] = Append(P[p[i]], leaf[i])
  BY DEF Settled
<1>4. \A i \in D \ K : p[i] \in D \ K
  BY DEF Settled
<1>5. \A i \in K : world[s][i].converted = IF conversion THEN 1 ELSE 0
  BY DEF Settled
<1>6. K \subseteq D /\ \A i \in D : leaf[i] \in A
  <2>1. \A i \in D : i \in Int /\ value[s][i] \in Value \cup {NaN}
    BY <1>1 DEF TypeOK
  <2> QED
    BY <2>1 DEF Local
<1>k. \A i \in D : known[s][i] <=> i \in K
  OBVIOUS
<1>d. \A i \in D : leaf[i] = Local(s, i)
  OBVIOUS
<1>P. DOMAIN P = D
  OBVIOUS
<1> HIDE DEF K, P, leaf, A
<1>7. Chained(p, K, P, leaf)
  <2>1. ASSUME NEW i \in K
        PROVE  /\ Len(P[i]) \in Nat /\ Len(P[i]) >= 1
               /\ p[i] = -1 => Len(P[i]) = 1
               /\ p[i] # -1 => p[i] \in K /\ Len(P[i]) = Len(P[p[i]]) + 1
               /\ p[i] # -1 => \A j \in 1 .. Len(P[p[i]]) : P[i][j] = P[p[i]][j]
               /\ P[i][Len(P[i])] = leaf[i]
    <3>1. CASE p[i] = -1
      <4>1. P[i] = <<leaf[i]>>
        BY <3>1, <2>1, <1>3
      <4>2. \A a : Len(<<a>>) = 1 /\ <<a>>[1] = a
        OBVIOUS
      <4>3. Len(P[i]) = 1 /\ P[i][1] = leaf[i]
        BY <4>1, <4>2, Zenon
      <4> QED
        BY <4>3, <3>1
    <3>2. CASE p[i] # -1
      <4>1. p[i] \in K /\ P[i] = Append(P[p[i]], leaf[i])
        BY <3>2, <2>1, <1>3
      <4>2. P[p[i]] \in Seq(A) /\ leaf[i] \in A
        BY <4>1, <2>1, <1>2, <1>6
      <4> DEFINE t == P[p[i]]
                 u == P[i]
                 a == leaf[i]
      <4>3. t \in Seq(A) /\ a \in A /\ u = Append(t, a)
        BY <4>1, <4>2
      <4> HIDE DEF t, u, a
      <4>4. /\ Len(t) \in Nat /\ Len(u) = Len(t) + 1
            /\ \A j \in 1 .. Len(t) : u[j] = t[j]
            /\ u[Len(t) + 1] = a
        BY <4>3
      <4> HIDE <4>3
      <4>5. Len(u) \in Nat /\ Len(u) >= 1 /\ u[Len(u)] = a
        BY <4>4
      <4> QED
        BY <4>1, <4>4, <4>5, <3>2 DEF t, u, a
    <3> QED
      BY <3>1, <3>2
  <2> QED
    BY <2>1 DEF Chained
<1>8. \A i \in K : Len(P[i]) <= m
  <2>1. IsFiniteSet(K) /\ Cardinality(K) <= m
    BY <1>1, <1>6, FS_Subset
  <2>2. Cardinality(K) \in Nat
    BY <2>1, FS_CardinalityType
  <2> SUFFICES ASSUME NEW i \in K PROVE Len(P[i]) <= m
    OBVIOUS
  <2>3. Len(P[i]) <= Cardinality(K)
    BY <1>7, <2>1, PathShort
  <2>4. Len(P[i]) \in Nat
    BY <1>7 DEF Chained
  <2> QED
    BY <2>1, <2>2, <2>3, <2>4, <1>1
<1>9. Reached(p) = K
  <2> DEFINE reach[k \in 0 .. m] ==
                IF k = 0 THEN {i \in DOMAIN p : p[i] = -1}
                ELSE reach[k-1] \cup {i \in DOMAIN p : p[i] \in reach[k-1]}
  <2>1. Reached(p) = reach[m]
    BY DEF Reached
  <2>2. IsReach(CHOOSE f : IsReach(f, p, m), p, m)
    BY <1>1, ReachExists, Zenon
  <2>3. reach = CHOOSE f : IsReach(f, p, m)
    BY DEF IsReach
  <2> HIDE DEF reach
  <2>4. IsReach(reach, p, m)
    BY <2>2, <2>3, Zenon
  <2>6. \A i \in DOMAIN p : p[i] = -1 \/ p[i] \in K => i \in K
    <3> SUFFICES ASSUME NEW i \in D, i \notin K PROVE p[i] # -1 /\ p[i] \notin K
      BY <1>1
    <3>1. p[i] \in D /\ p[i] \notin K
      BY <1>4
    <3> QED
      BY <3>1, <1>1
  <2>7. reach[m] = K
    BY <2>4, <2>6, <1>1, <1>6, <1>7, <1>8, ReachedAll
  <2> QED
    BY <2>1, <2>7
<1>10. ASSUME NEW i \in K PROVE PathProduct(s, i) = P[i]
  <2> DEFINE up[k \in 0 .. m] == IF k = 0 THEN i ELSE p[up[k-1]]
             depth == CHOOSE k \in 0 .. m :
                         p[up[k]] = -1 /\ \A j \in 0 .. (k - 1) : p[up[j]] # -1
  <2>1. PathProduct(s, i) = [k \in 1 .. (depth + 1) |-> Local(s, up[depth + 1 - k])]
    BY DEF PathProduct
  <2>a. IsUp(CHOOSE f : IsUp(f, p, i, m), p, i, m)
    BY <1>1, UpExists, Zenon
  <2>b. up = CHOOSE f : IsUp(f, p, i, m)
    BY DEF IsUp
  <2>c. depth = FirstRoot(p, up, m)
    BY DEF FirstRoot
  <2> HIDE DEF up, depth
  <2>d. IsUp(up, p, i, m)
    BY <2>a, <2>b, Zenon
  <2>3. Climbs(p, i, up, m)
    BY <2>d, <1>1 DEF IsUp, Climbs
  <2> DEFINE l == Len(P[i])
  <2>4. l \in Nat /\ l >= 1 /\ l <= m
    BY <1>7, <1>8, <1>10 DEF Chained
  <2>5. l - 1 = depth /\ \A k \in 1 .. l : P[i][k] = leaf[up[l - k]]
    BY <1>1, <1>7, <1>10, <2>3, <2>4, <2>c, PathFound
  <2>6. \A k \in 1 .. l : up[l - k] \in K
    <3> SUFFICES ASSUME NEW k \in 1 .. l PROVE up[l - k] \in K
      OBVIOUS
    <3>0. \A j \in 0 .. m : j < l => FromAbove(K, P, leaf, i, up, j)
      BY <1>1, <1>7, <1>10, <2>3, Climbing
    <3> HIDE DEF l
    <3>1. l - k \in 0 .. m /\ l - k < l
      BY <2>4, <1>1
    <3> QED
      BY <3>0, <3>1 DEF FromAbove
  <2>7. depth + 1 = l /\ \A k \in 1 .. l : depth + 1 - k = l - k
    BY <2>4, <2>5
  <2> HIDE DEF l
  <2>8. \A k \in 1 .. l : P[i][k] = Local(s, up[depth + 1 - k])
    <3> SUFFICES ASSUME NEW k \in 1 .. l PROVE P[i][k] = Local(s, up[depth + 1 - k])
      OBVIOUS
    <3>1. up[l - k] \in D /\ P[i][k] = leaf[up[l - k]]
      BY <2>5, <2>6, <1>6
    <3> QED
      BY <3>1, <2>7, <1>d
  <2>9. P[i] = [k \in 1 .. l |-> P[i][k]]
    <3>1. P[i] \in Seq(A)
      BY <1>2, <1>6, <1>10
    <3> QED
      BY <3>1 DEF l
  <2> QED
    BY <2>1, <2>7, <2>8, <2>9
<1>11. ASSUME NEW i \in D
       PROVE  /\ known[s][i] <=> i \in Reached(parent[s])
              /\ known[s][i] =>
                   world[s][i] = [product   |-> PathProduct(s, i),
                                  converted |-> IF conversion THEN 1 ELSE 0]
  <2>1. known[s][i] <=> i \in Reached(parent[s])
    BY <1>9, <1>k
  <2>2. ASSUME known[s][i]
        PROVE  world[s][i] = [product   |-> PathProduct(s, i),
                              converted |-> IF conversion THEN 1 ELSE 0]
    <3>1. i \in K
      BY <2>2, <1>k
    <3> QED
      BY <3>1, <1>2, <1>5, <1>10, Zenon
  <2> QED
    BY <2>1, <2>2
<1> QED
  BY <1>11

\* When calcMatrices returns true, the transforms flagged are those a root leads to,
\* each with the product of the local matrices on its path, converted once.
THEOREM WorldsRight == Spec => []RightWorlds
<1>1. Init => TypeOK /\ WorldsTyped
  BY TypedInit, WorldsTypedInit
<1>2. TypeOK /\ WorldsTyped /\ [Next]_vars => (TypeOK /\ WorldsTyped)'
  BY TypedNext, WorldsTypedNext
<1>3. TypeOK /\ WorldsTyped /\ WorldsSettled => RightWorlds
  BY SettledRight DEF WorldsSettled, RightWorlds
<1> QED
  BY <1>1, <1>2, <1>3, Settles, PTL DEF Spec

=============================================================================
