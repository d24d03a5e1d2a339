------------------------------ MODULE Hierarchy ------------------------------
(***************************************************************************)
(* World matrices: Subject::calcMatrices and SubjectList::calcMatrices     *)
(* (src/o3ds/model.cpp), called at the end of SubjectList::parse and by    *)
(* applications.                                                           *)
(*                                                                         *)
(* A subject's transforms name their parents by index, in any order.  The  *)
(* code sweeps the list until a sweep finds nothing to do, giving a world  *)
(* matrix to each transform whose parent has one, then converts every      *)
(* matrix into the receiver's coordinates in place.                        *)
(*                                                                         *)
(* A local matrix is the transform and the value of its components.  A     *)
(* world matrix is a product of local matrices, together with how often it *)
(* was converted: its numbers do not matter, its factors do.               *)
(***************************************************************************)
EXTENDS Integers, Sequences, FiniteSets

CONSTANTS
    Shapes,   \* Shapes[s]: the parent lists, from index 0, the s-th subject may have
    Value,    \* what a transform's components may be when they are finite
    Huge,     \* the values two of which overflow when multiplied
    Burst,    \* the values one of which overflows in the transform's own matrix
    NaN       \* components that are not finite

Subject == DOMAIN Shapes
Size(p) == Cardinality(DOMAIN p)

ASSUME HierarchyAssumption ==
    /\ Subject = 1 .. Len(Shapes) /\ Len(Shapes) \in Nat \ {0}
    /\ \A s \in Subject : Shapes[s] # {} /\ \A p \in Shapes[s] :
          Size(p) \in Nat /\ p \in [0 .. (Size(p) - 1) -> Int]
    /\ Huge \subseteq Value /\ Burst \subseteq Value
    /\ NaN \notin Value

VARIABLES
    \* the SubjectList
    parent,      \* parent[s][i]: mParentId of the i-th transform of subject s
    value,       \* value[s][i]: its components
    burst,       \* burst[s][i]: mMatrix is not finite
    known,       \* known[s][i]: bWorldMatrix
    world,       \* world[s][i]: mWorldMatrix
    \* the call in progress
    pc,          \* where it is; "idle" between calls
    subject,     \* the subject at hand
    index,       \* transformId of the sweep
    iterations,  \* sweeps begun
    done,        \* this sweep has found nothing to do so far
    conversion,  \* a conversion that is not the identity is in force
    result       \* what the last call returned; "none" once the list was edited

listVars == <<parent, value>>
locals == <<subject, index, iterations, done>>
vars == <<listVars, burst, known, world, pc, locals, conversion, result>>

n == Size(parent[subject])
Transform(s) == DOMAIN parent[s]

\* Conversions of a matrix are counted up to two: more than once is wrong.
MaxConversions == 2

Identity == [product |-> <<>>, converted |-> 0]
Local(s, i) == <<i, value[s][i]>>
Root(s, i) == [product |-> <<Local(s, i)>>, converted |-> 0]
Times(matrix, local) ==
    [product |-> Append(matrix.product, local), converted |-> matrix.converted]

\* The product of two huge matrices overflows.
FiniteMatrix(matrix) ==
    Cardinality({k \in DOMAIN matrix.product : matrix.product[k][2] \in Huge}) <= 1

\* Transform::allFinite: the components, and both matrices as they were left.
Finite(s, i) == value[s][i] # NaN /\ ~burst[s][i] /\ FiniteMatrix(world[s][i])

-----------------------------------------------------------------------------
(* Between calls: what parse() and the application write.                  *)

\* Subject::parse: new transforms, none of them with a world matrix.
Replace(s, p) ==
    /\ pc = "idle"
    /\ parent' = [parent EXCEPT ![s] = p]
    /\ \E v \in Value : value' = [value EXCEPT ![s] = [i \in DOMAIN p |-> v]]
    /\ burst' = [burst EXCEPT ![s] = [i \in DOMAIN p |-> FALSE]]
    /\ known' = [known EXCEPT ![s] = [i \in DOMAIN p |-> FALSE]]
    /\ world' = [world EXCEPT ![s] = [i \in DOMAIN p |-> Identity]]
    /\ result' = "none"
    /\ UNCHANGED <<pc, locals, conversion>>

\* Subject::parseUpdate, or the application: new components, finite or not.
Write(s, i, v) ==
    /\ pc = "idle"
    /\ v # value[s][i]
    /\ value' = [value EXCEPT ![s][i] = v]
    /\ result' = "none"
    /\ UNCHANGED <<parent, burst, known, world, pc, locals, conversion>>

-----------------------------------------------------------------------------
(* A call.                                                                 *)

\* A return, which ends the life of the locals, or the next statement.
Return(r) ==
    /\ pc' = "idle" /\ result' = r
    /\ subject' = 1 /\ index' = 0 /\ iterations' = 0 /\ done' = TRUE

Continue(where, s, i, k, d) ==
    /\ pc' = where /\ UNCHANGED result
    /\ subject' = s /\ index' = i /\ iterations' = k /\ done' = d

\* The end of SubjectList::parse: nothing is computed unless every transform of
\* every subject is finite.  parse() has set the conversion from its packet's
\* context; an application that calls calcMatrices() itself goes straight to the
\* subjects, with the conversion of the last packet.
Call(parsing, c) ==
    /\ pc = "idle"
    /\ parsing \/ c = conversion
    /\ conversion' = c
    /\ IF parsing /\ \E s \in Subject : \E i \in Transform(s) : ~Finite(s, i)
       THEN Return("not finite")
       ELSE Continue("update", 1, 0, 0, TRUE)
    /\ UNCHANGED <<listVars, burst, known, world>>

\* Mutant of Update: the world matrices are set back to the identity as well.
UpdateResets ==
    /\ pc = "update"
    /\ LET stops == {i \in Transform(subject) :
                        value[subject][i] = NaN \/ value[subject][i] \in Burst}
           updated == {i \in Transform(subject) : \A k \in stops : i <= k}
       IN  /\ burst' = [burst EXCEPT ![subject] =
                [i \in Transform(subject) |->
                    burst[subject][i] \/ (i \in updated /\ value[subject][i] \in Burst)]]
           /\ known' = [known EXCEPT ![subject] =
                [i \in Transform(subject) |-> i \notin updated /\ known[subject][i]]]
           /\ world' = [world EXCEPT ![subject] =
                [i \in Transform(subject) |->
                    IF i \in updated THEN Identity ELSE world[subject][i]]]
           /\ IF stops # {} THEN Return("not finite")
                            ELSE Continue("roots", subject, 0, 0, TRUE)
    /\ UNCHANGED <<listVars, conversion>>

\* Transform::update on each transform up to the first that was not finite before
\* or is not after it.  It clears the flag and leaves the world matrix as it was.
Update ==
    /\ pc = "update"
    /\ LET stops == {i \in Transform(subject) :
                        ~Finite(subject, i) \/ value[subject][i] \in Burst}
           updated == {i \in Transform(subject) :
                        Finite(subject, i) /\ \A k \in stops : i <= k}
       IN  /\ burst' = [burst EXCEPT ![subject] =
                [i \in Transform(subject) |->
                    burst[subject][i] \/ (i \in updated /\ value[subject][i] \in Burst)]]
           /\ known' = [known EXCEPT ![subject] =
                [i \in Transform(subject) |-> i \notin updated /\ known[subject][i]]]
           /\ IF stops # {} THEN Return("not finite")
                            ELSE Continue("roots", subject, 0, 0, TRUE)
    /\ UNCHANGED <<listVars, world, conversion>>

\* Every root gets its world matrix before the roots are counted.
FindRoot ==
    LET roots == {i \in Transform(subject) : parent[subject][i] = -1}
    IN  /\ pc = "roots"
        /\ known' = [known EXCEPT ![subject] =
                [i \in Transform(subject) |-> i \in roots \/ known[subject][i]]]
        /\ world' = [world EXCEPT ![subject] =
                [i \in Transform(subject) |->
                    IF i \in roots THEN Root(subject, i) ELSE world[subject][i]]]
        /\ IF roots = {} THEN Return("no root")
           ELSE IF \A i, j \in roots : i = j
           THEN Continue("sweep", subject, 0, 0, FALSE)
           ELSE Return("more than one root")
        /\ UNCHANGED <<listVars, burst, conversion>>

\* Mutant of Sweep: a sweep starts with work assumed to be left.
SweepForEver ==
    /\ pc = "sweep"
    /\ IF iterations + 1 > n
       THEN Return("cycle")
       ELSE Continue("visit", subject, 0, iterations + 1, FALSE)
    /\ UNCHANGED <<listVars, burst, known, world, conversion>>

\* Mutant of Sweep: the sweeps are not counted.
SweepUncounted ==
    /\ pc = "sweep"
    /\ IF iterations + 1 > n
       THEN Return("cycle")
       ELSE Continue("visit", subject, 0, iterations, TRUE)
    /\ UNCHANGED <<listVars, burst, known, world, conversion>>

\* The head of the while loop, with the code's check for cycles.
Sweep ==
    /\ pc = "sweep"
    /\ IF iterations + 1 > n
       THEN Return("cycle")
       ELSE Continue("visit", subject, 0, iterations + 1, TRUE)
    /\ UNCHANGED <<listVars, burst, known, world, conversion>>

\* The transform has its matrix already, or its parent has none yet.
Skip ==
    /\ pc = "visit" /\ index < n
    /\ LET p == parent[subject][index]
       IN  known[subject][index] \/ (p # index /\ p \in 0 .. (n - 1) /\ ~known[subject][p])
    /\ Continue("visit", subject, index + 1, iterations, done)
    /\ UNCHANGED <<listVars, burst, known, world, conversion>>

\* The transform is its own parent, or its parent is not in the list.
BadParent ==
    /\ pc = "visit" /\ index < n
    /\ ~known[subject][index]
    /\ LET p == parent[subject][index]
       IN  /\ p = index \/ p \notin 0 .. (n - 1)
           /\ Return(IF p = index THEN "parent is self" ELSE "invalid parent")
    /\ UNCHANGED <<listVars, burst, known, world, conversion>>

\* Mutant of Attach: whether the parent has its matrix is not asked.
AttachEarly ==
    /\ pc = "visit" /\ index < n
    /\ ~known[subject][index]
    /\ LET p == parent[subject][index]
           m == Times(world[subject][p], Local(subject, index))
       IN  /\ p # index /\ p \in 0 .. (n - 1)
           /\ world' = [world EXCEPT ![subject][index] = m]
           /\ known' = [known EXCEPT ![subject][index] = TRUE]
           /\ IF FiniteMatrix(m)
              THEN Continue("visit", subject, index + 1, iterations, FALSE)
              ELSE Return("overflow")
    /\ UNCHANGED <<listVars, burst, conversion>>

\* The parent has its matrix: the transform gets one.
Attach ==
    /\ pc = "visit" /\ index < n
    /\ ~known[subject][index]
    /\ LET p == parent[subject][index]
           m == Times(world[subject][p], Local(subject, index))
       IN  /\ p # index /\ p \in 0 .. (n - 1) /\ known[subject][p]
           /\ world' = [world EXCEPT ![subject][index] = m]
           /\ known' = [known EXCEPT ![subject][index] = TRUE]
           /\ IF FiniteMatrix(m)
              THEN Continue("visit", subject, index + 1, iterations, FALSE)
              ELSE Return("overflow")
    /\ UNCHANGED <<listVars, burst, conversion>>

\* The end of a sweep.
EndSweep ==
    /\ pc = "visit" /\ index = n
    /\ Continue(IF done THEN "convert" ELSE "sweep", subject, 0, iterations, done)
    /\ UNCHANGED <<listVars, burst, known, world, conversion>>

\* convertMatrix on every world matrix, of transforms that got none this time too.
Converted(matrix) ==
    [product   |-> matrix.product,
     converted |-> IF matrix.converted < MaxConversions THEN matrix.converted + 1
                                                        ELSE matrix.converted]

\* Mutant of Convert: each matrix is converted as soon as it is known, and again here.
ConvertTwice ==
    /\ pc = "convert"
    /\ world' = IF conversion
                THEN [world EXCEPT ![subject] =
                        [i \in Transform(subject) |-> Converted(Converted(world[subject][i]))]]
                ELSE world
    /\ IF subject = Len(Shapes)
       THEN Return("ok")
       ELSE Continue("update", subject + 1, 0, 0, TRUE)
    /\ UNCHANGED <<listVars, burst, known, conversion>>

Convert ==
    /\ pc = "convert"
    /\ world' = IF conversion
                THEN [world EXCEPT ![subject] =
                        [i \in Transform(subject) |-> Converted(world[subject][i])]]
                ELSE world
    /\ IF subject = Len(Shapes)
       THEN Return("ok")
       ELSE Continue("update", subject + 1, 0, 0, TRUE)
    /\ UNCHANGED <<listVars, burst, known, conversion>>

-----------------------------------------------------------------------------
Init ==
    /\ parent \in [Subject -> UNION {Shapes[s] : s \in Subject}]
    /\ \A s \in Subject : parent[s] \in Shapes[s]
    /\ \E v \in Value : value = [s \in Subject |-> [i \in DOMAIN parent[s] |-> v]]
    /\ burst = [s \in Subject |-> [i \in DOMAIN parent[s] |-> FALSE]]
    /\ known = [s \in Subject |-> [i \in DOMAIN parent[s] |-> FALSE]]
    /\ world = [s \in Subject |-> [i \in DOMAIN parent[s] |-> Identity]]
    /\ pc = "idle" /\ subject = 1 /\ index = 0 /\ iterations = 0
    /\ done = TRUE /\ conversion = FALSE /\ result = "none"

Next ==
    \/ \E s \in Subject :
        \/ \E p \in Shapes[s] : Replace(s, p)
        \/ \E i \in Transform(s), v \in Value \cup {NaN} : Write(s, i, v)
    \/ \E parsing, c \in BOOLEAN : Call(parsing, c)
    \/ Update
    \/ FindRoot
    \/ Sweep
    \/ Skip
    \/ BadParent
    \/ Attach
    \/ EndSweep
    \/ Convert

Spec == Init /\ [][Next]_vars

-----------------------------------------------------------------------------
(* Properties.                                                             *)

TypeOK ==
    /\ DOMAIN parent = Subject /\ \A s \in Subject : parent[s] \in Shapes[s]
    /\ DOMAIN value = Subject
    /\ \A s \in Subject : value[s] \in [Transform(s) -> Value \cup {NaN}]
    /\ DOMAIN burst = Subject
    /\ \A s \in Subject : burst[s] \in [Transform(s) -> BOOLEAN]
    /\ DOMAIN known = Subject
    /\ \A s \in Subject : known[s] \in [Transform(s) -> BOOLEAN]
    /\ DOMAIN world = Subject
    /\ \A s \in Subject : DOMAIN world[s] = Transform(s)
    /\ pc \in {"idle", "update", "roots", "sweep", "visit", "convert"}
    /\ subject \in Subject
    /\ pc = "visit" => index \in 0 .. n
    /\ iterations \in Nat
    /\ done \in BOOLEAN /\ conversion \in BOOLEAN

\* The transforms reached from a root of the parent list p by going down at most
\* k generations.
Reached(p) ==
    LET reach[k \in 0 .. Size(p)] ==
            IF k = 0 THEN {i \in DOMAIN p : p[i] = -1}
            ELSE reach[k-1] \cup {i \in DOMAIN p : p[i] \in reach[k-1]}
    IN  reach[Size(p)]

\* The local matrices from the root down to transform i of subject s.
PathProduct(s, i) ==
    LET up[k \in 0 .. Size(parent[s])] == IF k = 0 THEN i ELSE parent[s][up[k-1]]
        depth == CHOOSE k \in 0 .. Size(parent[s]) :
                     parent[s][up[k]] = -1 /\ \A j \in 0 .. (k - 1) : parent[s][up[j]] # -1
    IN  [k \in 1 .. (depth + 1) |-> Local(s, up[depth + 1 - k])]

\* When calcMatrices returns true, whatever the order of the transforms in the
\* list and whatever earlier calls left behind, exactly the transforms a root
\* leads to are flagged, each with the product of the local matrices on its
\* path, converted once if a conversion is in force and not at all otherwise.
RightWorlds ==
    result = "ok" /\ pc = "idle" =>
        \A s \in Subject : \A i \in Transform(s) :
            /\ known[s][i] <=> i \in Reached(parent[s])
            /\ known[s][i] =>
                world[s][i] = [product   |-> PathProduct(s, i),
                               converted |-> IF conversion THEN 1 ELSE 0]

\* The same without reference to paths: the flags are a fixpoint.  A flagged
\* transform is a root or its parent is flagged and its matrix follows from the
\* parent's; one that is not flagged waits for a parent that is not flagged.
Settled(s, i) ==
    LET p == parent[s][i]
    IN  /\ known[s][i] =>
            /\ world[s][i].converted = IF conversion THEN 1 ELSE 0
            /\ IF p = -1
               THEN world[s][i].product = <<Local(s, i)>>
               ELSE /\ p \in Transform(s) /\ known[s][p]
                    /\ world[s][i].product = Append(world[s][p].product, Local(s, i))
        /\ ~known[s][i] => p \in Transform(s) /\ p # i /\ ~known[s][p]

WorldsSettled ==
    result = "ok" /\ pc = "idle" => \A s \in Subject : \A i \in Transform(s) : Settled(s, i)

\* The sweeps never outnumber the transforms, so "Cycle detected in transform
\* hierarchy" is never reported: every sweep but the last gives some transform
\* its matrix, and one that gives none ends the loop.
CycleNeverReported ==
    /\ pc \in {"sweep", "visit"} => iterations <= n
    /\ result # "cycle"

\* A matrix that overflowed is looked at before it is computed again, so a call
\* that failed on one fails for ever: no update, however sane, and no call brings
\* the subject back; only a full packet, which builds its list anew, does.
Overflown(s) == \E i \in Transform(s) : burst[s][i] \/ ~FiniteMatrix(world[s][i])

OverflowSticks ==
    [][\A s \in Subject : Overflown(s) =>
        /\ result' # "ok"
        /\ Overflown(s)' \/ \E p \in Shapes[s] : Replace(s, p)]_vars

\* A bound on the statements a call has left for the subject at hand: sweeps are
\* no more than transforms, and each visits every transform once.
StepsLeft ==
    LET sweep == n + 2
    IN  CASE pc = "idle"    -> 0
          [] pc = "convert" -> 1
          [] pc = "sweep"   -> (n - iterations) * sweep + 2
          [] pc = "visit"   -> (n - iterations) * sweep + (n - index) + 3
          [] pc = "roots"   -> n * sweep + 3
          [] pc = "update"  -> n * sweep + 4

\* A call ends, whatever the parents: each of its statements returns, goes on to
\* the next subject, or leaves fewer to do for this one.
CallsEnd ==
    [][pc # "idle" =>
        /\ StepsLeft \in Nat
        /\ \/ pc' = "idle"
           \/ subject' = subject + 1
           \/ subject' = subject /\ StepsLeft' < StepsLeft]_vars

\* calcMatrices() is to compute the world matrices or set mError, and has an
\* error for cycles: when it returns true every transform has its matrix.
AllComputed ==
    result = "ok" /\ pc = "idle" => \A s \in Subject : \A i \in Transform(s) : known[s][i]

-----------------------------------------------------------------------------
(* The inductive invariant of a call.                                      *)

Known == {i \in Transform(subject) : known[subject][i]}

\* A transform of the subject at hand that has its matrix, before conversion.
Built(i) ==
    LET p == parent[subject][i]
    IN  /\ world[subject][i].converted = 0
        /\ IF p = -1
           THEN world[subject][i].product = <<Local(subject, i)>>
           ELSE /\ p \in Known
                /\ world[subject][i].product = Append(world[subject][p].product, Local(subject, i))

\* A transform that cannot have its matrix yet.
Waiting(i) ==
    LET p == parent[subject][i] IN p \in Transform(subject) \ Known /\ p # i

\* The flags were cleared; roots come first, then the children of the known.
FlagsInv ==
    /\ pc = "roots" => Known = {}
    /\ pc \in {"sweep", "visit", "convert"} =>
        /\ \A i \in Known : Built(i)
        /\ \A i \in Transform(subject) \ Known : parent[subject][i] # -1

\* Behind the index of a sweep that found nothing to do, all are waiting.
DoneInv ==
    /\ pc = "visit" /\ done => \A i \in Transform(subject) \ Known : i < index => Waiting(i)
    /\ pc = "convert" => \A i \in Transform(subject) \ Known : Waiting(i)

\* Each sweep but the current one gave at least one transform its matrix.
SweepInv ==
    /\ pc = "sweep" => iterations + 1 <= Cardinality(Known)
    /\ pc = "visit" => iterations <= Cardinality(Known)
    /\ pc = "visit" /\ ~done => iterations + 1 <= Cardinality(Known)

\* The subjects the call has finished with.
FinishedInv ==
    pc # "idle" => \A s \in 1 .. (subject - 1) : \A i \in Transform(s) : Settled(s, i)

CallInv ==
    FlagsInv /\ DoneInv /\ SweepInv /\ FinishedInv /\ WorldsSettled /\ CycleNeverReported

\* A call passes only subjects whose matrices are finite, and leaves them so.
FiniteInv ==
    /\ result = "ok" => \A s \in Subject : ~Overflown(s)
    /\ pc # "idle" => \A s \in 1 .. (subject - 1) : ~Overflown(s)
    /\ pc \notin {"idle", "update"} => ~Overflown(subject)

=============================================================================
