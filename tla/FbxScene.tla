------------------------------ MODULE FbxScene ------------------------------
(***************************************************************************)
(* FbxStream's loader: which nodes of a scene become subjects, which their *)
(* transforms, and what each transform's parent is.  A subject is a tree   *)
(* of nodes whose names have the same namespace.                           *)
(***************************************************************************)
EXTENDS Integers, Sequences, SequencesExt, FiniteSets, Functions

CONSTANTS
    Namespaces,
    NumNodes,   \* the nodes below the root, which is 0
    MaxMeshes   \* bound: nodes that are meshes

ASSUME SceneAssumption == NumNodes \in Nat /\ MaxMeshes \in Nat

Nodes == 0 .. NumNodes

VARIABLES
    scene,   \* the nodes: parent, namespace (or ""), and which are meshes
    loaded,  \* "no", "yes" or "failed"
    found    \* the subjects

sceneVars == <<scene, loaded, found>>

\* Children are in the order of their numbers, and have larger ones.
NoScene == [parent |-> [n \in 1 .. NumNodes |-> 0], ns |-> [n \in Nodes |-> ""], mesh |-> {}]

SceneInit ==
    /\ scene \in
         [parent : {p \in [1 .. NumNodes -> Nodes] : \A n \in DOMAIN p : p[n] < n},
          ns     : {s \in [Nodes -> Namespaces \cup {""}] : s[0] = ""},
          mesh   : {m \in SUBSET (1 .. NumNodes) : Cardinality(m) <= MaxMeshes}]
    /\ loaded = "no" /\ found = <<>>

\* Children are in the order of their numbers.
Below == [n \in 1 .. NumNodes |-> n]

\* MUTANT: meshes are followed too.
FollowsMeshes(child, node) ==
    scene.parent[child] = node /\ scene.ns[child] = scene.ns[node]

\* A node and the children that belong to the subject it belongs to.
Follows(child, node) ==
    /\ scene.parent[child] = node
    /\ child \notin scene.mesh /\ scene.ns[child] = scene.ns[node]

SceneItems == [node : Nodes, parentId : Int]

\* The node is added, then what is below it with the same namespace.  A call is
\* a node, the items so far and the node's parent id.
ListChildren[call \in Nodes \X Seq(SceneItems) \X Int] ==
    LET node  == call[1]
        items == call[2]
        follow(its, child) ==
            IF Follows(child, node) THEN ListChildren[<<child, its, Len(items)>>] ELSE its
    IN  FoldLeft(follow, Append(items, [node |-> node, parentId |-> call[3]]), Below)

SceneSubjects == [mName : Namespaces, mItems : Seq(SceneItems)]

\* Looks below nodes without a namespace, meshes too, and never below others.  A
\* call is a node and the subjects so far.
FindSubjects[call \in Nodes \X Seq(SceneSubjects)] ==
    LET node == call[1]
        find(subjects, child) ==
            IF scene.parent[child] = node THEN FindSubjects[<<child, subjects>>] ELSE subjects
    IN  IF scene.ns[node] = "" THEN FoldLeft(find, call[2], Below)
        ELSE IF node \in scene.mesh THEN call[2]
        ELSE Append(call[2], [mName |-> scene.ns[node], mItems |-> ListChildren[<<node, <<>>, -1>>]])

\* The file may not be there, or not be imported.
Load ==
    /\ loaded = "no"
    /\ \/ loaded' = "failed" /\ UNCHANGED found
       \/ loaded' = "yes" /\ found' = FindSubjects[<<0, <<>>>>]
    /\ UNCHANGED scene

SceneNext == Load

SceneSpec == SceneInit /\ [][SceneNext]_sceneVars

-----------------------------------------------------------------------------
Above[n \in Nodes] == IF n = 0 THEN {} ELSE {scene.parent[n]} \cup Above[scene.parent[n]]

\* The nodes a subject hangs from, and the nodes that belong to it.
Tops ==
    {n \in Nodes \ scene.mesh : scene.ns[n] # "" /\ \A m \in Above[n] : scene.ns[m] = ""}

Members(top) ==
    {n \in Nodes : /\ n = top \/ top \in Above[n]
                   /\ \A m \in ({n} \cup Above[n]) \ Above[top] :
                        m \notin scene.mesh /\ scene.ns[m] = scene.ns[top]}

SceneTypeOK ==
    /\ loaded \in {"no", "yes", "failed"}
    /\ \A i \in DOMAIN found :
         /\ found[i].mName \in Namespaces
         /\ found[i].mItems \in Seq([node : Nodes, parentId : -1 .. NumNodes])

\* The subjects are the trees of the scene, whatever lies between and beside
\* them: each of their nodes is listed once, behind the one it hangs from in the
\* scene, which is the one its parent id names.
ItemsAreNodes == loaded = "yes" =>
    /\ {s.mItems[1].node : s \in Range(found)} = Tops /\ Len(found) = Cardinality(Tops)
    /\ \A s \in Range(found) :
         LET items == s.mItems
         IN  /\ {item.node : item \in Range(items)} = Members(items[1].node)
             /\ Len(items) = Cardinality(Members(items[1].node))
             /\ \A k \in 2 .. Len(items) :
                  /\ items[k].parentId \in 0 .. k - 2
                  /\ items[items[k].parentId + 1].node = scene.parent[items[k].node]

=============================================================================
