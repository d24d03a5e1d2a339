------------------------------ MODULE MCPlugins ------------------------------
(* The plugins' parts, the TCP socket, and what a list does with subjects  *)
(* of several kinds and with contexts.                                     *)
(* They share no state: the first step of a behaviour is to choose one.    *)
EXTENDS TcpFrames, TcpSocket, SubjectLists, MobuDevice, MayaDevice,
        ConversionContext, FbxScene, XsensParser, TLC

VARIABLE part

Marker == <<0, 3>>

\* A packet with a byte 0, one with a header in it, and one that is too long.
SomePackets == {<<0, 1>>, <<0, 3, 1>>, <<2, 0, 2, 0>>}

Oriented == {a \in [Slots -> Directions] : Cardinality({axisId(a[i]) : i \in Slots}) = 3}

InUnits(a, b, c, unit) == [axes |-> 0 :> a @@ 1 :> b @@ 2 :> c, mDistance |-> unit]

\* A representative of each way the axes may point, other units, and a context
\* that is not valid.
SomeContexts ==
    {[axes |-> a, mDistance |-> "Centimeter"] : a \in Oriented}
      \cup {InUnits("Right", "Up", "Back", "Meter"), InUnits("Up", "Right", "Down", "Meter"),
            InUnits("Forward", "Right", "Up", "Millimeter")}

Lengths == "Unknown" :> 0 @@ "Millimeter" :> 1 @@ "Centimeter" :> 10 @@ "Meter" :> 1000

SomePoints == {0 :> 1000 @@ 1 :> -2000 @@ 2 :> 3000}

\* A table in which the third name may be missing from a pose.
SomeParents == <<0, 0, 1>>

\* Which subject, model or namespace is which makes no difference.
Symmetry == Permutations(SubjectUuids) \cup Permutations(Models) \cup Permutations(Namespaces)

\* What is open at first is open only where it is that part's turn.
PluginsInit ==
    /\ part \in {"frames", "socket", "lists", "device", "maya", "context", "scene", "xsens"}
    /\ TcpInit /\ SockInit /\ ListsInit /\ DevInit /\ MayaInit /\ CtxInit /\ XsensInit
    /\ part # "device" => mNetworkSocket = "none"
    /\ part # "context" => mContext = NoContext
    /\ IF part = "scene" THEN SceneInit
       ELSE scene = NoScene /\ loaded = "no" /\ found = <<>>

PluginsNext ==
    /\ UNCHANGED part
    /\ \/ /\ part = "frames" /\ TcpNext
          /\ UNCHANGED <<sockVars, listVars, devVars, mayaVars, ctxVars, sceneVars, xsensVars>>
       \/ /\ part = "socket" /\ SockNext
          /\ UNCHANGED <<tcpVars, listVars, devVars, mayaVars, ctxVars, sceneVars, xsensVars>>
       \/ /\ part = "lists" /\ ListsNext
          /\ UNCHANGED <<tcpVars, sockVars, devVars, mayaVars, ctxVars, sceneVars, xsensVars>>
       \/ /\ part = "device" /\ DevNext
          /\ UNCHANGED <<tcpVars, sockVars, listVars, mayaVars, ctxVars, sceneVars, xsensVars>>
       \/ /\ part = "maya" /\ MayaNext
          /\ UNCHANGED <<tcpVars, sockVars, listVars, devVars, ctxVars, sceneVars, xsensVars>>
       \/ /\ part = "context" /\ CtxNext
          /\ UNCHANGED <<tcpVars, sockVars, listVars, devVars, mayaVars, sceneVars, xsensVars>>
       \/ /\ part = "scene" /\ SceneNext
          /\ UNCHANGED <<tcpVars, sockVars, listVars, devVars, mayaVars, ctxVars, xsensVars>>
       \/ /\ part = "xsens" /\ XsensNext
          /\ UNCHANGED <<tcpVars, sockVars, listVars, devVars, mayaVars, ctxVars, sceneVars>>

PluginsSpec ==
    PluginsInit /\ [][PluginsNext]_<<part, tcpVars, sockVars, listVars, devVars, mayaVars, ctxVars,
                                     sceneVars, xsensVars>>

\* The types of every part, and that the TCP reader's buffer holds what is read.
PluginsTypeOK ==
    /\ TcpTypeOK /\ BufferFits /\ SockTypeOK /\ ListsTypeOK /\ DevTypeOK /\ MayaTypeOK /\ CtxTypeOK
    /\ SceneTypeOK /\ XsensTypeOK
=============================================================================
