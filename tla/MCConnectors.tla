----------------------------- MODULE MCConnectors -----------------------------
(* Small instances of NngConnector, PingServer and LiveLinkSource.  They   *)
(* share no state: the first step of a behaviour says which of them it is  *)
(* about.                                                                  *)
EXTENDS NngConnector, PingServer, LiveLinkSource, TLC

CONSTANTS u1, u2

\* Sizes above and at the buffer's and an empty message, in an order that makes it
\* shrink.
Sizes == <<3, 0, 2, 4>>

Named == u1 :> "a" @@ u2 :> "b"

MCInit == Init /\ PingInit /\ LiveInit

MCNext ==
    \/ pinged = 0 /\ game = "new" /\ Next /\ UNCHANGED <<pingVars, liveVars>>
    \/ app = "none" /\ game = "new" /\ PingNext /\ UNCHANGED <<vars, liveVars>>
    \/ app = "none" /\ pinged = 0 /\ LiveNext /\ UNCHANGED <<vars, pingVars>>

MCSpec ==
    /\ MCInit /\ [][MCNext]_<<vars, pingVars, liveVars>>
    /\ Fairness /\ LiveFairness

\* A bound: packages that overlap have two subjects left between them.
FewInHand == \A g, h \in Handlers : g # h => Len(job[g]) + Len(job[h]) <= 2

\* The types, and that no message is copied past the end of the buffer.
ConnectorsTypeOK == TypeOK /\ BufferHolds /\ PingTypeOK /\ LiveTypeOK
=============================================================================
