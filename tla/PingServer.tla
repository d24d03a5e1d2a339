------------------------------ MODULE PingServer ------------------------------
(***************************************************************************)
(* o3ds_pingServer: a fixed number of works, each a small machine driven   *)
(* by the callbacks of its aio, that answer the pings of o3ds_ping.        *)
(***************************************************************************)
EXTENDS Naturals, FiniteSets

CONSTANTS
    Works,    \* PARALLEL of them
    MaxPings  \* how many pings are sent

ASSUME WorksAssumption == IsFiniteSet(Works) /\ MaxPings \in Nat

VARIABLES
    work,      \* the state of each work
    pending,   \* the works whose aio has an operation under way
    pinged,    \* pings sent, of which
    waiting,   \*   so many are in the server's queue and
    answered   \*   so many are answered

pingVars == <<work, pending, pinged, waiting, answered>>

\* alloc_work for each, then server_cb once: it starts them receiving.
PingInit ==
    /\ work = [w \in Works |-> "RECV"] /\ pending = Works
    /\ pinged = 0 /\ waiting = 0 /\ answered = 0

\* client: sends one ping and waits for its answer.
Ping ==
    /\ pinged < MaxPings /\ pinged' = pinged + 1 /\ waiting' = waiting + 1
    /\ UNCHANGED <<work, pending, answered>>

\* What server_cb does when an operation of w has ended: its next state, and
\* the operation it begins (the sleep that would end WAIT is commented out).
ServerCb(state) ==
    CASE state = "INIT" -> [state |-> "RECV", begins |-> {"recv"}]
      [] state = "RECV" -> [state |-> "WAIT", begins |-> {}]
      [] state = "WAIT" -> [state |-> "SEND", begins |-> {"send"}]
      [] state = "SEND" -> [state |-> "RECV", begins |-> {"recv"}]

\* The operation under way ends: a receive with a ping, a sleep, or a send.
OperationEnds(w) ==
    /\ w \in pending
    /\ work[w] = "RECV" => waiting > 0
    /\ waiting' = IF work[w] = "RECV" THEN waiting - 1 ELSE waiting
    /\ answered' = IF work[w] = "SEND" THEN answered + 1 ELSE answered
    /\ work' = [work EXCEPT ![w] = ServerCb(work[w]).state]
    /\ pending' = IF ServerCb(work[w]).begins = {} THEN pending \ {w} ELSE pending
    /\ UNCHANGED pinged

PingNext == Ping \/ \E w \in Works : OperationEnds(w)

PingSpec == PingInit /\ [][PingNext]_pingVars

\* nng ends the operations it has been given.
PingFairSpec == PingSpec /\ \A w \in Works : WF_pingVars(OperationEnds(w))

-----------------------------------------------------------------------------
PingTypeOK ==
    /\ work \in [Works -> {"INIT", "RECV", "WAIT", "SEND"}] /\ pending \subseteq Works
    /\ pinged \in 0 .. MaxPings /\ {waiting, answered, waiting + answered} \subseteq 0 .. pinged

\* Each work is a request-reply loop, as the comment at o3ds_pingServer.c:12-15
\* has it, and the client waits for its reply: however many pings are sent, all
\* are answered in the end.
EveryPingAnswered == \A n \in 1 .. MaxPings : pinged >= n ~> answered >= n

\* What happens instead: a ping takes a work for good and is never answered; once
\* each work has had one, pings stay in the queue.
PingsUseUpWorks ==
    /\ answered = 0
    /\ Cardinality({w \in Works : work[w] = "WAIT"}) = pinged - waiting
    /\ pending = {w \in Works : work[w] = "RECV"}

=============================================================================
