---------------------------- MODULE LiveLinkSource ----------------------------
(***************************************************************************)
(* The Unreal LiveLink source: packets fill its subject list, and each     *)
(* packet pushes every subject of the list to LiveLink under its name;     *)
(* subjects nothing was pushed for are removed again.  Over nng OnPackage  *)
(* runs on nng's threads, where calls of it may overlap, over UDP on the   *)
(* receiver's; both run beside the game thread's ticks.  Over TCP the tick *)
(* calls it.                                                               *)
(*                                                                         *)
(* Nothing guards what these threads share.  Every step is taken as one    *)
(* that is not disturbed, and a call of OnPackage as going through the list *)
(* as it was when it had parsed its packet.                                *)
(***************************************************************************)
EXTENDS Naturals, Sequences, FiniteSets, Functions, SequencesExt

CONSTANTS
    Uuids,      \* subjects; FbxRetrieve and AddItem draw new uuids each time
    Name,       \* the name of each, the key LiveLink knows it by
    Handlers,   \* the threads OnPackage runs on
    Threshold,  \* InactivityThreshold
    MaxTime     \* the bound of the clock

ASSUME LiveLinkAssumption ==
    /\ IsFiniteSet(Uuids) /\ Uuids # {} /\ DOMAIN Name = Uuids
    /\ Threshold \in Nat /\ MaxTime \in Nat

Names == {Name[u] : u \in Uuids}

VARIABLES
    game,        \* where the game thread is
    server,      \* what the server has open: "nng", "udp", "tcp" or nothing
    bIsValid,    \* cleared, and OnData unbound, when the source is shut down
    client,      \* is Client set?
    list,        \* the uuids of mSubjects
    initialized, \* InitializedSubjects
    lastUpdate,  \* SubjectLastUpdateTime
    registered,  \* LiveLink: the names it has static data for
    clock,
    now,         \* RemoveInactiveSubjects: CurrentTime,
    leaving,     \* and the subject being removed
    finiteAt,    \* when OnPackage last began with a good pose of a uuid
    job,         \* OnPackage, of each handler: the subjects still to push
    at           \* and where it is with the first

maps      == <<initialized, lastUpdate>>
sweep     == <<now, leaving>>
package   == <<list, finiteAt, job, at>>
liveVars  == <<game, server, bIsValid, client, maps, registered, clock, sweep, package>>

\* No sweep under way: neither has a value.
Someone == CHOOSE n \in Names : TRUE

LiveInit ==
    /\ game = "new" /\ server = "nothing" /\ bIsValid = TRUE /\ client = FALSE
    /\ list = {} /\ initialized = {} /\ lastUpdate = <<>> /\ registered = {}
    /\ clock = 0 /\ now = 0 /\ leaving = Someone
    /\ finiteAt = <<>>
    /\ job = [h \in Handlers |-> <<>>] /\ at = [h \in Handlers |-> "idle"]

\* O3DSServer::start.  What does not start is closed again; a protocol it does not
\* know and an address for UDP without a port open nothing, and it succeeds.
StartServer ==
    \/ server' \in {"nng", "udp", "tcp", "nothing"} /\ bIsValid' = TRUE
    \/ server' = "nothing" /\ bIsValid' = FALSE

\* The source stays when the server does not start, invalid.
ReceiveClient ==
    /\ game = "new" /\ game' = "free" /\ client' = TRUE /\ StartServer
    /\ UNCHANGED <<maps, registered, clock, sweep, package>>

Tock ==
    /\ game # "new" /\ clock < MaxTime /\ clock' = clock + 1
    /\ UNCHANGED <<game, server, bIsValid, client, maps, registered, sweep, package>>

-----------------------------------------------------------------------------
(* OnPackage.  Where the tick calls it nothing of the game thread comes    *)
(* between its steps.                                                      *)

Threaded == server \in {"nng", "udp"}
AllIdle  == \A h \in Handlers : at[h] = "idle"

\* asyncReadMsg receives again before it hands a message over; the UDP receiver
\* is one thread.
MayHandle(h) ==
    /\ server # "nothing" /\ game # "gone" /\ at[h] = "idle" /\ bIsValid
    /\ server = "nng" \/ AllIdle
    /\ Threaded \/ game = "free"

\* What the handler h begins to push, in any order.
Begin(h, subjects) ==
    \E order \in SetToSeqs(subjects) :
        /\ job' = [job EXCEPT ![h] = order]
        /\ at' = [at EXCEPT ![h] = IF order = <<>> THEN "idle" ELSE "find"]

\* MUTANT: only the subjects the packet brings are pushed.
OnPackageNewOnly(h, news, bad) ==
    /\ MayHandle(h)
    /\ list' = list \cup news
    /\ Begin(h, news \ bad)
    /\ finiteAt' = [u \in (list' \ bad) \cup DOMAIN finiteAt |->
                      IF u \in list' \ bad THEN clock ELSE finiteAt[u]]
    /\ UNCHANGED <<game, server, bIsValid, client, maps, registered, clock, sweep>>

\* A packet of all subjects brings those it has into the list, an update leaves
\* the list as it is.  Then the subjects of the list are pushed one by one, but
\* for those with a NaN and those that are new and have no transforms.
OnPackage(h, news, bad) ==
    /\ MayHandle(h)
    /\ list' = list \cup news
    /\ Begin(h, list' \ bad)
    /\ finiteAt' = [u \in DOMAIN finiteAt \cup Range(job'[h]) |->
                      IF u \in Range(job'[h]) THEN clock ELSE finiteAt[u]]
    /\ UNCHANGED <<game, server, bIsValid, client, maps, registered, clock, sweep>>

Subject(h) == Name[Head(job[h])]

Step(h, from, to) ==
    /\ at[h] = from /\ at' = [at EXCEPT ![h] = to]
    /\ UNCHANGED <<game, server, bIsValid, client, list, clock, sweep, finiteAt>>

\* Check if the skeleton has not been initialized yet.
Find(h) ==
    /\ at[h] = "find"  \* before Head is taken of job
    /\ Step(h, "find", IF Subject(h) \in initialized THEN "frame" ELSE "static")
    /\ UNCHANGED <<maps, registered, job>>

\* RemoveSubject_AnyThread and PushSubjectStaticData_AnyThread.
PushStatic(h) ==
    /\ Step(h, "static", "add") /\ registered' = registered \cup {Subject(h)}
    /\ UNCHANGED <<maps, job>>

Add(h) ==
    /\ Step(h, "add", "frame") /\ initialized' = initialized \cup {Subject(h)}
    /\ UNCHANGED <<lastUpdate, registered, job>>

\* LiveLink ignores frames of a name it has no static data for.
PushFrame(h) == Step(h, "frame", "stamp") /\ UNCHANGED <<maps, registered, job>>

Stamped(n) == [m \in DOMAIN lastUpdate \cup {n} |-> IF m = n THEN clock ELSE lastUpdate[m]]

\* MUTANT: the loop over the subjects does not end with the last.
StampPastEnd(h) ==
    /\ Step(h, "stamp", IF Len(job[h]) = 1 THEN "frame" ELSE "find")
    /\ lastUpdate' = Stamped(Subject(h))
    /\ job' = IF Len(job[h]) = 1 THEN job ELSE [job EXCEPT ![h] = Tail(job[h])]
    /\ UNCHANGED <<initialized, registered>>

Stamp(h) ==
    /\ Step(h, "stamp", IF Len(job[h]) = 1 THEN "idle" ELSE "find")
    /\ lastUpdate' = Stamped(Subject(h)) /\ job' = [job EXCEPT ![h] = Tail(job[h])]
    /\ UNCHANGED <<initialized, registered>>

-----------------------------------------------------------------------------
(* The game thread.                                                        *)

MayTick == game = "free" /\ (Threaded \/ AllIdle)

Inactive(n, time) == n \in DOMAIN lastUpdate /\ time > lastUpdate[n] + Threshold

\* A tick, CheckInterval after the last that did, removes the subjects nothing
\* was pushed for.
RemoveInactiveSubjects ==
    /\ MayTick /\ (\E n \in Names : Inactive(n, clock))
    /\ game' = "sweep" /\ now' = clock
    /\ UNCHANGED <<server, bIsValid, client, maps, registered, clock, leaving, package>>

\* One after another they are taken from the times ...
TakeOut ==
    /\ game = "sweep" /\ \E n \in Names : Inactive(n, now) /\ leaving' = n
    /\ game' = "remove"
    /\ lastUpdate' = Restrict(lastUpdate, DOMAIN lastUpdate \ {leaving'})
    /\ UNCHANGED <<server, bIsValid, client, initialized, registered, clock, now, package>>

\* ... from LiveLink ...
RemoveSubject ==
    /\ game = "remove" /\ game' = "forget"
    /\ registered' = registered \ {leaving}
    /\ UNCHANGED <<server, bIsValid, client, maps, clock, sweep, package>>

\* ... and from the initialized subjects.
\* MUTANT: the removed subject stays initialized.
ForgetForgotten ==
    /\ game = "forget" /\ game' = "sweep" /\ leaving' = Someone
    /\ UNCHANGED <<server, bIsValid, client, maps, registered, clock, now, package>>

Forget ==
    /\ game = "forget" /\ game' = "sweep"
    /\ initialized' = initialized \ {leaving} /\ leaving' = Someone
    /\ UNCHANGED <<server, bIsValid, client, lastUpdate, registered, clock, now, package>>

SweepEnds ==
    /\ game = "sweep" /\ (\A n \in Names : ~Inactive(n, now)) /\ game' = "free"
    /\ now' = 0
    /\ UNCHANGED <<server, bIsValid, client, maps, registered, clock, leaving, package>>

\* RequestSourceShutdown: packets are refused, stop waits for the threads that
\* call OnPackage, and Client is cleared.  LiveLink then destroys the source.
Shutdown ==
    /\ MayTick /\ game' = "stopping" /\ bIsValid' = FALSE
    /\ UNCHANGED <<server, client, maps, registered, clock, sweep, package>>

\* MUTANT: stop does not wait for the threads.
StoppedAtOnce ==
    /\ game = "stopping" /\ server' = "nothing" /\ client' = FALSE /\ game' = "gone"
    /\ UNCHANGED <<bIsValid, maps, registered, clock, sweep, package>>

Stopped ==
    /\ game = "stopping" /\ AllIdle /\ game' = "gone"
    /\ server' = "nothing" /\ client' = FALSE
    /\ UNCHANGED <<bIsValid, maps, registered, clock, sweep, package>>

Handling(h) == Find(h) \/ PushStatic(h) \/ Add(h) \/ PushFrame(h) \/ Stamp(h)
Sweeping == TakeOut \/ RemoveSubject \/ Forget \/ SweepEnds

LiveNext ==
    \/ ReceiveClient \/ Tock
    \/ \E h \in Handlers : Handling(h) \/ \E news, bad \in SUBSET Uuids : OnPackage(h, news, bad)
    \/ RemoveInactiveSubjects \/ Sweeping \/ Shutdown \/ Stopped

\* All threads are run on; when packets come and when the source is shut down
\* is up to others.
LiveFairness ==
    /\ \A h \in Handlers : WF_liveVars(Handling(h))
    /\ WF_liveVars(Sweeping) /\ WF_liveVars(Stopped)

LiveSpec == LiveInit /\ [][LiveNext]_liveVars /\ LiveFairness

-----------------------------------------------------------------------------
LiveTypeOK ==
    /\ game \in {"new", "free", "sweep", "remove", "forget", "stopping", "gone"}
    /\ server \in {"nng", "udp", "tcp", "nothing"} /\ {bIsValid, client} \subseteq BOOLEAN
    /\ list \subseteq Uuids /\ initialized \subseteq Names /\ registered \subseteq Names
    /\ DOMAIN lastUpdate \subseteq Names /\ leaving \in Names
    /\ DOMAIN finiteAt \subseteq list
    /\ {clock, now} \cup Range(lastUpdate) \cup Range(finiteAt) \subseteq 0 .. MaxTime
    /\ at \in [Handlers -> {"idle", "find", "static", "add", "frame", "stamp"}]
    /\ \A h \in Handlers : Range(job[h]) \subseteq list /\ (at[h] = "idle") = (job[h] = <<>>)

\* Client is dereferenced by all the threads and cleared by one of them: whenever
\* it is used it is there, as stop waits for the packages that are being handled.
ClientThere == ~AllIdle \/ game \in {"remove", "forget"} => client

\* The subjects of packages in hand.
InJobs == UNION {Range(job[h]) : h \in Handlers}

OnOneThread == server = "tcp" /\ AllIdle /\ game \in {"free", "stopping"}

\* Over TCP everything is done on one thread: between two of its calls what the
\* source believes LiveLink to know, what LiveLink knows and what will be looked
\* at for silence are the same subjects.  On several threads the source may lose track
\* of what LiveLink knows, but no subject is left in LiveLink for ever: unless one
\* of the threads is at it there is a time by which it will be found silent.
MapsAgree ==
    /\ OnOneThread => initialized = registered /\ registered = DOMAIN lastUpdate
    /\ \A n \in registered :
         \/ n \in DOMAIN lastUpdate
         \/ n \in {Name[u] : u \in InJobs}
         \/ game = "remove" /\ n = leaving

\* A subject is removed only if no packet came for as long as the threshold, no
\* matter whose: a packet stamps the subjects it does not hold, too, unless
\* their pose is bad.  Only packages still in hand may have come since.
RemovedOnlyInSilence ==
    [][\A n \in DOMAIN lastUpdate \ DOMAIN lastUpdate' :
          \A u \in DOMAIN finiteAt :
              Name[u] = n /\ u \notin InJobs => clock > finiteAt[u] + Threshold]_liveVars

\* A shutdown comes to its end, whatever the socket's threads were doing.
SourceStops == game = "stopping" ~> game = "gone"

=============================================================================
