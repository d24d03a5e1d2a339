----------------------------- MODULE MayaDevice -----------------------------
(***************************************************************************)
(* The Maya node: a device thread reads packets while the node is live and *)
(* passes them, in the one block of memory the node has for it, to compute *)
(* on Maya's thread.                                                       *)
(***************************************************************************)
EXTENDS Naturals, Sequences

CONSTANTS MaxPackets  \* bound: packets read

ASSUME MayaAssumption == MaxPackets \in Nat

VARIABLES
    live, done,  \* the node's attribute; has the thread been told to end?
    thread,      \* where the device thread is
    mConnector,  \* is there one?
    packets,     \* packets read so far
    buffer,      \* the message in hand: a packet's number, 0 for a text
    freeBlocks,  \* blocks acquireDataStorage can give
    queue,       \* messages pushed and not popped
    lost,        \* blocks popped and never released
    shown,       \* the last packet compute put out
    crashed      \* has Maya crashed?

device   == <<thread, mConnector, packets, buffer>>
storage  == <<freeBlocks, queue, lost>>
outputs  == <<shown, crashed>>
mayaVars == <<live, done, device, storage, outputs>>

MayaInit ==
    /\ live = FALSE /\ done = FALSE /\ thread = "new" /\ mConnector = FALSE
    /\ packets = 0 /\ buffer = 0
    /\ freeBlocks = 1 /\ queue = <<>> /\ lost = 0 /\ shown = 0 /\ crashed = FALSE

SetLive == live' = ~live /\ UNCHANGED <<done, device, storage, outputs>>

threadShutdownHandler ==
    /\ ~done /\ done' = TRUE /\ UNCHANGED <<live, device, storage, outputs>>

\* The handler's first statement takes back a request to end that came before.
ThreadBegins ==
    /\ thread = "new" /\ thread' = "outer" /\ done' = FALSE
    /\ UNCHANGED <<live, mConnector, packets, buffer, storage, outputs>>

\* One connector serves all the times the node is live; whether it could be
\* started is not asked.
GoLive ==
    /\ thread = "outer" /\ ~done /\ live /\ thread' = "inner" /\ mConnector' = TRUE
    /\ UNCHANGED <<live, done, packets, buffer, storage, outputs>>

\* A packet, or the error of a read that failed.
Read ==
    /\ thread = "inner" /\ ~done /\ live /\ thread' = "pass"
    /\ \/ packets < MaxPackets /\ packets' = packets + 1 /\ buffer' = packets'
       \/ buffer' = 0 /\ UNCHANGED packets
    /\ UNCHANGED <<live, done, mConnector, storage, outputs>>

LeaveInner ==
    /\ thread = "inner" /\ (done \/ ~live) /\ thread' = "outer"
    /\ UNCHANGED <<live, done, mConnector, packets, buffer, storage, outputs>>

Push(message) ==
    /\ UNCHANGED lost
    /\ IF freeBlocks = 0 THEN UNCHANGED <<freeBlocks, queue>>
       ELSE freeBlocks' = freeBlocks - 1 /\ queue' = Append(queue, message)

\* MUTANT: the status of acquireDataStorage is not looked at.
passMessageUnstored ==
    /\ thread = "pass" /\ thread' = "inner" /\ queue' = Append(queue, buffer)
    /\ freeBlocks' = (IF freeBlocks = 0 THEN 0 ELSE freeBlocks - 1)
    /\ UNCHANGED <<live, done, mConnector, packets, buffer, lost, outputs>>

\* Without a free block the message is dropped.
passMessage ==
    /\ thread = "pass" /\ thread' = "inner" /\ Push(buffer)
    /\ UNCHANGED <<live, done, mConnector, packets, buffer, outputs>>

\* Its last message says that it has stopped.
ThreadEnds ==
    /\ thread = "outer" /\ done /\ thread' = "finished" /\ mConnector' = FALSE
    /\ Push(0) /\ UNCHANGED <<live, done, packets, buffer, outputs>>

\* Maya computes the node when an output is asked for.  Whether the packet could be
\* parsed is not looked at: the list puts out what it has.  A handle that cannot be
\* had ends compute before the block is released.
compute ==
    /\ queue # <<>> /\ queue' = Tail(queue)
    /\ \/ shown' \in (IF Head(queue) = 0 THEN {shown} ELSE {shown, Head(queue)})
          /\ freeBlocks' = freeBlocks + 1 /\ UNCHANGED lost
       \/ Head(queue) # 0 /\ lost' = lost + 1 /\ UNCHANGED <<freeBlocks, shown>>
    /\ UNCHANGED <<live, done, device, crashed>>

\* The subject is updated before it is asked whether there is one of that name.
ComputeNoSubject ==
    /\ queue # <<>> /\ Head(queue) # 0 /\ queue' = Tail(queue)
    /\ crashed' = TRUE /\ lost' = lost + 1
    /\ UNCHANGED <<live, done, device, freeBlocks, shown>>

MayaNext ==
    /\ ~crashed
    /\ \/ SetLive \/ threadShutdownHandler \/ ThreadBegins \/ GoLive \/ Read \/ LeaveInner
       \/ passMessage \/ ThreadEnds \/ compute \/ ComputeNoSubject

MayaSpec == MayaInit /\ [][MayaNext]_mayaVars

-----------------------------------------------------------------------------
MayaTypeOK ==
    /\ {live, done, mConnector, crashed} \subseteq BOOLEAN
    /\ thread \in {"new", "outer", "inner", "pass", "finished"}
    /\ packets \in 0 .. MaxPackets /\ buffer \in 0 .. packets /\ shown \in 0 .. packets
    /\ freeBlocks + Len(queue) + lost = 1

\* An error while one packet is put out makes the node deaf for good: its only
\* block is gone, and nothing the thread reads afterwards can be passed.  Until
\* then packets are shown in the order in which they were read.
LostBlockIsDeaf ==
    [][/\ shown' >= shown
       /\ lost > 0 => shown' = shown /\ queue' = <<>>]_mayaVars

=============================================================================
