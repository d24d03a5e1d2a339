# Open3DStream in TLA+

Open3DStream streams skeletons: an application (a MotionBuilder device, an FBX player) turns
its joints into packets, a connector carries them, and a receiver (an Unreal LiveLink source, a
test program) turns packets back into a list of subjects with world matrices.  This directory
holds TLA+ models of the parts where that can go wrong in ways a test hardly reaches, the TLC
configurations that check them on small instances, and proofs, checked by TLAPS, of what holds
for every instance.  `PROJECT.json` maps each definition to the lines it models and lists the
runs, the mutants, the hazards, the findings and the theorems.

## 1. Inventory

### The path of a frame

    application --- Subject/Transform ---> SubjectList::serialize / serializeUpdate
                                                   |  packet (FlatBuffer, CRC)
                          connectors: nng (blocking, asynchronous), TCP, UDP fragments
                                                   |
    SubjectList::parse  <---------------------------+
         |-- Subject::parse (full), Subject::parseUpdate (delta, by index)
         `-- allFinite, SubjectList::calcMatrices (world matrices, conversion)
                                                   |
    Unreal: O3DSServer (socket thread) ---> FOpen3DStreamSource (game thread) ---> LiveLink

### Components

| component | state | operations | what makes it correct |
|---|---|---|---|
| Subject stream: `model.cpp`, `model.h`, `transform_component.h` | subjects of three kinds, transforms and the components they are made of, each component's `value` and `lastSentValue`, `mEnabled`, time and envelope | `serialize`, `serializeUpdate`, `parse`, `addTransform`, `findByUuid` | a receiver that got everything since a full packet shows the sender's pose within the threshold; losses are repaired; joint lists are never mixed; a uuid is listed once; time and envelope are of one packet |
| World matrices: `Subject::calcMatrices`, `SubjectList::calcMatrices` | `mParentId`, `mMatrix`, `mWorldMatrix`, `bWorldMatrix` | update, root, sweeps, conversion; `allFinite` before | the product along the path to the root, for any order of the list; ends for any parents; converts once; failures leave nothing misleading |
| Coordinate conversion: `context.cpp`, `Context` in `parse` | the list's context, the conversion | `computeConversion`, `convertTranslation`, `convertRotation`, `convertMatrix` | a converted point lies where it lay; quaternions and matrices turn alike |
| Streaming loops: `FbxStream`, `device.cpp` | frame counter | full packet every 200 (device: 101) frames, updates between | the full packet comes again and again, also when frames are refused |
| UDP fragments: `udp_fragment.cpp` | fragmenter; mapper of frame id to combiner | `makeFragment`, `addFragment`, `getFrame` | frames whole, in order, each at most once; nothing completed is kept back |
| nng connectors: sixteen classes in `pair`, `pipeline`, `publisher`, `subscriber`, `request` and their `async_` files | socket, dialer, aio, state, error | start, write, read, callbacks, stop | messages to the callback once; a start that fails leaves nothing behind; nothing runs after stop |
| Repeater, SubscribeTest, ping | the read buffer; the works of the ping server | read, publish; callbacks | in order, each once; pings answered |
| TCP: `tcp.cpp`, `socket_util.cpp` | socket | `CreateSocket`, `DestroySocket`, `Connect`, `Listen`, `Accept`, `Send` | all bytes or an error; no socket is lost |
| MotionBuilder device: `device.cpp` | connectors, sockets, counters, items | `Start`, `Stop`, `Reset`, `DeviceIONotify`, `WriteTcp`, `WriteUdp`, `FbxStore`, `FbxRetrieve` | frames are sent while it is online; Stop undoes Start |
| MotionBuilder layout and model: `layout.cpp`, `mobuModel.cpp` | rows of the subject list | add, delete, edit, protocol; `TraverseSubject` | a row's index is its subject's |
| Unreal server: `UOpen3DServer.cpp` | sockets, TCP reader state, UDP mapper | `start`, `stop`, `tick`, `ReadTcp` | each frame to `OnData` once; the reader finds the next header again |
| Unreal LiveLink source: `Open3DStreamSource.cpp` | subjects, initialised subjects, last update times | `OnPackage`, `RemoveInactiveSubjects`, shutdown | a subject's static data come before its frames; a subject no longer sent is removed; shutdown waits for the other thread |
| Maya node: `threadedDevice.cpp` | live, the device thread, its one block of storage | the thread's loop, `compute` | packets are shown in order |
| FBX loader: `fbxloader.cpp` | a scene's nodes, the subjects made of them | `Load`, `FindSubjects`, `ListChildren` | a subject is a tree of the scene, parents before children |
| XSens parser: `xsens_parser.cpp` | names and scales of a character, its subjects | `get_quaternion_pose`, `get_scale`, `get_meta`, `getSubject` | a segment stands at its place in the table |
| UDP sockets, binary writer, websocket, Python listener | - | - | not modelled, see section 5 |

### What is hard

* **State on both sides of a lossy link.**  `lastSentValue` is the sender's only idea of what the
  receiver shows.  It moves when a packet is serialized, not when it is received, and a full nng
  queue drops the packet and reports success (`nng_connector.cpp:216`).  Nothing is acknowledged.
* **Updates by index** of transforms, into a list that may be another version of the skeleton.
* **Partial failure.**  One non-finite joint of one subject refuses everybody's frame; a call of
  `calcMatrices` ends at the first subject that fails; `parse` has taken over the time when it
  refuses a context.
* **Order and duplication** of datagrams; ids that start again; a loop in `getFrame` that uses an
  element it has erased.
* **Order of transforms** in a list, cycles, parents out of range, values that overflow.
* **Callbacks and threads**: nng's callbacks re-arm themselves before they are done, so that two of
  them run on one aio; the Unreal plugin parses on a socket thread and prunes on the game thread;
  Maya's node passes packets between threads through one block of memory.
* **Starts that fail halfway**, are tried again on the same object, and are followed by a stop that
  closes what the last one left.
* **A byte stream** cut anywhere, with headers that are not looked at closely.

`PROJECT.json` lists these, with others, as hazards at their lines, each with the properties about
it, or the reason why there is none.

## 2. Modules

| module | models | kind |
|---|---|---|
| `SubjectStream` | delta stream, streaming loop, non-blocking connector, receiver's list | component |
| `MCSubjectStream` | skeletons, casts | instances for TLC |
| `PoseStream` | what the stream promises the receiving application | abstract specification |
| `SubjectStreamProofs` | types, accuracy, whole skeletons; `PoseStream` implemented | proofs |
| `Hierarchy` | calcMatrices, statement by statement | component |
| `MCHierarchy` | parent lists | instances for TLC |
| `HierarchyProofs` | types, calls end, settled and right matrices, overflow is for good | proofs |
| `UdpFragment` | fragmenter, network, combiner, mapper; sender of the device, receiver of Unreal | component |
| `FrameChannel` | what a transport that keeps order promises | abstract specification |
| `UdpFragmentProofs` | types, right bytes, nothing kept back or used twice; `FrameChannel` implemented in order | proofs |
| `SubjectLists` | subjects of three kinds, uuids, transform components, time and envelope, contexts refused | component |
| `ConversionContext` | conversion between coordinate systems; what parse does with a context | component |
| `ListProofs` | of these two: types, listed once, shown as said, envelope, the same pose | proofs |
| `NngConnector` | the sixteen connector classes, and the loops of Repeater and SubscribeTest | component |
| `PingServer` | the ping server's works | component |
| `LiveLinkSource` | Unreal's LiveLink source, on one thread and on several | component |
| `MCConnectors` | the three modules above side by side | instances for TLC |
| `ConnectorProofs` | of these: types, what is heard, lost and left running, the ping server's works, the source's maps | proofs |
| `TcpFrames` | the device's TCP writer and Unreal's TCP reader | component |
| `XsensParser` | the XSens parser | component |
| `ParserProofs` | of these two: types, frames in step and whole, segments in place | proofs |
| `TcpSocket` | the life of a TCP socket and of a server's clients | component |
| `MobuDevice` | the MotionBuilder device and its layout | component |
| `MayaDevice` | the Maya node | component |
| `FbxScene` | the FBX loader | component |
| `MCPlugins` | small instances of the modules that are in no other run, side by side | instances for TLC |
| `PluginProofs` | what `TcpSocket` and `MayaDevice` lose, the rows of `MobuDevice`, the trees of `FbxScene`, the types of all the parts together | proofs |
| `Induction` | induction over the numbers by sets; folds; recursion over ranks | proofs |

### SubjectStream

State: `enabled`, `xforms` (name, value and `lastSentValue` of each transform) and `broken`
(subjects with a NaN) are the sender's; `frame` is the loop's counter modulo the period; `net` is
the connector's queue and the way to the receiver; `items` is the receiver's list.  `linked`,
`rebuilt`, `missed`, `synced` and `shown` are history: no action's guard reads them, only
properties do.

| action | code |
|---|---|
| `Move`, `SetEnabled`, `Upset` | the application writes a pose, `mEnabled`, a non-finite pose |
| `Rebuild` | `TraverseSubject`: transforms cleared and built anew, counter untouched |
| `StreamFrame` | one pass of the loop: `allFinite`, then `serialize` or `serializeUpdate`, then `write`; a refused frame is counted too |
| `Redo` | end of the clip |
| `Parse` | `SubjectList::parse`: full data, then updates of known subjects |
| `Lose` | packet lost, or its CRC fails and `parse` returns early |
| `Restart` | a receiver with an empty list |

A component of a pose is one integer; a distance is a difference; `Narrow` is the cast from double
to float with error at most `Ulp`.  `Unset` is the value `TransformRotation`'s constructor leaves
uninitialised: a comparison with it may go either way.  A full packet holds data and an (empty)
update of every enabled subject, in that order, as in `serialize`.  Scale travels in full packets
only, as in the code, where its update is commented out: the properties say nothing of it.
`FbxStream` parses each packet itself and ends when it cannot (`main.cpp:140-143`).  Its own list gets
every packet in order, so that this takes numbers past what floats hold; `Hierarchy` has such values,
`SubjectStream` has not.

`PoseStream` is the promise made to the receiving application: as if each frame carried the whole pose of
its subjects.  It has the poses, frames of whole poses on the way, and what the receiver shows of the
subjects it is *in step* with: those a frame has described since the last one was lost or their
skeleton changed.  `Take` shows each pose of the frame within `Tolerance` and leaves the other subjects as
they were; frames are taken in order, may be dropped when they are sent and lost on the way.  Nothing in it
is left out of a frame, marked as sent or addressed by index.  `Poses` maps the stream to it: the pose of a
subject is its transforms without `sent`, a packet is the frame it was made from (`Framed`), `Tolerance` is
`Threshold + Ulp`, and `WholePoses` says that every behaviour of the code is one of `PoseStream`.

### Hierarchy

`calcMatrices` is a loop over statements with `pc` (`update`, `roots`, `sweep`, `visit`,
`convert`), because what matters is what an early return leaves behind.  Between calls parse
(`Replace`) and updates or the application (`Write`) change the list; `Call(parsing, c)` is a call
with or without conversion, preceded by the `allFinite` of `parse` when `parsing`.  A world matrix
is the sequence of local matrices it was multiplied from and a count of conversions, so two
matrices are equal exactly if the code multiplied the same things in the same order.  Values in
`Huge` overflow when two are multiplied, those in `Burst` in the transform's own matrix.

### UdpFragment

A byte is named by the frame and the place it came from.  `Send` is one frame of the device's UDP
branch, `Receive` one data callback: one `addFragment`, one `getFrame`.  `getFrame` keeps a
reference to an element of the map while it erases from the map (`udp_fragment.cpp:190-198`); after
that element is gone, the id it is compared with may be anything, so `GetFrame` picks any `freed`
not below the frame's own id.  The branch for datagrams no sender of this code makes is left out.

### SubjectLists and ConversionContext

`SubjectStream` follows poses of subjects of one kind.  `SubjectLists` is the rest of `serialize` and
`parse`: performers, rigid bodies and cameras in one list that is searched by uuid (`FindByUuid`
stops at the first subject with the uuid, and returns nothing if that one is of another kind),
definitions of a kind before its updates and kinds one after another, the components of a transform
and its matrices (`Stack`; `Local` is the product `getLocalMatrix` makes, a sequence of factors),
lenses, `clearInactive`, the time and its envelope, and the refusal of a packet without a context.
`told` is history.  `ConversionContext` has a packet's context as it is written and read (directions
by name, the unit by its number in either enumeration), and the conversion as a signed permutation
and a pair of integers for the scale, applied to vectors, quaternions and matrices as in
`context.cpp`.

### NngConnector, PingServer, LiveLinkSource

One object of a class that a behaviour chooses.  `Steps` lists the calls of each class's `start`, in
order; `CallSucceeds` and `CallFails` are one of them, so a start can end behind each of its calls and
be tried again on the same object.  nng is the environment: `Received` and `ReceiveFails` end the
receive the aio waits for and run a callback, and a callback is three steps, because the next one may
begin as soon as it has armed the aio again, and the result an aio holds is one cell.  A message of no
bytes (`Empty`) is received and not handed over (`nng_connector.cpp:338`).  Stop is closing the socket,
waiting for the aio, and forgetting it: `dropped` is the aio no destructor will free.  `failedAt` is
history, the calls at which starts have failed.  In all of this the receiver's function is set before
the start, as its one caller does, the Unreal server (`UOpen3DServer.cpp:60`).  `ReadMessage`, `Relay`
and `ShowMessage` are the loops over the blocking classes and the buffer that grows.

The ping server's works change their state in callbacks only; the sleep that would end a work's wait
is commented out in the source, and `ServerCb` says so.

In `LiveLinkSource` each statement of `OnPackage` that touches a map or LiveLink is a step, as is each
of `RemoveInactiveSubjects`; `server` says whether packets come in the game thread's tick, on the UDP
socket's thread, or on nng's threads, of which several may be in `OnPackage`, because the connector
arms its receive before it hands over (`nng_connector.cpp:326`).  Each of `Handlers` then goes through
the list as it was when it had parsed its packet.  The map operations of one statement are taken as
atomic: in the code they are a data race over nng and UDP, which may also corrupt a map; the model
gives the outcomes in which it does not.

### TcpFrames, TcpSocket, MobuDevice, MayaDevice

`TcpFrames` has the stream of bytes between `WriteTcp` and `ReadTcp`: the three sends of a frame, each
of which may do nothing when the socket would block, a write that breaks off, ticks that read any part
of what is there.  A length is four bytes, the lowest first (`LengthBytes`), most of which are 0, as the
header's first byte is.  `TcpSocket` has the sockets the process has open; the throw for an unknown host
(`tcp.cpp:95`), which leaves the object its socket and makes none, is left out.  `MobuDevice` keeps what `Start`,
`Stop`, `Reset` and the layout's callbacks change, and the frame counter; `junk` is a value of
`mNetworkSocket` nobody wrote (`FBCreate` leaves it out), and every test of it goes either way.  The
layout's controls follow the device at the next idle event only (`EventUIIdle`): until then an online
device's list can be edited.
`MayaDevice` has the device thread's two loops, the storage and `compute`, which shows what the list holds
whether or not the packet could be parsed, and ends Maya when there is no subject of the name asked for
(`ComputeNoSubject`: `update` is called before the test, `threadedDevice.cpp:402`).

### FbxScene, XsensParser

`FbxScene` loads every tree of nodes, some of them meshes, with and without namespaces (in its run:
four nodes below the root, two namespaces, one mesh).  The loader's two recursive functions are recursive
functions here, whose argument is the call: the node, the list so far, the parent's number.  A player that
has loaded nothing has `NoScene`.  `XsensParser` takes
messages with any segments: a name is its place in the parser's table, and `Segment` is the search
that adds what the message leaves out.

## 3. Runs

| run | asks | bounds |
|---|---|---|
| `stream_drift` | do errors of delta coding add up? is the stream one of whole poses? | one subject, one joint, 4 values, cast to even values, threshold 1, period 3, queue 1; toggle and loss |
| `stream_shapes` | updates of one skeleton met by another | skeletons of one and two joints that share a name at different indices, rotations with `Unset`; rebuild and loss |
| `stream_repair` | does the full packet repair everything? (liveness) | one subject, period 2, queue 1; all five kinds of events |
| `stream_keyframe` | schema's promise of a full packet when the structure changes | violated, see findings |
| `hierarchy_worlds` | right matrices after any calls before, failed ones too? does every call end? | 13 lists of three transforms, then a subject of one; conversion on and off; overflow in a product, and in one of the lists in a transform itself (`OneOverflow`) |
| `hierarchy_cycle` | does `true` mean all matrices were computed? | violated, see findings |
| `udp_ordered` | is UDP without reordering the channel expected? | lengths 1, 2, 4, 5 with fragments of 2, four frames, ids that do not wrap |
| `udp_unordered` | what is left with reordering, duplicates, restarts, wrapped ids | lengths 2, 3, 4, three frames, ids modulo 3 |
| `connectors` | what connectors hand over, lose and leave running; what several threads do to the LiveLink source | each of sixteen classes, two starts, four messages of sizes 3, 0, 2, 4 for a buffer of 2; two subjects, two threads that may handle packages, times 0 to 2, threshold 1 |
| `ping_unanswered` | is every ping answered? (liveness) | two works, three pings; violated, see findings |
| `plugins` | are the parts around the stream right, one at a time? | see below |
| `device_silent` | are frames the device is notified of sent? | violated, see findings |

`connectors` and `plugins` check several components each.  `MCConnectors` and `MCPlugins` put modules
that share no state side by side: a behaviour is one of a single component, which its first step or the
variable `part` chooses, so that the states add up and do not multiply, and each property is about one
of them.

Why the bounds are enough.  *Drift*: a threshold of one and a cast that loses one make every one
of "below", "at" and "above" the threshold occur, with and without the error of the cast; the
theorem covers all other values.  *Shapes*: of the two skeletons one has an index the other has
not, and index 0 is another joint in each; that is all an index can do wrong.  *Queue of one*:
full after one packet, so drops happen; longer queues are covered by the theorems.
*Hierarchy*: the lists hold trees, forests, children before parents, self-parents, 2-cycles,
parents out of range, no root; a second subject shows what an early return leaves to it.  The constraint
`OneOverflow` has the values that overflow by themselves (`Burst`) only in the list that needs most
sweeps, and not beside those that overflow in a product (`Huge`); no property of the run is one of
liveness.  *UDP*:
lengths are one fragment short, one exact, two exact, two and one byte; four frames let one be
complete while an older and a newer one are partly there, which is what erasing needs.

*Connectors*: a second start on the object of the first is what can leak and mix, a third would be as
the second; four messages are two pairs for the pipeline that loses every other one, one of them is
empty, and they let `len` go down and up past the buffer's size.  *Ping*: three pings are one more than
works.  *LiveLink*: two subjects of different names, one of which may be silent while the other is in
hand; a clock of 0 to 2, which passes the threshold of 1 for either; two handlers, because what matters
is that one is ahead of another.  `FewInHand` leaves packages that overlap two subjects between them,
the same or different ones, which interleaves every step of one subject with every step of the other;
the theorems on the three safety properties have no such bound, and for `SourceStops` the game thread
waits for each handler, whose steps do not depend on the others'.  *Plugins*: `MaxWrites` 2 and
`MaxDials` 2 give a frame behind a torn or refused one and a connection behind it, with a header of two
bytes and packets that begin with a 0, that hold a header, and that are, with `MaxBucket` 3, too long;
`MaxAddresses` 3 is one more than `Connect` ever tries; `MaxSubjects` 2, `MaxEdits` 3, `MaxSends` 3 let
a subject be defined, changed and defined again by a sender that started again; `MaxItems` 2, `Period`
1, `MaxFrames` 3 let the device's counter pass its period; `MaxPackets` 3 is one packet behind a lost
block; 48 contexts (each way the axes may point), one that is not valid and two of other units, over a
point without equal coordinates and sixteen quaternions; all scenes of four nodes below the root; poses
of up to two segments over a table of four, in three datagrams, which is names, pose, pose again.
Subjects' uuids, models and namespaces are symmetric there: `plugins` checks invariants and action
properties only.

`CHECK_DEADLOCK FALSE` is in the runs whose bounds stop the system: `MaxFrames` of the UDP sender, a
deleted connector, the edits, datagrams and packets of `plugins`.  The other bounds are constants of
the code's own: period, capacity, lists.  `MaxConversions` cuts the count of conversions at two, which
already is wrong.

What the runs show of UDP, and what they do not promise.  In order, it is `FrameChannel`, and a
frame of which everything was received is handed over, in spite of the freed element.  Out of order
or after a restart of the sender only the weaker properties hold, and that is as much as the code
does: under one id, frames of two runs of the sender of equal length are put together from pieces of
both (each byte is right for its place, which is what `RightBytes` says; the packet's CRC then has
to refuse it), and frames of different lengths refuse each other's fragments, so one that was
received in full may never be handed over.

### Fairness

`FairSpec` of `SubjectStream` asks weak fairness of `StreamFrame` (the loop is a timer or a `while` that
passes its body for ever) and of `Parse` (a receiver that has a packet parses it, unless it is lost
first).  Nothing is assumed of the application, the network, or of a queue that happens to have room;
`Repaired` instead has the premise that from some time on the subject stays enabled, the queue has
taken the last packet, none is missed and no pose is refused.

`Fairness` of `NngConnector` asks that nng ends a receive that can end and runs the callbacks it has
begun, each on a thread of its own (so one that is blocked does not stop another), and that a thread
inside stop goes on.  Nothing is asked of the owner or the peer.  Under it a call of stop returns, even
with a callback blocked in a second receive (`StopReturns`): the socket is closed before the aio is
waited for.  `EventuallyHanded` is about the classes whose callback arms the receive again.

`LiveFairness` asks that all threads of the LiveLink source are run on when they are inside a function;
when packets come and the source is shut down is left open.  `SourceStops` then holds whatever the
socket's threads were doing.

`PingFairSpec` asks that nng ends each operation a work has begun, a receive only when there is a ping.
That is what the ping server may rely on; that it leaves pings unanswered in spite of it is a finding.

### Findings

* `stream_keyframe`: `o3ds.fbs:81-82` says a full packet is sent "when the subject's structure
  changes".  The loops send it by the frame counter only; after `TraverseSubject` updates describe a
  skeleton the receiver does not have.  Of the programs of the repository `FbxStream` never rebuilds a
  subject and the device never sends (`device_silent`), so it takes another user of the library to see it.
  `SkeletonWhole` and `Repaired` say what remains true.
* `hierarchy_cycle`: `calcMatrices` has an error "Cycle detected in transform hierarchy", which is
  dead code: a sweep that finds nothing ends the loop first (`CycleNeverReported`, proved).
  With a cycle beside the root it returns true and those transforms have no world matrix.
* `device_silent`: "Called per frame to send data" (`device.cpp:419`).  `serialize` returns whether it
  made a packet, the device takes that for the packet's length (`device.cpp:439`), and the test parse of
  a packet of one byte ends the notification before anything is sent, every time.  The counter is set
  back behind that test, so one full packet is made in the device's life (`DevTypeOK`).
* `ping_unanswered`: `o3ds_pingServer.c:12-15` calls each work "a request-reply loop", and the client waits
  for the reply and prints how long it took.  The sleep that would bring a work from `WAIT` to its reply is
  commented out (line 61): no ping is answered, and each takes a work for good.
* The aio, in `connectors` by `LossesAccountedFor`: `AsyncNngConnector::stop` sets `aio = nullptr` and
  does not free it (`nng_connector.cpp:157`), so that the destructor, which would, finds none.  Every
  stop of an asynchronous connector that has an aio loses it.  A start that is tried again loses what
  the failed one made, too, except in the push connector's connect, of which a comment says that
  retries should not leak (`async_pipeline.cpp:60`).  The property says that nothing else is lost, and
  that what stop dropped stays allocated.

Other things the models had to follow.  Some disagree with a text of the repository, though none so plainly
that it would be a property of its own:

* *nng.*  The pipeline's callback drops the message its receive ended with and waits for another, so
  every second one is lost (`Heard`), and a callback may be blocked so when stop is called.  Request and
  reply open the same kind of socket, and neither hears anything, though `async_request.h:37` speaks of
  its "common Callback function to get messages".  After an error the receive is not armed again.
  `connected` of the subscriber is never cleared; nothing reads it.  `read` sets `len` always, where
  `base_connector.h:58-60` says that only a resize does: `len` may be less than the buffer has, never
  more (`BufferHolds`).  The Repeater reads from a `PipelinePull`; `sphinx/utilities.rst:18` names
  `ServerPair`.
* *TCP.*  `Connect` looks for the next address at the first one, so a third is never tried, and where
  the second refuses it goes on for ever (`tcp.cpp:109`).  A connect that throws forgets its socket.
  Clients of the device's server outlive its stop.
* *LiveLink.*  On several threads the source may remove a subject that is being pushed, and believe that
  LiveLink knows it; its frames are then ignored until it is silent for the threshold and comes again.
  It is never left in LiveLink for ever (`MapsAgree`).  Any packet stamps all subjects of the list.
* *Maya.*  A handle that cannot be had in `compute` returns before the only block of storage is
  released: the node shows nothing from then on (`LostBlockIsDeaf`).  A thread that begins late takes
  back a request to end.
* *Lists.*  The first packet's context is accepted even if it is `Unknown`, which `o3ds.fbs:13` tells
  readers to treat as an error; a later one is refused, after the time was taken over.
* *Device.*  A row is also an index of `Items` without a test; `FbxRetrieve` adds subjects the layout
  does not show, which is safe only because it adds them behind the others (`RowsAreSubjects`).  A UDP
  socket is never closed.  The guard against a notification inside another (`device.cpp:410`) is made
  and not asked; the model takes a notification as one step.
* *XSens.*  Whether a segment has a scale is asked of its place in the table, and the scale taken is
  that of its place in the message; a character id that skips one, and a name behind the table, read
  what is not there (`running = "wild"`).

### Mutants

Every property of every passing run has a definition beside the original, commented "Mutant of",
that makes a plausible mistake (a forgotten `sent()`, an index from one, a list not cleared, a
counter stuck, a last fragment at full length) and breaks the property in its own run.

## 4. Proofs

| theorem | module | says |
|---|---|---|
| `TypeCorrect` | `SubjectStreamProofs` | `Spec => []TypeOK` |
| `StreamCorrect` | `SubjectStreamProofs` | `Spec => []StreamInv` |
| `Accurate` | `SubjectStreamProofs` | `Spec => []ShownPoseAccurate` |
| `StreamsPoses` | `SubjectStreamProofs` | `Spec => WholePoses` |
| `WholeSkeletons` | `SubjectStreamProofs` | `Spec => []SkeletonWhole` |
| `TypeCorrect` | `HierarchyProofs` | `Spec => []TypeOK` |
| `NoCycleReported` | `HierarchyProofs` | `Spec => []CycleNeverReported` |
| `CallsTerminate` | `HierarchyProofs` | `Spec => CallsEnd` |
| `Settles` | `HierarchyProofs` | `Spec => []WorldsSettled` |
| `WorldsRight` | `HierarchyProofs` | `Spec => []RightWorlds` |
| `OverflowStays` | `HierarchyProofs` | `Spec => OverflowSticks` |
| `TypeCorrect` | `UdpFragmentProofs` | `Spec => []TypeOK` |
| `OnlyRightBytes` | `UdpFragmentProofs` | `Spec => []RightBytes` |
| `NoneWaits` | `UdpFragmentProofs` | `Spec => []NoneLeftComplete` |
| `NoPieceTwice` | `UdpFragmentProofs` | `Spec => []NothingUsedTwice` |
| `Implements` | `UdpFragmentProofs` | `Spec => InOrder`, for `OrderedNetwork` |
| `ReceivedHandedOver` | `UdpFragmentProofs` | `Spec => []ReceivedIsHandedOver`, for `OrderedNetwork` |
| `PoseKept` | `ListProofs` | `CtxSpec => []SamePose` |
| `CtxTyped` | `ListProofs` | `CtxSpec => []CtxTypeOK` |
| `ListsTyped` | `ListProofs` | `ListsSpec => []ListsTypeOK` |
| `EnvelopeRight` | `ListProofs` | `ListsSpec => []EnvelopeOfItsTime` |
| `OnceListed` | `ListProofs` | `ListsSpec => []ListedOnce` |
| `SaidIsShown` | `ListProofs` | `ListsSpec => ShownAsSaid` |
| `QuietWhenStopped` | `ConnectorProofs` | `Spec => []QuietAfterStop` |
| `LossesKnown` | `ConnectorProofs` | `Spec => []LossesAccountedFor` |
| `HeardOnce` | `ConnectorProofs` | `Spec => []Heard` |
| `RelayedInOrder` | `ConnectorProofs` | `Spec => []RelaysInOrder` |
| `BufferNeverOverrun` | `ConnectorProofs` | `Spec => []BufferHolds` |
| `NeverAnswered` | `ConnectorProofs` | `PingSpec => []PingsUseUpWorks`: why `ping_unanswered` is violated, for any number of works |
| `ClientIsThere` | `ConnectorProofs` | `LiveSpec => []ClientThere` |
| `NoSubjectForgotten` | `ConnectorProofs` | `LiveSpec => []MapsAgree` |
| `OnlyTheSilentLeave` | `ConnectorProofs` | `LiveSpec => RemovedOnlyInSilence` |
| `ConnectorsTyped` | `ConnectorProofs` | `MCSpec => []ConnectorsTypeOK` |
| `ConnectorsApart` | `ConnectorProofs` | `MCSpec => Spec /\ PingSpec /\ LiveSpec` |
| `TcpInStep` | `ParserProofs` | `TcpSpec => []InStep` |
| `FramesWhole` | `ParserProofs` | `TcpSpec => []WholeFrames` |
| `TcpBufferFits` | `ParserProofs` | `TcpSpec => []BufferFits` |
| `TcpTyped` | `ParserProofs` | `TcpSpec => []TcpTypeOK` |
| `XsensInPlace` | `ParserProofs` | `XsensSpec => []SegmentsInPlace` |
| `XsensTyped` | `ParserProofs` | `XsensSpec => []XsensTypeOK` |
| `SocketsAccountedFor` | `PluginProofs` | `SockSpec => []OnlyFailedConnectsLeak` |
| `DeafForGood` | `PluginProofs` | `MayaSpec => LostBlockIsDeaf` |
| `RowsMatch` | `PluginProofs` | `DevSpec => []RowsAreSubjects` |
| `ScenesAreTrees` | `PluginProofs` | `SceneSpec => []ItemsAreNodes` |
| `SockTyped`, `MayaTyped`, `DevTyped`, `SceneTyped` | `PluginProofs` | the types of each, as `SockSpec => []SockTypeOK` |
| `PartsApart` | `PluginProofs` | `PluginsSpec` implies the eight parts' own specifications |
| `PluginsTyped` | `PluginProofs` | `PluginsSpec => []PluginsTypeOK` |

**Assumptions** are those the modules name.  `StreamAssumption`: values are integers with a zero,
`Unset` is not one of them, the cast is off by at most `Ulp`, period and capacity are positive,
skeletons are lists from index 0.  `HierarchyAssumption`: parent lists are functions from `0..n-1` to
integers (any integers), overflowing values are values, `NaN` is not.  `UdpAssumption`: frames have at
least a byte, fragments too, and ids some modulus.  `LiveLinkAssumption`: there are finitely many
subjects, at least one.  `ConnectorAssumption`, `ListAssumption`, the sockets' and Maya's: the bounds
are numbers, a message has a size.  `WorksAssumption`: there are finitely many works.
`ContextAssumption`: coordinates are integers that every change of unit divides, so that nothing is
rounded; the code computes in floating point.  `TcpAssumption`: a header of two bytes at least begins
with its only 0, as the code's does, a packet is not empty, and its length fits four bytes.
`XsensAssumption`: in the parser's table each segment's parent is before it.  `DeviceAssumption`: a
period is not zero, and a packet that is worth sending is longer than one byte (the code asks for
eight).  `SceneAssumption`: the numbers are numbers.  TLC evaluates them in every run of their modules.
Two theorems, `Implements` and `ReceivedHandedOver`, have a premise beside that: `OrderedNetwork` says
that datagrams may be lost, but are not reordered or doubled, that the sender is not started again, and
that fewer frames are sent than there are ids.  That is what `udp_ordered` checks; `udp_unordered`
shows what is left without.

**Accuracy.**  `ShownPoseAccurate` is not inductive: it speaks of the packet last parsed only.
`StreamInv` carries the argument along the stream.  A packet keeps, as history, the baseline (each
`lastSentValue`) its serializer left behind.  `QueueSound` says that each packet in the queue
*continues* the one before it: its update takes any list that agrees with the baseline before to one
that agrees with the baseline after, for each subject not rebuilt, unless a packet was dropped
between; the last one is up to date with the sender.  `Joined` says the same where the queue meets
the receiver, `SyncedSound` that a synced subject agrees with the baseline of the packet last parsed
and that baseline is within the threshold of the pose.  `SentKnown` says that what went into a full
packet is not `Unset`.  Threshold and one cast then add up once, never more.  No run checks
`ShownPoseAccurate` by itself: `stream_drift` checks `WholePoses`, whose `Take` says the same of each
step, and more.

**The stream of poses.**  `StreamsPoses` maps each action to one of `PoseStream` or to none: `Move` is
`Animate`, `Rebuild` is `Reshape`, the two serializers are `Send` (both leave the poses alone,
`MarkedPose`, and hand over a frame of them, `WriteSends`), `Parse` is `Take`, `Lose` and `Restart` are
themselves; toggles, refused frames and the end of the clip are nothing.  `ParseTakes` is the one that is
not a matter of names: that a taken pose is shown closely is `SyncedSound` behind the step, and that other
subjects are left alone is `PacketOK`, by which a packet has nothing on a subject without its pose.  The
queue's functions mean the same for frames as for packets (`FramesFacts`).

**World matrices.**  `CallInv` follows a call.  `FlagsInv`: what is flagged is built from a flagged
parent.  `DoneInv`: behind the index of a sweep that has found nothing, everything waits for a
parent without a matrix; at the end of such a sweep that is all of them, which is `WorldsSettled`.
`SweepInv` counts: each sweep but the current one has flagged a transform, so sweeps never outnumber
transforms and the error for cycles is not reached.  `FinishedInv` carries the subjects already
done past the others' steps.  `WorldsRight` is about paths where `WorldsSettled` is about one step: the
flags are a fixpoint, and by induction over the way up from a transform (`PathFound`) and over the
generations below a root (`ReachedAll`) they are the transforms a root leads to, each with the product
along its path.  A way up without a root would be longer than there are transforms (`PathShort`).

**Calls end.**  `StepsLeft` bounds what a call has still to do for the subject at hand, from where it is,
the sweeps begun and the index.  By `StepsByPlace` it is a number, because sweeps do not outnumber
transforms, and `StepsFewer` has each statement lower it; the subjects are gone through once.  That is why
a call takes no more than `n * (n + 2) + 4` statements for `n` transforms.  That some statement can always
be taken is in TLC's search for deadlocks.

**Overflow.**  `FiniteInv` says that a call gets past a subject only if all its matrices were finite
and leaves them finite, so `ok` and an overflowed subject exclude each other; no action but
`Replace` makes an overflowed matrix finite, because `Update` looks before it computes.

**UDP.**  `UdpInv` adds `PiecesInv` to the four properties: a datagram in flight is a fragment of a
frame that was sent, and in every combiner each byte of a fragment marked as found is that byte of
a frame sent with the combiner's id and length.  The arithmetic is in lemmas: fragments cover a
frame (`FramesFacts`, `PlaceFacts`), each ends within it (`LengthFacts`), so `addFragment`'s guards
let every fragment of this sender pass and no copy leaves the buffer (`AcceptSound`).  A datagram
touches one combiner, so only that one can become complete; `getFrame` then hands over that one
and, whatever it reads from the element it has erased, keeps only other ids (`ReceiveSound`).  The
theorems hold with any mix of loss, reordering, duplicates, restarts and wrapped ids.

In order, `OrderedInv` says where everything is: `InTurn`, the datagrams in flight are in the order of
their frames and pieces, behind all that was received; `HeldInTurn`, a combiner is that of a frame behind
the one handed over and not behind one in flight; `PiecesHeld`, every piece received and not handed over is
in its frame's combiner, or its frame was passed over.
Then the frame a datagram completes is the newest, `getFrame` empties the mapper whatever it reads from the
erased element, and the abstract channel takes the step that hands over that frame.  `Implements` maps
`Send` to the channel's `Send`, `Receive` to `Deliver` or a stutter, `Lose` to a stutter.

**Connectors.**  `OwnerInv` says when a receive may be under way or called back: from the call that
begins it, behind which no call of any start can fail, until stop has waited for the aio.  So a start
that fails has none, and `QuietAfterStop` follows.  That rests on the order of the calls, `WellOrdered`,
which is a lemma about the eleven tables: the socket is opened first and once, the aio is made once and
before the receive, and behind that is nothing but the assignment of the state.  `LeakInv` adds what
the object knows in the middle of a start: no other socket is open, and no aio before its call; and an aio
that stop has dropped is never freed, because nothing follows stop but the deletion.

`HeardInv` adds where messages are while the socket is open.  `QueueInv`: they leave the queue in the
order of their numbers.  `TurnsInv`: one thing at a time can take one, the armed receive or the one
callback that has not armed it again; any number of others are past that and have theirs in hand.
`OnceInv`: hence a message that was taken is in the aio, with one callback, or handed over, and in one
of these only, or it is empty and dropped, and none that was handed over is empty.  `PullInv`: the
pipeline has one callback, which takes twice as many as it hands over.  `ReaderInv`: a reader has read
just what was taken, the one in the buffer is the last, what was published is of those before it, and
the buffer is no smaller than the length `read` looks at.  For the types, `ConnectorsTyped`, a callback
that has a message in hand has one with a number, and no start has more than nine calls.

**Ping server.**  `PingInv`: a work either receives or waits for ever, and nothing is answered; a ping
that was taken turns one of the first into one of the second.  It is no promise of the server's, but what
it does instead of answering.

**LiveLink.**  `LiveInv` has four parts.  `JobInv`: there is a client exactly while the game thread is
between its first call and the end of shutdown, and no package is in hand outside that.  `TimeInv`:
each name's last update is no earlier than the last good pose of its subjects, but for those still in
the hands of one of the handlers; a sweep that began earlier has an earlier time, so what it removes
was silent.  `Tracked`: what LiveLink knows has an update time, is in hand, or is about to be removed.
`OneThreadInv`: with TCP, the difference of the three maps at each statement of both functions.

**TCP frames.**  `Framed` lays frames of any lengths one behind another over a sequence of bytes, the
last of them cut short while it is being written.  `StepInv`: as long as nothing was torn or thrown
away, what the reader's buffer and the stream hold is so laid out, beginning with the frame behind
those delivered.  A reader that once threw something away may be anywhere, and `WholeInv` says where:
of the bytes of all frames ever sent, a front was delivered or thrown away, the rest is what is in the
buffer and the stream, and a reader that has found a header is where a frame starts.  A reader that has
a part of a header may be anywhere: packets and lengths are full of bytes 0.  But a whole header that
begins inside a frame would lie within its length and packet, which the premise of `WholeFrames`
excludes, and only that (`HeaderInside`), or reach into the next frame; there it would have that
frame's first byte, a 0, past its own first byte, and it has no other 0.  So a header is where a frame
starts (`HeaderStarts`).  What it delivers then is the packet of the frame it is at (`WholeFrame`),
which lies behind the last one delivered (`TakenOneMore`).  `ReadInv` has the reader's three states and
`BufferFits`.

**Lists.**  `ListsInv` says that the receiver's list is `Listed`: two subjects share a uuid only if it came
under two kinds.  Why a packet keeps that, and what it leaves, is a matter of its entries one by one:
`DefinitionStep` and `UpdateStep` say what one does to the subject of each uuid (`Shown`: each subject has
the matrix of the last definition or update for it so far, and its lens), the folds over the entries of a
kind and over the kinds follow by `FoldKeeps`.  `ShownAsSaid` is an action property: it relates the list
after a step to the packet the step took in.  It speaks of the *last* entry for a uuid, because a sender
may list one twice.

**Conversion.**  `CtxInv`: the list has the conversion between its context and the last sender's, both valid.
Such a conversion is a signed permutation of the axes (`ConversionFacts`).  `SamePose` then has three
parts: a converted point has in each slot the sender's coordinate of that axis (`PointKept`, where the
two divisions by units cancel); a row of the matrix picks the same slot with the same sign, so that a
matrix moves its translation as a point (`MovedInMatrix`); and a converted quaternion has the matrix
that the converted matrix has, entry by entry, as `Flips` finds the sign of the permutation by counting
inversions (`PermutationTurns`, `RotationKept`).

**XSens.**  `Table`: the names in a subject's list are those of the parser's table up to some place, each at
its own, whatever segments a message has.  Adding what a message leaves out keeps that (`SegmentFacts`),
and a parent, being before its child in the table, is there to be looked up.

**Sockets.**  `SockInv` adds to the three parts of `OnlyFailedConnectsLeak` that the numbers of open
sockets are below the next one's, that clients are in no order but each once (so that their count is
the sequence's length), and that only an object with a socket is connecting: then every step adds one
socket to what is known, takes one away, or, in `Refused`, turns the known one into one that is not.
**Maya.**  `MayaInv`: of the one block it is always known whether it is free, in the queue or lost, and
packets in the queue are in order and not older than the one shown.  **Rows.**  `RowsInv`: the rows are
the front of the device's subjects; additions and retrievals, which are folds, only add behind it.

**The scene.**  `ItemsAreNodes` says that what the loader returns is right: a subject for each top (a node
with a namespace below nodes without one), and in its list each member of its skeleton once, behind its
parent and with its parent's number.  `SceneInv` has it for the scene loaded.  What the two functions return
is shown for every list they are called with: `Lists(r, items, n, pid, S)` says that `r` is `items` and
behind it the nodes `S`, `n` first, each below a node of the same part; `Finds(r, subjects, S)` that `r` is
`subjects` and behind it a subject for each top of `S`.  `ListRight` and `FindRight` are by induction over
the nodes from the last one down, as children have larger numbers, and in each case over the loop through
the children.  What keeps a node from being listed twice is that what is below two children is apart
(`UnderApart`) and that, with the node itself, it is all that is below (`UnderSplits`, `MembersSplit`).

**Parts side by side.**  `PartsStep`: a step of `MCPlugins` is a step or a stutter of each part, and a
part that was not chosen is in its initial state.  So `PluginsSpec` implies each part's specification
(`PartsApart`), and `PluginsTyped` puts together the types proved for each; of the device, that rests on
the counter being zero only before its first full packet (`FramesTyped`).  `ConnectorsApart` is the same of
`MCConnectors`.  By these two, every theorem about one part holds in the run that checks it.

**Folds and recursion.**  The library's induction theorems take an operator, which no prover here can
instantiate.  `Induction` has induction over a *set* of numbers (`SetInduction`, by a least element that
is missing), and from it that a fold over a sequence has a solution (`FoldExists`) and keeps what each of
its steps keeps (`FoldKeeps`, `FoldStays`), and that a function defined by recursion over ranks exists
(`RecursionExists`), without which nothing follows from the equation that defines it.  `RightWorlds`, the
lists, the rows, the XSens table and the scene are proved with it.  No module declares a `RECURSIVE`
operator.

**Only model-checked.**  The four liveness properties `Repaired`, `StopReturns`, `EventuallyHanded` and
`SourceStops`: liveness under fairness and `ENABLED` are beyond TLAPS.  So is the violated
`EveryPingAnswered`.  Every other property of a passing run is a theorem of the table above.

## 5. What is not modelled

* Numbers: a pose component is an integer, a matrix a product of names.  Floating-point rounding
  beyond the cast, quaternion distance as such and Eigen are abstracted.
* The fields of the time envelope, the labels of a context other than axes and units, a camera's film
  back and aspect (the latter is never serialized).
* Functions nothing in the repository calls: three of the four reads of the blocking connectors, the
  blocking write of `Publisher`, `TcpSocket::Receive`, `ReceiveToToken`, `Disconnect` and the `Connect` to
  one address, the writing half of the binary stream.  A caller would decide what they must do.
* UDP sockets: thin wrappers of system calls.  The fragments above them are in `UdpFragment`.
* Websocket connectors: in no target of the build and used by nothing; `onFail` starts a thread for each
  attempt and the server's threads share a set of connections without a lock.
* Data races inside a container (`LiveLinkSource`'s maps) beyond the order of whole operations.
* What draws and formats: dialogs, controls, status texts, the size the layout shows (which it finds by
  serializing, and so marks values as sent), the joint filter, the making of bone transforms for
  LiveLink, Maya's mesh node and commands.
* `XSensTest`'s and `FbxStream`'s `main` beyond their loop: they use an older interface of the library.
* The device's loop never sends (`device_silent`).  The stream is modelled on `FbxStream`'s loop, which is
  the same loop with another period, and `UdpFragment` and `TcpFrames` on the branches behind that step.
* The Python listener, generated and vendored code.

## 6. Plan

What was planned is done: each module of the table has its run, and each property of a passing run but the
four of liveness its theorem.  Worth doing next:

1. The stream over a transport: `SubjectStream` has a way to the receiver that keeps order and may lose
   packets, which is what `FrameChannel` promises.  A module that composes it with `UdpFragment` would say
   what `udp_unordered` means for the poses shown.
2. Of section 5, the websocket connectors, as soon as a target builds them.
