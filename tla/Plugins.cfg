SPECIFICATION PluginsSpec
CONSTANTS
    Header <- Marker
    Packets <- SomePackets
    MaxBucket = 3
    MinBuffer = 3
    MaxWrites = 2
    MaxDials = 2
    MaxAddresses = 3
    MaxSockets = 4
    SubjectUuids = {u1, u2}
    MaxSubjects = 2
    MaxEdits = 3
    MaxSends = 3
    Models = {m1, m2}
    Period = 1
    MinPacket = 8
    MaxItems = 2
    MaxFrames = 3
    MaxPackets = 3
    Contexts <- SomeContexts
    Metres <- Lengths
    Points <- SomePoints
    Namespaces = {a, b}
    NumNodes = 4
    MaxMeshes = 1
    parentIndex <- SomeParents
    MaxSegments = 2
    MaxCharacter = 1
    MaxDatagrams = 3
INVARIANTS PluginsTypeOK InStep WholeFrames OnlyFailedConnectsLeak RowsAreSubjects
    SamePose EnvelopeOfItsTime ListedOnce ItemsAreNodes SegmentsInPlace
PROPERTIES LostBlockIsDeaf ShownAsSaid
SYMMETRY Symmetry
CHECK_DEADLOCK FALSE
