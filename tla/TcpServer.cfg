\* Three loops, two clients and descriptors for one or two connections: every
\* order of the nodes and the address of the clients on the ring.
SPECIFICATION Spec
CONSTANTS
    numThreads_ = 3
    numReplicas_ = 1
    Keys = {1}
    RingSize = 8
    HashFunctions <- MCHashFunctions
    MaxConns = 2
    FdLimits = {1, 2}
INVARIANTS
    ConnectionOutlivesUses
    ServerOutlivesUses
PROPERTIES
    DescriptorReturned
    BacklogServed
    LivesSpec
