\* One message of the user's own among three of the peer's, on pages of two.
SPECIFICATION FairSpec
CONSTANTS
    Ids = {m1}
    Peer = Peer
    PageSize = 2
    MaxPeer = 3
    None = None
INVARIANTS
    TypeOK
    Delivery
    ReadCovered
    CursorComplete
PROPERTY
    ReadCatchesUp
