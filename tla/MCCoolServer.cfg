SPECIFICATION FairSpec
CONSTANTS
    Clients = {c1, c2}
    AddrSize = 32
PROPERTY ConnectIsServed
