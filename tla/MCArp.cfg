SPECIFICATION Spec
CONSTANTS
    ARP_TABLE_SIZE = 2
    ARP_MAXAGE = 4
    ARP_MAXPENDING = 2
    ARP_AGE_REREQUEST_USED_UNICAST = 0
    ARP_AGE_REREQUEST_USED_BROADCAST = 2
    h1 = h1
    h2 = h2
    h3 = h3
    Hosts = {h1, h2, h3}
    Gateways = {h1}
    Far = far
    Servers = {h1}
    Clients = {far}
    Macs = {m1, m2}
    Packets = {p1, p2}
    None = None
SYMMETRY MCSymmetry
CONSTRAINT NoRace
INVARIANTS
    TypeOK
    RightHost
    NoPbufLeak
PROPERTIES
    SteadyUse
