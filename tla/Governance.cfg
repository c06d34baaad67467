SPECIFICATION MCSpec
CONSTANTS
    a = a
    b = b
    e1 = e1
    e2 = e2
    e3 = e3
    i1 = i1
    i2 = i2
    b1 = b1
    b2 = b2
    g1 = g1
    g2 = g2
    t1 = t1
    t2 = t2
    None = None
    Unset = Unset
    Recorders = {a, b}
    Transactional = {a, b}
    Builds = {b1}
    EventIds = {e1, e2, e3}
    Idents = {i1, i2}
    Last = 2
    MaxCrashes = 1
    Callers = {a, b}
    VaultBuilds = {b1, b2}
    Payloads = {i1, i2}
    Authorizations = {g1, g2}
    MaxDeaths = 1
    Tasks = {t1, t2}
    Shapes <- MCShapes
    LastSlot = 6
    Lookback = 5
    ImpulseLength = 1
    BaseLength = 1
    PullbackSearch = 2
    ReaccelSearch = 1
    Cooldown = 2
    ForwardStart = 2
    MinMove = 3
    MinRetrace = 20
    MaxRetrace = 60
SYMMETRY MCSymmetry
INVARIANTS
    OneIdentity
    OneStory
    PullbackSampleIsSound
PROPERTIES
    NoRetroactiveEvent
    BoxSpec
