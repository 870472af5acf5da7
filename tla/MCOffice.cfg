\* Two handlers race in every component; one address with two passwords, two
\* replicas with Redis between them or one without, two users and two packs, two
\* releases on one channel, two licences of one customer, two processes that may
\* each make an authority, two quotes, one product with two licences.
CONSTANTS
    Hands = {h1, h2}
    Ones = {x1, x2}
    Emails = {e1}
    Passwords = {x1, x2}
    ExternalIds = {w1}
    Askers = {h1, h2}
    MaxResets = 2
    Lockout = 2
    MaxWrong = 3
    Nobody = Nobody
    Replicas = {x1, x2}
    Handlers = {h1, h2}
    MaxGrants = 2
    Redis = Redis
    NoReplica = NoReplica
    Holders = {x1, x2}
    small = small
    large = large
    Packs = {small, large}
    PackSize <- MCPackSize
    Desks = {h1, h2}
    BaseSeats = 1
    MaxInvites = 2
    Vacant = Vacant
    ReleaseIds = {x1, x2}
    Versions = {y1, y2}
    Channels = {stable}
    Components = {aos}
    ImageOf = aos
    Filename = file
    Bodies = {y1, y2}
    Edits <- MCEdits
    Clerks = {h1, h2}
    MaxBegun = 4
    Missing = Missing
    Licences = {x1, x2}
    k1 = k1
    Tenants = {k1, k2}
    GrantIds = {y1, y2}
    Officers = {h1, h2}
    NoLicence = NoLicence
    Processes = {x1, x2}
    Calls = {h1, h2}
    MaxGenerated = 2
    Serials = {1, 3}
    Padded = {3}
    Modulus = 4
    NoAuthority = NoAuthority
    QuoteIds = {x1, x2}
    Orders <- MCOrders
    Prices <- MCPrices
    Offices = {h1, h2}
    MaxSales = 2
    NoQuote = NoQuote
    Goods = {g1}
    Copies = {x1, x2}
    Listings <- MCListings
    Managers = {h1, h2}
    NoGoods = NoGoods
SPECIFICATION OfficeSpec
SYMMETRY Symmetric
CONSTRAINT Bounded
INVARIANTS
    OfficeTypesOK
    CountsFailures
    ResetsReplaceEachOther
    OverWhenEnded
    SeatsAddUp
    ServesOneThatVerifies
    CarriedByRight
    
    QuoteSellsOnce
    LicencesKeepTheirProduct
CHECK_DEADLOCK FALSE
