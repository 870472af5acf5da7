\* Two admins of whom one was set up with the pool; one customer and two
\* handlers; two tabs and two logins, three ticks to the time-out; two servers,
\* one client and one stop; two processes with a licence; two usage reports and
\* two handlers; two products, two folders and two handlers.
CONSTANTS
    Staff = {u1, u2}
    FirstAdmin = u1
    Clients = {c1}
    Routes = {h1, h2}
    NoClient = NoClient
    Tabs = {t1, t2}
    Timeout = 3
    WarnGap = 1
    MaxLogins = 2
    Servers = {s1, s2}
    Callers = {k1}
    MaxRequests = 1
    Window = 2
    MaxStops = 1
    NoCaller = NoCaller
    Processes = {p1, p2}
    CacheTtl = 1
    Grace = 2
    Reports = {r1, r2}
    Reporters = {h1, h2}
    NoReport = NoReport
    MaxCount = 3
    MaxLapses = 2
    Products = {b1, b2}
    Folders = {d1, d2}
    Files = {f1}
    Porters = {h1, h2}
    NoBundle = NoBundle
SPECIFICATION DeskSpec
INVARIANTS
    DeskTypesOK
    AdminsRemain
    MfaMirrored
    UsageCountedOnce
    DownloadsExist
PROPERTIES
    EndsOwnSession
    IdleTabsEnd
    AdmittedAgain
    WithdrawnIsRefused
CHECK_DEADLOCK FALSE
