\* Two handlers, two machines and two licences for one deployment id; two
\* commands; three secrets; one failure or change by another hand.
CONSTANTS
    Handlers = {h1, h2}
    Ids = {d1}
    Machines = {m1, m2}
    Licences = {l1, l2}
    Commands = {k1, k2}
    Limit <- MCLimit
    MaxSecrets = 3
    MaxMishaps = 1
    None = None
SPECIFICATION Spec
SYMMETRY Symmetric
INVARIANTS
    TypeOK
    DeliveredIsCarried
    RunsCounted
    CanSign
PROPERTIES
    KillsStick
    MachinesStay
CHECK_DEADLOCK FALSE
