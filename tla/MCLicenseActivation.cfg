\* Two handlers and three machines contend for one licence whose limit an
\* administrator changes between one and two.
CONSTANTS
    Handlers = {h1, h2}
    Licences = {l1}
    Machines = {m1, m2, m3}
    RowIds = {a1, a2, a3}
    MaxLimit = 2
    CanSign = TRUE
    MaxChanges = 2
    None = None
SPECIFICATION Spec
SYMMETRY Symmetric
INVARIANTS
    TypeOK
    WithinLimit
PROPERTIES
    GrantsHeld
    ImplementsPool
CHECK_DEADLOCK FALSE
