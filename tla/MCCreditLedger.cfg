\* Two handlers race on one balance; callers follow the reserve / consume
\* pattern; the ledger is also an implementation of the prepaid account.
CONSTANTS
    Calls = {c1, c2}
    ReserveKeys = {k1, k2}
    CheckoutKeys = {s1}
    DirectKeys = {}
    RefillKeys = {f1}
    ReservationIds = {r1, r2}
    MaxAmount = 2
    PackageCredits = 2
    PackageBonus = 1
    RefillTrigger = 1
    MaxRefills = 1
    AdjustAmounts <- MCAdjustAmounts
    Callers = "bounded"
    MaxRows = 5
    MaxJobs = 1
    None = None
SPECIFICATION Spec
SYMMETRY Symmetric
INVARIANTS
    SettledOnce
    LedgerChains
    NoOverdraft
    ReservedIsOutstanding
PROPERTY
    ImplementsAccount
CHECK_DEADLOCK FALSE
