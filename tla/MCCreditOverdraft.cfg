\* Callers hold a reservation, and consume what the call turned out to cost.
CONSTANTS
    Calls = {c1, c2}
    ReserveKeys = {k1, k2}
    CheckoutKeys = {s1}
    DirectKeys = {}
    RefillKeys = {f1}
    ReservationIds = {r1, r2}
    MaxAmount = 2
    PackageCredits = 2
    PackageBonus = 1
    RefillTrigger = 1
    MaxRefills = 1
    AdjustAmounts <- NoAdjustments
    Callers = "known"
    MaxRows = 6
    MaxJobs = 1
    None = None
SPECIFICATION Spec

INVARIANT
    NeverNegative
CHECK_DEADLOCK FALSE
