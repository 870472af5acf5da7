\* One handler: automatic refills against their cap.
CONSTANTS
    Calls = {c1}
    ReserveKeys = {k1, k2}
    CheckoutKeys = {s1}
    DirectKeys = {}
    RefillKeys = {f1, f2}
    ReservationIds = {r1, r2}
    MaxAmount = 1
    PackageCredits = 1
    PackageBonus = 0
    RefillTrigger = 1
    MaxRefills = 1
    AdjustAmounts <- NoAdjustments
    Callers = "bounded"
    MaxRows = 6
    MaxJobs = 0
    None = None
SPECIFICATION Spec

INVARIANT
    RefillsCapped
CHECK_DEADLOCK FALSE
