\* Two paid sessions, two handlers, faults; a portal purchase alongside.
CONSTANTS
    Calls = {c1, c2}
    ReserveKeys = {}
    CheckoutKeys = {s1, s2}
    DirectKeys = {d1}
    RefillKeys = {}
    ReservationIds = {}
    MaxAmount = 1
    PackageCredits = 1
    PackageBonus = 0
    RefillTrigger = 1
    MaxRefills = 1
    AdjustAmounts <- NoAdjustments
    Callers = "known"
    MaxRows = 10
    MaxJobs = 0
    None = None
    MaxRefundEvents = 1
    MaxFaults = 2
SPECIFICATION WebhookSpec
INVARIANTS
    KeysUsedOnce
PROPERTY
    CheckoutsCredited
CHECK_DEADLOCK FALSE
