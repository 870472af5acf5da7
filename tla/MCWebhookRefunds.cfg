\* One handler, no fault: every event is handled once.  One purchase, refunded
\* in parts.
CONSTANTS
    Calls = {c1}
    ReserveKeys = {}
    CheckoutKeys = {}
    DirectKeys = {d1}
    RefillKeys = {}
    ReservationIds = {}
    MaxAmount = 2
    PackageCredits = 3
    PackageBonus = 0
    RefillTrigger = 1
    MaxRefills = 1
    AdjustAmounts <- NoAdjustments
    Callers = "known"
    MaxRows = 6
    MaxJobs = 0
    None = None
    MaxRefundEvents = 2
    MaxFaults = 0
SPECIFICATION WebhookSpec
INVARIANT
    RefundsMatchStripe
CHECK_DEADLOCK FALSE
