\* One handler and nothing out of order: a one-time purchase, and another
\* subscription whose first payment is declined.
CONSTANTS
    c1 = c1
    o1 = o1
    o2 = o2
    s1 = s1
    p1 = p1
    p2 = p2
    Handlers = {h1}
    Sessions = {c1, o1}
    Subs = {s1}
    Products = {p1, p2}
    SubOf <- MCSubOf
    ProductOf <- MCProductOf
    Whole <- MCWhole
    MaxEvents = 3
    MaxMishaps = 0
    None = None
SPECIFICATION Spec
PROPERTY OnlyPaidFor
CHECK_DEADLOCK FALSE
