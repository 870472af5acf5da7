\* Two handlers; a subscription that is sold in a session, another that is
\* not (yet), two one-time purchases, one of them by a buyer Stripe has no
\* customer for; three events, one failure, redelivery or act by hand.
CONSTANTS
    c1 = c1
    o1 = o1
    o2 = o2
    s1 = s1
    p1 = p1
    p2 = p2
    Handlers = {h1, h2}
    Sessions = {c1, o1, o2}
    Subs = {s1, s2}
    Products = {p1, p2}
    SubOf <- MCSubOf
    ProductOf <- MCProductOf
    Whole <- MCWhole
    MaxEvents = 3
    MaxMishaps = 1
    None = None
SPECIFICATION Spec
SYMMETRY Symmetric
INVARIANTS
    FollowsBilling
PROPERTIES
    
    EndedStaysEnded
    LinkedByOwnEvents
CHECK_DEADLOCK FALSE
