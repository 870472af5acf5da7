---------------------- MODULE MCSubscriptionLifecycle ----------------------
(* Model-checking instance of SubscriptionLifecycle: one session sells a    *)
(* subscription, others a product once, the last for a buyer Stripe has no  *)
(* customer for.                                                            *)
EXTENDS SubscriptionLifecycle, TLC

CONSTANTS c1, o1, o2, s1, p1, p2

MCSubOf     == [c \in Sessions |-> IF c = c1 THEN s1 ELSE None]
MCWhole     == Sessions \ {o2}
MCProductOf == [c \in Sessions |-> IF c = c1 THEN p1 ELSE p2]

\* No property tells handlers apart.
Symmetric == Permutations(Handlers)
=============================================================================
