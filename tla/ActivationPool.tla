--------------------------- MODULE ActivationPool ---------------------------
(***************************************************************************)
(* What activation promises, with no table, lock or row in sight: a        *)
(* licence is a pool of places.  While it is open it makes offers; whoever *)
(* has an offer may take a place, as long as fewer members hold one than   *)
(* the capacity the offer was last priced with, and keeps it until it      *)
(* leaves.  An offer outlives the closing of the pool: that much, and no   *)
(* more, a revocation may come too late for.                               *)
(***************************************************************************)
EXTENDS Integers, FiniteSets

CONSTANTS Pools, Members, Requests, Nothing

VARIABLES
    open,       \* pools that make offers
    capacity,   \* places each pool has now
    held,       \* members that hold a place
    offers      \* what each request was offered

poolVars == <<open, capacity, held, offers>>

NoOffer == [pool |-> Nothing, member |-> Nothing, places |-> Nothing]

HasOffer(q) == offers[q].pool # Nothing

Init ==
    /\ open \subseteq Pools
    /\ capacity \in [Pools -> Nat]
    /\ held = [p \in Pools |-> {}]
    /\ offers = [q \in Requests |-> NoOffer]

Offer(q, p, m) ==
    /\ p \in open
    /\ ~HasOffer(q)
    /\ offers' = [offers EXCEPT ![q] = [pool |-> p, member |-> m, places |-> capacity[p]]]
    /\ UNCHANGED <<open, capacity, held>>

(* The offer is priced again with the capacity the pool has now. *)
Renew(q) ==
    /\ HasOffer(q)
    /\ offers' = [offers EXCEPT ![q].places = capacity[offers[q].pool]]
    /\ UNCHANGED <<open, capacity, held>>

Join(q) ==
    /\ HasOffer(q)
    /\ Cardinality(held[offers[q].pool]) < offers[q].places
    /\ held' = [held EXCEPT ![offers[q].pool] = @ \cup {offers[q].member}]
    /\ offers' = [offers EXCEPT ![q] = NoOffer]
    /\ UNCHANGED <<open, capacity>>

Decline(q) ==
    /\ offers' = [offers EXCEPT ![q] = NoOffer]
    /\ UNCHANGED <<open, capacity, held>>

Leave(p, m) ==
    /\ held' = [held EXCEPT ![p] = @ \ {m}]
    /\ UNCHANGED <<open, capacity, offers>>

(* The owner opens, closes and resizes pools. *)
Manage ==
    /\ open' \subseteq Pools
    /\ capacity' \in [Pools -> Nat]
    /\ UNCHANGED <<held, offers>>

Next ==
    \/ \E q \in Requests :
         \/ \E p \in Pools, m \in Members : Offer(q, p, m)
         \/ Renew(q) \/ Join(q) \/ Decline(q)
    \/ \E p \in Pools, m \in Members : Leave(p, m)
    \/ Manage

Spec == Init /\ [][Next]_poolVars
=============================================================================
