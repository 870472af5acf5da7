--------------------------- MODULE CreditWebhooks ---------------------------
(***************************************************************************)
(* The credit events of the Stripe webhook (src/routes/webhooks.ts) on top *)
(* of the credit ledger.                                                   *)
(*                                                                         *)
(* Stripe delivers an event at least once, and again whenever the answer   *)
(* is not a success; deliveries of one event may overlap.  The route       *)
(* remembers the events it has handled in a Map of the process: the event  *)
(* is looked up when the delivery arrives and entered only after its       *)
(* handler has succeeded, and a restart forgets them all.  (An entry also  *)
(* expires after 24 hours, which shows what a restart shows.)              *)
(***************************************************************************)
EXTENDS CreditLedger

CONSTANTS
    MaxRefundEvents,   \* BOUND: partial refunds of the charge at Stripe
    MaxFaults          \* BOUND: aborted calls and restarts

ASSUME WebhookBounds == MaxRefundEvents \in Nat /\ MaxFaults \in Nat

VARIABLES
    refunds,     \* refunds[n]: charge.amount_refunded of the n-th refund event
    handling,    \* handling[c]: the event handler c works on; its stage is "run"
                 \* until the handler returns, "done" until the event is entered
    processed,   \* processedEvents: a set of Events
    faults       \* aborted calls and restarts so far

webhookVars == <<refunds, handling, processed, faults>>
allVars     == <<vars, webhookVars>>

CheckoutEvents == [kind : {"checkout"}, key : CheckoutKeys]
RefundEvents   == [kind : {"refund"}, n : 1..MaxRefundEvents]
Events         == CheckoutEvents \cup RefundEvents

NoEvent == [event |-> None, stage |-> "none"]

\* What Stripe has to deliver so far.
Sent(e) == IF e.kind = "checkout" THEN e.key \in charged ELSE e.n <= Len(refunds)

RefundedAtStripe == IF refunds = <<>> THEN 0 ELSE refunds[Len(refunds)]

Running(c, kind) == handling[c].stage = "run" /\ handling[c].event.kind = kind

Returns(c) == handling' = [handling EXCEPT ![c].stage = "done"]

\* Mistake: the event is entered in the Map even when its handler throws.
FailsButEntered(c) ==
    handling' = [handling EXCEPT ![c].stage = IF @ = "run" THEN "done" ELSE @]

Fails(c) == handling' = [handling EXCEPT ![c] = NoEvent]

-----------------------------------------------------------------------------
(* A partial or full refund at Stripe of a purchase made in the portal (the *)
(* payment intents of these carry the credit_purchase metadata; those of a  *)
(* Checkout session do not).  amount_refunded is the total so far.          *)
StripeRefunds(a) ==
    /\ charged \cap DirectKeys # {}
    /\ Len(refunds) < MaxRefundEvents
    /\ RefundedAtStripe + a <= PackageCredits
    /\ refunds' = Append(refunds, RefundedAtStripe + a)
    /\ UNCHANGED <<vars, handling, processed, faults>>

(* A delivery arrives: the Map is consulted, and the handler of the event   *)
(* begins.  For a checkout that is the look-up of its key: a key that is    *)
(* already there lets the handler return at once.                           *)
Receive(c, e) ==
    /\ Sent(e)
    /\ e \notin processed
    /\ handling[c] = NoEvent
    /\ calls[c] = Idle
    /\ \/ /\ e.kind = "checkout" /\ KeyUsed(e.key)
          /\ handling' = [handling EXCEPT ![c] = [event |-> e, stage |-> "done"]]
          /\ UNCHANGED vars
       \/ /\ e.kind = "checkout" /\ CheckoutLookup(c, e.key)
          /\ handling' = [handling EXCEPT ![c] = [event |-> e, stage |-> "run"]]
       \/ /\ e.kind = "refund"
          /\ handling' = [handling EXCEPT ![c] = [event |-> e, stage |-> "run"]]
          /\ UNCHANGED vars
    /\ UNCHANGED <<refunds, processed, faults>>

(* checkout.session.completed: addPurchasedCredits under the session's key. *)
CheckoutStep(c) ==
    /\ Running(c, "checkout")
    /\ \/ PurchaseFindBalance(c) /\ UNCHANGED handling
       \/ PurchaseCommit(c) /\ Returns(c)
       \/ PurchaseConflict(c) /\ Fails(c)
    /\ UNCHANGED <<refunds, processed, faults>>

(* charge.refunded: refundCredits with charge.amount_refunded.  Without a   *)
(* balance the service answers success: false, which the route ignores.     *)
AmountRefunded(e) == refunds[e.n]

RefundStep(c) ==
    /\ Running(c, "refund")
    /\ \/ balance.opened /\ Refund(AmountRefunded(handling[c].event))
       \/ ~balance.opened /\ UNCHANGED vars
    /\ Returns(c)
    /\ UNCHANGED <<refunds, processed, faults>>

(* processedEvents.set, after the handler.                                  *)
Acknowledge(c) ==
    /\ handling[c].stage = "done"
    /\ processed' = processed \cup {handling[c].event}
    /\ handling' = [handling EXCEPT ![c] = NoEvent]
    /\ UNCHANGED <<vars, refunds, faults>>

-----------------------------------------------------------------------------
Fault ==
    /\ faults < MaxFaults
    /\ faults' = faults + 1
    /\ UNCHANGED refunds

(* A handler's database call fails: the route answers 500.                  *)
HandlerFails(c) ==
    /\ Fault
    /\ \/ AbortCall(c)
       \/ Running(c, "refund") /\ UNCHANGED vars
    /\ Fails(c)
    /\ UNCHANGED processed

ProcessRestart ==
    /\ Fault
    /\ Restart
    /\ handling' = [c \in Calls |-> NoEvent]
    /\ processed' = {}

(* The rest of the credit service, on handlers that serve no webhook.       *)
PortalStart(c) == handling[c] = NoEvent /\ CallStart(c) /\ UNCHANGED webhookVars
PortalStep(c)  == handling[c] = NoEvent /\ CallStep(c) /\ UNCHANGED webhookVars

WebhookInit ==
    /\ Init
    /\ refunds = <<>>
    /\ handling = [c \in Calls |-> NoEvent]
    /\ processed = {}
    /\ faults = 0

WebhookNext ==
    \/ (RowNext \/ \E k \in CheckoutKeys : CheckoutPaid(k)) /\ UNCHANGED webhookVars
    \/ \E a \in Amounts : StripeRefunds(a)
    \/ \E c \in Calls :
         \/ \E e \in Events : Receive(c, e)
         \/ CheckoutStep(c) \/ RefundStep(c) \/ Acknowledge(c) \/ HandlerFails(c)
         \/ PortalStart(c) \/ PortalStep(c)
    \/ ProcessRestart

(* Stripe delivers again until it is answered (for days, with a backoff: a  *)
(* bounded number of faults is outlasted), and a handler that has started   *)
(* takes its next step unless a fault ends it.                              *)
Fairness ==
    /\ \A e \in Events : WF_allVars(\E c \in Calls : Receive(c, e))
    /\ \A c \in Calls : /\ WF_allVars(CheckoutStep(c))
                        /\ WF_allVars(RefundStep(c))
                        /\ WF_allVars(Acknowledge(c))
                        /\ WF_allVars(PortalStep(c))

WebhookSpec == WebhookInit /\ [][WebhookNext]_allVars /\ Fairness

-----------------------------------------------------------------------------
(* Properties. *)

(* A paid Checkout session is credited in the end, whatever deliveries fail,*)
(* overlap or meet a restart: with KeysUsedOnce, exactly once.  An event    *)
(* entered in the Map before its effect would be skipped and never done.    *)
CheckoutsCredited == \A k \in CheckoutKeys : k \in charged ~> KeyUsed(k)

(* What the ledger takes back for a charge is what Stripe has refunded of   *)
(* it ("Deduct the refunded amount").                                       *)
RefundsMatchStripe == balance.refunded <= RefundedAtStripe
=============================================================================
