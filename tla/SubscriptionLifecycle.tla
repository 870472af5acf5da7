----------------------- MODULE SubscriptionLifecycle -----------------------
(***************************************************************************)
(* Subscriptions, the licences they pay for, and Stripe's events about     *)
(* both: handleCheckoutCompleted, handleSubscriptionUpdated,               *)
(* handleSubscriptionDeleted, handleInvoicePaymentFailed and               *)
(* handleChargeRefunded of payment.service.ts with the transitions of      *)
(* license.service.ts behind them.                                         *)
(*                                                                         *)
(* Each handler is a chain of separate statements, each of which commits   *)
(* by itself; only the checkout has a transaction.  Stripe delivers an     *)
(* event until it is answered, in any order, several at a time; an event   *)
(* carries the status the subscription had when it was emitted.            *)
(*                                                                         *)
(* One customer.  The billing side (Subscribe ... Refund) is external.     *)
(***************************************************************************)
EXTENDS Integers, Sequences, FiniteSets

CONSTANTS
    Handlers,
    Sessions,      \* Checkout sessions
    Subs,          \* Stripe subscriptions
    Products,
    SubOf,         \* the subscription a session sells, None for a one-time one
    ProductOf,     \* the product a session sells
    Whole,         \* sessions whose event names an e-mail, a product and a Stripe
                   \* customer (of a one-time payment Stripe makes none unless it
                   \* is asked to, and createCheckoutSession does not ask)
    MaxEvents,     \* BOUND: events Stripe emits
    MaxMishaps,    \* BOUND: handlers that fail, events that come again and
                   \* statuses administrators set, products they delete
    None

ASSUME SubscriptionParameters ==
    /\ SubOf \in [Sessions -> Subs \cup {None}]
    /\ ProductOf \in [Sessions -> Products]
    /\ Whole \subseteq Sessions
    /\ {MaxEvents, MaxMishaps} \subseteq Nat
    /\ None \notin Subs \cup Sessions

VARIABLES
    billing,      \* Stripe: the status of each subscription
    events,       \* Stripe: what happened, in order
    answered,     \* Stripe: the events it has an answer for
    known,        \* is there a customers row with the Stripe id
    subs,         \* subscriptions rows: the status, or "none"
    licences,     \* licenses rows of the customer, in the order they were issued
    removed,      \* products deleted here
    refunds,      \* refunds rows, by the event that told of the refund
    calls,        \* what each handler holds between two statements
    revoked,      \* history: refunds whose licences have been revoked
    undisturbed,  \* history: every event came in its turn, and no other hand
    mishaps

stripeVars  == <<billing, events>>
historyVars == <<revoked, undisturbed, mishaps>>
rowVars     == <<known, subs, licences, removed, refunds>>
vars == <<billing, events, answered, known, subs, licences, removed, refunds, calls,
          revoked, undisturbed, mishaps>>

StripeStatuses == {"incomplete", "active", "trialing", "past_due", "paused", "unpaid",
                   "canceled", "incomplete_expired"}
SubStatuses     == {"ACTIVE", "CANCELED", "PAST_DUE"}
LicenceStatuses == {"ACTIVE", "EXPIRED", "REVOKED", "SUSPENDED"}

mapStripeStatus(s) ==
    IF s \in {"active", "trialing"} THEN "ACTIVE"
    ELSE IF s \in {"canceled", "unpaid", "incomplete_expired"} THEN "CANCELED"
    ELSE "PAST_DUE"

\* type and what the event is about; status is that of an "updated" event,
\* full says whether a refund leaves nothing of the charge.
EventTypes == {"checkout", "updated", "deleted", "payment_failed", "refunded"}
Event == [type : EventTypes, sub : Subs \cup {None}, session : Sessions \cup {None},
          status : StripeStatuses \cup {None}, full : BOOLEAN]

Licence == [status : LicenceStatuses, sub : Subs \cup {None},
            session : Sessions \cup {None}, product : Products]

\* The where clause the transition goes by once it has counted.
Scopes == {"linked", "unlinked", "product", "customer"}
Steps  == {"idle", "issue", "create", "update", "record", "scope", "apply"}

Call == [event : Nat, step : Steps, scope : Scopes \cup {None}, listed : SUBSET Nat]

CallAt(i, step, scope, listed) ==
    [event |-> i, step |-> step, scope |-> scope, listed |-> listed]

Idle == CallAt(0, "idle", None, {})

TypeOK ==
    /\ billing \in [Subs -> StripeStatuses \cup {"none"}]
    /\ events \in Seq(Event)
    /\ answered \subseteq DOMAIN events
    /\ known \in BOOLEAN
    /\ subs \in [Subs -> SubStatuses \cup {"none"}]
    /\ licences \in Seq(Licence)
    /\ removed \subseteq Products
    /\ refunds \subseteq DOMAIN events
    /\ calls \in [Handlers -> Call]
    /\ \A h \in Handlers : calls[h].step # "idle" =>
         calls[h].event \in DOMAIN events /\ calls[h].listed \subseteq DOMAIN events
    /\ revoked \subseteq DOMAIN events
    /\ undisturbed \in BOOLEAN
    /\ mishaps \in Nat

-----------------------------------------------------------------------------
(* Stripe. *)

Updated(s, status) ==
    [type |-> "updated", sub |-> s, session |-> None, status |-> status, full |-> FALSE]
Checkout(c) ==
    [type |-> "checkout", sub |-> SubOf[c], session |-> c, status |-> None, full |-> FALSE]
About(type, s) ==
    [type |-> type, sub |-> s, session |-> None, status |-> None, full |-> FALSE]
Refunded(c, full) ==
    [type |-> "refunded", sub |-> SubOf[c], session |-> c, status |-> None, full |-> full]

StripeOnly == UNCHANGED <<answered, rowVars, calls, historyVars>>

Emit(e) ==
    /\ Len(events) < MaxEvents
    /\ events' = Append(events, e)
    /\ StripeOnly

BillingMoves(s, from, to) ==
    /\ billing[s] \in from
    /\ billing' = [billing EXCEPT ![s] = to]

Completed(c) == \E i \in DOMAIN events : events[i] = Checkout(c)

\* Creating a subscription and paying for it are separate: a first payment
\* may be declined.
Subscribe(s) ==
    /\ BillingMoves(s, {"none"}, "incomplete")
    /\ UNCHANGED events /\ StripeOnly

DeclineFirst(s) ==
    /\ BillingMoves(s, {"incomplete"}, "incomplete")
    /\ Emit(About("payment_failed", s))

\* subscription.created and subscription.updated tell the status there is;
\* whatever changes may or may not be followed by one.
Report(s) ==
    /\ BillingMoves(s, StripeStatuses, billing[s])
    /\ Emit(Updated(s, billing[s]))

Complete(c) ==
    /\ ~Completed(c)
    /\ IF SubOf[c] = None THEN UNCHANGED billing
                          ELSE BillingMoves(SubOf[c], {"incomplete"}, "active")
    /\ Emit(Checkout(c))

Renew(s) ==
    /\ BillingMoves(s, {"past_due", "unpaid", "paused"}, "active")
    /\ Emit(Updated(s, "active"))

FallDue(s) ==
    /\ BillingMoves(s, {"active"}, "past_due")
    /\ Emit(About("payment_failed", s))

PauseOrGiveUp(s) ==
    /\ BillingMoves(s, {"active"}, "paused") \/ BillingMoves(s, {"past_due"}, "unpaid")
    /\ UNCHANGED events /\ StripeOnly

Cancel(s) ==
    /\ BillingMoves(s, {"active", "past_due", "unpaid", "paused"}, "canceled")
    /\ Emit(About("deleted", s))

Refund(c, full) ==
    /\ Completed(c)
    /\ Refunded(c, TRUE) \notin {events[i] : i \in DOMAIN events}
    /\ Emit(Refunded(c, full))
    /\ UNCHANGED billing

StripeStep ==
    \/ \E s \in Subs :
         \/ Subscribe(s) \/ DeclineFirst(s) \/ Report(s)
         \/ FallDue(s) \/ Renew(s) \/ PauseOrGiveUp(s) \/ Cancel(s)
    \/ \E c \in Sessions : Complete(c) \/ \E full \in BOOLEAN : Refund(c, full)

-----------------------------------------------------------------------------
(* The webhook.  An event is received with the first statement of its       *)
(* handler and answered with the last.                                      *)

EventOf(h) == events[calls[h].event]

At(h, step, type) == calls[h].step = step /\ EventOf(h).type = type

Unchanged == UNCHANGED <<stripeVars, revoked, mishaps>>

\* Go on with another statement, answer, or answer with an error.
GoTo(h, step) ==
    /\ calls' = [calls EXCEPT ![h] = CallAt(@.event, step, None, {})]
    /\ UNCHANGED <<answered, undisturbed>>

Finish(h) ==
    /\ calls' = [calls EXCEPT ![h] = Idle]
    /\ answered' = answered \cup {calls[h].event}
    /\ UNCHANGED undisturbed

EndCall(h) ==
    /\ calls' = [calls EXCEPT ![h] = Idle]
    /\ UNCHANGED <<answered, undisturbed>>

(* An event comes in its turn when all before it have been answered, none   *)
(* after it has, and no other is being handled.                             *)
InTurn(i) ==
    /\ answered = 1..(i - 1)
    /\ \A h \in Handlers : calls[h] = Idle

Unanswered(h, i, type) ==
    /\ calls[h] = Idle
    /\ i \in DOMAIN events \ answered
    /\ events[i].type = type
    /\ undisturbed' = (undisturbed /\ InTurn(i))

Start(h, i, step, listed) ==
    /\ calls' = [calls EXCEPT ![h] = CallAt(i, step, None, listed)]
    /\ UNCHANGED answered

AnswerAtOnce(i) == answered' = answered \cup {i} /\ UNCHANGED calls

Mishap == mishaps < MaxMishaps /\ mishaps' = mishaps + 1

(* A statement, a call to Stripe or a mail throws, a unique index rejects a *)
(* row, or the process stops: the event stays unanswered.                   *)
HandlerFails(h) ==
    /\ calls[h] # Idle
    /\ Mishap
    /\ EndCall(h)
    /\ UNCHANGED <<stripeVars, rowVars, revoked>>

(* The answer is lost, or Stripe or somebody else sends the event again     *)
(* after a restart: the process does not remember it.                       *)
Redeliver(i) ==
    /\ i \in answered
    /\ Mishap
    /\ answered' = answered \ {i}
    /\ undisturbed' = FALSE
    /\ UNCHANGED <<stripeVars, rowVars, calls, revoked>>

-----------------------------------------------------------------------------
(* handleCheckoutCompleted: the look-up is outside the transaction.  A       *)
(* session that lacks data, has its licence or sells a product that is gone *)
(* is answered as it is.                                                    *)

AlreadyIssued(c) == \E n \in DOMAIN licences : licences[n].session = c

Fulfillable(c) == c \in Whole /\ ProductOf[c] \notin removed

CheckoutLookup(h, i) ==
    /\ Unanswered(h, i, "checkout")
    /\ IF Fulfillable(events[i].session) /\ ~AlreadyIssued(events[i].session)
       THEN Start(h, i, "issue", {})
       ELSE AnswerAtOnce(i)
    /\ Unchanged /\ UNCHANGED rowVars

(* createLicense leaves licenseTerm at its default, SUBSCRIPTION.           *)
createLicense(s, c, p) ==
    licences' = Append(licences, [status |-> "ACTIVE", sub |-> s, session |-> c, product |-> p])

(* Customer, subscription and licence in one transaction; the subscription  *)
(* is set ACTIVE whatever Stripe says of it.                                *)
CheckoutIssue(h) ==
    /\ At(h, "issue", "checkout")
    /\ ProductOf[EventOf(h).session] \notin removed
    /\ known' = TRUE
    /\ LET c == EventOf(h).session
       IN  /\ subs' = [s \in Subs |-> IF s = SubOf[c] THEN "ACTIVE" ELSE subs[s]]
           /\ createLicense(SubOf[c], c, ProductOf[c])
    /\ Finish(h)
    /\ Unchanged /\ UNCHANGED <<removed, refunds>>

(* The product has been deleted meanwhile: the licence's foreign key undoes *)
(* the transaction.                                                         *)
CheckoutConflict(h) ==
    /\ At(h, "issue", "checkout")
    /\ ProductOf[EventOf(h).session] \in removed
    /\ EndCall(h)
    /\ Unchanged /\ UNCHANGED rowVars

-----------------------------------------------------------------------------
(* Subscription events: the row, then the licences.                         *)

SetSub(s, status) == subs' = [subs EXCEPT ![s] = status]

NewStatus(h) == mapStripeStatus(EventOf(h).status)

\* Mistake: licences are looked at only when the row changes.
ReactivatesOnChange(h) == NewStatus(h) = "ACTIVE" /\ subs[EventOf(h).sub] # "ACTIVE"

Reactivates(h) == NewStatus(h) = "ACTIVE"

UpdatedLookup(h, i) ==
    /\ Unanswered(h, i, "updated")
    /\ IF subs[events[i].sub] # "none" THEN Start(h, i, "update", {})
       ELSE IF known THEN Start(h, i, "create", {})
       ELSE AnswerAtOnce(i)
    /\ Unchanged /\ UNCHANGED rowVars

UpdatedWrite(h) ==
    /\ At(h, "update", "updated") \/ (At(h, "create", "updated") /\ subs[EventOf(h).sub] = "none")
    /\ SetSub(EventOf(h).sub, NewStatus(h))
    /\ IF Reactivates(h) THEN GoTo(h, "scope") ELSE Finish(h)
    /\ Unchanged /\ UNCHANGED <<known, licences, removed, refunds>>

(* The row has been created meanwhile: the insert fails.                    *)
UpdatedConflict(h) ==
    /\ At(h, "create", "updated")
    /\ subs[EventOf(h).sub] # "none"
    /\ EndCall(h)
    /\ Unchanged /\ UNCHANGED rowVars

(* handleSubscriptionDeleted and handleInvoicePaymentFailed: updateMany     *)
(* says whether the subscription is known.                                  *)
EndOrFail(h, i, type, status) ==
    /\ Unanswered(h, i, type)
    /\ IF subs[events[i].sub] = "none"
       THEN AnswerAtOnce(i) /\ UNCHANGED subs
       ELSE Start(h, i, "scope", {}) /\ SetSub(events[i].sub, status)
    /\ Unchanged /\ UNCHANGED <<known, licences, removed, refunds>>

DeletedWrite(h, i) == EndOrFail(h, i, "deleted", "CANCELED")
FailedWrite(h, i)  == EndOrFail(h, i, "payment_failed", "PAST_DUE")

(* licensesForSubscription counts the licences of the subscription ...      *)
ScopeOf(s) ==
    IF \E n \in DOMAIN licences : licences[n].sub = s THEN "linked" ELSE "unlinked"

Scoped(h, scope) ==
    /\ calls' = [calls EXCEPT ![h] = CallAt(@.event, "apply", scope, {})]
    /\ Unchanged
    /\ UNCHANGED <<answered, undisturbed, rowVars>>

SubScope(h) ==
    /\ calls[h].step = "scope"
    /\ EventOf(h).type # "refunded"
    /\ Scoped(h, ScopeOf(EventOf(h).sub))

(* ... and updateMany takes what matches by then.                           *)
Transition(type) ==
    CASE type = "updated"        -> [from |-> "SUSPENDED", to |-> "ACTIVE"]
      [] type = "payment_failed" -> [from |-> "ACTIVE", to |-> "SUSPENDED"]
      [] type = "deleted"        -> [from |-> "ACTIVE", to |-> "EXPIRED"]
      [] type = "refunded"       -> [from |-> "ACTIVE", to |-> "REVOKED"]

\* Mistake: the fallback takes every licence of the customer.
WholeCustomer(l) == TRUE

Unlinked(l) == l.sub = None

InScope(l, scope, e) ==
    CASE scope = "linked"   -> l.sub = e.sub
      [] scope = "unlinked" -> Unlinked(l)
      [] scope = "product"  -> l.product = ProductOf[e.session]
      [] scope = "customer" -> TRUE

\* Mistake: the update does not ask for the status it leads from.
WhateverStatus(l, type) == TRUE

HasFromStatus(l, type) == l.status = Transition(type).from

Apply(h) ==
    LET e == EventOf(h) IN
    /\ calls[h].step = "apply"
    /\ licences' = [n \in DOMAIN licences |->
         IF HasFromStatus(licences[n], e.type) /\ InScope(licences[n], calls[h].scope, e)
         THEN [licences[n] EXCEPT !.status = Transition(e.type).to]
         ELSE licences[n]]
    /\ revoked' = IF e.type = "refunded" THEN revoked \cup {calls[h].event} ELSE revoked
    /\ Finish(h)
    /\ UNCHANGED <<stripeVars, known, subs, removed, refunds, mishaps>>

-----------------------------------------------------------------------------
(* handleChargeRefunded: the refunds of the charge are listed, those not    *)
(* known yet are recorded, and after a full refund licences are revoked.    *)

RefundsOf(c) ==
    {i \in DOMAIN events : events[i].type = "refunded" /\ events[i].session = c}

\* Mistake: a refund that is recorded has been dealt with.
SomethingNew(listed) == known /\ ~(listed \subseteq refunds)

WorthRecording(listed) == known

\* Stripe may not answer, and the event need not carry the list.
RefundList(h, i) ==
    /\ Unanswered(h, i, "refunded")
    /\ \E listed \in {RefundsOf(events[i].session), {}} :
         IF WorthRecording(listed) THEN Start(h, i, "record", listed) ELSE AnswerAtOnce(i)
    /\ Unchanged /\ UNCHANGED rowVars

RefundRecord(h) ==
    /\ At(h, "record", "refunded")
    /\ \E i \in calls[h].listed \ refunds : refunds' = refunds \cup {i}
    /\ Unchanged
    /\ UNCHANGED <<answered, undisturbed, calls, known, subs, licences, removed>>

(* A partial refund changes no licence.                                     *)
RefundRecorded(h) ==
    /\ At(h, "record", "refunded")
    /\ calls[h].listed \subseteq refunds
    /\ ~EventOf(h).full
    /\ Finish(h)
    /\ Unchanged /\ UNCHANGED rowVars

(* revokeLicensesForRefund: by the subscription when the invoice names one  *)
(* (resolved: asking Stripe for it may fail) that is known here, else by    *)
(* the product, which only the charge of a one-time purchase carries, else  *)
(* everything.                                                              *)
RefundScope(h, resolved) ==
    LET s == EventOf(h).sub IN
    /\ At(h, "record", "refunded")
    /\ calls[h].listed \subseteq refunds
    /\ EventOf(h).full
    /\ Scoped(h, IF s = None THEN "product"
                 ELSE IF resolved /\ subs[s] # "none" THEN ScopeOf(s)
                 ELSE "customer")

-----------------------------------------------------------------------------
(* Administrators revoke, suspend, reactivate and edit licences.  (What     *)
(* they issue is a licence without a subscription, like a one-time one.)    *)
SetByHand(n, status) ==
    /\ Mishap
    /\ licences[n].status # status
    /\ licences' = [licences EXCEPT ![n].status = status]
    /\ undisturbed' = FALSE
    /\ UNCHANGED <<stripeVars, answered, known, subs, removed, refunds, calls, revoked>>

(* deleteProduct, of a product without licences.  (That a licence may be    *)
(* issued between the look and the deletion is in Catalogue.)               *)
DeleteProduct(p) ==
    /\ Mishap
    /\ p \notin removed
    /\ \A n \in DOMAIN licences : licences[n].product # p
    /\ removed' = removed \cup {p}
    /\ UNCHANGED <<stripeVars, answered, known, subs, licences, refunds, calls, revoked,
                   undisturbed>>

Init ==
    /\ billing = [s \in Subs |-> "none"]
    /\ events = <<>>
    /\ answered = {}
    /\ known \in BOOLEAN
    /\ subs = [s \in Subs |-> "none"]
    /\ licences = <<>>
    /\ removed = {}
    /\ refunds = {}
    /\ calls = [h \in Handlers |-> Idle]
    /\ revoked = {}
    /\ undisturbed = TRUE
    /\ mishaps = 0

Deliver(i) ==
    \E h \in Handlers :
      \/ CheckoutLookup(h, i)
      \/ UpdatedLookup(h, i)
      \/ DeletedWrite(h, i)
      \/ FailedWrite(h, i)
      \/ RefundList(h, i)

HandlerStep(h) ==
    \/ CheckoutIssue(h)
    \/ CheckoutConflict(h)
    \/ UpdatedWrite(h)
    \/ UpdatedConflict(h)
    \/ SubScope(h)
    \/ Apply(h)
    \/ RefundRecord(h)
    \/ RefundRecorded(h)
    \/ \E resolved \in BOOLEAN : RefundScope(h, resolved)

Next ==
    \/ StripeStep
    \/ \E i \in DOMAIN events : Deliver(i) \/ Redeliver(i)
    \/ \E h \in Handlers : HandlerStep(h) \/ HandlerFails(h)
    \/ \E n \in DOMAIN licences, status \in LicenceStatuses : SetByHand(n, status)
    \/ \E p \in Products : DeleteProduct(p)

Spec == Init /\ [][Next]_vars

-----------------------------------------------------------------------------
(* An event is answered, and so comes no more, only when it has had its     *)
(* effect, whatever failed half-way in earlier deliveries: a completed      *)
(* checkout its licence, a full refund of a known customer the revocation,  *)
(* although the refund may have been recorded long before.  A checkout that *)
(* lacks data, or sells a product that has been deleted, is answered with   *)
(* nothing, and no other.                                                   *)
AnsweredIsDone ==
    [][\A i \in answered' \ answered :
         /\ events[i].type = "checkout" =>
              (AlreadyIssued(events[i].session)' <=> Fulfillable(events[i].session))
         /\ (events[i].type = "refunded" /\ events[i].full /\ known) => i \in revoked']_vars

(* No event, however late, gives back a licence that has expired or was     *)
(* revoked, nor suspends or expires one that is no longer active.           *)
EndedStaysEnded ==
    [][calls' # calls => \A n \in DOMAIN licences :
         licences[n].status \in {"EXPIRED", "REVOKED"} =>
           licences'[n].status = licences[n].status]_vars

(* A licence that names its subscription changes by the events of that      *)
(* subscription or by a refund, even when another subscription's handler    *)
(* counted its licences before this one was issued.                         *)
LinkedByOwnEvents ==
    [][\A h \in Handlers, n \in DOMAIN licences :
         (/\ calls'[h] # calls[h]
          /\ licences'[n] # licences[n]
          /\ licences[n].sub # None) =>
            EventOf(h).sub = licences[n].sub \/ EventOf(h).type = "refunded"]_vars

(* As long as Stripe's events came in their turn, failures and retries      *)
(* included, and no administrator meddled, the licences of a subscription   *)
(* follow its billing once all events are answered.                         *)
FollowsBilling ==
    (undisturbed /\ answered = DOMAIN events) =>
      \A n \in DOMAIN licences : licences[n].sub # None =>
        /\ billing[licences[n].sub] \in {"past_due", "unpaid", "canceled"} =>
             licences[n].status # "ACTIVE"
        /\ billing[licences[n].sub] = "active" => licences[n].status \in {"ACTIVE", "REVOKED"}

-----------------------------------------------------------------------------
(* What a comment of the schema says and the code does not keep:            *)
(* subscription webhooks expire, suspend or reactivate "only the licenses   *)
(* they actually paid for rather than every license the customer owns".     *)
OnlyPaidFor ==
    [][\A h \in Handlers, n \in DOMAIN licences :
         (/\ calls'[h] # calls[h]
          /\ licences'[n] # licences[n]
          /\ EventOf(h).type # "refunded") => EventOf(h).sub = licences[n].sub]_vars
=============================================================================
