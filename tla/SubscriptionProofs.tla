------------------------ MODULE SubscriptionProofs ------------------------
(***************************************************************************)
(* Proofs about SubscriptionLifecycle, for any number of events, handlers, *)
(* sessions, subscriptions and licences: types, the three properties of    *)
(* what a single step may do, and the licences that follow their billing.  *)
(***************************************************************************)
EXTENDS SubscriptionLifecycle, SequenceTheorems, TLAPS

(* A checkout event names its session.                                      *)
EventsFit ==
    \A i \in DOMAIN events : events[i].type = "checkout" => events[i].session \in Sessions

(* What a handler is about to do fits the event it holds.                   *)
Fits(c, type) ==
    /\ c.step = "issue" => type = "checkout"
    /\ c.step \in {"create", "update"} => type = "updated"
    /\ c.step = "record" => type = "refunded"
    /\ c.step = "scope" => type \in {"updated", "deleted", "payment_failed"}
    /\ c.step = "apply" =>
         /\ type \in {"updated", "deleted", "payment_failed", "refunded"}
         /\ c.scope \in Scopes
         /\ c.scope \in {"product", "customer"} => type = "refunded"

StepsFit ==
    \A h \in Handlers : calls[h].step # "idle" => Fits(calls[h], EventOf(h).type)

SInv == TypeOK /\ EventsFit /\ StepsFit

-----------------------------------------------------------------------------
(* Handlers. *)

LEMMA SInvInit ==
    ASSUME SubscriptionParameters, Init
    PROVE  SInv
  <1>1. Idle \in Call /\ Idle.step = "idle"
    BY DEF Idle, CallAt, Call, Steps
  <1>2. events = <<>> /\ DOMAIN events = {} /\ events \in Seq(Event)
    BY DEF Init
  <1>3. \A h \in Handlers : calls[h] = Idle
    BY DEF Init
  <1>4. calls \in [Handlers -> Call] /\ \A h \in Handlers : calls[h].step = "idle"
    BY <1>1, <1>3 DEF Init
  <1>5. licences \in Seq(Licence)
    BY DEF Init
  <1>6. TypeOK
    BY <1>2, <1>4, <1>5 DEF Init, TypeOK, SubStatuses
  <1> QED
    BY <1>2, <1>4, <1>6 DEF SInv, EventsFit, StepsFit

(* A step of Stripe appends an event at most.                               *)
LEMMA Emitted ==
    ASSUME TypeOK, EventsFit, NEW e \in Event,
           e.type = "checkout" => e.session \in Sessions, Emit(e)
    PROVE  /\ events' \in Seq(Event)
           /\ DOMAIN events \subseteq DOMAIN events'
           /\ \A i \in DOMAIN events : events'[i] = events[i]
           /\ EventsFit'
  <1>1. events \in Seq(Event) /\ events' = Append(events, e)
    BY DEF TypeOK, Emit
  <1> QED
    BY <1>1, AppendProperties DEF EventsFit

LEMMA Unemitted ==
    ASSUME TypeOK, EventsFit, UNCHANGED events
    PROVE  /\ events' \in Seq(Event)
           /\ DOMAIN events \subseteq DOMAIN events'
           /\ \A i \in DOMAIN events : events'[i] = events[i]
           /\ EventsFit'
  BY DEF TypeOK, EventsFit

LEMMA EventTyped ==
    ASSUME SubscriptionParameters
    PROVE  /\ \A s \in Subs, status \in StripeStatuses :
                Updated(s, status) \in Event /\ Updated(s, status).type = "updated"
           /\ \A s \in Subs, type \in EventTypes :
                About(type, s) \in Event /\ About(type, s).type = type
           /\ \A c \in Sessions : Checkout(c) \in Event /\ Checkout(c).session = c
           /\ \A c \in Sessions, full \in BOOLEAN :
                Refunded(c, full) \in Event /\ Refunded(c, full).type = "refunded"
  BY DEF SubscriptionParameters, Updated, About, Checkout, Refunded, Event, EventTypes

LEMMA StripeInv ==
    ASSUME SubscriptionParameters, SInv, StripeStep
    PROVE  SInv'
  <1> USE DEF SInv
  <1> DEFINE Grown == /\ events' \in Seq(Event)
                      /\ DOMAIN events \subseteq DOMAIN events'
                      /\ \A i \in DOMAIN events : events'[i] = events[i]
                      /\ EventsFit'
             Billed == billing' \in [Subs -> StripeStatuses \cup {"none"}]
  <1>1. ASSUME NEW s \in Subs, NEW from, NEW to \in StripeStatuses, BillingMoves(s, from, to)
        PROVE  Billed
    BY <1>1 DEF BillingMoves, TypeOK
  <1>2. ASSUME UNCHANGED billing PROVE Billed
    BY <1>2 DEF TypeOK
  <1> HIDE DEF Billed
  <1>3. ASSUME NEW s \in Subs, NEW status \in StripeStatuses, Emit(Updated(s, status))
        PROVE  Grown
    BY <1>3, EventTyped, Emitted
  <1>4. ASSUME NEW s \in Subs, NEW type \in {"payment_failed", "deleted"}, Emit(About(type, s))
        PROVE  Grown
    BY <1>4, EventTyped, Emitted DEF EventTypes
  <1>5. ASSUME NEW c \in Sessions, Emit(Checkout(c)) PROVE Grown
    BY <1>5, EventTyped, Emitted
  <1>6. ASSUME NEW c \in Sessions, NEW full \in BOOLEAN, Emit(Refunded(c, full)) PROVE Grown
    BY <1>6, EventTyped, Emitted
  <1>7. ASSUME UNCHANGED events PROVE Grown
    BY <1>7, Unemitted
  <1> HIDE DEF Grown
  <1>8. Billed /\ Grown /\ StripeOnly
    <2>1. ASSUME NEW s \in Subs, Subscribe(s) PROVE Billed /\ Grown /\ StripeOnly
      BY <2>1, <1>1, <1>7 DEF Subscribe, StripeStatuses
    <2>2. ASSUME NEW s \in Subs, DeclineFirst(s) PROVE Billed /\ Grown /\ StripeOnly
      BY <2>2, <1>1, <1>4 DEF DeclineFirst, StripeStatuses, Emit
    <2>3. ASSUME NEW s \in Subs, Report(s) PROVE Billed /\ Grown /\ StripeOnly
      <3>1. billing[s] \in StripeStatuses
        BY <2>3 DEF Report, BillingMoves
      <3> QED
        BY <2>3, <3>1, <1>1, <1>3 DEF Report, Emit
    <2>4. ASSUME NEW s \in Subs, FallDue(s) PROVE Billed /\ Grown /\ StripeOnly
      BY <2>4, <1>1, <1>4 DEF FallDue, StripeStatuses, Emit
    <2>5. ASSUME NEW s \in Subs, Renew(s) PROVE Billed /\ Grown /\ StripeOnly
      BY <2>5, <1>1, <1>3 DEF Renew, StripeStatuses, Emit
    <2>6. ASSUME NEW s \in Subs, PauseOrGiveUp(s) PROVE Billed /\ Grown /\ StripeOnly
      BY <2>6, <1>1, <1>7 DEF PauseOrGiveUp, StripeStatuses
    <2>7. ASSUME NEW s \in Subs, Cancel(s) PROVE Billed /\ Grown /\ StripeOnly
      BY <2>7, <1>1, <1>4 DEF Cancel, StripeStatuses, Emit
    <2>8. ASSUME NEW c \in Sessions, Complete(c) PROVE Billed /\ Grown /\ StripeOnly
      <3>1. CASE SubOf[c] = None
        BY <2>8, <3>1, <1>2, <1>5 DEF Complete, Emit
      <3>2. CASE SubOf[c] # None
        <4>1. SubOf[c] \in Subs
          BY <3>2 DEF SubscriptionParameters
        <4> QED
          BY <2>8, <3>2, <4>1, <1>1, <1>5 DEF Complete, Emit, StripeStatuses
      <3> QED
        BY <3>1, <3>2
    <2>9. ASSUME NEW c \in Sessions, NEW full \in BOOLEAN, Refund(c, full)
          PROVE  Billed /\ Grown /\ StripeOnly
      BY <2>9, <1>2, <1>6 DEF Refund, Emit
    <2> QED
      BY <2>1, <2>2, <2>3, <2>4, <2>5, <2>6, <2>7, <2>8, <2>9 DEF StripeStep
  <1>9. TypeOK'
    BY <1>8 DEF Billed, Grown, StripeOnly, rowVars, historyVars, TypeOK
  <1>10. StepsFit'
    BY <1>8 DEF Grown, StripeOnly, rowVars, StepsFit, EventOf, TypeOK
  <1> QED
    BY <1>8, <1>9, <1>10 DEF Grown

-----------------------------------------------------------------------------
(* The webhook's handlers.                                                  *)

CallsFit ==
    /\ calls \in [Handlers -> Call]
    /\ \A h \in Handlers : calls[h].step # "idle" =>
         /\ calls[h].event \in DOMAIN events
         /\ calls[h].listed \subseteq DOMAIN events
         /\ Fits(calls[h], events[calls[h].event].type)

LEMMA CallsFitInv ==
    SInv => CallsFit
  BY DEF SInv, TypeOK, StepsFit, CallsFit, EventOf

LEMMA CallSet ==
    ASSUME CallsFit, UNCHANGED events, NEW h \in Handlers,
           NEW i \in Nat, NEW step \in Steps, NEW scope \in Scopes \cup {None},
           NEW listed \in SUBSET Nat,
           calls' = [calls EXCEPT ![h] = CallAt(i, step, scope, listed)],
           step # "idle" =>
             /\ i \in DOMAIN events
             /\ listed \subseteq DOMAIN events
             /\ Fits(CallAt(i, step, scope, listed), events[i].type)
    PROVE  CallsFit'
  <1> DEFINE c == CallAt(i, step, scope, listed)
  <1>1. c \in Call /\ c.step = step /\ c.event = i /\ c.listed = listed
    BY DEF CallAt, Call
  <1>2. calls' = [calls EXCEPT ![h] = c]
    OBVIOUS
  <1>3. c.step # "idle" => /\ c.event \in DOMAIN events
                           /\ c.listed \subseteq DOMAIN events
                           /\ Fits(c, events[c.event].type)
    BY <1>1
  <1> HIDE DEF c
  <1>4. calls' \in [Handlers -> Call]
    BY <1>1, <1>2 DEF CallsFit
  <1>5. ASSUME NEW g \in Handlers, calls'[g].step # "idle"
        PROVE  /\ calls'[g].event \in DOMAIN events
               /\ calls'[g].listed \subseteq DOMAIN events
               /\ Fits(calls'[g], events[calls'[g].event].type)
    <2>1. CASE g = h
      BY <1>2, <1>3, <1>5, <2>1 DEF CallsFit
    <2>2. CASE g # h
      <3>1. calls'[g] = calls[g]
        BY <1>2, <2>2 DEF CallsFit
      <3> QED
        BY <1>5, <3>1 DEF CallsFit
    <2> QED
      BY <2>1, <2>2
  <1> QED
    BY <1>4, <1>5 DEF CallsFit, Fits

LEMMA CallEnds ==
    ASSUME CallsFit, UNCHANGED events, NEW h \in Handlers,
           calls' = [calls EXCEPT ![h] = Idle]
    PROVE  CallsFit'
  <1>1. calls' = [calls EXCEPT ![h] = CallAt(0, "idle", None, {})]
    BY DEF Idle
  <1>2. "idle" \in Steps /\ {} \in SUBSET Nat
    BY DEF Steps
  <1> QED
    BY <1>1, <1>2, CallSet

LEMMA CallsKept ==
    ASSUME CallsFit, UNCHANGED <<events, calls>>
    PROVE  CallsFit'
  BY DEF CallsFit, Fits

(* What is left of the invariant once the events stay and the calls fit.    *)
Tables ==
    /\ answered \subseteq DOMAIN events
    /\ known \in BOOLEAN
    /\ subs \in [Subs -> SubStatuses \cup {"none"}]
    /\ licences \in Seq(Licence)
    /\ removed \subseteq Products
    /\ refunds \subseteq DOMAIN events
    /\ revoked \subseteq DOMAIN events
    /\ undisturbed \in BOOLEAN
    /\ mishaps \in Nat

LEMMA Assemble ==
    ASSUME SInv, UNCHANGED stripeVars, CallsFit', Tables'
    PROVE  SInv'
  BY DEF SInv, TypeOK, EventsFit, StepsFit, CallsFit, Tables, stripeVars, EventOf

LEMMA MapTyped ==
    \A s : mapStripeStatus(s) \in SubStatuses
  BY DEF mapStripeStatus, SubStatuses

LEMMA Started ==
    ASSUME SInv, UNCHANGED stripeVars, NEW h \in Handlers, NEW i \in DOMAIN events,
           NEW step \in Steps, NEW listed \in SUBSET DOMAIN events,
           Fits(CallAt(i, step, None, listed), events[i].type),
           Start(h, i, step, listed)
    PROVE  CallsFit'
  <1>1. i \in Nat /\ listed \in SUBSET Nat
    BY DEF SInv, TypeOK
  <1> QED
    BY <1>1, CallSet, CallsFitInv DEF Start, stripeVars

LEMMA DeliverInv ==
    ASSUME SubscriptionParameters, SInv, NEW i \in DOMAIN events, Deliver(i)
    PROVE  SInv'
  <1>1. Tables /\ CallsFit /\ i \in Nat
    BY CallsFitInv DEF SInv, TypeOK, Tables
  <1>2. ASSUME AnswerAtOnce(i), UNCHANGED events
        PROVE  answered' \subseteq DOMAIN events' /\ CallsFit'
    BY <1>1, <1>2, CallsKept DEF AnswerAtOnce, Tables
  <1>3. ASSUME NEW h \in Handlers, NEW step, NEW listed, Start(h, i, step, listed),
               UNCHANGED events
        PROVE  answered' \subseteq DOMAIN events'
    BY <1>1, <1>3 DEF Start, Tables
  <1>4. ASSUME NEW h \in Handlers, NEW type, Unanswered(h, i, type)
        PROVE  undisturbed' \in BOOLEAN /\ events[i].type = type
    BY <1>4 DEF Unanswered
  <1>5. ASSUME NEW h \in Handlers, CheckoutLookup(h, i) PROVE SInv'
    <2>1. UNCHANGED stripeVars /\ events[i].type = "checkout"
      BY <1>5, <1>4 DEF CheckoutLookup, Unchanged
    <2>2. answered' \subseteq DOMAIN events' /\ CallsFit'
      <3>1. CASE AnswerAtOnce(i)
        BY <3>1, <2>1, <1>2 DEF stripeVars
      <3>2. CASE Start(h, i, "issue", {})
        <4>1. Fits(CallAt(i, "issue", None, {}), events[i].type)
          BY <2>1 DEF Fits, CallAt
        <4> QED
          BY <3>2, <4>1, <2>1, <1>3, Started DEF Steps, stripeVars
      <3> QED
        BY <3>1, <3>2, <1>5 DEF CheckoutLookup
    <2>3. Tables'
      BY <1>1, <1>4, <1>5, <2>1, <2>2 DEF CheckoutLookup, Unchanged, Tables, rowVars, stripeVars
    <2> QED
      BY <2>1, <2>2, <2>3, Assemble
  <1>6. ASSUME NEW h \in Handlers, UpdatedLookup(h, i) PROVE SInv'
    <2>1. UNCHANGED stripeVars /\ events[i].type = "updated"
      BY <1>6, <1>4 DEF UpdatedLookup, Unchanged
    <2>2. answered' \subseteq DOMAIN events' /\ CallsFit'
      <3>1. CASE AnswerAtOnce(i)
        BY <3>1, <2>1, <1>2 DEF stripeVars
      <3>2. ASSUME NEW step \in {"update", "create"}, Start(h, i, step, {})
            PROVE  answered' \subseteq DOMAIN events' /\ CallsFit'
        <4>1. Fits(CallAt(i, step, None, {}), events[i].type)
          BY <2>1 DEF Fits, CallAt
        <4> QED
          BY <3>2, <4>1, <2>1, <1>3, Started DEF Steps, stripeVars
      <3> QED
        BY <3>1, <3>2, <1>6 DEF UpdatedLookup
    <2>3. Tables'
      BY <1>1, <1>4, <1>6, <2>1, <2>2 DEF UpdatedLookup, Unchanged, Tables, rowVars, stripeVars
    <2> QED
      BY <2>1, <2>2, <2>3, Assemble
  <1>7. ASSUME NEW h \in Handlers, NEW type \in {"deleted", "payment_failed"},
               NEW status \in SubStatuses, EndOrFail(h, i, type, status)
        PROVE  SInv'
    <2>1. UNCHANGED stripeVars /\ events[i].type = type
      BY <1>7, <1>4 DEF EndOrFail, Unchanged
    <2>2. answered' \subseteq DOMAIN events' /\ CallsFit'
      <3>1. CASE AnswerAtOnce(i)
        BY <3>1, <2>1, <1>2 DEF stripeVars
      <3>2. CASE Start(h, i, "scope", {})
        <4>1. Fits(CallAt(i, "scope", None, {}), events[i].type)
          BY <2>1 DEF Fits, CallAt
        <4> QED
          BY <3>2, <4>1, <2>1, <1>3, Started DEF Steps, stripeVars
      <3> QED
        BY <3>1, <3>2, <1>7 DEF EndOrFail
    <2>3. subs' \in [Subs -> SubStatuses \cup {"none"}]
      BY <1>1, <1>7 DEF EndOrFail, SetSub, Tables
    <2>4. Tables'
      BY <1>1, <1>4, <1>7, <2>1, <2>2, <2>3 DEF EndOrFail, Unchanged, Tables, rowVars, stripeVars
    <2> QED
      BY <2>1, <2>2, <2>4, Assemble
  <1>8. ASSUME NEW h \in Handlers, RefundList(h, i) PROVE SInv'
    <2>1. UNCHANGED stripeVars /\ events[i].type = "refunded"
      BY <1>8, <1>4 DEF RefundList, Unchanged
    <2>2. answered' \subseteq DOMAIN events' /\ CallsFit'
      <3>1. CASE AnswerAtOnce(i)
        BY <3>1, <2>1, <1>2 DEF stripeVars
      <3>2. ASSUME NEW listed \in SUBSET DOMAIN events, Start(h, i, "record", listed)
            PROVE  answered' \subseteq DOMAIN events' /\ CallsFit'
        <4>1. Fits(CallAt(i, "record", None, listed), events[i].type)
          BY <2>1 DEF Fits, CallAt
        <4> QED
          BY <3>2, <4>1, <2>1, <1>3, Started DEF Steps, stripeVars
      <3> QED
        BY <3>1, <3>2, <1>8 DEF RefundList, RefundsOf
    <2>3. Tables'
      BY <1>1, <1>4, <1>8, <2>1, <2>2 DEF RefundList, Unchanged, Tables, rowVars, stripeVars
    <2> QED
      BY <2>1, <2>2, <2>3, Assemble
  <1> QED
    BY <1>5, <1>6, <1>7, <1>8 DEF Deliver, DeletedWrite, FailedWrite, SubStatuses

LEMMA IssueTyped ==
    ASSUME SubscriptionParameters, licences \in Seq(Licence), NEW c \in Sessions,
           createLicense(SubOf[c], c, ProductOf[c])
    PROVE  /\ licences' \in Seq(Licence)
           /\ \E n \in DOMAIN licences' : licences'[n].session = c
           /\ DOMAIN licences \subseteq DOMAIN licences'
           /\ \A n \in DOMAIN licences : licences'[n] = licences[n]
  <1> DEFINE l == [status |-> "ACTIVE", sub |-> SubOf[c], session |-> c,
                   product |-> ProductOf[c]]
  <1>1. l \in Licence /\ l.session = c
    BY DEF Licence, LicenceStatuses, SubscriptionParameters
  <1>2. licences' = Append(licences, l)
    BY DEF createLicense
  <1> HIDE DEF l
  <1>3. /\ licences' \in Seq(Licence)
        /\ DOMAIN licences \subseteq DOMAIN licences'
        /\ \A n \in DOMAIN licences : licences'[n] = licences[n]
    BY <1>1, <1>2, AppendProperties
  <1>4. Len(licences) + 1 \in DOMAIN licences' /\ licences'[Len(licences) + 1] = l
    BY <1>1, <1>2, AppendProperties
  <1> QED
    BY <1>1, <1>3, <1>4

(* What the updateMany of a transition makes of the licences.               *)
LEMMA TransitionTyped ==
    \A type \in {"updated", "deleted", "payment_failed", "refunded"} :
      Transition(type).to \in LicenceStatuses
  BY DEF Transition, LicenceStatuses

LEMMA ApplyTyped ==
    ASSUME SInv, NEW h \in Handlers, Apply(h)
    PROVE  licences' \in Seq(Licence) /\ DOMAIN licences' = DOMAIN licences
  <1>1. calls[h].step = "apply" /\ Fits(calls[h], EventOf(h).type)
    BY DEF Apply, SInv, StepsFit
  <1>2. Transition(EventOf(h).type).to \in LicenceStatuses
    BY <1>1, TransitionTyped DEF Fits
  <1> DEFINE to == Transition(EventOf(h).type).to
             Changed(n) == [licences[n] EXCEPT !.status = to]
  <1>3. licences \in Seq(Licence)
    BY DEF SInv, TypeOK
  <1>4. \A n \in DOMAIN licences : licences[n] \in Licence
    BY <1>3
  <1>5. \A n \in DOMAIN licences : Changed(n) \in Licence
    BY <1>2, <1>4 DEF Licence
  <1>6. /\ DOMAIN licences' = DOMAIN licences
        /\ \A n \in DOMAIN licences : licences'[n] \in {licences[n], Changed(n)}
        /\ licences' = [n \in DOMAIN licences |-> licences'[n]]
    BY DEF Apply
  <1> HIDE DEF Changed
  <1>7. \A n \in 1..Len(licences) : licences'[n] \in Licence
    BY <1>3, <1>4, <1>5, <1>6
  <1>8. licences' \in [1..Len(licences) -> Licence]
    BY <1>3, <1>6, <1>7
  <1> QED
    BY <1>3, <1>6, <1>8, SeqDef

LEMMA HandlerInv ==
    ASSUME SubscriptionParameters, SInv, NEW h \in Handlers, HandlerStep(h)
    PROVE  SInv'
  <1>1. Tables /\ CallsFit
    BY CallsFitInv DEF SInv, TypeOK, Tables
  <1>2. ASSUME calls[h].step # "idle"
        PROVE  /\ calls[h].event \in DOMAIN events /\ calls[h].event \in Nat
               /\ Fits(calls[h], EventOf(h).type)
    BY <1>1, <1>2 DEF CallsFit, EventOf, SInv, TypeOK
  <1>3. ASSUME Finish(h), UNCHANGED events, calls[h].step # "idle"
        PROVE  answered' \subseteq DOMAIN events' /\ undisturbed' \in BOOLEAN /\ CallsFit'
    BY <1>1, <1>2, <1>3, CallEnds DEF Finish, Tables
  <1>4. ASSUME NEW step \in {"scope", "apply"}, NEW scope \in Scopes \cup {None},
               UNCHANGED events, calls[h].step # "idle",
               Fits(CallAt(calls[h].event, step, scope, {}), EventOf(h).type),
               calls' = [calls EXCEPT ![h] = CallAt(calls[h].event, step, scope, {})]
        PROVE  CallsFit'
    <2>1. step \in Steps /\ {} \in SUBSET Nat
      BY DEF Steps
    <2> QED
      BY <1>1, <1>2, <1>4, <2>1, CallSet DEF EventOf
  <1>5. CASE CheckoutIssue(h)
    <2>1. calls[h].step # "idle" /\ EventOf(h).type = "checkout"
      BY <1>5 DEF CheckoutIssue, At
    <2>2. EventOf(h).session \in Sessions
      BY <1>2, <2>1 DEF SInv, EventsFit, EventOf
    <2>3. UNCHANGED stripeVars /\ Finish(h)
      BY <1>5 DEF CheckoutIssue, Unchanged
    <2>4. licences' \in Seq(Licence)
      BY <1>1, <1>5, <2>2, IssueTyped DEF CheckoutIssue, Tables
    <2>5. subs' \in [Subs -> SubStatuses \cup {"none"}] /\ known' \in BOOLEAN
      BY <1>1, <1>5 DEF CheckoutIssue, Tables, SubStatuses
    <2>6. Tables' /\ CallsFit'
      BY <1>1, <1>3, <1>5, <2>1, <2>3, <2>4, <2>5
      DEF CheckoutIssue, Unchanged, Tables, rowVars, stripeVars
    <2> QED
      BY <2>3, <2>6, Assemble
  <1>6. CASE UpdatedWrite(h)
    <2>1. calls[h].step # "idle" /\ EventOf(h).type = "updated"
      BY <1>6 DEF UpdatedWrite, At
    <2>2. UNCHANGED stripeVars
      BY <1>6 DEF UpdatedWrite, Unchanged
    <2>3. NewStatus(h) \in SubStatuses
      BY MapTyped DEF NewStatus
    <2>4. subs' \in [Subs -> SubStatuses \cup {"none"}]
      BY <1>1, <1>6, <2>3 DEF UpdatedWrite, SetSub, Tables
    <2>5. answered' \subseteq DOMAIN events' /\ undisturbed' \in BOOLEAN /\ CallsFit'
      <3>1. CASE Finish(h)
        BY <3>1, <1>3, <2>1, <2>2 DEF stripeVars
      <3>2. CASE GoTo(h, "scope")
        <4>1. Fits(CallAt(calls[h].event, "scope", None, {}), EventOf(h).type)
          BY <2>1 DEF Fits, CallAt
        <4> QED
          BY <3>2, <4>1, <1>1, <1>4, <2>1, <2>2 DEF GoTo, stripeVars, Tables
      <3> QED
        BY <3>1, <3>2, <1>6 DEF UpdatedWrite
    <2>6. Tables'
      BY <1>1, <1>6, <2>2, <2>4, <2>5 DEF UpdatedWrite, Unchanged, Tables, rowVars, stripeVars
    <2> QED
      BY <2>2, <2>5, <2>6, Assemble
  <1>7. CASE UpdatedConflict(h)
    <2>1. UNCHANGED stripeVars
      BY <1>7 DEF UpdatedConflict, Unchanged
    <2>2. CallsFit'
      BY <1>1, <1>7, <2>1, CallEnds DEF UpdatedConflict, EndCall, stripeVars
    <2>3. Tables'
      BY <1>1, <1>7, <2>1 DEF UpdatedConflict, Unchanged, EndCall, Tables, rowVars, stripeVars
    <2> QED
      BY <2>1, <2>2, <2>3, Assemble
  <1>8. ASSUME NEW scope \in Scopes, Scoped(h, scope), calls[h].step # "idle",
               EventOf(h).type \in {"updated", "deleted", "payment_failed", "refunded"},
               scope \in {"product", "customer"} => EventOf(h).type = "refunded"
        PROVE  SInv'
    <2>1. UNCHANGED stripeVars
      BY <1>8 DEF Scoped, Unchanged
    <2>2. Fits(CallAt(calls[h].event, "apply", scope, {}), EventOf(h).type)
      BY <1>8 DEF Fits, CallAt
    <2>3. CallsFit'
      BY <1>4, <1>8, <2>1, <2>2 DEF Scoped, stripeVars
    <2>4. Tables'
      BY <1>1, <1>8, <2>1 DEF Scoped, Unchanged, Tables, rowVars, stripeVars
    <2> QED
      BY <2>1, <2>3, <2>4, Assemble
  <1>9. CASE SubScope(h)
    <2>1. calls[h].step = "scope" /\ Fits(calls[h], EventOf(h).type)
      BY <1>2, <1>9 DEF SubScope
    <2>2. ScopeOf(EventOf(h).sub) \in {"linked", "unlinked"}
      BY DEF ScopeOf
    <2> QED
      BY <1>8, <1>9, <2>1, <2>2 DEF SubScope, Fits, Scopes
  <1>10. ASSUME NEW resolved \in BOOLEAN, RefundScope(h, resolved) PROVE SInv'
    <2>1. calls[h].step # "idle" /\ EventOf(h).type = "refunded"
      BY <1>10 DEF RefundScope, At
    <2>2. \E scope \in Scopes : Scoped(h, scope)
      BY <1>10 DEF RefundScope, ScopeOf, Scopes
    <2> QED
      BY <1>8, <2>1, <2>2
  <1>11. CASE Apply(h)
    <2>1. calls[h].step # "idle" /\ Finish(h) /\ UNCHANGED stripeVars
      BY <1>11 DEF Apply
    <2>2. licences' \in Seq(Licence)
      BY <1>11, ApplyTyped
    <2>3. Tables' /\ CallsFit'
      BY <1>1, <1>2, <1>3, <1>11, <2>1, <2>2 DEF Apply, Tables, stripeVars
    <2> QED
      BY <2>1, <2>3, Assemble
  <1>12. CASE RefundRecord(h)
    <2>1. calls[h].listed \subseteq DOMAIN events
      BY <1>1, <1>12 DEF RefundRecord, At, CallsFit
    <2>2. UNCHANGED <<stripeVars, calls>> /\ Tables'
      BY <1>1, <1>12, <2>1 DEF RefundRecord, Unchanged, Tables, rowVars, stripeVars
    <2> QED
      BY <1>1, <2>2, CallsKept, Assemble DEF stripeVars
  <1>13. CASE RefundRecorded(h)
    <2>1. calls[h].step # "idle" /\ Finish(h) /\ UNCHANGED stripeVars
      BY <1>13 DEF RefundRecorded, At, Unchanged
    <2>2. Tables' /\ CallsFit'
      BY <1>1, <1>3, <1>13, <2>1 DEF RefundRecorded, Unchanged, Tables, rowVars, stripeVars
    <2> QED
      BY <2>1, <2>2, Assemble
  <1>14. CASE CheckoutConflict(h)
    <2>1. UNCHANGED stripeVars
      BY <1>14 DEF CheckoutConflict, Unchanged
    <2>2. CallsFit'
      BY <1>1, <1>14, <2>1, CallEnds DEF CheckoutConflict, EndCall, stripeVars
    <2>3. Tables'
      BY <1>1, <1>14, <2>1 DEF CheckoutConflict, Unchanged, EndCall, Tables, rowVars, stripeVars
    <2> QED
      BY <2>1, <2>2, <2>3, Assemble
  <1> QED
    BY <1>5, <1>6, <1>7, <1>9, <1>10, <1>11, <1>12, <1>13, <1>14 DEF HandlerStep

-----------------------------------------------------------------------------
(* Failures, repeated events and administrators; then every step.           *)

LEMMA MishapInv ==
    ASSUME SInv, Mishap
    PROVE  mishaps' \in Nat
  BY DEF SInv, TypeOK, Mishap

LEMMA FailsInv ==
    ASSUME SInv, NEW h \in Handlers, HandlerFails(h)
    PROVE  SInv'
  <1>1. Tables /\ CallsFit
    BY CallsFitInv DEF SInv, TypeOK, Tables
  <1>2. mishaps' \in Nat /\ UNCHANGED stripeVars
    BY MishapInv DEF HandlerFails
  <1>3. CallsFit'
    BY <1>1, <1>2, CallEnds DEF HandlerFails, EndCall, stripeVars
  <1>4. Tables'
    BY <1>1, <1>2 DEF HandlerFails, EndCall, Tables, rowVars, stripeVars
  <1> QED
    BY <1>2, <1>3, <1>4, Assemble

LEMMA RedeliverInv ==
    ASSUME SInv, NEW i \in DOMAIN events, Redeliver(i)
    PROVE  SInv'
  <1>1. Tables /\ CallsFit
    BY CallsFitInv DEF SInv, TypeOK, Tables
  <1>2. mishaps' \in Nat /\ UNCHANGED <<stripeVars, calls>>
    BY MishapInv DEF Redeliver
  <1>3. CallsFit'
    BY <1>1, <1>2, CallsKept DEF stripeVars
  <1>4. Tables'
    BY <1>1, <1>2 DEF Redeliver, Tables, rowVars, stripeVars
  <1> QED
    BY <1>2, <1>3, <1>4, Assemble

LEMMA ByHandInv ==
    ASSUME SInv, NEW n \in DOMAIN licences, NEW status \in LicenceStatuses,
           SetByHand(n, status)
    PROVE  SInv'
  <1>1. Tables /\ CallsFit
    BY CallsFitInv DEF SInv, TypeOK, Tables
  <1>2. mishaps' \in Nat /\ UNCHANGED <<stripeVars, calls>>
    BY MishapInv DEF SetByHand
  <1>3. CallsFit'
    BY <1>1, <1>2, CallsKept DEF stripeVars
  <1> DEFINE l == [licences[n] EXCEPT !.status = status]
  <1>4. licences \in Seq(Licence) /\ licences[n] \in Licence
    BY <1>1 DEF Tables
  <1>5. l \in Licence
    BY <1>4 DEF Licence
  <1>6. licences' = [licences EXCEPT ![n] = l]
    BY DEF SetByHand
  <1> HIDE DEF l
  <1>7. licences' \in Seq(Licence)
    BY <1>4, <1>5, <1>6
  <1>8. Tables'
    BY <1>1, <1>2, <1>7 DEF SetByHand, Tables, stripeVars
  <1> QED
    BY <1>2, <1>3, <1>8, Assemble

LEMMA DeleteInv ==
    ASSUME SInv, NEW p \in Products, DeleteProduct(p)
    PROVE  SInv'
  <1>1. Tables /\ CallsFit
    BY CallsFitInv DEF SInv, TypeOK, Tables
  <1>2. mishaps' \in Nat /\ UNCHANGED <<stripeVars, calls>>
    BY MishapInv DEF DeleteProduct
  <1>3. CallsFit'
    BY <1>1, <1>2, CallsKept DEF stripeVars
  <1>4. Tables'
    BY <1>1, <1>2 DEF DeleteProduct, Tables, stripeVars
  <1> QED
    BY <1>2, <1>3, <1>4, Assemble

LEMMA SInvNext ==
    ASSUME SubscriptionParameters, SInv, [Next]_vars
    PROVE  SInv'
  <1>1. CASE UNCHANGED vars
    BY <1>1 DEF SInv, TypeOK, EventsFit, StepsFit, Fits, EventOf, vars
  <1>2. CASE Next
    BY <1>2, StripeInv, DeliverInv, HandlerInv, FailsInv, RedeliverInv, ByHandInv,
       DeleteInv DEF Next
  <1> QED
    BY <1>1, <1>2

(* Every reachable state is typed, and every handler holds an event of the  *)
(* kind its next statement is for.                                          *)
LEMMA AlwaysSInv ==
    ASSUME SubscriptionParameters
    PROVE  Spec => []SInv
  BY SInvInit, SInvNext, PTL DEF Spec

(* The rows, events and calls are what their types say, for any number of   *)
(* handlers, events and licences: no status outside the schema's enums is   *)
(* ever written, and no handler holds an event Stripe never sent.           *)
THEOREM SubscriptionTypes ==
    ASSUME SubscriptionParameters
    PROVE  Spec => []TypeOK
  <1>1. SInv => TypeOK
    BY DEF SInv
  <1> QED
    BY <1>1, AlwaysSInv, PTL

-----------------------------------------------------------------------------
(* What one step may do. *)

LEMMA HandlerKeepsEvents ==
    ASSUME NEW h \in Handlers, HandlerStep(h)
    PROVE  UNCHANGED events
  BY DEF HandlerStep, CheckoutIssue, CheckoutConflict, UpdatedWrite, UpdatedConflict, SubScope,
         Scoped, Apply, RefundRecord, RefundRecorded, RefundScope, Unchanged, stripeVars

(* Every statement of the webhook belongs to one handler; all others keep   *)
(* what they hold.                                                          *)
LEMMA StepShape ==
    ASSUME Next
    PROVE  \/ UNCHANGED <<licences, answered, calls>>
           \/ \E i \in DOMAIN events, h \in Handlers :
                \/ CheckoutLookup(h, i)
                \/ UpdatedLookup(h, i)
                \/ DeletedWrite(h, i)
                \/ FailedWrite(h, i)
                \/ RefundList(h, i)
           \/ \E i \in DOMAIN events : Redeliver(i)
           \/ \E h \in Handlers : HandlerStep(h) \/ HandlerFails(h)
           \/ \E n \in DOMAIN licences, status \in LicenceStatuses : SetByHand(n, status)
  <1>1. ASSUME StripeStep PROVE UNCHANGED <<licences, answered, calls>>
    BY <1>1 DEF StripeStep, StripeOnly, rowVars, Emit, Subscribe, DeclineFirst, Report, Complete,
                Renew, FallDue, PauseOrGiveUp, Cancel, Refund
  <1>2. ASSUME NEW p \in Products, DeleteProduct(p) PROVE UNCHANGED <<licences, answered, calls>>
    BY <1>2 DEF DeleteProduct
  <1> QED
    BY <1>1, <1>2 DEF Next, Deliver

(* A licence is of a session that has all its data, for the product it      *)
(* sells, which has not been deleted; and so a session is fulfilled only    *)
(* when it is fulfillable.                                                  *)
Bought(l) ==
    l.session \in Whole /\ l.product = ProductOf[l.session] /\ l.product \notin removed

IssuingWhole ==
    \A h \in Handlers : calls[h].step = "issue" => EventOf(h).session \in Whole

PInv == SInv /\ IssuingWhole /\ \A n \in DOMAIN licences : Bought(licences[n])

LEMMA BoughtNext ==
    ASSUME SubscriptionParameters, PInv, Next
    PROVE  \A n \in DOMAIN licences' : Bought(licences[n])'
  <1>1. ASSUME UNCHANGED removed, NEW l \in Licence, NEW m, Bought(l),
               m.session = l.session, m.product = l.product
        PROVE  Bought(m)'
    BY <1>1 DEF Bought
  <1>2. \A n \in DOMAIN licences : licences[n] \in Licence /\ Bought(licences[n])
    BY DEF PInv, SInv, TypeOK
  <1>3. ASSUME UNCHANGED <<licences, removed>>
        PROVE  \A n \in DOMAIN licences' : Bought(licences[n])'
    BY <1>2, <1>3 DEF Bought
  <1>4. ASSUME NEW h \in Handlers, CheckoutIssue(h)
        PROVE  \A n \in DOMAIN licences' : Bought(licences[n])'
    <2>1. PICK c : c = EventOf(h).session
      OBVIOUS
    <2>2. PICK l : l = [status |-> "ACTIVE", sub |-> SubOf[c], session |-> c,
                       product |-> ProductOf[c]]
      OBVIOUS
    <2>3. /\ calls[h].step = "issue" /\ UNCHANGED removed
          /\ licences' = Append(licences, l) /\ ProductOf[c] \notin removed
      BY <1>4, <2>1, <2>2 DEF CheckoutIssue, At, createLicense
    <2>4. c \in Whole /\ c \in Sessions
      BY <2>3, <2>1 DEF PInv, IssuingWhole, SubscriptionParameters
    <2>5. l \in Licence /\ Bought(l)'
      BY <2>3, <2>4, <2>2 DEF Licence, LicenceStatuses, SubscriptionParameters, Bought
    <2>6. licences \in Seq(Licence)
      BY DEF PInv, SInv, TypeOK
    <2>7. ASSUME NEW n \in DOMAIN licences' PROVE Bought(licences[n])'
      <3>1. licences'[n] = l \/ (n \in DOMAIN licences /\ licences'[n] = licences[n])
        BY <2>3, <2>5, <2>6, <2>7, AppendProperties
      <3>2. n \in DOMAIN licences => Bought(licences[n])'
        BY <1>2, <2>3, <2>5, <2>6, <3>1 DEF Bought
      <3> QED
        BY <2>5, <3>1, <3>2 DEF Bought
    <2> QED
      BY <2>7
  <1>5. ASSUME NEW h \in Handlers, Apply(h)
        PROVE  \A n \in DOMAIN licences' : Bought(licences[n])'
    <2>1. UNCHANGED removed /\ DOMAIN licences' = DOMAIN licences
      BY <1>5, ApplyTyped DEF Apply, PInv
    <2>2. ASSUME NEW n \in DOMAIN licences
          PROVE  licences'[n].session = licences[n].session /\ licences'[n].product = licences[n].product
      <3>1. licences[n] \in Licence
        BY <1>2
      <3> QED
        BY <1>5, <3>1 DEF Apply, Licence
    <2> QED
      BY <1>2, <2>1, <2>2 DEF Bought
  <1>6. ASSUME NEW m \in DOMAIN licences, NEW status \in LicenceStatuses, SetByHand(m, status)
        PROVE  \A n \in DOMAIN licences' : Bought(licences[n])'
    <2>1. UNCHANGED removed /\ DOMAIN licences' = DOMAIN licences
      BY <1>6 DEF SetByHand
    <2>2. ASSUME NEW n \in DOMAIN licences
          PROVE  licences'[n].session = licences[n].session /\ licences'[n].product = licences[n].product
      <3>1. licences[n] \in Licence
        BY <1>2
      <3> QED
        BY <1>6, <3>1 DEF SetByHand, Licence
    <2> QED
      BY <1>2, <2>1, <2>2 DEF Bought
  <1>7. ASSUME NEW p \in Products, DeleteProduct(p)
        PROVE  \A n \in DOMAIN licences' : Bought(licences[n])'
    BY <1>2, <1>7 DEF DeleteProduct, Bought
  <1>8. ASSUME NEW h \in Handlers, HandlerStep(h)
        PROVE  CheckoutIssue(h) \/ Apply(h) \/ UNCHANGED <<licences, removed>>
    BY <1>8 DEF HandlerStep, CheckoutConflict, UpdatedWrite, UpdatedConflict, SubScope,
                Scoped, RefundRecord, RefundRecorded, RefundScope, rowVars
  <1>9. ASSUME NEW i \in DOMAIN events, Deliver(i) PROVE UNCHANGED <<licences, removed>>
    BY <1>9 DEF Deliver, CheckoutLookup, UpdatedLookup, DeletedWrite, FailedWrite, EndOrFail,
                RefundList, rowVars
  <1>10. ASSUME StripeStep PROVE UNCHANGED <<licences, removed>>
    BY <1>10 DEF StripeStep, StripeOnly, rowVars, Emit, Subscribe, DeclineFirst, Report,
                 Complete, Renew, FallDue, PauseOrGiveUp, Cancel, Refund
  <1>11. ASSUME NEW i \in DOMAIN events, Redeliver(i) PROVE UNCHANGED <<licences, removed>>
    BY <1>11 DEF Redeliver, rowVars
  <1>12. ASSUME NEW h \in Handlers, HandlerFails(h) PROVE UNCHANGED <<licences, removed>>
    BY <1>12 DEF HandlerFails, rowVars
  <1> QED
    BY <1>3, <1>4, <1>5, <1>6, <1>7, <1>8, <1>9, <1>10, <1>11, <1>12 DEF Next

(* Only the look-up of a checkout starts to issue.                          *)
LEMMA IssuingNext ==
    ASSUME SubscriptionParameters, PInv, Next
    PROVE  IssuingWhole'
  <1>1. \A i \in DOMAIN events : i \in DOMAIN events' /\ events'[i] = events[i]
    <2>1. CASE UNCHANGED events
      BY <2>1
    <2>2. ASSUME NEW e, Emit(e), e \in Event
          PROVE  \A i \in DOMAIN events : i \in DOMAIN events' /\ events'[i] = events[i]
      BY <2>2, AppendProperties DEF Emit, PInv, SInv, TypeOK
    <2>3. ASSUME StripeStep PROVE UNCHANGED events \/ \E e \in Event : Emit(e)
      <3>1. \A s \in Subs : Report(s) => billing[s] \in StripeStatuses
        BY DEF Report, BillingMoves
      <3> QED
        BY <2>3, <3>1, EventTyped DEF StripeStep, Subscribe, DeclineFirst, Report, Complete,
           Renew, FallDue, PauseOrGiveUp, Cancel, Refund, EventTypes, StripeStatuses
    <2>4. ASSUME NEW i \in DOMAIN events, Deliver(i) PROVE UNCHANGED events
      BY <2>4 DEF Deliver, CheckoutLookup, UpdatedLookup, DeletedWrite, FailedWrite, EndOrFail,
                  RefundList, Unchanged, stripeVars
    <2>5. ASSUME NEW h \in Handlers, HandlerStep(h) PROVE UNCHANGED events
      BY <2>5, HandlerKeepsEvents
    <2> QED
      BY <2>1, <2>2, <2>3, <2>4, <2>5 DEF Next, Redeliver, HandlerFails, SetByHand,
         DeleteProduct, stripeVars
  <1>2. ASSUME NEW h \in Handlers, calls'[h].step = "issue",
               calls'[h] = calls[h] \/ \E i \in DOMAIN events, g \in Handlers : CheckoutLookup(g, i)
        PROVE  EventOf(h)'.session \in Whole
    <2>1. CASE calls'[h] = calls[h]
      <3>1. calls[h].event \in DOMAIN events
        BY <1>2, <2>1 DEF PInv, SInv, TypeOK
      <3> QED
        BY <1>1, <1>2, <2>1, <3>1 DEF PInv, IssuingWhole, EventOf
    <2>2. ASSUME NEW i \in DOMAIN events, NEW g \in Handlers, CheckoutLookup(g, i),
                 calls'[h] # calls[h]
          PROVE  EventOf(h)'.session \in Whole
      <3>1. Start(g, i, "issue", {}) /\ events[i].session \in Whole
        BY <2>2 DEF CheckoutLookup, AnswerAtOnce, Fulfillable
      <3>2. calls'[h].event = i
        BY <2>2, <3>1 DEF Start, CallAt, PInv, SInv, TypeOK
      <3> QED
        BY <1>1, <3>1, <3>2 DEF EventOf
    <2> QED
      BY <1>2, <2>1, <2>2
  <1>3. ASSUME NEW h \in Handlers, calls'[h].step = "issue"
        PROVE  calls'[h] = calls[h] \/ \E i \in DOMAIN events, g \in Handlers : CheckoutLookup(g, i)
    <2>1. ASSUME NEW g \in Handlers, NEW c, c.step # "issue", calls' = [calls EXCEPT ![g] = c]
          PROVE  calls'[h] = calls[h]
      BY <1>3, <2>1 DEF PInv, SInv, TypeOK
    <2>2. Idle.step = "idle" /\ \A i, step, scope, listed : CallAt(i, step, scope, listed).step = step
      BY DEF Idle, CallAt
    <2>3. ASSUME NEW g \in Handlers, HandlerStep(g) PROVE calls'[h] = calls[h]
      <3>1. ASSUME Finish(g) \/ EndCall(g) PROVE calls'[h] = calls[h]
        BY <2>1, <2>2, <3>1 DEF Finish, EndCall
      <3>2. ASSUME NEW step \in {"scope", "apply"}, NEW scope,
                   calls' = [calls EXCEPT ![g] = CallAt(calls[g].event, step, scope, {})]
            PROVE  calls'[h] = calls[h]
        BY <2>1, <2>2, <3>2
      <3>3. ASSUME GoTo(g, "scope") PROVE calls'[h] = calls[h]
        <4>1. calls' = [calls EXCEPT ![g] = CallAt(calls[g].event, "scope", None, {})]
          BY <3>3 DEF GoTo, PInv, SInv, TypeOK
        <4> QED
          BY <3>2, <4>1
      <3>4. ASSUME NEW scope, Scoped(g, scope) PROVE calls'[h] = calls[h]
        <4>1. calls' = [calls EXCEPT ![g] = CallAt(calls[g].event, "apply", scope, {})]
          BY <3>4 DEF Scoped, PInv, SInv, TypeOK
        <4> QED
          BY <3>2, <4>1
      <3> QED
        BY <2>3, <3>1, <3>3, <3>4 DEF HandlerStep, CheckoutIssue, CheckoutConflict,
           UpdatedWrite, UpdatedConflict, SubScope, Apply, RefundRecord, RefundRecorded,
           RefundScope
    <2>4. ASSUME NEW i \in DOMAIN events, Deliver(i)
          PROVE  calls'[h] = calls[h] \/ \E g \in Handlers : CheckoutLookup(g, i)
      <3>1. ASSUME NEW g \in Handlers, NEW step \in {"update", "create", "scope", "record"},
                   NEW listed, Start(g, i, step, listed)
            PROVE  calls'[h] = calls[h]
        BY <2>1, <2>2, <3>1 DEF Start
      <3>2. ASSUME AnswerAtOnce(i) PROVE calls'[h] = calls[h]
        BY <3>2 DEF AnswerAtOnce
      <3> QED
        BY <2>4, <3>1, <3>2 DEF Deliver, UpdatedLookup, DeletedWrite, FailedWrite, EndOrFail,
           RefundList
    <2>5. ASSUME NEW g \in Handlers, HandlerFails(g) PROVE calls'[h] = calls[h]
      BY <2>1, <2>2, <2>5 DEF HandlerFails, EndCall
    <2>6. ASSUME StripeStep PROVE UNCHANGED calls
      BY <2>6 DEF StripeStep, StripeOnly, Emit, Subscribe, DeclineFirst, Report, Complete,
                  Renew, FallDue, PauseOrGiveUp, Cancel, Refund
    <2> QED
      BY <2>3, <2>4, <2>5, <2>6 DEF Next, Redeliver, SetByHand, DeleteProduct
  <1> QED
    BY <1>2, <1>3 DEF IssuingWhole

LEMMA PInvInit ==
    ASSUME SubscriptionParameters, Init
    PROVE  PInv
  BY SInvInit DEF PInv, Init, IssuingWhole, Idle, CallAt

LEMMA PInvNext ==
    ASSUME SubscriptionParameters, PInv, [Next]_vars
    PROVE  PInv'
  <1>1. CASE Next
    BY <1>1, SInvNext, BoughtNext, IssuingNext DEF PInv
  <1>2. CASE UNCHANGED vars
    <2>1. UNCHANGED <<calls, events, licences, removed>>
      BY <1>2 DEF vars
    <2> QED
      BY <2>1, SInvNext DEF PInv, IssuingWhole, Bought, EventOf
  <1> QED
    BY <1>1, <1>2

LEMMA AlwaysPInv ==
    ASSUME SubscriptionParameters
    PROVE  Spec => []PInv
  BY PInvInit, PInvNext, PTL DEF Spec

(* What answering event i, when it is answered, has to have done.           *)
Done(i) ==
    /\ events[i].type = "checkout" =>
         (AlreadyIssued(events[i].session)' <=> Fulfillable(events[i].session))
    /\ (events[i].type = "refunded" /\ events[i].full /\ known) => i \in revoked'

LEMMA DeliverDone ==
    ASSUME PInv, NEW i \in DOMAIN events, NEW h \in Handlers,
           \/ CheckoutLookup(h, i)
           \/ UpdatedLookup(h, i)
           \/ DeletedWrite(h, i)
           \/ FailedWrite(h, i)
           \/ RefundList(h, i)
    PROVE  /\ UNCHANGED events
           /\ answered' \subseteq answered \cup {i}
           /\ i \in answered' \ answered => Done(i)
  <1>1. ASSUME AnswerAtOnce(i) PROVE answered' = answered \cup {i}
    BY <1>1 DEF AnswerAtOnce
  <1>2. ASSUME NEW step, NEW listed, Start(h, i, step, listed) PROVE answered' = answered
    BY <1>2 DEF Start
  <1>3. CASE CheckoutLookup(h, i)
    <2>1. UNCHANGED <<events, licences>> /\ events[i].type = "checkout"
      BY <1>3 DEF CheckoutLookup, Unchanged, Unanswered, stripeVars, rowVars
    <2>2. \/ answered' = answered
          \/ /\ answered' = answered \cup {i}
             /\ ~Fulfillable(events[i].session) \/ AlreadyIssued(events[i].session)
      BY <1>1, <1>2, <1>3 DEF CheckoutLookup
    <2>3. AlreadyIssued(events[i].session) => Fulfillable(events[i].session)
      BY DEF AlreadyIssued, Fulfillable, PInv, Bought
    <2>4. AlreadyIssued(events[i].session)' <=> AlreadyIssued(events[i].session)
      BY <2>1 DEF AlreadyIssued
    <2> QED
      BY <2>1, <2>2, <2>3, <2>4 DEF Done
  <1>4. CASE UpdatedLookup(h, i)
    <2>1. UNCHANGED events /\ events[i].type = "updated"
      BY <1>4 DEF UpdatedLookup, Unchanged, Unanswered, stripeVars
    <2>2. answered' = answered \/ answered' = answered \cup {i}
      BY <1>1, <1>2, <1>4 DEF UpdatedLookup
    <2> QED
      BY <2>1, <2>2 DEF Done
  <1>5. ASSUME NEW type \in {"deleted", "payment_failed"}, NEW status, EndOrFail(h, i, type, status)
        PROVE  /\ UNCHANGED events
               /\ answered' \subseteq answered \cup {i}
               /\ i \in answered' \ answered => Done(i)
    <2>1. UNCHANGED events /\ events[i].type = type
      BY <1>5 DEF EndOrFail, Unchanged, Unanswered, stripeVars
    <2>2. answered' = answered \/ answered' = answered \cup {i}
      BY <1>1, <1>2, <1>5 DEF EndOrFail
    <2> QED
      BY <2>1, <2>2 DEF Done
  <1>6. CASE RefundList(h, i)
    <2>1. UNCHANGED events /\ events[i].type = "refunded"
      BY <1>6 DEF RefundList, Unchanged, Unanswered, stripeVars
    <2>2. answered' = answered \/ (answered' = answered \cup {i} /\ ~known)
      BY <1>1, <1>2, <1>6 DEF RefundList, WorthRecording
    <2> QED
      BY <2>1, <2>2 DEF Done
  <1> QED
    BY <1>3, <1>4, <1>5, <1>6 DEF DeletedWrite, FailedWrite

LEMMA HandlerDone ==
    ASSUME SubscriptionParameters, PInv, NEW h \in Handlers, HandlerStep(h)
    PROVE  /\ UNCHANGED events
           /\ \A i \in answered' \ answered : Done(i)
  <1>0. PICK e : e = calls[h].event
    OBVIOUS
  <1>1. ASSUME Finish(h) PROVE answered' \ answered \subseteq {e}
    BY <1>0, <1>1 DEF Finish
  <1>2. CASE CheckoutIssue(h)
    <2>1. /\ UNCHANGED events /\ Finish(h)
          /\ events[e].type = "checkout" /\ calls[h].step # "idle"
      BY <1>0, <1>2 DEF CheckoutIssue, At, EventOf, Unchanged, stripeVars
    <2>2. events[e].session \in Sessions
      BY <1>0, <2>1 DEF PInv, SInv, TypeOK, EventsFit
    <2>3. AlreadyIssued(events[e].session)'
      <3>1. events' = events /\ licences \in Seq(Licence)
        BY <2>1 DEF PInv, SInv, TypeOK
      <3> QED
        BY <1>0, <1>2, <2>2, <3>1, IssueTyped DEF CheckoutIssue, EventOf, AlreadyIssued
    <2>4. Fulfillable(events[e].session)
      BY <1>0, <1>2 DEF CheckoutIssue, At, PInv, IssuingWhole, EventOf, Fulfillable
    <2> QED
      BY <1>1, <2>1, <2>3, <2>4 DEF Done
  <1>3. CASE UpdatedWrite(h)
    <2>1. UNCHANGED events /\ events[e].type = "updated"
      BY <1>0, <1>3 DEF UpdatedWrite, At, EventOf, Unchanged, stripeVars
    <2>2. answered' \ answered \subseteq {e}
      BY <1>1, <1>3 DEF UpdatedWrite, GoTo
    <2> QED
      BY <2>1, <2>2 DEF Done
  <1>4. CASE Apply(h)
    <2>1. /\ UNCHANGED events /\ Finish(h)
          /\ events[e].type = "refunded" => e \in revoked'
      BY <1>0, <1>4 DEF Apply, EventOf, stripeVars
    <2>2. events[e].type # "checkout"
      BY <1>0, <1>4 DEF Apply, PInv, SInv, StepsFit, Fits, EventOf
    <2> QED
      BY <1>1, <2>1, <2>2 DEF Done
  <1>5. CASE RefundRecorded(h)
    <2>1. UNCHANGED events /\ Finish(h) /\ events[e].type = "refunded" /\ ~events[e].full
      BY <1>0, <1>5 DEF RefundRecorded, At, EventOf, Unchanged, stripeVars
    <2> QED
      BY <1>1, <2>1 DEF Done
  <1>6. CASE UpdatedConflict(h)
    BY <1>6 DEF UpdatedConflict, EndCall, Unchanged, stripeVars
  <1>7. CASE SubScope(h)
    BY <1>7 DEF SubScope, Scoped, Unchanged, stripeVars
  <1>8. CASE RefundRecord(h)
    BY <1>8 DEF RefundRecord, Unchanged, stripeVars
  <1>9. ASSUME NEW resolved \in BOOLEAN, RefundScope(h, resolved)
        PROVE  UNCHANGED <<events, answered>>
    BY <1>9 DEF RefundScope, Scoped, Unchanged, stripeVars
  <1>10. CASE CheckoutConflict(h)
    BY <1>10 DEF CheckoutConflict, EndCall, Unchanged, stripeVars
  <1> QED
    BY <1>2, <1>3, <1>4, <1>5, <1>6, <1>7, <1>8, <1>9, <1>10 DEF HandlerStep

LEMMA DoneNext ==
    ASSUME SubscriptionParameters, PInv, [Next]_vars
    PROVE  [\A i \in answered' \ answered :
              /\ events[i].type = "checkout" =>
                   (AlreadyIssued(events[i].session)' <=> Fulfillable(events[i].session))
              /\ (events[i].type = "refunded" /\ events[i].full /\ known) => i \in revoked']_vars
  <1>1. ASSUME UNCHANGED events, NEW i \in answered' \ answered, Done(i)
        PROVE  /\ events[i].type = "checkout" =>
                    (AlreadyIssued(events[i].session)' <=> Fulfillable(events[i].session))
               /\ (events[i].type = "refunded" /\ events[i].full /\ known) => i \in revoked'
    BY <1>1 DEF Done
  <1>2. CASE UNCHANGED <<licences, answered, calls>>
    BY <1>2
  <1>3. ASSUME NEW i \in DOMAIN events, NEW h \in Handlers,
               \/ CheckoutLookup(h, i)
               \/ UpdatedLookup(h, i)
               \/ DeletedWrite(h, i)
               \/ FailedWrite(h, i)
               \/ RefundList(h, i)
        PROVE  UNCHANGED events /\ \A j \in answered' \ answered : Done(j)
    BY <1>3, DeliverDone
  <1>4. ASSUME NEW i \in DOMAIN events, Redeliver(i) PROVE answered' \ answered = {}
    BY <1>4 DEF Redeliver
  <1>5. ASSUME NEW h \in Handlers, HandlerFails(h) PROVE answered' \ answered = {}
    BY <1>5 DEF HandlerFails, EndCall
  <1>6. ASSUME NEW n \in DOMAIN licences, NEW status \in LicenceStatuses, SetByHand(n, status)
        PROVE  answered' \ answered = {}
    BY <1>6 DEF SetByHand
  <1>7. CASE UNCHANGED vars
    BY <1>7
  <1>8. CASE Next
    <2>1. answered' \ answered = {} \/ (UNCHANGED events /\ \A i \in answered' \ answered : Done(i))
      BY <1>8, <1>2, <1>3, <1>4, <1>5, <1>6, HandlerDone, StepShape
    <2> QED
      BY <1>1, <2>1
  <1> QED
    BY <1>7, <1>8

(* Whatever failed in earlier deliveries, an event is answered only when    *)
(* its full refund of a known customer has revoked what it was for, or when *)
(* its checkout has a licence; and that is so exactly when the session has  *)
(* all its data and its product is there: the checkouts that are answered   *)
(* without a licence are those the early returns name, and no others.       *)
THEOREM AnsweredEffect ==
    ASSUME SubscriptionParameters
    PROVE  Spec => AnsweredIsDone
  BY AlwaysPInv, DoneNext, PTL DEF Spec, AnsweredIsDone

-----------------------------------------------------------------------------
(* Whose licences a step changes. *)

(* The last statement of a handler gives a licence the status of its        *)
(* event's transition, and only if it had the status that leads from and    *)
(* was in the scope chosen.                                                 *)
LEMMA ApplyChanges ==
    ASSUME SInv, NEW h \in Handlers, Apply(h), NEW n \in DOMAIN licences,
           licences'[n] # licences[n]
    PROVE  /\ licences[n].status \in {"ACTIVE", "SUSPENDED"}
           /\ licences[n].sub # None =>
                EventOf(h).sub = licences[n].sub \/ EventOf(h).type = "refunded"
  <1> DEFINE e == EventOf(h)
             scope == calls[h].scope
  <1>1. HasFromStatus(licences[n], e.type) /\ InScope(licences[n], scope, e)
    BY DEF Apply
  <1>2. calls[h].step = "apply" /\ Fits(calls[h], e.type)
    BY DEF Apply, SInv, StepsFit
  <1>3. e.type \in {"updated", "deleted", "payment_failed", "refunded"}
    BY <1>2 DEF Fits
  <1>4. scope \in Scopes
    BY <1>2 DEF Fits
  <1>5. licences[n].status \in {"ACTIVE", "SUSPENDED"}
    BY <1>1, <1>3 DEF HasFromStatus, Transition
  <1>6. ASSUME licences[n].sub # None, e.type # "refunded" PROVE e.sub = licences[n].sub
    <2>1. calls[h].step = "apply" /\ scope \notin {"product", "customer"}
      BY <1>2, <1>6 DEF Fits
    <2>2. scope \in {"linked", "unlinked"}
      BY <1>4, <2>1 DEF Scopes
    <2> QED
      BY <1>1, <1>6, <2>2 DEF InScope, Unlinked
  <1> QED
    BY <1>5, <1>6

(* Beyond Apply only a checkout touches the licences, and it appends.       *)
LEMMA OthersKeep ==
    ASSUME SubscriptionParameters, SInv, Next, NEW n \in DOMAIN licences,
           licences'[n] # licences[n]
    PROVE  \/ \E h \in Handlers : Apply(h)
           \/ UNCHANGED calls
  <1>1. ASSUME NEW h \in Handlers, CheckoutIssue(h) PROVE licences'[n] = licences[n]
    <2>1. calls[h].step # "idle" /\ EventOf(h).type = "checkout"
      BY <1>1 DEF CheckoutIssue, At
    <2>2. EventOf(h).session \in Sessions
      BY <2>1 DEF SInv, TypeOK, EventsFit, EventOf
    <2> QED
      BY <1>1, <2>2, IssueTyped DEF CheckoutIssue, SInv, TypeOK
  <1>2. ASSUME NEW h \in Handlers, HandlerStep(h) PROVE Apply(h)
    BY <1>1, <1>2 DEF HandlerStep, CheckoutConflict, UpdatedWrite, UpdatedConflict, SubScope,
                      Scoped, RefundRecord, RefundRecorded, RefundScope, rowVars
  <1>3. ASSUME NEW i \in DOMAIN events, NEW h \in Handlers,
               \/ CheckoutLookup(h, i)
               \/ UpdatedLookup(h, i)
               \/ DeletedWrite(h, i)
               \/ FailedWrite(h, i)
               \/ RefundList(h, i)
        PROVE  UNCHANGED licences
    BY <1>3 DEF CheckoutLookup, UpdatedLookup, DeletedWrite, FailedWrite, EndOrFail, RefundList,
                rowVars
  <1>4. ASSUME NEW i \in DOMAIN events, Redeliver(i) PROVE UNCHANGED licences
    BY <1>4 DEF Redeliver, rowVars
  <1>5. ASSUME NEW h \in Handlers, HandlerFails(h) PROVE UNCHANGED licences
    BY <1>5 DEF HandlerFails, rowVars
  <1>6. ASSUME NEW m \in DOMAIN licences, NEW status \in LicenceStatuses, SetByHand(m, status)
        PROVE  UNCHANGED calls
    BY <1>6 DEF SetByHand
  <1> QED
    BY <1>2, <1>3, <1>4, <1>5, <1>6, StepShape

(* An applying handler is the only one whose call changes.                  *)
LEMMA OneCaller ==
    ASSUME SInv, NEW h \in Handlers, Apply(h), NEW g \in Handlers, calls'[g] # calls[g]
    PROVE  g = h
  BY DEF Apply, Finish, SInv, TypeOK

LEMMA EndedNext ==
    ASSUME SubscriptionParameters, SInv, [Next]_vars
    PROVE  [calls' # calls => \A n \in DOMAIN licences :
              licences[n].status \in {"EXPIRED", "REVOKED"} =>
                licences'[n].status = licences[n].status]_vars
  <1>1. CASE UNCHANGED vars
    BY <1>1
  <1>2. ASSUME Next, calls' # calls, NEW n \in DOMAIN licences,
               licences[n].status \in {"EXPIRED", "REVOKED"}
        PROVE  licences'[n] = licences[n]
    BY <1>2, OthersKeep, ApplyChanges
  <1> QED
    BY <1>1, <1>2

(* No event, however late, gives back a licence that has expired or was     *)
(* revoked, nor suspends or expires one that is no longer active.           *)
THEOREM EndedKept ==
    ASSUME SubscriptionParameters
    PROVE  Spec => EndedStaysEnded
  BY AlwaysSInv, EndedNext, PTL DEF Spec, EndedStaysEnded

LEMMA LinkedNext ==
    ASSUME SubscriptionParameters, SInv, [Next]_vars
    PROVE  [\A h \in Handlers, n \in DOMAIN licences :
              (/\ calls'[h] # calls[h]
               /\ licences'[n] # licences[n]
               /\ licences[n].sub # None) =>
                 EventOf(h).sub = licences[n].sub \/ EventOf(h).type = "refunded"]_vars
  <1>1. CASE UNCHANGED vars
    BY <1>1
  <1>2. ASSUME Next, NEW h \in Handlers, NEW n \in DOMAIN licences,
               calls'[h] # calls[h], licences'[n] # licences[n], licences[n].sub # None
        PROVE  EventOf(h).sub = licences[n].sub \/ EventOf(h).type = "refunded"
    <2>1. PICK g \in Handlers : Apply(g)
      BY <1>2, OthersKeep
    <2>2. h = g
      BY <1>2, <2>1, OneCaller
    <2> QED
      BY <1>2, <2>1, <2>2, ApplyChanges
  <1> QED
    BY <1>1, <1>2

(* The events of one subscription never change a licence that names         *)
(* another: in whatever order the counting of the licences, the checkout    *)
(* that issues one and the update by the scope chosen come.                 *)
THEOREM LinkedKept ==
    ASSUME SubscriptionParameters
    PROVE  Spec => LinkedByOwnEvents
  BY AlwaysSInv, LinkedNext, PTL DEF Spec, LinkedByOwnEvents

-----------------------------------------------------------------------------
(* Licences follow billing. *)

(* The events after which the licences of a subscription are what the event *)
(* says; updates to any other status and refunds leave them, or revoke.     *)
Tells(e) ==
    \/ e.type \in {"checkout", "payment_failed", "deleted"}
    \/ e.type = "updated" /\ mapStripeStatus(e.status) = "ACTIVE"

(* Of the first k events, j is the last that tells of s.                    *)
LastTold(s, k, j) ==
    /\ j \in 1..k
    /\ events[j].sub = s /\ Tells(events[j])
    /\ \A i \in 1..k : (i > j /\ events[i].sub = s) => ~Tells(events[i])

(* What the licences of a subscription may be after an event that tells.    *)
Told(type) ==
    CASE type = "payment_failed" -> {"SUSPENDED", "REVOKED"}
      [] type = "deleted"        -> {"EXPIRED", "SUSPENDED", "REVOKED"}
      [] OTHER                   -> {"ACTIVE", "REVOKED"}

(* Stripe: the last event that tells is the one billing is in agreement     *)
(* with, nothing tells of a subscription that has been deleted, and a       *)
(* subscription is checked out once.                                        *)
BillingTold(s) ==
    \A j \in DOMAIN events : LastTold(s, Len(events), j) =>
      /\ billing[s] \in {"past_due", "unpaid"} => events[j].type = "payment_failed"
      /\ billing[s] = "active" => events[j].type \in {"checkout", "updated"}
      /\ billing[s] = "canceled" => events[j].type = "deleted"

DeletedLast(s) ==
    \A j \in DOMAIN events : (events[j].sub = s /\ events[j].type = "deleted") =>
      /\ billing[s] = "canceled"
      /\ \A i \in DOMAIN events : (i > j /\ events[i].sub = s) => ~Tells(events[i])

CheckedOutOnce(s) ==
    \A j \in DOMAIN events : (events[j].sub = s /\ events[j].type = "checkout") =>
      /\ billing[s] \notin {"none", "incomplete"}
      /\ \A i \in DOMAIN events :
           (events[i].sub = s /\ events[i].type = "checkout") => i = j

SoldBySession ==
    \A j \in DOMAIN events :
      events[j].type = "checkout" => events[j].sub = SubOf[events[j].session]

StripeAgrees ==
    /\ SoldBySession
    /\ \A s \in Subs : BillingTold(s) /\ DeletedLast(s) /\ CheckedOutOnce(s)

(* The webhook, as long as nothing disturbed it: the first k events are     *)
(* answered, at most one handler holds the next one, ...                    *)
OneByOne(k) ==
    /\ answered = 1..k
    /\ \A h \in Handlers : calls[h].step # "idle" => calls[h].event = k + 1
    /\ \A h, g \in Handlers :
         (calls[h].step # "idle" /\ calls[g].step # "idle") => h = g

(* ... it reactivates only for an active status, and takes the licences of  *)
(* its subscription as soon as there is one, ...                            *)
WellAimed(c) ==
    /\ (c.step \in {"scope", "apply"} /\ events[c.event].type = "updated") =>
         mapStripeStatus(events[c.event].status) = "ACTIVE"
    /\ (c.step = "apply" /\ events[c.event].type # "refunded"
        /\ \E n \in DOMAIN licences : licences[n].sub = events[c.event].sub) =>
           c.scope = "linked"

(* ... and every licence that names its subscription has been checked out,  *)
(* its subscription is known, and its status is what was told last.         *)
AsTold(l, k) ==
    l.sub # None =>
      /\ subs[l.sub] # "none"
      /\ \E j \in 1..k : events[j].sub = l.sub /\ events[j].type = "checkout"
      /\ \E j \in 1..k : LastTold(l.sub, k, j) /\ l.status \in Told(events[j].type)

InStepAt(k) ==
    /\ OneByOne(k)
    /\ \A h \in Handlers : calls[h].step # "idle" => WellAimed(calls[h])
    /\ \A n \in DOMAIN licences : AsTold(licences[n], k)

InStep == undisturbed => \E k \in 0..Len(events) : InStepAt(k)

FInv == SInv /\ StripeAgrees /\ InStep

-----------------------------------------------------------------------------
(* Stripe's side of it. *)

(* How billing may move while nothing is told of the subscription.          *)
Quietly(b, c) ==
    /\ c \in {"past_due", "unpaid"} => b \in {"past_due", "unpaid"}
    /\ c = "active" => b = "active"
    /\ c = "canceled" <=> b = "canceled"
    /\ b \notin {"none", "incomplete"} => c \notin {"none", "incomplete"}

(* How it may move with an event that tells.                                *)
Openly(e, b, c) ==
    /\ b # "canceled"
    /\ c \in {"past_due", "unpaid"} => e.type = "payment_failed"
    /\ c = "active" => e.type \in {"checkout", "updated"}
    /\ c = "canceled" <=> e.type = "deleted"
    /\ e.type = "checkout" => b \in {"none", "incomplete"} /\ c \notin {"none", "incomplete"}
    /\ b \notin {"none", "incomplete"} => c \notin {"none", "incomplete"}

LEMMA QuietSame ==
    \A b : Quietly(b, b)
  BY DEF Quietly

LEMMA AgreesUnemitted ==
    ASSUME StripeAgrees, UNCHANGED events,
           \A s \in Subs : Quietly(billing[s], billing'[s])
    PROVE  StripeAgrees'
  <1>1. SoldBySession'
    BY DEF StripeAgrees, SoldBySession
  <1>2. ASSUME NEW s \in Subs PROVE (BillingTold(s) /\ DeletedLast(s) /\ CheckedOutOnce(s))'
    <2>1. BillingTold(s) /\ DeletedLast(s) /\ CheckedOutOnce(s)
      BY DEF StripeAgrees
    <2>2. Quietly(billing[s], billing'[s])
      OBVIOUS
    <2>3. BillingTold(s)'
      BY <2>1, <2>2 DEF BillingTold, LastTold, Quietly
    <2>4. DeletedLast(s)'
      BY <2>1, <2>2 DEF DeletedLast, Quietly
    <2>5. CheckedOutOnce(s)'
      BY <2>1, <2>2 DEF CheckedOutOnce, Quietly
    <2> QED
      BY <2>3, <2>4, <2>5
  <1> QED
    BY <1>1, <1>2 DEF StripeAgrees

LEMMA AgreesEmitted ==
    ASSUME StripeAgrees, events \in Seq(Event), NEW e \in Event, events' = Append(events, e),
           e.type = "checkout" => e.sub = SubOf[e.session],
           \A s \in Subs :
             \/ (e.sub # s \/ ~Tells(e)) /\ Quietly(billing[s], billing'[s])
             \/ e.sub = s /\ Tells(e) /\ Openly(e, billing[s], billing'[s])
    PROVE  StripeAgrees'
  <1>0. PICK L : L = Len(events)
    OBVIOUS
  <1>1. /\ L \in Nat /\ DOMAIN events = 1..L
        /\ Len(events') = L + 1 /\ DOMAIN events' = 1..(L + 1)
        /\ \A i \in 1..L : events'[i] = events[i]
        /\ events'[L + 1] = e
    BY <1>0, AppendProperties
  <1>2. SoldBySession'
    BY <1>1 DEF StripeAgrees, SoldBySession
  <1>3. ASSUME NEW s \in Subs PROVE (BillingTold(s) /\ DeletedLast(s) /\ CheckedOutOnce(s))'
    <2>1. BillingTold(s) /\ DeletedLast(s) /\ CheckedOutOnce(s)
      BY DEF StripeAgrees
    <2>2. PICK b : b = billing[s]
      OBVIOUS
    <2>3. PICK c : c = billing'[s]
      OBVIOUS
    <2>4. \/ (e.sub # s \/ ~Tells(e)) /\ Quietly(b, c)
          \/ e.sub = s /\ Tells(e) /\ Openly(e, b, c)
      BY <2>2, <2>3
    <2>5. \A j \in 1..L : LastTold(s, L + 1, j)' => LastTold(s, L, j)
      BY <1>1 DEF LastTold, Tells
    <2>6. \A j \in 1..L : (e.sub = s /\ Tells(e)) => ~LastTold(s, L + 1, j)'
      BY <1>1 DEF LastTold, Tells
    <2>7. LastTold(s, L + 1, L + 1)' => e.sub = s /\ Tells(e)
      BY <1>1 DEF LastTold, Tells
    <2>8. ASSUME NEW j \in 1..(L + 1), LastTold(s, L + 1, j)'
          PROVE  /\ c \in {"past_due", "unpaid"} => events'[j].type = "payment_failed"
                 /\ c = "active" => events'[j].type \in {"checkout", "updated"}
                 /\ c = "canceled" => events'[j].type = "deleted"
      <3>1. CASE j = L + 1
        <4>1. Openly(e, b, c) /\ events'[j] = e
          BY <1>1, <2>4, <2>7, <2>8, <3>1
        <4> QED
          BY <4>1 DEF Openly
      <3>2. CASE j \in 1..L
        <4>1. LastTold(s, L, j) /\ Quietly(b, c) /\ events'[j] = events[j]
          BY <1>1, <2>4, <2>5, <2>6, <2>8, <3>2
        <4> QED
          BY <1>0, <1>1, <2>1, <2>2, <3>2, <4>1 DEF BillingTold, Quietly
      <3> QED
        BY <1>1, <2>8, <3>1, <3>2
    <2>9. BillingTold(s)'
      BY <1>1, <2>3, <2>8 DEF BillingTold
    <2>10. DeletedLast(s)'
      <3>1. ASSUME NEW j \in 1..(L + 1), events'[j].sub = s, events'[j].type = "deleted"
            PROVE  /\ c = "canceled"
                   /\ \A i \in 1..(L + 1) : (i > j /\ events'[i].sub = s) => ~Tells(events'[i])
        <4>1. CASE j = L + 1
          <5>1. Tells(e) /\ e.sub = s /\ e.type = "deleted"
            BY <1>1, <3>1, <4>1 DEF Tells
          <5>2. c = "canceled"
            BY <2>4, <5>1 DEF Openly
          <5>3. \A i \in 1..(L + 1) : ~(i > j)
            BY <1>1, <4>1
          <5> QED
            BY <5>2, <5>3
        <4>2. CASE j \in 1..L
          <5>1. b = "canceled" /\ \A i \in 1..L : (i > j /\ events[i].sub = s) => ~Tells(events[i])
            BY <1>1, <2>1, <2>2, <3>1, <4>2 DEF DeletedLast
          <5>2. (e.sub # s \/ ~Tells(e)) /\ c = "canceled"
            BY <2>4, <5>1 DEF Openly, Quietly
          <5>3. ASSUME NEW i \in 1..(L + 1), i > j, events'[i].sub = s PROVE ~Tells(events'[i])
            <6>1. CASE i = L + 1
              BY <1>1, <5>2, <5>3, <6>1
            <6>2. CASE i \in 1..L
              <7>1. events'[i] = events[i]
                BY <1>1, <6>2
              <7> QED
                BY <5>1, <5>3, <6>2, <7>1
            <6> QED
              BY <1>1, <5>3, <6>1, <6>2
          <5> QED
            BY <5>2, <5>3
        <4> QED
          BY <1>1, <3>1, <4>1, <4>2
      <3> QED
        BY <1>1, <2>3, <3>1 DEF DeletedLast, Tells
    <2>11. CheckedOutOnce(s)'
      <3>1. ASSUME NEW j \in 1..(L + 1), events'[j].sub = s, events'[j].type = "checkout"
            PROVE  /\ c \notin {"none", "incomplete"}
                   /\ j \in 1..L => b \notin {"none", "incomplete"}
        <4>1. CASE j = L + 1
          <5>1. Tells(e) /\ e.sub = s /\ e.type = "checkout"
            BY <1>1, <3>1, <4>1 DEF Tells
          <5>2. c \notin {"none", "incomplete"}
            BY <2>4, <5>1 DEF Openly
          <5> QED
            BY <1>1, <4>1, <5>2
        <4>2. CASE j \in 1..L
          <5>1. b \notin {"none", "incomplete"}
            BY <1>1, <2>1, <2>2, <3>1, <4>2 DEF CheckedOutOnce
          <5> QED
            BY <2>4, <5>1 DEF Openly, Quietly
        <4> QED
          BY <1>1, <3>1, <4>1, <4>2
      <3>2. ASSUME NEW j \in 1..(L + 1), events'[j].sub = s, events'[j].type = "checkout",
                   NEW i \in 1..(L + 1), events'[i].sub = s, events'[i].type = "checkout"
            PROVE  i = j
        <4>1. CASE i = L + 1 /\ j = L + 1
          BY <4>1
        <4>2. CASE i \in 1..L /\ j \in 1..L
          BY <1>1, <2>1, <3>2, <4>2 DEF CheckedOutOnce
        <4>3. CASE (i = L + 1 /\ j \in 1..L) \/ (i \in 1..L /\ j = L + 1)
          <5>1. Tells(e) /\ e.sub = s /\ e.type = "checkout"
            BY <1>1, <3>2, <4>3 DEF Tells
          <5>2. b \in {"none", "incomplete"}
            BY <2>4, <5>1 DEF Openly
          <5> QED
            BY <3>1, <3>2, <4>3, <5>2
        <4> QED
          BY <1>1, <3>2, <4>1, <4>2, <4>3
      <3> QED
        BY <1>1, <2>3, <3>1, <3>2 DEF CheckedOutOnce
    <2> QED
      BY <2>9, <2>10, <2>11
  <1> QED
    BY <1>2, <1>3 DEF StripeAgrees

LEMMA AgreesStripe ==
    ASSUME SubscriptionParameters, SInv, StripeAgrees, StripeStep
    PROVE  StripeAgrees'
  <1>1. /\ events \in Seq(Event) /\ billing \in [Subs -> StripeStatuses \cup {"none"}]
        /\ None \notin Subs
    BY DEF SInv, TypeOK, SubscriptionParameters
  <1>2. ASSUME NEW s \in Subs, NEW to, billing' = [billing EXCEPT ![s] = to]
        PROVE  /\ billing'[s] = to
               /\ \A t \in Subs : t # s => Quietly(billing[t], billing'[t])
    BY <1>1, <1>2, QuietSame
  <1>3. ASSUME NEW s \in Subs, UNCHANGED events, Quietly(billing[s], billing'[s]),
               \A t \in Subs : t # s => Quietly(billing[t], billing'[t])
        PROVE  StripeAgrees'
    BY <1>3, AgreesUnemitted
  <1>4. ASSUME NEW s \in Subs, NEW e \in Event, e.sub = s, e.type # "checkout", Emit(e),
               Tells(e), Openly(e, billing[s], billing'[s]),
               \A t \in Subs : t # s => Quietly(billing[t], billing'[t])
        PROVE  StripeAgrees'
    BY <1>1, <1>4, AgreesEmitted DEF Emit
  <1>5. ASSUME NEW s \in Subs, NEW type \in {"payment_failed", "deleted"}
        PROVE  /\ About(type, s) \in Event /\ About(type, s).sub = s
               /\ About(type, s).type = type /\ Tells(About(type, s))
    BY <1>5, EventTyped DEF About, Tells, EventTypes
  <1>6. ASSUME NEW s \in Subs, Subscribe(s) PROVE StripeAgrees'
    <2>1. billing[s] = "none" /\ billing' = [billing EXCEPT ![s] = "incomplete"]
          /\ UNCHANGED events
      BY <1>6 DEF Subscribe, BillingMoves
    <2>2. Quietly(billing[s], billing'[s])
      BY <1>2, <2>1 DEF Quietly
    <2> QED
      BY <1>2, <1>3, <2>1, <2>2
  <1>7. ASSUME NEW s \in Subs, DeclineFirst(s) PROVE StripeAgrees'
    <2>1. billing[s] = "incomplete" /\ billing' = [billing EXCEPT ![s] = "incomplete"]
          /\ Emit(About("payment_failed", s))
      BY <1>7 DEF DeclineFirst, BillingMoves
    <2>2. About("payment_failed", s).type = "payment_failed"
      BY DEF About
    <2>3. Openly(About("payment_failed", s), billing[s], billing'[s])
      BY <1>2, <2>1, <2>2 DEF Openly
    <2> QED
      BY <1>2, <1>4, <1>5, <2>1, <2>3
  <1>8. ASSUME NEW s \in Subs, FallDue(s) PROVE StripeAgrees'
    <2>1. billing[s] = "active" /\ billing' = [billing EXCEPT ![s] = "past_due"]
          /\ Emit(About("payment_failed", s))
      BY <1>8 DEF FallDue, BillingMoves
    <2>2. About("payment_failed", s).type = "payment_failed"
      BY DEF About
    <2>3. Openly(About("payment_failed", s), billing[s], billing'[s])
      BY <1>2, <2>1, <2>2 DEF Openly
    <2> QED
      BY <1>2, <1>4, <1>5, <2>1, <2>3
  <1>9. ASSUME NEW s \in Subs, Cancel(s) PROVE StripeAgrees'
    <2>1. billing[s] \in {"active", "past_due", "unpaid", "paused"}
          /\ billing' = [billing EXCEPT ![s] = "canceled"]
          /\ Emit(About("deleted", s))
      BY <1>9 DEF Cancel, BillingMoves
    <2>2. About("deleted", s).type = "deleted"
      BY DEF About
    <2>3. Openly(About("deleted", s), billing[s], billing'[s])
      BY <1>2, <2>1, <2>2 DEF Openly
    <2> QED
      BY <1>2, <1>4, <1>5, <2>1, <2>3
  <1>10. ASSUME NEW s \in Subs, NEW status \in StripeStatuses
         PROVE  /\ Updated(s, status) \in Event /\ Updated(s, status).sub = s
                /\ Updated(s, status).type = "updated"
                /\ Tells(Updated(s, status)) <=> mapStripeStatus(status) = "ACTIVE"
    BY <1>10, EventTyped DEF Updated, Tells
  <1>11. ASSUME NEW s \in Subs, Renew(s) PROVE StripeAgrees'
    <2>1. billing[s] \in {"past_due", "unpaid", "paused"}
          /\ billing' = [billing EXCEPT ![s] = "active"]
          /\ Emit(Updated(s, "active"))
      BY <1>11 DEF Renew, BillingMoves
    <2>2. "active" \in StripeStatuses /\ mapStripeStatus("active") = "ACTIVE"
      BY DEF StripeStatuses, mapStripeStatus
    <2>3. Updated(s, "active").type = "updated"
      BY DEF Updated
    <2>4. Openly(Updated(s, "active"), billing[s], billing'[s])
      BY <1>2, <2>1, <2>3 DEF Openly
    <2> QED
      BY <1>2, <1>4, <1>10, <2>1, <2>2, <2>4
  <1>12. ASSUME NEW s \in Subs, Report(s) PROVE StripeAgrees'
    <2>1. PICK b \in StripeStatuses : b = billing[s]
      BY <1>12 DEF Report, BillingMoves
    <2>2. UNCHANGED billing /\ Emit(Updated(s, b))
      BY <1>1, <1>12, <2>1 DEF Report, BillingMoves
    <2>3. CASE mapStripeStatus(b) = "ACTIVE"
      <3>1. b \in {"active", "trialing"}
        BY <2>3 DEF mapStripeStatus
      <3>2. Openly(Updated(s, b), billing[s], billing'[s])
        BY <1>10, <2>1, <2>2, <3>1 DEF Openly
      <3> QED
        BY <1>4, <1>10, <2>1, <2>2, <2>3, <3>2, QuietSame
    <2>4. CASE mapStripeStatus(b) # "ACTIVE"
      BY <1>1, <1>10, <2>1, <2>2, <2>4, QuietSame, AgreesEmitted DEF Emit
    <2> QED
      BY <2>3, <2>4
  <1>13. ASSUME NEW s \in Subs, PauseOrGiveUp(s) PROVE StripeAgrees'
    <2>1. CASE BillingMoves(s, {"active"}, "paused")
      <3>1. billing[s] = "active" /\ billing' = [billing EXCEPT ![s] = "paused"]
        BY <2>1 DEF BillingMoves
      <3>2. Quietly(billing[s], billing'[s])
        BY <1>2, <3>1 DEF Quietly
      <3> QED
        BY <1>2, <1>3, <1>13, <3>1, <3>2 DEF PauseOrGiveUp
    <2>2. CASE BillingMoves(s, {"past_due"}, "unpaid")
      <3>1. billing[s] = "past_due" /\ billing' = [billing EXCEPT ![s] = "unpaid"]
        BY <2>2 DEF BillingMoves
      <3>2. Quietly(billing[s], billing'[s])
        BY <1>2, <3>1 DEF Quietly
      <3> QED
        BY <1>2, <1>3, <1>13, <3>1, <3>2 DEF PauseOrGiveUp
    <2> QED
      BY <1>13, <2>1, <2>2 DEF PauseOrGiveUp
  <1>14. ASSUME NEW c \in Sessions, Complete(c) PROVE StripeAgrees'
    <2>1. PICK e \in Event : e = Checkout(c)
      BY EventTyped
    <2>2. e.sub = SubOf[c] /\ e.session = c /\ e.type = "checkout" /\ Tells(e)
      BY <2>1 DEF Checkout, Tells
    <2>3. events' = Append(events, e)
      BY <1>14, <2>1 DEF Complete, Emit
    <2>4. CASE SubOf[c] = None
      <3>1. UNCHANGED billing
        BY <1>14, <2>4 DEF Complete
      <3> QED
        BY <1>1, <2>2, <2>3, <2>4, <3>1, QuietSame, AgreesEmitted
    <2>5. CASE SubOf[c] # None
      <3>1. PICK s \in Subs : s = SubOf[c]
        BY <2>5 DEF SubscriptionParameters
      <3>2. billing[s] = "incomplete" /\ billing' = [billing EXCEPT ![s] = "active"]
        BY <1>14, <2>5, <3>1 DEF Complete, BillingMoves
      <3>3. Openly(e, billing[s], billing'[s])
        BY <1>2, <2>2, <3>2 DEF Openly
      <3> QED
        BY <1>1, <1>2, <2>2, <2>3, <3>1, <3>2, <3>3, AgreesEmitted
    <2> QED
      BY <2>4, <2>5
  <1>15. ASSUME NEW c \in Sessions, NEW full \in BOOLEAN, Refund(c, full) PROVE StripeAgrees'
    <2>1. PICK e \in Event : e = Refunded(c, full)
      BY EventTyped
    <2>2. e.type = "refunded" /\ ~Tells(e)
      BY <2>1 DEF Refunded, Tells
    <2>3. events' = Append(events, e) /\ UNCHANGED billing
      BY <1>15, <2>1 DEF Refund, Emit
    <2> QED
      BY <1>1, <2>2, <2>3, QuietSame, AgreesEmitted
  <1> QED
    BY <1>6, <1>7, <1>8, <1>9, <1>11, <1>12, <1>13, <1>14, <1>15 DEF StripeStep

(* The webhook still sees the events it saw.                                *)
LEMMA InStepStripe ==
    ASSUME SubscriptionParameters, SInv, InStep, StripeStep
    PROVE  InStep'
  <1>1. StripeOnly /\ (UNCHANGED events \/ \E e : events' = Append(events, e))
    BY DEF StripeStep, StripeOnly, Emit, Subscribe, DeclineFirst, Report, Complete,
           Renew, FallDue, PauseOrGiveUp, Cancel, Refund
  <1>2. PICK L : L = Len(events)
    OBVIOUS
  <1>3. /\ L \in Nat /\ DOMAIN events = 1..L
        /\ Len(events') \in Nat /\ L <= Len(events')
        /\ \A i \in 1..L : events'[i] = events[i]
    <2>1. SInv'
      BY StripeInv
    <2>2. events \in Seq(Event) /\ events' \in Seq(Event)
      BY <2>1 DEF SInv, TypeOK
    <2>3. CASE UNCHANGED events
      BY <1>2, <2>2, <2>3
    <2>4. CASE \E e : events' = Append(events, e)
      BY <1>2, <2>2, <2>4
    <2> QED
      BY <1>1, <2>3, <2>4
  <1>4. ASSUME undisturbed, NEW k \in 0..L, InStepAt(k)
        PROVE  k \in 0..Len(events') /\ InStepAt(k)'
    <2>1. OneByOne(k)'
      BY <1>1, <1>4 DEF InStepAt, OneByOne, StripeOnly
    <2>2. ASSUME NEW h \in Handlers, calls[h].step # "idle"
          PROVE  WellAimed(calls[h])'
      <3>1. calls[h].event \in 1..L
        BY <1>3, <2>2 DEF SInv, TypeOK
      <3>2. PICK c : c = calls[h]
        OBVIOUS
      <3>3. WellAimed(c) /\ events'[c.event] = events[c.event]
        BY <1>3, <1>4, <2>2, <3>1, <3>2 DEF InStepAt
      <3> QED
        BY <1>1, <3>2, <3>3 DEF WellAimed, StripeOnly, rowVars
    <2>3. ASSUME NEW l, AsTold(l, k) PROVE AsTold(l, k)'
      <3>1. \A j \in 1..k : events'[j] = events[j]
        BY <1>3, <1>4
      <3> QED
        BY <1>1, <2>3, <3>1 DEF AsTold, LastTold, StripeOnly, rowVars
    <2>4. \A n \in DOMAIN licences' : AsTold(licences[n], k)'
      BY <1>1, <1>4, <2>3 DEF InStepAt, StripeOnly, rowVars
    <2> QED
      BY <1>1, <1>3, <1>4, <2>1, <2>2, <2>4 DEF InStepAt, StripeOnly, rowVars
  <1> QED
    BY <1>1, <1>2, <1>4 DEF InStep, StripeOnly, historyVars

-----------------------------------------------------------------------------
(* The webhook's side: what a licence is stays as told.                     *)

LEMMA SameUpTo ==
    ASSUME NEW a \in Nat, NEW b \in Nat, 1..a = 1..b
    PROVE  a = b
  <1>1. CASE a = 0
    BY <1>1
  <1>2. CASE a >= 1
    <2>1. a \in 1..b
      BY <1>2
    <2>2. b \in 1..a
      BY <2>1
    <2> QED
      BY <2>1, <2>2
  <1> QED
    BY <1>1, <1>2

LEMMA NextInTurn ==
    ASSUME SInv, NEW k \in Nat, OneByOne(k), NEW h \in Handlers, NEW i \in DOMAIN events,
           NEW type, Unanswered(h, i, type), undisturbed'
    PROVE  /\ i = k + 1 /\ events[i].type = type
           /\ undisturbed
           /\ \A g \in Handlers : calls[g] = Idle /\ calls[g].step = "idle"
  <1>1. undisturbed /\ answered = 1..(i - 1) /\ \A g \in Handlers : calls[g] = Idle
    BY DEF Unanswered, InTurn
  <1>2. i \in Nat /\ i >= 1 /\ 1..k = 1..(i - 1)
    BY <1>1 DEF OneByOne, SInv, TypeOK
  <1>3. i - 1 = k
    BY <1>2, SameUpTo
  <1> QED
    BY <1>1, <1>2, <1>3 DEF Unanswered, Idle, CallAt

(* Subscriptions that are known stay known.                                 *)
KnownStays == \A s \in Subs : subs[s] # "none" => subs'[s] # "none"

LEMMA LicenceTyped ==
    ASSUME SInv, NEW n \in DOMAIN licences
    PROVE  licences[n].sub \in Subs \cup {None} /\ licences[n].status \in LicenceStatuses
  <1>1. licences \in Seq(Licence)
    BY DEF SInv, TypeOK
  <1>2. licences[n] \in Licence
    BY <1>1
  <1> QED
    BY <1>2 DEF Licence

(* A statement that is not the last of its handler leaves the licences.     *)
LEMMA StillInStep ==
    ASSUME SInv, NEW k \in Nat, InStepAt(k), NEW h \in Handlers,
           UNCHANGED <<events, answered, licences>>, KnownStays,
           NEW c, calls' = [calls EXCEPT ![h] = c],
           c.step # "idle" => c.event = k + 1 /\ WellAimed(c),
           \A g \in Handlers : g # h => calls[g].step = "idle"
    PROVE  InStepAt(k)'
  <1>1. \A g \in Handlers : calls'[g] = IF g = h THEN c ELSE calls[g]
    BY DEF SInv, TypeOK
  <1>2. OneByOne(k)'
    BY <1>1 DEF InStepAt, OneByOne
  <1>3. ASSUME NEW g \in Handlers, calls'[g].step # "idle" PROVE WellAimed(calls'[g])
    BY <1>1, <1>3
  <1>4. ASSUME NEW g \in Handlers, calls'[g].step # "idle" PROVE WellAimed(calls[g])'
    BY <1>3, <1>4 DEF WellAimed
  <1>5. ASSUME NEW n \in DOMAIN licences PROVE AsTold(licences[n], k)'
    <2>1. AsTold(licences[n], k) /\ licences[n].sub \in Subs \cup {None}
      BY LicenceTyped DEF InStepAt
    <2> QED
      BY <2>1 DEF AsTold, LastTold, KnownStays
  <1> QED
    BY <1>2, <1>4, <1>5 DEF InStepAt

(* The last statement, whatever it did with the licences.                   *)
LEMMA NowInStep ==
    ASSUME SInv, NEW k \in Nat, InStepAt(k), k + 1 \in DOMAIN events, UNCHANGED events,
           answered' = answered \cup {k + 1},
           \A g \in Handlers : calls'[g].step = "idle",
           \A n \in DOMAIN licences' : AsTold(licences[n], k + 1)'
    PROVE  k + 1 \in 0..Len(events') /\ InStepAt(k + 1)'
  <1>1. k + 1 \in 0..Len(events')
    BY DEF SInv, TypeOK
  <1>2. answered' = 1..(k + 1)
    BY DEF InStepAt, OneByOne
  <1> QED
    BY <1>1, <1>2 DEF InStepAt, OneByOne

(* An event that does not tell of the licence's subscription.               *)
LEMMA ToldBefore ==
    ASSUME NEW k \in Nat, NEW l, AsTold(l, k), l.sub \in Subs \cup {None},
           events[k + 1].sub # l.sub \/ ~Tells(events[k + 1]),
           UNCHANGED events, KnownStays,
           NEW m, m.sub = l.sub, m.status \in {l.status, "REVOKED"}
    PROVE  AsTold(m, k + 1)'
  <1>1. SUFFICES ASSUME m.sub # None PROVE AsTold(m, k + 1)'
    BY DEF AsTold
  <1>2. subs'[m.sub] # "none"
    BY <1>1 DEF AsTold, KnownStays
  <1>3. \E j \in 1..(k + 1) : events[j].sub = m.sub /\ events[j].type = "checkout"
    BY <1>1 DEF AsTold
  <1>4. PICK j \in 1..k : LastTold(l.sub, k, j) /\ l.status \in Told(events[j].type)
    BY <1>1 DEF AsTold
  <1>5. j \in 1..(k + 1) /\ LastTold(m.sub, k + 1, j)
    BY <1>4 DEF LastTold
  <1>6. m.status \in Told(events[j].type)
    BY <1>4 DEF Told
  <1> QED
    BY <1>2, <1>3, <1>5, <1>6 DEF AsTold, LastTold

(* An event that does: the licence is not new, and not over.                *)
LEMMA ToldNow ==
    ASSUME StripeAgrees, SInv, NEW k \in Nat, k + 1 \in DOMAIN events,
           NEW l, AsTold(l, k), l.sub \in Subs,
           None \notin Subs,
           events[k + 1].sub = l.sub, Tells(events[k + 1])
    PROVE  /\ events[k + 1].type # "checkout"
           /\ l.status \in {"ACTIVE", "SUSPENDED", "REVOKED"}
  <1>1. k + 1 \in 1..Len(events) /\ DOMAIN events = 1..Len(events) /\ Len(events) \in Nat
    BY DEF SInv, TypeOK
  <1>2. events[k + 1].type # "checkout"
    <2>1. PICK j \in 1..k : events[j].sub = l.sub /\ events[j].type = "checkout"
      BY DEF AsTold
    <2>2. j \in DOMAIN events /\ j # k + 1
      BY <1>1
    <2> QED
      BY <2>1, <2>2 DEF StripeAgrees, CheckedOutOnce
  <1>3. PICK j \in 1..k : LastTold(l.sub, k, j) /\ l.status \in Told(events[j].type)
    BY DEF AsTold
  <1>4. j \in DOMAIN events /\ k + 1 > j /\ events[j].sub = l.sub
    BY <1>1, <1>3 DEF LastTold
  <1>5. events[j].type # "deleted"
    BY <1>4 DEF StripeAgrees, DeletedLast
  <1> QED
    BY <1>2, <1>3, <1>5 DEF Told

LEMMA ToldSame ==
    ASSUME NEW k \in Nat, NEW m, m.sub # None, events[k + 1].sub = m.sub,
           Tells(events[k + 1]), UNCHANGED events, subs'[m.sub] # "none",
           m.status \in Told(events[k + 1].type),
           \E j \in 1..(k + 1) : events[j].sub = m.sub /\ events[j].type = "checkout"
    PROVE  AsTold(m, k + 1)'
  <1>1. LastTold(m.sub, k + 1, k + 1)
    BY DEF LastTold
  <1> QED
    BY <1>1 DEF AsTold, LastTold

-----------------------------------------------------------------------------
(* The first statements. *)

(* An event that is answered with its first statement tells nothing of a    *)
(* subscription with licences.                                              *)
LEMMA AnsweredAtOnce ==
    ASSUME SubscriptionParameters, SInv, NEW k \in Nat, InStepAt(k), k + 1 \in DOMAIN events,
           UNCHANGED <<events, licences, subs>>, AnswerAtOnce(k + 1),
           \A g \in Handlers : calls[g].step = "idle",
           \A n \in DOMAIN licences : AsTold(licences[n], k) =>
             licences[n].sub = None \/ events[k + 1].sub # licences[n].sub \/ ~Tells(events[k + 1])
    PROVE  k + 1 \in 0..Len(events') /\ InStepAt(k + 1)'
  <1>1. ASSUME NEW n \in DOMAIN licences PROVE AsTold(licences[n], k + 1)'
    <2>1. PICK l : l = licences[n]
      OBVIOUS
    <2>2. AsTold(l, k) /\ l.sub \in Subs \cup {None}
      BY <2>1, LicenceTyped DEF InStepAt
    <2>3. CASE l.sub = None
      BY <2>1, <2>3 DEF AsTold
    <2>4. CASE events[k + 1].sub # l.sub \/ ~Tells(events[k + 1])
      <3>1. AsTold(l, k + 1)'
        BY <2>2, <2>4, ToldBefore DEF KnownStays
      <3> QED
        BY <2>1, <3>1
    <2> QED
      BY <2>1, <2>2, <2>3, <2>4
  <1> QED
    BY <1>1, NowInStep DEF AnswerAtOnce

LEMMA StartedInStep ==
    ASSUME SInv, NEW k \in Nat, InStepAt(k), NEW h \in Handlers, NEW step, NEW listed,
           UNCHANGED <<events, licences>>, KnownStays,
           Start(h, k + 1, step, listed), step \notin {"scope", "apply"}
             \/ (step = "scope" /\ events[k + 1].type # "updated"),
           \A g \in Handlers : calls[g].step = "idle"
    PROVE  InStepAt(k)'
  <1>1. PICK c : c = CallAt(k + 1, step, None, listed)
    OBVIOUS
  <1>2. c.event = k + 1 /\ c.step = step
    BY <1>1 DEF CallAt
  <1>3. WellAimed(c)
    BY <1>2 DEF WellAimed
  <1>4. calls' = [calls EXCEPT ![h] = c] /\ UNCHANGED answered
    BY <1>1 DEF Start
  <1> QED
    BY <1>2, <1>3, <1>4, StillInStep

LEMMA FollowsDeliver ==
    ASSUME SubscriptionParameters, SInv, StripeAgrees, NEW k \in Nat, InStepAt(k),
           NEW i \in DOMAIN events, Deliver(i), undisturbed, undisturbed'
    PROVE  \E q \in 0..Len(events') : InStepAt(q)'
  <1>1. None \notin Subs
    BY DEF SubscriptionParameters
  <1>2. k + 1 \in DOMAIN events => k \in 0..Len(events)
    BY DEF SInv, TypeOK
  <1>3. ASSUME NEW h \in Handlers, NEW type, Unanswered(h, i, type)
        PROVE  /\ i = k + 1 /\ events[i].type = type
               /\ \A g \in Handlers : calls[g].step = "idle"
    BY <1>3, NextInTurn DEF InStepAt
  <1>4. ASSUME NEW h \in Handlers, CheckoutLookup(h, i)
        PROVE  \E q \in 0..Len(events') : InStepAt(q)'
    <2>1. /\ i = k + 1 /\ events[i].type = "checkout"
          /\ \A g \in Handlers : calls[g].step = "idle"
          /\ UNCHANGED <<events, licences, subs>>
      BY <1>3, <1>4 DEF CheckoutLookup, Unchanged, stripeVars, rowVars
    <2>2. CASE AnswerAtOnce(i)
      <3>1. ASSUME NEW n \in DOMAIN licences, AsTold(licences[n], k)
            PROVE  licences[n].sub = None \/ events[k + 1].sub # licences[n].sub
        BY <1>1, <2>1, <3>1, LicenceTyped, ToldNow DEF Tells
      <3> QED
        BY <2>1, <2>2, <3>1, AnsweredAtOnce
    <2>3. CASE Start(h, i, "issue", {})
      BY <1>2, <2>1, <2>3, StartedInStep DEF KnownStays
    <2> QED
      BY <1>4, <2>2, <2>3 DEF CheckoutLookup
  <1>5. ASSUME NEW h \in Handlers, UpdatedLookup(h, i)
        PROVE  \E q \in 0..Len(events') : InStepAt(q)'
    <2>1. /\ i = k + 1 /\ events[i].type = "updated"
          /\ \A g \in Handlers : calls[g].step = "idle"
          /\ UNCHANGED <<events, licences, subs>>
      BY <1>3, <1>5 DEF UpdatedLookup, Unchanged, stripeVars, rowVars
    <2>2. CASE AnswerAtOnce(i) /\ subs[events[i].sub] = "none"
      <3>1. ASSUME NEW n \in DOMAIN licences, AsTold(licences[n], k)
            PROVE  licences[n].sub = None \/ events[k + 1].sub # licences[n].sub
        BY <2>1, <2>2, <3>1 DEF AsTold
      <3> QED
        BY <2>1, <2>2, <3>1, AnsweredAtOnce
    <2>3. ASSUME NEW step \in {"update", "create"}, Start(h, i, step, {})
          PROVE  InStepAt(k)'
      BY <2>1, <2>3, StartedInStep DEF KnownStays
    <2> QED
      BY <1>2, <1>5, <2>1, <2>2, <2>3 DEF UpdatedLookup
  <1>6. ASSUME NEW h \in Handlers, NEW type \in {"deleted", "payment_failed"},
               NEW status \in SubStatuses, EndOrFail(h, i, type, status)
        PROVE  \E q \in 0..Len(events') : InStepAt(q)'
    <2>1. /\ i = k + 1 /\ events[i].type = type
          /\ \A g \in Handlers : calls[g].step = "idle"
          /\ UNCHANGED <<events, licences>>
      BY <1>3, <1>6 DEF EndOrFail, Unchanged, stripeVars
    <2>2. CASE AnswerAtOnce(i) /\ subs[events[i].sub] = "none" /\ UNCHANGED subs
      <3>1. ASSUME NEW n \in DOMAIN licences, AsTold(licences[n], k)
            PROVE  licences[n].sub = None \/ events[k + 1].sub # licences[n].sub
        BY <2>1, <2>2, <3>1 DEF AsTold
      <3> QED
        BY <2>1, <2>2, <3>1, AnsweredAtOnce
    <2>3. CASE Start(h, i, "scope", {}) /\ SetSub(events[i].sub, status)
      <3>1. KnownStays
        BY <2>3 DEF KnownStays, SetSub, SInv, TypeOK, SubStatuses
      <3> QED
        BY <1>2, <2>1, <2>3, <3>1, StartedInStep
    <2> QED
      BY <1>6, <2>2, <2>3 DEF EndOrFail
  <1>7. ASSUME NEW h \in Handlers, RefundList(h, i)
        PROVE  \E q \in 0..Len(events') : InStepAt(q)'
    <2>1. /\ i = k + 1 /\ events[i].type = "refunded"
          /\ \A g \in Handlers : calls[g].step = "idle"
          /\ UNCHANGED <<events, licences, subs>>
      BY <1>3, <1>7 DEF RefundList, Unchanged, stripeVars, rowVars
    <2>2. CASE AnswerAtOnce(i)
      <3>1. ~Tells(events[k + 1])
        BY <2>1 DEF Tells
      <3> QED
        BY <2>1, <2>2, <3>1, AnsweredAtOnce
    <2>3. ASSUME NEW listed, Start(h, i, "record", listed)
          PROVE  InStepAt(k)'
      BY <2>1, <2>3, StartedInStep DEF KnownStays
    <2> QED
      BY <1>2, <1>7, <2>1, <2>2, <2>3 DEF RefundList
  <1> QED
    BY <1>4, <1>5, <1>6, <1>7 DEF Deliver, DeletedWrite, FailedWrite, SubStatuses

-----------------------------------------------------------------------------
(* The other statements. *)

(* The last statement of a handler leaves every handler idle.               *)
LEMMA FinishedInStep ==
    ASSUME SInv, NEW k \in Nat, InStepAt(k), NEW h \in Handlers, calls[h].step # "idle",
           UNCHANGED events, Finish(h),
           \A n \in DOMAIN licences' : AsTold(licences[n], k + 1)'
    PROVE  k + 1 \in 0..Len(events') /\ InStepAt(k + 1)'
  <1>1. calls[h].event = k + 1 /\ k + 1 \in DOMAIN events
    BY DEF InStepAt, OneByOne, SInv, TypeOK
  <1>2. \A g \in Handlers : calls'[g].step = "idle"
    <2>1. Idle.step = "idle"
      BY DEF Idle, CallAt
    <2>2. \A g \in Handlers : g # h => calls[g].step = "idle"
      BY DEF InStepAt, OneByOne
    <2> QED
      BY <2>1, <2>2 DEF Finish, SInv, TypeOK
  <1> QED
    BY <1>1, <1>2, NowInStep DEF Finish

(* ... and if the event tells nothing, the licences as they were.           *)
LEMMA FinishedQuietly ==
    ASSUME SubscriptionParameters, SInv, NEW k \in Nat, InStepAt(k),
           NEW h \in Handlers, calls[h].step # "idle",
           UNCHANGED <<events, licences>>, KnownStays, Finish(h), ~Tells(EventOf(h))
    PROVE  k + 1 \in 0..Len(events') /\ InStepAt(k + 1)'
  <1>1. ~Tells(events[k + 1])
    BY DEF InStepAt, OneByOne, EventOf
  <1>2. ASSUME NEW n \in DOMAIN licences PROVE AsTold(licences[n], k + 1)'
    <2>1. PICK l : l = licences[n]
      OBVIOUS
    <2>2. AsTold(l, k) /\ l.sub \in Subs \cup {None}
      BY <2>1, LicenceTyped DEF InStepAt
    <2>3. AsTold(l, k + 1)'
      BY <1>1, <2>2, ToldBefore
    <2> QED
      BY <2>1, <2>3
  <1> QED
    BY <1>2, FinishedInStep

LEMMA MovedInStep ==
    ASSUME SInv, NEW k \in Nat, InStepAt(k), NEW h \in Handlers, calls[h].step # "idle",
           UNCHANGED <<events, answered, licences>>, KnownStays,
           NEW step, NEW scope,
           WellAimed(CallAt(calls[h].event, step, scope, {})),
           calls' = [calls EXCEPT ![h] = CallAt(calls[h].event, step, scope, {})]
    PROVE  InStepAt(k)'
  <1>1. PICK c : c = CallAt(calls[h].event, step, scope, {})
    OBVIOUS
  <1>2. c.event = k + 1 /\ WellAimed(c)
    BY <1>1 DEF CallAt, InStepAt, OneByOne
  <1>3. \A g \in Handlers : g # h => calls[g].step = "idle"
    BY DEF InStepAt, OneByOne
  <1> QED
    BY <1>1, <1>2, <1>3, StillInStep

LEMMA StoppedInStep ==
    ASSUME SInv, NEW k \in Nat, InStepAt(k), NEW h \in Handlers,
           UNCHANGED <<events, licences, subs>>, EndCall(h)
    PROVE  InStepAt(k)'
  <1>1. Idle.step = "idle"
    BY DEF Idle, CallAt
  <1>2. CASE calls[h].step # "idle"
    <2>1. \A g \in Handlers : g # h => calls[g].step = "idle"
      BY <1>2 DEF InStepAt, OneByOne
    <2> QED
      BY <1>1, <2>1, StillInStep DEF EndCall, KnownStays
  <1>3. CASE calls[h].step = "idle"
    <2>1. \A g \in Handlers : calls'[g].step # "idle" => calls'[g] = calls[g]
      BY <1>1 DEF EndCall, SInv, TypeOK
    <2>2. OneByOne(k)'
      BY <2>1 DEF EndCall, InStepAt, OneByOne
    <2>3. ASSUME NEW g \in Handlers, calls'[g].step # "idle" PROVE WellAimed(calls[g])'
      <3>1. calls'[g] = calls[g] /\ WellAimed(calls[g])
        BY <2>1, <2>3 DEF InStepAt
      <3> QED
        BY <3>1 DEF WellAimed
    <2>4. ASSUME NEW n \in DOMAIN licences PROVE AsTold(licences[n], k)'
      BY DEF InStepAt, AsTold, LastTold
    <2> QED
      BY <2>2, <2>3, <2>4 DEF InStepAt
  <1> QED
    BY <1>2, <1>3

(* A checkout: the first licence of its subscription.                       *)
LEMMA FollowsIssue ==
    ASSUME SubscriptionParameters, SInv, StripeAgrees, NEW k \in Nat, InStepAt(k),
           NEW h \in Handlers, CheckoutIssue(h)
    PROVE  k + 1 \in 0..Len(events') /\ InStepAt(k + 1)'
  <1>1. PICK e : e = EventOf(h)
    OBVIOUS
  <1>2. calls[h].step # "idle" /\ e.type = "checkout" /\ Finish(h) /\ UNCHANGED events
    BY <1>1 DEF CheckoutIssue, At, Unchanged, stripeVars
  <1>3. calls[h].event = k + 1 /\ k + 1 \in DOMAIN events /\ e = events[k + 1]
    BY <1>1, <1>2 DEF InStepAt, OneByOne, SInv, TypeOK, EventOf
  <1>4. PICK c \in Sessions : c = e.session
    BY <1>2, <1>3 DEF SInv, EventsFit
  <1>5. e.sub = SubOf[c] /\ Tells(e) /\ SubOf[c] \in Subs \cup {None} /\ None \notin Subs
    BY <1>2, <1>3, <1>4 DEF StripeAgrees, SoldBySession, Tells, SubscriptionParameters
  <1>6. /\ subs' = [s \in Subs |-> IF s = SubOf[c] THEN "ACTIVE" ELSE subs[s]]
        /\ createLicense(SubOf[c], c, ProductOf[c])
    BY <1>1, <1>4 DEF CheckoutIssue
  <1>7. KnownStays
    BY <1>6 DEF KnownStays
  <1>8. PICK l : l = [status |-> "ACTIVE", sub |-> SubOf[c], session |-> c,
                     product |-> ProductOf[c]]
    OBVIOUS
  <1>9. l \in Licence /\ l.sub = SubOf[c] /\ l.status = "ACTIVE"
    BY <1>8 DEF Licence, LicenceStatuses, SubscriptionParameters
  <1>10. licences' = Append(licences, l) /\ licences \in Seq(Licence)
    BY <1>6, <1>8 DEF createLicense, SInv, TypeOK
  <1>11. ASSUME NEW n \in DOMAIN licences PROVE AsTold(licences[n], k + 1)'
    <2>1. PICK m : m = licences[n]
      OBVIOUS
    <2>2. AsTold(m, k) /\ m.sub \in Subs \cup {None} /\ licences'[n] = m
      BY <1>9, <1>10, <2>1, LicenceTyped, AppendProperties DEF InStepAt
    <2>3. CASE m.sub = None
      BY <2>2, <2>3 DEF AsTold
    <2>4. CASE m.sub \in Subs
      <3>1. e.sub # m.sub
        BY <1>2, <1>3, <1>5, <2>2, <2>4, ToldNow
      <3>2. AsTold(m, k + 1)'
        BY <1>2, <1>3, <1>7, <2>2, <3>1, ToldBefore
      <3> QED
        BY <2>2, <3>2
    <2> QED
      BY <2>2, <2>3, <2>4
  <1>12. AsTold(l, k + 1)'
    <2>1. CASE l.sub = None
      BY <2>1 DEF AsTold
    <2>2. CASE l.sub # None
      <3>1. subs'[l.sub] # "none"
        BY <1>5, <1>6, <1>9, <2>2
      <3>2. l.status \in Told(e.type) /\ k + 1 \in 1..(k + 1)
        BY <1>2, <1>9 DEF Told
      <3> QED
        BY <1>2, <1>3, <1>5, <1>9, <2>2, <3>1, <3>2, ToldSame
    <2> QED
      BY <2>1, <2>2
  <1>13. ASSUME NEW n \in DOMAIN licences' PROVE AsTold(licences[n], k + 1)'
    <2>1. n \in DOMAIN licences \/ licences'[n] = l
      BY <1>9, <1>10, <1>13, AppendProperties
    <2> QED
      BY <1>11, <1>12, <2>1
  <1> QED
    BY <1>2, <1>13, FinishedInStep

(* The update of the licences: those of the event's subscription take the   *)
(* status told, and no other that names one changes but by a refund.        *)
LEMMA FollowsApply ==
    ASSUME SubscriptionParameters, SInv, StripeAgrees, NEW k \in Nat, InStepAt(k),
           NEW h \in Handlers, Apply(h)
    PROVE  k + 1 \in 0..Len(events') /\ InStepAt(k + 1)'
  <1>1. PICK e : e = EventOf(h)
    OBVIOUS
  <1>2. PICK c : c = calls[h]
    OBVIOUS
  <1>3. c.step = "apply" /\ c.step # "idle" /\ Finish(h) /\ UNCHANGED <<events, subs>>
    BY <1>2 DEF Apply, stripeVars
  <1>4. c.event = k + 1 /\ k + 1 \in DOMAIN events /\ e = events[k + 1] /\ e = events[c.event]
    BY <1>1, <1>2, <1>3 DEF InStepAt, OneByOne, SInv, TypeOK, EventOf
  <1>5. WellAimed(c)
    BY <1>2, <1>3 DEF InStepAt
  <1>6. e.type \in {"updated", "deleted", "payment_failed", "refunded"}
    BY <1>1, <1>2, <1>3 DEF SInv, StepsFit, Fits
  <1>7. DOMAIN licences' = DOMAIN licences
    BY ApplyTyped
  <1>8. None \notin Subs
    BY DEF SubscriptionParameters
  <1>9. ASSUME NEW n \in DOMAIN licences PROVE AsTold(licences[n], k + 1)'
    <2>1. PICK l : l = licences[n]
      OBVIOUS
    <2>2. PICK m : m = licences'[n]
      OBVIOUS
    <2>3. l \in Licence
      <3>1. licences \in Seq(Licence)
        BY DEF SInv, TypeOK
      <3> QED
        BY <2>1, <3>1
    <2>4. PICK to : to = Transition(e.type).to
      OBVIOUS
    <2>5. m = IF HasFromStatus(l, e.type) /\ InScope(l, c.scope, e)
              THEN [l EXCEPT !.status = to] ELSE l
      BY <1>1, <1>2, <2>1, <2>2, <2>4 DEF Apply
    <2>6. /\ m.sub = l.sub
          /\ m.status = IF l.status = Transition(e.type).from /\ InScope(l, c.scope, e)
                        THEN to ELSE l.status
      BY <2>3, <2>5 DEF HasFromStatus, Licence
    <2>7. AsTold(l, k) /\ l.sub \in Subs \cup {None}
      BY <2>1, LicenceTyped DEF InStepAt
    <2>8. CASE l.sub = None
      BY <2>2, <2>6, <2>8 DEF AsTold
    <2>9. CASE e.type = "refunded"
      <3>1. ~Tells(events[k + 1]) /\ to = "REVOKED"
        BY <1>4, <2>4, <2>9 DEF Tells, Transition
      <3>2. m.status \in {l.status, "REVOKED"}
        BY <2>6, <3>1
      <3>3. AsTold(m, k + 1)'
        BY <1>3, <2>6, <2>7, <3>1, <3>2, ToldBefore DEF KnownStays
      <3> QED
        BY <2>2, <3>3
    <2>10. CASE l.sub # None /\ e.type # "refunded" /\ e.sub # l.sub
      <3>1. m = l
        BY <1>1, <2>1, <2>2, <2>10, ApplyChanges
      <3>2. AsTold(m, k + 1)'
        BY <1>3, <1>4, <2>7, <2>10, <3>1, ToldBefore DEF KnownStays
      <3> QED
        BY <2>2, <3>2
    <2>11. CASE l.sub # None /\ e.type # "refunded" /\ e.sub = l.sub
      <3>1. Tells(e)
        BY <1>3, <1>4, <1>5, <1>6, <2>11 DEF WellAimed, Tells
      <3>2. l.status \in {"ACTIVE", "SUSPENDED", "REVOKED"}
        BY <1>4, <1>8, <2>7, <2>11, <3>1, ToldNow
      <3>3. InScope(l, c.scope, e)
        <4>1. c.scope = "linked"
          BY <1>3, <1>4, <1>5, <2>1, <2>11 DEF WellAimed
        <4> QED
          BY <2>11, <4>1 DEF InScope
      <3>4. m.status \in Told(e.type)
        <4>1. CASE e.type = "updated"
          BY <2>4, <2>6, <3>2, <3>3, <4>1 DEF Transition, Told
        <4>2. CASE e.type = "payment_failed"
          BY <2>4, <2>6, <3>2, <3>3, <4>2 DEF Transition, Told
        <4>3. CASE e.type = "deleted"
          BY <2>4, <2>6, <3>2, <3>3, <4>3 DEF Transition, Told
        <4> QED
          BY <1>6, <2>11, <4>1, <4>2, <4>3
      <3>5. /\ subs'[m.sub] # "none"
            /\ \E j \in 1..(k + 1) : events[j].sub = m.sub /\ events[j].type = "checkout"
        BY <1>3, <2>6, <2>7, <2>11 DEF AsTold
      <3>6. AsTold(m, k + 1)'
        BY <1>3, <1>4, <2>6, <2>11, <3>1, <3>4, <3>5, ToldSame
      <3> QED
        BY <2>2, <3>6
    <2> QED
      BY <2>8, <2>9, <2>10, <2>11
  <1> QED
    BY <1>2, <1>3, <1>7, <1>9, FinishedInStep

LEMMA InStepSame ==
    ASSUME NEW k \in Nat, InStepAt(k), UNCHANGED <<events, answered, licences, calls, subs>>
    PROVE  InStepAt(k)'
  <1>1. OneByOne(k)'
    BY DEF InStepAt, OneByOne
  <1>2. ASSUME NEW h \in Handlers, calls[h].step # "idle" PROVE WellAimed(calls[h])'
    BY <1>2 DEF InStepAt, WellAimed
  <1>3. ASSUME NEW n \in DOMAIN licences PROVE AsTold(licences[n], k)'
    BY DEF InStepAt, AsTold, LastTold
  <1> QED
    BY <1>1, <1>2, <1>3 DEF InStepAt

LEMMA FollowsHandler ==
    ASSUME SubscriptionParameters, SInv, StripeAgrees, NEW k \in 0..Len(events), InStepAt(k),
           NEW h \in Handlers, HandlerStep(h)
    PROVE  \E q \in 0..Len(events') : InStepAt(q)'
  <1>1. k \in Nat
    BY DEF SInv, TypeOK
  <1>2. ASSUME UNCHANGED events, InStepAt(k)' PROVE \E q \in 0..Len(events') : InStepAt(q)'
    BY <1>2
  <1>3. CASE CheckoutIssue(h)
    BY <1>1, <1>3, FollowsIssue
  <1>4. CASE UpdatedWrite(h)
    <2>1. /\ calls[h].step # "idle" /\ EventOf(h).type = "updated"
          /\ UNCHANGED <<events, licences>>
      BY <1>4 DEF UpdatedWrite, At, Unchanged, stripeVars
    <2>2. KnownStays
      <3>1. NewStatus(h) # "none"
        BY DEF NewStatus, mapStripeStatus
      <3>2. subs' = [subs EXCEPT ![EventOf(h).sub] = NewStatus(h)] /\ DOMAIN subs = Subs
        BY <1>4 DEF UpdatedWrite, SetSub, SInv, TypeOK
      <3>3. \A s \in Subs : subs'[s] = subs[s] \/ subs'[s] = NewStatus(h)
        BY <3>2
      <3> QED
        BY <3>1, <3>3 DEF KnownStays
    <2>3. CASE Reactivates(h) /\ GoTo(h, "scope")
      <3>1. WellAimed(CallAt(calls[h].event, "scope", None, {}))
        BY <2>1, <2>3 DEF WellAimed, CallAt, Reactivates, NewStatus, EventOf
      <3> QED
        BY <1>1, <1>2, <2>1, <2>2, <2>3, <3>1, MovedInStep DEF GoTo
    <2>4. CASE ~Reactivates(h) /\ Finish(h)
      <3>1. ~Tells(EventOf(h))
        BY <2>1, <2>4 DEF Tells, Reactivates, NewStatus
      <3> QED
        BY <1>1, <2>1, <2>2, <2>4, <3>1, FinishedQuietly
    <2> QED
      BY <1>4, <2>3, <2>4 DEF UpdatedWrite
  <1>5. CASE UpdatedConflict(h)
    BY <1>1, <1>2, <1>5, StoppedInStep DEF UpdatedConflict, Unchanged, stripeVars, rowVars
  <1>6. ASSUME NEW scope, Scoped(h, scope), calls[h].step # "idle",
               WellAimed(CallAt(calls[h].event, "apply", scope, {}))
        PROVE  \E q \in 0..Len(events') : InStepAt(q)'
    BY <1>1, <1>2, <1>6, MovedInStep DEF Scoped, Unchanged, stripeVars, rowVars,
       KnownStays
  <1>7. CASE SubScope(h)
    <2>1. PICK c : c = calls[h]
      OBVIOUS
    <2>2. PICK scope : scope = ScopeOf(EventOf(h).sub)
      OBVIOUS
    <2>3. c.step = "scope" /\ Scoped(h, scope) /\ WellAimed(c)
      BY <1>7, <2>1, <2>2 DEF SubScope, InStepAt
    <2>4. (\E n \in DOMAIN licences : licences[n].sub = events[c.event].sub) => scope = "linked"
      BY <2>1, <2>2 DEF ScopeOf, EventOf
    <2>5. WellAimed(CallAt(c.event, "apply", scope, {}))
      BY <2>3, <2>4 DEF WellAimed, CallAt
    <2> QED
      BY <1>6, <2>1, <2>3, <2>5
  <1>8. ASSUME NEW resolved \in BOOLEAN, RefundScope(h, resolved)
        PROVE  \E q \in 0..Len(events') : InStepAt(q)'
    <2>1. calls[h].step # "idle" /\ EventOf(h).type = "refunded" /\ \E scope : Scoped(h, scope)
      BY <1>8 DEF RefundScope, At
    <2>2. \A scope : WellAimed(CallAt(calls[h].event, "apply", scope, {}))
      BY <2>1 DEF WellAimed, CallAt, EventOf
    <2> QED
      BY <1>6, <2>1, <2>2
  <1>9. CASE Apply(h)
    BY <1>1, <1>9, FollowsApply
  <1>10. CASE RefundRecord(h)
    BY <1>1, <1>2, <1>10, InStepSame DEF RefundRecord, Unchanged, stripeVars
  <1>11. CASE RefundRecorded(h)
    <2>1. /\ calls[h].step # "idle" /\ ~Tells(EventOf(h)) /\ Finish(h)
          /\ UNCHANGED <<events, licences>> /\ KnownStays
      BY <1>11 DEF RefundRecorded, At, Unchanged, stripeVars, rowVars, KnownStays, Tells
    <2> QED
      BY <1>1, <2>1, FinishedQuietly
  <1>12. CASE CheckoutConflict(h)
    BY <1>1, <1>2, <1>12, StoppedInStep DEF CheckoutConflict, Unchanged, stripeVars, rowVars
  <1> QED
    BY <1>3, <1>4, <1>5, <1>7, <1>8, <1>9, <1>10, <1>11, <1>12 DEF HandlerStep

-----------------------------------------------------------------------------
(* Every step. *)

LEMMA FInvInit ==
    ASSUME SubscriptionParameters, Init
    PROVE  FInv
  <1>1. SInv
    BY SInvInit
  <1>2. events = <<>> /\ DOMAIN events = {} /\ Len(events) = 0
    BY DEF Init
  <1>3. StripeAgrees
    BY <1>2 DEF StripeAgrees, SoldBySession, BillingTold, DeletedLast, CheckedOutOnce
  <1>4. Idle.step = "idle"
    BY DEF Idle, CallAt
  <1>5. \A h \in Handlers : calls[h].step = "idle"
    BY <1>4 DEF Init
  <1>6. answered = 1..0 /\ DOMAIN licences = {}
    BY DEF Init
  <1>7. InStepAt(0) /\ 0 \in 0..Len(events)
    BY <1>2, <1>5, <1>6 DEF InStepAt, OneByOne
  <1> QED
    BY <1>1, <1>3, <1>7 DEF FInv, InStep

LEMMA FInvNext ==
    ASSUME SubscriptionParameters, FInv, [Next]_vars
    PROVE  FInv'
  <1> USE DEF FInv
  <1>1. SInv'
    BY SInvNext
  <1>2. ASSUME UNCHANGED stripeVars PROVE StripeAgrees'
    BY <1>2, QuietSame, AgreesUnemitted DEF stripeVars
  <1>3. ASSUME UNCHANGED stripeVars, undisturbed' => undisturbed,
               \A k \in 0..Len(events) :
                 (undisturbed' /\ InStepAt(k)) => \E q \in 0..Len(events') : InStepAt(q)'
        PROVE  FInv'
    BY <1>1, <1>2, <1>3 DEF InStep
  <1>4. CASE StripeStep
    BY <1>1, <1>4, AgreesStripe, InStepStripe
  <1>5. ASSUME NEW i \in DOMAIN events, Deliver(i) PROVE FInv'
    <2>1. UNCHANGED stripeVars /\ (undisturbed' => undisturbed)
      BY <1>5 DEF Deliver, CheckoutLookup, UpdatedLookup, DeletedWrite, FailedWrite,
                  EndOrFail, RefundList, Unanswered, Unchanged
    <2>2. \A k \in 0..Len(events) : k \in Nat
      BY DEF SInv, TypeOK
    <2> QED
      BY <1>3, <1>5, <2>1, <2>2, FollowsDeliver
  <1>6. ASSUME NEW i \in DOMAIN events, Redeliver(i) PROVE FInv'
    BY <1>3, <1>6 DEF Redeliver
  <1>7. ASSUME NEW h \in Handlers, HandlerStep(h) PROVE FInv'
    <2>1. UNCHANGED <<stripeVars, undisturbed>>
      BY <1>7 DEF HandlerStep, CheckoutIssue, CheckoutConflict, UpdatedWrite, UpdatedConflict,
                  SubScope, Scoped,
                  Apply, RefundRecord, RefundRecorded, RefundScope, Finish, GoTo, EndCall,
                  Unchanged
    <2> QED
      BY <1>3, <1>7, <2>1, FollowsHandler
  <1>8. ASSUME NEW h \in Handlers, HandlerFails(h) PROVE FInv'
    <2>1. UNCHANGED <<stripeVars, undisturbed, licences, subs>> /\ EndCall(h)
      BY <1>8 DEF HandlerFails, EndCall, rowVars
    <2>2. ASSUME NEW k \in 0..Len(events), InStepAt(k) PROVE InStepAt(k)' /\ Len(events') = Len(events)
      <3>1. k \in Nat
        BY DEF SInv, TypeOK
      <3> QED
        BY <2>1, <2>2, <3>1, StoppedInStep DEF stripeVars
    <2> QED
      BY <1>3, <2>1, <2>2
  <1>9. ASSUME NEW n \in DOMAIN licences, NEW status \in LicenceStatuses, SetByHand(n, status)
        PROVE  FInv'
    BY <1>3, <1>9 DEF SetByHand
  <1>10. CASE UNCHANGED vars
    <2>1. UNCHANGED <<stripeVars, undisturbed, events, answered, licences, calls, subs>>
      BY <1>10 DEF vars, stripeVars
    <2>2. ASSUME NEW k \in 0..Len(events), InStepAt(k) PROVE InStepAt(k)' /\ Len(events') = Len(events)
      <3>1. k \in Nat
        BY DEF SInv, TypeOK
      <3> QED
        BY <2>1, <2>2, <3>1, InStepSame
    <2> QED
      BY <1>3, <2>1, <2>2
  <1>11. ASSUME NEW p \in Products, DeleteProduct(p) PROVE FInv'
    <2>1. UNCHANGED <<stripeVars, undisturbed, events, answered, licences, calls, subs>>
      BY <1>11 DEF DeleteProduct, stripeVars
    <2>2. ASSUME NEW k \in 0..Len(events), InStepAt(k) PROVE InStepAt(k)' /\ Len(events') = Len(events)
      <3>1. k \in Nat
        BY DEF SInv, TypeOK
      <3> QED
        BY <2>1, <2>2, <3>1, InStepSame
    <2> QED
      BY <1>3, <2>1, <2>2
  <1> QED
    BY <1>4, <1>5, <1>6, <1>7, <1>8, <1>9, <1>10, <1>11 DEF Next

(* What the invariant says once all events are answered.                    *)
LEMMA FInvFollows ==
    ASSUME SubscriptionParameters, FInv
    PROVE  FollowsBilling
  <1>1. SUFFICES ASSUME undisturbed, answered = DOMAIN events,
                        NEW n \in DOMAIN licences, licences[n].sub # None
                 PROVE  /\ billing[licences[n].sub] \in {"past_due", "unpaid", "canceled"} =>
                             licences[n].status # "ACTIVE"
                        /\ billing[licences[n].sub] = "active" =>
                             licences[n].status \in {"ACTIVE", "REVOKED"}
    BY DEF FollowsBilling
  <1>2. PICK k \in 0..Len(events) : InStepAt(k)
    BY <1>1 DEF FInv, InStep
  <1>3. Len(events) \in Nat /\ DOMAIN events = 1..Len(events)
    BY DEF FInv, SInv, TypeOK
  <1>4. 1..k = 1..Len(events)
    BY <1>1, <1>2, <1>3 DEF InStepAt, OneByOne
  <1>5. k = Len(events)
    <2>1. k \in Nat
      BY <1>2, <1>3
    <2> QED
      BY <1>3, <1>4, <2>1, SameUpTo
  <1>6. PICK s : s = licences[n].sub
    OBVIOUS
  <1>7. s \in Subs
    BY <1>1, <1>6, LicenceTyped DEF FInv
  <1>8. PICK j \in 1..k : LastTold(s, k, j) /\ licences[n].status \in Told(events[j].type)
    BY <1>1, <1>2, <1>6 DEF InStepAt, AsTold
  <1>9. /\ billing[s] \in {"past_due", "unpaid"} => events[j].type = "payment_failed"
        /\ billing[s] = "active" => events[j].type \in {"checkout", "updated"}
        /\ billing[s] = "canceled" => events[j].type = "deleted"
    BY <1>3, <1>5, <1>7, <1>8 DEF FInv, StripeAgrees, BillingTold
  <1>10. /\ billing[s] \in {"past_due", "unpaid", "canceled"} => licences[n].status # "ACTIVE"
         /\ billing[s] = "active" => licences[n].status \in {"ACTIVE", "REVOKED"}
    BY <1>8, <1>9 DEF Told
  <1> QED
    BY <1>6, <1>10

(* However many events, handlers, failures and retries: if the events came  *)
(* in their turn, none came again and no administrator changed a licence,   *)
(* the licences of every subscription follow its billing once all events    *)
(* are answered.                                                            *)
THEOREM BillingFollowed ==
    ASSUME SubscriptionParameters
    PROVE  Spec => []FollowsBilling
  BY FInvInit, FInvNext, FInvFollows, PTL DEF Spec
=============================================================================
