---------------------------- MODULE UsageReports ----------------------------
(***************************************************************************)
(* Metered usage (reportUsage of payment.service.ts behind POST            *)
(* /subscriptions/:id/usage): a report is sent to Stripe and then recorded *)
(* here, under an idempotency key that the caller gives or that is made of *)
(* the report's time.  Callers repeat a report as often as they like, also *)
(* while it is being made.                                                 *)
(*                                                                         *)
(* Stripe is external: a request with a key it remembers is answered again *)
(* without being carried out, and a key is forgotten after a day.  A       *)
(* report without a key or a time, which is another report each time it is *)
(* made, is not looked at, nor is the action "set".                        *)
(***************************************************************************)
EXTENDS Naturals

CONSTANTS
    Reports,     \* usage reports, each with the key of its own
    Reporters,   \* handlers of the route
    NoReport,    \* the report of an idle handler
    MaxCount,    \* bound: times Stripe may count a report
    MaxLapses    \* bound: keys Stripe forgets

ASSUME UsageAssumption == NoReport \notin Reports /\ MaxCount \in Nat /\ MaxLapses \in Nat

VARIABLES
    counted,     \* counted[r]: times Stripe has added r to the usage
    remembered,  \* keys Stripe remembers
    recorded,    \* keys of the rows of usage_records
    reporting,   \* reporting[h]: the handler's call and where it is
    accepted,    \* reports some call has answered with success
    exposed,     \* reports whose key lapsed at Stripe before they were recorded
    lapses       \* keys forgotten so far

usageVars == <<counted, remembered, recorded, reporting, accepted, exposed, lapses>>

IdleReporter == [at |-> "idle", report |-> NoReport]

UsageTypeOK ==
    /\ counted \in [Reports -> 0 .. MaxCount]
    /\ remembered \subseteq Reports /\ recorded \subseteq Reports
    /\ reporting \in [Reporters -> [at : {"idle", "lookup", "stripe", "record"},
                                    report : Reports \cup {NoReport}]]
    /\ accepted \subseteq Reports /\ exposed \subseteq Reports
    /\ lapses \in 0 .. MaxLapses

UsageInit ==
    /\ counted = [r \in Reports |-> 0]
    /\ remembered = {} /\ recorded = {}
    /\ reporting = [h \in Reporters |-> IdleReporter]
    /\ accepted = {} /\ exposed = {} /\ lapses = 0

-----------------------------------------------------------------------------

Report(h) == reporting[h].report
Moves(h, to) == reporting' = [reporting EXCEPT ![h].at = to]
Closes(h) == reporting' = [reporting EXCEPT ![h] = IdleReporter]
Succeeds(h) == Closes(h) /\ accepted' = accepted \cup {Report(h)}

\* The subscription is found, and its item is retrieved from Stripe.
PostUsage(h, r) ==
    /\ reporting[h] = IdleReporter
    /\ reporting' = [reporting EXCEPT ![h] = [at |-> "lookup", report |-> r]]
    /\ UNCHANGED <<counted, remembered, recorded, accepted, exposed, lapses>>

\* The existing record answers for the report.
LookUpRecord(h) ==
    /\ reporting[h].at = "lookup"
    /\ IF Report(h) \in recorded THEN Succeeds(h) ELSE Moves(h, "stripe") /\ UNCHANGED accepted
    /\ UNCHANGED <<counted, remembered, recorded, exposed, lapses>>

ReplayedNever(r) == FALSE \* mutant: the key is not sent to Stripe
\* createUsageRecord goes out with the key.
Replayed(r) == r \in remembered

CreateUsageRecord(h) ==
    /\ reporting[h].at = "stripe"
    /\ IF Replayed(Report(h)) THEN UNCHANGED counted
       ELSE /\ counted[Report(h)] < MaxCount
            /\ counted' = [counted EXCEPT ![Report(h)] = @ + 1]
    /\ remembered' = remembered \cup {Report(h)}
    /\ \/ Moves(h, "record")
       \/ Closes(h) \* Stripe's answer is lost, and the caller gets an error
    /\ UNCHANGED <<recorded, accepted, exposed, lapses>>

\* The key is unique: of two calls the later one fails, and says so although
\* the usage has been counted and recorded.
StoreRecord(h) ==
    /\ reporting[h].at = "record"
    /\ \/ /\ Report(h) \notin recorded
          /\ recorded' = recorded \cup {Report(h)}
          /\ Succeeds(h)
       \/ Report(h) \in recorded /\ Closes(h) /\ UNCHANGED <<recorded, accepted>>
    /\ UNCHANGED <<counted, remembered, exposed, lapses>>

\* An error of Stripe or of the database, or the process stops.
ReportFails(h) ==
    /\ reporting[h].at # "idle"
    /\ Closes(h)
    /\ UNCHANGED <<counted, remembered, recorded, accepted, exposed, lapses>>

\* No call lasts a day.
KeyLapses(r) ==
    /\ r \in remembered /\ lapses < MaxLapses
    /\ \A h \in Reporters : Report(h) # r
    /\ remembered' = remembered \ {r}
    /\ exposed' = IF r \in recorded THEN exposed ELSE exposed \cup {r}
    /\ lapses' = lapses + 1
    /\ UNCHANGED <<counted, recorded, reporting, accepted>>

UsageNext ==
    \/ \E h \in Reporters :
         \/ \E r \in Reports : PostUsage(h, r)
         \/ LookUpRecord(h) \/ CreateUsageRecord(h) \/ StoreRecord(h) \/ ReportFails(h)
    \/ \E r \in Reports : KeyLapses(r)

UsageSpec == UsageInit /\ [][UsageNext]_usageVars

-----------------------------------------------------------------------------

\* However often and however concurrently a report is repeated, and wherever the
\* calls fail, Stripe counts it once, unless its key lapsed at Stripe before the
\* report was recorded here; and a report that was accepted has been counted.
UsageCountedOnce ==
    \A r \in Reports : /\ r \notin exposed => counted[r] <= 1
                       /\ r \in accepted => counted[r] >= 1
=============================================================================
