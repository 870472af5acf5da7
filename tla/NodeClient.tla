----------------------------- MODULE NodeClient -----------------------------
(***************************************************************************)
(* The Node client (clients/node/src/index.ts) in the processes of one     *)
(* machine: they share a cache directory and with it the file of a         *)
(* licence, which holds the last good validation and its time.             *)
(*                                                                         *)
(* A process awaits the network, so the others, and the server, move on    *)
(* between the steps of its call.  The network may fail at any of them.    *)
(* Products, features and dates in the answers are left out.               *)
(***************************************************************************)
EXTENDS Integers

CONSTANTS
    Processes,   \* processes that use the client with one licence key
    CacheTtl,    \* cacheTTL, in ticks
    Grace        \* offlineGracePeriod, in ticks

ASSUME NodeAssumption == CacheTtl \in Nat /\ Grace \in Nat /\ CacheTtl <= Grace

VARIABLES
    inForce,     \* the server holds the licence active and unexpired
    activated,   \* the server has an activation for this machine
    cacheAge,    \* ticks since the file was written, NoFile when there is none
    at,          \* at[p]: where p's call into the client is
    gate         \* gate[p]: what the last validation in p came to

nodeVars == <<inForce, activated, cacheAge, at, gate>>

NoFile == -1

NodeTypeOK ==
    /\ inForce \in BOOLEAN /\ activated \in BOOLEAN
    /\ cacheAge \in NoFile .. Grace
    /\ at \in [Processes -> {"idle", "validate", "validating", "valid", "invalid",
                             "activating", "deactivating", "deactivated"}]
    /\ gate \in [Processes -> {"none", "admitted", "refused"}]

NodeInit ==
    /\ inForce = TRUE /\ activated = FALSE
    /\ cacheAge = NoFile
    /\ at = [p \in Processes |-> "idle"]
    /\ gate = [p \in Processes |-> "none"]

-----------------------------------------------------------------------------

Goes(p, stage) == at' = [at EXCEPT ![p] = stage]

\* The middleware lets a request through, or the build goes on, when the
\* validation it awaited was valid.
Gate(p, verdict) == gate' = [gate EXCEPT ![p] = verdict] /\ Goes(p, "idle")

\* Another process is in the middle of writing the file, and it does not parse.
Unreadable(p) == \E q \in Processes \ {p} : at[q] = "valid"

CachedWhateverItsAge == cacheAge # NoFile \* mutant: the grace period is not looked at
\* Within the grace period the file answers, connected or not: the time to
\* live makes no difference to a valid result, and no other is written.
Cached == cacheAge # NoFile /\ (cacheAge < CacheTtl \/ cacheAge < Grace)

\* validateOffline, after a network error.
CachedOffline == cacheAge # NoFile /\ cacheAge < Grace

\* What validateLicense on the server says; whether other machines have taken
\* all the places of the licence is open.
Accepts(others) == inForce /\ (activated \/ ~others)

-----------------------------------------------------------------------------
(* validate *)

Call(p) ==
    /\ at[p] = "idle" /\ Goes(p, "validate")
    /\ UNCHANGED <<inForce, activated, cacheAge, gate>>

AnswerFromCache(p) ==
    /\ at[p] = "validate" /\ Cached
    /\ Gate(p, "admitted")
    /\ UNCHANGED <<inForce, activated, cacheAge>>

AskServer(p) ==
    /\ at[p] = "validate" /\ (~Cached \/ Unreadable(p))
    /\ Goes(p, "validating")
    /\ UNCHANGED <<inForce, activated, cacheAge, gate>>

\* POST /validate: 400 with a result that is not valid.
ServerValidates(p) ==
    /\ at[p] = "validating"
    /\ \E others \in BOOLEAN : Goes(p, IF Accepts(others) THEN "valid" ELSE "invalid")
    /\ UNCHANGED <<inForce, activated, cacheAge, gate>>

\* The file is written with the time of the write, not of the answer.
CacheValidation(p) ==
    /\ at[p] = "valid"
    /\ cacheAge' = 0
    /\ Gate(p, "admitted")
    /\ UNCHANGED <<inForce, activated>>

\* What validateOffline makes of the file as it is.
FallBack(p) ==
    \/ CachedOffline /\ Gate(p, "admitted")
    \/ (~CachedOffline \/ Unreadable(p)) /\ Gate(p, "refused")

\* The write throws into the handler of network errors: the file answers, the one
\* that was there or what the write has left of it, which does not parse.
CacheWriteFails(p) ==
    /\ at[p] = "valid"
    /\ \/ FallBack(p) /\ UNCHANGED cacheAge
       \/ cacheAge' = NoFile /\ Gate(p, "refused")
    /\ UNCHANGED <<inForce, activated>>

\* A refusal leaves the file as it was.
Refuse(p) ==
    /\ at[p] = "invalid"
    /\ Gate(p, "refused")
    /\ UNCHANGED <<inForce, activated, cacheAge>>

\* The request or its answer is lost.
NetworkError(p) ==
    /\ at[p] = "validating"
    /\ FallBack(p)
    /\ UNCHANGED <<inForce, activated, cacheAge>>

-----------------------------------------------------------------------------
(* activate and deactivate *)

CallActivate(p) ==
    /\ at[p] = "idle" /\ Goes(p, "activating")
    /\ UNCHANGED <<inForce, activated, cacheAge, gate>>

\* A machine that was activated validates at once, which fills the cache.
Activate(p) ==
    /\ at[p] = "activating"
    /\ \E others \in BOOLEAN :
         /\ activated' = (activated \/ Accepts(others))
         /\ \/ Goes(p, IF Accepts(others) THEN "validate" ELSE "idle")
            \/ Goes(p, "idle") \* the answer is lost
    /\ UNCHANGED <<inForce, cacheAge, gate>>

CallDeactivate(p) ==
    /\ at[p] = "idle" /\ Goes(p, "deactivating")
    /\ UNCHANGED <<inForce, activated, cacheAge, gate>>

Deactivate(p) ==
    /\ at[p] = "deactivating"
    /\ activated' = FALSE
    /\ \/ Goes(p, IF activated THEN "deactivated" ELSE "idle")
       \/ Goes(p, "idle") \* the answer is lost
    /\ UNCHANGED <<inForce, cacheAge, gate>>

ClearCache(p) ==
    /\ at[p] = "deactivated"
    /\ cacheAge' = NoFile
    /\ Goes(p, "idle")
    /\ UNCHANGED <<inForce, activated, gate>>

-----------------------------------------------------------------------------

\* The server's side: an administrator, Stripe or the calendar.
LicenceChanges ==
    /\ inForce' = ~inForce
    /\ UNCHANGED <<activated, cacheAge, at, gate>>

TimeGoesOn ==
    /\ cacheAge \in 0 .. Grace - 1 /\ cacheAge' = cacheAge + 1
    /\ UNCHANGED <<inForce, activated, at, gate>>

Steps(p) ==
    \/ AnswerFromCache(p) \/ AskServer(p) \/ ServerValidates(p) \/ NetworkError(p)
    \/ CacheValidation(p) \/ CacheWriteFails(p) \/ Refuse(p)
    \/ Activate(p) \/ Deactivate(p) \/ ClearCache(p)

NodeNext ==
    \/ LicenceChanges \/ TimeGoesOn
    \/ \E p \in Processes : \/ Call(p) \/ CallActivate(p) \/ CallDeactivate(p)
                            \/ Steps(p)

\* Time goes on, calls return, and requests keep coming to every process.
NodeFairness ==
    /\ WF_nodeVars(TimeGoesOn)
    /\ \A p \in Processes : /\ WF_nodeVars(Steps(p))
                             /\ SF_nodeVars(Call(p))

NodeSpec == NodeInit /\ [][NodeNext]_nodeVars /\ NodeFairness

-----------------------------------------------------------------------------

\* A licence that stays withdrawn is refused in the end by every process of the
\* machine, with the network up or down, in whatever order the processes
\* validated, cached, activated and deactivated while it was withdrawn: what
\* the file grants runs out and nothing but a fresh answer renews it.
WithdrawnIsRefused ==
    \A p \in Processes : <>[](~inForce) => <>[](gate[p] # "admitted")
=============================================================================
