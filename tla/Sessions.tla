------------------------------ MODULE Sessions ------------------------------
(***************************************************************************)
(* Access and refresh tokens, the blacklist and the idle entries           *)
(* (auth/jwt.auth.ts, config/redis.ts, middleware/idleTimeout.ts and the   *)
(* session routes of portal.ts, auth.ts and customerAuth.ts).              *)
(*                                                                         *)
(* A replica keeps blacklist and idle entries in Redis while it is         *)
(* connected, in its own memory while it is not.  A token is a number and  *)
(* a kind; the number of an access token is its jti.  Under Cognito the    *)
(* tokens are verified offline: no blacklist is consulted, no refresh      *)
(* happens here, and a logout only drops the idle entry.                   *)
(***************************************************************************)
EXTENDS Naturals

CONSTANTS
    Replicas,    \* processes that serve the API
    Handlers,    \* request handlers
    MaxGrants,   \* bound: pairs of tokens ever issued
    Redis,       \* the shared store
    NoReplica

ASSUME SessionAssumption ==
    MaxGrants \in Nat /\ Redis \notin Replicas /\ NoReplica \notin Replicas

VARIABLES
    provider,    \* AUTH_PROVIDER
    serving,     \* the replicas that were started
    connected,   \* connected[r]: isConnected of replica r
    blacklist,   \* blacklist[s]: tokens revoked in store s
    active,      \* active[s]: jtis with an idle entry in store s
    issued,      \* grants issued so far
    live,        \* tokens that have not expired
    call,        \* call[h]: the request of handler h, between two of its steps
    spent,       \* unexpired tokens a logout or a rotation has answered for
    idled,       \* grants whose idle entry ran out before the access token
    crossing,    \* grants whose logout a request past the idle check outlived
    steady       \* so far every store could be reached, and none was emptied

sessionVars == <<provider, serving, connected, blacklist, active, issued, live,
                 call, spent, idled, crossing, steady>>

Stores == Replicas \cup {Redis}
Grants == 1 .. MaxGrants
Tokens == {"access", "refresh"} \X Grants
Access(n)  == <<"access", n>>
Refresh(n) == <<"refresh", n>>

\* Where replica r reads and writes now.
Store(r) == IF connected[r] THEN Redis ELSE r

NoCall == [step |-> "none", replica |-> NoReplica, grant |-> 0, op |-> "none"]
CallSteps == {"none", "idleCheck", "touch", "revoke", "revokeRefresh", "clear",
              "rotate", "issue"}

SessionTypeOK ==
    /\ provider \in {"jwt", "cognito"}
    /\ serving \in SUBSET Replicas
    /\ connected \in [Replicas -> BOOLEAN]
    /\ blacklist \in [Stores -> SUBSET Tokens]
    /\ active \in [Stores -> SUBSET Grants]
    /\ issued \in 0 .. MaxGrants
    /\ live \in SUBSET Tokens /\ spent \in SUBSET Tokens
    /\ idled \in SUBSET Grants /\ crossing \in SUBSET Grants
    /\ call \in [Handlers -> [step : CallSteps, replica : Replicas \cup {NoReplica},
                              grant : 0 .. MaxGrants, op : {"none", "use", "logout", "refresh"}]]
    /\ steady \in BOOLEAN

\* Redis is configured for every replica or for none, and without Redis one
\* replica is started: two would not share what they keep.
SessionInit ==
    /\ provider \in {"jwt", "cognito"}
    /\ \/ serving = Replicas /\ connected = [r \in Replicas |-> TRUE]
       \/ \E r \in Replicas : serving = {r} /\ connected = [q \in Replicas |-> FALSE]
    /\ blacklist = [s \in Stores |-> {}]
    /\ active = [s \in Stores |-> {}]
    /\ issued = 0 /\ live = {} /\ spent = {} /\ idled = {} /\ crossing = {}
    /\ call = [h \in Handlers |-> NoCall]
    /\ steady = TRUE

-----------------------------------------------------------------------------
(* The stores. *)

CallAt(h, step) == call[h].step = step
Home(h)     == Store(call[h].replica)
Goto(h, step) == call' = [call EXCEPT ![h].step = step]
Done(h)     == call' = [call EXCEPT ![h] = NoCall]
ServesAt(h, r) == r \in serving /\ CallAt(h, "none")
Ask(h, r, n, op, step) ==
    call' = [call EXCEPT ![h] = [step |-> step, replica |-> r, grant |-> n, op |-> op]]

\* blacklistToken: a token that has expired needs no entry.
BlacklistToken(s, t) == blacklist' = [blacklist EXCEPT ![s] = @ \cup ({t} \cap live)]
IsTokenBlacklisted(s, t) == t \in blacklist[s]
TouchSession(s, n) == active' = [active EXCEPT ![s] = @ \cup {n}]
IsSessionActive(s, n) == n \in active[s]
ClearSession(s, n) == active' = [active EXCEPT ![s] = @ \ {n}]

\* The entry of Redis or the sweep of the map forgets what has expired anyway.
BlacklistEntryExpires(s, t) ==
    /\ t \in blacklist[s] \ live
    /\ blacklist' = [blacklist EXCEPT ![s] = @ \ {t}]
    /\ UNCHANGED <<provider, serving, connected, active, issued, live, call, spent, idled, crossing, steady>>

\* Fifteen minutes without a request: a call in progress would have touched it.
IdleEntryExpires(s, n) ==
    /\ n \in active[s]
    /\ \A h \in Handlers : call[h].grant # n
    /\ ClearSession(s, n)
    /\ idled' = IF Access(n) \in live THEN idled \cup {n} ELSE idled
    /\ UNCHANGED <<provider, serving, connected, blacklist, issued, live, call, spent, crossing, steady>>

\* An access token runs out before the refresh token of its pair.  What became
\* of a token that has expired is of no further interest.
TokenExpires(n) ==
    LET t == IF Access(n) \in live THEN Access(n) ELSE Refresh(n) IN
    /\ t \in live
    /\ live' = live \ {t}
    /\ spent' = spent \ {t}
    /\ idled' = idled \ {n}
    /\ crossing' = IF t = Access(n) THEN crossing \ {n} ELSE crossing
    /\ UNCHANGED <<provider, serving, connected, blacklist, active, issued, call, steady>>

\* initializeRedis' event handlers: the connection comes and goes.
ConnectionChanges(r) ==
    /\ r \in serving /\ steady
    /\ connected' = [connected EXCEPT ![r] = ~@]
    /\ steady' = FALSE
    /\ UNCHANGED <<provider, serving, blacklist, active, issued, live, call, spent, idled, crossing>>

\* A replica that restarts loses its calls, and its memory if it kept state there.
Restart(r) ==
    /\ r \in serving /\ steady
    /\ blacklist' = [blacklist EXCEPT ![r] = {}]
    /\ active' = [active EXCEPT ![r] = {}]
    /\ call' = [h \in Handlers |-> IF call[h].replica = r THEN NoCall ELSE call[h]]
    /\ steady' = connected[r]
    /\ UNCHANGED <<provider, serving, connected, issued, live, spent, idled, crossing>>

-----------------------------------------------------------------------------
(* Issuing. *)

\* The pair of tokens is the client's once the answer leaves, after the seed.
IssuePair(n) ==
    /\ issued < MaxGrants /\ n = issued + 1
    /\ issued' = n
    /\ live' = live \cup {Access(n)} \cup (IF provider = "jwt" THEN {Refresh(n)} ELSE {})

\* Mutant: the entry is made in the replica's own memory.
SeedSessionHere(r, n) == TouchSession(r, n)
SeedSession(r, n) == TouchSession(Store(r), n)

\* login, register and invite acceptance (jwt); login and MFA answers (Cognito).
LogIn(r, n) ==
    /\ r \in serving
    /\ IssuePair(n)
    /\ SeedSession(r, n)
    /\ UNCHANGED <<provider, serving, connected, blacklist, call, spent, idled, crossing, steady>>

\* seedSession swallows the store's error: the token is out, the entry is not.
LogInUnseeded(r, n) ==
    /\ r \in serving /\ steady
    /\ IssuePair(n)
    /\ steady' = FALSE
    /\ UNCHANGED <<provider, serving, connected, blacklist, active, call, spent, idled, crossing>>

-----------------------------------------------------------------------------
(* An authenticated request, and the logout it may be. *)

Valid(s, t) == t \in live /\ (provider = "jwt" => ~IsTokenBlacklisted(s, t))

Authenticate(h, r, n, op) ==
    /\ ServesAt(h, r) /\ op \in {"use", "logout"}
    /\ Valid(Store(r), Access(n))
    /\ Ask(h, r, n, op, "idleCheck")
    /\ UNCHANGED <<provider, serving, connected, blacklist, active, issued, live, spent, idled, crossing, steady>>

\* Where the request goes when the idle middleware lets it through.
Beyond(h) == IF call[h].op = "use" THEN Done(h)
             ELSE Goto(h, IF provider = "jwt" THEN "revoke" ELSE "clear")

CheckIdle(h) ==
    /\ CallAt(h, "idleCheck")
    /\ IF IsSessionActive(Home(h), call[h].grant) THEN Goto(h, "touch") ELSE Done(h)
    /\ UNCHANGED <<provider, serving, connected, blacklist, active, issued, live, spent, idled, crossing, steady>>

Touch(h) ==
    /\ CallAt(h, "touch")
    /\ TouchSession(Home(h), call[h].grant)
    /\ Beyond(h)
    /\ UNCHANGED <<provider, serving, connected, blacklist, issued, live, spent, idled, crossing, steady>>

\* The middleware fails open when the store does not answer.
IdleFailsOpen(h) ==
    /\ call[h].step \in {"idleCheck", "touch"} /\ steady
    /\ Beyond(h)
    /\ steady' = FALSE
    /\ UNCHANGED <<provider, serving, connected, blacklist, active, issued, live, spent, idled, crossing>>

\* JWTAuthProvider.logout: the access token, then the refresh token if the
\* client sent it (the cookie's path keeps browsers from doing so).
RevokeAccess(h, withRefresh) ==
    /\ CallAt(h, "revoke")
    /\ BlacklistToken(Home(h), Access(call[h].grant))
    /\ Goto(h, IF withRefresh THEN "revokeRefresh" ELSE "clear")
    /\ UNCHANGED <<provider, serving, connected, active, issued, live, spent, idled, crossing, steady>>

RevokeRefresh(h) ==
    /\ CallAt(h, "revokeRefresh")
    /\ BlacklistToken(Home(h), Refresh(call[h].grant))
    /\ Goto(h, "clear")
    /\ spent' = spent \cup ({Refresh(call[h].grant)} \cap live)
    /\ UNCHANGED <<provider, serving, connected, active, issued, live, idled, crossing, steady>>

\* A store that does not answer is logged and passed over.
RevokeFails(h) ==
    /\ call[h].step \in {"revoke", "revokeRefresh"} /\ steady
    /\ Goto(h, "clear")
    /\ steady' = FALSE
    /\ UNCHANGED <<provider, serving, connected, blacklist, active, issued, live, spent, idled, crossing>>

\* A request that has passed the idle check by now will write the entry again.
ClearAndAnswer(h) ==
    LET n == call[h].grant IN
    /\ CallAt(h, "clear")
    /\ ClearSession(Home(h), n)
    /\ spent' = spent \cup ({Access(n)} \cap live)
    /\ crossing' = IF /\ Access(n) \in live
                      /\ \E g \in Handlers : CallAt(g, "touch") /\ call[g].grant = n
                   THEN crossing \cup {n} ELSE crossing \ {n}
    /\ Done(h)
    /\ UNCHANGED <<provider, serving, connected, blacklist, issued, live, idled, steady>>

\* POST /api/auth/logout asks for no session: any access token will do.
UnifiedLogout(h, r, n) ==
    /\ provider = "cognito" /\ ServesAt(h, r) /\ n \in 1 .. issued
    /\ Ask(h, r, n, "logout", "clear")
    /\ UNCHANGED <<provider, serving, connected, blacklist, active, issued, live, spent, idled, crossing, steady>>

-----------------------------------------------------------------------------
(* Rotation: POST /auth/refresh. *)

VerifyRefreshToken(h, r, n) ==
    /\ provider = "jwt" /\ ServesAt(h, r)
    /\ Valid(Store(r), Refresh(n))
    /\ Ask(h, r, n, "refresh", "rotate")
    /\ UNCHANGED <<provider, serving, connected, blacklist, active, issued, live, spent, idled, crossing, steady>>

RotateTokens(h) ==
    /\ CallAt(h, "rotate")
    /\ BlacklistToken(Home(h), Refresh(call[h].grant))
    /\ Goto(h, "issue")
    /\ UNCHANGED <<provider, serving, connected, active, issued, live, spent, idled, crossing, steady>>

\* The rotation goes on when the blacklist cannot be written.
RotateUnlisted(h) ==
    /\ CallAt(h, "rotate") /\ steady
    /\ Goto(h, "issue")
    /\ steady' = FALSE
    /\ UNCHANGED <<provider, serving, connected, blacklist, active, issued, live, spent, idled, crossing>>

IssueRotated(h, n) ==
    /\ CallAt(h, "issue")
    /\ IssuePair(n)
    /\ SeedSession(call[h].replica, n)
    /\ spent' = spent \cup ({Refresh(call[h].grant)} \cap live')
    /\ Done(h)
    /\ UNCHANGED <<provider, serving, connected, blacklist, idled, crossing, steady>>

\* The process stops, or the client goes away before the answer.
CallFails(h) ==
    /\ ~CallAt(h, "none")
    /\ Done(h)
    /\ UNCHANGED <<provider, serving, connected, blacklist, active, issued, live, spent, idled, crossing, steady>>

-----------------------------------------------------------------------------

SessionNext ==
    \/ \E r \in Replicas :
         \/ ConnectionChanges(r) \/ Restart(r)
         \/ \E n \in Grants : LogIn(r, n) \/ LogInUnseeded(r, n)
    \/ \E h \in Handlers :
         \/ \E r \in Replicas, n \in Grants :
              \/ \E op \in {"use", "logout"} : Authenticate(h, r, n, op)
              \/ UnifiedLogout(h, r, n) \/ VerifyRefreshToken(h, r, n)
         \/ CheckIdle(h) \/ Touch(h) \/ IdleFailsOpen(h)
         \/ \E withRefresh \in BOOLEAN : RevokeAccess(h, withRefresh)
         \/ RevokeRefresh(h) \/ RevokeFails(h) \/ ClearAndAnswer(h)
         \/ RotateTokens(h) \/ RotateUnlisted(h) \/ CallFails(h)
         \/ \E n \in Grants : IssueRotated(h, n)
    \/ \E s \in Stores : \/ \E t \in Tokens : BlacklistEntryExpires(s, t)
                         \/ \E n \in Grants : IdleEntryExpires(s, n)
    \/ \E n \in Grants : TokenExpires(n)

SessionSpec == SessionInit /\ [][SessionNext]_sessionVars

-----------------------------------------------------------------------------
(* What the sessions promise while the stores can be reached. *)

\* While the stores can be reached a session is over when it was ended and only
\* then.  Own tokens: one that a logout or a rotation has answered for is refused
\* by every replica until it expires, in whatever order handlers overlap and
\* whatever the two stores have forgotten.  Cognito's, for which the idle entry
\* alone refuses: the entry is gone from every store a replica reads, unless a
\* request that had passed the check when the logout dropped it wrote it again;
\* then the logout was for nothing.  And the access token of a grant that was
\* neither idle nor logged out is known wherever the next request lands.
OverWhenEnded ==
    steady => \A r \in serving :
        /\ provider = "jwt" => \A t \in spent : ~Valid(Store(r), t)
        /\ \A n \in 1 .. issued : Access(n) \in spent =>
             n \in crossing \/ ~IsSessionActive(Store(r), n)
        /\ \A n \in 1 .. issued : Access(n) \in live =>
             \/ IsSessionActive(Store(r), n)
             \/ n \in idled \/ Access(n) \in spent
=============================================================================
