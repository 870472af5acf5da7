---------------------------- MODULE RateLimiter -----------------------------
(***************************************************************************)
(* The fixed-window rate limiter (checkRateLimit of config/redis.ts behind *)
(* middleware/rateLimit.ts), shared by the servers through Redis.          *)
(*                                                                         *)
(* Redis counts a request, is asked how long the key has left and, when    *)
(* the key has no end, is told to give it one: three commands another      *)
(* server's may come between, and a server may stop between them.  Without *)
(* Redis every server counts in its own memory.                            *)
(***************************************************************************)
EXTENDS Integers

CONSTANTS
    Servers,      \* processes, each with one request of the limited kind in flight
    Callers,      \* keys: an address or a user
    MaxRequests,  \* requests admitted in a window
    Window,       \* windowMs, in ticks
    MaxStops,     \* bound: times a server stops
    NoCaller      \* no client

ASSUME LimiterAssumption ==
    /\ MaxRequests \in Nat \ {0} /\ Window \in Nat \ {0} /\ MaxStops \in Nat
    /\ NoCaller \notin Callers

VARIABLES
    count,      \* count[k]: the Redis counter; more than MaxRequests is all one
    ttl,        \* ttl[k]: ticks it has left, or Endless
    connected,  \* servers connected to Redis
    memory,     \* memory[s][k]: the entry in the memory of server s
    request,    \* request[s]: the request server s is counting
    verdict,    \* verdict[k]: what the last request of client k was told
    stops       \* stops so far

limiterVars == <<count, ttl, connected, memory, request, verdict, stops>>

Endless   == -1
Absent    == -2
Over      == MaxRequests + 1
NoEntry   == [count |-> 0, left |-> 0]
NoRequest == [step |-> "idle", client |-> NoCaller, count |-> 0]

LimiterTypeOK ==
    /\ count \in [Callers -> 0 .. Over] /\ ttl \in [Callers -> Endless .. Window]
    /\ connected \subseteq Servers
    /\ memory \in [Servers -> [Callers -> [count : 0 .. Over, left : 0 .. Window]]]
    /\ request \in [Servers -> [step : {"idle", "incr", "pttl", "pexpire"},
                                client : Callers \cup {NoCaller}, count : 0 .. Over]]
    /\ verdict \in [Callers -> {"none", "admitted", "refused"}]
    /\ stops \in 0 .. MaxStops

LimiterInit ==
    /\ count = [k \in Callers |-> 0] /\ ttl = [k \in Callers |-> 0]
    /\ connected \in {Servers, {}}
    /\ memory = [s \in Servers |-> [k \in Callers |-> NoEntry]]
    /\ request = [s \in Servers |-> NoRequest]
    /\ verdict = [k \in Callers |-> "none"]
    /\ stops = 0

Counted(n)   == IF n < Over THEN n + 1 ELSE Over
Tell(k, n) == verdict' = [verdict EXCEPT ![k] = IF n > MaxRequests THEN "refused" ELSE "admitted"]
To(s, step, k, n) ==
    request' = [request EXCEPT ![s] = [step |-> step, client |-> k, count |-> n]]
Finished(s) == request' = [request EXCEPT ![s] = NoRequest]

-----------------------------------------------------------------------------

\* A client asks again; the server takes the way that is open at that moment.
Arrive(s, k) ==
    /\ request[s] = NoRequest /\ s \in connected
    /\ To(s, "incr", k, 0)
    /\ UNCHANGED <<count, ttl, connected, memory, verdict, stops>>

\* INCR makes the key when there is none, and then it has no end.
Incr(s) ==
    LET k == request[s].client IN
    /\ request[s].step = "incr"
    /\ count' = [count EXCEPT ![k] = Counted(@)]
    /\ ttl' = [ttl EXCEPT ![k] = IF count[k] = 0 THEN Endless ELSE @]
    /\ To(s, "pttl", k, Counted(count[k]))
    /\ UNCHANGED <<connected, memory, verdict, stops>>

Remaining(k) == IF count[k] = 0 THEN Absent ELSE ttl[k]
\* Mutant: only the request that made the counter gives it an end.
NeedsEndIfFirst(read, n) == n = 1
NeedsEnd(read, n) == read = Endless

Pttl(s) ==
    LET k == request[s].client  n == request[s].count IN
    /\ request[s].step = "pttl"
    /\ IF NeedsEnd(Remaining(k), n)
       THEN To(s, "pexpire", k, n) /\ UNCHANGED verdict
       ELSE Finished(s) /\ Tell(k, n)
    /\ UNCHANGED <<count, ttl, connected, memory, stops>>

\* Mutant: the window is given in another unit.
PexpireInUnits(s) ==
    LET k == request[s].client IN
    /\ request[s].step = "pexpire"
    /\ ttl' = [ttl EXCEPT ![k] = IF count[k] = 0 THEN @ ELSE 1000 * Window]
    /\ Finished(s)
    /\ Tell(k, request[s].count)
    /\ UNCHANGED <<count, connected, memory, stops>>

\* On a key that is gone by now PEXPIRE does nothing.
Pexpire(s) ==
    LET k == request[s].client IN
    /\ request[s].step = "pexpire"
    /\ ttl' = [ttl EXCEPT ![k] = IF count[k] = 0 THEN @ ELSE Window]
    /\ Finished(s)
    /\ Tell(k, request[s].count)
    /\ UNCHANGED <<count, connected, memory, stops>>

\* Not connected: counted and answered at once in the server's memory.
CountInMemory(s, k) ==
    LET entry == memory[s][k]
        now   == IF entry.left = 0 THEN [count |-> 1, left |-> Window]
                 ELSE [entry EXCEPT !.count = Counted(@)]
    IN
    /\ request[s] = NoRequest /\ s \notin connected
    /\ memory' = [memory EXCEPT ![s][k] = now]
    /\ Tell(k, now.count)
    /\ UNCHANGED <<count, ttl, connected, request, stops>>

\* The pipeline or PEXPIRE fails: the request is let through.
RedisFails(s) ==
    /\ request[s] # NoRequest
    /\ verdict' = [verdict EXCEPT ![request[s].client] = "admitted"]
    /\ Finished(s)
    /\ UNCHANGED <<count, ttl, connected, memory, stops>>

\* The connect and error events of the client.
SwitchConnection(s) ==
    /\ connected' = IF s \in connected THEN connected \ {s} ELSE connected \cup {s}
    /\ UNCHANGED <<count, ttl, memory, request, verdict, stops>>

StopServer(s) ==
    /\ stops < MaxStops /\ stops' = stops + 1
    /\ Finished(s)
    /\ memory' = [memory EXCEPT ![s] = [k \in Callers |-> NoEntry]]
    /\ UNCHANGED <<count, ttl, connected, verdict>>

\* Windows run out, in Redis and in memory.
Elapse ==
    LET left(n) == IF n > 0 THEN n - 1 ELSE n IN
    /\ \/ \E k \in Callers : ttl[k] > 0
       \/ \E s \in Servers, k \in Callers : memory[s][k].left > 0
    /\ ttl' = [k \in Callers |-> left(ttl[k])]
    /\ count' = [k \in Callers |-> IF ttl[k] = 1 THEN 0 ELSE count[k]]
    /\ memory' = [s \in Servers |-> [k \in Callers |->
                    IF memory[s][k].left <= 1 THEN NoEntry ELSE [memory[s][k] EXCEPT !.left = @ - 1]]]
    /\ UNCHANGED <<connected, request, verdict, stops>>

Serve(s) == Incr(s) \/ Pttl(s) \/ Pexpire(s)
Request(s, k) == Arrive(s, k) \/ CountInMemory(s, k)

LimiterNext ==
    \/ Elapse
    \/ \E s \in Servers :
         \/ Serve(s) \/ RedisFails(s) \/ SwitchConnection(s) \/ StopServer(s)
         \/ \E k \in Callers : Request(s, k)

\* Time passes, servers go on with what they began, and clients keep asking.
LimiterFairness ==
    /\ WF_limiterVars(Elapse)
    /\ \A s \in Servers :
         /\ WF_limiterVars(Serve(s))
         /\ \A k \in Callers : SF_limiterVars(Request(s, k))

LimiterSpec == LimiterInit /\ [][LimiterNext]_limiterVars /\ LimiterFairness

-----------------------------------------------------------------------------

\* A client that was told to try again later and does so is admitted in the
\* end, however the servers' commands cross, Redis comes and goes, and a server
\* stops before the counter was given its end.
AdmittedAgain == \A k \in Callers : verdict[k] = "refused" ~> verdict[k] = "admitted"
=============================================================================
