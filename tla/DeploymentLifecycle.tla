------------------------ MODULE DeploymentLifecycle ------------------------
(***************************************************************************)
(* Deployments: enrolDeployment of deployment.service.ts, and the routes   *)
(* of deployments.ts by which installed products validate themselves and   *)
(* fetch commands (heartbeat), and administrators register and kill them.  *)
(*                                                                         *)
(* An enrolment is a chain of separate writes: the activation of the       *)
(* machine (with the row lock that LicenseActivation is about, one step    *)
(* here), the look-up of the deployment, the deletion of the activation on *)
(* the licence it leaves, the upsert of the deployment.  What it looked up *)
(* may have changed when it writes: the deployment killed, or created for  *)
(* another machine.  A heartbeat finds pending commands, marks them and    *)
(* sends them in three steps.                                              *)
(*                                                                         *)
(* Nothing in the program queues commands or suspends and revokes          *)
(* deployments: that is done in the database (external).                   *)
(***************************************************************************)
EXTENDS Integers, FiniteSets

CONSTANTS
    Handlers,
    Ids,          \* deployment ids, chosen by the installations
    Machines,
    Licences,
    Commands,
    Limit,        \* maxActivations of each licence
    MaxSecrets,   \* BOUND: secrets minted
    MaxMishaps,   \* BOUND: calls that fail, and changes made by other hands
    None

ASSUME DeploymentParameters ==
    /\ IsFiniteSet(Machines)
    /\ Limit \in [Licences -> Nat]
    /\ {MaxSecrets, MaxMishaps} \subseteq Nat
    /\ None \notin Ids \cup Machines \cup Licences

VARIABLES
    inForce,      \* licences: ACTIVE and not past their expiry
    activations,  \* license_activations, as pairs of a licence and a machine
    deployments,  \* deployments rows, or Absent
    commands,     \* deployment_commands: the deployment and the status
    calls,        \* what each handler holds between two steps
    held,         \* installations: the secret a machine has for a deployment
    received,     \* installations: the commands that reached them
    minted,       \* how many secrets there are
    lost,         \* history: commands in an answer that was never sent
    outdated,     \* history: handlers whose deployment changed since they
                  \* looked it up
    orderly,      \* history: machines that run one deployment, make one call
                  \* at a time and have lost no call
    mishaps

tableVars   == <<inForce, activations, deployments, commands>>
siteVars    == <<held, received>>
historyVars == <<lost, outdated, orderly>>
vars == <<tableVars, calls, siteVars, minted, historyVars, mishaps>>

Statuses == {"ACTIVE", "SUSPENDED", "REVOKED", "KILL"}

Row == [status : Statuses, licence : Licences \cup {None},
        machine : Machines \cup {None}, secret : Nat]

RowOf(status, l, m, s) == [status |-> status, licence |-> l, machine |-> m, secret |-> s]

\* A deployment without a row.
Absent == RowOf("ACTIVE", None, None, 0)

Exists(d) == deployments[d] # Absent

Command == [id : Ids \cup {None}, status : {"none", "PENDING", "DELIVERED"}]

\* What a call does next.
Steps == {"idle", "renew", "insert", "find", "free", "upsert", "tell",
          "fetch", "mark", "answer"}

\* old: the licence the machine leaves; listed: the commands found.
Call == [step : Steps, id : Ids \cup {None}, machine : Machines \cup {None},
         licence : Licences \cup {None}, old : Licences \cup {None}, secret : Nat,
         listed : SUBSET Commands]

CallAt(step, d, m, l, old, s, listed) ==
    [step |-> step, id |-> d, machine |-> m, licence |-> l, old |-> old, secret |-> s,
     listed |-> listed]

Idle == CallAt("idle", None, None, None, None, 0, {})

TypeOK ==
    /\ inForce \in [Licences -> BOOLEAN]
    /\ activations \subseteq Licences \X Machines
    /\ deployments \in [Ids -> Row]
    /\ commands \in [Commands -> Command]
    /\ calls \in [Handlers -> Call]
    /\ \A h \in Handlers : calls[h].step # "idle" =>
         calls[h].id \in Ids /\ calls[h].machine \in Machines
    /\ held \in [Machines -> [Ids -> Nat]]
    /\ received \subseteq Commands
    /\ minted \in Nat
    /\ \A d \in Ids : deployments[d] = Absent \/ deployments[d].secret \in 1..minted
    /\ lost \subseteq Commands
    /\ outdated \subseteq Handlers
    /\ orderly \subseteq Machines
    /\ mishaps \in Nat

Go(h, call) == calls' = [calls EXCEPT ![h] = call]

\* The next step of an enrolment, holding what it held.
Proceed(h, step) ==
    Go(h, CallAt(step, calls[h].id, calls[h].machine, calls[h].licence, calls[h].old,
                 calls[h].secret, {}))

\* A call that ends forgets what it looked up.
End(h) == Go(h, Idle) /\ outdated' = outdated \ {h}

Mishap == mishaps < MaxMishaps /\ mishaps' = mishaps + 1

Mint(s) == minted < MaxSecrets /\ s = minted + 1 /\ minted' = s

\* Write row d: handlers that have looked d up go by what it was before.
LookedUp(h, d) == calls[h].id = d /\ calls[h].step \in {"free", "upsert"}

WriteRow(d, row) == deployments' = [deployments EXCEPT ![d] = row]

-----------------------------------------------------------------------------
(* enrolDeployment.                                                         *)

Room(l, m) ==
    \/ <<l, m>> \in activations
    \/ Cardinality({n \in Machines : <<l, n>> \in activations}) < Limit[l]

RunsElsewhere(d, m) == \E i \in Ids \ {d} : deployments[i].machine = m

InFlight(m) == \E h \in Handlers : calls[h].machine = m

(* validateLicense and the look-up of activateLicense, which asks the same  *)
(* but for the room, and asks for that again under the lock.                *)
Enrol(h, d, m, l) ==
    /\ calls[h] = Idle
    /\ inForce[l] /\ Room(l, m)
    /\ Go(h, CallAt(IF <<l, m>> \in activations THEN "renew" ELSE "insert",
                    d, m, l, None, 0, {}))
    /\ orderly' = IF InFlight(m) \/ RunsElsewhere(d, m) THEN orderly \ {m} ELSE orderly
    /\ UNCHANGED <<tableVars, siteVars, minted, lost, outdated, mishaps>>

(* activateLicense: the row it found is updated; if it has gone, the update *)
(* throws.                                                                  *)
Renew(h) ==
    /\ calls[h].step = "renew"
    /\ IF <<calls[h].licence, calls[h].machine>> \in activations
       THEN Proceed(h, "find") /\ UNCHANGED outdated
       ELSE End(h)
    /\ UNCHANGED <<tableVars, siteVars, minted, lost, orderly, mishaps>>

(* ... or a row is inserted, if there is room under the lock.               *)
Insert(h) ==
    LET l == calls[h].licence
        m == calls[h].machine
    IN  /\ calls[h].step = "insert"
        /\ IF Room(l, m)
           THEN Proceed(h, "find") /\ activations' = activations \cup {<<l, m>>} /\ UNCHANGED outdated
           ELSE End(h) /\ UNCHANGED activations
        /\ UNCHANGED <<inForce, deployments, commands, siteVars, minted, lost, orderly, mishaps>>

\* Another machine's, or another licence's when no machine is on record.
Taken(row, m, l) == row.machine # m /\ (row.machine # None \/ row.licence # l)

Stopped(row) == row.status \in {"REVOKED", "KILL"}

\* Mistake: the status of the deployment is not looked at.
RefusedIfTaken(row, m, l) == row # Absent /\ Taken(row, m, l)

\* Mistake: whoever has a licence may have the deployment.
RefusedIfStopped(row, m, l) == row # Absent /\ Stopped(row)

Refused(row, m, l) == row # Absent /\ (Taken(row, m, l) \/ Stopped(row))

(* A refused machine keeps the activation it was given on the way.          *)
Find(h) ==
    LET c   == calls[h]
        row == deployments[c.id]
        old == IF row.licence # c.licence THEN row.licence ELSE None
    IN  /\ c.step = "find"
        /\ IF Refused(row, c.machine, c.licence)
           THEN End(h) /\ UNCHANGED minted
           ELSE \E s \in 1..MaxSecrets :
                  /\ Mint(s)
                  /\ Go(h, CallAt(IF old # None THEN "free" ELSE "upsert",
                                  c.id, c.machine, c.licence, old, s, {}))
                  /\ UNCHANGED outdated
        /\ UNCHANGED <<tableVars, siteVars, lost, orderly, mishaps>>

\* Mistake: the activation that was just made is deleted.
LicenceEntered(c) == c.licence

LicenceLeft(c) == c.old

Free(h) ==
    /\ calls[h].step = "free"
    /\ activations' = activations \ {<<LicenceLeft(calls[h]), calls[h].machine>>}
    /\ Proceed(h, "upsert")
    /\ UNCHANGED <<inForce, deployments, commands, siteVars, minted, historyVars, mishaps>>

\* Mistake: a deployment that exists keeps its secret.
SecretKept(c) == IF Exists(c.id) THEN deployments[c.id].secret ELSE c.secret

\* Mistake: the secret is not stored.
SecretForgotten(c) == 0

SecretWritten(c) == c.secret

Upsert(h) ==
    LET c == calls[h] IN
    /\ c.step = "upsert"
    /\ WriteRow(c.id, RowOf("ACTIVE", c.licence, c.machine, SecretWritten(c)))
    /\ outdated' = (outdated \cup {g \in Handlers : LookedUp(g, c.id)}) \ {h}
    /\ Proceed(h, "tell")
    /\ UNCHANGED <<inForce, activations, commands, siteVars, minted, lost, orderly, mishaps>>

(* The secret is returned once.                                             *)
Tell(h) ==
    LET c == calls[h] IN
    /\ c.step = "tell"
    /\ held' = [held EXCEPT ![c.machine][c.id] = c.secret]
    /\ End(h)
    /\ UNCHANGED <<tableVars, received, minted, lost, orderly, mishaps>>

-----------------------------------------------------------------------------
(* Heartbeats. *)

Signed(m, d) == held[m][d] = deployments[d].secret

(* A heartbeat that is signed, for a deployment that is not killed.         *)
Heartbeat(h, d, m) ==
    /\ calls[h] = Idle
    /\ Exists(d) /\ Signed(m, d)
    /\ deployments[d].status # "KILL"
    /\ Go(h, CallAt("fetch", d, m, None, None, 0, {}))
    /\ UNCHANGED <<tableVars, siteVars, minted, historyVars, mishaps>>

Pending(d) == {c \in Commands : commands[c] = [id |-> d, status |-> "PENDING"]}

Fetch(h) ==
    LET c == calls[h] IN
    /\ c.step = "fetch"
    /\ IF Pending(c.id) = {}
       THEN End(h)
       ELSE /\ Go(h, CallAt("mark", c.id, c.machine, None, None, 0, Pending(c.id)))
            /\ UNCHANGED outdated
    /\ UNCHANGED <<tableVars, siteVars, minted, lost, orderly, mishaps>>

\* Mistake: whatever is pending by now is marked.
PendingNow(c) == Pending(c.id)

Found(c) == c.listed

Mark(h) ==
    LET c == calls[h] IN
    /\ c.step = "mark"
    /\ commands' = [k \in Commands |->
         IF k \in Found(c) THEN [commands[k] EXCEPT !.status = "DELIVERED"] ELSE commands[k]]
    /\ Go(h, CallAt("answer", c.id, c.machine, None, None, 0, c.listed))
    /\ UNCHANGED <<inForce, activations, deployments, siteVars, minted, historyVars, mishaps>>

Answer(h) ==
    /\ calls[h].step = "answer"
    /\ received' = received \cup calls[h].listed
    /\ End(h)
    /\ UNCHANGED <<tableVars, held, minted, lost, orderly, mishaps>>

-----------------------------------------------------------------------------
(* Rows that come otherwise, and the kill.                                  *)

(* The look-up and the insert are two steps, but an insert that comes too   *)
(* late is rejected by the primary key.  The administrator hands the secret *)
(* to an installation.                                                      *)
Register(d, l, m, s) ==
    /\ ~Exists(d)
    /\ Mint(s)
    /\ WriteRow(d, RowOf("ACTIVE", l, None, s))
    /\ held' = [held EXCEPT ![m][d] = s]
    /\ outdated' = outdated \cup {h \in Handlers : LookedUp(h, d)}
    /\ UNCHANGED <<inForce, activations, commands, calls, received, lost, orderly, mishaps>>

(* validate, for an unknown deployment that is not in production: nobody is *)
(* told the secret.                                                         *)
AutoRegister(d, m, s) ==
    /\ ~Exists(d)
    /\ Mint(s)
    /\ WriteRow(d, RowOf("ACTIVE", None, m, s))
    /\ outdated' = outdated \cup {h \in Handlers : LookedUp(h, d)}
    /\ orderly' = IF InFlight(m) \/ RunsElsewhere(d, m) THEN orderly \ {m} ELSE orderly
    /\ UNCHANGED <<inForce, activations, commands, calls, siteVars, lost, mishaps>>

SetStatus(d, status) ==
    /\ Exists(d)
    /\ deployments[d].status # status
    /\ WriteRow(d, [deployments[d] EXCEPT !.status = status])
    /\ outdated' = outdated \cup {h \in Handlers : LookedUp(h, d)}
    /\ UNCHANGED <<inForce, activations, commands, calls, siteVars, minted, lost, orderly>>

Kill(d) == SetStatus(d, "KILL") /\ UNCHANGED mishaps

-----------------------------------------------------------------------------
(* Failures and other hands. *)

(* A statement throws, a time-out, a stop: what was written stays.          *)
CallFails(h) ==
    LET c == calls[h] IN
    /\ c # Idle
    /\ Mishap
    /\ lost' = IF c.step = "answer" THEN lost \cup c.listed ELSE lost
    /\ orderly' = orderly \ {c.machine}
    /\ End(h)
    /\ UNCHANGED <<tableVars, siteVars, minted>>

SetByHand(d, status) == Mishap /\ SetStatus(d, status)

SetInForce(l) ==
    /\ Mishap
    /\ inForce' = [inForce EXCEPT ![l] = ~@]
    /\ UNCHANGED <<activations, deployments, commands, calls, siteVars, minted, historyVars>>

(* deactivateLicense, and the administrators' revocation of an activation.  *)
Deactivate(l, m) ==
    /\ <<l, m>> \in activations
    /\ Mishap
    /\ activations' = activations \ {<<l, m>>}
    /\ orderly' = orderly \ {m}
    /\ UNCHANGED <<inForce, deployments, commands, calls, siteVars, minted, lost, outdated>>

Enqueue(c, d) ==
    /\ commands[c].status = "none"
    /\ Exists(d)
    /\ commands' = [commands EXCEPT ![c] = [id |-> d, status |-> "PENDING"]]
    /\ UNCHANGED <<inForce, activations, deployments, calls, siteVars, minted, historyVars, mishaps>>

Init ==
    /\ inForce = [l \in Licences |-> TRUE]
    /\ activations = {}
    /\ deployments = [d \in Ids |-> Absent]
    /\ commands = [c \in Commands |-> [id |-> None, status |-> "none"]]
    /\ calls = [h \in Handlers |-> Idle]
    /\ held = [m \in Machines |-> [d \in Ids |-> 0]]
    /\ received = {}
    /\ minted = 0
    /\ lost = {}
    /\ outdated = {}
    /\ orderly = Machines
    /\ mishaps = 0

HandlerStep(h) ==
    \/ \E d \in Ids, m \in Machines : Heartbeat(h, d, m) \/ \E l \in Licences : Enrol(h, d, m, l)
    \/ Renew(h) \/ Insert(h) \/ Find(h) \/ Free(h) \/ Upsert(h) \/ Tell(h)
    \/ Fetch(h) \/ Mark(h) \/ Answer(h)
    \/ CallFails(h)

Next ==
    \/ \E h \in Handlers : HandlerStep(h)
    \/ \E d \in Ids, m \in Machines, s \in 1..MaxSecrets :
         AutoRegister(d, m, s) \/ \E l \in Licences \cup {None} : Register(d, l, m, s)
    \/ \E d \in Ids : Kill(d) \/ \E status \in Statuses : SetByHand(d, status)
    \/ \E l \in Licences : SetInForce(l) \/ \E m \in Machines : Deactivate(l, m)
    \/ \E c \in Commands, d \in Ids : Enqueue(c, d)

Spec == Init /\ [][Next]_vars

-----------------------------------------------------------------------------
(* A deployment that was killed (or revoked) comes back, other than by an   *)
(* administrator's hand, only through an enrolment that had looked it up    *)
(* before it changed: whoever starts to enrol later is refused.             *)
KillsStick ==
    [][\A d \in Ids : Stopped(deployments[d]) /\ ~Stopped(deployments'[d]) /\ calls' # calls =>
         \E h \in outdated : calls'[h] # calls[h] /\ calls[h].id = d]_vars

(* Likewise a deployment goes from one machine to another only through an   *)
(* enrolment that looked it up before the first machine was on record.      *)
MachinesStay ==
    [][\A d \in Ids : deployments[d].machine \notin {None, deployments'[d].machine} =>
         \E h \in outdated : calls'[h] # calls[h] /\ calls[h].id = d]_vars

(* A command is marked delivered only if an answer carries it: whatever is  *)
(* queued between the look-up and the update waits for the next heartbeat.  *)
DeliveredIsCarried ==
    \A c \in Commands : commands[c].status = "DELIVERED" =>
      c \in received \cup lost \/ \E h \in Handlers : calls[h].step = "answer" /\ c \in calls[h].listed

(* A machine that runs one deployment, enrols with one call at a time and   *)
(* had no call fail is counted by the licence its deployment runs on, also  *)
(* after it moved from one licence to another, whatever other machines do   *)
(* meanwhile with the same deployment id.                                   *)
RunsCounted ==
    \A m \in orderly, d \in Ids :
      (deployments[d].machine = m /\ deployments[d].licence # None /\ ~InFlight(m)) =>
        <<deployments[d].licence, m>> \in activations

(* ... and it has the secret the server checks its signatures with.         *)
CanSign ==
    \A m \in orderly, d \in Ids :
      (deployments[d].machine = m /\ deployments[d].licence # None /\ ~InFlight(m)) => Signed(m, d)

-----------------------------------------------------------------------------
(* What the guide to deployments says and the code does not keep: a kill    *)
(* "takes effect on next heartbeat or restart", so it may not be undone by  *)
(* an enrolment.                                                            *)
KilledStaysKilled ==
    [][\A d \in Ids : deployments[d].status = "KILL" => deployments'[d].status = "KILL"]_vars
=============================================================================
