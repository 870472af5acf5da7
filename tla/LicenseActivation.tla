------------------------- MODULE LicenseActivation -------------------------
(***************************************************************************)
(* Machines and the licences they are activated on: activateLicense,       *)
(* deactivateLicense and the status changes of license.service.ts, and     *)
(* validateDesktopLicense, checkIn and revokeActivation of                 *)
(* desktop.service.ts.                                                     *)
(*                                                                         *)
(* A call reads the licence with its activations, decides, and then writes *)
(* in another step; only the transaction that counts the activations and   *)
(* inserts one holds the row lock of the licence (lockLicenseRow).  So     *)
(* everything else the call goes by, the status, the expiry, the limit and *)
(* the row it found, may be stale when it writes.                          *)
(*                                                                         *)
(* license_activations has one row per licence and machine (the unique     *)
(* index), so the table is a function; a row is known by its id, and a row *)
(* that was deleted and created again has another id.                      *)
(***************************************************************************)
EXTENDS Integers, FiniteSets

CONSTANTS
    Handlers,     \* request handlers that may be in flight together
    Licences,
    Machines,
    RowIds,       \* uuids of activation rows
    MaxLimit,     \* maxActivations is 1..MaxLimit
    CanSign,      \* is there a private key to sign offline tokens with
    MaxChanges,   \* BOUND: changes administrators and the clock make
    None

Limits == 1..MaxLimit

ASSUME ActivationParameters ==
    /\ IsFiniteSet(Machines)
    /\ MaxLimit \in Nat
    /\ CanSign \in BOOLEAN
    /\ MaxChanges \in Nat
    /\ None \notin Licences \cup Machines \cup RowIds

VARIABLES
    licence,   \* the licenses rows
    rows,      \* license_activations: the id of the row of a machine, or None
    tokens,    \* ids of the rows whose offlineToken is set
    calls,     \* what each handler holds between its steps
    ceiling,   \* history: the largest limit a licence ever had
    changes    \* history: changes made so far

vars == <<licence, rows, tokens, calls, ceiling, changes>>

Statuses == {"ACTIVE", "EXPIRED", "REVOKED", "SUSPENDED"}

\* lapsed: expiresAt lies in the past.
Licence == [status : Statuses, lapsed : BOOLEAN, limit : Limits]

\* What a call is about to do.
\*   activate:   "update" a row it found, or "insert" one
\*   desktop:    "desktop" has validated, then "desktopInsert" or "update", and
\*               in the end "token" stores the offline token, if there is one
\*   check-in:   "token"
\*   deactivate: "delete"
\* "granted" is a call that answers success.
Ops == {"idle", "update", "insert", "desktop", "desktopInsert", "token", "delete",
        "granted"}

\* limit is maxActivations as the call read it, row the id it goes by.
Call == [op : Ops, lic : Licences \cup {None}, machine : Machines \cup {None},
         limit : Limits \cup {None}, row : RowIds \cup {None}]

CallAt(op, l, m, limit, id) ==
    [op |-> op, lic |-> l, machine |-> m, limit |-> limit, row |-> id]

Idle == CallAt("idle", None, None, None, None)

\* Operations that are on their way to a row that may not be there.
WithoutRow == {"insert", "desktop", "desktopInsert"}

TypeOK ==
    /\ licence \in [Licences -> Licence]
    /\ rows \in [Licences -> [Machines -> RowIds \cup {None}]]
    /\ tokens \subseteq RowIds
    /\ calls \in [Handlers -> Call]
    /\ \A h \in Handlers : calls[h].op # "idle" =>
         /\ calls[h].lic \in Licences
         /\ calls[h].machine \in Machines
         /\ calls[h].limit \in Limits
         /\ calls[h].op \notin WithoutRow => calls[h].row \in RowIds
    /\ ceiling \in [Licences -> Limits]
    /\ changes \in Nat

-----------------------------------------------------------------------------
(* What a query sees. *)

Holders(l) == {m \in Machines : rows[l][m] # None}

\* Mistake: an expiry in the past is not looked at.
MayUseWhateverExpiry(l) == licence[l].status = "ACTIVE"

(* The four statuses leave ACTIVE as the only one that no check refuses. *)
MayUse(l) == licence[l].status = "ACTIVE" /\ ~licence[l].lapsed

\* Mistake: > for >=.
PlaceLeftInclusive(l, limit) == Cardinality(Holders(l)) <= limit

PlaceLeft(l, limit) == Cardinality(Holders(l)) < limit

(* The id a new row gets: a uuid, so one that nobody has seen. *)
FreshRow(id) ==
    /\ \A l \in Licences, m \in Machines : rows[l][m] # id
    /\ \A h \in Handlers : calls[h].row # id
    /\ id \notin tokens

\* Mistake: updateMany, which does not mind that nothing matches.
StillThereOrNot(h) == TRUE

(* An update or a delete by id throws when the row is gone.  A row keeps    *)
(* its licence and machine.                                                 *)
StillThere(h) == rows[calls[h].lic][calls[h].machine] = calls[h].row

StartCall(h, op, l, m) ==
    calls' = [calls EXCEPT ![h] = CallAt(op, l, m, licence[l].limit, rows[l][m])]

GoOn(h, op, id) ==
    calls' = [calls EXCEPT ![h] = CallAt(op, @.lic, @.machine, @.limit, id)]

EndCall(h) == calls' = [calls EXCEPT ![h] = Idle]

-----------------------------------------------------------------------------
(* activateLicense: a machine that has a row is granted at once, any other  *)
(* goes for a row under the lock.  A refusal leaves nothing behind.         *)
ActivateLookup(h, l, m) ==
    /\ calls[h] = Idle
    /\ MayUse(l)
    /\ StartCall(h, IF rows[l][m] = None THEN "insert" ELSE "update", l, m)
    /\ UNCHANGED <<licence, rows, tokens, ceiling, changes>>

ActivateUpdate(h) ==
    /\ calls[h].op = "update"
    /\ StillThere(h)
    /\ GoOn(h, "granted", calls[h].row)
    /\ UNCHANGED <<licence, rows, tokens, ceiling, changes>>

(* validateDesktopLicense calls validateLicense first ...                   *)
DesktopValidate(h, l, m) ==
    /\ calls[h] = Idle
    /\ MayUse(l)
    /\ rows[l][m] = None => PlaceLeft(l, licence[l].limit)
    /\ StartCall(h, "desktop", l, m)
    /\ UNCHANGED <<licence, rows, tokens, ceiling, changes>>

(* ... and then reads the licence again, without a second look at its       *)
(* status.  (With a key, updating a row it finds and then storing the token *)
(* in it is one step: either throws when the row is gone.)                  *)
DesktopRead(h) ==
    /\ calls[h].op = "desktop"
    /\ LET l == calls[h].lic
           m == calls[h].machine
           found == IF CanSign THEN "token" ELSE "update"
       IN  StartCall(h, IF rows[l][m] = None THEN "desktopInsert" ELSE found, l, m)
    /\ UNCHANGED <<licence, rows, tokens, ceiling, changes>>

(* The transaction of both: under the lock the row is looked for again, the *)
(* rows are counted, and one is inserted.                                   *)
Inserting(h) == calls[h].op \in {"insert", "desktopInsert"}
AfterRow(h)  == IF calls[h].op = "insert" \/ ~CanSign THEN "granted" ELSE "token"

\* Mistake: the call goes by what it read before it had the lock.
RowReadBefore(h) == calls[h].row

RowUnderLock(h) == rows[calls[h].lic][calls[h].machine]

InsertFinds(h) ==
    /\ Inserting(h)
    /\ rows[calls[h].lic][calls[h].machine] # None
    /\ GoOn(h, AfterRow(h), RowUnderLock(h))
    /\ UNCHANGED <<licence, rows, tokens, ceiling, changes>>

InsertRow(h, id) ==
    /\ Inserting(h)
    /\ rows[calls[h].lic][calls[h].machine] = None
    /\ PlaceLeft(calls[h].lic, calls[h].limit)
    /\ FreshRow(id)
    /\ rows' = [rows EXCEPT ![calls[h].lic][calls[h].machine] = id]
    /\ GoOn(h, AfterRow(h), id)
    /\ UNCHANGED <<licence, tokens, ceiling, changes>>

InsertRefused(h) ==
    /\ Inserting(h)
    /\ rows[calls[h].lic][calls[h].machine] = None
    /\ ~PlaceLeft(calls[h].lic, calls[h].limit)
    /\ EndCall(h)
    /\ UNCHANGED <<licence, rows, tokens, ceiling, changes>>

(* The offline token goes into the row.  Without a key there is none: a     *)
(* desktop validation has nothing to store then, a check-in stores that.    *)
StoreToken(h) ==
    /\ calls[h].op = "token"
    /\ StillThere(h)
    /\ tokens' = IF CanSign THEN tokens \cup {calls[h].row} ELSE tokens \ {calls[h].row}
    /\ GoOn(h, "granted", calls[h].row)
    /\ UNCHANGED <<licence, rows, ceiling, changes>>

(* checkIn: only a machine that has a row.                                  *)
CheckInLookup(h, l, m) ==
    /\ calls[h] = Idle
    /\ MayUse(l)
    /\ rows[l][m] # None
    /\ StartCall(h, "token", l, m)
    /\ UNCHANGED <<licence, rows, tokens, ceiling, changes>>

(* deactivateLicense, whatever the status of the licence.                   *)
DeactivateLookup(h, l, m) ==
    /\ calls[h] = Idle
    /\ rows[l][m] # None
    /\ StartCall(h, "delete", l, m)
    /\ UNCHANGED <<licence, rows, tokens, ceiling, changes>>

DeleteRow(l, m) ==
    /\ rows' = [rows EXCEPT ![l][m] = None]
    /\ tokens' = tokens \ {rows[l][m]}

DeactivateDelete(h) ==
    /\ calls[h].op = "delete"
    /\ StillThere(h)
    /\ DeleteRow(calls[h].lic, calls[h].machine)
    /\ EndCall(h)
    /\ UNCHANGED <<licence, ceiling, changes>>

(* revokeActivation, by an administrator.                                   *)
RevokeActivation(l, m) ==
    /\ rows[l][m] # None
    /\ DeleteRow(l, m)
    /\ UNCHANGED <<licence, calls, ceiling, changes>>

(* The row was deleted since the call found it: the client gets an error.   *)
RowGone(h) ==
    /\ calls[h].op \in {"update", "token", "delete"}
    /\ ~StillThere(h)
    /\ EndCall(h)
    /\ UNCHANGED <<licence, rows, tokens, ceiling, changes>>

(* The answer is sent.                                                      *)
Reply(h) ==
    /\ calls[h].op = "granted"
    /\ EndCall(h)
    /\ UNCHANGED <<licence, rows, tokens, ceiling, changes>>

(* The database fails, the signing throws or the process stops.             *)
AbortCall(h) ==
    /\ calls[h] # Idle
    /\ EndCall(h)
    /\ UNCHANGED <<licence, rows, tokens, ceiling, changes>>

-----------------------------------------------------------------------------
(* updateLicense, revokeLicense, suspendLicense, reactivateLicense; the     *)
(* subscription events write the status in the same way.                    *)
Changed ==
    /\ changes < MaxChanges
    /\ changes' = changes + 1
    /\ UNCHANGED <<rows, tokens, calls>>

SetStatus(l, s) ==
    /\ Changed
    /\ licence' = [licence EXCEPT ![l].status = s]
    /\ UNCHANGED ceiling

SetLimit(l, n) ==
    /\ Changed
    /\ licence' = [licence EXCEPT ![l].limit = n]
    /\ ceiling' = [ceiling EXCEPT ![l] = IF n > @ THEN n ELSE @]

(* expiresAt passes, or an administrator moves it.                          *)
SetLapsed(l, b) ==
    /\ Changed
    /\ licence' = [licence EXCEPT ![l].lapsed = b]
    /\ UNCHANGED ceiling

Init ==
    /\ licence \in [Licences -> [status : {"ACTIVE"}, lapsed : {FALSE}, limit : Limits]]
    /\ rows = [l \in Licences |-> [m \in Machines |-> None]]
    /\ tokens = {}
    /\ calls = [h \in Handlers |-> Idle]
    /\ ceiling = [l \in Licences |-> licence[l].limit]
    /\ changes = 0

CallStep(h) ==
    \/ \E l \in Licences, m \in Machines :
         \/ ActivateLookup(h, l, m)
         \/ DesktopValidate(h, l, m)
         \/ CheckInLookup(h, l, m)
         \/ DeactivateLookup(h, l, m)
    \/ ActivateUpdate(h)
    \/ DesktopRead(h)
    \/ InsertFinds(h)
    \/ \E id \in RowIds : InsertRow(h, id)
    \/ InsertRefused(h)
    \/ StoreToken(h)
    \/ DeactivateDelete(h)
    \/ RowGone(h)

LicenceStep(l) ==
    \/ \E m \in Machines : RevokeActivation(l, m)
    \/ \E s \in Statuses : SetStatus(l, s)
    \/ \E n \in Limits : SetLimit(l, n)
    \/ \E b \in BOOLEAN : SetLapsed(l, b)

Next ==
    \/ \E h \in Handlers : CallStep(h) \/ Reply(h) \/ AbortCall(h)
    \/ \E l \in Licences : LicenceStep(l)

Spec == Init /\ [][Next]_vars

-----------------------------------------------------------------------------
(* However many machines activate at once, through either path, and however *)
(* old the limit is that each goes by, a licence never has more activations *)
(* than the largest limit it ever had: the promise of the comment at        *)
(* lockLicenseRow.                                                          *)
WithinLimit == \A l \in Licences : Cardinality(Holders(l)) <= ceiling[l]

(* A call that answers success to an activation, a desktop validation or a  *)
(* check-in does so while the machine has its row, the very row the call    *)
(* found or made and with its token stored, although rows are deleted       *)
(* meanwhile and machines come back with another row.                       *)
GrantsHeld ==
    [][\A h \in Handlers : (calls'[h].op = "granted" /\ calls[h].op # "granted") =>
         /\ rows'[calls[h].lic][calls[h].machine] = calls'[h].row
         /\ (calls[h].op = "token") => (calls'[h].row \in tokens' <=> CanSign)]_vars

-----------------------------------------------------------------------------
(* The mapping to ActivationPool: a call that goes for a row has an offer.  *)
OfferOf(h) ==
    IF calls[h].op \in WithoutRow
    THEN [pool |-> calls[h].lic, member |-> calls[h].machine, places |-> calls[h].limit]
    ELSE [pool |-> None, member |-> None, places |-> None]

PoolOpen     == {l \in Licences : licence[l].status = "ACTIVE" /\ ~licence[l].lapsed}
PoolCapacity == [l \in Licences |-> licence[l].limit]
PoolHeld     == [l \in Licences |-> Holders(l)]
PoolOffers   == [h \in Handlers |-> OfferOf(h)]

Pool == INSTANCE ActivationPool WITH
    Pools <- Licences, Members <- Machines, Requests <- Handlers, Nothing <- None,
    open <- PoolOpen, capacity <- PoolCapacity, held <- PoolHeld, offers <- PoolOffers

(* Places are taken only by calls that found the licence open, and within a *)
(* limit it had at the time the call last read it: rows, locks and the two  *)
(* paths implement the pool.                                                *)
ImplementsPool == Pool!Spec
=============================================================================
