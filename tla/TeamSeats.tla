----------------------------- MODULE TeamSeats ------------------------------
(***************************************************************************)
(* The seats of one team licence, the invitations to them and the packs    *)
(* that make up the quota (services/seat.service.ts, entitlement.service   *)
(* .ts and their routes in admin.ts and portal.ts).                        *)
(*                                                                         *)
(* Assigning a seat and granting or revoking a pack are database           *)
(* transactions that read first and lock only what they write: two of them *)
(* read the same state before either commits.  Accepting or resending an   *)
(* invitation is a read and a write with no transaction around them.       *)
(***************************************************************************)
EXTENDS Naturals, FiniteSets, FiniteSetsExt

CONSTANTS
    Holders,     \* addresses seats are assigned to
    Packs,       \* seat packs that may be granted
    PackSize,    \* PackSize[p]: 5 or 10
    Desks,       \* request handlers
    BaseSeats,   \* seatCount as the licence was issued
    MaxInvites,  \* bound: invitation tokens ever sent
    Vacant       \* no address or pack

ASSUME SeatAssumption ==
    /\ IsFiniteSet(Holders) /\ IsFiniteSet(Packs)
    /\ PackSize \in [Packs -> Nat] /\ BaseSeats \in Nat /\ MaxInvites \in Nat
    /\ Vacant \notin Holders \cup Packs

VARIABLES
    seatCount,   \* License.seatCount
    seatsUsed,   \* License.seatsUsed
    seats,       \* seats[u]: the assignment of u
    packs,       \* packs[p]: state of the pack
    lapsed,      \* packs that ran out since seatCount was written
    sent,        \* invitation tokens sent so far
    desk,        \* desk[d]: what handler d has read and has yet to commit
    overbooked,  \* an assignment was written from a stale read, or the quota
                 \* shrank below the assignments, and the seats are still too many
    outOfStep,   \* why seatCount may be no total of packs: none was written yet,
                 \* or it was from a reading another transaction or the time outdated
    accepts      \* accepts[i]: acceptances written to the assignment first
                 \* sent token i, and whether two handlers held it at once

seatVars == <<seatCount, seatsUsed, seats, packs, lapsed, sent, desk, overbooked, outOfStep,
              accepts>>

NoSeat == [id |-> 0, token |-> 0, accepted |-> FALSE]
NoTask == [step |-> "idle", user |-> Vacant, rest |-> {}, seat |-> 0, pack |-> Vacant,
           total |-> 0, stale |-> FALSE]
Invites == 1 .. MaxInvites
MaxQuota == MapThenSumSet(LAMBDA p : PackSize[p], Packs)

SeatTypeOK ==
    /\ seatCount \in 0 .. (BaseSeats + MaxQuota) /\ seatsUsed \in 0 .. Cardinality(Holders)
    /\ seats \in [Holders -> [id : 0 .. MaxInvites, token : 0 .. MaxInvites, accepted : BOOLEAN]]
    /\ packs \in [Packs -> {"none", "active", "expired", "revoked"}]
    /\ sent \in 0 .. MaxInvites
    /\ desk \in [Desks -> [step : {"idle", "assign", "bulk", "account", "accept", "resend", "grant", "find", "revoke"},
                           user : Holders \cup {Vacant}, rest : SUBSET Holders, seat : 0 .. MaxInvites,
                           pack : Packs \cup {Vacant}, total : 0 .. MaxQuota, stale : BOOLEAN]]
    /\ overbooked \in BOOLEAN
    /\ outOfStep \in {"base", "no", "raced"} /\ lapsed \subseteq Packs
    /\ accepts \in [Invites -> [times : Nat, raced : BOOLEAN]]

SeatInit ==
    /\ seatCount = BaseSeats /\ seatsUsed = 0
    /\ seats = [u \in Holders |-> NoSeat]
    /\ packs = [p \in Packs |-> "none"] /\ lapsed = {}
    /\ sent = 0
    /\ desk = [d \in Desks |-> NoTask]
    /\ overbooked = FALSE
    /\ outOfStep = "base"
    /\ accepts = [i \in Invites |-> [times |-> 0, raced |-> FALSE]]

-----------------------------------------------------------------------------

Assigned     == {u \in Holders : seats[u] # NoSeat}
IdleDesk(d)  == desk[d].step = "idle"
Begin(d, task) == desk' = [desk EXCEPT ![d] = task]
Close(d)     == desk' = [desk EXCEPT ![d] = NoTask]
\* A bulk assignment goes on with the addresses it has left.
Bulk(rest)   == IF rest = {} THEN NoTask ELSE [NoTask EXCEPT !.step = "bulk", !.rest = rest]
\* Handler d commits: what the others at one of the steps have read is stale.
Disturb(d, steps) ==
    desk' = [e \in Desks |-> IF e = d THEN Bulk(desk[d].rest)
                             ELSE [desk[e] EXCEPT !.stale = @ \/ desk[e].step \in steps]]

\* computeSeatTotal: packs neither revoked nor past their date.
Quota(active) == MapThenSumSet(LAMBDA p : PackSize[p], active)
ActivePacks   == {p \in Packs : packs[p] = "active"}

-----------------------------------------------------------------------------
(* Assigning and removing. *)

AssignableOneMore(u) == u \notin Assigned /\ Cardinality(Assigned) <= seatCount \* mutant
\* assignSeat reads the assignments and the count, and refuses on them.
Assignable(u) == u \notin Assigned /\ Cardinality(Assigned) < seatCount

AssignSeat(d, u) ==
    /\ IdleDesk(d) /\ Assignable(u)
    /\ Begin(d, [NoTask EXCEPT !.step = "assign", !.user = u])
    /\ UNCHANGED <<seatCount, seatsUsed, seats, packs, lapsed, sent, overbooked, outOfStep, accepts>>

\* One transaction per address: those refused are counted and passed over.
BulkGoesOn(d, users) ==
    \E u \in users :
      /\ Assignable(u)
      /\ Begin(d, [NoTask EXCEPT !.step = "assign", !.user = u, !.rest = users \ {u}])
      /\ UNCHANGED <<seatCount, seatsUsed, seats, packs, lapsed, sent, overbooked, outOfStep, accepts>>

BulkAssign(d, users) == IdleDesk(d) /\ Cardinality(users) > 1 /\ BulkGoesOn(d, users)

\* The unique (licence, address) undoes the second assignment of one user.
CommitSeat(d) ==
    LET u == desk[d].user
        taken == Cardinality(Assigned) + 1
    IN
    /\ desk[d].step = "assign" /\ u \notin Assigned /\ sent < MaxInvites
    /\ sent' = sent + 1
    /\ seats' = [seats EXCEPT ![u] = [id |-> sent + 1, token |-> sent + 1, accepted |-> FALSE]]
    /\ seatsUsed' = seatsUsed + 1
    /\ overbooked' = (overbooked \/ (desk[d].stale /\ taken > seatCount))
    /\ Disturb(d, {"assign"})
    /\ UNCHANGED <<seatCount, packs, lapsed, outOfStep, accepts>>

\* Found and deleted in one transaction that a missing row undoes.
RemoveSeat(u) ==
    /\ u \in Assigned
    /\ seats' = [seats EXCEPT ![u] = NoSeat]
    /\ seatsUsed' = IF seatsUsed > 0 THEN seatsUsed - 1 ELSE seatsUsed
    /\ overbooked' = (overbooked /\ Cardinality(Assigned) - 1 > seatCount)
    /\ UNCHANGED <<seatCount, packs, lapsed, sent, desk, outOfStep, accepts>>

-----------------------------------------------------------------------------
(* Invitations. *)

Open(u, i) == seats[u].token = i /\ ~seats[u].accepted

\* portal.ts /invite/:token/accept looks the token up, then creates or checks
\* the account; acceptSeatInvite looks it up again.
OpenInvite(d, u, i) ==
    /\ IdleDesk(d) /\ Open(u, i)
    /\ Begin(d, [NoTask EXCEPT !.step = "account", !.user = u, !.seat = i])
    /\ UNCHANGED <<seatCount, seatsUsed, seats, packs, lapsed, sent, overbooked, outOfStep, accepts>>

AcceptSeatInvite(d) ==
    /\ desk[d].step = "account"
    /\ \E u \in Holders :
         /\ Open(u, desk[d].seat)
         /\ Begin(d, [desk[d] EXCEPT !.step = "accept", !.seat = seats[u].id])
         /\ accepts' = [accepts EXCEPT ![seats[u].id].raced =
                          @ \/ \E e \in Desks : desk[e].step = "accept" /\ desk[e].seat = seats[u].id]
    /\ UNCHANGED <<seatCount, seatsUsed, seats, packs, lapsed, sent, overbooked, outOfStep>>

\* Written by the row's id, whatever has become of its token since.
WriteAcceptance(d) ==
    LET u == desk[d].user IN
    /\ desk[d].step = "accept" /\ seats[u].id = desk[d].seat
    /\ seats' = [seats EXCEPT ![u].accepted = TRUE]
    /\ accepts' = [accepts EXCEPT ![desk[d].seat].times = @ + 1]
    /\ Close(d)
    /\ UNCHANGED <<seatCount, seatsUsed, packs, lapsed, sent, overbooked, outOfStep>>

ResendSeatInvite(d, u) ==
    /\ IdleDesk(d) /\ u \in Assigned /\ ~seats[u].accepted
    /\ Begin(d, [NoTask EXCEPT !.step = "resend", !.user = u, !.seat = seats[u].id])
    /\ UNCHANGED <<seatCount, seatsUsed, seats, packs, lapsed, sent, overbooked, outOfStep, accepts>>

\* The new token replaces the old one, which opens nothing from then on.
WriteResend(d) ==
    LET u == desk[d].user IN
    /\ desk[d].step = "resend" /\ seats[u].id = desk[d].seat /\ sent < MaxInvites
    /\ sent' = sent + 1
    /\ seats' = [seats EXCEPT ![u].token = sent + 1]
    /\ Close(d)
    /\ UNCHANGED <<seatCount, seatsUsed, packs, lapsed, overbooked, outOfStep, accepts>>

-----------------------------------------------------------------------------
(* Packs. *)

PackSteps == {"grant", "revoke"}
Locks(p)  == {d \in Desks : desk[d].step \in PackSteps /\ desk[d].pack = p}

\* The transaction totals the committed packs and its own, not another's.
GrantPack(d, p) ==
    /\ IdleDesk(d) /\ packs[p] = "none" /\ Locks(p) = {}
    /\ Begin(d, [NoTask EXCEPT !.step = "grant", !.pack = p, !.total = Quota(ActivePacks \cup {p})])
    /\ UNCHANGED <<seatCount, seatsUsed, seats, packs, lapsed, sent, overbooked, outOfStep, accepts>>

\* A pack found revoked is answered without touching the licence.
FindPack(d, p) ==
    /\ IdleDesk(d) /\ packs[p] \in {"active", "expired"}
    /\ Begin(d, [NoTask EXCEPT !.step = "find", !.pack = p])
    /\ UNCHANGED <<seatCount, seatsUsed, seats, packs, lapsed, sent, overbooked, outOfStep, accepts>>

\* The row is locked by the first revocation; the second waits and goes on.
RevokePack(d) ==
    /\ desk[d].step = "find" /\ Locks(desk[d].pack) = {}
    /\ Begin(d, [desk[d] EXCEPT !.step = "revoke", !.total = Quota(ActivePacks \ {desk[d].pack})])
    /\ UNCHANGED <<seatCount, seatsUsed, seats, packs, lapsed, sent, overbooked, outOfStep, accepts>>

\* seatCount becomes the total: what the licence was issued with is not in it.
CommitPack(d) ==
    /\ desk[d].step \in PackSteps
    /\ packs' = [packs EXCEPT ![desk[d].pack] = IF desk[d].step = "grant" THEN "active" ELSE "revoked"]
    /\ seatCount' = desk[d].total
    /\ overbooked' = (Cardinality(Assigned) > desk[d].total)
    /\ outOfStep' = IF desk[d].stale THEN "raced" ELSE "no"
    /\ lapsed' = {}
    /\ Disturb(d, PackSteps \cup {"assign"})
    /\ UNCHANGED <<seatsUsed, seats, sent, accepts>>

\* Time alone retires a pack; nothing rewrites the licence.
PackExpires(p) ==
    /\ packs[p] = "active"
    /\ packs' = [packs EXCEPT ![p] = "expired"]
    /\ lapsed' = lapsed \cup {p}
    /\ desk' = [d \in Desks |-> [desk[d] EXCEPT !.stale = @ \/ desk[d].step \in PackSteps]]
    /\ UNCHANGED <<seatCount, seatsUsed, seats, sent, overbooked, outOfStep, accepts>>

\* A refusal, a rollback, or the process stops.
TaskFails(d) ==
    /\ ~IdleDesk(d)
    /\ Close(d)
    /\ UNCHANGED <<seatCount, seatsUsed, seats, packs, lapsed, sent, overbooked, outOfStep, accepts>>

-----------------------------------------------------------------------------

SeatNext ==
    \/ \E d \in Desks :
         \/ CommitSeat(d) \/ AcceptSeatInvite(d) \/ WriteAcceptance(d) \/ WriteResend(d)
         \/ RevokePack(d) \/ CommitPack(d) \/ TaskFails(d)
         \/ \E u \in Holders :
              \/ AssignSeat(d, u) \/ ResendSeatInvite(d, u)
              \/ \E i \in Invites : OpenInvite(d, u, i)
         \/ desk[d].step = "bulk" /\ BulkGoesOn(d, desk[d].rest)
         \/ \E users \in SUBSET Holders : BulkAssign(d, users)
         \/ \E p \in Packs : GrantPack(d, p) \/ FindPack(d, p)
    \/ \E u \in Holders : RemoveSeat(u)
    \/ \E p \in Packs : PackExpires(p)

SeatSpec == SeatInit /\ [][SeatNext]_seatVars

-----------------------------------------------------------------------------

\* seatsUsed is the number of assignments.  What is said of the rest says how far
\* it goes, for the transactions are not atomic as the comments have it, and the
\* licence is not kept in step with its packs.  There are more assignments than
\* seatCount only if one was written by a transaction whose reading another had
\* outdated, or a pack was taken away under them.  An assignment is accepted
\* once, unless two handlers had found it open before either wrote.  And once the
\* first transaction on a pack has committed, seatCount is what the packs in
\* force amount to with those that ran out since it was written: too many by
\* these alone, unless that transaction crossed another, or an expiry.
SeatsAddUp ==
    /\ seatsUsed = Cardinality(Assigned)
    /\ seatsUsed > seatCount => overbooked
    /\ \A i \in Invites : accepts[i].times > 1 => accepts[i].raced
    /\ outOfStep = "no" => seatCount = Quota(ActivePacks \cup lapsed)
=============================================================================
