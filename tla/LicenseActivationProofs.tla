---------------------- MODULE LicenseActivationProofs ----------------------
(***************************************************************************)
(* Proofs about LicenseActivation, for any number of handlers, licences,   *)
(* machines and rows: the type invariant, the limit on activations, the    *)
(* refinement of ActivationPool and what a success speaks of.              *)
(***************************************************************************)
EXTENDS LicenseActivation, FiniteSetTheorems, TLAPS

-----------------------------------------------------------------------------
(* The helpers that change calls keep its type.                             *)

LEMMA StartCallType ==
    ASSUME TypeOK,
           NEW h \in Handlers, NEW op \in Ops, NEW l \in Licences, NEW m \in Machines,
           op \notin WithoutRow => rows[l][m] \in RowIds,
           StartCall(h, op, l, m)
    PROVE  /\ calls' \in [Handlers -> Call]
           /\ \A g \in Handlers : calls'[g].op # "idle" =>
                /\ calls'[g].lic \in Licences
                /\ calls'[g].machine \in Machines
                /\ calls'[g].limit \in Limits
                /\ calls'[g].op \notin WithoutRow => calls'[g].row \in RowIds
  <1> DEFINE c == [op |-> op, lic |-> l, machine |-> m,
                   limit |-> licence[l].limit, row |-> rows[l][m]]
  <1>1. licence[l].limit \in Limits /\ rows[l][m] \in RowIds \cup {None}
    BY DEF TypeOK, Licence
  <1>2. c \in Call
    BY <1>1 DEF Call
  <1>3. calls' = [calls EXCEPT ![h] = c]
    BY DEF StartCall, CallAt
  <1>4. /\ c.lic \in Licences /\ c.machine \in Machines /\ c.limit \in Limits
        /\ c.op \notin WithoutRow => c.row \in RowIds
    BY <1>1
  <1> HIDE DEF c
  <1> QED
    BY <1>2, <1>3, <1>4 DEF TypeOK

LEMMA GoOnCall ==
    ASSUME NEW h \in Handlers, NEW op, NEW id, GoOn(h, op, id)
    PROVE  calls' = [calls EXCEPT ![h] = [op |-> op, lic |-> calls[h].lic,
                                          machine |-> calls[h].machine,
                                          limit |-> calls[h].limit, row |-> id]]
  BY DEF GoOn, CallAt

LEMMA GoOnType ==
    ASSUME TypeOK,
           NEW h \in Handlers, calls[h].op # "idle", NEW op \in Ops, NEW id \in RowIds,
           GoOn(h, op, id)
    PROVE  /\ calls' \in [Handlers -> Call]
           /\ \A g \in Handlers : calls'[g].op # "idle" =>
                /\ calls'[g].lic \in Licences
                /\ calls'[g].machine \in Machines
                /\ calls'[g].limit \in Limits
                /\ calls'[g].op \notin WithoutRow => calls'[g].row \in RowIds
  <1> DEFINE c == [op |-> op, lic |-> calls[h].lic, machine |-> calls[h].machine,
                   limit |-> calls[h].limit, row |-> id]
  <1>1. calls' = [calls EXCEPT ![h] = c]
    BY GoOnCall
  <1>2. /\ calls[h].lic \in Licences /\ calls[h].machine \in Machines
        /\ calls[h].limit \in Limits
    BY DEF TypeOK
  <1>3. /\ c \in Call
        /\ c.lic \in Licences /\ c.machine \in Machines /\ c.limit \in Limits
        /\ c.row \in RowIds
    BY <1>2 DEF Call
  <1> HIDE DEF c
  <1> QED
    BY <1>1, <1>3 DEF TypeOK

LEMMA EndCallType ==
    ASSUME TypeOK, NEW h \in Handlers, EndCall(h)
    PROVE  /\ calls' \in [Handlers -> Call]
           /\ \A g \in Handlers : calls'[g].op # "idle" =>
                /\ calls'[g].lic \in Licences
                /\ calls'[g].machine \in Machines
                /\ calls'[g].limit \in Limits
                /\ calls'[g].op \notin WithoutRow => calls'[g].row \in RowIds
  <1>1. Idle \in Call /\ Idle.op = "idle"
    BY DEF Idle, CallAt, Call, Ops
  <1> QED
    BY <1>1 DEF TypeOK, EndCall

\* A call that is not idle: its parts have types, whatever it is about to do.
LEMMA Busy ==
    ASSUME TypeOK, NEW h \in Handlers, calls[h] # Idle
    PROVE  calls[h] \in Call
  BY DEF TypeOK

LEMMA CallStepTypes ==
    ASSUME ActivationParameters, TypeOK, NEW h \in Handlers, CallStep(h)
    PROVE  TypeOK'
  <1> USE DEF Ops, WithoutRow
  <1>1. ASSUME NEW l \in Licences, NEW m \in Machines, ActivateLookup(h, l, m)
        PROVE  TypeOK'
    <2>1. rows[l][m] \in RowIds \cup {None}
      BY DEF TypeOK
    <2> DEFINE op == IF rows[l][m] = None THEN "insert" ELSE "update"
    <2>2. op \in Ops /\ (op \notin WithoutRow => rows[l][m] \in RowIds)
      BY <2>1
    <2>3. StartCall(h, op, l, m)
      BY <1>1 DEF ActivateLookup
    <2> HIDE DEF op
    <2> QED
      BY <1>1, <2>2, <2>3, StartCallType DEF ActivateLookup, TypeOK
  <1>2. ASSUME NEW l \in Licences, NEW m \in Machines, DesktopValidate(h, l, m)
        PROVE  TypeOK'
    BY <1>2, StartCallType DEF DesktopValidate, TypeOK
  <1>3. ASSUME NEW l \in Licences, NEW m \in Machines, CheckInLookup(h, l, m)
        PROVE  TypeOK'
    <2>1. rows[l][m] \in RowIds
      BY <1>3 DEF TypeOK, CheckInLookup
    <2> QED
      BY <1>3, <2>1, StartCallType DEF CheckInLookup, TypeOK
  <1>4. ASSUME NEW l \in Licences, NEW m \in Machines, DeactivateLookup(h, l, m)
        PROVE  TypeOK'
    <2>1. rows[l][m] \in RowIds
      BY <1>4 DEF TypeOK, DeactivateLookup
    <2> QED
      BY <1>4, <2>1, StartCallType DEF DeactivateLookup, TypeOK
  <1>5. ASSUME ActivateUpdate(h) PROVE TypeOK'
    <2>1. calls[h].op # "idle" /\ calls[h].row \in RowIds
      BY <1>5 DEF ActivateUpdate, TypeOK
    <2> QED
      BY <1>5, <2>1, GoOnType DEF ActivateUpdate, TypeOK
  <1>6. ASSUME DesktopRead(h) PROVE TypeOK'
    <2> DEFINE l == calls[h].lic
               m == calls[h].machine
               found == IF CanSign THEN "token" ELSE "update"
               op == IF rows[l][m] = None THEN "desktopInsert" ELSE found
    <2>1. l \in Licences /\ m \in Machines
      BY <1>6 DEF DesktopRead, TypeOK
    <2>2. rows[l][m] \in RowIds \cup {None}
      BY <2>1 DEF TypeOK
    <2>3. op \in Ops /\ (op \notin WithoutRow => rows[l][m] \in RowIds)
      BY <2>2
    <2>4. StartCall(h, op, l, m)
      BY <1>6 DEF DesktopRead
    <2>5. UNCHANGED <<licence, rows, tokens, ceiling, changes>>
      BY <1>6 DEF DesktopRead
    <2> HIDE DEF l, m, op
    <2> QED
      BY <2>1, <2>3, <2>4, <2>5, StartCallType DEF TypeOK
  <1>7. ASSUME InsertFinds(h) PROVE TypeOK'
    <2>1. calls[h].op # "idle" /\ AfterRow(h) \in Ops
      BY <1>7 DEF InsertFinds, Inserting, AfterRow
    <2>2. RowUnderLock(h) \in RowIds
      BY <1>7, <2>1 DEF InsertFinds, RowUnderLock, TypeOK
    <2> QED
      BY <1>7, <2>1, <2>2, GoOnType DEF InsertFinds, TypeOK
  <1>8. ASSUME NEW id \in RowIds, InsertRow(h, id) PROVE TypeOK'
    <2>1. calls[h].op # "idle" /\ AfterRow(h) \in Ops
      BY <1>8 DEF InsertRow, Inserting, AfterRow
    <2>2. rows' \in [Licences -> [Machines -> RowIds \cup {None}]]
      BY <1>8, <2>1 DEF InsertRow, TypeOK
    <2> QED
      BY <1>8, <2>1, <2>2, GoOnType DEF InsertRow, TypeOK
  <1>9. ASSUME InsertRefused(h) PROVE TypeOK'
    BY <1>9, EndCallType DEF InsertRefused, TypeOK
  <1>10. ASSUME StoreToken(h) PROVE TypeOK'
    <2>1. calls[h].op # "idle" /\ calls[h].row \in RowIds
      BY <1>10 DEF StoreToken, TypeOK
    <2>2. tokens' \subseteq RowIds
      BY <1>10, <2>1 DEF StoreToken, TypeOK
    <2> QED
      BY <1>10, <2>1, <2>2, GoOnType DEF StoreToken, TypeOK
  <1>11. ASSUME DeactivateDelete(h) PROVE TypeOK'
    <2>1. /\ rows' \in [Licences -> [Machines -> RowIds \cup {None}]]
          /\ tokens' \subseteq RowIds
      BY <1>11 DEF DeactivateDelete, DeleteRow, TypeOK
    <2> QED
      BY <1>11, <2>1, EndCallType DEF DeactivateDelete, TypeOK
  <1>12. ASSUME RowGone(h) PROVE TypeOK'
    BY <1>12, EndCallType DEF RowGone, TypeOK
  <1> QED
    BY <1>1, <1>2, <1>3, <1>4, <1>5, <1>6, <1>7, <1>8, <1>9, <1>10, <1>11, <1>12
       DEF CallStep

LEMMA LicenceStepTypes ==
    ASSUME ActivationParameters, TypeOK, NEW l \in Licences, LicenceStep(l)
    PROVE  TypeOK'
  <1>1. ASSUME NEW m \in Machines, RevokeActivation(l, m) PROVE TypeOK'
    BY <1>1 DEF RevokeActivation, DeleteRow, TypeOK
  <1>2. ASSUME NEW s \in Statuses, SetStatus(l, s) PROVE TypeOK'
    BY <1>2 DEF SetStatus, Changed, TypeOK, Licence
  <1>3. ASSUME NEW n \in Limits, SetLimit(l, n) PROVE TypeOK'
    BY <1>3 DEF SetLimit, Changed, TypeOK, Licence
  <1>4. ASSUME NEW b \in BOOLEAN, SetLapsed(l, b) PROVE TypeOK'
    BY <1>4 DEF SetLapsed, Changed, TypeOK, Licence
  <1> QED
    BY <1>1, <1>2, <1>3, <1>4 DEF LicenceStep

LEMMA StepTypes ==
    ASSUME ActivationParameters, TypeOK, [Next]_vars
    PROVE  TypeOK'
  <1>1. ASSUME NEW h \in Handlers, Reply(h) \/ AbortCall(h) PROVE TypeOK'
    BY <1>1, EndCallType DEF Reply, AbortCall, TypeOK
  <1>2. CASE UNCHANGED vars
    BY <1>2 DEF vars, TypeOK
  <1> QED
    BY <1>1, <1>2, CallStepTypes, LicenceStepTypes DEF Next

LEMMA InitTypes == ASSUME ActivationParameters, Init PROVE TypeOK
  <1>1. licence \in [Licences -> Licence]
    BY DEF Init, Licence, Statuses
  <1>2. ceiling \in [Licences -> Limits]
    BY <1>1 DEF Init, Licence
  <1>3. calls \in [Handlers -> Call]
    BY DEF Init, Idle, CallAt, Call, Ops
  <1> QED
    BY <1>1, <1>2, <1>3 DEF Init, TypeOK, Idle, CallAt

(* Every reachable state has the type of the tables and of what a handler   *)
(* holds between two queries.                                               *)
THEOREM ActivationTypes == Spec => []TypeOK
  <1>1. Init => TypeOK
    BY InitTypes, ActivationParameters
  <1>2. TypeOK /\ [Next]_vars => TypeOK'
    BY StepTypes, ActivationParameters
  <1> QED
    BY <1>1, <1>2, PTL DEF Spec

-----------------------------------------------------------------------------
(* The limit.  Alone it is not inductive: what a call in flight read, and   *)
(* what the licence says, must lie below the ceiling too.                   *)

CeilingHolds ==
    /\ \A l \in Licences : licence[l].limit <= ceiling[l]
    /\ \A h \in Handlers : calls[h].op # "idle" => calls[h].limit <= ceiling[calls[h].lic]

LimitInv == TypeOK /\ CeilingHolds /\ WithinLimit

LEMMA HoldersFinite ==
    ASSUME ActivationParameters, NEW l
    PROVE  IsFiniteSet(Holders(l)) /\ Cardinality(Holders(l)) \in Nat
  BY FS_Subset, FS_CardinalityType DEF ActivationParameters, Holders

\* Rows that go leave no more holders than there were.
LEMMA FewerHolders ==
    ASSUME ActivationParameters, TypeOK, WithinLimit,
           \A l \in Licences : Holders(l)' \subseteq Holders(l),
           \A l \in Licences : ceiling[l] <= ceiling'[l],
           ceiling' \in [Licences -> Limits]
    PROVE  WithinLimit'
  <1> SUFFICES ASSUME NEW l \in Licences
               PROVE  Cardinality(Holders(l)') <= ceiling'[l]
    BY DEF WithinLimit
  <1>1. Cardinality(Holders(l)') <= Cardinality(Holders(l))
    BY HoldersFinite, FS_Subset
  <1>2. Cardinality(Holders(l)') \in Nat
    BY HoldersFinite, FS_Subset, FS_CardinalityType
  <1> QED
    BY <1>1, <1>2, HoldersFinite DEF WithinLimit, TypeOK, Limits, ActivationParameters

\* The one step that adds a holder counted before it did.
LEMMA InsertWithinLimit ==
    ASSUME ActivationParameters, LimitInv,
           NEW h \in Handlers, NEW id \in RowIds, InsertRow(h, id)
    PROVE  WithinLimit'
  <1>0. calls[h].lic \in Licences /\ calls[h].machine \in Machines
        /\ calls[h].limit \in Limits /\ calls[h].op # "idle"
    BY DEF InsertRow, Inserting, LimitInv, TypeOK
  <1>a. PICK k \in Licences : k = calls[h].lic
    BY <1>0
  <1>b. PICK m \in Machines : m = calls[h].machine
    BY <1>0
  <1>1. calls[h].limit \in Limits /\ calls[h].op # "idle"
    BY <1>0
  <1>2. rows' = [rows EXCEPT ![k][m] = id] /\ UNCHANGED ceiling
    BY <1>a, <1>b DEF InsertRow
  <1>c. \A n \in Machines : rows'[k][n] = IF n = m THEN id ELSE rows[k][n]
    BY <1>2 DEF LimitInv, TypeOK
  <1>d. rows[k][m] = None /\ id # None
    BY <1>a, <1>b DEF InsertRow, ActivationParameters
  <1>3. Holders(k)' = Holders(k) \cup {m} /\ m \notin Holders(k)
    BY <1>c, <1>d DEF Holders
  <1>4. \A l \in Licences \ {k} : Holders(l)' = Holders(l)
    BY <1>2 DEF Holders, LimitInv, TypeOK
  <1>5. Cardinality(Holders(k)') = Cardinality(Holders(k)) + 1
    BY <1>3, HoldersFinite, FS_AddElement
  <1>6. Cardinality(Holders(k)) < calls[h].limit /\ calls[h].limit <= ceiling[k]
    BY <1>1, <1>a DEF InsertRow, PlaceLeft, LimitInv, CeilingHolds
  <1>7. Cardinality(Holders(k)') <= ceiling[k]
    BY <1>1, <1>5, <1>6, HoldersFinite DEF LimitInv, TypeOK, Limits, ActivationParameters
  <1> QED
    BY <1>2, <1>4, <1>7 DEF WithinLimit, LimitInv

\* A call that starts reads a limit below the ceiling; one that goes on keeps
\* the one it read.
LEMMA CallsBelowCeiling ==
    ASSUME LimitInv, TypeOK', UNCHANGED <<licence, ceiling>>,
           NEW h \in Handlers,
           \/ \E op \in Ops, l \in Licences, m \in Machines : StartCall(h, op, l, m)
           \/ calls[h].op # "idle" /\ \E op \in Ops, id \in RowIds : GoOn(h, op, id)
           \/ EndCall(h)
    PROVE  CeilingHolds'
  <1>1. ASSUME NEW op \in Ops, NEW l \in Licences, NEW m \in Machines,
               StartCall(h, op, l, m)
        PROVE  CeilingHolds'
    BY <1>1 DEF LimitInv, CeilingHolds, TypeOK, StartCall, CallAt
  <1>2. ASSUME calls[h].op # "idle", NEW op \in Ops, NEW id \in RowIds, GoOn(h, op, id)
        PROVE  CeilingHolds'
    <2>1. \A g \in Handlers : /\ calls'[g].limit = calls[g].limit
                              /\ calls'[g].lic = calls[g].lic
                              /\ calls'[g].op # "idle" => calls[g].op # "idle"
      BY <1>2, GoOnCall DEF LimitInv, TypeOK
    <2> QED
      BY <2>1 DEF LimitInv, CeilingHolds
  <1>3. CASE EndCall(h)
    BY <1>3 DEF LimitInv, CeilingHolds, TypeOK, EndCall, Idle, CallAt
  <1> QED
    BY <1>1, <1>2, <1>3

LEMMA CallStepKeepsLimit ==
    ASSUME ActivationParameters, LimitInv, TypeOK', NEW h \in Handlers,
           CallStep(h) \/ Reply(h) \/ AbortCall(h)
    PROVE  CeilingHolds' /\ WithinLimit'
  <1> USE DEF Ops
  <1>1. ASSUME NEW l \in Licences, NEW m \in Machines,
               ActivateLookup(h, l, m) \/ DesktopValidate(h, l, m)
                 \/ CheckInLookup(h, l, m) \/ DeactivateLookup(h, l, m)
        PROVE  /\ UNCHANGED <<licence, rows, ceiling>>
               /\ \E op \in Ops : StartCall(h, op, l, m)
    BY <1>1 DEF ActivateLookup, DesktopValidate, CheckInLookup, DeactivateLookup
  <1>2. ASSUME DesktopRead(h)
        PROVE  /\ UNCHANGED <<licence, rows, ceiling>>
               /\ \E op \in Ops, l \in Licences, m \in Machines : StartCall(h, op, l, m)
    <2>1. calls[h].lic \in Licences /\ calls[h].machine \in Machines
      BY <1>2 DEF DesktopRead, LimitInv, TypeOK
    <2> QED
      BY <1>2, <2>1 DEF DesktopRead
  <1>3. ASSUME ActivateUpdate(h) \/ StoreToken(h)
        PROVE  /\ UNCHANGED <<licence, rows, ceiling>>
               /\ calls[h].op # "idle" /\ \E op \in Ops, id \in RowIds : GoOn(h, op, id)
    <2>1. calls[h].row \in RowIds
      BY <1>3 DEF ActivateUpdate, StoreToken, LimitInv, TypeOK, WithoutRow
    <2> QED
      BY <1>3, <2>1 DEF ActivateUpdate, StoreToken
  <1>4. ASSUME InsertFinds(h)
        PROVE  /\ UNCHANGED <<licence, rows, ceiling>>
               /\ calls[h].op # "idle" /\ \E op \in Ops, id \in RowIds : GoOn(h, op, id)
    <2>1. calls[h].lic \in Licences /\ calls[h].machine \in Machines /\ AfterRow(h) \in Ops
      BY <1>4 DEF InsertFinds, Inserting, AfterRow, LimitInv, TypeOK
    <2>2. RowUnderLock(h) \in RowIds
      BY <1>4, <2>1 DEF InsertFinds, RowUnderLock, LimitInv, TypeOK
    <2> QED
      BY <1>4, <2>1, <2>2 DEF InsertFinds, Inserting
  <1>5. ASSUME NEW id \in RowIds, InsertRow(h, id)
        PROVE  /\ UNCHANGED <<licence, ceiling>>
               /\ calls[h].op # "idle" /\ \E op \in Ops : GoOn(h, op, id)
    <2>1. AfterRow(h) \in Ops
      BY <1>5 DEF AfterRow
    <2> QED
      BY <1>5, <2>1 DEF InsertRow, Inserting
  <1>6. ASSUME InsertRefused(h) \/ RowGone(h) \/ Reply(h) \/ AbortCall(h)
        PROVE  UNCHANGED <<licence, rows, ceiling>> /\ EndCall(h)
    BY <1>6 DEF InsertRefused, RowGone, Reply, AbortCall
  <1>7. ASSUME DeactivateDelete(h)
        PROVE  /\ UNCHANGED <<licence, ceiling>> /\ EndCall(h)
               /\ \A l \in Licences : Holders(l)' \subseteq Holders(l)
    <2>1. calls[h].lic \in Licences /\ calls[h].machine \in Machines
      BY <1>7 DEF DeactivateDelete, LimitInv, TypeOK
    <2> QED
      BY <1>7, <2>1 DEF DeactivateDelete, DeleteRow, Holders, LimitInv, TypeOK
  <1>8. \A l \in Licences : ceiling[l] <= ceiling[l]
    BY DEF LimitInv, TypeOK, Limits, ActivationParameters
  <1>9. UNCHANGED <<rows, ceiling>> => WithinLimit'
    BY DEF LimitInv, WithinLimit, Holders
  <1>10. ASSUME UNCHANGED ceiling, \A l \in Licences : Holders(l)' \subseteq Holders(l)
         PROVE  WithinLimit'
    BY <1>8, <1>10, FewerHolders DEF LimitInv, TypeOK
  <1>11. CeilingHolds'
    BY <1>1, <1>2, <1>3, <1>4, <1>5, <1>6, <1>7, CallsBelowCeiling DEF CallStep
  <1> QED
    BY <1>1, <1>2, <1>3, <1>4, <1>6, <1>7, <1>9, <1>10, <1>11, InsertWithinLimit
       DEF CallStep

LEMMA LicenceStepKeepsLimit ==
    ASSUME ActivationParameters, LimitInv, TypeOK', NEW l \in Licences, LicenceStep(l)
    PROVE  CeilingHolds' /\ WithinLimit'
  <1>1. ASSUME NEW m \in Machines, RevokeActivation(l, m)
        PROVE  CeilingHolds' /\ WithinLimit'
    <2>1. \A k \in Licences : Holders(k)' \subseteq Holders(k)
      BY <1>1 DEF RevokeActivation, DeleteRow, Holders, LimitInv, TypeOK
    <2>2. \A k \in Licences : ceiling[k] <= ceiling'[k]
      BY <1>1 DEF RevokeActivation, LimitInv, TypeOK, Limits, ActivationParameters
    <2>3. WithinLimit'
      BY <2>1, <2>2, FewerHolders DEF LimitInv, TypeOK
    <2> QED
      BY <1>1, <2>3 DEF RevokeActivation, LimitInv, CeilingHolds
  <1>2. ASSUME NEW s \in Statuses, SetStatus(l, s)
        PROVE  CeilingHolds' /\ WithinLimit'
    BY <1>2 DEF SetStatus, Changed, LimitInv, CeilingHolds, WithinLimit, Holders, TypeOK, Licence
  <1>3. ASSUME NEW n \in Limits, SetLimit(l, n)
        PROVE  CeilingHolds' /\ WithinLimit'
    <2>1. \A k \in Licences : ceiling[k] \in Int /\ ceiling'[k] \in Int /\ licence[k].limit \in Int
      BY <1>3 DEF LimitInv, TypeOK, Limits, Licence, ActivationParameters
    <2>2. \A k \in Licences : ceiling[k] <= ceiling'[k]
      BY <1>3, <2>1 DEF SetLimit, LimitInv, TypeOK, Limits, ActivationParameters
    <2>3. UNCHANGED <<rows, calls>>
      BY <1>3 DEF SetLimit, Changed
    <2>4. WithinLimit'
      BY <2>2, <2>3, FewerHolders DEF LimitInv, TypeOK, Holders
    <2>5. \A k \in Licences : licence'[k].limit <= ceiling'[k]
      BY <1>3, <2>1 DEF SetLimit, LimitInv, CeilingHolds, TypeOK, Licence, Limits
    <2>6. \A h \in Handlers : calls'[h].op # "idle" =>
                                calls'[h].limit <= ceiling'[calls'[h].lic]
      BY <2>1, <2>2, <2>3 DEF LimitInv, CeilingHolds, TypeOK, Limits
    <2> QED
      BY <2>4, <2>5, <2>6 DEF CeilingHolds
  <1>4. ASSUME NEW b \in BOOLEAN, SetLapsed(l, b)
        PROVE  CeilingHolds' /\ WithinLimit'
    BY <1>4 DEF SetLapsed, Changed, LimitInv, CeilingHolds, WithinLimit, Holders, TypeOK, Licence
  <1> QED
    BY <1>1, <1>2, <1>3, <1>4 DEF LicenceStep

(* For every number of handlers, machines and rows: no licence ever has     *)
(* more activations than the largest limit it had.                          *)
THEOREM LimitKept == Spec => []WithinLimit
  <1>1. Init => LimitInv
    <2> SUFFICES ASSUME Init PROVE LimitInv
      OBVIOUS
    <2>1. TypeOK
      BY InitTypes, ActivationParameters
    <2>2. \A l \in Licences : Holders(l) = {}
      BY DEF Init, Holders
    <2>3. WithinLimit
      <3>1. \A l \in Licences : Cardinality(Holders(l)) = 0
        BY <2>2, FS_EmptySet
      <3>2. \A l \in Licences : ceiling[l] \in Limits
        BY <2>1 DEF TypeOK
      <3> QED
        BY <3>1, <3>2, ActivationParameters DEF WithinLimit, Limits, ActivationParameters
    <2>4. CeilingHolds
      BY <2>1, ActivationParameters
         DEF Init, CeilingHolds, Idle, CallAt, TypeOK, Limits, ActivationParameters
    <2> QED
      BY <2>1, <2>3, <2>4 DEF LimitInv
  <1>2. LimitInv /\ [Next]_vars => LimitInv'
    <2> SUFFICES ASSUME LimitInv, [Next]_vars PROVE LimitInv'
      OBVIOUS
    <2>1. TypeOK'
      BY StepTypes, ActivationParameters DEF LimitInv
    <2>2. CASE UNCHANGED vars
      BY <2>1, <2>2 DEF vars, LimitInv, CeilingHolds, WithinLimit, Holders
    <2> QED
      BY <2>1, <2>2, CallStepKeepsLimit, LicenceStepKeepsLimit, ActivationParameters
         DEF Next, LimitInv
  <1> QED
    BY <1>1, <1>2, PTL DEF Spec, LimitInv

-----------------------------------------------------------------------------
(* The refinement.  A step of a call touches the offer of its own request   *)
(* and nothing else of the offers.                                          *)

LEMMA OfferChange ==
    ASSUME NEW h \in Handlers,
           \A g \in Handlers \ {h} : calls'[g] = calls[g]
    PROVE  PoolOffers' = [PoolOffers EXCEPT ![h] = OfferOf(h)']
  <1>1. \A g \in Handlers \ {h} : OfferOf(g)' = OfferOf(g)
    BY DEF OfferOf
  <1> QED
    BY <1>1 DEF PoolOffers

LEMMA OfferStart ==
    ASSUME TypeOK,
           NEW h \in Handlers, NEW op, NEW l \in Licences, NEW m \in Machines,
           StartCall(h, op, l, m)
    PROVE  /\ PoolOffers' = [PoolOffers EXCEPT ![h] = OfferOf(h)']
           /\ op \in WithoutRow =>
                OfferOf(h)' = [pool |-> l, member |-> m, places |-> licence[l].limit]
           /\ op \notin WithoutRow => OfferOf(h)' = Pool!NoOffer
  <1>1. \A g \in Handlers \ {h} : calls'[g] = calls[g]
    BY DEF StartCall, CallAt, TypeOK
  <1>2. calls'[h] = [op |-> op, lic |-> l, machine |-> m,
                     limit |-> licence[l].limit, row |-> rows[l][m]]
    BY DEF StartCall, CallAt, TypeOK
  <1> QED
    BY <1>1, <1>2, OfferChange DEF OfferOf, Pool!NoOffer

\* A call that ends, or goes on with a row, has no offer any more.
LEMMA OfferEnd ==
    ASSUME TypeOK, NEW h \in Handlers,
           \/ EndCall(h)
           \/ \E op \in {"granted", "token"}, id \in RowIds : GoOn(h, op, id)
    PROVE  PoolOffers' = [PoolOffers EXCEPT ![h] = Pool!NoOffer]
  <1>1. \A g \in Handlers \ {h} : calls'[g] = calls[g]
    BY DEF EndCall, GoOn, TypeOK
  <1>2. calls'[h].op \notin WithoutRow
    <2>1. CASE EndCall(h)
      BY <2>1 DEF EndCall, Idle, CallAt, WithoutRow, TypeOK
    <2>2. ASSUME NEW op \in {"granted", "token"}, NEW id \in RowIds, GoOn(h, op, id)
          PROVE  calls'[h].op \notin WithoutRow
      BY <2>2, GoOnCall DEF TypeOK, WithoutRow
    <2> QED
      BY <2>1, <2>2
  <1> QED
    BY <1>1, <1>2, OfferChange DEF OfferOf, Pool!NoOffer

\* What a request has been offered, as the pool sees it.
LEMMA OfferKnown ==
    ASSUME ActivationParameters, TypeOK, NEW h \in Handlers
    PROVE  /\ calls[h].op \in WithoutRow =>
                /\ Pool!HasOffer(h)
                /\ PoolOffers[h].pool = calls[h].lic
                /\ PoolOffers[h].member = calls[h].machine
                /\ PoolOffers[h].places = calls[h].limit
           /\ calls[h].op \notin WithoutRow =>
                PoolOffers[h] = Pool!NoOffer /\ ~Pool!HasOffer(h)
  <1>1. calls[h].op \in WithoutRow => calls[h].lic \in Licences
    BY DEF TypeOK, WithoutRow
  <1> QED
    BY <1>1 DEF PoolOffers, OfferOf, Pool!HasOffer, Pool!NoOffer, ActivationParameters

\* FiniteSets as ActivationPool extends it and as this module does.
LEMMA SameCardinality == \A S : Pool!Cardinality(S) = Cardinality(S)
  BY Zenon DEF Cardinality, Pool!Cardinality

LEMMA CallStepInPool ==
    ASSUME ActivationParameters, TypeOK, NEW h \in Handlers,
           CallStep(h) \/ Reply(h) \/ AbortCall(h)
    PROVE  [Pool!Next]_(Pool!poolVars)
  <1> DEFINE Goal == [Pool!Next]_(Pool!poolVars)
  <1>0. UNCHANGED licence => UNCHANGED <<PoolOpen, PoolCapacity>>
    BY DEF PoolOpen, PoolCapacity
  <1>a. UNCHANGED rows => UNCHANGED PoolHeld
    BY DEF PoolHeld, Holders
  <1>b. Pool!Decline(h) => Goal
    BY DEF Pool!Next
  <1>c. calls[h] = Idle => ~Pool!HasOffer(h) /\ PoolOffers[h] = Pool!NoOffer
    BY OfferKnown DEF Idle, CallAt, WithoutRow
  <1>d. PoolOffers' = [PoolOffers EXCEPT ![h] = Pool!NoOffer]
          /\ UNCHANGED <<licence, rows>> => Goal
    BY <1>0, <1>a, <1>b DEF Pool!Decline
  <1>1. ASSUME NEW l \in Licences, NEW m \in Machines,
               ActivateLookup(h, l, m) \/ DesktopValidate(h, l, m)
        PROVE  Goal
    <2>1. PICK op : /\ StartCall(h, op, l, m) /\ calls[h] = Idle
                    /\ UNCHANGED <<licence, rows>>
                    /\ licence[l].status = "ACTIVE" /\ ~licence[l].lapsed
      BY <1>1 DEF ActivateLookup, DesktopValidate, MayUse
    <2>2. CASE op \in WithoutRow
      <3>1. PoolOffers' = [PoolOffers EXCEPT ![h] =
                             [pool |-> l, member |-> m, places |-> PoolCapacity[l]]]
        BY <2>1, <2>2, OfferStart DEF PoolCapacity
      <3>2. Pool!Offer(h, l, m)
        BY <2>1, <3>1, <1>0, <1>a, <1>c DEF Pool!Offer, PoolOpen
      <3> QED
        BY <3>2 DEF Pool!Next
    <2>3. CASE op \notin WithoutRow
      BY <2>1, <2>3, <1>d, OfferStart
    <2> QED
      BY <2>2, <2>3
  <1>2. ASSUME NEW l \in Licences, NEW m \in Machines,
               CheckInLookup(h, l, m) \/ DeactivateLookup(h, l, m)
        PROVE  Goal
    <2>1. PICK op \in {"token", "delete"} : StartCall(h, op, l, m) /\ UNCHANGED <<licence, rows>>
      BY <1>2 DEF CheckInLookup, DeactivateLookup
    <2>2. op \notin WithoutRow
      BY DEF WithoutRow
    <2> QED
      BY <2>1, <2>2, <1>d, OfferStart
  <1>3. ASSUME DesktopRead(h) PROVE Goal
    <2>1. calls[h].lic \in Licences /\ calls[h].machine \in Machines
      BY <1>3 DEF DesktopRead, TypeOK
    <2>2. PICK l \in Licences : l = calls[h].lic
      BY <2>1
    <2>3. PICK m \in Machines : m = calls[h].machine
      BY <2>1
    <2>4. PICK op \in {"desktopInsert", "token", "update"} :
               StartCall(h, op, l, m) /\ UNCHANGED <<licence, rows>>
      BY <1>3, <2>2, <2>3 DEF DesktopRead
    <2>5. calls[h].op \in WithoutRow
      BY <1>3 DEF DesktopRead, WithoutRow
    <2>6. CASE op = "desktopInsert"
      <3>1. PoolOffers' = [PoolOffers EXCEPT ![h] =
                             [pool |-> l, member |-> m, places |-> PoolCapacity[l]]]
        BY <2>4, <2>6, OfferStart DEF WithoutRow, PoolCapacity
      <3>2. PoolOffers[h] = [pool |-> l, member |-> m, places |-> calls[h].limit]
        BY <2>2, <2>3, <2>5 DEF PoolOffers, OfferOf
      <3>3. PoolOffers' = [PoolOffers EXCEPT ![h].places = PoolCapacity[PoolOffers[h].pool]]
        <4>1. PoolOffers[h].pool = l
              /\ [PoolOffers[h] EXCEPT !.places = PoolCapacity[l]]
                   = [pool |-> l, member |-> m, places |-> PoolCapacity[l]]
          BY <3>2
        <4> QED
          BY <3>1, <4>1
      <3>4. Pool!Renew(h)
        BY <3>3, <2>4, <2>5, <1>0, <1>a, OfferKnown DEF Pool!Renew
      <3> QED
        BY <3>4 DEF Pool!Next
    <2>7. CASE op \in {"token", "update"}
      BY <2>4, <2>7, <1>d, OfferStart DEF WithoutRow
    <2> QED
      BY <2>6, <2>7
  <1>4. ASSUME NEW id \in RowIds, InsertRow(h, id) PROVE Goal
    <2>1. calls[h].lic \in Licences /\ calls[h].machine \in Machines
      BY <1>4 DEF InsertRow, Inserting, TypeOK
    <2>2. PICK l \in Licences : l = calls[h].lic
      BY <2>1
    <2>3. PICK m \in Machines : m = calls[h].machine
      BY <2>1
    <2>4. rows' = [rows EXCEPT ![l][m] = id] /\ UNCHANGED licence
      BY <1>4, <2>2, <2>3 DEF InsertRow
    <2>5. \A k \in Licences : Holders(k)' = IF k = l THEN Holders(l) \cup {m} ELSE Holders(k)
      <3>1. \A k \in Licences, n \in Machines :
              rows'[k][n] = IF k = l /\ n = m THEN id ELSE rows[k][n]
        BY <2>4 DEF TypeOK
      <3>2. id # None
        BY DEF ActivationParameters
      <3> QED
        BY <3>1, <3>2 DEF Holders
    <2>6. PoolHeld' = [PoolHeld EXCEPT ![l] = @ \cup {m}]
      BY <2>5 DEF PoolHeld
    <2>7. calls[h].op \in WithoutRow
      BY <1>4 DEF InsertRow, Inserting, WithoutRow
    <2>8. /\ Pool!HasOffer(h) /\ PoolOffers[h].pool = l /\ PoolOffers[h].member = m
          /\ PoolOffers[h].places = calls[h].limit
      BY <2>2, <2>3, <2>7, OfferKnown
    <2>9. Cardinality(PoolHeld[l]) < PoolOffers[h].places
      BY <1>4, <2>2, <2>8 DEF InsertRow, PlaceLeft, PoolHeld
    <2>10. PoolOffers' = [PoolOffers EXCEPT ![h] = Pool!NoOffer]
      BY <1>4, OfferEnd DEF InsertRow, AfterRow
    <2>11. Pool!Join(h)
      <3>1. PoolHeld' = [PoolHeld EXCEPT ![PoolOffers[h].pool] = @ \cup {PoolOffers[h].member}]
        BY <2>6, <2>8
      <3>2. Cardinality(PoolHeld[PoolOffers[h].pool]) < PoolOffers[h].places
        BY <2>8, <2>9
      <3>3. UNCHANGED <<PoolOpen, PoolCapacity>>
        BY <2>4, <1>0
      <3> QED
        BY <2>8, <2>10, <3>1, <3>2, <3>3, SameCardinality DEF Pool!Join
    <2> QED
      BY <2>11 DEF Pool!Next
  <1>5. ASSUME ActivateUpdate(h) \/ StoreToken(h) PROVE Goal
    <2>1. calls[h].row \in RowIds
      BY <1>5 DEF ActivateUpdate, StoreToken, TypeOK, WithoutRow
    <2> QED
      BY <1>5, <2>1, <1>d, OfferEnd DEF ActivateUpdate, StoreToken
  <1>6. ASSUME InsertFinds(h) PROVE Goal
    <2>1. calls[h].lic \in Licences /\ calls[h].machine \in Machines
      BY <1>6 DEF InsertFinds, Inserting, TypeOK
    <2>2. RowUnderLock(h) \in RowIds
      BY <1>6, <2>1 DEF InsertFinds, RowUnderLock, TypeOK
    <2> QED
      BY <1>6, <2>2, <1>d, OfferEnd DEF InsertFinds, AfterRow
  <1>7. ASSUME InsertRefused(h) \/ RowGone(h) \/ Reply(h) \/ AbortCall(h) PROVE Goal
    BY <1>7, <1>d, OfferEnd DEF InsertRefused, RowGone, Reply, AbortCall
  <1>8. ASSUME DeactivateDelete(h) PROVE Goal
    <2>1. calls[h].lic \in Licences /\ calls[h].machine \in Machines
      BY <1>8 DEF DeactivateDelete, TypeOK
    <2>2. PICK l \in Licences : l = calls[h].lic
      BY <2>1
    <2>3. PICK m \in Machines : m = calls[h].machine
      BY <2>1
    <2>4. rows' = [rows EXCEPT ![l][m] = None] /\ UNCHANGED licence
      BY <1>8, <2>2, <2>3 DEF DeactivateDelete, DeleteRow
    <2>5. PoolHeld' = [PoolHeld EXCEPT ![l] = @ \ {m}]
      BY <2>4 DEF PoolHeld, Holders, TypeOK
    <2>6. PoolOffers[h] = Pool!NoOffer
      BY <1>8, OfferKnown DEF DeactivateDelete, WithoutRow
    <2>7. PoolOffers' = PoolOffers
      BY <1>8, <2>6, OfferEnd DEF DeactivateDelete, PoolOffers
    <2>8. Pool!Leave(l, m)
      BY <2>4, <2>5, <2>7, <1>0 DEF Pool!Leave
    <2> QED
      BY <2>8 DEF Pool!Next
  <1> QED
    BY <1>1, <1>2, <1>3, <1>4, <1>5, <1>6, <1>7, <1>8 DEF CallStep

LEMMA LicenceStepInPool ==
    ASSUME ActivationParameters, TypeOK, TypeOK', NEW l \in Licences, LicenceStep(l)
    PROVE  [Pool!Next]_(Pool!poolVars)
  <1>0. UNCHANGED calls => UNCHANGED PoolOffers
    BY DEF PoolOffers, OfferOf
  <1>1. ASSUME NEW m \in Machines, RevokeActivation(l, m) PROVE Pool!Next
    <2>1. PoolHeld' = [PoolHeld EXCEPT ![l] = @ \ {m}]
      BY <1>1 DEF RevokeActivation, DeleteRow, PoolHeld, Holders, TypeOK
    <2>2. UNCHANGED <<PoolOpen, PoolCapacity, PoolOffers>>
      BY <1>0, <1>1 DEF RevokeActivation, PoolOpen, PoolCapacity
    <2>3. Pool!Leave(l, m)
      BY <2>1, <2>2 DEF Pool!Leave
    <2> QED
      BY <2>3 DEF Pool!Next
  <1>2. ASSUME UNCHANGED <<rows, calls>> PROVE Pool!Next
    <2>1. PoolOpen' \subseteq Licences
      BY DEF PoolOpen
    <2>2. PoolCapacity' \in [Licences -> Nat]
      BY DEF PoolCapacity, TypeOK, Licence, Limits, ActivationParameters
    <2>3. UNCHANGED PoolHeld
      BY <1>2 DEF PoolHeld, Holders
    <2>4. Pool!Manage
      BY <1>0, <1>2, <2>1, <2>2, <2>3 DEF Pool!Manage
    <2> QED
      BY <2>4 DEF Pool!Next
  <1> QED
    BY <1>1, <1>2 DEF LicenceStep, SetStatus, SetLimit, SetLapsed, Changed

(* Whatever is in flight and however stale, activation is a pool of places: *)
(* a place is taken only by a call that was let in while the licence could  *)
(* be used, and within a limit the licence had since.                       *)
THEOREM PoolImplemented == Spec => ImplementsPool
  <1>1. Init => Pool!Init
    <2> SUFFICES ASSUME Init PROVE Pool!Init
      OBVIOUS
    <2>1. TypeOK
      BY InitTypes, ActivationParameters
    <2>2. PoolCapacity \in [Licences -> Nat]
      BY <2>1, ActivationParameters DEF PoolCapacity, TypeOK, Licence, Limits, ActivationParameters
    <2>3. PoolHeld = [p \in Licences |-> {}]
      BY DEF Init, PoolHeld, Holders
    <2>4. PoolOffers = [q \in Handlers |-> Pool!NoOffer]
      BY DEF Init, PoolOffers, OfferOf, Idle, CallAt, WithoutRow, Pool!NoOffer
    <2> QED
      BY <2>2, <2>3, <2>4 DEF Pool!Init, PoolOpen
  <1>2. TypeOK /\ TypeOK' /\ [Next]_vars => [Pool!Next]_(Pool!poolVars)
    <2>1. ASSUME TypeOK, TypeOK', UNCHANGED vars
          PROVE  UNCHANGED Pool!poolVars
      BY <2>1 DEF vars, Pool!poolVars, PoolOpen, PoolCapacity, PoolHeld, PoolOffers, Holders, OfferOf
    <2> QED
      BY <2>1, CallStepInPool, LicenceStepInPool, ActivationParameters DEF Next
  <1> QED
    BY <1>1, <1>2, ActivationTypes, PTL DEF Spec, ImplementsPool, Pool!Spec

-----------------------------------------------------------------------------
(* Grants.  A step in which a call comes to answer success is the one that  *)
(* found, made or wrote to its row.                                         *)

GrantHeld(h) ==
    (calls'[h].op = "granted" /\ calls[h].op # "granted") =>
        /\ rows'[calls[h].lic][calls[h].machine] = calls'[h].row
        /\ (calls[h].op = "token") => (calls'[h].row \in tokens' <=> CanSign)

\* A step that gives one call another operation grants nothing to the others.
LEMMA GrantsNobodyElse ==
    ASSUME TypeOK, NEW h \in Handlers, NEW c, calls' = [calls EXCEPT ![h] = c],
           NEW g \in Handlers, g # h
    PROVE  GrantHeld(g)
  BY DEF TypeOK, GrantHeld

LEMMA GrantsNothing ==
    ASSUME TypeOK, NEW h \in Handlers, NEW c, calls' = [calls EXCEPT ![h] = c],
           c.op # "granted"
    PROVE  \A g \in Handlers : GrantHeld(g)
  BY DEF TypeOK, GrantHeld

LEMMA LookupGrantsNothing ==
    ASSUME TypeOK, NEW h \in Handlers, NEW op, NEW l, NEW m,
           StartCall(h, op, l, m), op # "granted"
    PROVE  \A g \in Handlers : GrantHeld(g)
  <1>1. PICK c : c = CallAt(op, l, m, licence[l].limit, rows[l][m])
    OBVIOUS
  <1>2. calls' = [calls EXCEPT ![h] = c] /\ c.op # "granted"
    BY <1>1 DEF StartCall, CallAt
  <1> QED
    BY <1>2, GrantsNothing

LEMMA EndGrantsNothing ==
    ASSUME TypeOK, NEW h \in Handlers, EndCall(h)
    PROVE  \A g \in Handlers : GrantHeld(g)
  <1>1. Idle.op # "granted"
    BY DEF Idle, CallAt
  <1> QED
    BY <1>1, GrantsNothing DEF EndCall

\* A call that goes on by the id of the row its machine has after the step is
\* granted that row.
LEMMA GoesOnWithItsRow ==
    ASSUME TypeOK, NEW h \in Handlers, NEW op, NEW id, GoOn(h, op, id),
           op = "granted" =>
               /\ rows'[calls[h].lic][calls[h].machine] = id
               /\ (calls[h].op = "token") => (id \in tokens' <=> CanSign)
    PROVE  \A g \in Handlers : GrantHeld(g)
  <1> DEFINE c == [op |-> op, lic |-> calls[h].lic, machine |-> calls[h].machine,
                   limit |-> calls[h].limit, row |-> id]
  <1>1. calls' = [calls EXCEPT ![h] = c] /\ calls'[h] = c /\ c.op = op /\ c.row = id
    BY GoOnCall DEF TypeOK
  <1> HIDE DEF c
  <1>2. GrantHeld(h)
    BY <1>1 DEF GrantHeld
  <1> QED
    BY <1>1, <1>2, GrantsNobodyElse

LEMMA CallStepGrants ==
    ASSUME ActivationParameters, TypeOK, NEW h \in Handlers, CallStep(h)
    PROVE  \A g \in Handlers : GrantHeld(g)
  <1> DEFINE Fits == \A g \in Handlers : GrantHeld(g)
  <1>1. ASSUME NEW l \in Licences, NEW m \in Machines,
               ActivateLookup(h, l, m) \/ DesktopValidate(h, l, m)
               \/ CheckInLookup(h, l, m) \/ DeactivateLookup(h, l, m)
        PROVE  Fits
    BY <1>1, LookupGrantsNothing
       DEF ActivateLookup, DesktopValidate, CheckInLookup, DeactivateLookup
  <1>2. CASE DesktopRead(h)
    BY <1>2, LookupGrantsNothing DEF DesktopRead
  <1>3. CASE ActivateUpdate(h)
    <2>1. calls[h].op # "token" /\ GoOn(h, "granted", calls[h].row)
          /\ rows'[calls[h].lic][calls[h].machine] = calls[h].row
      BY <1>3 DEF ActivateUpdate, StillThere
    <2> QED
      BY <2>1, GoesOnWithItsRow
  <1>4. CASE InsertFinds(h)
    <2>1. calls[h].op # "token" /\ rows' = rows
          /\ GoOn(h, AfterRow(h), rows[calls[h].lic][calls[h].machine])
      BY <1>4 DEF InsertFinds, RowUnderLock, Inserting
    <2> QED
      BY <2>1, GoesOnWithItsRow
  <1>5. ASSUME NEW id \in RowIds, InsertRow(h, id) PROVE Fits
    <2>1. calls[h].op \in {"insert", "desktopInsert"} /\ GoOn(h, AfterRow(h), id)
          /\ rows' = [rows EXCEPT ![calls[h].lic][calls[h].machine] = id]
      BY <1>5 DEF InsertRow, Inserting
    <2>2. calls[h].lic \in Licences /\ calls[h].machine \in Machines
      BY <2>1 DEF TypeOK
    <2>3. rows'[calls[h].lic][calls[h].machine] = id
      BY <2>1, <2>2 DEF TypeOK
    <2> QED
      BY <2>1, <2>3, GoesOnWithItsRow
  <1>6. CASE StoreToken(h)
    <2>1. /\ GoOn(h, "granted", calls[h].row)
          /\ rows'[calls[h].lic][calls[h].machine] = calls[h].row
          /\ tokens' = IF CanSign THEN tokens \cup {calls[h].row} ELSE tokens \ {calls[h].row}
      BY <1>6 DEF StoreToken, StillThere
    <2>2. calls[h].row \in tokens' <=> CanSign
      BY <2>1
    <2> QED
      BY <2>1, <2>2, GoesOnWithItsRow
  <1>7. CASE InsertRefused(h) \/ DeactivateDelete(h) \/ RowGone(h)
    BY <1>7, EndGrantsNothing DEF InsertRefused, DeactivateDelete, RowGone
  <1> QED
    BY <1>1, <1>2, <1>3, <1>4, <1>5, <1>6, <1>7 DEF CallStep

LEMMA StepGrants ==
    ASSUME ActivationParameters, TypeOK, [Next]_vars
    PROVE  \A g \in Handlers : GrantHeld(g)
  <1>1. ASSUME NEW h \in Handlers, Reply(h) \/ AbortCall(h)
        PROVE  \A g \in Handlers : GrantHeld(g)
    BY <1>1, EndGrantsNothing DEF Reply, AbortCall
  <1>2. CASE UNCHANGED calls
    BY <1>2 DEF GrantHeld
  <1>3. ASSUME NEW l \in Licences, LicenceStep(l) PROVE UNCHANGED calls
    BY <1>3 DEF LicenceStep, RevokeActivation, SetStatus, SetLimit, SetLapsed, Changed
  <1> QED
    BY <1>1, <1>2, <1>3, CallStepGrants DEF Next, vars

(* However rows come and go meanwhile, a success speaks of the row that the *)
(* machine has at that moment, with its token where there is a key.         *)
THEOREM GrantsAreHeld == Spec => GrantsHeld
  <1>1. TypeOK /\ [Next]_vars => [\A h \in Handlers :
           (calls'[h].op = "granted" /\ calls[h].op # "granted") =>
         /\ rows'[calls[h].lic][calls[h].machine] = calls'[h].row
         /\ (calls[h].op = "token") => (calls'[h].row \in tokens' <=> CanSign)]_vars
    BY StepGrants, ActivationParameters DEF GrantHeld
  <1> QED
    BY <1>1, ActivationTypes, PTL DEF Spec, GrantsHeld
=============================================================================
