------------------------- MODULE DeploymentProofs -------------------------
(***************************************************************************)
(* Proofs about DeploymentLifecycle, for any number of handlers, machines, *)
(* licences, deployments and commands.                                     *)
(***************************************************************************)
EXTENDS DeploymentLifecycle, TLAPS

Enrolling == {"renew", "insert", "find", "free", "upsert", "tell"}

(* What a call holds suffices for its next step, n secrets being minted.    *)
Fits(c, n) ==
    /\ c.step # "idle" => c.id \in Ids /\ c.machine \in Machines
    /\ c.step \in Enrolling => c.licence \in Licences
    /\ c.step \in {"free", "upsert", "tell"} => c.secret \in 1..n
    /\ c.step = "free" => c.old \in Licences \ {c.licence}

CallsFit == \A h \in Handlers : Fits(calls[h], minted)

DInv == TypeOK /\ CallsFit

-----------------------------------------------------------------------------
(* Types. *)

LEMMA IdleFits ==
    Idle \in Call /\ (\A n : Fits(Idle, n)) /\ Idle.step = "idle" /\ Idle.machine = None
  BY DEF Idle, CallAt, Call, Steps, Fits, Enrolling

LEMMA DInvInit ==
    ASSUME DeploymentParameters, Init
    PROVE  DInv
  <1>1. \A h \in Handlers : calls[h] = Idle
    BY DEF Init
  <1>2. calls \in [Handlers -> Call] /\ \A h \in Handlers : calls[h].step = "idle"
    BY <1>1, IdleFits DEF Init
  <1>3. CallsFit
    BY <1>1, IdleFits DEF CallsFit
  <1>4. Absent \in Row /\ \A d \in Ids : deployments[d] = Absent
    BY DEF Init, Absent, RowOf, Row, Statuses
  <1>5. TypeOK
    BY <1>2, <1>4 DEF Init, TypeOK, Command
  <1> QED
    BY <1>3, <1>5 DEF DInv

(* A handler's call is replaced; the others stand, since secrets are only   *)
(* added.                                                                   *)
LEMMA CallSet ==
    ASSUME DInv, NEW h \in Handlers, NEW c \in Call, Go(h, c), minted' \in Nat,
           minted <= minted', Fits(c, minted')
    PROVE  /\ calls' \in [Handlers -> Call]
           /\ CallsFit'
           /\ \A g \in Handlers : calls'[g].step # "idle" =>
                calls'[g].id \in Ids /\ calls'[g].machine \in Machines
  <1>1. calls \in [Handlers -> Call] /\ minted \in Nat
    BY DEF DInv, TypeOK
  <1>2. calls' \in [Handlers -> Call]
    BY <1>1 DEF Go
  <1>3. calls'[h] = c /\ \A g \in Handlers \ {h} : calls'[g] = calls[g]
    BY <1>1 DEF Go
  <1>4. ASSUME NEW g \in Handlers PROVE Fits(calls'[g], minted')
    <2>1. CASE g = h
      BY <1>3, <2>1
    <2>2. CASE g # h
      BY <1>1, <1>3, <2>2 DEF DInv, CallsFit, Fits
    <2> QED
      BY <2>1, <2>2
  <1>5. CallsFit'
    BY <1>4 DEF CallsFit
  <1> QED
    BY <1>2, <1>5 DEF CallsFit, Fits

LEMMA CallsKept ==
    ASSUME DInv, UNCHANGED calls, minted' \in Nat, minted <= minted'
    PROVE  /\ calls' \in [Handlers -> Call]
           /\ CallsFit'
           /\ \A g \in Handlers : calls'[g].step # "idle" =>
                calls'[g].id \in Ids /\ calls'[g].machine \in Machines
  BY DEF DInv, TypeOK, CallsFit, Fits

(* The next step of an enrolment.                                           *)
LEMMA Proceeds ==
    ASSUME DInv, NEW h \in Handlers, NEW step \in Enrolling \ {"free"}, Proceed(h, step),
           calls[h].step \in Enrolling, UNCHANGED minted,
           step \in {"upsert", "tell"} => calls[h].step \in {"free", "upsert"}
    PROVE  /\ calls' \in [Handlers -> Call]
           /\ CallsFit'
           /\ \A g \in Handlers : calls'[g].step # "idle" =>
                calls'[g].id \in Ids /\ calls'[g].machine \in Machines
  <1> DEFINE old == calls[h]
             c == CallAt(step, old.id, old.machine, old.licence, old.old, old.secret, {})
  <1>1. old \in Call /\ Fits(old, minted) /\ minted \in Nat
    BY DEF DInv, TypeOK, CallsFit
  <1>2. c \in Call
    BY <1>1 DEF Call, CallAt, Steps, Enrolling
  <1>3. /\ c.step = step /\ c.id = old.id /\ c.machine = old.machine
        /\ c.licence = old.licence /\ c.secret = old.secret
    BY DEF CallAt
  <1> HIDE DEF c
  <1>4. Fits(c, minted')
    BY <1>1, <1>3 DEF Fits, Enrolling
  <1>5. Go(h, c)
    BY DEF Proceed, c
  <1> QED
    BY <1>1, <1>2, <1>4, <1>5, CallSet

LEMMA Ends ==
    ASSUME DInv, NEW h \in Handlers, End(h), UNCHANGED minted
    PROVE  /\ calls' \in [Handlers -> Call]
           /\ CallsFit'
           /\ \A g \in Handlers : calls'[g].step # "idle" =>
                calls'[g].id \in Ids /\ calls'[g].machine \in Machines
           /\ outdated' \subseteq Handlers
  <1>1. minted \in Nat
    BY DEF DInv, TypeOK
  <1> QED
    BY <1>1, IdleFits, CallSet DEF End, DInv, TypeOK

CallsTyped ==
    /\ calls \in [Handlers -> Call]
    /\ \A h \in Handlers : calls[h].step # "idle" =>
         calls[h].id \in Ids /\ calls[h].machine \in Machines

(* The types of everything but the calls.                                   *)
Rest ==
    /\ inForce \in [Licences -> BOOLEAN]
    /\ activations \subseteq Licences \X Machines
    /\ deployments \in [Ids -> Row]
    /\ commands \in [Commands -> Command]
    /\ held \in [Machines -> [Ids -> Nat]]
    /\ received \subseteq Commands
    /\ minted \in Nat
    /\ \A d \in Ids : deployments[d] = Absent \/ deployments[d].secret \in 1..minted
    /\ lost \subseteq Commands
    /\ outdated \subseteq Handlers
    /\ orderly \subseteq Machines
    /\ mishaps \in Nat

LEMMA Assemble ==
    (CallsTyped /\ Rest) <=> TypeOK
  BY DEF CallsTyped, Rest, TypeOK

LEMMA AssembleNext ==
    ASSUME CallsTyped', CallsFit', Rest'
    PROVE  DInv'
  BY DEF CallsTyped, Rest, TypeOK, DInv

LEMMA MishapTyped ==
    ASSUME mishaps \in Nat, Mishap
    PROVE  mishaps' \in Nat
  BY DEF Mishap

(* A row is written with a secret there is.                                 *)
LEMMA RowWritten ==
    ASSUME Rest, NEW d \in Ids, NEW row \in Row, WriteRow(d, row), minted' \in Nat,
           minted <= minted', row.secret \in 1..minted'
    PROVE  /\ deployments' \in [Ids -> Row]
           /\ \A i \in Ids : deployments'[i] = Absent \/ deployments'[i].secret \in 1..minted'
  <1>1. deployments' \in [Ids -> Row]
    BY DEF Rest, WriteRow
  <1>2. ASSUME NEW i \in Ids
        PROVE  deployments'[i] = Absent \/ deployments'[i].secret \in 1..minted'
    <2>1. deployments'[i] = IF i = d THEN row ELSE deployments[i]
      BY DEF Rest, WriteRow
    <2>2. deployments[i] \in Row
      BY DEF Rest
    <2> QED
      BY <2>1, <2>2 DEF Rest, Row
  <1> QED
    BY <1>1, <1>2

LEMMA EnrolmentInv ==
    ASSUME DeploymentParameters, DInv, NEW h \in Handlers,
           \/ \E d \in Ids, m \in Machines, l \in Licences : Enrol(h, d, m, l)
           \/ Renew(h) \/ Insert(h) \/ Find(h) \/ Free(h) \/ Upsert(h) \/ Tell(h)
    PROVE  DInv'
  <1> DEFINE c == calls[h]
  <1>1. Rest /\ c \in Call /\ Fits(c, minted)
    BY Assemble DEF DInv, CallsFit, TypeOK
  <1>2. ASSUME NEW d \in Ids, NEW m \in Machines, NEW l \in Licences, Enrol(h, d, m, l)
        PROVE  DInv'
    <2>1. PICK step \in {"renew", "insert"} : Go(h, CallAt(step, d, m, l, None, 0, {}))
      BY <1>2 DEF Enrol
    <2> DEFINE n == CallAt(step, d, m, l, None, 0, {})
    <2>2. n \in Call /\ Fits(n, minted)
      BY DEF Call, CallAt, Steps, Fits, Enrolling
    <2>3. minted' = minted /\ minted \in Nat
      BY <1>1, <1>2 DEF Enrol, Rest
    <2> HIDE DEF n
    <2>4. CallsFit' /\ CallsTyped'
      BY <2>1, <2>2, <2>3, CallSet DEF n, CallsTyped
    <2>5. Rest'
      BY <1>1, <1>2 DEF Enrol, Rest, tableVars, siteVars
    <2> QED
      BY <2>4, <2>5, AssembleNext
  <1>3. CASE Renew(h)
    <2>1. c.step \in Enrolling /\ UNCHANGED minted
      BY <1>3 DEF Renew, Enrolling
    <2>2. CallsFit' /\ CallsTyped' /\ outdated' \subseteq Handlers
      <3>1. CASE Proceed(h, "find") /\ UNCHANGED outdated
        <4>1. "find" \in Enrolling \ {"free"} /\ "find" \notin {"upsert", "tell"}
          BY DEF Enrolling
        <4> QED
          BY <1>1, <2>1, <3>1, <4>1, Proceeds DEF CallsTyped, Rest
      <3>2. CASE End(h)
        BY <2>1, <3>2, Ends DEF CallsTyped
      <3> QED
        BY <1>3, <3>1, <3>2 DEF Renew
    <2>3. Rest'
      BY <1>1, <1>3, <2>2 DEF Renew, Rest, tableVars, siteVars
    <2> QED
      BY <2>2, <2>3, AssembleNext
  <1>4. CASE Insert(h)
    <2>1. c.step = "insert" /\ c.step \in Enrolling /\ UNCHANGED minted
      BY <1>4 DEF Insert, Enrolling
    <2>2. c.licence \in Licences /\ c.machine \in Machines
      BY <1>1, <2>1 DEF Fits, Enrolling
    <2>3. CallsFit' /\ CallsTyped' /\ outdated' \subseteq Handlers
      <3>1. CASE Proceed(h, "find") /\ UNCHANGED outdated
        <4>1. "find" \in Enrolling \ {"free"} /\ "find" \notin {"upsert", "tell"}
          BY DEF Enrolling
        <4> QED
          BY <1>1, <2>1, <3>1, <4>1, Proceeds DEF CallsTyped, Rest
      <3>2. CASE End(h)
        BY <2>1, <3>2, Ends DEF CallsTyped
      <3> QED
        BY <1>4, <3>1, <3>2 DEF Insert
    <2>4. activations' \subseteq Licences \X Machines
      BY <1>1, <1>4, <2>2 DEF Insert, Rest
    <2>5. Rest'
      BY <1>1, <1>4, <2>3, <2>4 DEF Insert, Rest, siteVars
    <2> QED
      BY <2>3, <2>5, AssembleNext
  <1>5. CASE Find(h)
    <2>1. c.step = "find" /\ c.id \in Ids /\ c.machine \in Machines /\ c.licence \in Licences
      BY <1>1, <1>5 DEF Find, Fits, Enrolling
    <2>2. minted' \in Nat /\ minted <= minted' /\ CallsFit' /\ CallsTyped' /\ outdated' \subseteq Handlers
      <3>1. CASE End(h) /\ UNCHANGED minted
        BY <1>1, <3>1, Ends DEF CallsTyped, Rest
      <3>2. CASE ~(End(h) /\ UNCHANGED minted)
        <4> DEFINE row == deployments[c.id]
                   old == IF row.licence # c.licence THEN row.licence ELSE None
        <4>1. PICK s \in 1..MaxSecrets :
                 /\ Mint(s)
                 /\ Go(h, CallAt(IF old # None THEN "free" ELSE "upsert",
                                 c.id, c.machine, c.licence, old, s, {}))
                 /\ UNCHANGED outdated
          BY <1>5, <3>2 DEF Find
        <4>2. row \in Row /\ MaxSecrets \in Nat
          BY <1>1, <2>1 DEF Rest, DeploymentParameters
        <4>3. old \in Licences \cup {None} /\ (old # None => old \in Licences \ {c.licence})
          BY <4>2 DEF Row
        <4>4. s \in Nat /\ minted' = s /\ s = minted + 1 /\ minted \in Nat
          BY <1>1, <4>1, <4>2 DEF Mint, Rest
        <4> HIDE DEF old
        <4> DEFINE n == CallAt(IF old # None THEN "free" ELSE "upsert",
                               c.id, c.machine, c.licence, old, s, {})
        <4>5. n \in Call /\ Fits(n, s)
          BY <2>1, <4>3, <4>4 DEF Call, CallAt, Steps, Fits, Enrolling
        <4> HIDE DEF n
        <4>6. CallsFit' /\ CallsTyped'
          BY <4>1, <4>4, <4>5, CallSet DEF n, CallsTyped
        <4> QED
          BY <1>1, <4>1, <4>4, <4>6 DEF Rest
      <3> QED
        BY <3>1, <3>2
    <2>3. Rest'
      <3>1. \A d \in Ids : deployments[d] = Absent \/ deployments[d].secret \in 1..minted'
        BY <1>1, <2>2 DEF Rest
      <3> QED
        BY <1>1, <1>5, <2>2, <3>1 DEF Find, Rest, tableVars, siteVars
    <2> QED
      BY <2>2, <2>3, AssembleNext
  <1>6. CASE Free(h)
    <2>1. c.step = "free" /\ c.step \in Enrolling /\ UNCHANGED <<minted, outdated>>
      BY <1>6 DEF Free, Enrolling, historyVars
    <2>2. "upsert" \in Enrolling \ {"free"}
      BY DEF Enrolling
    <2>3. CallsFit' /\ CallsTyped'
      BY <1>6, <2>1, <2>2, Proceeds DEF CallsTyped, Free
    <2>4. Rest'
      BY <1>1, <1>6 DEF Free, Rest, siteVars, historyVars
    <2> QED
      BY <2>3, <2>4, AssembleNext
  <1>7. CASE Upsert(h)
    <2>1. c.step = "upsert" /\ c.step \in Enrolling /\ UNCHANGED minted
      BY <1>7 DEF Upsert, Enrolling
    <2>2. "tell" \in Enrolling \ {"free"}
      BY DEF Enrolling
    <2>3. CallsFit' /\ CallsTyped'
      BY <1>7, <2>1, <2>2, Proceeds DEF CallsTyped, Upsert
    <2> DEFINE row == RowOf("ACTIVE", c.licence, c.machine, c.secret)
    <2>4. c.id \in Ids /\ c.secret \in 1..minted /\ minted \in Nat /\ row \in Row /\ row.secret = c.secret
      BY <1>1, <2>1 DEF Fits, Enrolling, Rest, Row, RowOf, Statuses
    <2>5. WriteRow(c.id, row)
      BY <1>7 DEF Upsert, SecretWritten
    <2> HIDE DEF row
    <2>6. /\ deployments' \in [Ids -> Row]
          /\ \A i \in Ids : deployments'[i] = Absent \/ deployments'[i].secret \in 1..minted'
      BY <1>1, <2>1, <2>4, <2>5, RowWritten
    <2>7. Rest'
      BY <1>1, <1>7, <2>6 DEF Upsert, Rest, siteVars
    <2> QED
      BY <2>3, <2>7, AssembleNext
  <1>8. CASE Tell(h)
    <2>1. c.step = "tell" /\ UNCHANGED minted /\ End(h)
      BY <1>8 DEF Tell
    <2>2. c.id \in Ids /\ c.machine \in Machines /\ c.secret \in Nat
      BY <1>1, <2>1 DEF Fits, Enrolling, Rest
    <2>3. held' \in [Machines -> [Ids -> Nat]]
      BY <1>1, <1>8, <2>2 DEF Tell, Rest
    <2>4. CallsFit' /\ CallsTyped' /\ outdated' \subseteq Handlers
      BY <2>1, Ends DEF CallsTyped
    <2>5. Rest'
      BY <1>1, <1>8, <2>3, <2>4 DEF Tell, Rest, tableVars
    <2> QED
      BY <2>4, <2>5, AssembleNext
  <1> QED
    BY <1>2, <1>3, <1>4, <1>5, <1>6, <1>7, <1>8

LEMMA HeartbeatInv ==
    ASSUME DInv, NEW h \in Handlers,
           \/ \E d \in Ids, m \in Machines : Heartbeat(h, d, m)
           \/ Fetch(h) \/ Mark(h) \/ Answer(h)
    PROVE  DInv'
  <1> DEFINE c == calls[h]
  <1>1. Rest /\ c \in Call /\ Fits(c, minted) /\ minted \in Nat
    BY Assemble DEF DInv, CallsFit, TypeOK
  <1>2. ASSUME NEW step \in {"fetch", "mark", "answer"}, NEW d \in Ids, NEW m \in Machines,
               NEW listed \in SUBSET Commands, UNCHANGED minted,
               Go(h, CallAt(step, d, m, None, None, 0, listed))
        PROVE  CallsFit' /\ CallsTyped'
    <2> DEFINE n == CallAt(step, d, m, None, None, 0, listed)
    <2>1. n \in Call /\ Fits(n, minted)
      BY DEF Call, CallAt, Steps, Fits, Enrolling
    <2> HIDE DEF n
    <2>2. Go(h, n)
      BY <1>2 DEF n
    <2> QED
      BY <1>1, <1>2, <2>1, <2>2, CallSet DEF CallsTyped
  <1>3. ASSUME NEW d \in Ids, NEW m \in Machines, Heartbeat(h, d, m) PROVE DInv'
    <2>1. CallsFit' /\ CallsTyped'
      BY <1>2, <1>3 DEF Heartbeat
    <2>2. Rest'
      BY <1>1, <1>3 DEF Heartbeat, Rest, tableVars, siteVars, historyVars
    <2> QED
      BY <2>1, <2>2, AssembleNext
  <1>4. CASE Fetch(h)
    <2>1. c.step = "fetch" /\ c.id \in Ids /\ c.machine \in Machines /\ UNCHANGED minted
      BY <1>1, <1>4 DEF Fetch, Fits
    <2>2. CallsFit' /\ CallsTyped' /\ outdated' \subseteq Handlers
      <3>1. CASE End(h)
        BY <2>1, <3>1, Ends DEF CallsTyped
      <3>2. CASE Go(h, CallAt("mark", c.id, c.machine, None, None, 0, Pending(c.id))) /\ UNCHANGED outdated
        BY <1>1, <1>2, <2>1, <3>2 DEF Pending, Rest
      <3> QED
        BY <1>4, <3>1, <3>2 DEF Fetch
    <2>3. Rest'
      BY <1>1, <1>4, <2>2 DEF Fetch, Rest, tableVars, siteVars
    <2> QED
      BY <2>2, <2>3, AssembleNext
  <1>5. CASE Mark(h)
    <2>1. /\ c.step = "mark" /\ c.id \in Ids /\ c.machine \in Machines
          /\ c.listed \in SUBSET Commands /\ UNCHANGED minted
      BY <1>1, <1>5 DEF Mark, Fits, Call
    <2>2. CallsFit' /\ CallsTyped'
      BY <1>2, <1>5, <2>1 DEF Mark
    <2>3. \A k \in Commands : [commands[k] EXCEPT !.status = "DELIVERED"] \in Command
      BY <1>1 DEF Rest, Command
    <2>4. commands' \in [Commands -> Command]
      BY <1>1, <1>5, <2>3 DEF Mark, Rest
    <2>5. Rest'
      BY <1>1, <1>5, <2>4 DEF Mark, Rest, siteVars, historyVars
    <2> QED
      BY <2>2, <2>5, AssembleNext
  <1>6. CASE Answer(h)
    <2>1. End(h) /\ UNCHANGED minted /\ received' \subseteq Commands
      BY <1>1, <1>6 DEF Answer, Rest, Call
    <2>2. CallsFit' /\ CallsTyped' /\ outdated' \subseteq Handlers
      BY <2>1, Ends DEF CallsTyped
    <2>3. Rest'
      BY <1>1, <1>6, <2>1, <2>2 DEF Answer, Rest, tableVars
    <2> QED
      BY <2>2, <2>3, AssembleNext
  <1> QED
    BY <1>3, <1>4, <1>5, <1>6

LEMMA SetStatusRow ==
    ASSUME Rest, NEW d \in Ids, NEW status \in Statuses, SetStatus(d, status)
    PROVE  /\ deployments' \in [Ids -> Row]
           /\ \A i \in Ids : deployments'[i] = Absent \/ deployments'[i].secret \in 1..minted'
           /\ outdated' \subseteq Handlers
  <1> DEFINE row == [deployments[d] EXCEPT !.status = status]
  <1>1. deployments[d] \in Row /\ deployments[d].secret \in 1..minted
    BY DEF SetStatus, Exists, Rest
  <1>2. row \in Row /\ row.secret = deployments[d].secret
    BY <1>1 DEF Row
  <1>3. WriteRow(d, row)
    BY DEF SetStatus
  <1> HIDE DEF row
  <1>4. minted' \in Nat /\ minted <= minted' /\ minted' = minted
    BY DEF SetStatus, Rest
  <1> QED
    BY <1>1, <1>2, <1>3, <1>4, RowWritten DEF SetStatus, Rest

LEMMA OtherInv ==
    ASSUME DeploymentParameters, DInv,
           \/ \E h \in Handlers : CallFails(h)
           \/ \E d \in Ids, m \in Machines, s \in 1..MaxSecrets :
                AutoRegister(d, m, s) \/ \E l \in Licences \cup {None} : Register(d, l, m, s)
           \/ \E d \in Ids : Kill(d) \/ \E status \in Statuses : SetByHand(d, status)
           \/ \E l \in Licences : SetInForce(l) \/ \E m \in Machines : Deactivate(l, m)
           \/ \E c \in Commands, d \in Ids : Enqueue(c, d)
    PROVE  DInv'
  <1>1. Rest /\ minted \in Nat /\ calls \in [Handlers -> Call]
    BY Assemble DEF DInv, TypeOK
  <1>2. ASSUME UNCHANGED calls, minted' \in Nat, minted <= minted' PROVE CallsFit' /\ CallsTyped'
    BY <1>2, CallsKept DEF CallsTyped
  <1>3. ASSUME NEW h \in Handlers, CallFails(h) PROVE DInv'
    <2>1. CallsFit' /\ CallsTyped' /\ outdated' \subseteq Handlers
      BY <1>3, Ends DEF CallFails, CallsTyped
    <2>2. lost' \subseteq Commands /\ mishaps' \in Nat
      BY <1>1, <1>3, MishapTyped DEF CallFails, Rest, Call
    <2>3. Rest'
      BY <1>1, <1>3, <2>1, <2>2 DEF CallFails, Rest, tableVars, siteVars
    <2> QED
      BY <2>1, <2>3, AssembleNext
  <1>4. ASSUME NEW d \in Ids, NEW l \in Licences \cup {None}, NEW m \in Machines \cup {None},
               NEW s \in 1..MaxSecrets, Mint(s), WriteRow(d, RowOf("ACTIVE", l, m, s))
        PROVE  /\ deployments' \in [Ids -> Row]
               /\ \A i \in Ids : deployments'[i] = Absent \/ deployments'[i].secret \in 1..minted'
               /\ minted' \in Nat /\ minted <= minted' /\ s \in Nat
    <2> DEFINE row == RowOf("ACTIVE", l, m, s)
    <2>1. s \in Nat /\ minted' = s /\ s = minted + 1
      BY <1>1, <1>4 DEF Mint, DeploymentParameters
    <2>2. row \in Row /\ row.secret = s
      BY <2>1 DEF RowOf, Row, Statuses
    <2>3. WriteRow(d, row)
      BY <1>4
    <2> HIDE DEF row
    <2> QED
      BY <1>1, <2>1, <2>2, <2>3, RowWritten
  <1>5. ASSUME NEW d \in Ids, NEW m \in Machines, NEW s \in 1..MaxSecrets, AutoRegister(d, m, s)
        PROVE  DInv'
    <2>1. /\ deployments' \in [Ids -> Row]
          /\ \A i \in Ids : deployments'[i] = Absent \/ deployments'[i].secret \in 1..minted'
          /\ minted' \in Nat /\ minted <= minted'
      BY <1>4, <1>5 DEF AutoRegister
    <2>2. CallsFit' /\ CallsTyped'
      BY <1>2, <1>5, <2>1 DEF AutoRegister
    <2>3. Rest'
      BY <1>1, <1>5, <2>1 DEF AutoRegister, Rest, siteVars
    <2> QED
      BY <2>2, <2>3, AssembleNext
  <1>6. ASSUME NEW d \in Ids, NEW l \in Licences \cup {None}, NEW m \in Machines,
               NEW s \in 1..MaxSecrets, Register(d, l, m, s)
        PROVE  DInv'
    <2>1. /\ deployments' \in [Ids -> Row]
          /\ \A i \in Ids : deployments'[i] = Absent \/ deployments'[i].secret \in 1..minted'
          /\ minted' \in Nat /\ minted <= minted' /\ s \in Nat
      BY <1>4, <1>6 DEF Register
    <2>2. held' \in [Machines -> [Ids -> Nat]]
      BY <1>1, <1>6, <2>1 DEF Register, Rest
    <2>3. CallsFit' /\ CallsTyped'
      BY <1>2, <1>6, <2>1 DEF Register
    <2>4. Rest'
      BY <1>1, <1>6, <2>1, <2>2 DEF Register, Rest
    <2> QED
      BY <2>3, <2>4, AssembleNext
  <1>7. ASSUME NEW d \in Ids, NEW status \in Statuses, SetStatus(d, status), mishaps' \in Nat
        PROVE  DInv'
    <2>1. /\ deployments' \in [Ids -> Row]
          /\ \A i \in Ids : deployments'[i] = Absent \/ deployments'[i].secret \in 1..minted'
          /\ outdated' \subseteq Handlers
      BY <1>1, <1>7, SetStatusRow
    <2>2. CallsFit' /\ CallsTyped'
      BY <1>1, <1>2, <1>7 DEF SetStatus
    <2>3. Rest'
      BY <1>1, <1>7, <2>1 DEF SetStatus, Rest, siteVars
    <2> QED
      BY <2>2, <2>3, AssembleNext
  <1>8. ASSUME NEW d \in Ids, Kill(d) PROVE DInv'
    BY <1>1, <1>7, <1>8 DEF Kill, Rest, Statuses
  <1>9. ASSUME NEW d \in Ids, NEW status \in Statuses, SetByHand(d, status) PROVE DInv'
    BY <1>1, <1>7, <1>9, MishapTyped DEF SetByHand, Rest
  <1>10. ASSUME NEW l \in Licences, SetInForce(l) PROVE DInv'
    <2>1. CallsFit' /\ CallsTyped'
      BY <1>1, <1>2, <1>10 DEF SetInForce
    <2>2. mishaps' \in Nat /\ inForce' \in [Licences -> BOOLEAN]
      BY <1>1, <1>10, MishapTyped DEF SetInForce, Rest
    <2>3. Rest'
      BY <1>1, <1>10, <2>2 DEF SetInForce, Rest, siteVars, historyVars
    <2> QED
      BY <2>1, <2>3, AssembleNext
  <1>11. ASSUME NEW l \in Licences, NEW m \in Machines, Deactivate(l, m) PROVE DInv'
    <2>1. CallsFit' /\ CallsTyped'
      BY <1>1, <1>2, <1>11 DEF Deactivate
    <2>2. mishaps' \in Nat
      BY <1>1, <1>11, MishapTyped DEF Deactivate, Rest
    <2>3. Rest'
      BY <1>1, <1>11, <2>2 DEF Deactivate, Rest, siteVars
    <2> QED
      BY <2>1, <2>3, AssembleNext
  <1>12. ASSUME NEW c \in Commands, NEW d \in Ids, Enqueue(c, d) PROVE DInv'
    <2>1. CallsFit' /\ CallsTyped'
      BY <1>1, <1>2, <1>12 DEF Enqueue
    <2>2. commands' \in [Commands -> Command]
      BY <1>1, <1>12 DEF Enqueue, Rest, Command
    <2>3. Rest'
      BY <1>1, <1>12, <2>2 DEF Enqueue, Rest, siteVars, historyVars
    <2> QED
      BY <2>1, <2>3, AssembleNext
  <1> QED
    BY <1>3, <1>5, <1>6, <1>8, <1>9, <1>10, <1>11, <1>12

LEMMA DInvNext ==
    ASSUME DeploymentParameters, DInv, [Next]_vars
    PROVE  DInv'
  <1>1. CASE UNCHANGED vars
    BY <1>1 DEF DInv, TypeOK, CallsFit, vars, tableVars, siteVars, historyVars
  <1>2. ASSUME NEW h \in Handlers, HandlerStep(h) PROVE DInv'
    BY <1>2, EnrolmentInv, HeartbeatInv, OtherInv DEF HandlerStep
  <1>3. CASE Next
    BY <1>2, <1>3, OtherInv DEF Next
  <1> QED
    BY <1>1, <1>3

LEMMA AlwaysDInv ==
    ASSUME DeploymentParameters
    PROVE  Spec => []DInv
  BY DInvInit, DInvNext, PTL DEF Spec

(* The tables and what every handler holds keep their types, for any number *)
(* of handlers, machines and deployments; no deployment has a row without a *)
(* secret.                                                                  *)
THEOREM DeploymentTypes ==
    ASSUME DeploymentParameters
    PROVE  Spec => []TypeOK
  <1>1. DInv => TypeOK
    BY DEF DInv
  <1> QED
    BY <1>1, AlwaysDInv, PTL

-----------------------------------------------------------------------------
(* Who may write a deployment. *)

(* What an enrolment looked up still stands as long as it is not outdated.  *)
FoundStands ==
    \A h \in Handlers \ outdated : calls[h].step \in {"free", "upsert"} =>
      ~Refused(deployments[calls[h].id], calls[h].machine, calls[h].licence)

(* Deployments change by an enrolment's upsert, by a row's creation, or in  *)
(* their status only; and whoever had looked one up is then outdated.       *)
LEMMA RowSteps ==
    ASSUME TypeOK, Next
    PROVE  \/ UNCHANGED deployments
           \/ \E h \in Handlers : Upsert(h)
           \/ /\ UNCHANGED calls
              /\ \E d \in Ids : \E row :
                   /\ WriteRow(d, row)
                   /\ ~Exists(d) \/ row.machine = deployments[d].machine
                   /\ outdated' = outdated \cup {h \in Handlers : LookedUp(h, d)}
  <1>1. ASSUME NEW h \in Handlers, HandlerStep(h) PROVE UNCHANGED deployments \/ Upsert(h)
    BY <1>1 DEF HandlerStep, Heartbeat, Enrol, Renew, Insert, Find, Free, Tell, Fetch, Mark,
                Answer, CallFails, tableVars
  <1>2. ASSUME NEW d \in Ids, NEW status \in Statuses, SetStatus(d, status)
        PROVE  /\ UNCHANGED calls
               /\ WriteRow(d, [deployments[d] EXCEPT !.status = status])
               /\ [deployments[d] EXCEPT !.status = status].machine = deployments[d].machine
               /\ outdated' = outdated \cup {h \in Handlers : LookedUp(h, d)}
    BY <1>2 DEF SetStatus, TypeOK, Row
  <1>3. ASSUME NEW d \in Ids, Kill(d) \/ \E status \in Statuses : SetByHand(d, status)
        PROVE  \E status \in Statuses : SetStatus(d, status)
    BY <1>3 DEF Kill, SetByHand, Statuses
  <1>4. ASSUME NEW d \in Ids, NEW m \in Machines, NEW s \in 1..MaxSecrets, AutoRegister(d, m, s)
        PROVE  /\ UNCHANGED calls /\ ~Exists(d)
               /\ WriteRow(d, RowOf("ACTIVE", None, m, s))
               /\ outdated' = outdated \cup {h \in Handlers : LookedUp(h, d)}
    BY <1>4 DEF AutoRegister
  <1>5. ASSUME NEW d \in Ids, NEW m \in Machines, NEW s \in 1..MaxSecrets,
               NEW l \in Licences \cup {None}, Register(d, l, m, s)
        PROVE  /\ UNCHANGED calls /\ ~Exists(d)
               /\ WriteRow(d, RowOf("ACTIVE", l, None, s))
               /\ outdated' = outdated \cup {h \in Handlers : LookedUp(h, d)}
    BY <1>5 DEF Register
  <1>6. ASSUME \/ \E l \in Licences : SetInForce(l) \/ \E m \in Machines : Deactivate(l, m)
               \/ \E c \in Commands, d \in Ids : Enqueue(c, d)
        PROVE  UNCHANGED deployments
    BY <1>6 DEF SetInForce, Deactivate, Enqueue
  <1> QED
    BY <1>1, <1>2, <1>3, <1>4, <1>5, <1>6 DEF Next

(* How the calls that have looked a deployment up come about and go on.     *)
LEMMA LookUpSteps ==
    ASSUME DInv, Next, NEW h \in Handlers, calls'[h].step \in {"free", "upsert"}, h \notin outdated'
    PROVE  /\ h \notin outdated
           /\ \/ calls'[h] = calls[h]
              \/ Find(h) /\ ~Refused(deployments[calls[h].id], calls[h].machine, calls[h].licence)
              \/ Free(h)
           /\ calls'[h].id = calls[h].id
           /\ calls'[h].machine = calls[h].machine
           /\ calls'[h].licence = calls[h].licence
  <1>1. calls \in [Handlers -> Call] /\ CallsFit
    BY DEF DInv, TypeOK
  <1>2. ASSUME NEW g \in Handlers, NEW c, Go(g, c)
        PROVE  calls'[g] = c /\ \A f \in Handlers \ {g} : calls'[f] = calls[f]
    BY <1>1, <1>2 DEF Go
  <1>3. ASSUME NEW g \in Handlers, End(g)
        PROVE  g # h /\ calls'[h] = calls[h] /\ h \notin outdated
    <2>1. Idle.step = "idle"
      BY IdleFits
    <2> QED
      BY <1>2, <1>3, <2>1 DEF End
  <1>4. ASSUME NEW g \in Handlers, NEW step, Proceed(g, step)
        PROVE  /\ calls'[g].step = step /\ calls'[g].id = calls[g].id
               /\ calls'[g].machine = calls[g].machine /\ calls'[g].licence = calls[g].licence
               /\ \A f \in Handlers \ {g} : calls'[f] = calls[f]
    BY <1>2, <1>4 DEF Proceed, CallAt
  <1> DEFINE Goal == /\ h \notin outdated
                     /\ \/ calls'[h] = calls[h]
                        \/ /\ Find(h)
                           /\ ~Refused(deployments[calls[h].id], calls[h].machine, calls[h].licence)
                        \/ Free(h)
                     /\ calls'[h].id = calls[h].id
                     /\ calls'[h].machine = calls[h].machine
                     /\ calls'[h].licence = calls[h].licence
  <1>5. ASSUME NEW g \in Handlers, End(g) PROVE Goal
    BY <1>3, <1>5
  <1>6. ASSUME NEW g \in Handlers, NEW step \in {"renew", "insert", "find", "tell", "fetch", "mark", "answer"},
               calls'[g].step = step, \A f \in Handlers \ {g} : calls'[f] = calls[f],
               h \notin outdated
        PROVE  Goal
    BY <1>6
  <1>7. ASSUME UNCHANGED calls, h \notin outdated PROVE Goal
    BY <1>7
  <1>8. ASSUME NEW g \in Handlers, NEW step \in {"renew", "insert", "fetch", "mark", "answer"},
               NEW d, NEW m, NEW l, NEW listed,
               Go(g, CallAt(step, d, m, l, None, 0, listed)), UNCHANGED outdated
        PROVE  Goal
    BY <1>2, <1>6, <1>8 DEF CallAt
  <1>9. ASSUME NEW g \in Handlers, HandlerStep(g) PROVE Goal
    <2>1. ASSUME NEW d \in Ids, NEW m \in Machines, Heartbeat(g, d, m) PROVE Goal
      BY <1>8, <2>1 DEF Heartbeat, historyVars
    <2>2. ASSUME NEW d \in Ids, NEW m \in Machines, NEW l \in Licences, Enrol(g, d, m, l) PROVE Goal
      <3>1. PICK step \in {"renew", "insert"} : Go(g, CallAt(step, d, m, l, None, 0, {}))
        BY <2>2 DEF Enrol
      <3> QED
        BY <1>8, <2>2, <3>1 DEF Enrol
    <2>3. ASSUME Proceed(g, "find"), UNCHANGED outdated PROVE Goal
      BY <1>4, <1>6, <2>3
    <2>4. CASE Renew(g)
      BY <1>5, <2>3, <2>4 DEF Renew
    <2>5. CASE Insert(g)
      BY <1>5, <2>3, <2>5 DEF Insert
    <2>6. CASE Find(g)
      <3>1. CASE End(g)
        BY <1>5, <3>1
      <3>2. CASE ~End(g)
        <4> DEFINE c == calls[g]
                   row == deployments[c.id]
                   old == IF row.licence # c.licence THEN row.licence ELSE None
        <4>1. /\ ~Refused(row, c.machine, c.licence) /\ UNCHANGED outdated
              /\ \E s \in 1..MaxSecrets :
                   Go(g, CallAt(IF old # None THEN "free" ELSE "upsert",
                                c.id, c.machine, c.licence, old, s, {}))
          BY <2>6, <3>2 DEF Find
        <4>2. /\ calls'[g].id = c.id /\ calls'[g].machine = c.machine
              /\ calls'[g].licence = c.licence
              /\ \A f \in Handlers \ {g} : calls'[f] = calls[f]
          BY <1>2, <4>1 DEF CallAt
        <4> HIDE DEF old
        <4> QED
          BY <2>6, <4>1, <4>2
      <3> QED
        BY <3>1, <3>2
    <2>7. CASE Free(g)
      BY <1>4, <2>7 DEF Free, historyVars
    <2>8. CASE Upsert(g)
      <3>1. h \notin outdated \/ h = g
        BY <2>8 DEF Upsert
      <3> QED
        BY <1>4, <1>6, <2>8, <3>1 DEF Upsert
    <2>9. CASE Tell(g)
      BY <1>5, <2>9 DEF Tell
    <2>10. CASE Fetch(g)
      BY <1>5, <1>8, <2>10 DEF Fetch
    <2>11. CASE Mark(g)
      BY <1>8, <2>11 DEF Mark, historyVars
    <2>12. CASE Answer(g)
      BY <1>5, <2>12 DEF Answer
    <2>13. CASE CallFails(g)
      BY <1>5, <2>13 DEF CallFails
    <2> QED
      BY <1>9, <2>1, <2>2, <2>4, <2>5, <2>6, <2>7, <2>8, <2>9, <2>10, <2>11, <2>12, <2>13
      DEF HandlerStep
  <1>10. ASSUME Next, ~\E g \in Handlers : HandlerStep(g)
         PROVE  UNCHANGED calls /\ h \notin outdated
    BY <1>10 DEF Next, AutoRegister, Register, Kill, SetByHand, SetStatus, SetInForce,
                 Deactivate, Enqueue, historyVars
  <1> QED
    BY <1>7, <1>9, <1>10

LEMMA FoundNext ==
    ASSUME DInv, FoundStands, [Next]_vars
    PROVE  FoundStands'
  <1>1. CASE UNCHANGED vars
    BY <1>1 DEF FoundStands, vars, tableVars, historyVars, Refused, Taken, Stopped
  <1>2. ASSUME Next, NEW h \in Handlers \ outdated', calls'[h].step \in {"free", "upsert"}
        PROVE  ~Refused(deployments'[calls'[h].id], calls'[h].machine, calls'[h].licence)
    <2> DEFINE d == calls[h].id
    <2>1. /\ h \notin outdated
          /\ calls'[h].id = d
          /\ calls'[h].machine = calls[h].machine /\ calls'[h].licence = calls[h].licence
      BY <1>2, LookUpSteps
    <2>2. \/ calls'[h] = calls[h]
          \/ Find(h) /\ ~Refused(deployments[d], calls[h].machine, calls[h].licence)
          \/ Free(h)
      BY <1>2, LookUpSteps
    <2>3. ~Refused(deployments[d], calls[h].machine, calls[h].licence)
      BY <1>2, <2>1, <2>2 DEF FoundStands, Free
    <2>4. deployments'[d] = deployments[d]
      <3>1. CASE UNCHANGED deployments
        BY <3>1
      <3>2. ASSUME NEW g \in Handlers, Upsert(g) PROVE deployments'[d] = deployments[d]
        <4>1. calls'[h].step # "tell"
          BY <1>2
        <4>2. h # g
          BY <3>2, <4>1 DEF Upsert, Proceed, Go, CallAt, DInv, TypeOK
        <4>3. calls'[h] = calls[h]
          BY <3>2, <4>2 DEF Upsert, Proceed, Go, DInv, TypeOK
        <4>4. ~LookedUp(h, calls[g].id)
          BY <1>2, <3>2, <4>2 DEF Upsert
        <4>5. d # calls[g].id
          BY <1>2, <4>3, <4>4 DEF LookedUp
        <4> QED
          BY <3>2, <4>5 DEF Upsert, WriteRow, DInv, TypeOK
      <3>3. ASSUME UNCHANGED calls, NEW e \in Ids, NEW row, WriteRow(e, row),
                   outdated' = outdated \cup {g \in Handlers : LookedUp(g, e)}
            PROVE  deployments'[d] = deployments[d]
        <4>1. ~LookedUp(h, e) /\ calls[h].step \in {"free", "upsert"}
          BY <1>2, <3>3
        <4> QED
          BY <3>3, <4>1 DEF LookedUp, WriteRow, DInv, TypeOK
      <3> QED
        BY <1>2, <3>1, <3>2, <3>3, RowSteps DEF DInv
    <2> QED
      BY <2>1, <2>3, <2>4
  <1> QED
    BY <1>1, <1>2 DEF FoundStands

LEMMA AlwaysFound ==
    ASSUME DeploymentParameters
    PROVE  Spec => [](DInv /\ FoundStands)
  <1>1. Init => FoundStands
    BY DEF Init, FoundStands, Idle, CallAt
  <1> QED
    BY <1>1, DInvInit, DInvNext, FoundNext, PTL DEF Spec

(* An upsert by a handler that is not outdated meets the deployment it may  *)
(* write.                                                                   *)
LEMMA UpsertFinds ==
    ASSUME DInv, FoundStands, NEW h \in Handlers, Upsert(h), NEW d \in Ids,
           deployments'[d] # deployments[d]
    PROVE  /\ calls'[h] # calls[h] /\ calls[h].id = d
           /\ deployments'[d].machine = calls[h].machine
           /\ h \in outdated \/ ~Refused(deployments[d], calls[h].machine, calls[h].licence)
  <1>1. calls[h].step = "upsert" /\ calls'[h].step = "tell"
    BY DEF Upsert, Proceed, Go, CallAt, DInv, TypeOK
  <1>2. calls[h].id = d
    BY DEF Upsert, WriteRow, DInv, TypeOK
  <1>3. deployments'[d].machine = calls[h].machine
    BY <1>2 DEF Upsert, WriteRow, RowOf, DInv, TypeOK
  <1> QED
    BY <1>1, <1>2, <1>3 DEF FoundStands

LEMMA KillsNext ==
    ASSUME DInv, FoundStands, [Next]_vars
    PROVE  [\A d \in Ids : Stopped(deployments[d]) /\ ~Stopped(deployments'[d]) /\ calls' # calls =>
              \E h \in outdated : calls'[h] # calls[h] /\ calls[h].id = d]_vars
  <1>1. CASE UNCHANGED vars
    BY <1>1
  <1>2. ASSUME Next, NEW d \in Ids, Stopped(deployments[d]), ~Stopped(deployments'[d]), calls' # calls
        PROVE  \E h \in outdated : calls'[h] # calls[h] /\ calls[h].id = d
    <2>1. PICK h \in Handlers : Upsert(h)
      BY <1>2, RowSteps DEF DInv
    <2>2. deployments'[d] # deployments[d]
      BY <1>2 DEF Stopped
    <2>3. deployments[d] # Absent
      BY <1>2 DEF Stopped, Absent, RowOf
    <2> QED
      BY <1>2, <2>1, <2>2, <2>3, UpsertFinds DEF Refused
  <1> QED
    BY <1>1, <1>2

(* A killed or revoked deployment comes back, other than by hand, only      *)
(* through an enrolment that looked it up before it changed; every later    *)
(* one is refused, however many are in flight.                              *)
THEOREM KillsHold ==
    ASSUME DeploymentParameters
    PROVE  Spec => KillsStick
  BY AlwaysFound, KillsNext, PTL DEF Spec, KillsStick

LEMMA MachinesNext ==
    ASSUME DInv, FoundStands, [Next]_vars
    PROVE  [\A d \in Ids : deployments[d].machine \notin {None, deployments'[d].machine} =>
              \E h \in outdated : calls'[h] # calls[h] /\ calls[h].id = d]_vars
  <1>1. CASE UNCHANGED vars
    BY <1>1
  <1>2. ASSUME Next, NEW d \in Ids, deployments[d].machine \notin {None, deployments'[d].machine}
        PROVE  \E h \in outdated : calls'[h] # calls[h] /\ calls[h].id = d
    <2>1. Exists(d)
      BY <1>2 DEF Exists, Absent, RowOf
    <2>2. ASSUME NEW e \in Ids, NEW row, WriteRow(e, row),
                 ~Exists(e) \/ row.machine = deployments[e].machine
          PROVE  FALSE
      BY <1>2, <2>1, <2>2 DEF WriteRow, DInv, TypeOK
    <2>3. PICK h \in Handlers : Upsert(h)
      BY <1>2, <2>2, RowSteps DEF DInv
    <2>4. deployments'[d] # deployments[d]
      BY <1>2
    <2> QED
      BY <1>2, <2>1, <2>3, <2>4, UpsertFinds DEF Refused, Taken, Exists
  <1> QED
    BY <1>1, <1>2

(* A deployment goes from one machine to another only through an enrolment  *)
(* that looked it up before the first machine was on record.                *)
THEOREM MachinesHold ==
    ASSUME DeploymentParameters
    PROVE  Spec => MachinesStay
  BY AlwaysFound, MachinesNext, PTL DEF Spec, MachinesStay

-----------------------------------------------------------------------------
(* Commands. *)

LEMMA CarriedNext ==
    ASSUME DInv, DeliveredIsCarried, [Next]_vars
    PROVE  DeliveredIsCarried'
  <1>1. calls \in [Handlers -> Call]
    BY DEF DInv, TypeOK
  <1> DEFINE Carried(c) == c \in received \cup lost \/
               \E h \in Handlers : calls[h].step = "answer" /\ c \in calls[h].listed
  <1>2. CASE UNCHANGED vars
    BY <1>2 DEF DeliveredIsCarried, vars, tableVars, siteVars, historyVars
  <1>3. ASSUME NEW h \in Handlers, calls[h].step # "answer" \/ calls[h].listed \subseteq received' \cup lost',
               \A g \in Handlers \ {h} : calls'[g] = calls[g],
               received \subseteq received', lost \subseteq lost', UNCHANGED commands
        PROVE  DeliveredIsCarried'
    BY <1>3 DEF DeliveredIsCarried
  <1>4. ASSUME NEW g \in Handlers, NEW c, Go(g, c)
        PROVE  \A f \in Handlers \ {g} : calls'[f] = calls[f]
    BY <1>1, <1>4 DEF Go
  <1>5. ASSUME NEW h \in Handlers,
               \/ \E d \in Ids, m \in Machines : Heartbeat(h, d, m) \/ \E l \in Licences : Enrol(h, d, m, l)
               \/ Renew(h) \/ Insert(h) \/ Find(h) \/ Free(h) \/ Upsert(h) \/ Tell(h) \/ Fetch(h)
        PROVE  DeliveredIsCarried'
    <2>1. calls[h].step # "answer"
      BY <1>5, IdleFits DEF Heartbeat, Enrol, Renew, Insert, Find, Free, Upsert, Tell, Fetch
    <2>2. UNCHANGED <<received, lost, commands>>
      BY <1>5 DEF Heartbeat, Enrol, Renew, Insert, Find, Free, Upsert, Tell, Fetch, tableVars,
                  siteVars, historyVars
    <2>3. \A g \in Handlers \ {h} : calls'[g] = calls[g]
      BY <1>4, <1>5 DEF Heartbeat, Enrol, Renew, Insert, Find, Free, Upsert, Tell, Fetch,
                        Proceed, End
    <2> QED
      BY <1>3, <2>1, <2>2, <2>3
  <1>6. ASSUME NEW h \in Handlers, Mark(h) PROVE DeliveredIsCarried'
    <2> DEFINE n == CallAt("answer", calls[h].id, calls[h].machine, None, None, 0, calls[h].listed)
    <2>1. n.step = "answer" /\ n.listed = calls[h].listed
      BY DEF CallAt
    <2>2. Go(h, n) /\ calls[h].step = "mark"
      BY <1>6 DEF Mark
    <2> HIDE DEF n
    <2>3. calls'[h] = n
      BY <1>1, <2>2 DEF Go
    <2>4. UNCHANGED <<received, lost>>
      BY <1>6 DEF Mark, siteVars, historyVars
    <2>5. ASSUME NEW c \in Commands, commands'[c].status = "DELIVERED"
          PROVE  c \in calls[h].listed \/ commands[c].status = "DELIVERED"
      BY <1>6, <2>5 DEF Mark, Found
    <2> QED
      BY <1>4, <2>1, <2>2, <2>3, <2>4, <2>5 DEF DeliveredIsCarried
  <1>7. ASSUME NEW h \in Handlers, Answer(h) \/ CallFails(h) PROVE DeliveredIsCarried'
    <2>1. UNCHANGED commands /\ received \subseteq received' /\ lost \subseteq lost'
      BY <1>7 DEF Answer, CallFails, tableVars, siteVars
    <2>2. calls[h].step # "answer" \/ calls[h].listed \subseteq received' \cup lost'
      BY <1>7 DEF Answer, CallFails
    <2>3. \A g \in Handlers \ {h} : calls'[g] = calls[g]
      BY <1>4, <1>7 DEF Answer, CallFails, End
    <2> QED
      BY <1>3, <2>1, <2>2, <2>3
  <1>8. ASSUME NEW c \in Commands, NEW d \in Ids, Enqueue(c, d) PROVE DeliveredIsCarried'
    <2>1. \A k \in Commands : commands'[k].status = "DELIVERED" => commands[k].status = "DELIVERED"
      BY <1>8 DEF Enqueue, DInv, TypeOK
    <2>2. UNCHANGED <<calls, received, lost>>
      BY <1>8 DEF Enqueue, siteVars, historyVars
    <2> QED
      BY <2>1, <2>2 DEF DeliveredIsCarried
  <1>9. ASSUME UNCHANGED <<calls, received, lost, commands>> PROVE DeliveredIsCarried'
    BY <1>9 DEF DeliveredIsCarried
  <1>10. ASSUME Next, ~\E h \in Handlers : HandlerStep(h), ~\E c \in Commands, d \in Ids : Enqueue(c, d)
         PROVE  UNCHANGED <<calls, received, lost, commands>>
    BY <1>10 DEF Next, AutoRegister, Register, Kill, SetByHand, SetStatus, SetInForce,
                 Deactivate, siteVars, historyVars
  <1>11. ASSUME NEW h \in Handlers, HandlerStep(h) PROVE DeliveredIsCarried'
    BY <1>5, <1>6, <1>7, <1>11 DEF HandlerStep
  <1>12. CASE Next
    BY <1>8, <1>9, <1>10, <1>11, <1>12
  <1> QED
    BY <1>2, <1>12

(* A command that is marked delivered was in an answer, is in one on its    *)
(* way, or was in one that a failure cut off.                               *)
THEOREM CommandsCarried ==
    ASSUME DeploymentParameters
    PROVE  Spec => []DeliveredIsCarried
  <1>1. Init => DeliveredIsCarried
    BY DEF Init, DeliveredIsCarried
  <1> QED
    BY <1>1, AlwaysDInv, CarriedNext, PTL DEF Spec

-----------------------------------------------------------------------------
(* Machines in good order. *)

Enrols(h, m) == calls[h].step \in Enrolling /\ calls[h].machine = m

\* An enrolment that is past its look-up.
Late(h, m) == calls[h].step \in {"free", "upsert", "tell"} /\ calls[h].machine = m

Good(m, d) == <<deployments[d].licence, m>> \in activations /\ Signed(m, d)

(* What is true of a machine that is in good order: its only enrolment is   *)
(* for the deployment it runs, the licence it enters counts it once it is   *)
(* activated, and until the look-up and again after the answer its          *)
(* deployment is counted and signs.                                         *)
Sound(m) ==
    /\ \A g, h \in Handlers : Enrols(g, m) /\ Enrols(h, m) => g = h
    /\ \A d, e \in Ids : deployments[d].machine = m /\ deployments[e].machine = m => d = e
    /\ \A h \in Handlers, d \in Ids :
         Enrols(h, m) /\ deployments[d].machine = m => d = calls[h].id
    /\ \A h \in Handlers : Enrols(h, m) /\ calls[h].step \in {"find", "free", "upsert", "tell"} =>
         <<calls[h].licence, m>> \in activations
    /\ \A h \in Handlers :
         Enrols(h, m) /\ calls[h].step = "tell" /\ deployments[calls[h].id].machine = m =>
           /\ deployments[calls[h].id].licence = calls[h].licence
           /\ deployments[calls[h].id].secret = calls[h].secret
    /\ (\A h \in Handlers : ~Late(h, m)) =>
         \A d \in Ids : deployments[d].machine = m /\ deployments[d].licence # None => Good(m, d)

AllSound == \A m \in orderly : Sound(m)

LEMMA SoundSuffices ==
    ASSUME AllSound, CallsFit, None \notin Machines, orderly \subseteq Machines
    PROVE  RunsCounted /\ CanSign
  <1>1. ASSUME NEW m \in orderly, NEW d \in Ids, deployments[d].machine = m,
               deployments[d].licence # None, ~InFlight(m)
        PROVE  Good(m, d)
    BY <1>1 DEF AllSound, Sound, InFlight, Late
  <1> QED
    BY <1>1 DEF RunsCounted, CanSign, Good

(* A step that does not touch what a machine has and does.                  *)
LEMMA SoundFrame ==
    ASSUME NEW m, Sound(m),
           \A l : <<l, m>> \in activations => <<l, m>> \in activations',
           \A d \in Ids : deployments'[d].machine = m =>
             /\ deployments[d].machine = m
             /\ deployments'[d].licence = deployments[d].licence
             /\ deployments'[d].secret = deployments[d].secret
             /\ held'[m][d] = held[m][d],
           \A h \in Handlers : calls'[h] = calls[h] \/ (~Enrols(h, m) /\ ~Enrols(h, m)'),
           CallsFit
    PROVE  Sound(m)'
  <1>1. ASSUME NEW h \in Handlers, Enrols(h, m)'
        PROVE  /\ calls'[h] = calls[h] /\ Enrols(h, m) /\ calls[h].id \in Ids
    BY <1>1 DEF CallsFit, Fits, Enrols, Enrolling
  <1>2. ASSUME NEW h \in Handlers, Late(h, m) PROVE Late(h, m)'
    BY <1>2 DEF Late, Enrols, Enrolling
  <1>3. \A g, h \in Handlers : Enrols(g, m)' /\ Enrols(h, m)' => g = h
    BY <1>1 DEF Sound
  <1>4. \A d, e \in Ids : deployments'[d].machine = m /\ deployments'[e].machine = m => d = e
    BY DEF Sound
  <1>5. \A h \in Handlers, d \in Ids :
          Enrols(h, m)' /\ deployments'[d].machine = m => d = calls'[h].id
    BY <1>1 DEF Sound
  <1>6. \A h \in Handlers : Enrols(h, m)' /\ calls'[h].step \in {"find", "free", "upsert", "tell"} =>
          <<calls'[h].licence, m>> \in activations'
    BY <1>1 DEF Sound
  <1>7. \A h \in Handlers :
          Enrols(h, m)' /\ calls'[h].step = "tell" /\ deployments'[calls'[h].id].machine = m =>
            /\ deployments'[calls'[h].id].licence = calls'[h].licence
            /\ deployments'[calls'[h].id].secret = calls'[h].secret
    BY <1>1 DEF Sound
  <1>8. (\A h \in Handlers : ~Late(h, m)') =>
          \A d \in Ids : deployments'[d].machine = m /\ deployments'[d].licence # None => Good(m, d)'
    <2>1. ASSUME \A h \in Handlers : ~Late(h, m)', NEW d \in Ids, deployments'[d].machine = m,
                 deployments'[d].licence # None
          PROVE  Good(m, d)'
      <3>1. Good(m, d)
        BY <1>2, <2>1 DEF Sound
      <3> QED
        BY <2>1, <3>1 DEF Good, Signed
    <2> QED
      BY <2>1
  <1> QED
    BY <1>3, <1>4, <1>5, <1>6, <1>7, <1>8 DEF Sound

(* What has to be shown of a step of the machine's own enrolment.           *)
LEMMA SoundOwn ==
    ASSUME NEW m, NEW h \in Handlers,
           \A g \in Handlers \ {h} : ~Enrols(g, m)',
           \A d, e \in Ids : deployments'[d].machine = m /\ deployments'[e].machine = m => d = e,
           Enrols(h, m)' =>
             /\ \A d \in Ids : deployments'[d].machine = m => d = calls'[h].id
             /\ calls'[h].step \in {"find", "free", "upsert", "tell"} =>
                  <<calls'[h].licence, m>> \in activations'
             /\ calls'[h].step = "tell" /\ deployments'[calls'[h].id].machine = m =>
                  /\ deployments'[calls'[h].id].licence = calls'[h].licence
                  /\ deployments'[calls'[h].id].secret = calls'[h].secret,
           Late(h, m)' \/ \A d \in Ids : deployments'[d].machine = m /\ deployments'[d].licence # None =>
                            Good(m, d)'
    PROVE  Sound(m)'
  BY DEF Sound, Enrols, Late, Enrolling

LEMMA SoundEnrol ==
    ASSUME DeploymentParameters, DInv, NEW h \in Handlers, NEW d \in Ids, NEW m \in Machines,
           NEW l \in Licences, Enrol(h, d, m, l), m \in orderly', Sound(m)
    PROVE  Sound(m)'
  <1>1. PICK step \in {"renew", "insert"} : Go(h, CallAt(step, d, m, l, None, 0, {}))
    BY DEF Enrol
  <1>2. /\ calls'[h].step = step /\ calls'[h].id = d /\ calls'[h].machine = m
        /\ \A g \in Handlers \ {h} : calls'[g] = calls[g]
    BY <1>1 DEF Go, CallAt, DInv, TypeOK
  <1>3. ~InFlight(m) /\ ~RunsElsewhere(d, m) /\ UNCHANGED <<activations, deployments, held>>
    BY DEF Enrol, tableVars, siteVars
  <1>4. \A g \in Handlers : ~Enrols(g, m) /\ ~Late(g, m)
    BY <1>3 DEF InFlight, Enrols, Late
  <1>5. \A g \in Handlers \ {h} : ~Enrols(g, m)'
    BY <1>2, <1>4 DEF Enrols
  <1>6. \A e \in Ids : deployments[e].machine = m => e = d
    BY <1>3 DEF RunsElsewhere
  <1>7. \A e \in Ids : deployments[e].machine = m /\ deployments[e].licence # None => Good(m, e)
    BY <1>4 DEF Sound
  <1>8. \A e \in Ids : deployments'[e].machine = m /\ deployments'[e].licence # None => Good(m, e)'
    BY <1>3, <1>7 DEF Good, Signed
  <1> QED
    BY <1>2, <1>3, <1>5, <1>6, <1>8, SoundOwn

(* The enrolment of a machine in good order goes on: it is the only one.    *)
LEMMA OwnCall ==
    ASSUME DInv, NEW m, Sound(m), NEW h \in Handlers, Enrols(h, m), NEW c, Go(h, c)
    PROVE  /\ \A g \in Handlers \ {h} : ~Enrols(g, m)' /\ ~Late(g, m)
           /\ calls'[h] = c
           /\ calls[h].id \in Ids /\ calls[h].licence \in Licences
  <1>1. calls'[h] = c /\ \A g \in Handlers \ {h} : calls'[g] = calls[g]
    BY DEF Go, DInv, TypeOK
  <1>2. \A g \in Handlers \ {h} : ~Enrols(g, m)
    BY DEF Sound
  <1>3. \A g \in Handlers \ {h} : ~Enrols(g, m)' /\ ~Late(g, m)
    BY <1>1, <1>2 DEF Enrols, Late, Enrolling
  <1> QED
    BY <1>1, <1>3 DEF DInv, CallsFit, Fits, Enrols, Enrolling

LEMMA SoundBefore ==
    ASSUME DeploymentParameters, DInv, NEW h \in Handlers, NEW m, calls[h].machine = m, Sound(m),
           Renew(h) \/ Insert(h) \/ Find(h)
    PROVE  Sound(m)'
  <1> DEFINE c == calls[h]
  <1>1. Enrols(h, m) /\ ~Late(h, m)
    BY DEF Renew, Insert, Find, Enrols, Late, Enrolling
  <1>2. /\ UNCHANGED <<deployments, held>>
        /\ activations \subseteq activations'
    BY DEF Renew, Insert, Find, tableVars, siteVars
  <1>3. ASSUME NEW n, Go(h, n)
        PROVE  \A d \in Ids : deployments'[d].machine = m /\ deployments'[d].licence # None =>
                 Good(m, d)'
    <2>1. \A g \in Handlers : ~Late(g, m)
      BY <1>1, <1>3, OwnCall
    <2>2. \A d \in Ids : deployments[d].machine = m /\ deployments[d].licence # None => Good(m, d)
      BY <2>1 DEF Sound
    <2> QED
      BY <1>2, <2>2 DEF Good, Signed
  <1>4. CASE End(h)
    <2>1. ~Enrols(h, m)'
      BY <1>1, <1>4, OwnCall, IdleFits DEF End, Enrols, Enrolling
    <2> QED
      BY <1>1, <1>2, <1>3, <1>4, <2>1, OwnCall, SoundOwn DEF End, Sound
  <1>5. CASE Proceed(h, "find") /\ <<c.licence, m>> \in activations'
    <2>1. /\ calls'[h].step = "find" /\ calls'[h].id = c.id /\ calls'[h].licence = c.licence
          /\ \A g \in Handlers \ {h} : ~Enrols(g, m)'
      BY <1>1, <1>5, OwnCall DEF Proceed, CallAt
    <2>2. \A d \in Ids : deployments'[d].machine = m /\ deployments'[d].licence # None => Good(m, d)'
      BY <1>3, <1>5 DEF Proceed
    <2> QED
      BY <1>1, <1>2, <1>5, <2>1, <2>2, SoundOwn DEF Sound
  <1>6. CASE Find(h) /\ ~End(h)
    <2> DEFINE row  == deployments[c.id]
               old  == IF row.licence # c.licence THEN row.licence ELSE None
               step == IF old # None THEN "free" ELSE "upsert"
    <2>1. /\ \E s \in 1..MaxSecrets : Go(h, CallAt(step, c.id, c.machine, c.licence, old, s, {}))
          /\ step \in {"free", "upsert"}
      BY <1>6 DEF Find
    <2> HIDE DEF old, step
    <2>2. /\ calls'[h].step = step /\ calls'[h].id = c.id /\ calls'[h].licence = c.licence
          /\ calls'[h].machine = m
          /\ \A g \in Handlers \ {h} : ~Enrols(g, m)'
      BY <1>1, <2>1, OwnCall DEF CallAt
    <2>3. Late(h, m)'
      BY <2>1, <2>2 DEF Late
    <2>4. c.step = "find" /\ <<c.licence, m>> \in activations
      BY <1>1, <1>6 DEF Find, Sound
    <2> QED
      BY <1>1, <1>2, <2>1, <2>2, <2>3, <2>4, SoundOwn DEF Sound
  <1> QED
    BY <1>4, <1>5, <1>6 DEF Renew, Insert, Find, tableVars

LEMMA SoundAfter ==
    ASSUME DeploymentParameters, DInv, NEW h \in Handlers, NEW m, calls[h].machine = m, Sound(m),
           Free(h) \/ Upsert(h) \/ Tell(h)
    PROVE  Sound(m)'
  <1> DEFINE c == calls[h]
  <1>1. Enrols(h, m) /\ Fits(c, minted) /\ c \in Call
    BY DEF Free, Upsert, Tell, Enrols, Enrolling, DInv, CallsFit, TypeOK
  <1>2. <<c.licence, m>> \in activations
    BY <1>1 DEF Sound, Free, Upsert, Tell
  <1>3. CASE Free(h)
    <2>1. /\ calls'[h].step = "upsert" /\ calls'[h].id = c.id /\ calls'[h].licence = c.licence
          /\ calls'[h].machine = m
          /\ \A g \in Handlers \ {h} : ~Enrols(g, m)'
      BY <1>1, <1>3, OwnCall DEF Free, Proceed, CallAt
    <2>2. c.old # c.licence
      BY <1>1, <1>3 DEF Free, Fits
    <2>3. <<c.licence, m>> \in activations' /\ UNCHANGED deployments
      BY <1>2, <1>3, <2>2 DEF Free, LicenceLeft
    <2>4. Late(h, m)'
      BY <2>1 DEF Late
    <2> QED
      BY <1>1, <2>1, <2>3, <2>4, SoundOwn DEF Sound
  <1>4. CASE Upsert(h)
    <2>1. /\ calls'[h].step = "tell" /\ calls'[h].id = c.id /\ calls'[h].licence = c.licence
          /\ calls'[h].machine = m /\ calls'[h].secret = c.secret
          /\ \A g \in Handlers \ {h} : ~Enrols(g, m)'
      BY <1>1, <1>4, OwnCall DEF Upsert, Proceed, CallAt
    <2>2. c.id \in Ids
      BY <1>1 DEF Fits, Enrols, Enrolling
    <2>3. deployments' = [deployments EXCEPT ![c.id] = RowOf("ACTIVE", c.licence, m, c.secret)]
      BY <1>4 DEF Upsert, WriteRow, SecretWritten
    <2> DEFINE row == RowOf("ACTIVE", c.licence, m, c.secret)
    <2>4. row.licence = c.licence /\ row.machine = m /\ row.secret = c.secret
      BY DEF RowOf
    <2> HIDE DEF row
    <2>5. deployments'[c.id] = row /\ \A d \in Ids \ {c.id} : deployments'[d] = deployments[d]
      BY <2>2, <2>3 DEF row, DInv, TypeOK
    <2>6. \A d \in Ids : deployments'[d].machine = m => d = c.id
      BY <1>1, <2>5 DEF Sound
    <2>7. UNCHANGED activations
      BY <1>4 DEF Upsert
    <2>8. Late(h, m)'
      BY <2>1 DEF Late
    <2> QED
      BY <1>2, <2>1, <2>4, <2>5, <2>6, <2>7, <2>8, SoundOwn
  <1>5. CASE Tell(h)
    <2>1. ~Enrols(h, m)' /\ \A g \in Handlers \ {h} : ~Enrols(g, m)'
      BY <1>1, <1>5, OwnCall, IdleFits DEF Tell, End, Enrols, Enrolling
    <2>2. UNCHANGED <<deployments, activations>> /\ c.id \in Ids /\ m \in Machines
      BY <1>1, <1>5 DEF Tell, tableVars, Fits, Enrols, Enrolling
    <2>3. held'[m][c.id] = c.secret
      BY <1>5, <2>2 DEF Tell, DInv, TypeOK
    <2>4. ASSUME NEW d \in Ids, deployments[d].machine = m PROVE Good(m, d)'
      <3>1. d = c.id /\ deployments[d].licence = c.licence /\ deployments[d].secret = c.secret
        BY <1>1, <1>5, <2>4 DEF Sound, Tell
      <3> QED
        BY <1>2, <2>2, <2>3, <3>1 DEF Good, Signed
    <2> QED
      BY <1>1, <2>1, <2>2, <2>4, SoundOwn DEF Sound
  <1> QED
    BY <1>3, <1>4, <1>5

\* A handler that does not act for the machine's enrolment, before and after.
LEMMA SoundOther ==
    ASSUME DeploymentParameters, DInv, NEW h \in Handlers, NEW m \in Machines, Sound(m),
           HandlerStep(h), m \in orderly', m \in orderly,
           ~\E d \in Ids, l \in Licences : Enrol(h, d, m, l),
           calls[h].machine # m \/ calls[h].step \notin Enrolling \/ CallFails(h)
    PROVE  Sound(m)'
  <1>1. calls \in [Handlers -> Call] /\ CallsFit /\ None # m
    BY DEF DInv, TypeOK, DeploymentParameters
  <1>2. ASSUME ~Enrols(h, m), ~Enrols(h, m)', NEW c, Go(h, c)
        PROVE  \A g \in Handlers : calls'[g] = calls[g] \/ (~Enrols(g, m) /\ ~Enrols(g, m)')
    BY <1>1, <1>2 DEF Go
  <1>3. ASSUME UNCHANGED <<activations, deployments, held>>, ~Enrols(h, m), ~Enrols(h, m)',
               NEW c, Go(h, c)
        PROVE  Sound(m)'
    <2>1. \A g \in Handlers : calls'[g] = calls[g] \/ (~Enrols(g, m) /\ ~Enrols(g, m)')
      BY <1>2, <1>3
    <2> QED
      BY <1>1, <1>3, <2>1, SoundFrame
  <1>4. ASSUME NEW c, Go(h, c) PROVE calls'[h] = c
    BY <1>1, <1>4 DEF Go
  <1>5. ASSUME NEW d \in Ids, NEW n \in Machines, Heartbeat(h, d, n) PROVE Sound(m)'
    <2> DEFINE c == CallAt("fetch", d, n, None, None, 0, {})
    <2>1. Go(h, c) /\ calls[h] = Idle /\ UNCHANGED <<activations, deployments, held>>
      BY <1>5 DEF Heartbeat, tableVars, siteVars
    <2>2. c.step = "fetch"
      BY DEF CallAt
    <2> HIDE DEF c
    <2>3. ~Enrols(h, m) /\ ~Enrols(h, m)'
      BY <1>4, <2>1, <2>2, IdleFits DEF Enrols, Enrolling
    <2> QED
      BY <1>3, <2>1, <2>3
  <1>6. ASSUME NEW d \in Ids, NEW n \in Machines, NEW l \in Licences, Enrol(h, d, n, l)
        PROVE  Sound(m)'
    <2>1. PICK step \in {"renew", "insert"} : Go(h, CallAt(step, d, n, l, None, 0, {}))
      BY <1>6 DEF Enrol
    <2> DEFINE c == CallAt(step, d, n, l, None, 0, {})
    <2>2. Go(h, c) /\ c.machine = n /\ n # m
      BY <1>6, <2>1 DEF CallAt
    <2> HIDE DEF c
    <2>3. calls[h] = Idle /\ UNCHANGED <<activations, deployments, held>>
      BY <1>6 DEF Enrol, tableVars, siteVars
    <2>4. ~Enrols(h, m) /\ ~Enrols(h, m)'
      BY <1>4, <2>2, <2>3, IdleFits DEF Enrols, Enrolling
    <2> QED
      BY <1>3, <2>2, <2>3, <2>4
  <1>7. ASSUME End(h), UNCHANGED <<activations, deployments, held>>, ~Enrols(h, m) PROVE Sound(m)'
    <2>1. Go(h, Idle) /\ ~Enrols(h, m)'
      BY <1>4, <1>7, IdleFits DEF End, Enrols, Enrolling
    <2> QED
      BY <1>3, <1>7, <2>1
  <1>8. CASE Fetch(h) \/ Mark(h) \/ Answer(h)
    <2>1. UNCHANGED <<activations, deployments, held>> /\ ~Enrols(h, m)
      BY <1>8 DEF Fetch, Mark, Answer, tableVars, siteVars, Enrols, Enrolling
    <2>2. \/ End(h)
          \/ \E step \in {"mark", "answer"} : \E i, n, listed :
               Go(h, CallAt(step, i, n, None, None, 0, listed))
      BY <1>8 DEF Fetch, Mark, Answer
    <2>3. ASSUME NEW step \in {"mark", "answer"}, NEW i, NEW n, NEW listed,
                 Go(h, CallAt(step, i, n, None, None, 0, listed))
          PROVE  Sound(m)'
      <3> DEFINE c == CallAt(step, i, n, None, None, 0, listed)
      <3>1. c.step \in {"mark", "answer"} /\ Go(h, c)
        BY <2>3 DEF CallAt
      <3> HIDE DEF c
      <3>2. ~Enrols(h, m)'
        BY <1>4, <3>1 DEF Enrols, Enrolling
      <3> QED
        BY <1>3, <2>1, <3>1, <3>2
    <2> QED
      BY <1>7, <2>1, <2>2, <2>3
  <1>9. CASE CallFails(h)
    <2>1. ~Enrols(h, m)
      BY <1>9 DEF CallFails, Enrols
    <2> QED
      BY <1>7, <1>9, <2>1 DEF CallFails, tableVars, siteVars
  <1>10. CASE Renew(h) \/ Insert(h) \/ Find(h) \/ Free(h) \/ Upsert(h) \/ Tell(h)
    <2>1. CASE CallFails(h)
      BY <1>9, <2>1
    <2>2. CASE ~CallFails(h)
      <3>1. calls[h].machine # m /\ calls[h].step \in Enrolling /\ calls[h].machine \in Machines
        BY <1>1, <1>10, <2>2 DEF Renew, Insert, Find, Free, Upsert, Tell, Enrolling, CallsFit, Fits
      <3>2. ~Enrols(h, m)
        BY <3>1 DEF Enrols
      <3>3. \/ End(h)
            \/ \E step, old, s :
                 Go(h, CallAt(step, calls[h].id, calls[h].machine, calls[h].licence, old, s, {}))
        BY <1>10 DEF Renew, Insert, Find, Free, Upsert, Tell, Proceed
      <3>4. ~Enrols(h, m)'
        <4>1. CASE End(h)
          BY <1>4, <4>1, IdleFits DEF End, Enrols, Enrolling
        <4>2. ASSUME NEW step, NEW old, NEW s,
                     Go(h, CallAt(step, calls[h].id, calls[h].machine, calls[h].licence, old, s, {}))
              PROVE  ~Enrols(h, m)'
          <5> DEFINE c == CallAt(step, calls[h].id, calls[h].machine, calls[h].licence, old, s, {})
          <5>1. c.machine = calls[h].machine /\ Go(h, c)
            BY <4>2 DEF CallAt
          <5> HIDE DEF c
          <5> QED
            BY <1>4, <3>1, <5>1 DEF Enrols
        <4> QED
          BY <3>3, <4>1, <4>2
      <3>5. \A g \in Handlers : calls'[g] = calls[g] \/ (~Enrols(g, m) /\ ~Enrols(g, m)')
        BY <1>2, <3>2, <3>3, <3>4 DEF End
      <3>6. \A l : <<l, m>> \in activations => <<l, m>> \in activations'
        BY <1>10, <3>1 DEF Renew, Insert, Find, Free, Upsert, Tell, tableVars
      <3>7. \A d \in Ids : deployments'[d].machine = m => deployments'[d] = deployments[d]
        <4>1. CASE Upsert(h)
          BY <3>1, <4>1 DEF Upsert, WriteRow, RowOf, DInv, TypeOK
        <4>2. CASE ~Upsert(h)
          BY <1>10, <4>2 DEF Renew, Insert, Find, Free, Tell, tableVars
        <4> QED
          BY <4>1, <4>2
      <3>8. \A d \in Ids : held'[m][d] = held[m][d]
        <4>1. CASE Tell(h)
          BY <3>1, <4>1 DEF Tell, DInv, TypeOK
        <4>2. CASE ~Tell(h)
          BY <1>10, <4>2 DEF Renew, Insert, Find, Free, Upsert, siteVars
        <4> QED
          BY <4>1, <4>2
      <3> QED
        BY <1>1, <3>5, <3>6, <3>7, <3>8, SoundFrame
    <2> QED
      BY <2>1, <2>2
  <1> QED
    BY <1>5, <1>6, <1>8, <1>9, <1>10 DEF HandlerStep

\* Rows that are written without a handler.
LEMMA SoundRow ==
    ASSUME DInv, NEW m \in Machines, Sound(m), None # m,
           UNCHANGED <<activations, calls>>, NEW d \in Ids, NEW row, WriteRow(d, row),
           row.machine = m =>
             /\ deployments[d].machine = m
             /\ row.licence = deployments[d].licence /\ row.secret = deployments[d].secret,
           row.machine = None \/ UNCHANGED held,
           \A e \in Ids \ {d} : held'[m][e] = held[m][e]
    PROVE  Sound(m)'
  <1>1. deployments'[d] = row /\ \A e \in Ids \ {d} : deployments'[e] = deployments[e]
    BY DEF WriteRow, DInv, TypeOK
  <1>2. \A e \in Ids : deployments'[e].machine = m =>
             /\ deployments[e].machine = m
             /\ deployments'[e].licence = deployments[e].licence
             /\ deployments'[e].secret = deployments[e].secret
             /\ held'[m][e] = held[m][e]
    BY <1>1
  <1> QED
    BY <1>2, SoundFrame DEF DInv

LEMMA SoundAutoRegister ==
    ASSUME DeploymentParameters, DInv, NEW m \in Machines, Sound(m), m \in orderly', None # m,
           NEW d \in Ids, NEW s \in 1..MaxSecrets, AutoRegister(d, m, s)
    PROVE  Sound(m)'
  <1> DEFINE row == RowOf("ACTIVE", None, m, s)
  <1>1. row.licence = None
    BY DEF RowOf
  <1>2. WriteRow(d, row) /\ ~InFlight(m) /\ ~RunsElsewhere(d, m)
        /\ UNCHANGED <<activations, calls, held>>
    BY DEF AutoRegister, siteVars
  <1> HIDE DEF row
  <1>3. deployments'[d] = row /\ \A e \in Ids \ {d} : deployments'[e] = deployments[e]
    BY <1>2 DEF WriteRow, DInv, TypeOK
  <1>4. \A e \in Ids \ {d} : deployments'[e].machine # m
    BY <1>2, <1>3 DEF RunsElsewhere
  <1>5. \A e \in Ids : deployments'[e].machine = m => e = d /\ deployments'[e].licence = None
    BY <1>1, <1>3, <1>4
  <1>6. \A g \in Handlers : ~Enrols(g, m)'
    BY <1>2 DEF InFlight, Enrols
  <1> QED
    BY <1>5, <1>6 DEF Sound

LEMMA SoundNext ==
    ASSUME DeploymentParameters, DInv, orderly \subseteq Machines, AllSound, [Next]_vars
    PROVE  AllSound'
  <1>1. orderly' \subseteq orderly
    <2>1. CASE UNCHANGED vars
      BY <2>1 DEF vars, historyVars
    <2>2. ASSUME NEW h \in Handlers, HandlerStep(h) PROVE orderly' \subseteq orderly
      BY <2>2 DEF HandlerStep, Heartbeat, Enrol, Renew, Insert, Find, Free, Upsert, Tell, Fetch,
                  Mark, Answer, CallFails, historyVars
    <2>3. CASE Next
      BY <2>2, <2>3 DEF Next, AutoRegister, Register, Kill, SetByHand, SetStatus, SetInForce,
                 Deactivate, Enqueue, historyVars
    <2> QED
      BY <2>1, <2>3
  <1>2. ASSUME NEW m \in orderly' PROVE Sound(m)'
    <2>1. m \in orderly /\ m \in Machines /\ Sound(m) /\ None # m
      BY <1>1 DEF AllSound, DeploymentParameters
    <2>2. ASSUME NEW h \in Handlers, HandlerStep(h) PROVE Sound(m)'
      <3>1. ASSUME NEW d \in Ids, NEW l \in Licences, Enrol(h, d, m, l) PROVE Sound(m)'
        BY <1>2, <2>1, <3>1, SoundEnrol
      <3>2. CASE /\ calls[h].machine = m /\ calls[h].step \in Enrolling /\ ~CallFails(h)
                 /\ ~\E d \in Ids, l \in Licences : Enrol(h, d, m, l)
        <4>1. \/ Renew(h) \/ Insert(h) \/ Find(h) \/ Free(h) \/ Upsert(h) \/ Tell(h)
          BY <2>2, <3>2, IdleFits
          DEF HandlerStep, Heartbeat, Enrol, Fetch, Mark, Answer, Enrolling
        <4> QED
          BY <2>1, <3>2, <4>1, SoundBefore, SoundAfter
      <3> QED
        BY <1>2, <2>1, <2>2, <3>1, <3>2, SoundOther
    <2>3. ASSUME NEW d \in Ids, NEW n \in Machines, NEW s \in 1..MaxSecrets, AutoRegister(d, n, s)
          PROVE  Sound(m)'
      <3>1. CASE n = m
        BY <1>2, <2>1, <2>3, <3>1, SoundAutoRegister
      <3>2. CASE n # m
        <4> DEFINE row == RowOf("ACTIVE", None, n, s)
        <4>1. row.machine = n /\ WriteRow(d, row) /\ UNCHANGED <<activations, calls, held>>
          BY <2>3 DEF AutoRegister, siteVars, RowOf
        <4> HIDE DEF row
        <4> QED
          BY <2>1, <3>2, <4>1, SoundRow
      <3> QED
        BY <3>1, <3>2
    <2>4. ASSUME NEW d \in Ids, NEW n \in Machines, NEW s \in 1..MaxSecrets,
                 NEW l \in Licences \cup {None}, Register(d, l, n, s)
          PROVE  Sound(m)'
      <3> DEFINE row == RowOf("ACTIVE", l, None, s)
      <3>1. row.machine = None /\ WriteRow(d, row) /\ UNCHANGED <<activations, calls>>
        BY <2>4 DEF Register, RowOf
      <3> HIDE DEF row
      <3>2. \A e \in Ids \ {d} : held'[m][e] = held[m][e]
        BY <2>1, <2>4 DEF Register, DInv, TypeOK
      <3> QED
        BY <2>1, <3>1, <3>2, SoundRow
    <2>5. ASSUME NEW d \in Ids, NEW status \in Statuses, SetStatus(d, status) PROVE Sound(m)'
      <3> DEFINE row == [deployments[d] EXCEPT !.status = status]
      <3>1. /\ row.machine = deployments[d].machine
            /\ row.licence = deployments[d].licence /\ row.secret = deployments[d].secret
        BY DEF DInv, TypeOK, Row
      <3>2. WriteRow(d, row) /\ UNCHANGED <<activations, calls, held>>
        BY <2>5 DEF SetStatus, siteVars
      <3> HIDE DEF row
      <3> QED
        BY <2>1, <3>1, <3>2, SoundRow
    <2>6. ASSUME UNCHANGED <<deployments, calls, held>>,
                 \A l : <<l, m>> \in activations => <<l, m>> \in activations'
          PROVE  Sound(m)'
      BY <2>1, <2>6, SoundFrame DEF DInv
    <2>7. CASE UNCHANGED vars
      BY <2>6, <2>7 DEF vars, tableVars, siteVars
    <2>8. ASSUME NEW l \in Licences, SetInForce(l) PROVE Sound(m)'
      BY <2>6, <2>8 DEF SetInForce, siteVars
    <2>9. ASSUME NEW c \in Commands, NEW d \in Ids, Enqueue(c, d) PROVE Sound(m)'
      BY <2>6, <2>9 DEF Enqueue, siteVars
    <2>10. ASSUME NEW l \in Licences, NEW n \in Machines, Deactivate(l, n) PROVE Sound(m)'
      <3>1. n # m
        BY <1>2, <2>10 DEF Deactivate
      <3> QED
        BY <2>6, <2>10, <3>1 DEF Deactivate, siteVars
    <2>11. ASSUME NEW d \in Ids, Kill(d) PROVE Sound(m)'
      BY <2>5, <2>11 DEF Kill, Statuses
    <2>12. ASSUME NEW d \in Ids, NEW status \in Statuses, SetByHand(d, status) PROVE Sound(m)'
      BY <2>5, <2>12 DEF SetByHand
    <2>13. CASE Next
      BY <2>2, <2>3, <2>4, <2>8, <2>9, <2>10, <2>11, <2>12, <2>13 DEF Next
    <2> QED
      BY <2>7, <2>13
  <1> QED
    BY <1>2 DEF AllSound

LEMMA AlwaysSound ==
    ASSUME DeploymentParameters
    PROVE  Spec => [](DInv /\ AllSound)
  <1>1. ASSUME Init PROVE AllSound
    <2>1. \A m \in Machines : Sound(m)
      BY <1>1, IdleFits DEF Init, Sound, Enrols, Enrolling, Absent, RowOf, DeploymentParameters
    <2> QED
      BY <1>1, <2>1 DEF Init, AllSound
  <1>2. DInv => orderly \subseteq Machines
    BY DEF DInv, TypeOK
  <1> QED
    BY <1>1, <1>2, DInvInit, DInvNext, SoundNext, PTL DEF Spec

LEMMA SoundShows ==
    ASSUME DeploymentParameters, DInv, AllSound
    PROVE  RunsCounted /\ CanSign
  BY SoundSuffices DEF DInv, TypeOK, DeploymentParameters

(* A machine in good order is counted by the licence its deployment runs    *)
(* on, whatever other machines, administrators and failed calls of others   *)
(* do between the steps of its enrolments.                                  *)
THEOREM PlacesCounted ==
    ASSUME DeploymentParameters
    PROVE  Spec => []RunsCounted
  BY AlwaysSound, SoundShows, PTL

(* ... and the secret it was last told is the one the server checks its     *)
(* signatures with.                                                         *)
THEOREM SecretsKnown ==
    ASSUME DeploymentParameters
    PROVE  Spec => []CanSign
  BY AlwaysSound, SoundShows, PTL
=============================================================================
