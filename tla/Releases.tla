------------------------------ MODULE Releases ------------------------------
(***************************************************************************)
(* The releases of one product and what deployments are served of them     *)
(* (routes/adminReleases.ts, routes/updates.ts, services/release.service   *)
(* .ts and the uploads of storage.service.ts).                             *)
(*                                                                         *)
(* No route opens a transaction: each reads the row, deactivates, uploads, *)
(* writes and signs one await after the other, and an upload takes         *)
(* minutes.  A signature is the manifest it covers; a hash is the body it  *)
(* was computed from.                                                      *)
(***************************************************************************)
EXTENDS Naturals, FiniteSets

CONSTANTS
    ReleaseIds,
    Versions,
    Channels,
    Components,  \* parts of a release with artefacts of their own
    ImageOf,     \* "aos", the component that also fills the single artefact
    Filename,    \* a name the uploader may give the single artefact
    Bodies,      \* contents of files
    Edits,       \* what a PUT may ask for: the fields it gives
    Clerks,      \* admin request handlers
    MaxBegun,    \* bound: admin requests that write
    Missing      \* no row, file, version or id

ASSUME ReleaseAssumption ==
    /\ MaxBegun \in Nat
    /\ Missing \notin ReleaseIds \cup Versions \cup Channels \cup Bodies \cup {Filename}

VARIABLES
    release,    \* release[r]: the row with its artefacts, or Missing
    objects,    \* objects[k]: the body stored under key k
    job,        \* job[c]: what clerk c has read and has yet to do
    begun,      \* requests begun
    unsigned,   \* releases changed after the row their signature was made from was read
    mixed,      \* channels where two activations have crossed
    claims,     \* claims[k]: releases that have recorded a file under key k
    dirty       \* keys written by an upload that has not recorded it yet, or never will

releaseVars == <<release, objects, job, begun, unsigned, mixed, claims, dirty>>

\* The single artefact goes by the name given, a component by version and part.
Keys == {<<Filename>>} \cup (Versions \X Components)
NoFile == [key |-> <<Missing>>, body |-> Missing]
Files  == [key : Keys, body : Bodies] \cup {NoFile}
Parts  == [Components -> Files]

\* manifestOf: what a deployment acts on.
Manifest(row) == [version |-> row.version, channel |-> row.channel,
                  artefact |-> row.artefact, parts |-> row.parts]
Manifests == [version : Versions, channel : Channels, artefact : Files, parts : Parts]
NewRow(v, ch, on) ==
    LET row == [version |-> v, channel |-> ch, active |-> on, artefact |-> NoFile,
                parts |-> [p \in Components |-> NoFile]]
    IN  [version |-> v, channel |-> ch, active |-> on, artefact |-> NoFile,
         parts |-> row.parts, signature |-> Manifest(row)]
ReleaseRows == [version : Versions, channel : Channels, active : BOOLEAN, artefact : Files,
         parts : Parts, signature : Manifests]

\* The fields a PUT gives; the others are left out.
Changes == [version : Versions \cup {Missing}, channel : Channels \cup {Missing},
            active : BOOLEAN \cup {Missing}]

\* A null is no row, and a PUT asks for fields of a release.
ASSUME ReleaseShapes == Missing \notin ReleaseRows /\ Edits \subseteq Changes

NoChange == [version |-> Missing, channel |-> Missing, active |-> Missing]
Given(new, old) == IF new = Missing THEN old ELSE new
\* Mutant: the fields that were left out are written too.
ChangedAsGiven(row, ch) == [row EXCEPT !.version = ch.version, !.channel = Given(ch.channel, @),
                                       !.active = Given(ch.active, @)]
Changed(row, ch) == [row EXCEPT !.version = Given(ch.version, @), !.channel = Given(ch.channel, @),
                                !.active = Given(ch.active, @)]

NoJob == [step |-> "idle", op |-> "none", id |-> Missing, row |-> Missing, change |-> NoChange,
          part |-> Missing, body |-> Missing, stale |-> FALSE, crossed |-> FALSE]
JobSteps == {"idle", "deactivate", "write", "upload", "record", "readParts", "sign"}
Operations == {"none", "create", "update", "activate", "artefact", "component", "unpart"}

ReleaseTypeOK ==
    /\ \A r \in ReleaseIds : release[r] = Missing \/ release[r] \in ReleaseRows
    /\ objects \in [Keys -> Bodies \cup {Missing}]
    /\ \A c \in Clerks :
         /\ job[c].step \in JobSteps /\ job[c].op \in Operations
         /\ job[c].id \in ReleaseIds \cup {Missing}
         /\ job[c].part \in Components \cup {Missing}
         /\ job[c].body \in Bodies \cup {Missing}
         /\ job[c].row = Missing \/ job[c].row \in ReleaseRows
         /\ job[c].change \in Changes
    /\ begun \in 0 .. MaxBegun
    /\ unsigned \subseteq ReleaseIds /\ mixed \subseteq Channels
    /\ claims \in [Keys -> SUBSET ReleaseIds] /\ dirty \subseteq Keys

ReleaseInit ==
    /\ release = [r \in ReleaseIds |-> Missing]
    /\ objects = [k \in Keys |-> Missing]
    /\ job = [c \in Clerks |-> NoJob]
    /\ begun = 0
    /\ unsigned = {} /\ mixed = {}
    /\ claims = [k \in Keys |-> {}]
    /\ dirty = {}

-----------------------------------------------------------------------------

Stored(r)   == release[r] # Missing
ActiveOn(ch) == {r \in ReleaseIds : Stored(r) /\ release[r].active /\ release[r].channel = ch}
JobAt(c, step) == job[c].step = step
BeginJob(c, j) == begun < MaxBegun /\ JobAt(c, "idle") /\ begun' = begun + 1 /\ job' = [job EXCEPT ![c] = j]

\* Clerk c goes on to j after a write to the manifest of r: what the others
\* hold of it is out of date.  With activity, so is what they deactivated or left alone.
Wrote(c, j, r, activity) ==
    job' = [d \in Clerks |->
              IF d = c THEN j
              ELSE [job[d] EXCEPT !.stale = @ \/ (job[d].id = r /\ job[d].row # Missing),
                                  !.crossed = @ \/ (activity /\ ~JobAt(d, "idle"))]]
GoOn(c, step) == job' = [job EXCEPT ![c].step = step]

\* POST / and PUT /:id deactivate the others when the release is to be active;
\* POST /:id/activate deactivates every active one.
Deactivate(c) ==
    LET row == job[c].row IN
    /\ JobAt(c, "deactivate")
    /\ release' = [r \in ReleaseIds |->
                     IF r \in ActiveOn(row.channel) /\ (job[c].op = "activate" \/ r # job[c].id)
                       THEN [release[r] EXCEPT !.active = FALSE] ELSE release[r]]
    /\ GoOn(c, "write")
    /\ UNCHANGED <<objects, begun, unsigned, mixed, claims, dirty>>

\* A write that leaves a release active alone on ch, if nothing crossed it.
Settle(c, ch) == mixed' = IF job[c].crossed THEN mixed \cup {ch} ELSE mixed \ {ch}

-----------------------------------------------------------------------------
(* Creating, updating, activating, deleting. *)

CreateRelease(c, r, v, ch, on) ==
    /\ ~Stored(r) /\ \A d \in Clerks : job[d].id # r
    /\ BeginJob(c, [NoJob EXCEPT !.op = "create", !.id = r, !.row = NewRow(v, ch, on),
                                 !.step = IF on THEN "deactivate" ELSE "write"])
    /\ UNCHANGED <<release, objects, unsigned, mixed, claims, dirty>>

\* A version the product has is refused here, when the active one is inactive
\* already.
WriteCreated(c) ==
    LET r == job[c].id
        row == job[c].row
    IN
    /\ JobAt(c, "write") /\ job[c].op = "create"
    /\ \A q \in ReleaseIds : Stored(q) => release[q].version # row.version
    /\ release' = [release EXCEPT ![r] = row]
    /\ Wrote(c, NoJob, r, row.active)
    /\ IF row.active THEN Settle(c, row.channel) ELSE UNCHANGED mixed
    /\ UNCHANGED <<objects, begun, unsigned, claims, dirty>>

\* The channel to clear, and whether to, are computed from the row that was read.
UpdateRelease(c, r, change) ==
    LET next == Changed(release[r], change) IN
    /\ Stored(r)
    /\ BeginJob(c, [NoJob EXCEPT !.op = "update", !.id = r, !.row = next, !.change = change,
                                 !.step = IF next.active THEN "deactivate" ELSE "write"])
    /\ UNCHANGED <<release, objects, unsigned, mixed, claims, dirty>>

\* Only what was given is written.  The row comes back as it is then, and is
\* what gets signed in a second update.
WriteUpdated(c) ==
    LET r == job[c].id
        next == Changed(release[r], job[c].change)
    IN
    /\ JobAt(c, "write") /\ job[c].op = "update" /\ Stored(r)
    /\ \A q \in ReleaseIds \ {r} : Stored(q) => release[q].version # next.version
    /\ release' = [release EXCEPT ![r] = next]
    /\ Wrote(c, [NoJob EXCEPT !.op = "update", !.id = r, !.row = next, !.step = "readParts"], r,
             next.active \/ next.channel # release[r].channel)
    /\ unsigned' = unsigned \cup {r}
    /\ IF next.active THEN Settle(c, next.channel) ELSE UNCHANGED mixed
    /\ UNCHANGED <<objects, begun, claims, dirty>>

ActivateRelease(c, r) ==
    /\ Stored(r)
    /\ BeginJob(c, [NoJob EXCEPT !.op = "activate", !.id = r, !.row = release[r], !.step = "deactivate"])
    /\ UNCHANGED <<release, objects, unsigned, mixed, claims, dirty>>

\* Whatever channel the release is on by now.
WriteActivated(c) ==
    LET r == job[c].id IN
    /\ JobAt(c, "write") /\ job[c].op = "activate" /\ Stored(r)
    /\ release' = [release EXCEPT ![r].active = TRUE]
    /\ job' = [d \in Clerks |-> IF d = c THEN NoJob
                                ELSE [job[d] EXCEPT !.crossed = @ \/ ~JobAt(d, "idle")]]
    /\ Settle(c, release[r].channel)
    /\ UNCHANGED <<objects, begun, unsigned, claims, dirty>>

\* The artefacts go with the row; the objects stay.
DeleteRelease(r) ==
    /\ Stored(r) /\ begun < MaxBegun
    /\ begun' = begun + 1
    /\ release' = [release EXCEPT ![r] = Missing]
    /\ unsigned' = unsigned \ {r}
    /\ UNCHANGED <<objects, job, mixed, claims, dirty>>

-----------------------------------------------------------------------------
(* Uploads.  The key is made from the row as it was read. *)

Key(j) == IF j.op = "artefact" THEN <<Filename>> ELSE <<j.row.version, j.part>>
File(j) == [key |-> Key(j), body |-> j.body]

PutArtifact(c, r, b) ==
    /\ Stored(r)
    /\ BeginJob(c, [NoJob EXCEPT !.op = "artefact", !.id = r, !.row = release[r], !.body = b, !.step = "upload"])
    /\ UNCHANGED <<release, objects, unsigned, mixed, claims, dirty>>

PutComponent(c, r, p, b) ==
    /\ Stored(r)
    /\ BeginJob(c, [NoJob EXCEPT !.op = "component", !.id = r, !.row = release[r], !.part = p,
                                 !.body = b, !.step = "upload"])
    /\ UNCHANGED <<release, objects, unsigned, mixed, claims, dirty>>

\* The object is replaced at once; an upload past its limit never gets here.
UploadObject(c) ==
    /\ JobAt(c, "upload")
    /\ objects' = [objects EXCEPT ![Key(job[c])] = job[c].body]
    /\ dirty' = dirty \cup {Key(job[c])}
    /\ GoOn(c, IF job[c].op = "artefact" THEN "readParts" ELSE "record")
    /\ UNCHANGED <<release, begun, unsigned, mixed, claims>>

Uploads(d, k) == job[d].op \in {"artefact", "component"} /\ Key(job[d]) = k
Claim(c) == claims' = [claims EXCEPT ![Key(job[c])] = @ \cup {job[c].id}]
\* The upload is over: the key is clean if no other crossed it.
Clean(c) ==
    LET k == Key(job[c]) IN
    dirty' = IF ~job[c].stale /\ objects[k] = job[c].body /\ \A d \in Clerks \ {c} : ~Uploads(d, k)
               THEN dirty \ {k} ELSE dirty \cup {k}

\* The artefact's row is written before the release is: it is unsigned until then.
RecordComponent(c) ==
    LET r == job[c].id IN
    /\ JobAt(c, "record") /\ job[c].op = "component" /\ Stored(r)
    /\ release' = [release EXCEPT ![r].parts[job[c].part] = File(job[c])]
    /\ unsigned' = unsigned \cup {r}
    /\ Wrote(c, [job[c] EXCEPT !.step = "readParts"], r, FALSE)
    /\ Claim(c)
    /\ UNCHANGED <<objects, begun, mixed, dirty>>

DeleteComponent(c, r, p) ==
    /\ Stored(r) /\ release[r].parts[p] # NoFile
    /\ BeginJob(c, [NoJob EXCEPT !.op = "unpart", !.id = r, !.row = release[r], !.part = p, !.step = "record"])
    /\ UNCHANGED <<release, objects, unsigned, mixed, claims, dirty>>

RemoveComponent(c) ==
    LET r == job[c].id IN
    /\ JobAt(c, "record") /\ job[c].op = "unpart" /\ Stored(r)
    /\ release[r].parts[job[c].part] # NoFile
    /\ release' = [release EXCEPT ![r].parts[job[c].part] = NoFile]
    /\ unsigned' = unsigned \cup {r}
    /\ Wrote(c, [job[c] EXCEPT !.step = "readParts"], r, FALSE)
    /\ UNCHANGED <<objects, begun, mixed, claims, dirty>>

-----------------------------------------------------------------------------
(* Signing: the row that was read, with what the job writes to it and the  *)
(* parts as they are read last.                                            *)

FillsArtefact(j) == j.op = "artefact" \/ (j.op = "component" /\ j.part = ImageOf)
\* Mutant: the row is signed as it was read, without the file it gains.
SignedAsRead(j) == Manifest(j.row)
Signed(j) == Manifest(IF FillsArtefact(j) THEN [j.row EXCEPT !.artefact = File(j)] ELSE j.row)

ReadParts(c) ==
    LET r == job[c].id IN
    /\ JobAt(c, "readParts") /\ Stored(r)
    /\ job' = [job EXCEPT ![c].step = "sign", ![c].row.parts = release[r].parts]
    /\ UNCHANGED <<release, objects, begun, unsigned, mixed, claims, dirty>>

SignRelease(c) ==
    LET r == job[c].id
        j == job[c]
    IN
    /\ JobAt(c, "sign") /\ Stored(r)
    /\ release' = [release EXCEPT ![r].signature = Signed(j),
                                  ![r].artefact = IF FillsArtefact(j) THEN File(j) ELSE @]
    /\ unsigned' = IF j.stale THEN unsigned \cup {r} ELSE unsigned \ {r}
    /\ IF FillsArtefact(j) THEN Wrote(c, NoJob, r, FALSE)
       ELSE job' = [job EXCEPT ![c] = NoJob]
    /\ IF j.op \in {"artefact", "component"} THEN Claim(c) /\ Clean(c) ELSE UNCHANGED <<claims, dirty>>
    /\ UNCHANGED <<objects, begun, mixed>>

\* The row is gone, the version is taken, the store or the process fails: what
\* was done is left as it is.
JobFails(c) ==
    /\ ~JobAt(c, "idle")
    /\ job' = [job EXCEPT ![c] = NoJob]
    /\ UNCHANGED <<release, objects, begun, unsigned, mixed, claims, dirty>>

-----------------------------------------------------------------------------
(* What updates.ts serves: nothing of a release that is not active. *)

\* /download and /bootstrap link the object under the key of an active release.
Served(r, f) == Stored(r) /\ release[r].active /\ f # NoFile
                /\ (f = release[r].artefact \/ \E p \in Components : f = release[r].parts[p])

-----------------------------------------------------------------------------

ReleaseNext ==
    \/ \E c \in Clerks, r \in ReleaseIds :
         \/ \E v \in Versions, ch \in Channels, on \in BOOLEAN : CreateRelease(c, r, v, ch, on)
         \/ \E change \in Edits : UpdateRelease(c, r, change)
         \/ \E b \in Bodies : PutArtifact(c, r, b) \/ \E p \in Components : PutComponent(c, r, p, b)
         \/ \E p \in Components : DeleteComponent(c, r, p)
         \/ ActivateRelease(c, r)
    \/ \E c \in Clerks :
         \/ Deactivate(c) \/ WriteCreated(c) \/ WriteUpdated(c) \/ WriteActivated(c)
         \/ UploadObject(c) \/ RecordComponent(c)
         \/ RemoveComponent(c) \/ ReadParts(c) \/ SignRelease(c) \/ JobFails(c)
    \/ \E r \in ReleaseIds : DeleteRelease(r)

ReleaseSpec == ReleaseInit /\ [][ReleaseNext]_releaseVars

-----------------------------------------------------------------------------

\* "An active release stands alone on its product's channel", unless two
\* requests that activate crossed, until the next that runs alone; and a
\* deployment can verify what it is served: the signature covers the row as it
\* stands and the object under the key is the one recorded, unless a request has
\* yet to sign, was cut short before it did or crossed another, or the key is
\* also that of an upload under way or of another release.
ServesOneThatVerifies ==
    /\ \A ch \in Channels : ch \notin mixed => Cardinality(ActiveOn(ch)) <= 1
    /\ \A r \in ReleaseIds : (Stored(r) /\ r \notin unsigned) =>
         /\ release[r].signature = Manifest(release[r])
         /\ \A k \in Keys, b \in Bodies :
              (Served(r, [key |-> k, body |-> b]) /\ k \notin dirty /\ claims[k] = {r})
                 => objects[k] = b
=============================================================================
