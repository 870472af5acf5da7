--------------------------- MODULE ProductBundles ---------------------------
(***************************************************************************)
(* The bundles of products (routes/admin.ts over product.service.ts and    *)
(* storage.service.ts): files in the object store under a folder made of   *)
(* the product's category and name, one of them the active bundle the      *)
(* customers download.  Rows and objects are written one after the other,  *)
(* and no lock keeps handlers apart.                                       *)
(*                                                                         *)
(* A key is a folder and a file name with its version; product names that  *)
(* differ may give one folder.                                             *)
(***************************************************************************)
EXTENDS Naturals

CONSTANTS
    Products,    \* products of the catalogue
    Folders,     \* folders of the object store
    Files,       \* file names, version included
    Porters,     \* handlers of the admin routes
    NoBundle     \* the key of a product without a bundle

Keys == Folders \X Files
ASSUME BundleAssumption == NoBundle \notin Keys

VARIABLES
    folder,      \* folder[p]: what category and name of p come to
    chosen,      \* chosen[p]: s3PackageKey
    stored,      \* keys with an object in the store
    porter,      \* porter[h]: the handler's call
    excused      \* products whose active bundle was named by hand, was chosen
                 \* while it was being deleted or deleted while it was being
                 \* chosen, or went with another product of its folder

bundleVars == <<folder, chosen, stored, porter, excused>>

Resting == [at |-> "rest"]
\* crossed: since the call looked, another has deleted or chosen its bundle.
Underway(stage, p, k, choose) ==
    [at |-> stage, product |-> p, key |-> k, choose |-> choose, crossed |-> FALSE]

BundleTypeOK ==
    /\ folder \in [Products -> Folders]
    /\ chosen \in [Products -> Keys \cup {NoBundle}]
    /\ stored \subseteq Keys
    /\ porter \in [Porters -> {Resting} \cup
                     [at : {"upload", "choose", "delete"}, product : Products, key : Keys,
                      choose : BOOLEAN, crossed : BOOLEAN]]
    /\ excused \subseteq Products

\* Products begin without bundles, and with folders of their own or not.
BundleInit ==
    /\ folder \in [Products -> Folders]
    /\ chosen = [p \in Products |-> NoBundle]
    /\ stored = {}
    /\ porter = [h \in Porters |-> Resting]
    /\ excused = {}

-----------------------------------------------------------------------------

Starts(h, call) == porter[h] = Resting /\ porter' = [porter EXCEPT ![h] = call]

\* h is done; the calls underway that looked at key k, in one of the stages,
\* will go by what they saw.
DoneCrossing(h, k, stages) ==
    porter' = [g \in Porters |->
                 IF g = h THEN Resting
                 ELSE IF porter[g].at \in stages /\ porter[g].key = k
                      THEN [porter[g] EXCEPT !.crossed = TRUE]
                 ELSE porter[g]]

\* updateProduct with the key.
Choose(h, p, k) ==
    /\ chosen' = [chosen EXCEPT ![p] = k]
    /\ excused' = IF porter[h].crossed THEN excused \cup {p} ELSE excused \ {p}
    /\ DoneCrossing(h, k, {"delete"})

-----------------------------------------------------------------------------

\* POST /products/:id/upload: the product is read and the key made of it.
UploadBundle(h, p, f, choose) ==
    /\ Starts(h, Underway("upload", p, <<folder[p], f>>, choose))
    /\ UNCHANGED <<folder, chosen, stored, excused>>

\* PutObject; an object of the same name is replaced.
StoreBundle(h) ==
    /\ porter[h].at = "upload"
    /\ stored' = stored \cup {porter[h].key}
    /\ porter' = [porter EXCEPT ![h] = IF @.choose THEN [@ EXCEPT !.at = "choose"] ELSE Resting]
    /\ UNCHANGED <<folder, chosen, excused>>

\* PUT /products/:id/bundle: any key that has an object.
SetBundle(h, p, k) ==
    /\ k \in stored
    /\ Starts(h, Underway("choose", p, k, TRUE))
    /\ UNCHANGED <<folder, chosen, stored, excused>>

ChooseBundle(h) ==
    /\ porter[h].at = "choose"
    /\ Choose(h, porter[h].product, porter[h].key)
    /\ UNCHANGED <<folder, stored>>

DeletableAnyway(p, k) == k[1] = folder[p] \* mutant: the active bundle is not spared
\* A key under the product's own prefix, and not its active bundle.
Deletable(p, k) == k[1] = folder[p] /\ k # chosen[p]

\* DELETE /products/:id/bundles/:key; DeleteObject minds no missing object.
DeleteBundle(h, p, k) ==
    /\ Deletable(p, k)
    /\ Starts(h, Underway("delete", p, k, FALSE))
    /\ UNCHANGED <<folder, chosen, stored, excused>>

RemoveObject(h) ==
    /\ porter[h].at = "delete"
    /\ stored' = stored \ {porter[h].key}
    /\ excused' = excused \cup {p \in Products : /\ chosen[p] = porter[h].key
                                                 /\ p # porter[h].product \/ porter[h].crossed}
    /\ DoneCrossing(h, porter[h].key, {"choose"})
    /\ UNCHANGED <<folder, chosen>>

\* PUT /products/:id: name and category move the folder, not the objects in
\* it, and s3PackageKey is taken as it is given.
RenameProduct(p, d) ==
    /\ d # folder[p] /\ folder' = [folder EXCEPT ![p] = d]
    /\ UNCHANGED <<chosen, stored, porter, excused>>

NameBundle(p, k) ==
    /\ chosen' = [chosen EXCEPT ![p] = k]
    /\ excused' = excused \cup {p}
    /\ porter' = [g \in Porters |->
                    IF porter[g].at = "delete" /\ porter[g].key = k
                    THEN [porter[g] EXCEPT !.crossed = TRUE] ELSE porter[g]]
    /\ UNCHANGED <<folder, stored>>

\* S3 or the database fails, or the process stops.
PorterFails(h) ==
    /\ porter[h] # Resting
    /\ porter' = [porter EXCEPT ![h] = Resting]
    /\ UNCHANGED <<folder, chosen, stored, excused>>

BundleNext ==
    \/ \E h \in Porters :
         \/ \E p \in Products :
              \/ \E f \in Files, choose \in BOOLEAN : UploadBundle(h, p, f, choose)
              \/ \E k \in Keys : SetBundle(h, p, k) \/ DeleteBundle(h, p, k)
         \/ StoreBundle(h) \/ ChooseBundle(h) \/ RemoveObject(h) \/ PorterFails(h)
    \/ \E p \in Products : \/ \E d \in Folders : RenameProduct(p, d)
                           \/ \E k \in Keys : NameBundle(p, k)

BundleSpec == BundleInit /\ [][BundleNext]_bundleVars

-----------------------------------------------------------------------------

\* A signed link names the active bundle, unseen.
Downloads(p) == IF chosen[p] = NoBundle THEN {} ELSE {chosen[p]}

\* What a customer is given to download exists: in whatever order bundles are
\* uploaded, chosen and deleted and products renamed, the active bundle is in
\* the store, unless it was named by hand, its choice and its deletion crossed,
\* or it was deleted as a bundle of another product that has its folder.
DownloadsExist == \A p \in Products \ excused : Downloads(p) \subseteq stored
=============================================================================
