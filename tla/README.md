# License server: TLA+ models and proofs

The license server sells software: it issues licence keys, activates machines
and deployments against them, keeps subscriptions in step with Stripe, and
meters AI credits. It is an Express application over PostgreSQL (Prisma, READ
COMMITTED), Stripe webhooks and, optionally, Redis. Several replicas may run.
What makes it hard is what makes every such service hard: requests that
interleave between a read and a write, row locks taken after something was
already read, Stripe events that come twice, late or in another order, and
processes that stop between two writes.

The models are several: credits, licences, subscriptions and deployments, each
with runs of its own, and fifteen smaller components that share no state with one
another, gathered in two runs.

This directory holds TLA+ modules translated from the source, TLC
configurations that check them on small instances, and proofs checked by TLAPS.
Paths below are relative to the server's sources (`src/`).

## 1. Inventory

| Component | State | Operations | Meets | Correct when |
|---|---|---|---|---|
| Credit ledger (`services/credit.service.ts`) | `credit_balances` row per customer, append-only `credit_transactions` | reserve, release, consume, purchase (Checkout, portal, automatic refill), refund, adjust, configure refill | portal routes, webhooks, Stripe | no reservation settled twice, no key used twice, open reservations covered, the ledger explains the balance |
| Webhook intake (`routes/webhooks.ts`) | `processedEvents`, a Map of the process | one handler per event type | Stripe, credit and payment services | paid is credited, once |
| Licences (`services/license.service.ts`) | licence row (status, expiry, limits), activations | create, validate, activate, deactivate, status changes | every product that calls home | activations within the limit, statuses follow their causes |
| Desktop (`services/desktop.service.ts`) | activation rows, offline tokens | validate (activates), check-in, revoke | licences | the same limit on another path |
| Payments (`services/payment.service.ts`) | subscriptions, refunds | checkout fulfilment, subscription updated / deleted, payment failed, refund | Stripe, licences | an answered event had its effect, licences follow the billing |
| Usage reports (`services/payment.service.ts`) | `usage_records` | report usage | Stripe, its idempotency keys | a report is counted once |
| Deployments (`services/deployment.service.ts`, `routes/deployments.ts`) | deployment row (status, secret, machine), commands | enrol, validate, heartbeat, kill, register | licences, installed products | a killed deployment stays dead, a command is delivered |
| Team seats (`services/seat.service.ts`) and packs (`services/entitlement.service.ts`) | assignments, `seatsUsed`, packs, `seatCount` | assign, remove, invite, accept; grant and revoke packs | portal, admin | assignments within the quota, the quota is that of the packs |
| Add-ons and parents (`services/addon.service.ts`) | add-on rows, `parentLicenseId` | grant, revoke, set parent | licences, products | one grant in force, carried by right |
| Quotes (`services/quote.service.ts`) | quote row | create, revise, send, move, convert | admin, licences | one licence per quote, sane prices |
| Accounts (`services/customer.service.ts`) | password, failed-login count, lock, reset tokens | login, register, reset, change, invite | portal, automation | the lock counts every failure, a reset token works once |
| Sessions (`auth/jwt.auth.ts`, `config/redis.ts`, `middleware/idleTimeout.ts`) | blacklist and idle entries, in Redis or memory | login, refresh, logout, request | every route | ended is over, on every replica; not ended is not |
| Rate limiting (`middleware/rateLimit.ts`, `config/redis.ts`) | a counter per client, in Redis or memory | count a request | every route | a refused client is admitted again |
| Certificates (`services/agent`, `ca`, `crl`) | authority in Secrets Manager, a copy per process, certificate rows | enrol, revoke, build the list | agents, the Cortex | what is revoked is refused |
| Releases (`routes/adminReleases.ts`, `routes/updates.ts`, `services/release.service.ts`) | release rows, objects in the store | create, change, activate, upload, sign, serve | deployments | what is served verifies |
| Catalogue (`services/product.service.ts`) | product rows, products and prices at Stripe | create, price, delete, issue by hand | Stripe, licences | a licence keeps its product, Stripe sells what the rows say |
| Bundles (`services/storage.service.ts`, `routes/admin.ts`) | object store, `s3PackageKey` | upload, choose, delete, rename | customers' downloads | the active bundle exists |
| Staff and customer pools (`services/adminCognito`, `customerCognito`, `auth/cognito.auth.ts`) | users in Cognito, a customer row beside them | sign up, MFA, invite, disable, demote | every admin route | an administrator remains, the row says what the pool enforces |
| Idle timer (`public/idleTimer.js`, `public/app.js`) | `localStorage`, one page per tab | load, act, warn, log out, sign in | sessions | idle tabs end, active ones do not |
| Node client (`clients/node/src/index.ts`) | one cache file per licence | validate, activate, deactivate | validation routes | a withdrawn licence is refused in the end |
| Routes, e-mail, captcha, logging, web pages, seeds | nothing of their own | input and output | everything | not modelled (section 6) |

The hard behaviour is nearly everywhere the same: a handler reads, decides, waits
for something slow (a password hash, Stripe, S3, Secrets Manager, a mail server)
and writes by what it read. Where the code takes a lock, it has often read
something before; where it opens a transaction, READ COMMITTED lets two of them
read the same state. The hazards, each at its line, are listed in `PROJECT.json`
with the properties that cover them, or the reason why none does.

## 2. Plan

In the order of importance to the business of the server, and all of it done:

1. **Credits**: `CreditLedger`, its abstract account `PrepaidAccount`, the
   refinement in `CreditAccount`, the webhook side `CreditWebhooks`; proofs in
   `CreditLedgerProofs`.
2. **Activations**: `LicenseActivation` implementing `ActivationPool`; proofs in
   `LicenseActivationProofs`.
3. **Subscriptions**: `SubscriptionLifecycle`; proofs in `SubscriptionProofs`.
4. **Deployments**: `DeploymentLifecycle`; proofs in `DeploymentProofs`.
5. **The office** (`MCOffice`): `CustomerAccounts`, `Sessions`, `TeamSeats`,
   `Releases`, `AddOns`, `Certificates`, `Quotes`, `Catalogue`; proofs in
   `OfficeProofs` and `AccountProofs`.
6. **The front desk** (`MCFrontDesk`): `StaffPool`, `ClientPool`, `IdleTabs`,
   `RateLimiter`, `NodeClient`, `UsageReports`, `ProductBundles`; proofs in
   `FrontDeskProofs`.

What would come next: the cancel-at-period-end flag and trial dates of
subscriptions; entitlement tokens composed with the seats they are minted from
and the Node client with the statuses that `SubscriptionLifecycle` drives.

## 3. Modules

Each module is a component by itself: what it does not share it does not name.
`CreditWebhooks` composes Stripe's deliveries with the ledger, `CreditAccount`
the ledger with the account it implements, `SubscriptionLifecycle` the billing
at Stripe with licences, `DeploymentLifecycle` deployments with activations,
`TeamSeats` seats with packs. In the two gathering modules a variable `part`
picks the component that runs.

### CreditLedger

One customer's balance. `balance` is the `credit_balances` row, `ledger` the
committed `credit_transactions` in order, `calls` what each request handler
holds between two database steps, `charged` the purchases Stripe has the money
for, `jobs` the refills queued with `setImmediate`, and `streak` a history
variable that counts refills since the customer last acted.

A transaction is one step from its `SELECT ... FOR UPDATE` to its commit,
because every writer takes the same lock and reads the row again under it. What
is read before the lock and can change meanwhile is a step of its own:

| Code | Actions |
|---|---|
| `reserveCredits` | `ReserveLookup` (key), then `ReserveCommit` or `ReserveRefuse` |
| `releaseReservation`, `consumeCredits` | `Release`, `Consume`; `ConsumeRollback` is a commit that fails after the refill was queued |
| `addPurchasedCredits` | `StartPurchase` (key), `PurchaseFindBalance`, then `PurchaseCommit` or `PurchaseConflict` |
| Checkout, portal purchase, automatic refill | `CheckoutPaid` and `CheckoutLookup`; `DirectCharge`; `RefillCharge` or `RefillDeclined` |
| `configureAutoRefill`, `refundCredits`, `adjustCredits`, `getOrCreateCreditBalance` | `ConfigureAutoRefill`, `Refund`, `Adjust`, `OpenBalance` |
| database error, time-out, restart | `AbortCall`, `Restart` |

Abstracted: amounts are small integers, identifiers model values; the amount of
a row is its magnitude and the row type carries the sign (an adjustment carries
its own); `refillOn` stands for the enabled flag together with the package and
the payment method it needs; descriptions and usage figures are left out.
`Callers` says what the callers of `consumeCredits` do, not what the service
checks: `"any"` whatever the route takes, `"known"` only reservations they got,
`"bounded"` and no more than they reserved.

### PrepaidAccount and CreditAccount

`PrepaidAccount` is the promise: an account topped up once per payment, on which
an amount is held only while the funds cover every hold with it, and whose every
hold ends once, in a charge of at most its amount or in nothing. Nothing is kept
back from a withdrawal: a refund, or a correction downwards (`Withdraw`), may
leave the holds uncovered, and the charges that follow take the funds below zero.
So what the account promises of its funds is `HoldsCovered`: until something is
withdrawn the holds together are within them. Withdrawals and deposits end at
zero at the least (`Corrected`), although the comment at `credit.service.ts:849`
says of a refund that the balance "can go negative if user spent credits": the
line under it clamps with `Math.max(0, ...)`. `CreditAccount` maps the ledger to
the account: a hold is open while its RESERVATION row is not settled, a payment
is credited when its key is in the ledger, `withdrawn` is whether a REFUND or a
negative ADJUSTMENT row is. `ImplementsAccount` says that every step of the
ledger is a step of the account or a stutter, and that `HoldsCovered` holds.
`ReservedIsOutstanding` says that the running total `reserved_cents` is the sum
it stands for.

### CreditWebhooks

Adds Stripe's side to the ledger: events are delivered any number of times and
concurrently; `processed` is the Map `processedEvents`, looked up at arrival
(`Receive`) and written after the handler (`Acknowledge`); a handler that throws
answers 500 and is not entered (`HandlerFails`), a restart empties the Map
(`ProcessRestart`). `charge.refunded` takes the cumulative `amount_refunded`.
Only purchases made in the portal carry the metadata that routes a refund to
the credits.

### ActivationPool and LicenseActivation

`LicenseActivation` is a licence and the machines activated on it. `licence`
holds what a check reads of the row (status, whether `expiresAt` has passed,
`maxActivations`), `rows` the `license_activations` of each licence and machine
by their id, `tokens` the rows whose `offlineToken` is set. A call reads the
licence with its activations in one step, decides, and writes in another;
`calls` keeps what it read. Only the transaction that counts the activations
and inserts one holds the lock of the licence row; it is one step.

| Code | Actions |
|---|---|
| `activateLicense` | `ActivateLookup`, then `ActivateUpdate`, or `InsertFinds`, `InsertRow` or `InsertRefused` |
| `validateDesktopLicense` | `DesktopValidate` (its call of `validateLicense`), `DesktopRead` (it reads the licence again), the same insertion, `StoreToken` |
| `checkIn` | `CheckInLookup`, `StoreToken` |
| `deactivateLicense` | `DeactivateLookup`, `DeactivateDelete` |
| `revokeActivation` | `RevokeActivation` |
| an update or a delete of a row that is gone | `RowGone` |
| the answer; an error, a time-out, a stop | `Reply`; `AbortCall` |
| status, limit and expiry changes by administrators and the clock | `SetStatus`, `SetLimit`, `SetLapsed` |

What is stale when a call writes: the status and the expiry (a licence revoked
between the look-up and the insertion still gets the activation), the limit
(the transaction counts rows again but compares with the `maxActivations` read
before it) and the row (deleted, perhaps created again under another id). So
the limit that is kept is not the present one but `ceiling`, the largest the
licence ever had: an administrator who lowers a limit removes nobody, and a call
that read the old one may still enter under it. `CanSign` says whether the
process has a key to sign offline tokens: without one `checkIn` stores that
there is none, and a desktop validation stores nothing and answers as soon as it
has its row (`desktop.service.ts:185`). Names of machines, platforms, IP addresses and time stamps are
left out.

`ActivationPool` is the promise: a pool that is open makes offers priced with
its capacity, an offer is renewed, taken or declined, members leave.
`ImplementsPool` maps a call that is on its way to a new row to an offer; it says
that no path, lock or stale read lets a machine in that was not offered a place,
or beyond the number of places it was offered under.

### SubscriptionLifecycle

The subscriptions and licences of one customer, and Stripe's events about them.
`events` is what Stripe emitted, in order; `answered` the events it has a 200
for (it is also `processedEvents`, as far as this server answered); `subs`,
`licences` and `refunds` are the tables; `known` says whether a customer row
with the Stripe id exists; `removed` says which products were deleted;
`calls` is what each handler holds between two statements. Except in the checkout, every statement of a handler commits by
itself, so each is a step:

| Code | Actions |
|---|---|
| `handleCheckoutCompleted` | `CheckoutLookup` (outside the transaction; answers at once what is not `Fulfillable` or has its licence), `CheckoutIssue` or `CheckoutConflict` (the product is gone by then) |
| `handleSubscriptionUpdated` | `UpdatedLookup`, `UpdatedWrite` or `UpdatedConflict` (the row appeared meanwhile), then for an active one `SubScope`, `Apply` |
| `handleSubscriptionDeleted`, `handleInvoicePaymentFailed` | `DeletedWrite`, `FailedWrite`, `SubScope`, `Apply` |
| `handleChargeRefunded`, `revokeLicensesForRefund` | `RefundList`, `RefundRecord` per refund, `RefundRecorded` (partial) or `RefundScope`, `Apply` |
| `licensesForSubscription`, `transitionLicensesForSubscription` | `SubScope` counts, `Apply` updates what matches by then |
| a throw, a time-out, a stop | `HandlerFails` |
| administrators | `SetByHand`, `DeleteProduct` |

`billing` and the actions `Subscribe` to `Refund` are Stripe, as far as the
server can tell: a subscription is created and then paid for, falls due, is
paused, given up, renewed or canceled, with the events that go with it. An
`updated` event carries the status of the moment it was emitted, the others say
only whom they are about, so an event that comes late tells of the past. The
reception of an event is merged with its handler's first statement and the
answer with its last: between them nothing is read or written. Mails and calls to
Stripe in the middle of a handler can only fail, which `HandlerFails` covers.

A checkout is `Fulfillable` when its session has an address, a product and a
Stripe customer (`Whole`) and the product still exists; any other is logged and
answered, and no licence is ever made for it. Sessions of one-time purchases are
created without asking Stripe for a customer, so a session that is paid and not
`Whole` is a state of this system. Subscriptions come with a customer.

Abstracted: products are two model values; a licence without a subscription is
a one-time purchase here, and stands for what administrators issue, which has
the same fields (`createLicense` leaves `licenseTerm` at its default). Two
history variables carry what the tables do not say: `revoked`, the refunds
whose licences have been updated, and `undisturbed`, that every event so far
came in its turn (all before it answered, none after it, no other in progress)
and no administrator meddled. Failures leave a history undisturbed, since the
retry comes before the next event.

### DeploymentLifecycle

The deployments of installed products. `deployments` is the table (`Absent`
stands for no row), `commands` the command queue, `activations` the pairs of
licence and machine in `license_activations`, `inForce` whether a licence is
ACTIVE and not expired. `held` and `received` are the installations: the secret
a machine was told for a deployment, and the commands that reached it. `calls`
is what each handler holds between two statements.

| Code | Actions |
|---|---|
| `enrolDeployment` | `Enrol` (`validateLicense` and the look-up of `activateLicense`), `Renew` or `Insert`, `Find`, `Free` when the machine leaves a licence, `Upsert` |
| its answer, which returns the secret once | `Tell` |
| `POST /heartbeat` | `Heartbeat` (row, signature, kill flag), `Fetch`, `Mark`, `Answer` |
| `POST /register`; `validate` for an unknown deployment outside production | `Register`; `AutoRegister` |
| `POST /:id/kill` | `Kill` |
| a throw, a time-out, a stop | `CallFails` |
| administrators and other programs in the database | `SetByHand`, `SetInForce`, `Deactivate`, `Enqueue` |

`Register` and `AutoRegister` look the id up and insert it in two statements,
but the primary key rejects an insert that comes too late, so each is one step.
The activation is one step under its row lock; `LicenseActivation` is about the
rest. A secret is the number of its minting, 0 if there is none: a signature is
right when the numbers agree. Every secret is minted anew, also when an
administrator passes one to `Register`. Nothing in the server queues commands;
they come from outside. Last-seen times, metrics, versions and metadata are left
out, and so are the answers of `validate`, which change nothing else.

A machine that is refused by `Find` keeps the activation it was given before,
and two deployments of one machine on one licence share one activation, so that
moving one of them to another licence takes the place of both. That is why the
properties about places and secrets speak of machines in `orderly`: those that
have run one deployment, with one call at a time, and lost none. `outdated` are
the handlers whose deployment changed between their look-up and now; `lost` the
commands in an answer that a failure cut off.

### CustomerAccounts

The customer rows with their passwords, the failed-login count and the lock, and
the reset tokens. `requests` is what a handler has read and is about to write; a
password takes a quarter of a second to hash, so the read and the write are
steps apart. `wrong` counts what the count should count, `serial` says whether
some write crossed a login's read and write, `resetBy` what each token did.

| Code | Actions |
|---|---|
| `authenticateCustomer` behind `POST /auth/login` | `Login`, `ClearLapsedLock`, `RejectPassword` or `AcceptPassword` |
| `createCustomer` for registration, automation and `ensureAdminExists` | `Register`, `CreateForAutomation`, `EnsureAdminExists`; `CreateCustomer`, or `CreationRefused` by the unique address |
| invitations; `createExternalCustomer` | `AcceptInvite`; `PostExternalCustomer`, `WriteExternalCustomer` |
| `createPasswordResetToken` | `ForgotPassword`, `InvalidateResets`, `IssueReset` |
| `resetPassword`; `PUT /me` | `ResetPassword`, `ApplyReset`; `ChangePassword`, `ApplyChange` |
| clocks; an error or a stop | `LockLapses`, `ResetLapses`; `RequestFails` |

A login that finds a lapsed lock clears it in the row and then counts on from the
copy it had read, so the first wrong password after a lock locks again:
`CountsFailures` says what follows for the account.

### Sessions

Access and refresh tokens over replicas that share Redis while they are
connected, and keep blacklist and idle entries in their own memory while they are
not. A token is a grant and a kind. `spent` are the unexpired tokens that a
logout or a rotation has answered for, `idled` the grants whose idle entry ran
out, `steady` says that no store has failed yet, and `crossing` are the grants
whose idle entry a request still wrote after a logout had dropped it, because it
had passed the check before.

| Code | Actions |
|---|---|
| logins (`seedSession`) | `LogIn`, or `LogInUnseeded` when the store fails |
| `authenticate`, then `idleTimeout` | `Authenticate`, `CheckIdle`, `Touch`; `IdleFailsOpen` |
| `POST /auth/logout` of the portal, `JWTAuthProvider.logout` | `RevokeAccess`, `RevokeRefresh`, `ClearAndAnswer`; `RevokeFails` |
| `POST /logout` of `auth.ts` | `UnifiedLogout` |
| `verifyRefreshToken`, `rotateTokens`, the answer | `VerifyRefreshToken`, `RotateTokens` (or `RotateUnlisted`), `IssueRotated` |
| clocks, the connection, a stop | `BlacklistEntryExpires`, `IdleEntryExpires`, `TokenExpires`, `ConnectionChanges`, `CallFails`, `Restart` |

With own tokens (`provider = "jwt"`) the blacklist refuses what was ended, whatever
the idle entries say. Under Cognito the idle entry alone does, and `idleTimeout`
checks it and writes it again in two steps: a request in flight while a logout
drops the entry puts it back, and the session goes on until the token expires or
sits idle. `OverWhenEnded` says so (`crossing`), although the comments promise
"Logout calls clearSession(jti) to invalidate immediately"
(`middleware/idleTimeout.ts:16`) and to drop the session "so the same jti cannot
be reused" (`config/redis.ts:286`). Nor does one refresh token rotate only once:
two rotations that overlap both pass the check and both issue a pair.

Once a store was out of reach the code promises nothing (it fails open on
purpose), so the property speaks of steady histories only and the run does not
explore past the first outage.

### TeamSeats

One team licence: `seatCount`, `seatsUsed`, the assignments, the packs.
Transactions read at their start and commit later, and two of them may read the
same state; `desk` holds what each has read. `overbooked` and `outOfStep` say
since when, and why, the numbers may disagree, `lapsed` are the packs that ran
out since `seatCount` was written.

| Code | Actions |
|---|---|
| `assignSeat`, one by one and from `bulkAssignSeats` | `AssignSeat`, `BulkAssign`, `BulkGoesOn`, `CommitSeat` |
| `removeSeat` | `RemoveSeat` |
| `acceptSeatInvite`, `resendSeatInvite` | `OpenInvite`, `AcceptSeatInvite`, `WriteAcceptance`; `ResendSeatInvite`, `WriteResend` |
| `grantPack`, `revokePack` | `GrantPack`; `FindPack`, `RevokePack`; `CommitPack` |
| `validUntil` passes; an error or a stop | `PackExpires`; `TaskFails` |

The first pack overwrites the `seatCount` the licence was issued with, and a pack
that runs out rewrites nothing until the next grant or revocation: `seatCount` is
then the total of the packs in force *and* of those `lapsed`, and that is what
`SeatsAddUp` says of it. `prisma/schema.prisma:295-296` calls it the "running sum
of unexpired pack sizes", kept in sync on every grant, revocation and expiry; the
code has no step for the last. Two transactions under READ COMMITTED may both see
the last free seat, where `seat.service.ts:78` and `:111` speak of atomic ones:
`overbooked` marks that, and `raced` an acceptance or a total that went the same
way.

### Releases

The releases of one product and the objects they point to. No route opens a
transaction, so deactivating the others, writing the row, uploading, recording
the file and signing are steps of their own; `job` holds what a handler read.
A signature is the manifest it covers, a hash the body it was computed from.

| Code | Actions |
|---|---|
| `POST /releases`, `PUT /releases/:id`, `POST /releases/:id/activate` | `CreateRelease`, `UpdateRelease`, `ActivateRelease`; `Deactivate`; `WriteCreated`, `WriteUpdated`, `WriteActivated` |
| `DELETE /releases/:id` | `DeleteRelease` |
| `PUT /releases/:id/artifact` and `/artifacts/:component` | `PutArtifact`, `PutComponent`, `UploadObject`, `RecordComponent` |
| `DELETE /releases/:id/artifacts/:component` | `DeleteComponent`, `RemoveComponent` |
| `signatureFor`, `artifactsOf` | `ReadParts`, `SignRelease` |
| `POST /updates/download`, `/bootstrap` | `Served` (an operator: it only reads) |
| an error or a stop | `JobFails` |

`POST /releases` deactivates the active release before it inserts, also when the
insertion is then refused because the version exists.

### AddOns

Licences with their products' codes, standing, parent links and add-on rows.
`officer` is what a handler has checked and is about to write.

| Code | Actions |
|---|---|
| `grantAddOn`, `revokeAddOn`, `setParent` | `GrantAddOn`, `CreateGrant`; `RevokeAddOn`, `WriteRevocation`; `SetParent`, `WriteParent` |
| `PUT /products/:id`, `updateLicense`, the clock | `EditProduct`, `ChangeStanding`, `GrantExpires` |
| an error or a stop | `MatterFails` |

`Carries` and `Inherits` are `effectiveFeatures`: what a validation answers.

### Certificates

The authority in Secrets Manager, the copy each process keeps for good, the
certificate rows and the list a Cortex holds. A call that finds no authority
generates one and stores it, with nothing held in between: two processes may
each make one (`crossed`).

A serial is a number. The agent's service puts a zero byte before one whose first
byte has its high bit set (`Padded`), so that it is read as positive; the list
builder strips that byte again and writes what is left (`agent.service.ts:80-84`,
`crl.service.ts:83`, `:118-123`). What stands on the list for a `Padded` serial is
therefore another, negative INTEGER (`OnWire`), and a Cortex that compares numbers
(`Refused`) does not find the certificate: about half of the revoked certificates
go on being accepted. `RevokedIsRefused` states both halves of this. The comments
say "positive serials encoded this way are fine" (`crl.service.ts:121`) and, of a
revocation, "next CRL build will include it" (`crl.service.ts:131`).

| Code | Actions |
|---|---|
| `ensureCA` | `AskFor`, `UseCached`, `LoadSecret`, `StoreSecret`, `KeepBundle` |
| `enrollAgent`, its answer | `SignCsr`, `HandOut` |
| `revokeAgentCertificate` | `RevokeAgentCertificate` |
| `buildCRL`, `GET /agents/crl` | `BuildCrl`, `SendCrl` |
| clocks, restarts, errors | `CertificateExpires`, `ListLapses`, `RestartProcess`, `CallBreaks` |

### Quotes

A quote row with its prices. `BasePrice`, `VolumeDiscount`, `YearsDiscount`,
`Discount` and `FinalPrice` are `calculatePricing`, in cents;
`CreateQuote` and `DuplicateQuote` store what they return. `SendQuote` and
`MarkSent` have the mail server between them; `ConvertQuote`, `IssueLicence` and
`MarkConverted` are `convertQuoteToLicense`; `UpdateQuoteStatus` is the change by
hand, which looks at nothing; `QuoteLapses` is `validUntil`; `ErrandFails` an
error. The stored discount need not be the one the price was computed with;
twenty seats may cost less than nineteen; a REJECTED quote can be converted, and
a status set by hand can reopen a CONVERTED one. None of that is ruled out by
any comment or test, and none of it is asserted here.

### Catalogue

Product rows, what Stripe keeps for them, and the licences issued by hand or for
tests. A creation asks Stripe first and inserts the row last (`CreateProduct`,
`MakeStripeProduct`, `MakePrice`, `MakeAnnualPrice`, `InsertProduct`); a deletion
looks for licences first, archives at Stripe and then removes the row, and the
database removes with it whatever licence was issued meanwhile (`DeleteProduct`,
`ArchiveProduct`, `RemoveProduct`, `onDelete: Cascade` of the schema). `SetPricing` is
`PUT /products/:id`, `AddMeteredPrice` and `WriteMeteredPrice` the metered price,
`IssueByHand`, `FindTester`, `CreateTester` and `IssueTest` the two ways to issue.
`ManagerFails` is any failure, after which a product may be `adrift`: Stripe has
done its part and the row does not know.

### StaffPool and ClientPool

The Cognito pools as the server drives them. Cognito is external: a user's state
changes as it documents for the commands that are sent. What a token says stays
true to this server until it expires, whatever happened to the role. The
sign-out that follows the disabling of an administrator is not a step: the pool
grants nothing to a disabled user and a token verified offline lives on, whether
it gets there or not.

A sign-up reserves the customer row by the address whatever the pool has, so a
row may be made beside a user who enforces TOTP already (`late`). The token names
the user as the pool does, which need not be how the row spells the address: then
the update that should mirror the MFA preference finds nothing (`Found`), and its
failure is swallowed. `MfaMirrored` says what is left: a row that is found and
was there agrees with the pool, any other has no date.
`docs/agencioaws/CUSTOMER_AUTH.md:154` has a verified TOTP set the preference and
the column, without such conditions.

| Code | Actions |
|---|---|
| `adminCognito.login`, challenges, TOTP set-up | `AdminLogin`, `RespondNewPassword`, `StartMfaSetup`, `CompleteMfaSetup`, `EnforceMfaPreference`, `RespondTotp` |
| `hasTotpEnforced` and its cache | `HasTotpEnforced`, `MfaCacheLapses` |
| `inviteAdmin`, disable, remove role, reset | `InviteAdmin`, `AddInvitedToGroup`, `DisableAdmin`, `RemoveAdminRole`, `ResetAdminPassword` |
| customers' sign-up (two routes), confirmation | `ReserveRow`, `SignUp`, `LinkRow`, `UnifiedSignUp`, `ConfirmSignUp`, `JoinCustomerGroup` |
| customers' login and MFA preference | `CustomerLogin`, `AnswerTotp`, `SetMfaPreference`, `MirrorMfa` |
| expiry; an error or a stop | `TokenRunsOut`, `AccessEnds`; `StaffRouteStops`, `RouteStops` |

### IdleTabs

The tabs of one browser. `token` and `quiet` are what `localStorage` holds (the
token's login, how long ago activity was recorded); each tab keeps the token it
loaded in a variable it never reads again from storage. A tab runs one handler
at a time, another tab's handlers may run between two of its writes, and storage
events arrive later (`FollowLogout`, `IgnoreEvent`). `check` is `Warn` and
`IdleLogout`, `performLogout` ends in `FinishLogout`, a 401 answer is
`AskedLogout`; `clearAuthState`, `applyTokens` and `onLogin` are the page's side.
Mouse movements do not touch the server's idle entry; a warning in another tab
is not hidden by activity here; a page loaded during another tab's logout keeps
the token; and `clearAuthState` tells no other tab. The answer to a login is
applied whatever the page is doing (`ApplyTokens`, `app.js:717-724`, `755-764`):
in a page that follows another tab's logout the login is stored, `onLogin` resets
`loggingOut` (`idleTimer.js:290-294`), and the `done()` that was to come for the
old session then removes the new one (`idleTimer.js:165-175`). `crossedOver` are the
logins that met the end of another in such a way; nobody asked to end them, and
they may be gone.

### RateLimiter

`checkRateLimit`, command by command: `Serve` performs the next of `INCR`,
`PTTL` and `PEXPIRE`, between which other servers' commands come and the server
may stop (`StopServer`), or counts in the memory of a server without Redis.
`RedisFails` and `SwitchConnection` are the fall-back, `Elapse` is time,
`Request` a client that asks again.

### NodeClient

The processes of one machine share a cache file. `Call`, `CallActivate` and
`CallDeactivate` begin a call; `Steps` are what it does between awaits: answer
from the cache, ask the server, write the file, fall back to the file when the
network fails or the file cannot be written (`FallBack`, `CacheWriteFails`), clear
it. `LicenceChanges` is the server's side, `TimeGoesOn` ages
the file.

### UsageReports

`reportUsage`: `PostUsage`, `LookUpRecord`, `CreateUsageRecord` (Stripe, under the
idempotency key), `StoreRecord`; `ReportFails` anywhere in between, `KeyLapses`
when Stripe forgets a key. A report whose key lapsed before its row was stored
is `exposed`: it can be counted twice.

### ProductBundles

`UploadBundle` and `StoreBundle`, `SetBundle` and `ChooseBundle`, `DeleteBundle`
and `RemoveObject` each have the object store between them; `RenameProduct` and
`NameBundle` are `PUT /products/:id`, which may change the folder and takes a key
unchecked; `PorterFails` is an error. Names that differ may give one folder,
and then two products share their bundles.

## 4. Runs

| Run | Configuration | Shows |
|---|---|---|
| `credit_ledger` | two handlers, two reservations, one Checkout session, one refill, amounts 1..2, a ledger of five rows, an adjustment of -1 | settlement, ledger chain, cover of open reservations, the reserved total, the refinement of the prepaid account |
| `credit_overdraft` (violation) | callers that consume what the call cost | the balance goes below zero: "Prevents overdraft" (`credit.service.ts:155`) holds only while callers keep to their reservation |
| `credit_refills` (violation) | one handler, two refills, a cap of one | the cap never bites: a refill resets the counter meant for "manual purchase" (`credit.service.ts:525`) |
| `credit_webhooks` | two sessions, a portal purchase, two faults | no key enters the ledger twice, and every paid session is credited |
| `webhook_refunds` (violation) | one handler, no fault, one purchase refunded in two parts | the second event deducts the first refund again |
| `license_activation` | two handlers, three machines, one licence with a limit of one or two, three row ids, two changes | the ceiling, granted calls have their row and token, the pool |
| `subscription_lifecycle` | two handlers, two subscriptions, one sold in a session, and two one-time purchases, one by a buyer without a Stripe customer; three events; one failure, redelivery, administrator's change or deleted product | answered events had their effect, a checkout without a licence is one whose session lacks data or whose product is gone, ended licences stay ended, linked licences change by their own events, licences follow the billing |
| `foreign_licences` (violation) | one handler, nothing out of order | the events of a subscription that has no licence yet change licences it did not pay for, which the comment at `prisma/schema.prisma:186` excludes |
| `deployment_lifecycle` | two handlers, two machines, two licences with one place each, one deployment id, two commands, three secrets, one failure or change by other hands | only an enrolment that had looked it up before revives a killed deployment or takes one over; delivered commands were in an answer; machines in good order keep their place and their secret |
| `killed_deployment` (violation) | one handler, one machine, nothing fails | an enrolment in flight makes a killed deployment ACTIVE, against `docs/DEPLOYMENT-GUARD.md:177` |
| `office` | two handlers in each of eight components, one component per behaviour | below |
| `front_desk` | one small instance of each of seven components, one component per behaviour | below |

What `office` shows, component by component:

| Property | Instance | Shows |
|---|---|---|
| `CountsFailures` | one address, two passwords, a lock after two failures, three wrong passwords | the count is exact and the lock follows it, but for logins whose read and write were crossed |
| `ResetsReplaceEachOther` | two reset tokens | a token works once and a newer one retires it, but for requests that crossed |
| `OverWhenEnded` | two replicas with Redis, or one without; two grants | an own token that was ended is refused on every replica; under Cognito the idle entry is gone but for a request in flight; what was not ended is known |
| `SeatsAddUp` | two users, packs of one and two seats, two invitations | `seatsUsed` counts the assignments; `seatCount` is the packs in force and those that ran out since, but for stale reads |
| `ServesOneThatVerifies` | two releases, two versions and one channel, one component, four requests | one active release, and what is served verifies |
| `CarriedByRight` | two licences, two tenants, two grants | one grant in force, carried and inherited by right |
| `RevokedIsRefused` | two processes, two authorities, one certificate with a serial that needs the zero byte or one that does not | a revoked certificate is refused by every list asked for afterwards exactly if its serial needs none |
| `QuoteSellsOnce` | two quotes, an order of ten seats for three years | one licence per quote, CONVERTED exactly when sold |
| `LicencesKeepTheirProduct` | one product, two licences, every kind of listing | licences and Stripe agree with the product rows |

And `front_desk`:

| Property | Instance | Shows |
|---|---|---|
| `AdminsRemain` | two administrators | the pool keeps one, unless somebody acted on rights already lost |
| `MfaMirrored` | one customer, two handlers | a row that is found, and older than the preference, says what the pool enforces |
| `UsageCountedOnce` | two reports, two handlers, keys that lapse twice | counted once however often repeated |
| `DownloadsExist` | two products (one keeps its name), two folders, one file, two handlers | the active bundle is in the store, unless its choice and deletion crossed or it was named by hand |
| `EndsOwnSession`, `IdleTabsEnd` | two tabs, two logins, a time-out of three ticks | a login ends only when something asked for its end or it crossed the end of another, and a tab left alone is signed out in the end |
| `AdmittedAgain` | two servers, one client, one stop, a limit of one in two ticks | who was refused is admitted again, also when the counter was left without an end |
| `WithdrawnIsRefused` | two processes, a cache good for one tick and two of grace | a withdrawn licence is refused in the end by every process |

Every module with state has one type invariant, in its own run or as a part of
`OfficeTypesOK` and `DeskTypesOK`; those of the ledger and of subscriptions are
proved (section 5) and not run, and `CreditWebhooks` relies on the ledger's.

Bounds. Two handlers are enough for every race between a read and a lock, since
a lock serialises the rest; two reservations let one hold be damaged by the
settlement of the other; a package of 2 with a bonus of 1 and a threshold of 1
lets the balance cross the refill threshold and be too small for a second hold.
Five rows hold two reservations, a settlement and a purchase with its bonus.
`MaxJobs` bounds only
refills queued by transactions that roll back, `MaxFaults` aborted handlers and
restarts. Every run sets `CHECK_DEADLOCK FALSE`: the ledger bound, and in reality
the callers, may leave nothing to do.

For activations, two handlers race for the last place while a third machine
holds the first, and an administrator can lower and raise the limit or revoke
and reinstate the licence meanwhile (two changes). A row id may be used again
once nobody knows it; with a limit of two there are at most two rows, or one row
and one id still held by a handler whose row was deleted, so three ids never run
out. Handlers, machines and ids are symmetric: only safety is checked there.

For subscriptions, three events make every pair of handlers meet with a licence
that an earlier event issued, and hold a checkout, a failed payment and the
update that follows. One mishap lets an event come again after another has
been handled, or a handler stop between any two statements; with two mishaps
(6.7 million states) nothing new appears. Handlers are symmetric, and only
safety is checked, without fairness: after events out of turn the code promises
nothing about where the licences end up.

For deployments, three secrets let one deployment be enrolled by two machines, or
moved by one machine to another licence and taken over, while it is registered
or killed; the second command is queued while the first is being delivered. With
one id no machine runs two deployments; the configuration with two ids, one
licence and one command (4.6 million states) passes as well and takes too long
to be kept beside this one. Handlers, machines, licences and commands are
symmetric, and only safety is checked.

`office` has 0.7 million states. Its components run alone, so they share the
names of handlers (`Hands`) and of the ids no property tells apart (`Ones`), and
both sets are symmetric. The constraint `Bounded` cuts sessions after a store has
failed, add-ons whose product was edited under them and certificates after two
processes have each stored an authority, where the properties claim (next to)
nothing, and one certificate at most is enrolled, of either kind; every product is
a starting point instead, and so is each way sessions are kept. It also keeps small what a store remembers of tokens that have expired,
invitations and packs together, and wrong passwords and reset tokens together:
three wrong passwords without a reset, two with one. Four requests begun let two
changes of a release cross two uploads; `MaxSales` and `MaxGenerated` are two
because the third licence or authority differs from the second in nothing.
Nothing is fair there and only safety is checked.

`front_desk` has 164 thousand states and no symmetry, since it has liveness
properties. Three ticks to a time-out let a tab act, warn and come too late; two
logins let one be ended while another begins; one stop of a server leaves one
counter without an end, and the next request repairs it, so a second stop would
repeat the first. One of the two products is never renamed (`Unmoved`): whether
they share a folder is the other's doing. A file older than the cache and the grace together is as old
as any.

Fairness. `CreditWebhooks`: Stripe retries an unanswered event for days, so
delivery is weakly fair for each event; a handler that has started runs on, so
its steps are weakly fair. Faults are bounded because a retry schedule outlasts
them; nothing is assumed of customers or administrators. The portal purchase
losing the first-balance race, for instance, has no liveness property: the code
gives it none.

`IdleTabs`: time passes, the `setInterval` of an open page fires (`IdleLogout`),
a posted storage event arrives (`FollowLogout`) and a handler that began ends
(`FinishLogout`, `OnLogin`), each weakly fair; nobody has to act, warn or sign in.
`RateLimiter`: time passes and a server carries out the commands of a request it
has begun (weakly fair; a stop ends the request); a client keeps asking
(`Request`, strongly fair, since a server is busy with one request at a time) and
`AdmittedAgain` claims nothing of one that does not ask. `NodeClient`: time
passes, a call goes on because `fetch` ends with an answer or an error (the client
sets no limit of its own, Node's are minutes; weakly fair), and the processes
keep calling (strongly fair, since a call must be over before the next).

## 5. Proofs

Every safety property that a passing run checks is also a theorem, for every
value of the constants: any number of handlers, customers, machines, events,
keys, releases, and any bound. What stays with TLC is liveness, below. Each
theorem about states rests on an inductive invariant, named here; the newer
ones were checked by TLC on the runs' instances before they were proved.

`FiniteSums` holds what the ledger and the seats need of sums over finite sets.
`MapThenSumSet` of the community modules is a recursion whose order `CHOOSE`
fixes, and induction over data is out of the provers' reach; instead, were two
such recursions to differ, they would on a smallest subset (the strict subset
order on a finite set is well-founded), and there they cannot. From that follow
that the sum exists, is a natural number, loses exactly the element taken out
(`SumRemove`), grows by the one put in (`SumAdd`) and depends on the values
only (`SumSame`, `SumMoved`).

`CreditLedgerProofs` proves, for every set of handlers, keys and reservations,
every package and every bound:

- `TypeCorrect`: `Spec => []TypeOK`, one step per action.
- `SettlementUnique`, `KeyUnique`, `ChainUnbroken`: from the inductive
  invariant `LInv`, which says of the ledger as a sequence that settlements,
  reservations and keys are unique and that rows chain. `InsertKeeps` shows that
  inserting a row the operation has checked (`Admits`) keeps it; a purchase with
  its bonus is two applications of that lemma.
- `OverdraftPrevented`: `Spec => []NoOverdraft`. Not inductive alone: releasing
  must take off the reserved total exactly what the reservation put on. `HInv`
  adds that the reserved amount is the sum of the outstanding reservations
  (`Held`); inserting a reservation adds a summand, settling one removes it.
- `ReservedKept`: `Spec => []ReservedIsOutstanding`, the same sum as
  `CreditAccount` writes it.
- `WebhooksKeepLedger`: all five of these properties also of `WebhookSpec`, where
  Stripe's events drive the ledger. A step of the webhook is a step of the
  ledger, a stutter, or a refund of an amount that is Stripe's and not a
  caller's (`WebhookShape`); `RefundsFit` says that a refund being handled is one
  that Stripe has made. Nothing in the argument uses `processedEvents`: it is the
  unique index on the key that makes a purchase count once, and reservations are
  settled once because the transaction looks again.
- `AccountImplemented`: `Callers = "bounded" => (Spec => ImplementsAccount)`, each
  step a step of the account or a stutter, and its holds covered until something
  is withdrawn. The
  invariant `AccountInv` adds `RequestInv`, that what is in flight comes from
  requests (a reservation has a positive amount and a key that is no
  purchase's). `AccountHolds` shows that what the account holds is
  `reserved_cents`; then one lemma per operation says which operation of the
  account it is (`ReserveShows`, `ConsumeShows`, ...). The hypothesis is the
  one under which the code can keep the promise at all: the run
  `credit_overdraft` shows what happens without it.

The assumptions are `NatParameters` and `KeysDisjoint` of `CreditLedger` (the
prefixes `checkout:` and `pi:` and the reservation keys of callers do not meet)
and `WebhookBounds`.

`LicenseActivationProofs` proves, for every set of machines, handlers, licences
and row ids and every limit:

- `ActivationTypes`: `Spec => []TypeOK`.
- `LimitKept`: `Spec => []WithinLimit`. The comparison in `InsertRow` is with
  the limit the call holds, which is neither the present limit nor the ceiling;
  the invariant `LimitInv` adds `CeilingHolds`: the present limit and every limit
  a call holds are at most the ceiling. Then one more row than fewer-than-limit
  is within it. Finite cardinalities come from `FiniteSetTheorems`, hence
  the finiteness of `Machines` in `ActivationParameters`.
- `PoolImplemented`: `Spec => ImplementsPool`, with one step per action; the
  lemmas `OfferStart`, `OfferChange`, `OfferEnd` and `OfferKnown` say what a step
  of a call does to the offers it is mapped to, and `SameCardinality` that the
  pool counts as the tables do.
- `GrantsAreHeld`: `Spec => GrantsHeld`. Only four actions end in a success, and
  each writes or looks up the machine's row in the same step (`GoesOnWithItsRow`);
  the types are all the invariant it needs.

`SubscriptionProofs` proves, for any number of handlers, sessions,
subscriptions, events and licences:

- `SubscriptionTypes`: `Spec => []TypeOK`.
- `AnsweredEffect`, `EndedKept`, `LinkedKept`: the three properties of what a
  single step may do. They speak of one step but not of a step alone: which
  licences `Apply` takes is decided by a scope chosen in an earlier statement,
  for an event read in a still earlier one. The invariant `SInv` remembers it:
  `StepsFit` says that a handler's next statement fits the kind of its event,
  and that the scopes by product and by customer are chosen for refunds only,
  and `EventsFit` that a checkout event names its session. `StepShape`,
  `ApplyChanges` and `OthersKeep` then leave `Apply` as the only step of a
  handler that changes a licence.
- `BillingFollowed`: `Spec => []FollowsBilling`. Licences follow the billing only
  once every event is answered, so the invariant has to say what they are in
  between, and on both sides. At Stripe (`StripeAgrees`): the last event that
  tells of a subscription is one its billing agrees with, nothing tells of a
  deleted one, and a subscription is checked out once, by its own session. Here,
  as long as nothing disturbed the history (`InStep`): the first `k` events are
  answered and at most one handler is busy, with the next (`OneByOne`); it
  reactivates only for an active status and takes the licences of its
  subscription as soon as there is one (`WellAimed`); and each licence that names
  its subscription has the status that the last of the `k` events to tell of it
  asks for (`AsTold`). A licence changes only in the last statement of a handler,
  the one that answers, so the licences and `k` move together.

The assumption is `SubscriptionParameters`.

`DeploymentProofs` proves, for any number of handlers, machines, licences,
deployments and commands:

- `DeploymentTypes`: `Spec => []TypeOK`. `DInv` adds what a call must hold for its
  next step (`Fits`): the licence it enters, a secret already minted, an old
  licence other than the new one.
- `KillsHold` and `MachinesHold`, the two properties of what a step may do to a
  deployment. They follow from `FoundStands`: a handler that is past its look-up
  and not outdated would find now what it found then, a deployment it may have.
- `CommandsCarried`: `Spec => []DeliveredIsCarried`, inductive together with the
  types.
- `PlacesCounted` and `SecretsKnown`: `Spec => []RunsCounted` and
  `Spec => []CanSign`. Both hold only between calls, so the invariant `Sound`
  describes a machine in good order in the middle of one: its only enrolment is
  for the deployment it runs; from the activation on it is counted by the licence
  it enters; while it is `Late`, between look-up and answer, it may be counted by
  neither and know no secret, and just before the answer its row, if still its
  own, has the licence and the secret of the call. `SoundFrame` covers every
  step of others, `SoundEnrol`, `SoundBefore` and `SoundAfter` the machine's own.

The assumption is `DeploymentParameters`.

`OfficeProofs` proves, for five components of the office:

- `RightlyCarried`: `AddOnSpec => []CarriedByRight`. `CheckedStands` says that what
  a handler checked still holds for licences whose product nobody edited,
  `OneGrant` that a second active grant comes only from a race, `LinkedAlike` that
  a parent belongs to the same customer.
- `RevocationHolds`: `CertSpec => []RevokedIsRefused`. Until two processes have each
  stored an authority there is one (`OneAuthority`): every copy, every row and
  every certificate under way is its own; `ListFits` says that a list holds what
  was revoked when it was asked for, as it is encoded; that the encoding takes
  each serial to a number of its own (`OnWire` subtracts a modulus that no padded
  serial reaches) makes the refusals exact, in both directions.
- `RowsSell`: `CatalogueSpec => []LicencesKeepTheirProduct`. A handler that creates
  a product has it for itself (`ManagersFit`), Stripe's side follows the handler
  step by step (`ShelfFollows`), and whoever deletes a product has found no
  licence of it, so there are only those issued since (`CopiesStay`).
- `SeatsCounted`: `SeatSpec => []SeatsAddUp`. `TaskFits` says what a read that
  nothing has outdated is still good for: an assignment has room, and a
  transaction on a pack has the quota there will be, a sum over the packs in
  force and the one that joins or leaves them, and over those that ran out
  since. `AcceptedOnce` follows an
  assignment from the mail to its acceptance, and `IdsKept` says that no
  invitation names two.
- `ServedVerifies`: `ReleaseSpec => []ServesOneThatVerifies`. The property is about
  rows and objects; what it rests on is what each clerk holds. `Cleared`: until
  another activation crosses it, one that will leave a release active has
  emptied the channel that release will be on. `ReadAsIs`: until another writes
  to the manifest, one that will sign has the row as it is. `UploadDirty` and
  `HeldAsRecorded`: a key is dirty until its upload is recorded, and a clean key
  that one release has recorded holds the body that release says.
- `SeatTypes` and `ReleasesTyped`, from the same invariants.

`AccountProofs` proves, for the other three and for all eight:

- `FailuresCounted`: `AccountSpec => []CountsFailures`. The property speaks of an
  account between logins; `CountOf` adds what the one login under way has read,
  while none crossed it: it counts on from the wrong passwords so far, and past
  a lapsed lock the row restarts from zero while the handler's copy does not.
- `ResetsReplaced`: `AccountSpec => []ResetsReplaceEachOther`. `OneHolder`: a token
  that no two requests held at once has one holder at most, and none once it has
  set a password. `IssuesCross`: a usable token of a customer for whom another is
  about to be issued was itself issued while that one was due.
- `EndedIsOver`: `SessionSpec => []OverWhenEnded`. While nothing has failed, all
  replicas read and write one store (`OneStore`): Redis, or the memory of the
  only replica. `EndedListed` follows a call through its steps: what it has
  blacklisted, its next step may rely on, and `spent` is only what some call has
  gone through with; under Cognito a dropped idle entry comes back only by a call
  that is at its `Touch`, which `crossing` records; `LiveKnown` says that an access token nobody ended has an
  idle entry or ran out of it.
- `QuotesPriced`, that the final price lies between zero and the base price for
  every order and every price list, rounding included, and `QuoteSells`:
  `QuoteSpec => []QuoteSellsOnce`. `CleanSale` relates the licences a quote has
  sold to its status and to the one handler that may be between the two writes.
- `OfficeTypes`: `OfficeSpec => []OfficeTypesOK`, the types of all eight as the run
  `office` explores them, without the constraint `Bounded`.

The assumptions of these two modules are the components' own
(`AccountAssumption`, `SessionAssumption`, `SeatAssumption`, `ReleaseAssumption`,
`ReleaseShapes`, `AddOnAssumption`, `CertificateAssumption`, `QuoteAssumption`,
`CatalogueAssumption`). They say that the value for "none" is not one of the
others (nor a row), that bounds are numbers, that holders and packs are
finitely many, that a release is changed only in ways `PUT /releases/:id`
accepts, and that prices and orders are what the routes let through.

`FrontDeskProofs` proves, for the seven components of the front desk:

- `UsageOnce`: `UsageSpec => []UsageCountedOnce`. A report Stripe has forgotten,
  and no lapse exposed, has a row, and the calls about it have yet to look for
  that row (`ForgottenIsRecorded`).
- `AnAdminRemains`: `StaffSpec => []AdminsRemain`: the one who acts is one who
  stays.
- `RowMirrorsMfa`: `ClientSpec => []MfaMirrored`. Of changes that have not crossed
  one at most is half-way, and it is about to copy what the pool has
  (`OneMirrors`). A date in a row was put there by an
  update that found it, which also ends `late`.
- `DownloadsKept`: `BundleSpec => []DownloadsExist`. A call no other has crossed
  can go by what it saw (`SawRight`).
- `OwnSessionEnds`: `TabSpec => EndsOwnSession`. A tab whose `done()` is still to
  come, or that is told of a logout, while a login is stored, is one somebody
  asked to end that login, or the login is `crossedOver` (`TabFits`); a token without an activity is one whose sign-in is half-way
  (`ActiveOrHalf`).
- `DeskTypes`: `DeskSpec => []DeskTypesOK`, the types of all seven as the run
  `front_desk` explores them. For the rate limiter it needs that a server which
  serves has a caller (`Asked`).

The assumptions are `UsageAssumption`, `StaffAssumption`, `BundleAssumption`,
`TabAssumption`, `LimiterAssumption` and `NodeAssumption`. TLC evaluates every
assumption named here on the runs.

Checked by TLC only is everything that must happen in the end:
`CheckoutsCredited`, `IdleTabsEnd`, `AdmittedAgain` and `WithdrawnIsRefused`.
They hold by fairness, and `ENABLED`, on which fairness rests, is out of the
provers' reach. No theorem says what a recursive definition computes by
induction over its argument; where a sum matters, `FiniteSums` takes its place.
The `violation` runs refute; there is nothing to prove.

## 6. Not modelled

- Of subscriptions, the cancel-at-period-end flag and trial dates, which are
  stored and shown and by which nothing is decided; coupons, promotion codes,
  portal sessions and tax, which only Stripe keeps.
- Of licences, offline licence files and the licence revocation list, which only
  read; `validateLicense` by itself only reads too, and is the first step of the
  desktop validation and of `NodeClient`.
- Of deployments, last-seen times, metrics, versions, metadata and watermarks.
- Of the customer rows, the profile columns; of products, display prices,
  descriptions and tax codes.
- Of releases, version comparison, changelogs and upgrade instructions: pure, and
  no state depends on them.
- `expireOldQuotes`, which nothing calls.
- Certificate encoding, but for the INTEGER of a serial, signatures of tokens and
  manifests, and password hashing: a signature is who signed what, a hash is what
  was hashed.
- E-mail, captcha, logging, health checks, statistics and listings: output, or one
  call to a service outside, whose failure the calling route logs.
- The rendering of the web pages, the other clients, the seeds and the deployment
  files.

Outages of Redis are explored by the rate limiter but not by the sessions, which
fail open by design and then promise nothing. Answers of calls are modelled only
as far as they change state: that `reserveCredits` answers success to a retry
whose reservation is already settled, and the three hazards of `PROJECT.json`
without a property, are recorded there with the reason.

## 7. Where code and comments part

Five disagreements have a run of their own, which finds the counterexample: the
`violation` runs of section 4. The others are built into properties that state
what the code does, since a property that states the comment would fail:

| Said | Done | Stated by |
|---|---|---|
| a refund can take the balance below zero (`credit.service.ts:849`) | it stops at zero | `Corrected` of `PrepaidAccount`, `ImplementsAccount` |
| a logout invalidates the session immediately (`idleTimeout.ts:16`), its jti cannot be reused (`redis.ts:286`) | under Cognito a request past the idle check writes the entry again | `OverWhenEnded` (`crossing`) |
| `seatCount` is kept in sync with the unexpired packs (`schema.prisma:295-296`) | an expiry rewrites nothing | `SeatsAddUp` (`lapsed`) |
| seats are assigned atomically (`seat.service.ts:78`, `:111`) | two transactions may see the same free seat | `SeatsAddUp` (`overbooked`) |
| serials encoded without the zero byte are fine (`crl.service.ts:121`) | those with the high bit set match no certificate | `RevokedIsRefused` (`Padded`) |
| a verified TOTP sets the preference and `mfa_enabled_at` (`docs/agencioaws/CUSTOMER_AUTH.md:154`) | only a row that the pool's name finds | `MfaMirrored` (`Found`, `late`) |
| a taken deployment id is only re-used by the machine that holds it (`deployment.service.ts:58`) | two enrolments that both found it free overwrite one another | `MachinesStay` (`outdated`) |

A history variable in a property (`raced`, `crossed`, `muddled`, `outdated`, ...)
always marks such a case: the code lets the hazard happen there, and the property
says that it is the only way. The notes of the hazards in `PROJECT.json` say for
each what is excused and what is left to catch.
