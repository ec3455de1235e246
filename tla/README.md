# TLA+ models of flo-public-gateway

The gateway is the public HTTP API of a product line of water meters and shut-off
valves. It is a stateless TypeScript service, run in several processes, over DynamoDB
(records), Postgres (the location hierarchy, LTE links, changes of email, searchable
copies), Redis (caches, locks), Stripe (payments) and a dozen internal services. What makes
it hard is not any single handler but that a handler makes several calls to different
stores without a transaction, that handlers run at the same time in different processes,
and that any of them may stop between two calls.

These modules model the parts of it that keep state and have something to get wrong.
All paths below are relative to `src/src/` unless they start with `src/`.

## 1. Inventory

| Component | State | Operations | What is hard, and what makes it correct |
|---|---|---|---|
| Closure table (`core/location/LocationTreeTable.ts`, `database/pg`) | Postgres rows (ancestor, descendant, depth) | `updateParent`, `removeSubTree`, reads | The SQL never checks for cycles and trusts `hasPrevParent`. Rows must stay a transitive closure with true distances. |
| Tree cache (`CachedLocationTreeTable.ts`) | Redis sorted sets per location, without expiry | read-through, delete after write | Fill against invalidation, lost invalidations, scores that are strings. A cached set must equal the rows. |
| Location service (`LocationService.ts`, `LocationResolver.ts`) | DynamoDB records, rows in Postgres, roles | create, update parent, remove, areas, transfer, system mode | Two stores without a transaction. They must agree; a cascade over devices and sub-locations must be whole or refused. |
| Who sees what (`LocationResolver.ts`, `UserResolver.ts`, `AccountResolver.ts`, `LocationPgTable.ts`) | roles on locations and accounts | grants, removals, lists, `hasAccess` | Access is inherited down the hierarchy and computed four ways, one of them page by page. They must agree. |
| Invitations (`core/user/UserRegistrationService.ts`, `core/account/AccountService.ts`) | token rows, users, roles | invite, resend, revoke, accept | Concurrent redemption and revocation; check-then-put. One user per token. |
| Users (`core/user/UserTable.ts`, `UserEmailChange*.ts`, `UserService.ts`) | users, details, changes of email, Redis | create, update, remove, ask for and confirm a change | Check-then-write of a unique address, two-sided confirmation, cache writes that nobody awaits. |
| Accounts (`core/account`) | accounts, roles | roles, merge, groups | A merge moves locations and devices one by one over several stores. |
| Subscriptions (`core/subscription`, `subscription/stripe`, `concurrency`) | subscription records, a Redis lock, Stripe | create, reactivate, cancel, webhooks | Repeated, reordered webhooks against requests. One record per location, what is billed is recorded. |
| Device pairing (`core/device`) | device records, pair-init records, LTE links, a Redis lock | scan, pair, remove, transfer | Check-then-create, lock expiry, remove-then-put. |
| System modes (`core/location/LocationService.ts`, `core/device`) | modes of locations and devices, in records and in the devices | set with and without cascade, forced sleep | Cascades that fail half-way; commands and their records. |
| Authorization cache (`auth`) and sessions (`core/session`) | Redis: answers of the auth service with a TTL, hourly index sets | check, write, drop | Writes that nobody awaits, two commands per drop, keys that expire. A drop must catch every entry written before it. |
| Controllers, validators, decorators (`core/*ControllerFactory.ts`, `validation`, `server`) | – | about 200 routes | Registration order, guards and validators written apart from paths and handlers. Every route must be reachable and usable. |
| Records and patches (`*Record.ts`, `database/Patch.ts`, `database/dynamo`) | columns of DynamoDB items | create, partial update | A partial model becomes nested SET operations, retried in another form. What was not given must stay. |
| Generic cache and memoization (`cache`, `memoize`) | Redis, per-request maps | read-through, update, drop | Writes that nobody awaits. |
| Health tests, directives, irrigation, pucks | rows written once; other services | forwarding | – |
| Water, telemetry, Flo Detect, sensors | – (reads) | aggregation, paging | Boundaries of buckets and pages. |
| Alerts, notifications, presence, voice assistants, IFTTT, lookups, localization, email, Kafka, legacy API, clients, server, config | little or none | forwarding, mapping | – |

`PROJECT.json` lists every component with its files, and every hazard at its line.

How they interact: controllers call services, services call resolvers and each other
(account → user, location; location → subscription, device; subscription → location),
resolvers call tables. Stripe calls back through webhooks, authenticated and handled in
any process. No in-process state is shared between requests, so every interleaving is one
of calls to the stores.

## 2. Modules

| Module | Models | Uses |
|---|---|---|
| `LocationTree` | the closure table; one action per transaction and outcome | – |
| `CachedLocationTree` | the Redis cache in front of it | `EXTENDS LocationTree`, as the class does |
| `LocationForest` | what the service promises of a hierarchy: locations created, moved and removed at once | – |
| `LocationHierarchy` | DynamoDB records and the closure table, as the service writes both | `INSTANCE LocationTree` for the rows, `INSTANCE LocationForest`, which it implements |
| `LocationAccess` | roles, and every way to ask who sees which location | `INSTANCE LocationTree` |
| `LocationDevices` | system modes with their cascade; transfer of devices and locations when accounts merge | – |
| `InviteTokens` | invitations, from invite to the user's roles | – |
| `UserEmails` | users by address, changes of email, the cached user table | – |
| `Subscriptions` | requests, lock, records, webhooks and Stripe | – |
| `AuthCache` | cached answers of the auth service, their indexes, logout | – |
| `DevicePairing` | device records, the device service, SIM links, the pairing lock | – |
| `Records` | columns of five kinds of record, and their partial updates | – |
| `Routes` | every route, from dispatch over guards to the status | – |
| `MC*` | instances for TLC; `MCServices` runs `Routes`, `Records` and `LocationAccess` side by side | the module named |
| `LocationTreeProofs`, `LocationHierarchyProofs`, `LocationDevicesProofs`, `SubscriptionsProofs`, `AuthCacheProofs`, `DevicePairingProofs` | theorems and their proofs (`LocationTreeProofs` also those of `CachedLocationTree`) | the module named, `TLAPS` |
| `UserProofs` | theorems of `UserEmails` and of `InviteTokens` | both, `TLAPS` |
| `ServicesProofs` | theorems of `LocationAccess` and of `Records` | both, `INSTANCE LocationTreeProofs`, `TLAPS` |

**LocationTree.** `tree` is a function from pairs of locations to depths: its domain is
the set of rows, so the unique constraint of the table is built in. Operators named after
the statements of `updateParent` (`DetachedRows`, `SelfLink`, `NewRows`) are composed in
`Attach`; `AttachRolledBack` is the unique violation that the plain `INSERT` raises. It is
the only thing that stops a cycle. `hasPrevParent` is chosen freely, since nothing in the
table's code relates it to the rows.

**CachedLocationTree.** Every call has a cache policy, as every request chooses one
(`cache/CacheMiddleware.ts`). `cache` maps each key to a sorted set (a function from members
to scores; empty means no key). A reader misses, reads the table, and fills, in three
steps; a writer reads, commits, and invalidates with one MULTI, in three steps; a removal
first makes the child check, with its two look-ups of the same key. `suspect` is a history
variable: the keys that a race or a lost invalidation may have left stale. It is computed
from the order of steps, never from the contents of the cache, so `Coherent` says that the
keys the code deletes are enough whenever nothing overtook them. A removal that goes
through although the location has children (because `getImmediateChildren` answered
wrongly, or answered nothing under `READ_ONLY`) also leaves suspects: it deletes
the keys of the location's relatives only. So does a move of a location below which an
earlier race of two writes has linked some location to a second parent (`SharedBelow`): the
move cuts that parent off too, and does not delete its key. `hasPrevParent` is chosen freely.

**LocationHierarchy.** `record` holds the parent as DynamoDB has it, also when that
location is gone. Each request is a small program over the two stores, and `Interrupt` stops
it between them. A PATCH with the location itself as parent is an action of its own
(`NameItselfParent`): the code reads and links nothing, and saves the record. `interrupted`
remembers the locations whose own requests stopped half-way, `overlapped` those on which two
requests got into each other's way (both change the location, or one removes what the other
names). Everything else is claimed while requests on different locations interleave freely:
`StoresAgree`, but for a location that was given itself as parent, of which it says only
that the rows name one parent at most; `OnlyCyclesAreRefused`; and `ForestSpec`, the abstract
specification `LocationForest`. In its refinement mapping a location is created without
parent and moved when its rows are committed; it is removed as soon as one store is done;
and from the moment that it is interrupted or overlapped it is `broken`, of which
`LocationForest` promises nothing. `LocationForest` states no rows and no second store: that
a move has one parent, never a location from below, and takes nothing else along, and that a
removal is of a childless location, must come from what the requests read and write.

**LocationAccess.** The hierarchy (`record`, `tree`) changes by creations, moves and
removals; roles are granted and taken on locations and on the account. The state functions
are the code's reads: downwards from a user's roles (`UserLocations`, `UserLocationRoles`),
upwards from a location (`LocationUsers`, `LocationUserRoles`), the SQL of
`LocationPgTable` with its outer join (`ByUserIdWithChildren`, `ByUserIdRootOnly`), and the
account's resolvers. A move may name any parent, the location itself (`OwnParent`) included. A creation, a grant and a removal are each several steps; `hasAccess`
reads one page per step. `overlapped` holds the locations that two requests used at the
same time. A behaviour may start with any hierarchy, and with the rows that linking one
location after the other leaves: `Ancestors` is the least set that has the parent of each
of its members, at whatever depth.

**LocationDevices.** `location` and `device` are the records, `actual` is the mode each
device was last sent, `locked` the devices in forced sleep. `setSystemMode` is a tree of
calls: a call on a location reads its devices, commands them in parallel, records each
after its command, waits for the calls on the locations below, and saves the location's own
target last. Everything under one `Promise.all` interleaves, and goes on when a sibling is
rejected. A transfer reads the devices of the source and removes and puts each; with
`CloneLocation` it first makes the destination; the source is marked as merged when all
have moved. History: `crossed` (devices that two requests worked on at once, or whose
record could not be written), `touched` (what others wrote since a request began),
`received` (locations that devices were moved to).

**InviteTokens.** A token is its row and what became of it. Since tokens are JWTs,
`Accept` does not look at the row; `RemoveRow` is DynamoDB's delete with `ReturnValues`,
which throws if nothing was there. `handler` is the progress of each request. Email addresses are pairs of a mailbox and a spelling,
and `Sanitize` is the lower-casing that some of the code applies.

**UserEmails.** `email` is the User table, `detail` the users with a row of details,
`cached` the keys in Redis, `sent` the SET and DEL commands that `CacheMixin` has issued and
nobody awaits, `change` the rows of changes. A registration, a direct update and a confirmed
change each check that the address is free (`CheckEmail`) and write later (`WriteEmail`,
`PutUser`). A confirmation is verified in one step and stored in the next; the row that
the store returns decides whether the change is complete. `Deliver` lets Redis apply the
oldest command of a request; `Stop` ends a process with the commands it holds. History:
`rewrites` counts the writes of each user's address, `overlapped` holds the addresses that
two windows between check and write had at once, `raced` the users whose commands crossed
or were lost, `applied` the changes written, and `spoilt` those refused or interrupted
after both sides had confirmed.

**Subscriptions.** `record` is the table, `stripe` what is billed, `events` what Stripe
has still to deliver. A process is idle, in one of the steps of a request, or in a webhook:
it reads, an update that names a location then checks that the location exists
(`ValidateLocationExists`), and it writes; a removal of the location may come in between. A webhook's event is acknowledged or comes again; with
`Ordered` an event waits for its predecessor, otherwise any may come next. `excuse` is a
history variable, per location, of the ways in which its state may have been spoilt: two
processes looked for its record before either added one (`overlap`), a stub was put over
a record that changed since it was read (`clobber`), a webhook of one location took the
record of another (`moved`), a cancellation was written late (`late`), a lock expired in
use (`lapse`), a removal met a webhook that had checked the location (`crossed`), and a
webhook wrote another subscription to a location that was gone (`gone`): as a new record,
whose location nobody checks, or after such a check. The
properties say which of these each guarantee needs excluded, and so that nothing else can
break it.

**AuthCache.** A request misses, asks the auth service, and after a yes writes to Redis
without being waited for: SADD and then EXPIRE of the index of the hour, and in parallel
SETEX of the entry. A logout revokes the token and, in parallel, reads the indexes of this
and the last hour and deletes them with their members. `Tick` is the clock, which also
removes the keys that expire. The history field `clean` of an entry says that its write
began and ended in one tick, did not stop, and met no logout. It is kept for the request
and copied with the entry, never computed from the indexes.

**DevicePairing.** A request is one of four programs over the stores (pair, connect,
remove, transfer), of which pairing and connecting share the linking of a SIM. `spoilt` is
a history variable, per MAC address, of what may have disturbed its state: a transfer that
overlapped any request, a removal that overlapped a request for the same device, a lock
that expired in use, a call that failed. It is set when a request starts or fails; each
property names those it needs excluded. `KeptUntilRemoved` needs none but failures.

**Records.** For each of locations, devices, users (with their details), accounts and
subscriptions, a set of triples names the column, and the nested map it lies in, of every
property. `SetOps` is the patch that a partial model becomes, `Applied` the update with its
rejection of a nested path that does not exist and its repetition with whole objects,
`Shown` the model that is read back. One row is followed from its creation through two
updates; the n-th writes the n-th of `Values`, so that what is read tells which request
wrote it. `wanted` is what each property was last asked to be; `lost` names those that an
update is known to overwrite (section 7), each with the condition under which it does.
`Values` excludes the strings that stand for "no column", "no coordinates" and an id that
is trimmed to nothing.

**Routes.** `Table` is the sequence of routes in the order of registration, each with
its verb, path, guards (authorization with its parameters, validation with its sections),
decorators and what its handler reads. A request is dispatched to the first route that
matches, passes the guards one by one, and is answered with the status that the decorators
and the error handler make of what came of the handler: a model, an empty Option (`nothing`),
a `ResourceDoesNotExistError` (`missing`, a conflict), or an exception with the status of its
class, 500 for any other. The guards fail with 500, too, when the authorization service or
the look-up of what to ask it about fails. One request is followed at a time, as handlers
share no state. A token that Moen issued is exchanged first (`PassTrade`).

**MCServices** puts these two and `LocationAccess` side by side in one run: `part` says
which of them a behaviour follows, and the others rest: `Rest`, an account without locations,
a record that nobody updates. They share no state in the code either.

## 3. Runs

| Run | Question | Bounds |
|---|---|---|
| `location_tree` | Is the table always a closure with true distances? | 4 locations |
| `cached` | Are the deleted keys enough? | 3 locations, 1 reader, 2 writers, 2 writes, policies `READ_WRITE`, `READ_ONLY`, `OFF` |
| `cached_removal` | Does a removal ever see a leaf where there is none? **Violated.** | 2 locations, 1 reader, 1 writer, 2 writes |
| `hierarchy` | Do the two stores agree when requests interleave and stop half-way, and do they look like one hierarchy? | 3 locations, 2 requests, 1 interruption; no behaviour is followed beyond a state in which every location is an exception |
| `invites` | Is a token redeemed once, for good, and completely? | 1 address, 3 tokens, 2 users, 2 requests, 1 crash |
| `user_emails` | Is an address one user's, the cache true, a change agreed, and a confirmed change applied? | 2 users, one registered; 2 addresses, 1 change, 2 requests at a time, 4 in all, 1 stop |
| `subscriptions` | Do lock, records, webhooks and Stripe fit together? | 1 location, 2 records, 2 Stripe subscriptions, 2 processes, 3 requests, 1 change, 1 failure, events in order |
| `subscriptions_billing` | Is a location billed once? **Violated.** | 1 location, 1 process, no failure |
| `auth_cache` | Does a logout reach every cached answer? | 2 tokens with the same keys, 1 method, 2 requests, 1 logout at a time, hours of 2 ticks, 3 ticks, 1 failure |
| `devices` | Do records, device service, links and lock of a device fit together? | 1 MAC address, 3 ids, 1 SIM, 3 requests at a time, 5 in all, 1 failure |
| `system_modes` | Is a mode set everywhere, does each record follow its device, and is a merged location empty? | a parent, its child, another location, 2 ids for clones, 2 devices, 2 modes, 2 requests, 1 failure |
| `services` | Does every request reach its handler and tell what came of it, every update keep the rest, every view of access agree? | all routes with every combination of contents and token; five kinds of record, 2 updates; 3 locations, 2 users, 2 requests, pages of 1 |

Why the bounds are enough. A cross join in `updateParent` relates an ancestor of the new
parent with a descendant of the moved location: four locations have all of these, three
are enough for the cache's keys (a parent, a grandparent, a child) and for an inherited
role. Two requests are what a race of check-then-put, of redemption or of a lock needs;
three tokens are an invitation, its replacement and one more; three requests on a location
are create, cancel or remove, and create again; five on a device are pair, remove and pair
again against two more; four on a user are the change, its two confirmations, and one that
competes for the address. Three ticks of half an hour take an entry from before the turn
of an hour to its end, and let it be written again in between. Two devices and a child
let one part of a cascade fail while its siblings go on. Two updates are the shortest
sequence in which the second may lose what the first wrote, and the row they start from
may already lack the nested maps. Pages of one location make a list of two span two
pages. `MaxTime`, `MaxWrites`, `MaxCrashes`, `MaxEvents`, `MaxRequests`, `MaxChanges` and
`MaxFailures` bound behaviours that are unbounded in the code, and appear only in guards.
Symmetry is used over sets of model values that no property and no action names
individually, and in no run that checks liveness. A move of a location whose subtree a race
has shared takes three writes, one more than the run `cached` has: that case is left to the
proof. `WRITE_ONLY` is left out of that run: what it adds, a fill of a key that is there,
also happens when a reader and a removal fill the same key. `StillPromised`, the constraint of the run `hierarchy`, cuts off
behaviours in which every location has become an exception of every property. Runs with bounds end where a bound forbids every further step,
so they do not check for deadlock; `location_tree`, which has none, does.

Fairness. `UserEmails` states weak fairness of `Work(r)`, the next step of a request that
has begun: a promise that a handler awaits is settled by the runtime, with a value or an
error, and its continuation runs. The start of a request is not fair, nor are failures,
stops and the arrival of a cache command. From it follows `ConfirmedIsApplied` (a change
that both addresses confirmed is applied, or the process stopped or the address was taken).
The other specifications state none: the code has no background job that would retry a lost
invalidation, an interrupted request or a stub, so nothing more is promised there than what
a quiet state satisfies, which `StoresAgree`, `PaidIsRecorded` and `RecordMirrorsStripe`
state.

The violated runs are disagreements between the code and what it says:

* `BilledOnce`: a creation repeated before the first webhook finds a stub and creates a
  second subscription in Stripe, where 'A Subscription already exists for the given
  Location.' was promised.
* `RemovesOnlyLeaves`: a key filled between the two look-ups of `getImmediateChildren`
  answers with scores that are strings, which `depth === 1` drops, so 'Cannot delete a
  location that has children or devices attached.' is not thrown.

## 4. Proofs

Every theorem holds for every value of the constants that satisfies the `ASSUME` of the
module, and for any number of requests, failures and steps: the bounds are constants like
the others.

* `LocationTreeProofs`: every reachable table is typed, reflexive and transitive, acyclic,
  and a table of distances. None of these is inductive alone. A cross join preserves
  transitivity only if the table is a closure; it makes no cycle only if the new parent is
  not below the moved location, which follows from the absence of a conflict and the
  presence of the self rows; and distances add up only if no location reaches another on
  two ways, for which the deletion and the absence of conflicts are both needed. `IInv` is
  their conjunction. On top of it, `Stepwise` says that every chain of rows has a first and
  a last link; that makes a table connected through immediate children
  (`ReachedByChildren`) and yields `MovedExactly`. The proof goes statement by statement: a
  lemma for deleting the rows into a subtree, one for self rows, one for the cross join,
  and one step per action on top of them.

  The same module proves that the cache is `Coherent`. `MovedEntries` and
  `RemovedEntries` say that the keys a write deletes or trims are exactly those whose rows
  it changed. They are of use only with what a call still knows when it commits: a call that
  nothing overtook has read the table as it is (`CallOK`, `Current`), and at most one such
  call has committed and not yet sent its MULTI (`LastCommit`). `EntriesOK` then is
  inductive: an entry that is not suspect equals the rows, or a MULTI that is due deletes it
  or trims it to the rows.
* `LocationHierarchyProofs`: `StoresAgree`, `OnlyCyclesAreRefused` and `ForestSpec`, for any
  number of requests, overlapping and interrupted. `RequestOK` says that a request under way
  never links a location below itself, which the service checks before it asks the table;
  the rows then change by transactions of `LocationTree` only, so that what
  `LocationTreeProofs` has of the table can be used (`RowsAreHierarchy`, a mere consequence).
  The invariant is `Apart`, as long as not every location is an exception: locations never
  created have no rows (`Unused`); what is above an existing location exists (`Upward`); a
  location has one parent in the rows (`OneParent`), and of two locations above a third one
  is above the other, unless an exception lies between (`Forest`); of two requests on one
  location it is an exception, and nothing that is being removed is named by another
  (`Alone`); the stores agree where nobody is at work (`Settled`); and `AtWork` says what
  each request has found or brought about. A step on one location leaves what `Apart` says
  of the others: `AgreeKept`, `AtWorkKept`, `DetachKeeps` and `AttachKeeps`. `ForestTheorem`
  is the refinement: a commit is a move (`NotBelow` is witnessed by the new parent and what
  is above it), the first store of a removal a removal, for `AtWork` says that nothing is
  below; what overlaps or stops breaks locations; all other steps stutter.
* `UserProofs`, on `InviteTokens`: a token makes at most one user, only redeemed tokens do, a token's
  fate is final, and a user made by an invitation is complete. The invariant says that a
  request past the redemption holds a redeemed token, that no two requests hold the same
  one, and that a token held by a request has not made a user unless it is that request's
  own; the conditional delete is what establishes it. For `AcceptedCompletely`, every user
  either has all he was promised, or is in the hands of a request, which has given him the
  account before the roles.
* `UserProofs`, on `UserEmails`: `UniqueEmail`, `CacheCoherent` and `ChangeIsAgreed`. `WindowsGuarded`
  says that a request between check and write finds the address still free or has been
  overlapped; `LastIsCurrent` that the last command under way for a user carries what the
  table holds; `ChangesAreTrue` that the old address of a change, if it was read from a
  settled cache, is current until the user is written; `CarriedOnce` that a complete
  change is in the hands of one request at most; `FreshUsers` that nobody has a command, a
  cache entry or a removal for a user that is only being registered. Without the last,
  `LastIsCurrent` does not survive the write of a registration.
* `SubscriptionsProofs`: all five invariants of the run, in layers. `OneCreationAtATime` is
  from `HoldsLock`: a process between stub and answer holds the lock of its location unless
  the lock lapsed. `OneEach` says that a process adds a record only where there is none and
  no other adds another (`OneRecordPerLocation`); `Facts` that what records, events and
  processes say of a subscription is or was so; `PaidOrAnnounced` that what Stripe bills is
  in a record or its first event is still to come (`PaidIsRecorded`); `InOrder` that the
  last event tells Stripe's state, and `Mirrored` that a record shows it or events wait
  (`RecordMirrorsStripe`); `EndsWithLocation`, with `Single`, that a record of a location
  that is gone is of a subscription that has ended or that a removal is about to end
  (`RemovedIsCanceled`); for a webhook between its check and its write, `Checked` says that
  its record is there, and its location too unless the removal met it.
* `AuthCacheProofs`: `HitIsRecent`, `Droppable` and `LoggedOut`. A write that was not
  disturbed goes on in the tick of its answer (`WritesAtOnce`), so an entry expires no later
  than an hour after the answer (`ExpiresInTime`). SADD comes before EXPIRE and both
  before the end of a clean write (`AddsInOrder`), so a clean entry is in an index that
  outlives it (`Indexed`) and is one of the two a logout reads. `LogoutInv` follows the
  logout: no write that remains clean runs beside it (`QuietLogout`), what it is about to
  delete holds every clean entry (`FindsAll`), and none comes back (`StaysOut`).
* `DevicePairingProofs`: `OneRecordPerMac`, `KeptUntilRemoved`, `PairedIsKnown` and
  `LinksHaveDevice`. A pairing whose lock has not lapsed is alone (`PairsAlone`), as is a
  transfer that nothing overlapped (`TransfersAlone`); hence whoever is about to write a
  record knows that there is none (`NoneYet`). An id belongs to one MAC address for good
  (`MacIsFixed`), what was removed does not return (`NothingReturns`), and a record that is
  gone without having been removed is in the hands of one transfer (`InHand`, `Kept`). A
  link, and a request, names an id whose record is there or is about to be put back
  (`LinkedIsHere`, `NamedIsHere`), since a removal has unlinked the device before the record
  goes (`Unlinked`); a record is known to the device service, is about to be announced to
  it, or is about to be deleted (`KnownSoon`).
* `LocationDevicesProofs`: `MergedIsEmptied`, `DoneIsUniform` and `RecordFollowsCommand`.
  The first is inductive with `SourceIsRead`: while a transfer moves devices, every device
  still at its source is one it has read and not yet removed, or the source received
  devices meanwhile. A clone may bear the mark from the start; `CloneIsFilled` says that
  its devices were all moved to it. The other two need `HoldInv`, which says whose request
  holds a device, and `ModeInv`, which says of each call in a cascade what it has already
  made true of its devices and of the calls below it.
* `ServicesProofs`, on `LocationAccess`: all four invariants of the run. The assumptions
  are `AccessAssumption`: finitely many locations, named by positive numbers (0 is no
  parent, and pages are sorted by id), an owner among the users, and pages of at least one.
  That the views agree (`ViewsAgree`) needs of the state only that the table is closed,
  acyclic and joined by immediate links; this is `Stepwise` of `LocationTreeProofs`, which
  every step keeps since it is a transaction of `LocationTree` or leaves the rows, and
  which `RowsOf` establishes for every acyclic hierarchy. `WalkOK` says what a walk of
  `hasAccess` knows: of a list that has lost nothing, what comes before the location still
  fills the pages read so far (`AccessIsFound`); the lemmas under it are about counting the
  members of a finite set. `Bookkeeping` says what each request may still write: a role is
  on a location there is or was (`RolesKnown`), a grant at work finds its location, a
  removal at work knows whose roles it has still to take (`Holds`), and where nobody is at
  work none are left (`GoneAreClean`, hence `RolesEndWithLocation`). `Stores` says that,
  while no two requests used one location at once, records and rows name the same parent
  but for the link a creation has still to make and for locations that were given
  themselves as parent (`Agreement`), and a location about to be linked or removed has
  nothing in the way (`Stands`); with acyclicity, every location then has a topmost location
  above it that the user reaches, which is a root or its own parent: `RootsCover`.
* `ServicesProofs`, on `Records`: `KeepsTheRest`, for any number of updates and any values.
  It is inductive only with `RowIsWhole`: an unnamed location would show its address
  as its nickname, and an update of the address would then change it; a puck's configuration
  is shown only while the type of the device is known; and a subscription's update would be
  repeated with whole objects, and drop what it does not mention, if the row had no map for
  Stripe's data. The lemmas beneath say that a property has one column and no two share
  one (`ColumnsDiffer`), what the SET operations of an update write and that they write
  nothing else, what both forms of the update do to a row, and what is then shown of a property
  that was given (`ShownGiven`) and of one that was not (`ShownKept`).

The types of a module that states no `TypeOK` of its own are in its proof module, and are
part of the inductive invariant there.

What the attempts to prove showed, and what was changed for it:

* `Coherent` was false with three writes, one more than the run has: two overlapping writes
  leave a location below two parents, and a later move of an ancestor on one side cuts off
  the other side without deleting its `children` key. The code does this, so the case is now
  among those that leave suspects, and in section 7. A condition on `hasPrevParent` in the
  start of a move turned out not to be needed and is gone.
* `OneRecordPerLocation` was false where a webhook had moved a record to another location, a
  late cancellation restored it, and a stub brought it back: `clobber` now also compares the
  location of the record that the stub is put over. `RecordMirrorsStripe` has to except
  `clobber`. Neither case fits the run's bounds.
* `StoresAgree` said less than is true and was strengthened; it is now claimed of each
  location apart from the others, while requests overlap elsewhere. `OnlyCyclesAreRefused`
  was false for what is above a location whose move stopped, in hierarchies deeper than the
  run has.
* `RemovedIsCanceled` is false when a removal comes between a webhook's check of the
  location and its write: `crossed` and `gone` say when.
* The hierarchies that `LocationAccess` starts with were right for chains of a few locations
  only, which is all that its run has. `Ancestors` is now a least fixed point, of any depth.
* `Records` was silent about its constants. Of a value that is itself one of the strings that
  stand for nothing, `KeepsTheRest` is false; `RecordsAssumption` excludes these.
* Two assumptions were missing: `AuthCache` takes an hour to be no longer than its bound
  `MaxTime`, and `LocationDevices` that a clone is a root and no location lies below itself.

Only model-checked: the three properties of `Routes` and the liveness property
`ConfirmedIsApplied`. `Routes` has no constants, so that its run is
not an instance but all of it: a proof would enumerate the same 200 routes.
Liveness under fairness, ENABLED, induction over data and RECURSIVE operators are out of the
prover's reach.

## 5. Abstractions

* A Postgres transaction is one step.
* Reads that a handler makes in parallel at its start are one step where only a commit
  between them could tell, and the model then marks the call as overtaken.
* Names, addresses, plans, roles and permissions are model values; formatting, logging,
  emails and published events are left out, and so are validations that do not read state
  (except in `Routes`).
* Stripe and the rest of what is external is modelled from the answers the code handles.
* Reads that change nothing (a hit, or a miss that fills nothing under `READ_ONLY` or
  `OFF`) are not actions.
* Queries of a DynamoDB index see every write that has completed, though the index is
  eventually consistent. The tables `location` and `user_location` of Postgres, which
  another process keeps, are taken as current.
* Addresses in `UserEmails` are mailboxes, as the table compares and stores them trimmed
  and in lower case (the email of an administrator's user, which is stored as written, is
  left out); so is `invites`, where the run has one spelling.
* Rows of details without a user, which a stop in a registration leaves, can be reached by
  nobody, and are not followed further.
* A move is one step in `LocationAccess`; `LocationHierarchy` has its two stores. Its pages
  have one location, not 50, and the account's type is a constant.
* A failing write of a location's own record, or of its merged mark, is left out of
  `LocationDevices`. A rejected `Promise.all` is answered there when all its parts have
  ended: the earlier answer changes nothing that is stored.
* `Routes` assumes that the exchange of Moen's tokens is configured.
* `DevicePairing` leaves out what pairing sends to the legacy API (its failure is only
  logged) and the events it publishes, locations, and pucks.
* The clock of `AuthCache` is the same in every process and in Redis.

## 6. Not modelled

* The statements of two `updateParent` transactions under READ COMMITTED can interleave,
  each moves its location below the other's, and a cycle is committed. Which rows a
  statement sees depends on Postgres and not on this code, so `LocationTree` keeps a
  transaction whole.
* What the LTE table's constraints refuse: they are not in the repository. `linkDevice`
  compares with the first link of the device only, and inserts another.
* Puck pairing and puck tokens: the rows are written once and read. Its routes and
  middleware are in `Routes`.
* Password reset (a call of the legacy API and an email), `removeAccount` and groups of
  accounts, areas, notification counts and surveys of a location, system roles, payment
  sources: single calls or single writes whose order no other operation can observe.
* Health tests, directives, onboarding logs and irrigation schedules: they forward a call or
  append a row.
* Alerts, notifications, presence, voice assistants, IFTTT, lookups, localization, Flo
  Detect, telemetry, entity activity, Moen synchronisation: the services forward to others
  and keep no state here; `Routes` has their routes, guards and decorators.
* The aggregation of water consumption: arithmetic on data of another service, over time
  zones and calendar libraries that are not in the repository.
* The codecs of single fields, the text of geocoded addresses, the resolution of display
  properties, paging and batches of DynamoDB, the DataLoaders of one request, Kafka, the
  clients of the legacy API and of other services (but for the answers the models act on),
  logging and configuration.

## 7. Defects met while modelling

The models follow the code in each of these; the first two are the violated runs.

Concurrency and order:

* `BilledOnce` and `RemovesOnlyLeaves`, section 3.
* Two overlapping writes can link a location below two parents. A later move on one side
  cuts off the other parent too, and leaves its `children` key, which has no expiry, as it
  was (`core/location/CachedLocationTreeTable.ts:189`).
* Invitations are stored with the email as written (`core/user/UserRegistrationService.ts:111`)
  and looked up in lower case: a mixed-case address can have two pending invitations.
* A location can be given itself as parent: `core/location/LocationService.ts:132` skips the
  rows, 173 saves the record. The two stores then disagree, and since the list of roots goes
  by the parent column (`core/location/LocationPgTable.ts:49`), the location and what is
  below it are no longer found from any root, though the user still reaches them.
* A move of a location without parent that stops between the commit and the record is refused
  when it is repeated, by the unique constraint, since `hasPrevParent` comes from the record.
  Until the record names a parent (for instance the location itself, which links nothing),
  every move of that location is refused.
* A webhook that has found its location writes a live subscription after the location was
  removed (`core/subscription/SubscriptionService.ts:240`, 243), and one that creates a
  record does not look (147).
* A removal of a location that races with a grant leaves a role on a location that is gone.
* A location that was already merged into another can be transferred again, and its clone
  bears the mark of the first transfer (`core/location/LocationService.ts:606`,
  `core/location/LocationRecord.ts:441`), although the devices are moved to it.
* `getByMacAddress` is memoized and not cleared by a put: `DeviceService.ts:343` may read
  the device as it was before.

Partial updates (`Records`, in `lost`):

* Any partial update of a location writes `areas: []` and `water_shutoff_known` UNSURE
  (`core/location/LocationRecord.ts:472`); 'no' for `waterShutoffKnown` is stored as UNSURE.
* A partial update of a user resets the locale to 'en-us' (`core/user/UserDetailRecord.ts:30`);
  a new user's `unitSystem` is dropped.
* `puck_configured_at` is written again by a later configuration (`database/Patch.ts`:
  `indexOf(key) > 0`).
* An address whose geocoding finds nothing, or of a row without `geo_positioning`, is
  written by a repetition with whole objects, which replaces the profile
  (`database/dynamo/DynamoDbClient.ts:106`).
* Amenities of the previous API cannot be emptied; `revert_*` outlives the mode it belongs to;
  a reactivated subscription keeps `canceled_at` and `cancellation_reason`.

Routes and resolvers:

* `getOwnDevice` (`DeviceControllerFactory.ts:170`) and `createFilterState`
  (`AlertControllerFactory.ts:317`) refuse every request: their validators demand a path
  parameter that their paths do not have. The body of `rebootDevice` is checked and not read.
* `pairDevice` without a location is answered with 500 (`DeviceControllerFactory.ts:56`).
* What does not exist is answered with 404 where a handler returns an Option, and with 409
  where it throws `ResourceDoesNotExistError`, which is a `ConflictError`.
* The roles of a location cannot be listed by an unprivileged caller without a role: the
  resolver throws. The locations that an account shows such a caller lack those whose
  parent he does not reach.
* `getByAccountIdAndClass` filters by a column that does not exist and ignores its limit.
* The condition of `irrigationType` in `DeviceResolver.ts` (`!== 'none' || !== 'not_plumbed'`)
  always holds. `fields` has no effect together with `expand`.
