# Torogan backend: verification project

The backend of Torogan is a ConnectRPC server in Go over one PostgreSQL
database, reached through gorm v1.25.12. It has no tests. Users register, prove
their email, log in, publish property listings with addresses, features and
images, and browse the listings of others. Every RPC runs in a goroutine of its
own and several servers may share the database, so what matters is what the
database shows between two statements. PostgreSQL runs at its default isolation,
READ COMMITTED: a statement sees what was committed when it started and what its
own transaction has written. The modules here have one action per database
statement, so any number of requests interleave between any two.

## 1. Inventory

| Component | Where | State | Operations |
|---|---|---|---|
| Image gallery | `services/properties.go:375-540` | `property_images` (listing, `is_main`, `position`), row lock on the listing | `AddPropertyImage`, `RemovePropertyImage`; reads: `ListPropertyImages`, `GetMainImageURLs` |
| Listing lifecycle | `services/properties.go:55-312`, `models/property.go` | `properties` (owner, contents, `expires_at`, `is_rented`, `deleted_at`) | create, update, renew, mark rented or available, delete (soft), restore |
| Accounts and email verification | `services/auth.go`, `services/user.go` | `users`, `user_auth_providers`, mailed links, the in-memory `resendCooldowns` | `Register`, `Login`, `SignInWithGoogle`, `VerifyEmail`, `ResendVerificationEmail`, `UpdateMe`; reads: `GetMe` |
| Sessions and tokens | `services/auth.go`, `handlers/auth.go`, `interceptors/auth.go` | none on the server: signed access, refresh and verification tokens with `typ` and `exp`; the browser's `refresh_token` cookie | sign in (issue a pair), `RefreshToken`, `Logout`, follow a link, authenticate |
| Public browse | `services/properties.go:92-136, 208-223` | none of its own | `GetPropertyList` by cursor, with a status derived from the clock; `GetMyPropertyList`, `GetMyDeletedPropertyList`; `GetPropertyByID` |
| Features catalogue and links | `services/features.go`, `services/properties.go:313-373` | `features`, `properties_features` | feature CRUD, `ListFeatures` by cursor, add and remove a link |
| Addresses | `services/addresses.go` | `addresses` | CRUD, owner checked through the parent listing |
| Uploads | `services/upload.go` | none | signs a URL for the browser to upload to |
| Email delivery | `services/email.go` | none | hands a mail to SES, or logs it |
| Server wiring, migrations, wire interface | `cmd/server`, `internal/database`, `proto`, `gen` | configuration, schema | start up, route a path to its handler, migrate |
| Deployment | `scripts/remote-deploy.sh`, `.github/workflows/ci.yml` | `.env`, image tags | migrate, then start the new image |

How they interact. Components never call or notify each other: they share tables.
An image request locks the row of its listing, and deleting or restoring a
listing updates that row, so the two meet at its lock. Creating a listing reads
the contact details that `UpdateMe` writes. Addresses and feature links ask who
owns their listing in a statement of their own and lock nothing, so a deletion of
the listing lands anywhere between. A link mailed by `Register` or `Resend` comes
back, at any later time, as a `VerifyEmail`. `UpdateMe` and `VerifyEmail` write
the same row of `users`. Between a sign-in and everything that follows it there
is only the token the client keeps. Readers (`Browse`) read what the listing
operations write, a statement at a time.

What is hard. A few operations are transactions that lock what they read (the
image gallery). Most are not: they read a row, check its owner, edit the copy,
and save the whole copy in a later statement (update, renew, mark rented, edit
one's profile, an address or a feature). A list is read in pages, each a count, a
query and more, while rows come and go and the clock moves on. gorm's `Save` is an
UPDATE that is scoped to live rows and, when it matches none, an `INSERT ... ON CONFLICT (id) DO UPDATE` that is not. Emails
are unique by an index only. The cooldown map dies with the server while the
mails it counted do not. Any statement may fail, with an open transaction rolled
back, and a write may be committed whose caller is told otherwise. `PROJECT.json`
lists each such hazard at its line, with the properties that watch it.

What makes each component correct:

- *Image gallery*: never above its limit; exactly one main image unless empty;
  a removed main image is succeeded by the survivor of lowest position; only the
  owner changes it or learns anything of it; each operation happens at one
  instant or not at all; nobody waits for ever.
- *Listing lifecycle*: an expiry is always an allowed window away from a moment
  that has come; only the owner's requests write; restore and delete mean what
  they say; renewing and renting are independent.
- *Accounts*: one account per email; none that nobody can enter; none verified,
  or logged in to with a password, whose email was not proved; resends limited.
- *Sessions*: no kind of token does the work of another; a session ends with the
  refresh token of its sign-in; a role in a token is one the account had during
  the session; logging out is undone only by signing in.
- *Browse*: a walk through the pages, or an owner's two lists, miss nothing that
  was there all along and show nothing twice; no page shows a listing as
  rented, or one that had expired when the page was asked for (a listing may be
  rented or expire while the page is put together).
- *Catalogue, addresses*: links lead to features that exist; only the owner of a
  listing changes its addresses and links, and only if the listing was live at
  some moment of the request; of several deletions of a row one succeeds.

## 2. Modules

| Module | Models |
|---|---|
| `ImageTable` | the `property_images` rows and what each image operation makes of them; no state |
| `ImageGallery` | the abstract specification: the same operations, each at one instant |
| `PropertyImages` | `AddPropertyImage` and `RemovePropertyImage`, statement by statement; implements `ImageGallery` |
| `ListingBook` | the abstract specification of the listings: `Spec`, each operation at one instant, and `LateSpec`, what is left of it when requests overlap |
| `PropertyListings` | create, update, renew, mark, delete, restore of a listing, and `UpdateMe` as far as creation depends on it; implements `ListingBook` |
| `Registry` | the abstract specification of the accounts: no requests, open transactions, mails or restarts; `Spec` and `LateSpec` |
| `Accounts` | register, log in, Google sign-in, verify, resend, `UpdateMe`, restart; implements `Registry` |
| `Paging` | a page of a list by cursor; no state |
| `Browse` | `GetPropertyList` page by page and an owner's two lists, composed with `PropertyListings` |
| `CatalogBook` | the abstract specification of features, links and addresses: `Spec` and `LateSpec` |
| `Catalog` | features, feature links and addresses, statement by statement, and walks through `ListFeatures`; implements `CatalogBook` |
| `Gateway` | the procedures of each service, what is registered, and which handlers insist on a caller; no state |
| `SessionStore` | the abstract specification of the tokens: a table of sessions that is never lost; no server, no tokens |
| `Sessions` | tokens, cookies, the interceptor and the start of a server, over `Gateway`; implements `SessionStore` |
| `ImageGalleryProofs`, `PropertyImagesProofs`, `PropertyListingsProofs`, `AccountsProofs`, `CatalogProofs`, `SessionsProofs`, `BrowseProofs` | the theorems about the module each is named for |
| `ImageTableProofs` | lemmas about the operators of `ImageTable` |
| `MCImages`, `MCListings`, `MCAccounts`, `MCCatalog`, `MCSessions`, `MCBrowse` | symmetry and constants of TLC's instances |

Common shape. A request `r` in `Requests` is one RPC in flight: `pc[r]` names the
statement it issues next, `req[r]` holds its arguments and local variables, and
`reply[r]` the code its handler answers with, after `mapOwnershipError` and its
like. `Call...` starts one with any arguments the handler lets through, for any
caller; request checks with no effect on state (malformed ids, missing tokens)
are left out, or are one action where they answer (`CallRefused`). `Fail(r)` is a statement, connection or server failing at `r`'s
present statement: nothing of it is committed. A write that is committed but not
acknowledged is part of the write's own action.

Abstract specifications. What a component promises is a module of its own, with
one action per operation and none per statement, and the component's module
instantiates it. For the galleries, whose transactions lock what they read, the
promise is kept outright. The other three tables are read in one statement and
written in a later one under no lock, so there are two promises: `LateSpec`, kept
always, in which a write may be that of an earlier reading, and `Spec`, kept while
nothing comes between a reading and the write that relies on it: `NoneOvertaken`
of `PropertyListings`, `NoOverlap` of `Accounts` and `Catalog`. A lock, taken where
the row is read, would make that an invariant; nothing in the code does. The
difference of the two is therefore all the harm that overlapping requests can do, and it is spelled
out in the actions of `LateSpec` that `Spec` does not have: `Overwrite` and
`CreateLate` in `ListingBook`, `UpdateContactLate` in `Registry`,
`UndeleteFeature` and `UndeleteAddress` in `CatalogBook`.

Operators marked `\* mutant` are plausible mistakes in the operator that follows
them (a dropped check, a comparison off by one, a stale copy). Nothing uses them;
`PROJECT.json` says which property each one breaks.

### PropertyImages

`images` is the committed table. `writes[r]` is what `r`'s transaction has
written and not committed; `View(r)` lays it over `images`, which is what READ
COMMITTED shows `r`. `lock[p]` is the holder of the listing's row lock
(`SELECT ... FOR UPDATE`); it is taken by `LockProperty`, together with the
owner check, and let go by `Commit` or by `Abort`. `live` is the set of listings
with `deleted_at` NULL; `SoftDelete` and `Restore` are the updates that end
`DeletePropertyByID` and `RestoreProperty`, which wait for the same lock. An add
is `LockProperty`, `CountImages`, `DemoteMain` (only for a main image),
`InsertImage`, `Commit`, `Answer`; a removal is `LockProperty`, `FetchImage`,
`DeleteImage`, `FindSurvivor`, `PromoteSurvivor`, `Commit`, `Answer`.

Abstractions. A row keeps its listing, `is_main` and `position`. Among survivors
of equal position the earliest `created_at` wins; the model has no `created_at`
and lets any of them win, so it allows more than the code does. An image id may
be drawn again after its row is gone, which `gen_random_uuid` does not do in
practice; that too only adds behaviours. Other requests that write the property
row (update, renew, mark) take its lock for the length of one statement and never
touch a gallery; their effect on `live` is `SoftDelete` and `Restore`.

### PropertyListings

`row[p]` is the row of `properties`, `None` when there is none; rows are never
removed, only marked deleted. `complete` is the set of users with a name and a
phone number. `ReadProperty` is the fetch with the owner check and makes the
copy the request will write; `SaveUpdate` and `SaveUpsert` are the two statements
of `Save`; `DeleteProperty` and `RestoreProperty` write `deleted_at` alone.
`Contents` stands for the columns an update sets. `now` counts days.

`Book` is `ListingBook` over the same `row`, `complete` and `now`: reading a
listing, checking a profile and failing are stutters, a write is an operation.
`overtaken` is a history variable, conjoined to every step by `Overtake` and read
by no action: the requests that have read a listing, or found a profile complete,
have yet to write, and whose reading another request's write has made out of date
(`OutOfDate`). `NoneOvertaken` says that there are none. `AtomicUnlessOvertaken` is what every single
request promises: its write is the operation of `Book` that its caller asked for
(`AskedFor`), with the contents given, unless it was overtaken; a deletion or a
restore, which writes `deleted_at` of the current row, even then. So two
requests may be in flight on one listing and harm nothing, as long as neither writes in the
other's gap, and a lost update, a stale `is_rented` or a listing without a contact
needs exactly that.

### Accounts

`users`, `linked` (rows of `user_auth_providers`), and `cooldowns` are the
program's. `links`, `sessions`, `mails` and `proven` record what the outside has
seen: links that reached a mailbox, who was given tokens and how, how many links
Resend has mailed since the server started, and which emails a followed link or
Google's `email_verified` claim has proved to be someone's. The transactions of
`Register` and `SignInWithGoogle` are invisible to others except through the
unique index on `users.email`: an insert waits for an open insert of the same
email, and fails if that one commits (`Duplicate`, `Waits`). `Restart` loses
every request and the cooldowns.

Abstractions. A password is right or wrong. The role lookups, and the row for
Google in `auth_providers`, which the first Google sign-in creates, appear only as
statements that may fail: of two such first sign-ins at once the unique index on
the name refuses one, which is `Fail` here. Users are
never deleted by the code, so the `Save` of `UpdateContact` always finds its row.
`sessions` only grows: that tokens expire removes behaviours and adds none.

`Members` is `Registry` over the same `users`, `linked`, `sessions` and `proven`.
The statements of a transaction before its commit, mails, cooldowns and restarts
are stutters; a commit is the whole registration or first sign-in. `NoOverlap` says
that no two requests are about to write one account (`Holding`).

### Catalog

`features[f]` is the name of feature `f`, `links` the rows of
`properties_features`, `addresses[a]` the row of an address with its listing. A
row is `None` until it is inserted and `Gone` once it is deleted: these rows are
deleted for good and the database never gives their ids out again. `live` is the
set of listings with `deleted_at` NULL, and `SoftDelete` and `Restore` change it
beside the requests, as the operations of `PropertyListings` do. An update reads
the row (`ReadFeature`, `ReadAddress`), checks the owner of the listing where
there is one (`VerifyOwner`), and saves its copy: `SaveFeature` and `SaveAddress`
are the UPDATE of gorm's `Save`, `UpsertFeature` and `UpsertAddress` the insertion
it falls back to when the row has gone meanwhile. The foreign key of
`properties_features` appears in `AttachFeature` (no link to a feature that does
not exist) and `DeleteFeature` (no deletion of one in use). `AddPropertyFeature`
lists the links after its insert; that this may fail when the link is in place
already is part of `Wrote`.

`CallListFeatures` is a client's walk: `CountFeatures` and `PageFeatures` repeat
until a page is not full. `lived` and `steady` are history: the listings that
were live at some moment of a request, and the features present at every moment
of a walk.

`Book` is `CatalogBook` over `features`, `links` and `addresses`. `NoOverlap` says
that no row is about to be deleted that another request has read and will save
(`HoldsFeature`, `HoldsAddress`).

Abstractions. A feature id is a number, because the pages are ordered by it;
names and address fields are `Contents`. The search of `ListFeatures` is empty.
Listings are never removed, so the cascade of a hard delete cannot happen. A walk
lives in the same `Requests` as the RPCs, and its client asks for one page at a
time.

### Sessions and Gateway

`tokens` is every token ever signed, by any server; a token is its claims `typ`,
`sub`, `role` and `exp`. The server keeps nothing, which is why `Crash` leaves
`tokens` and `jar` (the cookie of each browser) alone. A token in `tokens` may
be presented by anyone in any place: as the bearer token of `CallRpc`, as the
cookie of `CallRefresh`, in the link of `CallVerify`. A sign-in is `CallSignIn`,
`ReadRole`, `IssuePair`, `Deliver`; a refresh is `CallRefresh`, `MintAccess`,
`Deliver`; a logout is `CallLogout`, `Deliver`. `Deliver` is the moment the answer
reaches the browser and sets or clears its cookie; answers arrive in any order,
survive the server that sent them, or are lost (`Lose`). `Start` and `Crash` are
the server's life: `NewEmailService` and `NewUploadService` decide from the
environment whether it starts at all and whether uploads are there.

`Store` is `SessionStore` with a refinement mapping: the sessions of its table are
what the refresh tokens say of theirs (`Session`), its grants are the access
tokens, and a browser is in the session of the refresh token in its cookie. `Start`,
`Crash` and `Lose` are stutters, so no restart ends a session or prolongs one.

`Gateway` says which paths the mounted handlers serve and which handlers begin
with `MustUserID`; `CallRpc` routes a path with it, lets the interceptor put a
caller into the context, and hands the request to its handler, whose work is the
subject of the other modules.

Abstractions. Signatures are unforgeable: only tokens that were signed exist. An
access token has no `typ` in the code, which reads "access" here. Who may sign in
to which account is the subject of `Accounts`; here everyone may, which allows
more. Roles are changed by hand in the database (`ChangeRole`). `begun`, `asked`
and `ends` in a token, and `held`, are history: when its session began, when the
token was asked for, when its session's refresh token ends, and when each account
last had each role.

### Browse

`Browse` extends `PropertyListings`: `BrowseNext` is a step of a listing request,
or of a reader, who changes no listing. `at[b]` is the statement reader `b` issues
next and `walk[b]` what it has read. A page of `GetPropertyList` is
`CountProperties`, `PageProperties` (filtered by the clock of the moment the
request began, `asOf`), and `MapPage` (`GetMainImageURLs`, then `Status` with the
clock of that moment); `NextPage` is the client asking for the next one. An
owner's dashboard is `GetMyPropertyList` and then `GetMyDeletedPropertyList`.
`steady` is history: the listings on offer ever since the walk began, or the
owner's listings that were neither deleted nor restored since.

Abstractions. Listing ids are numbers in the order the database sorts them, 0 the
empty cursor; a new listing may get any free id, below or above a cursor, as a
random UUID does. The search is empty. Days are the unit of the clock, as in
`PropertyListings`. `GetPropertyByID`, `ListPropertyImages` and
`ListPropertyFeatures`, one read each of rows the other modules hold, appear only
as paths of `Gateway`.

### External code

PostgreSQL and gorm are modelled from how the code relies on them: READ COMMITTED
(`View`, `Overlay`), row locks held until the transaction ends (`Unlocked`), unique indexes that
make a second insert wait (`Waits`, `Pending`), and the second statement of
gorm's `Save` (`SaveUpsert`). The clock behind `time.Now` is `Tick`.

## 3. What TLC checks

| Run | Instance | Shows |
|---|---|---|
| `images_contention` | 2 requests, 1 listing, limit 3, 4 image ids, 2 positions | `GalleryOK`, `OneMainIndexHolds`, `MainSuccession`, `DeletedGalleryFrozen` |
| `images_owners` | 2 requests, 2 listings of different owners, limit 2 | `OnlyOwnerChanges`, `StrangersLearnNothing`, and that the transactions implement `ImageGallery` (`ImplementsGallery`) |
| `images_answers` | 2 requests, 1 listing, limit 2, with fairness | `AllAnswered`: every image request is answered |
| `listings_concurrent` | 2 requests, 1 listing, an owner and a stranger, 2 contents, windows of 1 and 2 days | `ExpiryInWindow`, `OnlyOwnerChanges`, `AtomicUnlessOvertaken`, `DeleteOnce`, and that overlapping requests implement `ListingBook`'s `LateSpec` (`ImplementsLateBook`) |
| `listings_sequential` | `Browse` with 1 listing request at a time, 1 reader, 2 listings of 1 owner, page size 1, clock to 2 | `ListsComplete`, `PageFresh`; `DeletedUntilRestored`, `RenewLeavesRented`, and that requests one at a time implement `ListingBook`'s `Spec` (`ImplementsBook`) |
| `listings_DeletedUntilRestored` | 2 requests, 1 listing | a violation: see below |
| `listings_RenewLeavesRented` | 2 requests, 1 listing | a violation: see below |
| `accounts_race` | 2 requests, 1 email, 2 account ids, cooldown 2, link life 1, clock to 2 | `OneAccountPerEmail`, `VerifiedByProof`, `LoginNeedsProof`, `ResendRate`, and that accounts implement `Registry`'s `LateSpec` (`ImplementsRegistry`) |
| `accounts_ContactOnly` | 2 requests, 1 email | a violation: see below |
| `accounts_GoogleVerifies` | 2 requests, 1 email | a violation: see below |
| `catalog_tables` | 2 requests, or a request and a walk, 1 listing, an owner and a stranger, 2 features, 1 address, 2 contents, default page and page size 1 | `NoDanglingLinks`, `WalkComplete`, `OnlyOwnerChanges`, `WrittenWhileLive`, `RemovedOnce`, and that the statements implement `CatalogBook`'s `LateSpec` (`ImplementsCatalog`) |
| `sessions` | 2 requests, 1 account, 2 roles, 1 browser, up to 4 tokens, lifetimes 1 and 2, clock to 2, restarts | `KindsApart`, `SessionEnds`, `RoleOfSession`, `LogoutSticks`, and that the tokens implement `SessionStore` (`ImplementsStore`) |

Each first run of a component also checks its type invariant, `TypeOK`.

Why these bounds are enough for what the runs ask. Every hazard here is a race of
two requests on one row, and two requests of every kind are in play. The limit of
a gallery is 5 in the code and 3 or 2 here: what matters is a gallery that is
empty, has a survivor, has a choice of survivors (limit 3, two positions), and is
full. There is one more image id than a gallery holds, so that an add is tried on
a full one while another id is free. The windows 7, 15 and 30 days of
`IsValidExpirationDays` are 1 and 2 here; a clock that ticks once lets a renewal
come before or after another's tick. One email and two account ids suffice for
two insertions to collide. With a cooldown of 2 and a clock to 2, a second resend
comes too early and just in time. Two features and pages of one make a walk of
three pages, with a row created or deleted between any two, before or behind the
cursor; the other limit, 0, is the one that `PageSize` replaces by the default. Four tokens are a
sign-in's pair, an access token from a refresh and a verification link, and so
every kind beside every other; with an access token that lives for a tick, a
refresh token for two and a clock to two, a refresh comes before and after each
expiry. The `sessions` run calls a path that insists on a caller and on uploads, one
that is open to all and tells an owner more, and one nobody serves; its server has a bucket,
and either has the keys its mails need or does not start. A page of one and two
listings give the public walk a second page. `MaxNow` bounds the clock and
`MaxTokens` the tokens signed; nothing else is a bounded counter, as `mails` is
bounded by `MaxNow` through `ResendRate`.

Fairness. Only `images_answers` assumes any: `WF` of each request's next
statement, since the goroutine that runs it goes on and PostgreSQL answers, and
`SF` of `LockProperty`, since a contended row lock goes to its waiters in turn
while the listing may also be free only now and then. `Fail` is not fair: failures
may happen at any time, but nothing relies on them. Deadlock is checked in every run.

What the violations show. Each checks one statement that a comment makes, and
finds an interleaving or a sequence of legal calls in which the code does
otherwise; `PROJECT.json` quotes the comments under `findings`.

- `DeletedUntilRestored`: an update, renewal or mark reads the live listing, the
  owner deletes it, and `Save`, whose UPDATE now matches no row, upserts the copy
  with `deleted_at` NULL. The listing is public again without a restore.
- `RenewLeavesRented`: a renewal reads the listing, a mark commits, and the
  renewal saves the `is_rented` it read.
- `ContactOnly`: `UpdateMe` reads the account, `VerifyEmail` commits, and the
  save writes `email_verified_at` NULL again; password login is refused
  until a link is followed once more.
- `GoogleVerifies`: register with a password, then sign in with Google before
  following the link: the account stays unverified although Google vouched for
  the email.

The first two hold while no request is overtaken: that is what
`listings_sequential` shows for one request and section 4 proves for any number.
So does `CreateNeedsProfile`, a listing is created only for an owner whose profile
is complete at that moment, which `Create` of `ListingBook` says and a run of its
own would repeat. With a request overtaken it fails too (an `UpdateMe` that blanks the profile
between the check and the insert), which no comment denies. `ContactOnly` holds
under the `NoOverlap` of `Accounts`. `GoogleVerifies` is no race, and no lock would
help it.

## 4. What is proved

For every number of requests, readers, users, listings, images, features,
addresses, emails, accounts and tokens, every limit, page size, window, lifetime,
cooldown and clock bound. Assumptions on the constants are those named in the
modules that declare them: limits are natural numbers, positions and page limits
integers, lifetimes positive, ids that pages are ordered by positive numbers, and
the values that stand for nothing are not rows or ids. Each theorem follows from
an inductive invariant `IInv` (`BrowseInv` for `Browse`), which the component's proof module
defines and proves first (`Inductive`, `BrowseInductive`).

A theorem of the form `Spec /\ []NoneOvertaken => ...`, or with `[]NoOverlap`, says
what holds in those behaviours in which requests happen not to come between
another's reading and its write: not that the code sees to it, which it does not,
but that nothing else is missing. Such behaviours include every one with a single
request in flight, those in which many are, on different listings, accounts or
rows, and, for `NoneOvertaken`, those on one listing whose writes miss each
other's gaps. `AtomicTheorem` needs no such hypothesis: it speaks of each request.

*PropertyImages*: `TypeCorrect`, `GalleriesWellFormed` (`GalleryOK`),
`OwnerTheorem`, `FrozenTheorem`, `SuccessionTheorem`, `IndexTheorem`,
`StrangersTheorem`, and `Refinement`, that the transactions implement `ImageGallery`; `AbstractGalleryOK` says of `ImageGallery`
itself that its galleries stay well formed. `GalleryOK` is not inductive: it speaks
of committed rows, and between two statements a transaction's view may have no
main image. `IInv` adds that a request between its first statement and its commit
holds the row lock of a live listing it owns (`LockInv`), hence that no two work on
one listing; what each `pc` says of the uncommitted writes (`TxInv`: which rows are
written, what was counted, demoted or deleted, and therefore what committing now
would make of the gallery); and that two transactions never write the same row.
The refinement maps everything but `Commit`, `SoftDelete` and `Restore` to a
stutter, and `Commit` to `AddImage`, `RemovePlain` or `RemoveMain` by what `TxInv`
says of the view that is committed. `IndexTheorem` follows because until its last
statement no transaction makes an image main (`ViewMains`). `LocksTheorem` and
`StatementsEnd` are the safety half of `AllAnswered`: whoever holds a row lock is
inside a transaction on that listing and holds no other lock, so there is no circle
of waiters; and each statement of a request brings it nearer its end, while no step
of another sets it back, so what is left for liveness is that a request is let to
issue its next statement, which is what the fairness says.

*PropertyListings*: `TypeCorrect`, `ExpiryTheorem`, `OwnerTheorem`,
`AtomicTheorem`, `DeleteTheorem`, `EnvironmentTheorem`. `IInv` says of each
request that the copy it will save was owned by its caller and has an expiry in
some window, which stays true as the clock moves, and that owners never change:
this is why checking the owner on a stale copy is enough. `LateRefinement`: however
requests overlap they implement `ListingBook`'s `LateSpec`; beside `IInv` it needs
that the copy about to be saved is not marked deleted, and that the row about to
be inserted is neither rented nor deleted (`Late`). `AtomicTheorem` (`AtomicUnlessOvertaken`)
rests on `Fresh`: the copy of a request that is not overtaken is the listing as it
is now, but for the change its caller asked for (`Named`), and the profile it found
complete still is. A step of another request that breaks this puts the request
among the overtaken, which is the one thing `Overtake` does. `SerialRestore`,
`SerialRenewal`, `SerialProfile` and `SerialRefinement` have `[]NoneOvertaken` as a
hypothesis, by which every copy is fresh (`Undisturbed`), and prove under it what
the violations refute without, and that `ListingBook`'s `Spec` is implemented. `SequentialRefinement` draws from
it that a single request in flight implements `Spec` with no hypothesis on the
behaviour. `EnvironmentTheorem` justifies what `PropertyImages` and `Catalog` take
for granted about listings: one owner each that never changes, none that vanishes,
and only ever one that becomes live or ceases to be live in a step (their `Owner`,
`SoftDelete` and `Restore`).

*Accounts*: `TypeCorrect`, `OneAccountTheorem`, `ReachableTheorem`,
`ProofTheorem`, `LoginTheorem`, `RateTheorem`. `IInv` adds that open inserts are of different
emails and ids, none of them in the table; that a stale copy about to be saved
has its account's email and password and is verified only if the email was
proved; and that links and tokens belong to existing accounts. `RateTheorem` counts
slots, the mails sent and the requests that may still send one, which a cooldown
separates (`RateInv`). `Refinement`: accounts implement `Registry`'s `LateSpec`.
It rests on what a transaction that is about to commit has to say for itself
(`Made`: the row it made is the one the operation promises; its email is free
because open inserts differ) and on `IInv` for the copy of an account. `SerialContact`
and `SerialRefinement` assume `[]NoOverlap`: the copy is then the account as it is,
but for name and phone (`Undisturbed`), so `UpdateMe` takes no verification back
and `Registry`'s `Spec` is implemented.

*Catalog*: `TypeCorrect`, `LinksTheorem`, `WalkTheorem`, `OwnerTheorem`,
`LiveTheorem`, `RemovedTheorem`. The owner is checked on the listing an address
named when it was read, and the address may be deleted, and saved again, before
it is written. `IInv` says why that is enough: a request that holds an address
holds a copy with the address's listing (`BoundInv`), requests that hold the same
address agree on it (`Agree`), and ids are not used again, so whatever brings the
row back brings it back under the listing that was checked. `WalkInv` says that a
walk has shown every steady feature up to its cursor and nothing above it.
`Refinement`: every write is an operation of `CatalogBook`'s `LateSpec` on one row,
because a feature that a request will save had been inserted when it was read
(`Read`), and an address by `BoundInv`. `SerialRefinement` assumes `[]NoOverlap`:
the row a request will save then exists until it is saved (`Kept`), the second
statement of `Save` is never reached, and what is deleted stays so.

*Sessions*: `TypeCorrect`, `KindsTheorem`, `EndTheorem`, `RoleTheorem`,
`LogoutTheorem`. `IInv` says of every token what was true of its session when it
was signed (`TokenInv`), of every request the same of the claims it carries, and
that all of it only becomes truer: `tokens` and `held` grow. Restarts and late
answers therefore disturb nothing. `Refinement` proves that the tokens implement
`SessionStore`; it needs in addition that every cookie is a refresh token that was
signed, and that what a request carries descends from one: from the moment of its
call, for a sign-in, or from the token it presented, for a refresh (`Lineage`).

*Browse*: `BrowseTypeCorrect`, `ListsTheorem`, `FreshTheorem`, `ReadersHarmless`. `BrowseInv` is the
listings' `IInv`, which holds because readers write nothing (`ListingsKnown`),
with what a reader knows: up to the cursor every steady listing has been shown
(`Cleared`), the page in hand leaves out only what comes after it (`PageInv`), and
a steady listing of an owner is in the first list or is deleted (`OwnInv`).
`ReadersHarmless` carries the two refinements of the listings over to the
composition.

The inductive invariants are proved and no longer part of the runs; they were
checked by TLC on the instances of section 3 (`IInv`, and `BrowseInv` for `Browse`, hold there).

Only model-checked: `AllAnswered`, which is liveness under fairness and out of the
prover's reach, and the four violations.

## 5. Not modelled

- *Deployment*: a shell script run by CI over SSH and Docker; nothing of the
  program takes part in it. That two deployments may overlap is listed as a hazard.
- *Uploads* and *email delivery* beyond what `Sessions` and `Accounts` have of them:
  presigning a URL, composing a message and talking to S3 and SES keep no state.
- *Server wiring*: CORS, ports, the database connection and its pool.
- *Schema migrations*: applying them. The constraints they impose are part of the
  modules.
- *Wire interface*: messages, their encoding and the client stubs, all generated.
- The searches of `GetPropertyList` and `ListFeatures`: they narrow the rows a page
  is taken from by columns that nothing here tells apart.
- The `auth_providers` row for Google and `GetMe`: see `Accounts`.
- The unbounded growth of `resendCooldowns`: a bounded model cannot show it.

## 6. Plan

Done: every component of the inventory that keeps state or decides something has
its module, its run and its theorems, and each of the five that write has an
abstract specification that it is proved to implement. Each invariant and step
property that a passing run checks is also a theorem.

What a next step could add: a theorem that composes the galleries with the
listings, so that `Owner`, `SoftDelete` and `Restore` of `PropertyImages` are an
instance of `PropertyListings` and not only justified by `EnvironmentTheorem`; the
same for `Catalog`; larger instances of `catalog_tables` (two listings, two
addresses) and `listings_sequential` (pages of two); liveness of the image
requests with a server that restarts; and the deployment script as a model of two
overlapping deployments if it is ever relied on for more than one host.
