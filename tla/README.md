# photo: a verification development

`photo` is a self-hosted photo library: the server `photod` keeps photos of the
members of a household, serves them as web pages and over an API, and lets the
client `photo` fill it from the command line.  This directory holds TLA+ models
of the server's logic, the TLC configurations that check them, and proofs that
TLAPS checks.  Paths below are those of the repository.

## The system

| Component | Its state | Its operations | Talks to |
|---|---|---|---|
| Albums: `album.go`, `sqlite/album.go`, `http/album.go` | tables `albums`, `album_photos` (a position per row) | create, rename, cover, add, remove, move, delete; every handler first finds the album and compares its owner, then calls the service | photos, by foreign keys |
| Photo library: `importer/`, `http/photo.go`, `sqlite/photo.go`, `http/html/photo.go` | table `photos`, files under `LibraryRoot` | upload, visibility, deletion | EXIF tool, geocoder, albums |
| Registration and invites: `http/auth.go`, `http/html/auth.go`, `http/admin.go`, `sqlite/invite.go`, `sqlite/user.go` | tables `users`, `invites` | register (two handlers), issue and revoke an invite | sessions |
| Sessions: `sqlite/session.go`, `http/auth.go`, `http/html/auth.go` | table `sessions`; tokens in the hands of clients | login, authentication, two logouts, hourly cleanup | users |
| Geocoder: `geocode/geocode.go` | cache and time of the last request, under a mutex | `ReverseGeocode` | Nominatim; called by uploads and by regeocoding |
| Browsing: `http/html/photo.go`, `http/html/album.go` | none of its own; offsets and contexts live in URLs | grid, album page, photo page with links backward and forward | photos, albums |
| Public pages, thumbnails, share links, feed: `http/html/public.go`, `http/html/feed.go` | thumbnail files; caches of browsers | serve a photo or thumbnail, share and revoke | photos |
| Database and migrations: `sqlite/sqlite.go`, `sqlite/album.go`, `sqlite/migrations/` | all tables, `schema_migrations` | open, migrate, give slugs to old albums; transactions | everything |
| Login limiter: `http/middleware.go`, `http/html/server.go` | a counter per address and door, in memory | allow, record, cleanup | login handlers |
| Client: `cmd/photo/publish.go`, `client.go` | the loop of a run, its exit code | check, upload, attach tags | the API |
| Tags: `http/photo.go`, `sqlite/tag.go` | tables `tags`, `photo_tags` | attach (making the tag), detach | photos, the client |
| The rest: EXIF, status, backup, configuration, templates, mocks | none that other parts share | | |

How they interact.  The server is one process with a goroutine per request.
Shared state is the database, the file system, the geocoder and the limiter.
The database has a single connection (`SetMaxOpenConns(1)`), so a transaction
of a service method is one atomic step and transactions are serial; a handler
is a *sequence* of transactions and file operations, and other handlers come
between any two of them.  That is where the hard behaviours are:

- a handler decides in one transaction and acts in another (albums, invites,
  first user, logout, links of a photo page);
- a row and its file are written without a transaction over both, steps fail,
  and the process may die in between;
- arithmetic that has to survive long histories: positions in albums, suffixes
  of slugs, offsets of pages;
- time at the granularity of seconds: tokens, expiry, the rate of requests;
- a client that repeats what may have been done already, whose answers get lost
  while the server goes on, and whose exit code decides about the only copy;
- migrations without a transaction around a file, and a process that may die
  between any two statements.

`PROJECT.json` lists these hazards line by line with the properties that would
notice each of them going wrong.

## The modules

Common conventions.  One action is one transaction, or one step of a handler
between two transactions or file operations.  A row's identifier is a model
value and is never used twice, as kids are not.  A variable marked "history" in
a module is read by properties only.  "Mistake to detect" heads a definition
that no specification uses; it is the code with a plausible bug, kept to show
that a property notices it.  Contents of requests (captions, names, passwords,
coordinates) are members of small sets.

### Albums and AlbumOrder

`AlbumOrder` is the abstract specification: what `AlbumService` in `album.go`
promises of the order of an album.  An album is a set of photos and a strict
order of them; adding appends, moving puts one photo to the front or right
behind another and leaves the others in their order, and deletions remove.  As
a step of `AlbumOrder` may be any of these, `MovesAsAsked` says separately that
the move is the one the request asked for.

`Albums` is the code.  `position[a][p]` is the column `album_photos.position`;
`CreateAlbum` runs `uniqueSlug`; `Resolve` is `resolveAlbum` with `ownsAlbum`,
which remembers the album in `target[r]`; `AddPhoto`, `RemovePhoto`,
`MovePhoto`, `UpdateAlbum`, `DeleteAlbum` are the service calls that the same
request makes later, when the album may have changed or gone; `DeletePhoto` of
the photo API fires the foreign keys' `ON DELETE` clauses.  `MovePhoto` keeps
the code's oddity: of a photo that is not in the album it shifts the others and
answers with success.  `ListedBefore` is `ORDER BY position`, the refinement
mapping onto `AlbumOrder`.

`AlbumsProofs` proves, for any sets of albums, photos, users and requests:

| Theorem | Says | Rests on |
|---|---|---|
| `TypeCorrect` | `TypeOK` | |
| `PositionsAlwaysDistinct` | positions of one album are 1-based and differ | `TypeOK`; rows of photos outside the album have position 0, and `MovePhoto` opens a gap before it fills it |
| `ReferencesAlwaysLive` | no row or cover refers to something gone | that a request never holds an album that was not created |
| `SlugsAlwaysUnique` | slugs of live albums differ | `FirstFree` returns a free slug |
| `SlugsNeverChange` | a live album keeps its slug | `TypeOK` |
| `OwnersOnly` | an album changes only by its owner's request or a photo's deletion | `TargetOwned`: albums change owners never, so a comparison made in an earlier transaction still holds |
| `MovesGoWhereAsked` | a moved photo comes to lie exactly where the request asked | `PositionsDistinct` |
| `AlbumsImplementOrder` | the positions implement `AlbumOrder` | `PositionsDistinct` |

The inductive invariant is the conjunction of the named parts; `SlugsUnique`
and `TargetOwned` are not inductive without `TypeOK`, and the order is strict
only because positions are distinct.

### LibraryContract, Library and LibraryProofs

`LibraryContract` is what the library promises to those who use it, without
files and handlers: an upload becomes a photo at one moment (`Make`) or is
refused and leaves none, live photos differ in content, and nothing but the
owner or the end of a RAW upload changes a visibility.  `Library` is the code
and implements it: `Progress` maps the program counter of an upload to the
contract's, and the upload becomes a photo when the transaction of its row
commits.

One upload `p` walks through `runPipeline`: `read`, `copying`, `copied`, then
the row (`CreateRow`) or its refusal (`CreateRefused`) and the removal of the
copy (`Undo`), then the RAW correction and the answer.  A deletion finds the
photo and compares the owner (`CheckDeletion`), deletes the row, then the file.
`SetVisibility` is the owner's change.  `Crash` ends all handlers and keeps
files and rows.  `Remove` is `os.Remove`, whose failure the code ignores after a
failed write (`importer.go:384`) and a refused row (`:245`) and only logs after a
deletion (`http/photo.go:427`); a copy whose `Close` fails is not removed at all
(`:387`).  The history `stuck` names the photos whose file stayed for such a
reason, as `lost` names those whose handler a crash cut off: `NoUnexplainedFile`
and `HandlersFinish` except these two and nothing else.  `ReplyIsTrue` says that
"created" came with a row, and a refusal without one.  `photos.sha256` is unique over all users, as the migration
says, whatever `handlePhotoExists` asks.

`LibraryProofs` proves `TypeOK`, `RowHasFile`, `NoUnexplainedFile`,
`ReplyIsTrue` and `OnlyOwnerDeletes` for any number of uploads, deletions,
failures and crashes.  The inductive invariant adds what ties the
program counters to the two stores: a row appears only at `created`, the file
is whole from `copied` on, a deletion that holds a photo has its owner's user,
and `rowGone` means that the row is deleted.  `RowHasFile` alone is not
inductive, because it does not say that `Undo` only runs without a row or that
`RemoveFile` only runs after `DeleteRow`.  `LibraryImplementsContract` is the
refinement: each step of `Library` maps to one of the contract or to a stutter,
with one lemma for the uploads (`UploadKeepsContract`) and the invariant for
what a step reads.  It is what lets `Publish` be composed with the contract
alone.

### Publish and PublishProofs

`Publish` composes three actors over the photos of `LibraryContract`: the
command `photo publish`, the requests for tags, and the rest of the world.  The
client's `Take`, `CheckExists`, `Send`, `Hear`, `AskTag`, `HearTag`, `Tagged` are
one pass of the loop in `runPublish` with `uploadPhotoOpts`; `RequestFails` is
any error of it, a lost answer included, after which the server may still finish
the upload that nobody waits for; `Interrupt` is a signal.  `FindForTag`,
`FindOrCreateTag`, `AttachTag` are the three transactions of `handleAttachTag`.
`LibraryStep` lets any user begin uploads and lets the library go on with all of
them, `DeleteTagged` deletes, `CutOffTagging` is the death of the server.
Each step of Publish is one of the contract's or leaves its variables alone.

`NothingLost` is what a script relies on that removes local files after exit
code zero: each content was live, as a photo of the publisher, at some moment of
that run.  It cannot say "is live now": the owner may have deleted it, during
the run even.  It depends on `handlePhotoExists` asking for a photo *of the
caller* and on a refused duplicate counting as an error: the photo that refuses
it may be another user's, who can delete it.
`CleanRunsTagged` says that tags are only ever missing after a failure, a
warning or an interruption, or because the owner took them off.

`PublishProofs` proves both for any directory, any number of runs, of other
uploads, deletions, failures and crashes, together with `PublishTypes` (tags
are on live photos only) and `PublishUsesContract`.  The inductive invariant
says what the client knows at each of its steps (`ClientStage`), that the photos
seen in a run include every live one (`Noticed`), that each file the loop has
passed without an error is among them (`Covering`), and that each request
answered "ok" has left its tag unless the photo is gone (`AnswersMarked`,
`PassedMarked`, `SentMarked`).  `Grows`, which holds of every step of the
contract, is all that it needs to know of the library.

### Migrations

`Migrations` is `Open` on a database it finds.  A file is a sequence of
statements translated one by one, `RunStatement` commits one of them, `Record`
notes the file in `schema_migrations`, and a statement that SQLite would refuse
ends the start.  `Crash` comes between any two; the next start runs an unnoted
file from its first statement.  `Dropped` is SQLite's `DROP TABLE`, which with
foreign keys on deletes the rows first and cascades: `0008` and `0009` turn
them off, and the pragma is lost with the connection.  `MigrateExistingSlugs`
is the Go step that follows.  `Init` is a database that any of the nine
releases, or none, has left behind, with any rows that refer only to rows that
are there.  Any of its albums may still be without a slug, as the albums of a
release before 0006 are and as a process leaves them that dies between `Open`
and `MigrateExistingSlugs`; only the table of the newest release has room for no
more than one.  Its photos may hold NULLs (`nulls`) in columns that `0001:35-40,
51` left nullable and `0009:26-31, 37` does not; the copy of the photos then
fails.  `FirstRelease` and `Columns` say what the database of each release has,
as a table and not by running the files, so that a file which is edited after
its release disagrees with it.  Columns are kept as far as a later file reads
or adds them.  Indexes are left out, they hold no rows and begin no file.

A crash inside a file often makes the next start fail ("duplicate column",
"table exists"): the user then needs a backup or SQL by hand.  `RefusedOnlyIf`
says that nothing else does, but for two albums without slugs and for a NULL
(`Unfit`), and `RowsNeverLost` that his data is still all there.  `PRAGMA
foreign_keys` is set once, when `Open` has connected (`sqlite.go:67`): that it
holds later, here and in the modules whose tables cascade, assumes that this one
connection lives as long as the process.

`MigrationsProofs` proves `RowsNeverLost`, `UpIsMigrated` and `RefusedOnlyIf`
for any rows and references and any number of crashes.  The nine files are
unrolled into one script of 31 statements, and `After(g)` describes the database
after `g` of them: its tables (`Lifetime`), their columns (`Cols`) and their rows
(`RowsAt`).  The inductive invariant `IInv` says that the first files have been
applied and that the next one is either *fresh* or *stuck*.  Fresh: the database
is as after so many statements, foreign keys are off exactly in the stretches
`Unenforced`, and what has been copied was fit to be (`Fits`): no NULL among the
photos, no two albums with one slug.  Stuck: a crash came inside the file or the
rows are `Unfit`, nobody is served, every row is held somewhere, and the file fails, now and at every later start, at a statement
whose work is there already (`Blocked`).  There is one lemma per file for what
its statements do (`InitialSchemaRuns` to `VisibilityEnumRuns`), built from one
lemma per kind of statement (`CreateRuns` to `PragmaRuns`).  `Broken` is the heart
of it: a crash leaves the database as it was before the file, or blocked.  File 8
can run to its end a second time, on a table that it has already built anew,
which is why `ColsAt` allows two sets of columns there.  `Boundaries` ties the
script to the tables of the releases, at `Init` and when the server is up.

### LoginLimiter

One address at one of two doors: `rateLimit` of the API and the limiter inside
the page's login count separately and alike.  `Allow` and `Record` are apart, so
attempts that are under way at the same time all pass the check.  `LimitKept`
bounds the overrun by their number and says that nobody is blocked without
`MaxAttempts` failures in the last window, the code's comment made precise.
`AccountsProofs` proves both halves for any number of attempts.  The counter
alone is not bounded by an inductive invariant, as an attempt that has passed
the check adds to it later: what no step of a window raises is the counter and
the attempts under way together (`Room`).  The other half ties the counter to
the history of failures: it never says more than the last entries of the log,
all of them in the window (`Logged`).

`LoginLimiter`, `Registration` and `Sessions` extend `Clock`, the `time.Now` that
all three compare with, and share nothing else; their proofs are one module,
each part for itself.

### Registration

`Count`, `CheckInvite`, `CreateUser`, `MarkInviteUsed`, `SignIn` are the calls
of `handleRegister` and of `handleRegisterPost` in order, each its own
transaction; `CreateInvite` and `RevokeInvite` are the admin's.
`UsageIsFinal` holds since `MarkInviteUsed` looks again; what it cannot do is
take back the user that was created before.  `NoLateAdmission` and
`NoLateAdmin` bound the damage of those races: only registrations that read
*before* the invite was shut, or before the first user existed, slip through.

`AccountsProofs` proves all four properties for any number of registrations
and invites.  The invariant says what a registration at each link of its chain
has done (`Stages`) and that a used invite is still there and names a user who
came by it (`Invites`).  The two that speak of the future are proved through
predicates that no step ends: `ShutOut`, `NotFirst`.

### Sessions

A token is the pair of user and second of issue, since that is all a JWT of
this code holds.  `Accepted` joins the check of the token with that of the row.
The logout of the API passes `requireAuth`; the one of the page takes any
cookie.  A lookup that fails for another reason than a missing row is taken for
"already gone" by the code; the model calls the answer "assumed" and
`LogoutInvalidates` does not cover it.  The slower of two logouts of one
session is answered with not found.

A login is two steps.  `IssueJWT` fixes the token, `CreateSession` inserts its
row, and as it waits for the only connection any time may pass in between; the
expiry in the row is computed at some moment since.  `NoResurrection` is exact:
within the second of issue a new login does revive the token that was just
logged out, and so does a login of that second which still waits (`Waiting`);
else the token stays out.  The clock of the models does not go back.

`AccountsProofs` proves all but `ExpiredSessionsGo`, for any users, sessions,
logouts and lifetime.  It rests on three facts: live rows have different tokens
(`OneRowPerToken`), the row a logout has found holds the token it was shown
(`FoundIsShown`), and no token was issued later than now (`TokenMade`).
`NoResurrection` goes through `Past`, which no step ends: the second of the
token is over, and no session has it as a row or waits to store it.

### Geocoder

`Begin` looks into the cache, `TakeTurn` is `rateLimit` up to the unlock,
`Send` the end of its sleep, `Receive` the answer with `Store`.  A caller makes
one lookup after the other, as the loop of `handleRegeocodeMissing` does, and
callers run side by side.  `rateLimit` does not deliver one request per
interval (see below); `NoThreeInInterval` is what it does deliver.

`GeocoderProofs` proves the three properties for any calls, callers and points.
Its invariant ties cache and answers to what has been heard (`FactsOnly`), says
that an answer stays in the cache and that whoever is about to ask has not been
answered (`Cached`), and orders turns by the clock (`Turns`): each call sleeps
until an interval after every earlier *turn*, which is why it takes three.

### Browsing

A listing is a set of numbered photos, in its order.  `OpenList` makes a page
of the grid or of an album.  The page of a photo is made of `OpenPhoto`,
`Locate`, `LinkPrevious` and `LinkNext`, each a transaction of its own, with
`Arrive` and `Depart` of photos between them (moving a photo in an album is a
departure and an arrival) and `LookupFails` for a query that fails or an album
that is gone.  Between requests the library is arbitrary, so every request is
checked against every library of the bounded size.  Offsets are multiples of the
size of a page, as they are in every link that the server writes; an address
edited by hand may hold any other, and of its links nothing is said.

`BrowsingProofs` proves the type invariant and all three properties, for every
size of page, every listing and any number of changes within a request.  A page
is an interval of ranks, the rank of a photo being the number of photos before
it.  The lemmas on ranks lead to `Forward` and `Backward`: the photo next to
one is on its own page or is the first, or the last, of the neighbouring page,
and there is no such page if and only if there is no such photo.  While a
request is served, photos that join the listing can only push the rows of a
page back and photos that leave can only pull them forward (`OnPage`), which is
what `LinksKeepDirection` needs of the three transactions.

### Serving and ServingProofs

One photo: its row, its file, its thumbnail, and any number of requests for
them.  A visitor comes by `/p/{id}` or by a share link, a signed-in user by
`/photo/{id}`, and edits come from pages and the API (visibility, location,
share and revoke, regeocoding of one photo or of all without a location,
deletion).  `FindForView` and `FindForEdit` are the lookup at the start of a
handler; `snap[r]` is what it goes on with while others edit.  `LookForThumb`,
`StartThumb`, `FinishThumb`, `RecordThumb`, `SendThumb` are the steps of
`servePhotoThumb` and `handlePrivateThumb` between accesses to disk and
database.  `StartThumb` empties the file, as `os.WriteFile` does, and the
writing may fail or be cut off by `Crash`, which leaves the thumbnail
"partial" for good.  Two writers write the same bytes, so the first to finish
makes it whole.  `Update` is the transaction of `UpdatePhoto`.

`asked` is the history of what the owner's requests wanted, kept apart from the
row, so that `ServedRightly` notices a row that another request has silently
set back as well as a lookup that lets in the wrong visitor.  It holds from the
moment a visitor asks, not when the answer leaves: a request that found the
photo published is served even if it was made private a moment later, and
caches keep it for a year.  The preview of a raw file is sent as `public` even
through a share link (`http/html/public.go:234`), so a proxy may keep it;
`ServedRightly` excepts it.

`ServingProofs` proves `TypeOK`, `ThumbPathReal`, `ServedRightly` and
`NamesKept` for any number of requests and tokens.  The inductive invariant
adds that the row is what the owner last asked for (`AskedIsRow`), that a
request which found the photo carries the permission it was found by and, if it
read "published", that for caching (`FoundRightly`), and that a request about
to record or send a thumbnail has a file (`ThumbMade`).  `AskedIsRow` needs
that an update touches only the fields it is given, `UpdateOfTyped` and
`RecordKeeps`.

## The runs

| Run | Question | Bounds |
|---|---|---|
| `albums` | Do the albums keep order, references, slugs and ownership? | 2 albums, 3 photos, 2 users with a request each, one name, positions to 4; photos and albums symmetric |
| `library` | Do rows, files and answers agree, does it implement its contract, and do handlers finish? | 2 uploads of 2 contents by 2 users, 2 deletions, 1 crash; any step may fail, the removal of a file too |
| `library_raw` | Is a RAW photo always private? *No.* | as `library` |
| `publish` | Does exit code zero mean that the library has had every file, and do clean runs attach all tags? | 2 files, one with 2 tags of which one is a date; 3 uploads (symmetric), 2 users, 2 runs; the server may die any number of times |
| `serving` | Is anybody served what was taken back before he asked, and are names kept that were there when the list for regeocoding was read? | 2 requests at a time, any number in a row; 2 tokens; a JPEG, a file that cannot be decoded, a raw file |
| `registration` | Is the use of an invite final, and who may come late? | 4 registrations, two of one name, 1 invite, 2 instants, calls may fail |
| `sessions` | When do sessions end, and do they stay ended? | 1 user, 3 sessions, an API and a page logout, instants 0 to 3, lifetime 2; a login may wait through all of them |
| `logins` | Is the limit on failed logins kept? | 3 attempts at a time, any number in a row, 2 failures allowed, a window of 2 in 6 ticks |
| `geocoder` | Is the cache true, is nothing asked twice, how close are requests? | 3 lookups by 2 callers, 3 points on 2 keys, an interval of 2 ticks, 5 ticks |
| `browsing` | Do links and pages follow the listing? | 5 photos, pages of 2, 2 changes within a request |
| `migrations` | Does every database come up whole, or else lose nothing? | databases of 10 ages with any consistent subset of 9 rows, albums with and without slugs, a photo with and without a NULL, 2 crashes |
| `migrations_old` | Does a database without NULLs come up if no crash has come, though its albums have no slugs yet? *No.* | as `migrations` |

Why these bounds are enough to meet the interesting cases.  Three photos are
the least with an order in which one is moved and two others are watched;
positions up to 4 leave room for a gap, for a shift that goes too far and for a
second addition after it.  Two albums of one name need a suffix; collisions of
more names are covered by the proof of `SlugsAlwaysUnique`.  Two uploads
suffice for a duplicate, a third adds no new kind of conflict as all of them
meet in the one UNIQUE constraint; the proofs have no bound.  Four
registrations allow two in a race before an invite is shut, one after, and a
taken name.  Instants 0 to 3 with a lifetime of 2 cover issue, a second in which
the session lives, the edge of expiry and the second after.  Five photos on pages of two have a
full page, one in the middle with a neighbour on either side, and one that is
not full.  Two requests at a time race for row and thumbnail, and as each is
followed by another, a third comes after both; two tokens let one replace the
other.  Three uploads let the publisher's own lost attempt, its retry and another
user's upload of the same content meet; two runs give the retry.  `publish` has
one visibility, so RAW corrections and changes of visibility, which no client
and no tag reads, do not happen in it.  The nine rows of `migrations` are one of
each table with its references and a second album, for the clash of empty slugs;
two crashes allow one inside a file and one inside its repetition.  Two failures
and three attempts overrun the limit by two, and six ticks hold three windows.
Household visibility is left out of the changes of `serving`, as
serving does not tell it from private; the rows it starts from have it.

Bounds that are conjuncts of guards: `MaxPosition` (albums), `MaxCrashes`
(library, migrations), `MaxRuns` (publish), `MaxTime` (registration, sessions,
geocoder, logins), `MaxTokens` (serving), `MaxOffset` and `MaxChanges`
(browsing).  Where they, or the finite numbers of requests, let the model stop
while the server would not, the configuration turns off the check for
deadlocks; `browsing` and `serving` run for ever and keep it on.

Fairness.  `library` assumes weak fairness of each handler once it has begun,
because `net/http` runs a handler to its end, and nothing of the steps with
which users begin requests.  `sessions` assumes it of the cleanup, whose ticker
fires every hour while the server runs, and of nothing else.  All other
properties need none.

## What the code does otherwise than it says

Shown by runs:

- `library_raw`: a RAW photo keeps the requested visibility when the second
  transaction of its upload fails or the process dies before it.
- `migrations_old`: `0006` puts the unique index on slugs off until the Go step
  has filled them, but `0009` makes the column UNIQUE before that step runs, so
  a database with two albums that have no slugs yet never comes up.

Met on the way, stated as definitions where a property says them ("The code
does not keep it."), without a run of their own:

- Two registrations that overlap get in with one invite (`InviteSingleUse`), and
  two first users may both become admins; `NoLateAdmission` and `NoLateAdmin`
  say who.
- A file stays behind without a row when it cannot be closed or removed
  (`importer.go:245`, `:384`, `:387`, `http/photo.go:427`), as `stuck` in `Library`
  shows; nobody is told.
- The rate limit of the geocoder is passed by the third of three lookups in a
  row (`OnePerInterval`), since `rateLimit` records the turn and not the time of
  the request.
- A thumbnail is sent as immutable for a year while another request is still
  writing it (`ImmutableNeverChanges`); after a crash or a full disk during the
  write the unfinished file is served for good.
- An album offered to visitors answers 404 if its published photos lie behind
  its first page (`ListedAlbumOpens`).
- `photo publish` exits with zero though tags could not be attached, and a later
  run skips the photo, so they never come (`ExitZeroTagged`; `publish.go:88`
  has it "exits non-zero on any failure").
- `photo add` counts duplicates as errors though its usage says they "are
  skipped automatically", and exits with zero whatever has failed
  (`cmd/photo/add.go:23`, `:72-96`).
- `CreateAlbum` never answers `ECONFLICT` (`album.go:117`) but picks another
  slug, as `FirstFree` shows.
- The slower of two logouts meets `ENOTFOUND` where the comment says "treat as
  success" (`http/auth.go:308`), as the answer "notfound" in `Sessions` shows.

## What is proved and what is only checked

TLAPS proves, for every value of the constants:

| Module | Theorems | From the assumption |
|---|---|---|
| `AlbumsProofs` | the eight of the table above | `AlbumsAssumption` |
| `LibraryProofs` | `TypeCorrect`, `RowsHaveFiles`, `FilesAreExplained`, `RepliesAreTrue`, `OwnersOnlyDelete`, `LibraryImplementsContract` | `LibraryAssumption` |
| `PublishProofs` | `PublishTypes`, `PublishLosesNothing`, `PublishTags`, `PublishUsesContract` | `PublishAssumption` |
| `ServingProofs` | `TypeCorrect`, `ThumbPathsReal`, `AlwaysServedRightly`, `NamesAlwaysKept` | `ServingAssumption` |
| `AccountsProofs` | `LimitAlwaysKept`; `SessionsTypeCorrect`, `SessionsEndRightly`, `LogoutsInvalidate`, `NeverResurrected`; `RegistrationTypeCorrect`, `UsageAlwaysFinal`, `NobodyLateAdmitted`, `NobodyLateAdmin` | `ClockAssumption` with `LimiterAssumption`, `SessionsAssumption`, `RegistrationAssumption` |
| `GeocoderProofs` | `AnswersAlwaysTrue`, `NeverRepeats`, `NeverThreeInInterval` | `GeocoderAssumption` |
| `BrowsingProofs` | `TypeCorrect`, `WalksFollowListing`, `LinksAlwaysKeepDirection`, `PagesAlwaysPartition` | `BrowsingAssumption` |
| `MigrationsProofs` | `NoRowIsLost`, `ServesNewest`, `RefusedOnlyAfterBreak` | `MigrationsAssumption` |

The assumptions say that sentinels differ from values, that maps are functions,
that bounds are natural numbers, that a row belongs to a table there is, and
that there are finitely many albums, attempts or photos, which are numbered.  All the proofs have one shape: `Init` establishes an inductive
invariant made of named parts, one lemma per action (or per group of actions
with a common argument) shows that steps keep it, and the property follows from
it, or from it and one step.

`ReferencesAlwaysLive`, `SlugsNeverChange` and `PublishUsesContract` state what no run checks as a property of its own;
everything else was checked by TLC as well, and so were the inductive
invariants before they were proved.

Every safety property that a run checks is a theorem now.  Only model-checked
is liveness: `HandlersFinish` (every upload is answered or cut off by a crash,
and the file of a deleted photo goes unless a crash or
a failed removal keeps it) and `ExpiredSessionsGo`, as fairness and
ENABLED are out of the prover's reach.  The two runs that expect a violation
(`library_raw`, `migrations_old`) show what is false.  That the database of an
uninterrupted run of the files is the one that `Columns` lists is a consequence
of the invariant (`Boundaries` with `StatementRuns`), but that such a run comes to
its end is liveness and not stated.

## What is not modelled

- The feed and shared albums, which list photos as `Browsing` does, and the
  caches outside the server.
- Captions, `ImportDir` and the move mode of the importer, filters of listings
  by tag, place or date.
- The other commands of the client: each is one request of the API and keeps
  nothing, but `photo add`, whose loop is that of `photo publish` without tags.
- The address that the limiter counts by, and which limiter the routes bind.
- EXIF (an external tool whose outcome is an input of `Library`), templates,
  styles, shortcodes, the configuration, status and backup, mocks: no shared
  state of the server changes, or only presentation.

## Plan

1. Done: every module above, with the proofs named there.
2. A composition of `LibraryContract`, `Albums` and `Serving` over one table of
   photos.
3. Captions and locations given at upload; `ImportDir`.
4. Proofs: the composition of item 2, once it is written.
