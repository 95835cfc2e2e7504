# Formal models of the mothercare backend

This directory holds TLA+ models of the school-management backend (Express,
Prisma, PostgreSQL, Redis), the TLC instances that check them, and theorems about
them proved with TLAPS. Source paths below are relative to the repository root.

## The system

One Node process (or several behind nginx) serves REST routes and a socket. A
handler is asynchronous code: between two `await`s every other request can run,
and the only isolation is what PostgreSQL gives: a unique index, a row lock taken
with `SELECT ... FOR UPDATE`, an atomic `increment`, or nothing (READ COMMITTED
transactions do not protect a read followed by a write). The models therefore
have one action per statement where a handler reads outside a lock, and one
action per transaction where it locks everything it reads.

| component | code (under `src/`) | state | what makes it correct | module |
|---|---|---|---|---|
| fee ledger | `modules/admin/routes/fee.routes.ts` | `student_fees`, `fee_extra_items`, `payments`, `payment_head_allocations` | `paidAmount` is the sum of the live payments, the status says what is owed, heads are not over-allocated, reverts happen once | `FeeLedger` |
| payment requests | the same file, `payment_operations`, `family_payments` | idempotency keys, receipt numbers | one effect per key, truthful answers, bounded retries | `PaymentRequests`, `ExactlyOnce` |
| fee plans | the same file | prices, own prices, bills, families | a line of a bill is one price, a one-time head is charged once | `FeePlans` |
| canteen, stationery | `modules/canteen`, `stationary.routes.ts` | products, sales, purchases, suppliers, credit accounts | stock is what was bought minus what was sold, balances are what the ledger says | `CanteenStock`, `PgLocks`, `CanteenBalances`, `SaleSplit`, `Stationery` |
| uploads | `modules/upload` | upload sessions, parts, stored objects | no session is completed twice or swept while it completes, and each ends | `UploadSession`, `LocalParts` |
| media | `modules/media`, `queues/media.*`, `upload.service.ts` | file records, objects, jobs | what is READY was checked, only such files are attached, each file settles | `MediaJobs` |
| chat messages | `chat-message.service.ts`, `chat.socket.ts`, `queues/chat.*` | messages, read marks, push jobs | a send repeated with its key is one message, jobs end | `ChatMessages` |
| chat rooms | bootstraps, `class-role*.service.ts`, `chat-room-access`, `chat-dm-policy` | rooms, members, class roles | bootstraps converge, nobody is wrongly silenced, only those tied to a room enter it, every sync lands | `ChatRooms` |
| chat permissions | `chat-access.service.ts`, the resolvers | none (pure) | the list, the door and the right to write agree | `ChatPermissions` |
| notifications | `system-notification`, `system-room-message`, `system-message-fanout` | outbox, system messages | told once, and marked sent only when told | `Notifications` |
| authentication | `modules/auth`, `config/blacklist-store.ts` | lockout, tokens, blacklist | wrong passwords lock, an ended session is not accepted | `Sessions` |
| academic years, promotion | `academic-year.service.ts`, `batch-promotion.service.ts` | years, runs, student rows per year | a student is promoted once, keeps one login, one year is active | `AcademicYears`, `BatchPromotion` |
| admissions | `student.service.ts`, `tenure.service.ts` | students, numbers, status log, school tenures | one student per key, the log tells the status | `Admissions` |
| branch staff | `staff`, `teacher`, `invitation`, `branch-member`, `branch-admin` services | accounts, seats, tenures, lessons, invitations | tenures follow one another, an invitation makes one whole account | `BranchStaff` |
| credentials | the three services of the owners | logins, hashes, audit trail | the password in use stands in the trail the reuse check reads | `Credentials` |
| payroll, expenses | `payroll-calculation.service.ts`, `expenses.service.ts` | payments, runs, month balances, vouchers | a key pays once, a stored month adds up | `Payroll` |
| exams and results | `exam*`, `marks-entry`, `subject-result`, `report-card` services | structure, marks, results, cards | ranks are competition ranks, a published card is complete and fresh | `ExamResults` |
| attendance | `attendance.routes.ts`, the teacher's portal, `employee-attendance.ts` | rows by person and day, notices | a row stands under the day that was meant, absences are told, pay counts the right days | `Attendance` |
| the process | `server.ts`, `app.ts`, `lib/startup.ts`, `queues` | component status, connections, workers | serves only when ready, a clean exit cuts nobody off, a signal ends it | `ServerLifecycle` |

How they interact: payments, attendance and payroll tell people through the
notifications, which write system messages into rooms that the bootstraps created;
uploads hand files to the media jobs, whose READY files messages attach; staff and
admissions make the accounts whose credentials and sessions the rest relies on;
tenures bound attendance and payroll; promotion moves students between years; one
process hosts the handlers, the workers and the timers.

`PROJECT.json` lists every part with its modelling status and the hazards each
modelled part is exposed to, at the line where they bite.

## Modules

Every module of a component that serves requests has the same shape. `pc[p]` is
where request `p` stands between two `await`s, `loc[p]` what it has read and not
yet used. `scene` is chosen in `Init` and never changes: it says who calls which
handlers, with which inputs, and carries the bounds. One TLC run therefore checks
several small situations (a scene each) that would be too large together, and a
property that the code keeps only under a condition names that condition on the
scene. `Spec` has no other restriction: the theorems hold for every set of scenes.

### FeeLedger

The rows of one family: `fee[f]` is the `student_fees` row of month `f` (months are
numbered in (year, month) order; `gen` tells a row that was deleted and created
again from its predecessor), `extras[f]` its extra items, `payments` the payment
rows with their head allocations, `carries[f][g]` what the `fee_carry_forwards` rows say
came from month `g` to month `f`. Heads in `Unnumbered` have no `feeHeadId` (a student's own
amount, the fallback "Fee"): earlier allocations to them are not found (`KeyDue`). A row of
`fee_carry_forwards` goes with either of its months (`RegenerateDelete`). The months that exist at the start charge something, as
`generate` leaves out students whose breakdown comes to nothing (`fee.routes.ts:1022`).

* One action per transaction: `PayTxn`, `Waterfall`, `Allocate`, `FamilyAllocate`,
  `FamilyPay`, `RevertTxn`. They lock (`FOR UPDATE`) every month they touch.
* One action per statement where nothing is locked: the read of `POST /payments`
  (`PayRead`), the extra-item handlers (`AddExtra*`, `DeleteExtra*`,
  `WriteStatus`), the three modes of `generate`, `recalculate`, and carry-forward
  (`CarryRead`, `CarryTxn`, `CarryFails`).

Run `fees`, by scene:

| scene | who | shows |
|---|---|---|
| `Payments` | two requests, six payment handlers, two months | `PaidMatchesPayments`, `LedgerSound` (a payment is reverted once), `AllocatedWithinPaid`, `AllocatedInOrder` (oldest month first, no head beyond its price) |
| `Customs` | the same month after month of a student's own amount, a head without an id | `AllocatedWithinPaid`, and that such a head may be allocated again |
| `Twice` | a request names a head or an extra in two lines | the same |
| `Edits` | two requests edit one month (extras, the three modes, recalculate) while it is paid and reverted | `PaidMatchesPayments` (and that no month is deleted under a payment) |
| `Alone(p)` | one request, every handler but recalculate and carry | `StatusTellsDue` |
| `Arrears` | two requests carry an archived month forward, pay, revert, add extras | `LedgerSound` (carried amounts stay charged while nobody reprices) |
| `Regenerated` | the same beside a regeneration of either month | `LedgerSound`: what is charged covers the heads and the carries; the rest of it is equality as long as the archived months have their first rows (`SourcesKept`) |

Bounds: one or two months, one head with an id and one without, one extra item, amounts
1 and 2, up to three payments, two units of carried arrears, a month created anew at most once, two concurrent
requests (every hazard is between one reader and one writer of a month).
Allocations name at most one head or extra, in at most two lines. A handler that loops over students
(`generate`, `recalculate`) is one request per student.

Run `fee_arrears` (violation): a month receives arrears and is then generated in
mode `update`, which writes `netAmount` from the fee heads alone. The arrears are
no longer charged, and the carry-forward row still says that they are.

`Scenes <- RegeneratedArrears` violates the same property: the archived month is generated
in mode `regenerate`, which deletes it and, by the cascade, its carry-forward row; the target's `netAmount` stays
raised, and the month that is created again owes the same balance a second time.

`AllocatedWithinPrice` is violated with `OwnAmounts` and with `NamedTwice`, the two ways in
which `/payments/allocate` goes beyond the price of a head or extra. The passing
run and the theorem claim it of the rest (`HeadsNeverOverAllocated`): extras and heads with
an id, each named in one line of a request.

### PaymentRequests, ExactlyOnce

How a payment route runs: `Guard` (idempotency look-up), `ReadReceipt` (the next
number is read outside the transaction), `Commit`/`Retry`/`NothingOwed` (the
transaction, its unique indexes, its 400), `Catch` (convergence onto a winner with
the same key), `Respond`. `Lose` drops the call at any point: the answer, the
connection or the process is lost, and the client may call again. What a payment
does to fees is `FeeLedger`; here it takes one unit off what its payer owes.
`ExactlyOnce` is what keyed routes promise: one effect for a key, answers that
speak of it. `PromiseKept` is the refinement, with `effects` the keyed operations.

Run `payment_keys`: two callers, one key, two payers, up to three calls to any of
the five routes, two receipt attempts (ten in the code; the bound only shortens
the loop). The constraint `OneLedgerGroup` leaves out behaviours that mix the
family routes with the others: their payers are families and not students, and
they share neither a key ledger nor a receipt series.
`FailuresAreEarned` joins two facts: a keyed call told that it failed has had no
effect, and a call gives up on receipt numbers only after it lost a race in every
attempt.

### PgLocks, CanteenStock, CanteenProofs

`PgLocks` is what PostgreSQL does with row locks as the code uses them: modes,
conflicts, waiting, the detection of a deadlock. It is external to the repository.

`CanteenStock` is `canteen_products`: a product is boxes, loose units and a box
size. A sale inserts its lines (each takes a key-share lock of its product through
the foreign key), then locks and deducts product by product
(`SELECT ... FOR UPDATE` inside one `UPDATE`), and is refused as a whole when one
is short. A restock reads and writes each product without locking what it read.
Edits re-pack the stock they read. `normalizeStock` and `applyStockDelta` are
`Boxed` and `WithStock`, written in units. Its requests are `Tills`, its scenes `Shelves`, its
labels and locals `at` and `local`, so that it can stand beside `CanteenBalances`.

Run `canteen` (`MCCanteen` composes this module with `CanteenBalances`; a behaviour
runs one of them while the other stands still): scene `Sales` has three concurrent
requests, two products, carts that name them in both orders, one restock and one deactivation; scene
`Edits` has one request at a time that sets every field between sales and
restocks. `StockAccountedFor` is the books (opening + bought - sold), claimed when
no edit sets the stock and one request restocks. `LooseUnitsFit` is the schema's
promise about loose units, claimed (`RowsSound`) while one request at a time edits box
sizes, or none does, and no product is created anew with a smaller box. `RequestEnds` needs strong fairness of each request's next step:
a lock that is free again and again is granted in the end (PostgreSQL queues lock
requests), and two requests that wait for each other are broken up by
`DeadlockVictim`, which the database's timeout guarantees.
`RowsSound` says besides, without condition, that stock is never negative. Two restocks of one product at once
(scene `Restocks`) lose a delivery; `StockAccountedFor` is not claimed for them.

### CanteenBalances, CanteenProofs

Supplier debts in both directions beside the sums of the purchases and payments,
and credit accounts beside the sums of sales and payments. Payments run under the
row's lock (one action); a restock increments. The two supplier views read the row,
then the purchases and the payments in either order, and write back what differs
(`SyncRead`, `SyncPurchases`, `SyncPayments`, `SyncWrite`). The sums are kept instead of the ledgers
themselves: no handler removes a ledger row.

In run `canteen`: one supplier, one person, amounts 1 and 2.
Scene `Trade` is everything but the views, four calls of two requests; `Viewed` adds
the views, with three concurrent calls of three requests, or five calls of a single one. `BalancesAgree`
is claimed without views or with one request at a time; `ListedIsSettled` says
what a view leaves when nothing else runs; `AccountBetween` bounds an account,
whose payments are clamped at zero, from both sides.

### SaleSplit

`createSaleWithPaymentSplit` as a pure algorithm stepped record by record: cash
first, then each credit allocation, the last taking what is left. In run
`school`: every list of up to three lines over two products (prices 2 and 5)
against every cash and credit amount up to 12 and lists of up to three shares,
with a tolerance of one paisa (two in the code: the smaller one makes both sides
of each comparison occur at these prices).

### Stationery

Stock in bundles and loose units, its assignment to students, adjustments,
restocks and supplier debts. In run `school`: two products, one sold in bundles of
three; scene `Counter` has two concurrent requests, `Alone(p)` one request that
pays and restocks, five calls. The balance half of `StoreSound` is claimed for requests one at a
time (a restock writes a balance it read without a lock), and that stock stays
above zero for assignments that list a product once.

### UploadSession, UploadSessionProofs, LocalParts

`UploadSession` is one resumable upload: the session row, the ledger of parts, the
multipart uploads and the object in the store, and the file record. A chunk runs
under the row lock, held while the part is stored; everything else is an update
that names the status it starts from. Faults are actions: a part that fails, an
assembly whose answer is lost (`AssembleFails` after `Assemble`), a lock timeout,
a transaction that exceeds Prisma's five seconds, an abort that fails, a crash.

In run `messaging`: one or two parts, two or three requests (one may be the sweeper's
tick), up to eight calls, six scenes (`Chunked`, `Slow`, `Races`, `Invalid`,
`Released`, `Abandoned`). `MCMessaging` extends the modules of its five parts, so that the
run checks the very definitions the theorems state; `Hosted` names the parts that run, one per
behaviour, and the others keep the state they start with. `OffsetIsStored` is the
resume offset against the ledger and the store; `SessionSound` joins types, one record of a
whole object (`OneRecord`), the release of what an ended session held (`ReleasedAtEnd`) and
that an end is final. Fairness (`FairMessagingSpec`): the steps of an accepted request,
the clock passing `expiresAt`, and the sweeper's tick. The client owes nothing: a session
it abandons is ended by the sweeper (`Ends`: it ends unless the process or the database fails).
Run `upload_stuck` (violation): with crashes, `EndsEventually` fails. A process
that stops between the claim of a completion and its file record leaves the
session `COMPLETING`, which neither the sweeper nor a cancellation ends.

`LocalParts` is the local storage backend file by file: parts staged as files, an
assembly through a temporary name, a rename. In run `messaging`: one completion at
a time, four parts, three calls, crashes between any two file operations.

### AcademicYears, BatchPromotion, BatchPromotionProofs

`AcademicYears` is the status of a branch's years. Each change reads the year
(`ChangeRead`), may look for another year in some status (`ChangeCheck`) and writes by
id (`ChangeWrite`), with no lock; `From`, `To` and `OthersAllow` say what each handler
requires and writes. `BatchPromotion` extends it with the promotion runs, the classes
of each year and the students' rows. Starting a run takes up to four statements
(`StartRead` to `StartInsert`); snapshot, apply and publish (`Promote`) each read the
run and then run one transaction under its row lock. A class is its display order, 0
is no class; a student's row is its class, whether it is active and whether it holds
the user account.

Run `promotion`, three years, two students (one with an account), two runs:

| scene | who | bounds |
|---|---|---|
| `Wizards` | one admin promotes from year 1 to 2 to 3 | nine calls: the eight of two promotions and one more |
| `Gaps` | the same with a missing grade and a student in no class | nine calls |
| `Crowd` | two requests call the steps of one run | six calls |
| `Race` | two requests, starts included | eight calls: two whole runs |
| `Mixed` | two requests, years archived, published, restored and deleted by hand | five calls |
| `Calm(p)`, `ByHand(p)` | one admin changes the years, without and with resume and import | eight calls |

`PhasesForward`, `OneLogin` and `TypeOK` (with `References`: what runs and rows refer
to exists) hold everywhere. `StudentsSound` joins three claims. `NobodyLost` and `MovedUpOnce` are claimed when only the
wizard changes the years and starts come one at a time, the first of them when no
grade is missing. `OneOfEach` is claimed for one admin who neither resumes, imports
nor promotes. Run `two_active` (violation): pause, publish another year, resume.

The transactions are single actions: all of them lock the run first, and two
transactions of different runs that meet on a student's row wait for each other or
fail on the unique `userId` and change nothing. A calendar whose year was deleted is
not used again, a bound.

### MediaJobs, MessagingProofs

One media file after its bytes have arrived: the file record with its status, the
original and the derived object in the store, the queue with the attempts left of
each job, two workers, the sweep of what is pending, and the messages the file is
attached to. A worker's attempt is claim, download, derive, verify, drop the
original, mark; a completion that is repeated, a direct upload and a deletion run
beside it. Faults: the store, the database, a crash that loses every handler and
worker. In run `messaging` (`AllFiles`): images and sound, good and bad files,
with and without Redis, two requests, two workers, two attempts, at most two jobs,
three calls (four with queries) and two faults. `MediaSound` joins `ReadyIsSound` (what is
READY and processed passed its checks and is in the store), `UnmarkedBriefly` and
`AttachedWasProcessed`; `WorkEnds`: a file that waits is READY, refused or deleted in the
end, whatever the store does.

A row is created READY and marked PENDING two statements later. The answer of the
completion comes after the mark, but a repeated completion, a query of the session
(`QuerySession`) and a direct upload name the file before it. So only processed files are
claimed to be attached where the client learns of the file from the answer (`NamedLate`);
for every other file `UnmarkedBriefly` says that it is READY unprocessed no longer than
until a completion under way has marked it. A poll in between violates
`AttachedWasProcessed` (`Files <- Polled`). `Careful` names what a file has to be spared for `ReadyIsSound`;
`FilesAssumption` of `MCMessaging` says the scenes do. Without either of its last two
clauses, and with faults enough, TLC finds `MediaSound` violated.

### ChatMessages

One room: its messages by arrival, who may post, read marks, the screen of each
reader, push jobs. A send looks for its key, asks for the right, inserts, and
follows the message that won when the unique key was taken (`Send` to `GiveUp`);
`Break` loses the line before the acknowledgement and the client sends again.
Edits, deletions and changes of rights run beside. In run `messaging`
(`AllSends`): two clients, one reader, two keys and two texts, two or three calls,
one or two faults of line, database or queue, with honest and with colliding keys.

### ChatRooms

The rooms of one branch, class and subject, with their member rows, the branch's
settings, the students of the class and their class roles. A handler is a plan of rooms to ensure
and member lists to write; each list is worked out from what was read and then
upserted row by row, as the bootstraps do. Only `RoleList` is one batch: its rows go into
one text of several statements with shared parameters, which PostgreSQL refuses as soon as
there are two (`Refused`), and the handler fails after its edit was committed. In run `school` (`AllVisits`): every pair
of portals that land at once, with and without failing statements; role edits by one
hand while the student lands, alone in the class, beside a second one, or while the class
grows; both sides opening their conversation; everyone at
every door, before and after posters are appointed. `RoomsSound` joins
`NeverWronglySilenced` (in a class nobody has joined since: there a refused sync leaves
nothing behind), `FailuresAreEarned` (with no failing statement only a refused sync, or a
landing of staff or a teacher that lost a race, ends with an error), `DmConverges` and
`OnlyTheTied`.

`RolesFollowed` is the same without that condition, and `GrowingClass` violates it: a lone student is
restricted, the class gets a second one, and the assignment of a role that posts is
committed but never reaches his membership.

### ChatPermissions

A behaviour puts one question (user, room, membership, ties, class roles) and answers
it along all the paths of the code: `resolveCanPost`, the batched list, the door of a
direct conversation. In run `school`, `AllQuestions` covers every user in every kind of
room, every portal of a teacher and every membership. `ListAgrees` joins `ListTellsRight`,
which names the two cases in which the list promises in vain, `OpenerMayWrite` and
`PortalLimits`; `SchoolProofs` proves it for every question.

### Notifications

The feed of one student: the outbox rows, the system messages, what was fanned out,
and what callers were told. Queue, delivery (`LookAtRow`, `InsertMessage`, `Touch`, `Mark`),
failure and flush are separate steps, with two processes and up to two faults, three
calls, two queued events and a direct one, two texts each (run `school`). `SentIsTold` is
proved in `SchoolProofs`.

### ServerLifecycle

One process from its checks (`LoadEnv` to `Listen`) through requests, chat clients,
jobs and the sweeper's timer to the shutdown a signal starts: each handler of a
signal is a sequence of closings (`Teardown`), the ten-second timer is `Forced`. In
run `messaging` (`AllServers`): starts that fail in every way, two signals, a
database and lines that fail, closings that hang or throw; at most four calls, two
signals, three faults. `ServerSound` joins `ServesOnlyWhenReady`, `CleanExitDrains`
and `WorkersReported`; `WorkEnds` says that a process that got a signal ends.

### The office: Handlers and its modules

`Handlers` is how a request handler runs: each caller makes the calls of its list,
`pc[p]` counts the steps of the call under way, `loc[p]` is what it has read, the
tables are the record `db`. `ReadTo`, `Commit` and `Refuse` are the ways a step can
end. Two callers suffice: each hazard is between one reader and one writer.

* `BranchStaff`: members, seats, the administrator's succession, invitations, staff
  and teachers, their e-mails, lessons, tenures. Two users besides the administrator, two
  invitations of one e-mail, statements that fail. A deleted account leaves its name to
  nobody; e-mails of teachers and the expiry of invitations are left out. `StaffSound`
  joins `TenuresInOrder` and `InvitationMakesOne`.
* `Admissions`: an admission is a dozen statements (`AdmitNumber` to
  `AdmitGuardian`), each number taken under a unique index with retries; status
  changes and their log, deletion, school tenures, class moves. Three students, four
  numbers. `AdmissionsSound` joins `OneStudentPerKey` and `LogTellsStatus`.
* `Credentials`: generate, set, keyed save, for a student, a teacher and a member of
  staff; three passwords, two keys. `CredentialsSound` is about `PasswordIsInTrail`.
* `Payroll`: paying is compute, next voucher, transaction, compute again; bulk runs
  loop over payees, pass over those not in the list (`SkipItem`) and count the paid ones;
  lists, marks and voids beside, payees who leave and come back, years that are paused or
  replaced. Computing again takes the payee list and then the branch's ACTIVE year
  (`FindAgain`, `FindYear`, `VoidRefresh`); where either is missing it is refused after the
  payment or the void was committed, and the stored month is off until it is next computed:
  the history `behind` records exactly these months. Two payees, two months of two days.
  `PayrollSound` joins `KeyPaysOnce` and, for scenes with one caller on payees at a time
  (`alone`), `BalanceTellsPaid`: every stored month that is not `behind` adds up.
* `ExamResults`: structure and activation, marks, results, cards, ranks, publication. The
  statement that stores the ranks of the cards is refused by PostgreSQL (`RankCards`): the
  ranks are computed, and the class is answered with an error.
  Two exams, two subjects, three pupils with a tie and an absence.
* `Sessions`: login with its lockout, change of password, logout, refresh, remembered
  sessions; two stores that may be lost and come back; two tokens, two attempts.
* `FeePlans`: prices with months from and until, own prices, the three modes of
  generation, recalculation, families. Two pupils, two heads, three months.
* `Attendance`: see below.

`MCChat`, `MCCounter` and `MCSchool` put these parts side by side: the
variable `area` (and `scene.part` within the office) says which one a behaviour runs.
They share no table, so that one state space is the sum of theirs.

### Attendance

Instants are quarters of a day on the UTC axis; `scene.offset` is how far the
server's clock is ahead of Greenwich. `UtcMidnight` and `LocalMidnight` are the two
ways in which the code makes an instant of a date, `Stored` is what a date column
keeps, `CalendarDayKey` what tenures compare. A batch checks, then writes row by row,
and starts a telling that nobody waits for (`jobs`, `Tell`); a statement that fails
leaves the rest undone. Tenures are read one employee after the other while others
leave and join. Five days, two pupils, one employee, offsets of a quarter day.
`AttendanceSound` joins `DayIsMeant`, `NotAhead`, `MarkedInTenure`, `PaidForItsDays`
and `AbsenceIsTold`. Leaves and joins are recorded as of now; one recorded with an
earlier date leaves marks outside the tenure. The scenes put each handler only where its
clock does no harm (portal and payroll at or west of Greenwich, the office's check
of future dates at or east of it); `EastOfGreenwich`, `PaidInTheEast` and
`TomorrowInTheWest` are the scenes in which it does.

## Runs

| run | expected | distinct question |
|---|---|---|
| `fees` | pass | do payments, edits and carries keep a family's months consistent? |
| `payment_keys` | pass | one effect for a key, truthful answers, convergence (refinement of `ExactlyOnce`) |
| `canteen` | pass | is stock accounted for under locks, deadlocks and edits, do sales and restocks end, and do the debts agree with the ledger? |
| `messaging` | pass | uploads, local files, media jobs, chat sends and the process that hosts them, under their faults; does what was begun end? |
| `promotion` | pass | do students move up once, with their login, whatever else happens to runs and years? |
| `school` | pass | two callers at a time in each part of the office, the chat's rooms and notifications, and stationery; the permissions question by question |
| `fee_arrears` | violation | do carried arrears stay charged when fees are generated again? |
| `upload_stuck` | violation | does every session end after a crash? |
| `two_active` | violation | is one year of a branch ACTIVE? |
| `card_stale` | violation | is a published card up to date with its results? |
| `one_time_twice` | violation | is a one-time head charged in one month only? |
| `attendance_day` | violation | does a portal's row stand under the day the teacher named? |

`messaging`, `school` and `canteen` put parts that share no table side by side, one initial state
per scene of each part: every behaviour belongs to one part, so the states are the sum
and not the product of the parts. A property of theirs that joins several claims
(`AttendanceSound`, `MediaSound`, `ServerSound`, ...) is the conjunction of named claims
of the modules. `PROJECT.json` lists, for most of them, several mutants, and each breaks
another claim of the conjunction.

Bounds are small because the hazards are: a reader and a writer of one row, one repeat
of a key, one fault between two statements. Where a longer sequence matters (two whole
promotions, five supplier calls, eight calls on an upload) the scene says so. Model
values are permuted by `SYMMETRY` only in runs without liveness and where the scenes
name all of them, each pair or each alone.

`CHECK_DEADLOCK FALSE` everywhere: the callers may stop at any time, and the bounds
on calls stop the rest.

### Fairness

* `canteen`: strong fairness of each request's next step, the choice of a deadlock
  victim included, as said at `CanteenStock`; nothing is assumed of the debts.
* `messaging` (`Fairness` in `MCMessaging`): weak fairness of accepted requests being
  resumed (the event loop), of the ticking timers and the clock, of the queue and each
  worker, and of the steps of a shutdown, its forced exit included (the timer of
  `setupGracefulShutdown`). One condition stands for the processes of the same name in
  all the parts, since a behaviour has one part. Nothing is assumed of clients, faults
  or crashes.
* The other runs check safety and assume no fairness.

## What is proved

Every theorem is about the specification of one part (`Spec`, or one named for the part as
`StockSpec`, where modules share an instance) with its declared assumptions and, where said, one hypothesis, for every value of the constants, and `PROJECT.json` names the property of
a run that it states.

### FeeLedger: SumTheorems, FeeLedgerProofs

For every family, set of months, heads, extra items, requests, amounts and scene:

| theorem | states |
|---|---|
| `LedgerIsSound` | types (no `paidAmount` below zero), a payment is reverted at most once; while nobody reprices, no carried amount is taken off again, and a month is charged exactly heads and carries while the archived months have their first rows |
| `PaidIsReceived` | `paidAmount` is the sum of the payments that stand; no month is deleted under a payment |
| `AllocatedIsPaid` | the allocations that stand against a month are at most what it received |
| `AllocationsInOrder` | a waterfall settles the oldest months first; no allocation goes beyond the price of an extra or of a head with an id, when a request names each in one line |
| `StatusIsTrue` | with one request at a time every month's status says what it owes |

`PaidIsReceived` and `AllocatedIsPaid` assume `~DupSelection`: an allocate request that
names one month twice does break them (`fee.routes.ts:2273`, listed below).

The inductive invariant `IInv` has seven parts.

* `Typed`: `TypeOK`, the locals a request may carry at each label, and that only requests
  of the scene run.
* `RowsSound`: every payment names a month that exists, its allocations come from its
  amount, it is allocated only while it stands, and it was reverted exactly when it does not
  stand. Without the last part a second revert could not be excluded.
* `NothingLeft`: a month without a row has neither extras nor carries; needed when a
  regenerated month is created anew.
* `FromArchived`: arrears come from archived months, so an intact archive (`SourcesKept`)
  means that no deletion took a carry row away.
* `CarriesAddUp` and `Charged`: a month with a row charges something, and without carries
  it charges its heads. A month that charged nothing would be told PAID by one handler and
  UNPAID by another.
* `AloneTells`: in a scene of one request, what it read is still what is stored
  (`Current`) until it writes, and months outside its hands tell what they owe.
  `StatusTellsDue` alone says nothing while the request is running.

A step of the ledger is one of three kinds (`StepKinds`): it receives payments
(`Receives`: new rows at the end, each month credited with what its rows bring), it voids
one (`Reverts`), or it edits months and leaves the payments (`Edits`). Each part of the
invariant and each action property is shown once per kind. The sums are
`SumFunctionOnSet` of the community modules; `SumTheorems` proves what is needed of it
(a sum over a set with one element more, over equal summands, over a union, sums of sums)
from the recursive function behind the fold. Its induction is over the *set* of the good
subsets (`SetInduction`), so that no theorem takes an operator as a parameter. `MonthRows` places one row per month in order (`InOrder`), and the sum over
its rows is the sum over the months.

### PaymentRequestsProofs

For every set of callers, keys and payers and every number
of attempts: types (`TypeCorrect`), one operation per key (`KeyMovesMoneyOnce`),
truthful answers (`NeverTheWrongResult`), and the refinement of `ExactlyOnce`
(`PaymentsExactlyOnce`). The inductive invariant is `IInv`: the type invariant,
`OneOpPerKey`, and `DecisionsFit` (an answer that was decided names an operation of
the call's own key and scope; needed because the answer is delivered after other
calls have run). Operations are only appended and keep their key, kind and payer
(`OpIdentityKept`), so a decision stays right until it is delivered.

`FailuresEarned` is `FailuresAreEarned`: a call is refused only if it had no effect, and
runs out of receipt numbers only if others took one in every attempt. `RaceFits` adds to
the invariant what each attempt of a keyless call costs: at attempt *n*, at least *n* - 1
operations were committed since the call began, one more once the number it has read is
taken. So a call that gives up was never blocked by itself. The first half needs that the
look-up after a failure sees every operation of the key, and `OneOpPerKey` that there is
one at most.

### CanteenProofs: the debts

For every set of suppliers, persons and amounts and every
finite set of requests (`RequestsAssumption`, needed for the cardinality in
`BalancesAgree`): no balance below zero (`NoBalanceBelowZero`), stored balances
follow the ledger (`BalancesFollowLedger`), accounts are charged once
(`AccountsCharged`), and what an undisturbed view leaves (`ViewsSettle`). `DebtInv`
adds to these what requests carry: the types of their locals, that only requests of
the scene run, that what a view running alone has read is still stored (`ViewFresh`;
without it a view could write back sums of another state), and that an account once
found is never removed (`Accounts`; without it a found account could be missing
when it is charged).

### CanteenProofs: the stock

For every set of products and requests, any carts (of any length, naming a product more
than once) and any scene: `StockIsAccountedFor` (`StockAccountedFor`) and `ShelvesAreSound`
(`RowsSound`). Both need to know what the row locks are for. A transaction writes at its
commit what it computed several statements earlier, so `StockInv` says for each request:

* `Locked`: the locks it holds at each label. Inserting the lines took the key share of
  every product named, a deduction the row for update, a restock the row for its update.
* `Fresh`: what it computed is still about the row as it is. For a sale this holds
  always (`SaleFits`: the row locked for update less its quantity). For a restock
  (`RestockFits`) it holds because its key shares keep every sale away from the row it has read
  unlocked, so only other restocks and edits are left: hence the conditions `Frozen` (no edit
  of stock, one restocker) and `SizesKept` (those of `RowsSound`). An edit waiting to write
  (`EditFits`) leaves a row whose loose units fit.
* `LocksFit`: no two transactions hold locks that conflict. `ChangeStep` uses it once for
  every step that changes products: whoever has computed something of a row that changes
  would have had to hold a lock on it.

`Snug` strengthens `LooseUnitsFit`: a product without a box size has fewer loose units than
some box that it could get, else creating it anew with a box would break it.
What a cart takes of a product is a sum over its lines (`Quantity`); the facts about it
(`QuantityFacts`) come from `SumTheorems`, and packing loses no unit (`Packed`).

### BatchPromotionProofs

For every set of years, students, runs, requests and scenes:
`PromotionTypes` (`TypeOK`), `LoginNeverTwice` (`OneLogin`) and `PhasesOneByOne`
(`PhasesForward`). `IInv` adds `LocOK`, what a request carries at each label: nothing
has to be known of how old that is, because each transaction checks the phase under
the lock. `OneLogin` is kept by `Apply` alone being able to break it: its target rows
take the `userId` of exactly the rows that give it up (`CarriedLogin`).
`ScenesAssumption` asks that at most one year is ACTIVE at the start and that runs
refer to years that exist.

`StudentsAreKept` (`StudentsSound`) needs more, `PInv`, where each part stands under
the condition of the claim it serves:

* `Called`: what is called was in the scene's `handlers`.
* `YearsKept`, when calls come one at a time and nobody resumes, imports or promotes:
  one year ACTIVE, one in BUILD_STAGE, and `Fresh`, what a request has read of the
  years is still so at its write.
* `Wizarding`, when only the wizard changes the years: a run under way leads from the
  ACTIVE year to one under construction and a published one has left both
  (`RunsKept`), no year is promoted twice (`SourcesDiffer`), so that one run is under way
  at a time; a year under construction has no students but those of the run that was applied to
  it (`NewYearEmpty`), so that a run fills an empty year; and the claims per run and
  student (`MovesSound`, `LoginsKept`). Without `NewYearEmpty` an apply could overwrite
  the row that holds a student's login.

`Apply` is the step that could break them. A student it carries has the target row of
the source class plus one (`CarriedStudent`); one it does not carry keeps the source row.

### UploadSessionProofs

For every set of requests, every number of parts and every scene (files, handlers,
faults, durations): `OffsetsAreStored` (`OffsetIsStored`) and `SessionsAreSound`
(`SessionSound`). Neither is inductive: they relate rows, and what breaks them is a request that
acts on a row read earlier. `IInv` adds

* `LocalsFit`: what a request carries at each label names an upload that was begun.
* `OneHolder`: a chunk whose transaction can still commit holds the row lock, and the
  session is the one it read, with its part stored when it commits. Without it the offset could be
  moved beyond the parts of the upload. A chunk slower than the transaction's five seconds
  is not a holder, and its commit fails.
* `OneClaim`: past the checks of a completion the object is the whole, valid file, one
  request is between the claim and the record, and only ended sessions are
  released. The claim is guarded by the status in the same statement, so two
  completions cannot both have it.
* `Releasing`: where aborts succeed and nothing crashes, what an ended session still holds
  is on some request's way to be released. `ReleasedAtEnd` says this of the rest only.
* `ObjectWhole` and `Unstarted`: the object is all parts or none, and before its creation
  a session has neither offset nor upload.

An upload only gains parts, and once closed stays closed (`Grows`), so an offset once
backed stays backed.

For the local backend, every number of parts and any crashes: `AssembledIsWhole`
(`FinalIsWhole`), if one completion runs (`OneAtATime`: two share the temporary file, as listed
below). `DiskInv` adds `AssemblyFits`, which parts the open temporary file holds at each label;
a rename moves the file, so the temporary and the final name never stand for one file.

### MessagingProofs

Three parts of run `messaging`, for every number of uploads, workers, attempts, clients,
keys, faults and every scene.

* `ReadyMediaIsSound` (`MediaSound`): if every file is `Careful`, what is READY and processed
  passed its checks and its bytes are where the row says, what is READY unprocessed has a
  completion that is about to mark it, and a file that is `NamedLate` is attached processed only. The row names
  an object that some attempt is about to write or drop, so `MediaInv` says who may: without
  a repeated completion a file is marked once and one attempt holds it (`OneAttempt`); what an
  attempt has seen of the file (`FoundOut`) and where the bytes are at each of its labels
  (`InStore`); and where the file is `NamedLate`, no client knows it before the mark
  (`ToldLate`). A worker's step is
  one that leaves the row, or ends the attempt (`WorkerStep`).
* `SendsAreSound` (`SendsSound`): under one key one message, a send is acknowledged with the
  message that stands under its key, and an honest repeat is not refused. `RoomInv` adds what each send
  carries (`SendFits`): a client that was told the key is taken adopts a message that is
  there, because messages are appended and edited and never removed (`Keeps`).
* `ServerIsSound` (`ServerSound`): a process serves only when its checks passed, a clean exit
  cuts nobody off, the errors of a worker are reported. Shutdowns overlap, and each may rely
  on what any of them has closed: `Draining` says so of every shutdown under way by the number
  of steps it has passed (`Relies`), and nothing that was closed opens again.

### SchoolProofs

Six parts of run `school`, for every user, room, text, key, caller and call.

* `PermissionsAgree` (`ListAgrees`): every path of the send and every branch of the list are
  compared kind by kind of room; the list loads the teacher's profile unless it holds
  nothing but class rooms (`ListLoads`), so that the gate of the app gives both one answer
  (`GateFacts`).
* `NotificationsAreTold` (`SentIsTold`): what a delivery knows of its row stays true because
  rows keep their texts and messages are never removed (`Grows`). The last claim, that once
  everybody rests and nothing failed every row is sent, is no invariant by itself: `NewsInv`
  adds that somebody is at work for every row not yet sent and every message not yet shown
  (`SomebodyAtWork`). A flush works on a list of rows, which `ExistsBijection` provides.
* `PasswordsAreLogged` (`CredentialsSound`): the password is written before its audit entry,
  so the one in use is in the log or a set that wrote it is still on its way (`Follows`); two
  such sets may overtake each other, hence a claim about every owner and every set under way.
* `AdmissionsAreKept` (`AdmissionsSound`): the row an admission goes on with after the insert
  is of its own key (`Read`), because rows are appended and keep their key (`Extends`); the
  numbers it carries are numbers because the rolls of a class have a highest (`Bounded`,
  `MaxIsThere`). The proof showed that an earlier form of `OneStudentPerKey` was false: a
  deleted student frees its key, and the retry of an answered admission then admits another
  child under it; the property now exempts deleted students.
* `StaffIsSound` (`StaffSound`): an invitation is found unused, and its account inserted later;
  what decides then is the index on e-mails. `StaffKept` is what the tables keep: e-mails are
  apart, who is not there has nothing, and each account of an invitation is whole with the
  address it was made for, or was deleted (`gone`) or given another (`moved`). A join writes
  tenure `n` + 1 after it counted `n` closed ones: by `Fits` either these are still the last, or
  the index refuses it, or the member is gone for good; nothing that others write undoes this
  (`StaffGrows`). The proof showed that an earlier form of `InvitationMakesOne`, that an
  invitation makes at most one account, was false: once the first account is deleted or has
  another e-mail, a registration begun before may redeem the invitation again.
* `PayrollIsSound` (`PayrollSound`): `PaidApart` is what the tables keep, a payment per key, a
  run per key, and per run one payment of a payee. The last holds where no client names a payee
  twice in a run (`Payrolls`), which `PaidUpTo` carries along: what a run under way has written is for the items
  before the one it is at. For the balances, `AloneHolds` says that a month adds up, or was left behind, or is about to
  be computed again by whoever paid or voided (`Pending`), and that what was read of the payments is what they
  are when the balance is written (`PaidAsRead`); the callers that only spend move no month's sum.
  A step keeps all this if it grows the payments by rows of its own run alone (`PayStep`, `GrowsBy`),
  so that each action is proved by what it does to the caller that takes it.

The lemmas on `Handlers` (`GoesOn`, `ReadsOn`, `WritesOn`, `IsAnswered`) say once what a
step does to the callers' control, for any part that extends it.

### Assumptions, and what is left to TLC

Assumptions are those the modules declare (`ASSUME`): types of the constants and of
the scenes (`CredentialsSceneAssumption`, `AdmissionsSceneAssumption`, `StaffSceneAssumption`,
`PayrollSceneAssumption`: calls of the right shapes, and tables that have what the unique indexes and
logs promise; runs that name nobody twice, and a payroll that starts before its first payment).
A module that is only instantiated defines the same as an operator (`...Assumption`), and the
module that instantiates it assumes it of its instance.

Model-checked only: liveness (`RequestEnds`, `Ends`, `EndsEventually`, `WorkEnds`), which the prover
does not handle under fairness, and the properties of the modules without a proof module.
`StoreSound` (stationery) and `SplitAddsUp` (`SaleSplit`) fold over sequences, so that a proof
would be an induction over data. `PlansSound` and `AttendanceSound` are checked on instances
only, and so are the exams, sessions and rooms.
`AccountsCharged` is the converse, a theorem that no run checks.

## What the code does not keep

Six violation runs show what the source says of itself and does not do; the findings in
`PROJECT.json` quote it. The models hold further properties of the kind, with the scene
that violates each; to see one, give the constant of the scenes that value in a
configuration of the run and ask for the property.

| property, configuration, scene | the code | what it says |
|---|---|---|
| `CarriedStaysCharged`, `fee_arrears`, `Scenes <- RegeneratedArrears` | regenerating the source month deletes its carry row by the cascade (`fee.routes.ts:938`, `migration.sql:3215`); the target's `netAmount` stays raised and the balance is owed again in the new month | "Manual link when outstanding balance is moved from an archived AY fee to a new AY fee." (`schema.prisma:2548`) |
| `AllocatedWithinPrice`, `fee_arrears`, `Scenes <- OwnAmounts` | earlier allocations to a head without an id are looked up as `n:<name>`, which nothing enters (`fee.routes.ts:2230`, `:3216`) | every head is "validated per-head/per-extra against fresh remaining" (`fee.routes.ts:2202`) |
| `AllocatedWithinPrice`, `fee_arrears`, `Scenes <- NamedTwice` | the lines of one request are held against the same remainder (`fee.routes.ts:2241`) | the same |
| `AttachedWasProcessed`, `messaging`, `Files <- Polled` | `GET /upload-sessions/:id` names the file between the commit and the mark (`upload-session.service.ts:397`) | "closes the attach-gate race" (`upload-transfer.service.ts:359`) |
| `RolesFollowed`, `card_stale`, `Scenes <- NoScenes`, `Visits <- GrowingClass` | the batch joins one INSERT per membership with `;` and binds parameters, which PostgreSQL refuses for two (`class-role-sync.service.ts:43`, `:121`), after the edit was committed | "Reconcile group_chat memberships after role definition or assignment changes." (`:46`) |
| `AdminStaysAdmin`, `card_stale`, `Scenes <- TeachingAdmin` | listing teachers writes the seat of a teaching administrator back to teacher (`teacher.service.ts`, the sync) | "keepTeacherRole: if true, user stays in TeacherProfile + group assignments" (`branch-admin.service.ts:8`) |
| `RollsDiffer`, `card_stale`, `Scenes <- TwoOfAClass` | two admissions at once read one MAX + 1 | the comment at `student.service.ts:337` on rolls that somebody else has |
| `RepeatIsReplayed`, `card_stale`, `Scenes <- SentAgain` | the reuse check refuses the repeat (409, `student.service.ts:802`) before the key is looked up (`:808`) | a repeat "resolves to the stored result" |
| `MismatchRefused`, `card_stale`, `Scenes <- KeyReused` | a key is answered with another payee's payment (`expenses.routes.ts:19`) | "scope mismatches 409" (`expenses.routes.ts:9`) |
| `PaidForItsDays`, `attendance_day`, `Scenes <- PaidInTheEast` | each day is paid by the mark of the day before (`payroll-calculation.service.ts:334`) | `employee-attendance.ts:10` on date-only values |
| `NotAhead`, `attendance_day`, `Scenes <- TomorrowInTheWest` | UTC midnight of tomorrow lies within the server's today | 'Cannot mark attendance for future dates' (`attendance-scope.ts:11`) |
| `RemarkIsTold`, `school`, `Posts <- Reported` | an outbox row that was sent is not sent again with the new text (`system-notification.service.ts:60`) | `system-room-message.service.ts:368` |
| `UnseenIsUnread`, `messaging` | a read mark takes the time of the database whatever message it names (`chat-message.service.ts:288`) | the mark stores that message's id |
| `FailedKeepsObject`, `messaging`, `Files <- Lost` | a second completion queues a job while the first is refused and its object deleted (`upload-transfer.service.ts:361`) | `media-processor.ts:280` |
| `ClosesThenForces`, `messaging`, `Configs <- Deployed` | with a chat client connected the first closing never begins | "closes workers + socket.io + prisma, then force-exits after 10s" (`ecosystem.config.js`) |
| `ReadyTells`, `messaging`, `Configs <- Outage` | readiness is decided at the start only | "Can this instance serve normal traffic?" (`app.ts`) |
| `StockMatchesRecords`, `canteen`, `Shelves <- Restocks` | two restocks of one product lose a delivery (`canteen.service.ts:653`) | none |

Met while modelling besides; the properties above exclude it by the stated condition.

* An edit of a canteen product's stock beside a sale loses the sale (`canteen.service.ts:534`).
  Two edits at once, one of the stock and one to a smaller box, leave more loose units than the
  box holds: the first packs them by the size it read (`:526`).
* `POST /payments` decides the status from extras it read before the lock
  (`fee.routes.ts:1679`); update and extra-item handlers from unlocked reads.
* A waterfall payment above the total due records the excess nowhere (`fee.routes.ts:1905`),
  against the comment at `:1891`.
* An allocate request that names one month twice writes `paidAmount` twice from one
  read (`fee.routes.ts:2273`); the constant `DupSelection` lets a scene include it.
* A single payment and a batch can commit under one base receipt number (`fee.routes.ts:1216`);
  the 503 after the retry loop is never reached (`:1225`).
* An archived balance can be carried forward again (`fee.routes.ts:3997`), and a carry leaves a
  `PAID` month `PAID` (`:4016`).
* An assignment of two different stationery products finds none of them, since the
  joined ids are one parameter (`fee.routes.ts:4165`); one product on two lines is checked
  line by line against all of the stock (`:4184`).
* A stationery restock writes a balance it read unlocked (`stationary.routes.ts:372`).
* Re-creating an inactive canteen product with a smaller box leaves more loose
  units than a box holds (`canteen.service.ts:464`).
* The supplier views overwrite balances that changed since they were read (`canteen.service.ts:189`).
* A part that fails rolls back the upload id it started (`upload-transfer.service.ts:183`);
  a chunk slower than five seconds is stored and never counted (`:156`).
* A deleted student frees its admission key: the late retry of the answered admission admits
  the child anew (`student.service.ts:204`).
* Students below a missing grade, or in no class, lose their login without a row in
  the new year (`batch-promotion.service.ts:453`, `:473`).
* Two concurrent starts make two runs, and the second one to be applied finds no
  logins left (`batch-promotion.service.ts:179`); a target published by hand loses its students (`:359`).
* Carry options are written after the phase was checked (`batch-promotion.service.ts:231`), and a publish that
  read its run before the snapshot leaves that snapshot unfinished (`:694`).
* Two completions on the local backend share a temporary file (`multipart-storage.ts:294`).
* A class computation of report cards leaves drafts without a rank and answers with an error
  (`report-card.service.ts:206`, `CASE id WHEN id = $1` compares a text with a boolean).
* An admission whose guardian's account cannot be created is answered with an error although
  the student was admitted (`student.service.ts:432`).
* Two hands that edit the class roles of one student leave a restriction behind
  (`class-role-sync.service.ts:46`).
* Two wrong logins at once count as one (`auth.service.ts`, the count is written back
  from a read).
* Two callers on one payee overwrite the month's balance with what they read before
  (`payroll-calculation.service.ts:379`); and with one alone a salary or a void is committed
  and answered with an error, its month not computed again, when the branch has no ACTIVE
  year (`:660`) or the payee left the list (`:654`).
* A bulk run that names a payee twice pays twice (`expenses.service.ts:278`; nothing looks for it).
* A file attached between the count and the delete of `deleteFile` is left without its
  object (`upload.service.ts:495`).

## What is not modelled, and the plan

`PROJECT.json` gives the reason per component. Left out whole: the timetable, the
first-run setup and API keys (single-row writes), the portals' views, reports and
analytics, rate limits and logging, e-mail, push transport and deployment. Left out of
modelled parts: canteen categories and daily summaries, the validation of upload
inputs, the records that a promotion copies besides students, personal data, layouts,
formatting. `Payroll` counts days as on a server that runs on UTC; what other clocks do
is in `Attendance`.

Built in this order: `FeeLedger`; `PaymentRequests` as a refinement of `ExactlyOnce`;
the canteen and stationery modules; `UploadSession`, `LocalParts`; `AcademicYears`,
`BatchPromotion`; then `MediaJobs`, `ChatMessages`, `Handlers` with the office modules,
`ChatRooms`, `ChatPermissions`, `Notifications`, `ServerLifecycle`, `Attendance`.

Next, the theorems: `MarkedInTenure` of `Attendance`, with the conditions on the clock that its
scenes have, and `PlansSound`.
