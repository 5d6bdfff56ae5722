# Freelanci: a TLA+ model of hiring, escrow and access

Freelanci (`src/backend`, `src/frontend`) is a freelance marketplace: an Express
API over PostgreSQL (through Prisma), Redis and Stripe, and a React client.
Clients post jobs, freelancers bid, a client hires one of them, pays into escrow
(a Stripe PaymentIntent with manual capture) and releases the funds when the work
is done; either party may raise a dispute, which freezes the funds. Around it
stand sessions with a second factor, passkeys, a login lockout and IP rules. This
directory holds the specifications of the system, the TLC configurations that
check them, and proofs about them.

All state that matters lives in Postgres, Redis and Stripe. A handler is a
sequence of awaited calls to these three; between two of its calls any other
request, on this server or another, may run. That is where everything that is
hard about this code comes from, and what the modules model.

## 1. Inventory

| Component | State | Operations | Interacts with |
|---|---|---|---|
| Redis lock, `utils/lock.ts` | one key per job, with a token and a TTL | `withLock`: SET NX PX, `fn`, compare-and-delete | wraps funding and release |
| Jobs and hiring, `routes/jobs.ts` | `jobs`, `bids` | create, edit, cancel, hire | bids, payments and disputes read and write the same rows |
| Bids, `routes/bids.ts` | `bids`, unique per job and freelancer | submit | hiring decides them |
| Escrow payments, `routes/payments.ts` | `transactions`, Stripe intents | fund, release | lock, Stripe, jobs, bids |
| Stripe webhook, `routes/webhooks.ts` | `transactions`, unique per intent | `amount_capturable_updated` | Stripe delivers, and redelivers |
| Disputes, `routes/disputes.ts` | `disputes` | raise | freezes jobs and transactions |
| Login lockout, `services/lockoutService.ts` | Redis counters and locks, an in-memory map when Redis is down | record failure, check, reset | login |
| Sessions, `routes/auth.ts`, `middleware/auth.ts` | sessions in Redis, one copy per running request | login, second factor, logout, rotation, timeouts | every guarded route |
| One-time codes, `services/mfaService.ts` | secret and flag of the user, replay keys in Redis | setup, verify, enable, disable | sessions |
| WebAuthn, `services/webauthnService.ts` | credentials with a signature counter | register, authenticate | sessions |
| Accounts, `services/authService.ts` | users, password history | register, change and reset a password | sessions, lockout |
| IP access, `middleware/ipAccess.ts` | Redis strikes, bans, lists | strike, block, list | CSRF check, rate limits, admin |
| Rate limits, guards, CSRF, sanitising, `middleware/*` | none, or the library's | check one request | every request |
| Files, administration, audit, `routes/files.ts`, `routes/admin.ts`, `services/*` | files, single rows, log rows | upload, stream, suspend, report | jobs |
| Web client, `src/frontend` | component state, an idle timer | pages over the API | the API |

What makes each correct, in short:

* **Lock**: one caller at a time while leases hold; nobody deletes another's key;
  a key never stays locked for good.
* **Hiring**: the accepted bid and the hired freelancer are the same whatever
  requests race; a decided bid stays decided; the status of a job and the
  presence of a hired freelancer agree.
* **Escrow**: one escrow record per job; money is captured at most once, only
  under a claim and never for frozen funds; the table agrees with Stripe; a
  completed job was paid, and its payment made out to the hired freelancer; an
  authorised payment is recorded; a claim does not stay open. `Ledger` says what
  of this concerns the table alone.
* **Disputes**: whatever is frozen has a dispute on record.
* **Lockout**: overlapping logins get only one try each past the limit; locks and
  counted failures end some day.
* **Sessions**: an id never changes its level, so none known before login becomes
  a logged-in one; a destroyed session does not come back; timeouts hold.
* **Second factors**: a code counts once; MFA is never on with a secret the user
  has not proven; the passkey counter goes up.
* **Passwords**: the last ones stay on record and are not reused.
* **IP access**: trusted addresses pass, barred ones do not, enough strikes ban,
  strikes are forgotten.

Hard behaviours, each with its line, are the `hazards` of `PROJECT.json`: checks
separated from the writes that rely on them, leases that lapse, answers lost
after the effect, server deaths between two writes, events delivered late or
twice, copies written back whole over newer ones, and keys that expire between
two calls.

## 2. Modules

| Module | What it is |
|---|---|
| `Store` | the job and bid rows that hiring and money share |
| `RedisLock` | `withLock`: a lease with a token |
| `Marketplace` | `routes/jobs.ts` and `routes/bids.ts` |
| `Ledger` | the abstract promise of the escrow table, row by row |
| `Escrow` | `routes/payments.ts`, `routes/webhooks.ts`, `routes/disputes.ts` and Stripe, over an instance of `RedisLock`; implements `Ledger` |
| `Freelanci` | `Marketplace` and `Escrow`, both extended, interleaved over the same rows |
| `Lockout` | `services/lockoutService.ts` as `login` of `services/authService.ts` calls it |
| `Session` | the sessions of one account: every route of `routes/auth.ts` by what it does to its session, `middleware/auth.ts`, and what express-session does around them |
| `Factors` | `services/mfaService.ts` with the MFA routes, and the counter of `services/webauthnService.ts` |
| `Password` | `register`, `changePassword`, `forceResetPassword` of `services/authService.ts` |
| `IpAccess` | `middleware/ipAccess.ts`, the strikes of `middleware/csrf.ts` and `middleware/rateLimit.ts`, the IP rules of `routes/admin.ts` |
| `*_proofs` | theorems; those about `Marketplace` are in `Freelanci_proofs`, next to those about the composition that rest on them |
| `MC*` | symmetry sets for TLC |

### How state and actions correspond to the code

A **request slot** (`task[r]` in `Escrow`, `desk[h]` in `Marketplace`, `req[r]`
elsewhere) runs one handler at a time and remembers what the handler has read.
Slots are not tied to a server, so several server instances are covered. A
handler is cut at every await that separates a read from a write that depends on
it, or two writes. A check that ends in an error answer and writes nothing has no
action: the slot never leaves idle. Permissions (role, owner of the job) do not
change during a request and are left out; requests are those that pass them.

`Escrow`, handler by handler:

* *fund*: `FundRead` (the job and its accepted bids, before the lock),
  `FundLock`, `FundFind` ("already funded?"), `FundCreate` (the PaymentIntent),
  `Unlock` (the `finally` of `withLock`, and the answer with the client secret).
  Prisma reads job and bids by two queries; reading them in one step gives the
  same outcomes, because nothing but a hire, which also sets IN_PROGRESS,
  changes the accepted bid.
* *Stripe*: `Confirm` (the client pays: authorised), `Lapse` (an authorisation
  expires), `Webhook` (the event, any number of times, at any time later).
* *release*: `ReleaseLock`, `ReleaseFind`, `ReleaseClaim` (HELD to RELEASED if
  still HELD), `ReleaseCapture`, `ReleaseReject` (the rollback in the `try`),
  `ReleaseRollback` (the one in the `catch`), `ReleaseComplete`, `Unlock`. A
  release by a client who does not own the row finds nothing and leaves, which
  is the step `Throw` takes.
* *dispute*: `DisputeRead`, `DisputeCheck`, `DisputeCreate`, `DisputeJob`,
  `DisputeFreeze`. There is no lock and no transaction around them.
* *failures*: `Throw` (a call fails without effect), lost answers inside the
  actions they concern (`AcquireUnseen`, `ReleaseClaim`, `ReleaseCapture`,
  `ReleaseReject`, `FundCreate`, `Unlock`), `Crash` (the server dies) and
  `ExpireLock` (the TTL).

A row of the escrow table is identified with its intent, which the schema makes
unique; `meta` is the metadata stored with the intent (job and payee), which the
webhook copies into the row. Two history variables, invisible to the program,
serve the properties: `lost` (claims cut short by a failure) and `redone` (a
rollback that was done and reported as failed).

`Ledger` knows rows only: none, held, claimed, paid, frozen, or stranded, when a
failure left it in doubt. `Standing` is the refinement mapping: a row is stranded
when it is in `lost` or `redone`, otherwise its status says where it stands, and
RELEASED is split by whether Stripe has captured the intent.

`Freelanci` lets a step of either side follow any step of the other. Its history
variable `chosen` notes for each funding under way whom the job had hired when
`FundRead` read it; the code never looks at that column, but takes the payee from
the accepted bid.

`Marketplace` cuts each handler of jobs and bids into its read and its write.
The hire's `$transaction` is one step: its second statement locks every other
bid of the job, so of two hires one waits for the other or is aborted as a
deadlock victim (`Drop`).

`RedisLock` uses a request as its own token. The code draws a fresh UUID per
call; `LockInv` shows that a caller whose token left Redis never finds it there
again, so reusing the name is sound. A lost answer to the SET leaves the key
behind with nobody inside (`AcquireUnseen`); a failed or late release script
leaves it to the TTL (`Abandon`, `Expire`).

`Lockout` is about one account; each login occupies a slot on a server. It is
cut at every Redis call that writes: `CheckLockout`, `RecordFailure` (the INCR),
`SetExpiry`, `LockAccount` (the SETEX), `ResetAttempts` and `ResetLock` (the two
DELs). In each of them the call may fail, done or not, and then what the `catch`
does in the memory of the server is part of the action. A login that fails
because the user does not exist counts like one with a wrong password. `Tick`
lets time pass: TTLs in Redis count down, and memory entries drop out as
`getFallbackEntry` would drop them (`Aged`). Two history variables: `guesses`
(failures counted since counter or lock was last removed) and `health` (some
call failed or a server restarted).

`Session` follows express-session: `Load` gives a request a copy of the stored
session, the handler works on the copy, `Save` writes it back whole. Handlers
touch nothing shared in between, so each is one step; only requests behind
`requireAuth` take two (`Accept`, then `Logout`, `Rotate` or `Serve`). A new
session has no id anybody knows before it is saved. A session is anonymous,
pending (password right, code awaited) or full. Whether the DEL of `destroy` or
`regenerate` is done is left open when it fails; after a failed `regenerate` the
request goes on with a new anonymous session, as express-session does. History:
`kind`, `born`, `used`
(level, age and last acceptance of each id), `closed` and `late` (ids destroyed,
and those another request carried at that moment), `guesses`.

`Factors` cuts the MFA handlers where they read the user's row, check the code,
burn it (SET NX of the replay key) and write the row. The clock is read twice, as
in the code: by `verifyDelta` and for the key to burn; `turn` lets it move in
between. A request that was asked for a code is `pending` until one is right. The
passkey is read, verified and written by `ReadCounter`, `Verify`, `Bump`. History:
`shown` (secrets of which a code was accepted), `accepted` and `replayed` (codes
accepted once and again, without those accepted *astray*: while Redis failed,
under another step's key, or after their window).

`Password` writes the user (`Set`) and the history row (`Record`) in the two
statements that the code uses, and the clean-up in its two (`List`, `Trim`).
`past` remembers all passwords; `clean` turns to "no" when a change dies between
its two writes, or writes after a check that a later change has overtaken.

`IpAccess` cuts the middleware at each Redis call. `seen` remembers the standing
(trusted, blocked, banned, free) a request has met from its arrival on, or that it
changed; `health` that some call failed.

## 3. Runs

| Run | Bounds | Shows |
|---|---|---|
| `redis_lock` | 3 callers, 2 keys | exclusion up to a lapsed lease, ownership, every key is freed |
| `escrow` | 1 job, 2 intents, 2 requests | safety of the money path with every failure |
| `escrow_live` | 1 job, 1 intent, 2 requests | what must happen some day; the lock refines `RedisLock`, the table `Ledger` |
| `escrow_double` (violation) | 2 intents | two escrow records for one job |
| `escrow_unmounted` (violation) | 1 job, 1 intent, 2 requests, no webhook route | an authorised payment is never recorded |
| `freelanci` | 1 job, 2 freelancers, 2 handlers, 1 edit, 1 intent, 2 requests | jobs and bids agree under stale handlers; what holds across hiring and money |
| `lockout` | 2 logins, 1 server, threshold 2, windows of 2 ticks | the bound on failures; locks and counters end |
| `ip_access` | 2 requests, 1 admin, threshold 2, window 1, ban 2 | who is admitted, refused and struck; strikes end |
| `session` | 2 requests, 2 ids, 3 ticks, absolute 2, idle 1, 2 codes | fixation, revival, timeouts |
| `session_guesses` (violation) | 2 requests, 1 id, 2 codes, no failures | overlap alone gives more wrong codes than the cap |
| `factors` | 2 requests, 2 secrets, 4 steps, 2 valid codes, counts 0 and 1 | replay, unproven secrets, the passkey counter |
| `password` | 2 requests, 4 passwords, limit 2, 6 rows | reuse and the clean-up of the history |

**Why the bounds are enough.** Jobs meet only in the lock's keys, and two keys
are in `redis_lock`; no handler of `Escrow` touches two jobs, so one job shows
every interference on it (two jobs multiply the states to many millions and
add none). Two requests give every race between two handlers, and since a slot
is reused, the remains of an earlier third one (a key left behind, a dispute
half done, a claim cut short) are reachable too. Two intents are needed for two
escrow records and for a release that finds one row while the other changes. In
`freelanci` two handlers of hiring race each other and two requests of the money
side over one job, since no handler of hiring touches two; three handlers multiply the
states beyond what a run can hold, and that nothing new happens with them, or with
more jobs, is what the theorems about these properties prove for any number.
`MaxEdits` bounds how often a job is edited; an edit changes nothing but `terms`.
In `lockout` two logins and a threshold of 2 let both fail past the limit;
`MaxCount` (4) is more failures than a window can count before the lock stops
them, and enough to break the bound; windows of 2 ticks let a counter, its lock
and a memory entry run out in any order; servers share nothing but Redis.

In `ip_access` two requests reach the threshold together, and `MaxStrikes` (4) is
beyond what the invariant allows them; the window is shorter than the ban, so
strikes run out while a ban stands. In `session` two ids are the one before and
the one after a login; the idle time is shorter than the absolute one and both
pass within three ticks. `MaxGuesses` caps a history variable that only
`session_guesses` looks at. In `factors` four steps are more than the life of a
replay key, so a key may expire and its code be tried again; two secrets are an
old one and its replacement; counts 0 and 1 give a counter that stands still,
goes up or falls back. (With three codes and three steps the run has ten million
states and passes too.) In `password` the limit is 2 and four passwords are
enough to go on choosing; six rows let the clean-up delete rows twice. Symmetry is
used where only safety is checked: no module orders or names the elements of the
permuted sets. Deadlock checking is off where the system may have nothing left to
do: all jobs cancelled or taken, no intent left.

**Fairness** is stated in `Escrow`, `RedisLock`, `Lockout` and `IpAccess`.
`WF(Proceed(r))`: a handler that has started runs on, since Node runs every
settled promise and every client library has a timeout, after which a call counts
as failed; the weak form is enough because only the handler itself disables its
next step. `WF(ExpireLock(j))`: Redis drops a key whose TTL ran out.
`WF(Webhook(i))`: Stripe redelivers an event until it is answered, so the row is
written in the end, provided the event reaches `webhooks.ts` (see below).
`WF(Tick)`: time passes. There is no fairness for what people
do (fund, confirm, release, raise a dispute, log in) or for crashes.

## 4. What the checks show

Properties that hold:

* `ClaimExclusive`, `CaptureOnlyClaimed`, `SettledFinal`: the conditional update
  of payments.ts:114 is what protects the money, not the lock. No two requests
  are between claim and capture on one row, and nothing is captured on a frozen
  row, even when both locks lapsed; only a rollback that runs twice breaks it.
* `LedgerMatchesStripe`: RELEASED means captured, except where a claim was cut
  short by a crash or a lost answer. These stay as they are: no code reconciles
  them. `LedgerRefined` says that there is no other outcome: every row goes
  through the steps of `Ledger`, and no claim stays open.
* `CompletedIsPaid`: a completed job has a captured intent.
* `DisputedHasDispute`: no job or row is frozen without a dispute on record.
  `DisputesBounded`: parties that raise disputes at the same moment all succeed,
  but never more of them than requests overlap; once there is a dispute nobody
  joins them, however long the parties go on.
* `SerialUnlessLapsed`, `LeaseExclusion`, `OwnerKeepsLock`, `LockReclaimed`:
  what the lock gives, and no more.
* `HiredIffAccepted`, `StatusMatchesHire`, `DecidedBidKept`: hiring is
  consistent although none of its checks is repeated when it writes.
* `PayeeWasHired`: every payment is made out to the freelancer whom the job had
  hired when its funding read it. Funding takes the payee from the accepted bid in
  one table, hiring writes the hired freelancer into another; that a bid, a second
  hire or a cancel in between cannot slip another payee in rests on
  `HiredIffAccepted`. A second hire after that moment does not change the payee.
* `MoneyNeedsHire`, `NeverReopened`: money and disputes come after hiring, and a
  job that left OPEN is never open again, whatever status a handler had read.
* `GuessBound`: the lock check is separate from the count, so the limit is not
  exact: up to one failure more per login under way. `LockLifts`,
  `FailuresForgotten`: nobody can prolong a lock by failing on, and no counter is
  left without expiry. All three end with the first failed call or restart: a
  server that dies between INCR and EXPIRE leaves a counter for good, and what is
  counted or locked in memory is not asked for once Redis answers again.
* `SessionIInv` (with `NoFixation`): rotation works whatever stale copies are
  saved, since a copy goes back only under its own id. `AcceptedInTime`: a stale
  copy can only make a session look older. `ClosedStaysClosed`: a logged-out
  session comes back only through a request that carried it when it was
  destroyed, and that request does bring it back when it is saved later.
* `CodeOnce`: one replay key per step serves login, setup and disabling; the
  exceptions are a failing Redis and a clock that moves between the two readings.
  `OnlyStaleUnproven`, `CounterBackOnlyRaced`: what goes wrong without a condition
  on the write goes wrong only in a race.
* `NoReuse`: no password within the limit comes back unless a change was cut
  short or overtaken; the clean-up never deletes a row that counts (`PasswordIInv`).
* `IpIInv`, `TrustedBypass`, `BarredRefused`, `StrikesForgotten`: an address of
  unchanged standing gets what the three layers say; strikes pass the threshold
  only by those of requests about to ban.

Where code and text disagree (`findings`):

* **No webhook route** (`escrow_unmounted`). `app.ts` prepares the raw body for
  `/api/webhooks/stripe` (app.ts:78-79) but mounts no router there: lines 183-192
  list them all. So the event of an authorised payment never reaches
  `webhooks.ts`, and `AuthorisedRecorded` fails, although Stripe sends the event
  again and again ("Funds are held in escrow", webhooks.ts:40). `WebhookMounted`
  says whether it is mounted. It is FALSE in this run, which is the program as it
  stands, and TRUE in the other runs of the money path, which is the program its
  authors meant (webhooks.ts:12): without the webhook no escrow record ever exists,
  and release and disputes have nothing to work on. What is safe with it is safe
  without it, since FALSE only takes a step away, and the theorems hold for both.
* **Two escrow records** (`escrow_double`). The lock ends with the creation of
  the PaymentIntent, but "already funded?" asks for a row that the webhook
  writes after the client has paid. Two fundings one after the other both pass,
  although the comment says the lock prevents it.
* **More guesses than the cap** (`session_guesses`). Wrong codes are counted in
  the session, and overlapping requests count in copies of it. The run uses
  `CalmSpec`, where no request is cut short after it counted or changed something
  (`Kept`), so the overlap alone is to blame. It is also necessary: when requests
  of a session come one after the other (`Serial`) and none is cut short, the cap
  holds (`SerialGuessesCapped`).

The model reaches other states that texts of the repository rule out. The
properties above state the exception, and there is no run of its own for them:

* The freeze of a dispute covers rows that are HELD at that moment; rows recorded,
  or rolled back to HELD, after it are released as usual, since release looks at
  neither job nor dispute (Disputes.tsx:73 tells the user otherwise).
* The rollback inside the `try` may be done and reported as failed; the `catch`
  repeats it, on a row that another release may have claimed since its lease ran
  out (payments.ts:111-113). This is why `redone` rows are excepted.
* Check and insert of a dispute are two steps, so two can be active (disputes.ts:35);
  `DisputesBounded` is what is left of the promise.
* Cancel, edit and hire also hit jobs that are no longer open (jobs.ts:169, 200, 235).

## 5. Proofs

The theorems hold for any sets of jobs, freelancers, handlers, requests, intents,
secrets and passwords, and any limits, timeouts and windows. They rest on the
named assumptions of the modules alone: `None` is not an element of the sets,
flags are Boolean, bounds are numbers, request slots of `Escrow`, overlapping
logins and requests of one address are finitely many (a server has finitely many
connections), thresholds are at least 2.

* **RedisLock**. `LockIInv` (typing, and: a caller inside has lapsed exactly
  when the key no longer holds its token) is inductive. Exclusion follows: two
  callers that have not lapsed would both be the token under one key. Exclusion
  alone is not inductive, since a release must not remove a successor's token.
* **Marketplace** (in `Freelanci_proofs`). `HiredIffAccepted` is inductive with the
  typing, which includes that the bid a hire is about to accept exists.
* **Escrow**. `TypeOK` says besides types that a slot holds the key of its job
  exactly in the steps inside `withLock`. `ClaimInv` is typing, `ClaimExclusive`
  and `LedgerMatchesStripe` together; each needs the other: that a captured row
  stays RELEASED needs that nobody else can roll it back, and a claim is only
  possible on a HELD row, which needs the first. It mentions neither lock nor
  lease, so it holds however many servers there are. `CaptureOnlyClaimed` and
  `SettledFinal` are action properties that follow from it.
* **Ledger inside Escrow**. `BookStep`: under `ClaimInv` every step of `Escrow`
  moves one row as `Ledger` allows, freezes held rows, or changes no standing.
  One lemma per kind of step (`ClaimBooked`, `CaptureBooked`, `RollbackBooked`,
  `CrashBooked`, `FreezeBooked`, `WebhookBooked`). `LedgerImplemented` states the
  refinement. That claims do not stay open is liveness; its step-wise half is
  `ClaimNearsEnd`: while a row stays claimed a request works on it, the steps of
  that request are numbered downwards (`Closing`), and every step of it either
  ends the claim or comes nearer to the end.
* **What is completed and what is frozen**. `TrailInv` follows each slot: one on
  its way to completing a job works on a row of that job and, past the capture,
  has captured it; one that freezes has recorded a dispute; an intent that was
  never made has no row and no metadata, so making one cannot redirect a row that
  a release has found. `CompletedIsPaid` and `DisputedHasDispute` say nothing of
  slots and are not inductive without it.
* **Disputes**. `DisputesBounded` is not inductive, since two parties may both be
  about to insert. `DisputeInv` counts those together with what is inserted, once
  there is a dispute: `DisputeCheck` lets nobody join them any more, and
  an insert takes one away for the one it adds.
* **Lock inside Escrow**. Every step of `Escrow` is a step of `RedisLock` or
  leaves the lock alone (`LockSteps`), so `LockIInv` is invariant
  (`SerialInductive`, through the theorems of `RedisLock_proofs`), and with the
  typing `SerialUnlessLapsed` follows. `LockImplemented` states the refinement;
  its fairness part is checked by TLC in `LockRefined`.
* **Composition** (`Freelanci_proofs`). `SystemInv` is the invariant of hiring,
  `TrailInv`, and `HirePath`, which ties them: a funding under way carries a job
  somebody was hired for, every payment is for such a job, a dispute that freezes
  a job saw it in progress. On top of it `Chosen` says that the payee a funding
  carries is the one `chosen` when it read the job; it holds at the reading because
  of `HiredIffAccepted` and is kept by every step (`ChosenStep`), and
  `PayeeWasHired` follows. The two sides disturb each other little, and `MarketEffect` and `MoneyEffect` say how: hiring never takes
  back a hire, a decision or a completed status except by cancelling or a new
  hire; money changes no bid and no hired freelancer, and sets a status only on a
  hired job. Each side's invariant survives the other's effect
  (`MoneyKeepsMarket`, `MarketKeepsTrail`), so neither side's proof is repeated.
* **What each part proved alone it keeps in the composition**. `FullInv` adds to
  `SystemInv` what the other proofs about escrow need (`MoneyInv`: exclusive claims,
  agreement with Stripe, the lock's `LockIInv`, `DisputeInv`). Hiring writes none of
  the variables these speak of (`MarketKeepsMoney`), so every step of the composition
  is a step of `Escrow` or leaves them alone (`EitherSide`), and
  `SystemMoneySafe`, `SystemCompletedIsPaid`, `SystemHiringSafe`, `SystemBidsKept`,
  `SystemCaptures`, `SystemSettled`, `SystemClaimNearsEnd` restate the properties
  of the parts about `SystemSpec`; `SystemLedger` and `SystemLock` do so for both
  refinements. The run `freelanci` checks those about hiring; those about escrow
  alone it need not check again.
* **Lockout**. `GuessBound` is not inductive: `GuessInv` adds that without a lock
  every failure past the limit belongs to a login about to set it, and that with
  one only logins past the check can still fail. The proof counts both groups of
  logins (`OneCounted`) for any finite number of them (`LockoutAssumption`).
  `CounterExpires` completes `GuessIInv`: a counter has an expiry or a login about
  to set it. `LockRunsDown` and `CounterRunsDown` are the step-wise halves of
  `LockLifts` and `FailuresForgotten`. What is left of a lock is its TTL and one
  `Window` more for each login that may set it again (`Left`); no step makes that
  more and every tick makes it less, so a lock is lifted after at most as many
  windows as logins raced it, plus its own.
* **IpAccess**. `BanFollows` counts the requests about to ban, as above;
  `TrustedBypass` and `BarredRefused` need `SameStanding`, that a request whose
  standing never changed is where the three layers send it. `StrikesExpire` and
  `StrikesRunDown` say of strikes what the two above say of failures; `ExpirySteps`
  classifies all steps by what they do to a counter and its expiry.
* **Session**. `NoFixation` speaks of stored and carried copies alike, since
  either becomes the other. `OnlyIssued` and `StampsPast` are what a fresh id and
  a fresh time stamp need. `AcceptedInTime` follows from it.
  `SerialGuessesCapped` says when the cap on wrong codes does hold. Its invariant,
  `Tally`, says that every wrong code is counted in the copy that the one request
  of a session carries or, between requests, in the stored session; a copy that
  still equals what was read may be dropped, a changed one may not. Both
  hypotheses are needed: without `Serial` the run finds the counterexample, and a
  request that dies between answer and save forgets the code it counted.
* **Factors**. `BurnedWhileValid`: the key of an accepted code is there while the
  code can match; it needs that a key is set in its own window (`SetInWindow`) and
  what a request carries to the burn (`Carried`).
* **Password**. `LastKept` holds however clean-ups interleave, since a listed row
  has `Limit` newer ones and these only grow. `RowsFollow` identifies rows with
  passwords while changes are clean, and `NoReuse` follows. Rows are counted with
  the library's facts on cardinality.

Only model-checked: the liveness properties themselves (`LockReclaimed`,
`LockLifts`, `FailuresForgotten`, `StrikesForgotten`, the
progress in `LedgerRefined`) and the fairness in `LockRefined`. The measures above
are proved; that fairness makes them run out needs ENABLED and induction over a
measure, which are beyond the prover. Every safety property a passing run checks is
proved.

## 6. Not modelled, and why

* Enrolment of passkeys: adds one row. Signatures, TOTP arithmetic and hashes are
  the libraries'; what is modelled is which inputs they tell apart.
* Stateless guards, validators, crypto, rate counting (the library's), audit log:
  no state of their own that a property is about. What the CSRF check and the
  limits do to sessions and strikes is modelled.
* Files: streams without database state. Administration beyond the IP rules:
  single-row writes. Suspension does not end sessions (middleware/auth.ts:33 reads
  no user), so only the timeouts bound them. No route resolves a dispute.
* Amounts and currency: no handler compares or adds them up.
* The web client: pages over the API. Its idle timer asks for a logout that the
  server's own timeout does not need.
* The rows of the password history are ordered by their creation; the code orders
  them by `createdAt`, so equal stamps and servers whose clocks differ are left out.
* Redis failover is an early `Expire` or `Evict`; replay keys of codes are taken
  to live their TTL, and the server's clock not to go back. Postgres is taken to
  commit each statement, and each `$transaction`, atomically.
* Account components are not composed with each other: `Session`, `Factors`,
  `Password` and `Lockout` share no state but that a right password or code is
  what starts an action of `Session`, which is free to happen there at any time.

## 7. Plan

1. Done: the lock, hiring, escrow with its abstract ledger, their composition,
   lockout, sessions, second factors, passwords, IP access; an inductive invariant
   for each, the safety properties of the parts and of the composition, and the
   measures behind the liveness of claims, locks and counters, proved.
2. Next: suspension beside live sessions, once the code ends them; passkey
   enrolment with its per-session challenge.
3. Progress of the composition (an OPEN job with a bid can be taken to COMPLETED)
   needs fairness for people and is left out on purpose.
