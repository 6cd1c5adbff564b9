# SIMShield: models, checks and proofs

TLA+ specifications of the parts of SIMShield whose correctness depends on the
order in which concurrent requests, failures and retention interleave, with the
TLC runs that check them and TLAPS proofs of what matters most.  Paths below are
relative to `src/`; `PROJECT.json` maps every definition to the lines it models.

## 1. The system

SIMShield is one Flask process over one SQLite database and one append-only
audit file.  Three facts about how it runs shape every module:

* `app.run` (`backend/app.py:508-541`) serves each request on a thread of its
  own.  Nothing orders two requests.
* `db.connect` (`backend/engine/db.py:280-292`) opens SQLite in autocommit mode,
  so each `db.execute` is one atomic statement that commits by itself.  Only a
  few blocks (`assess`, `release_held`, `generate_for_user`, `consume`) run under
  `BEGIN IMMEDIATE` and are atomic as a whole, with a rollback when they raise
  (`db.py:316-333`).  Between two statements any other request may run, and the
  request may die.
* `require_auth` (`backend/routes/common.py:84-104`) reads the user once; the
  handler works on that copy.

So a request is a small process: `pc[r]` says before which statement it stands,
the local variables it carries between statements are variables indexed by `r`,
and each statement, or each atomic block, is one action.

| Part | State | Operations | Hard because | What makes it correct |
|---|---|---|---|---|
| Containment ledger (`engine/transactions.py`, `routes/user_routes.py`) | balance, frozen flag, transaction rows, SIM events | pay, hold, release, freeze | stale user row; debit and row must agree; a release may fail after its claim | no overdraft, no double release, a balance that adds up, holds inside the SIM window, announcements |
| Emailed codes (`engine/auth.py:118-184`) | `otp_codes` | issue, verify, expire, purge | issue is two statements, verify a read and a later write | one live, single-use, budgeted code, bound to its sign-in |
| Sign-in (`engine/auth.py`, `routes/auth_routes.py`) | users row, challenges (in process), login codes, devices, sessions | login, verify, recovery login, passkey login, resend, reset | lockout from a stale row, a slow password hash, a challenge popped late, UNIQUE on devices, three routes that register them, restart | two factors of one sign-in, one session per sign-in, locks and resets that hold, announced devices |
| Recovery codes (`engine/recovery_codes.py`) | `recovery_codes` | generate, consume, purge | racing sign-ins, replacement during a sign-in | spent once, an old sheet is void |
| Audit log (`engine/compliance.py`) | log file, signed checkpoint, `_audit_lock` | append, checkpoint, verify, retain | verification and retention do not take the lock; torn writes; lost tails | one hash chain, checkpoints that describe it, honest answers, fresh records kept |
| Fraud desk (`engine/cases.py`, `engine/appeals.py`, retention) | cases, notes, appeals | submit, withdraw, claim, review, open, detect, status, resolve, reopen, purge | every call reads, checks and writes in separate statements; a review spans two tables | separation of duties, noted outcomes, verdicts that are backed, answers that stay, open work is kept |
| Passkeys (`engine/webauthn.py` and its routes) | challenges (in process), `webauthn_credentials` with signature counters | options, register, authenticate, delete | counter written from a stale row, handles posted twice or swapped, restart | one use per challenge, sessions rest on a key of their account, owners hear of new keys and clones |
| Operator lookups and risk decision (`engine/operator*.py`, `detector.py`, `risk_engine.py`, `signals.py`, ...) | cached adapter, quota deques, loaded models, access log | look up, record, score | failing open without failing silently, lazy loading without a lock | degraded data never raises a score, every look-up is recorded, every check is decided |
| User study (`engine/study.py`) behind the rate limiter (`engine/ratelimit.py`) | deque of hits, two directories of files | submit, export, aggregate, retain | no lock on the deque, two files per submission, empty files, a retention that walks over a listing | what was let through counts, answered submissions are kept for their time and no longer |
| Points, alerts and account risk (`engine/gamification.py`, `account_risk.py`, `chatbot.py`) | points, badges, activity log, alerts, SIM events, risk trend | award, acknowledge, rule on an alert, escalate, dashboard, retain | totals from a stale row, one-shot checks on a log that forgets, alerts an operator makes new again, a score from several reads | points and badges are earned, one award at a time, no false calm |
| Others | see `PROJECT.json` "components" | | | |

Parts call one another as follows: the login route runs the password step, asks
the risk decision, creates a challenge and issues a code; the second-factor
routes consume a code or a recovery code, register the device and open a
session; a held payment and an unfreeze are confirmed with a code; a restrictive
decision opens a case; an appeal opens or joins a case and a review resolves it;
nearly everything appends to the audit log or the activity log; retention
deletes from all of them.  A passkey stands in for both factors.  The risk
decision asks the operator through a cached adapter; an operator that is
degraded is left out of it.  Completing the study, acknowledging an alert or
asking the assistant earns points; alerts and SIM changes make up the risk
score of the dashboard.

## 2. Modules

| Module | Models |
|---|---|
| `Threads` | the threads `app.run` serves requests on; every module with requests extends it |
| `Ledger` | what the ledger promises, without threads (abstract) |
| `Transactions` | `assess`, `release_held` and their routes as interleaved requests; implements `Ledger` |
| `OneTimeCode` | one single-use token with a budget (abstract) |
| `OneTimeCodes` | `issue_otp` and `verify_otp`; implements `OneTimeCode` until two calls overlap |
| `SignIn` | the login, second-factor, resend and reset routes over users, challenges, codes, devices and sessions, and what a passkey sign-in does to the last two |
| `RecoveryCodes` | the sheet of recovery codes and the routes that change it |
| `SecondFactors` | `OneTimeCodes` and `RecoveryCodes` side by side: a thread serves a call about emailed codes or about the sheet |
| `AuditTrail` | an append-only trail with a count that is pinned (abstract) |
| `AuditLog` | append, checkpoint, verify and the log part of retention; implements `AuditTrail` until it is damaged |
| `CaseAppeals` | the case queue, appeals, the detector's case and the database part of retention |
| `LoginRisk` | `signals`, `risk_engine`, `telecom_features` and the fusion of `detector` as operators |
| `OperatorLookup` | operator results, `safe_call`, the two adapters, and what callers are told, as operators |
| `SignInChecks` | the threads that question the operator and score attempts: adapter, quota, access log, loaded models; uses the two above |
| `Passkeys` | the passkey ceremonies and routes |
| `Study` | the study's submissions, exports and files behind `ratelimit.allow` |
| `Awareness` | points, badges, alerts with the statuses operators give them, risk score and trend of one account; extends `Study` with what a participant collects, over the same threads and clock, and with what retention does to the tables after the files |
| `MC*` | the instances TLC checks |
| `*Proofs` | the theorems about a module, checked by TLAPS |

`SignIn` uses codes and recovery codes the way the routes do: that a code is
bound, read and closed is there in full because the provenance of a session
depends on it; the budget and expiry of a code and the sheet of recovery codes
are left to their own modules, so in `SignIn` a second factor may also just be
refused.  Likewise the risk decision may block any login.

### History variables

Some code is correct for one request at a time and not for several.  Instead of
two models, one for each case, the modules record what has happened: `overlapped`
(two calls were in flight at once), and in `AuditLog` `happened`, the set of
incidents so far (overlap, death, tear, loss, purge).  A property that needs calm
says which of these it tolerates; everything else is claimed of the threaded
server.  No action reads a history variable.

### Names and data

Rows are named by who inserted them or by their position; a password is a version
number, a code is the number of its row, a hash is the sequence of the bodies it
commits to (SHA-256 is taken to be injective), time is an action that makes a
row expire.  Distinct random draws are distinct.

## 3. Runs

All instances are small sets of threads, each of which serves one call; threads
(and, where interchangeable, users, devices, rows) are symmetric in the runs,
except in those of `MCSignInChecks`, one of which checks liveness.  Deadlock
checking is off everywhere because every thread eventually has served its one
call.

| Run | Shows | Bounds and why they suffice |
|---|---|---|
| `payments` | three racing payments and releases implement the atomic ledger; no overdraft, one release per hold, large payments that arrive in the SIM window wait, and every parked payment is announced unless its request still has to or died | 3 requests, 1 account, amounts 1 and 2 around the threshold 2, opening balance 3: two payments exhaust it, and hold, release and a second release need three requests |
| `second_factors` | binding and exhaustion of emailed codes, spending and replacing of recovery codes, under any interleaving of both; refinement of the token until two calls about emailed codes overlap | 4 calls, 2 sign-ins, budget 2: issue, two misses and a match; sheets of 2 out of 4 codes: two sheets and two racing sign-ins |
| `code_redeemed_twice` (finding) | two overlapping verifications redeem one code | 3 calls |
| `sign_in` | sessions behind a password rest on two factors of one sign-in and end with a reset, new devices are announced unless a passkey sign-in registered them; until calls overlap, one session per sign-in and a lock that only time or a reset lifts | 3 calls, 2 browsers or none, lockout after 2: a login with two second factors, two misses and a third login, two sign-ins from one new browser across a resend, a passkey sign-in beside or before another |
| `reset_and_sign_in` (finding) | a sign-in that passed its password step before a reset opens a session after it | 3 calls |
| `sign_in_checks` | nothing but a measured reading, in time by its own account, raises a score or is quoted; every look-up is recorded; a trusted model is missed for a reason; every check that nothing stops is decided | 2 requests, 3 subscribers (with and without consent, fix and activation date), 2 attempts on either side of a threshold, quota 2, one minute of 2 ticks; a sign-in asks twice, so two requests exceed the quota; kinds of answer of a foreign adapter, one per condition it can fail, and one that is slow and does not say so |
| `slow_operator` (finding) | an adapter that is slow and reports little is scored and quoted | as `sign_in_checks`, without fairness |
| `passkeys` | one use per challenge, sessions and passkeys of the right account, owners are told | 2 requests, 2 ceremonies, an original, its clone and a key to enrol, counters to 1: a clone that repeats the counter, two answers to one challenge, an answer with the other handle |
| `awareness` | what the limiter lets through; answered submissions are kept for their time; points, badges, awards and the risk trend | 3 requests, limit 1, a window and half an hour of 1 tick, the 30 days and every retention over with the tick they begin in, 2 ticks: two submissions that overlap and a third that must wait, with consent and a comment or without, beside an export or a retention; one award each from claim, checklist, question and alert; a dashboard beside two changes; a SIM change that grows too old between two reads or before a dashboard begins |
| `audit_log` | chain, checkpoints, answers and records under races, failures and losses; the lock is held by a request at work; refinement of the trail | 5 operations: two appends, a checkpoint, a loss or purge, an append and a verification |
| `fraud_desk` | separation of duties, no orphaned appeals and backed verdicts under every operation; until calls overlap, answered appeals stay and unanswered ones are kept | 4 calls of 1 subscriber and 2 analysts who are subscribers too, about 1 case and 1 appeal: a filing and three that race over it, or the detector's case and three that work on it |
| `open_case_purged` (finding) | a case moved back to work is purged | the four calls it takes |

Counters are bounded by the number of calls, ceremonies and SIM changes
(`MaxCeremonies`, `MaxCount`) and time by `MaxClock`; there are no
other bounds and no state constraint.  An alert that is rewarded a second time
because an operator made it new again takes four requests (raise, acknowledge,
rule, acknowledge), one more than `awareness` has: that part of `AwardsOneByOne`
rests on its theorem.

Every property has a mutant: a faulty variant of one modelled definition, written
next to it, under which the property is violated.

### Fairness

Only `sign_in_checks` assumes any, for `EveryCheckIsDecided`: weak fairness of
the next step of each thread (`SignInChecks!Fairness`).  The operating system
schedules runnable threads, and no step of a check waits for another thread: the
quota's lock is held across local work only, and the models are loaded without
one.  It is not assumed of arrivals, of time, or of failures; the property
excuses a check that ends in a load that raised.

That the audit log never stops is stated as safety: `HeldAtWork` says that
whoever holds `_audit_lock` is at work behind it, so the lock comes back
whenever that thread does.  Likewise `HeldIsAnnounced` says of a parked payment
that it was announced or that the request that owes the message is at that step
or died.

## 4. Proofs

TLAPS proves, for every value of the constants, the theorems listed in
`PROJECT.json`.  The assumptions are those the modules state about their
constants (positive amounts, a positive budget, names that differ) and nothing
else.

* **`TransactionsProofs`.**  `Shape` strengthens type correctness with what a
  request in each position knows: who parks a payment has not inserted its row,
  and a released row is claimed by a request that is done.  From it,
  `RefinesLedger` maps every step to a step of `Ledger` or a stutter, and the
  money properties (`NoOverdraft`, and the action properties
  `FrozenKeepsItsMoney` and `SettledIsFinal`, which TLC no longer needs to check)
  follow from the abstract ledger.  `OneReleasePerHold` and `CoveredLargePaymentsWait`
  have invariants of their own (`ReleaseInv`, `CoverInv`): the second has to carry
  the decision `held` from the moment it is taken to the insert.
  `HeldIsAnnounced` follows the row from its insert to the message.
* **`AuditLogProofs`.**  `TypeCorrect` holds whatever befalls the log.
  `HeldAtWork` is an invariant by itself: every step that leaves the positions
  behind the lock releases it.  `Linked` is not inductive: a writer with an
  outdated head would fork the chain in its next step.  `ChainInv` adds that until
  a purge the head read under the lock is still the head of the file, also when
  lines disappear meanwhile.  `PinInv` adds that until a loss or purge the
  checkpoint pins a prefix; `AppendOnly` follows from the same facts.
  `HonestAnswersHolds` needs that requests came one at a time (`Alone`), that every
  line parses without tears (`Clean`) and that a verification between its two passes
  has counted what the checkpoint says (`Counted`); `FreshRecordsSurviveHolds` needs
  `Alone` and that every fresh record is in the file or in the hands of the purge that
  is rewriting it (`FreshInv`).  For `ImplementsAuditTrailHolds` each step is mapped to a step of
  `AuditTrail` or a stutter; `Recorded` gives that no entry is recorded twice.
* **`CodesProofs`**, emailed codes.  `Judged` says what a request knows once it has
  read a row: it is of its own sign-in if it matched.  Rows never change that nor
  get a try back (`Grows`), hence `BoundToSignIn`; only a row with tries left is taken
  in hand, hence `ExhaustedIsFinal`.  The refinement of `OneTimeCode` needs `Token`,
  which holds until calls overlap: one request is at work, only the newest row is
  live, none is between the two statements of an issue, and a row in hand is live and
  has tries left.  `LiveCodeIs` rids the mapping of its CHOOSE.
* **`CodesProofs`**, recovery codes.  `RecoveryInv` ties the table, the sheet and
  the claims together: a code that was spent is not unused, and unused codes are on
  the sheet.
* **`CodesProofs`**, both together.  `EachAsIfAlone`: `SecondFactors` implements each
  of the two specifications, a thread that serves the other kind of call being seen as
  idle.  It needs `Apart`, which ties a thread's position to the kind of its call.  So
  what is proved of each kind of code alone holds beside the other.
* **`CaseAppealsProofs`.**  `Inv` says of every position what the request still
  knows of rows that may have changed since (their owner and case never do), which
  is what separation of duties rests on; outcomes are followed from the UPDATE to
  the note that records them.  `CaseInv` adds that a request about to file an appeal
  has a case retention cannot take yet, so no appeal loses its case.  `VerdictInv`
  says of every verdict, as long as no request died, that its case has an outcome of
  its kind in its notes and has not expired, or that a request is about to note one or
  to take the verdict back.
  `AloneInv` is what one request at a time may rely on: what it read is still so.
  The two action properties that tolerate no overlap follow from it.
* **`SignInProofs`.**  `Inv` says of every position on a request's route what it has
  shown: a request past its challenge comes from that login's browser, one past the
  verdict judged a code of that login, and both stay true because an answered login
  never changes (`Begun`).  A session inherits them (`Opener`), hence `TwoFactors`.
  `MoveShows` reduces a step to the request that moves.  `Telltale` gives every
  registered device that no passkey sign-in registered a request that still owes the
  owner a message, or died owing it.  `Alone` holds until two calls overlap: what the
  one request in flight read is current and its challenge is unspent;
  `OneSessionPerSignIn` and `LockHolds` need that and fail without it.
* **`SignInChecksProofs`.**  The invariant carries what a thread heard (`worth`)
  through `safe_call` to the flag it hands to the score: at "recording" the result
  in hand is usable only if the answer was a reading, in time by its own account, and
  a mismatch only if it was evidence.  The decision then follows from the definition
  of `ScoreLogin`.
  For the quota the deque must still hold every admission that a new one could
  exceed the limit with; it is taken under a lock, so one step suffices.
* **`AwarenessProofs`.**  `AwardInv`: what the account has and what any request
  read of it is covered by what was earned so far (nothing is ever taken back, so
  a stale total stays covered), and a credited award is about to be logged, died,
  or has a row at least as young as itself - which is why retention can only take
  the row when the award is that old.  `Quiet` is the frame of the many steps that
  move one request and leave points alone.
  `OneInv` is about what a request remembers of the log when it began: such a row is
  still there or gone for good (`Rows`), so what is left of the memory only shrinks
  (`Few`), and who passed its check had seen fewer rewards than there may be.  For
  alerts it adds that a new one has no row and nobody who is being rewarded for it
  (`Settled`).
  An operator who makes an alert new again makes it rewardable again; it is then in
  `reopened`, and the statement excepts it.
  `CalmInv` says of a dashboard that what it has counted is no less than what was
  there throughout (`Counted`): of the alerts that were open when it began, those
  neither acknowledged, resolved nor purged since only shrink, and so do the SIM
  changes it began with that are still of the last 30 days.
  `FileInv` says of a submission what its files are by where it stands: none before
  it was let through; answers unless that was longer ago than they are kept; a
  comment only after them; a file that was not written only while the request is
  open or because it died.  No file is older than the admission of its request, so
  what retention takes was let through long ago.
  `WindowInv`: the deque holds the last of those let through, and unless two calls
  met in it those it dropped are old (`Deque`); who was let through has begun, so
  those ahead of a request no longer change (`Entered`), and the length it compares
  with the limit bounds the young ones among them.  `RestTypes` says what is left to
  say of types: a request that reads files holds names of requests, and one that
  puts a score together asked for the dashboard.
* **`PasskeysProofs`.**  `TypeInv`: who registers is signed in, and past its read a
  request has a row in hand.  `UseInv` (with `Sole`): an open challenge was taken by
  nobody, a taken one is held by one request, and nothing was got for it while
  something still can be.  `SignedInv` (with `Shown`): what a request has shown by
  where it stands; `Grows` says that ceremonies, answers and registrations only
  grow, so what was shown stays true.  `TellInv`: unless it was overtaken, a row
  holds the highest counter accepted for it (`Highest`), and a request writes once
  and warns of the row it wrote (`Once`), so a step back is seen by whoever takes it.

The type invariant of every state machine is proved, and every property of a
passing run but one: `EveryCheckIsDecided`, because liveness under fairness is
beyond these provers.  It is only model-checked, like what the operators of
`LoginRisk` and `OperatorLookup` compute.

## 5. What the models show about the code

Findings, each with a run that exhibits it:

* `verify_otp` closes a code without `AND used = 0`, so two overlapping
  verifications both accept it (`auth.py:161-184`).
* `set_status` moves a resolved case back to work and leaves `resolved_at`, and
  the purge looks at `resolved_at` alone (`cases.py:203`, `compliance.py:506`).
* A password reset ends the sessions there are, but not sign-ins that passed
  their password step before it (`auth.py:334-336`).
* `safe_call` downgrades a usable answer on the latency the adapter reports
  (`operator_adapter.py:319-326`), not on its own clock, so an adapter that is slow
  and reports little is scored, against `operator_mock.py:160-161`.  The mock
  reports what it measured.

Disagreements with the repository's own words that the models exhibit and that have
no run of their own; the property next to each is stated so that it does not claim
what the code does not do:

* `passkey_login` throws the answer of `register_device` away
  (`auth_routes.py:399-402`), so a device first seen there is stored as known and its
  owner is not told, then or when it later signs in with a code; `auth.py:287-289`
  says the answer is returned "so the caller can raise a new-device alert".  The
  devices are in `untold`, which `NewDevicesAreAnnounced` excepts.
* A challenge is "single use" (`auth_routes.py:280`), but what the pop returns is not
  looked at: two second factors presented at once open two sessions.
  `OneSessionPerSignIn` speaks of runs without overlap.
* The detector is "idempotent per (user, decision) within an hour" (`cases.py:98-99`),
  but it looks and then inserts in two autocommitted statements (`:107-118`), so two
  blocked sign-ins at once open two cases.  And the hour is a comparison of strings:
  `created_at` is local time with a `T` (`:79`), `datetime('now','-1 hour')` is UTC with
  a blank, so they compare by their dates alone.  In the model `recent` may
  end at any time; no property is made of it.
* Comments on the study are never deleted: `enforce_retention` walks over
  `data/study` only (`compliance.py:450`), against "automatically deleted" after 365
  days (`study.py:65-68`) and "EVERY store" (`compliance.py:420-423`).
  `AnsweredSubmissionsAreKept` asks for answers and comment while their time lasts and
  for nothing afterwards.
* One-shot events "may only ever be awarded once per user" (`gamification.py:15`), but
  the check and the row are statements apart (`:26`, `:45`), so overlapping claims are
  both paid, and retention deletes the rows the check counts, so an event is paid
  again after the log's 90 days.  `AwardsOneByOne` speaks of what was in the log
  when a request began.
* `set_alert_status` may set an acknowledged alert back to `new`
  (`admin_routes.py:63-79`), and acknowledging it is then rewarded once more
  (`user_routes.py:77-85`).  `AwardsOneByOne` excepts these alerts.

Observations from exploring the models; each is the reason a property above is
stated the way it is:

* Ledger: parking a payment does not look at the frozen flag again
  (`transactions.py:154`), so a payment that raced with a freeze may still be
  recorded as held; no money moves.  Whether a payment is held is decided on
  `sim_events` read before the debit (`:117`, `:131`), so a SIM change that lands in
  between is not seen.  `CoveredLargePaymentsWait` therefore speaks of payments
  that arrive inside the window.
* Codes: overlapping issues leave two live codes (`auth.py:132-139`), overlapping
  misses overrun the budget (`:168`), and the closing UPDATE of a miss writes
  `used = 0` over a code that was spent meanwhile (`:182-183`).
* Sign-in: overlapping guesses lose counts and one that read the row before a lock
  clears it (`:203-209`).  A reset that dies between its two
  statements leaves the old sessions.  Of two sign-ins that meet on a new device
  one fails on the UNIQUE constraint after its code was spent (`auth.py:300`).
* Audit log: a verification that runs beside an append and a checkpoint reports a
  truncation (`compliance.py:289`, `:311`); after a purge the chain is reported
  modified (`:303`, `:426-427`); records appended while a purge rewrites the file
  are lost (`:399`); a tail that was lost and written anew is not noticed (`:317`).
* Fraud desk: under overlap an answered appeal can be answered again
  (`appeals.py:153`, `:196`), the limit on open appeals is overrun (`:77-98`), and an
  outcome is replaced (`cases.py:251`), though always noted.  A request that dies
  between answering an appeal and resolving its case leaves the two apart
  (`appeals.py:196-203`).  Retention stops at a resolved case with an open appeal, or
  with a note written since the notes were deleted (`compliance.py:506`).
* Operator: `location_mismatch` looks up the claimed coordinates of a
  reading that has a distance outside `safe_call` (`operator.py:157-163`), so an
  adapter that gives a distance without a claimed place ends the check with a
  KeyError; the adapters here never do, and `EveryCheckIsDecided` excuses no other end.
  A model whose load raises stays marked as loaded, and every later check runs on
  the rules (`ml_model.py:30`).  Overlapping first look-ups build two adapters with
  a quota each (`operator_adapter.py:349-350`), and a check before a code takes two
  units of it.
* Passkeys: of two overlapping sign-ins with one passkey the later write may lower
  the stored counter (`webauthn.py:458`), after which a clone's step back can pass
  (`overtaken`).
* Study: pruning calls that overlap may drop a young hit or raise IndexError
  (`ratelimit.py:18-19`, `clash`).  A submission that dies while it writes leaves an
  empty file, and every aggregate and export fails on it until retention takes it
  (`study.py:230`, `:255`).
* Points: overlapping awards lose points and badges (`gamification.py:33-44`).

## 6. Not modelled

* Cryptography, privacy, headers and validation (`crypto.py`, `privacy.py`,
  `security.py`, `validation.py`): stateless functions on strings.  The models use
  that equal inputs hash equal and that a signature is only made by its key.
* Monitoring, feedback statistics, evaluation and training scripts: statistics over
  real numbers, read-only or offline.  The same holds of `sequence_anomaly` and of
  what the trained models answer, which is a constant of `LoginRisk`.
* The production gate: a conjunction of checks evaluated once at start-up.
* Browser pages, awareness texts, quizzes: content.
* In the modelled parts: registration; the listing calls (read-only);
  `awaiting_customer`, which no rule tells from `open`; the limiter in front of
  routes other than the study's (a refusal there is a call that was never made);
  warnings, devices and habits in the account risk (one added number); e-mail
  delivery.  No caller of `open_case` passes an `alert_id`, so the foreign key from
  cases to alerts (`db.py:187`) never holds retention up and is left out.

## 7. Order of work

The modules were written in the order of what the system is for: the money, the
second factor and the evidence first (ledger, codes, sign-in, recovery codes, audit
log), then the people behind it (fraud desk), then what decides about a sign-in
(operator, risk, passkeys), then the study and the points.  Then the same order again for the
proofs.  What is left: a bound on open appeals under overlap (`appeals.py:77-98`),
and what reaping does to the dict of challenges while other threads add to it
(`auth_routes.py:55-58`).
