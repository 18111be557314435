# A TLA+ model of Fintell

Fintell keeps bank statements: users upload PDF or CSV files, the backend parses
them into transactions, categorizes those (merchant table, then an LLM), flags
unusual ones and answers questions about spending. The backend is FastAPI with
async SQLAlchemy on Postgres, one asyncio process, one database session per
request, READ COMMITTED. Requests interleave wherever a handler awaits; what one
has read may be stale by the time it commits. Most of what can go wrong here goes
wrong between two such steps, and that is the grain of the models: an action is a
SELECT, a commit, or a change on the disk, together with everything the code does
before the next one.

Paths below are under `src/backend/app` unless they begin with `src/`.

## 1. The system

| Component | State | Operations | What makes it hard | What makes it correct |
|---|---|---|---|---|
| Auth and sessions: `services/auth_service.py`, `api/auth.py`, `core/security.py` | `users`, `refresh_tokens` (family, revoked, expiry) | register, login, refresh (rotation), logout, list and revoke sessions | a refresh is two commits; answers get lost; reuse of a consumed token closes a family that another request is extending | one owner per family, history never rewritten, one family at a time, a session never reopens |
| Rate limiter: `core/rate_limit.py` | times of the hits per (scope, address), in memory | `allow`, `reset` | edges of the window; requests of the same instant; shared scope of three routes | never more than the limit in a window, never a refusal without cause |
| Statements: `services/statement_service.py`, `api/statements.py` | `statements`, the files, `audit_log` | upload (six or more commits), delete, mint a download URL, download | disk and database change separately; deletion during an upload; crash at each step; swallowed errors | a row has its file, a deletion leaves none, status tells what is stored, nothing returns |
| Accounts: `services/account_service.py` | `accounts` | create, find or create by bank hint | look up, then insert | an upload's transactions carry its account |
| Parsing: `services/parsing/` | `bank_profiles` | detect structure, reuse or learn a profile, parse rows, resolve signs | profiles shared by all users and uploads; ambiguous dates and signs | no line is lost; what is reported clean or proved by the file is right, whatever was learned; signs agree with balances |
| Categorization: `services/categorization/` | category and method of transactions, `merchant_lookup`, `llm_decision_log` | Tier 2, Tier 3, promotion, correction | reads before a slow LLM call and writes after it; column-wise writes; unique index | what was learnt is used, teaching and taught are one commit, promotion by threshold |
| Splits and spending: `services/transaction_service.py` | `transaction_splits` | split, unsplit, spending by category, trend, top merchants | replace-all under concurrency; decimals | splits that do not overlap sum to the amount; views agree with each other |
| Anomalies: `services/anomaly/` | `anomaly_flags` | refit (after every upload and on demand), list, dismiss | a refit reads three times, computes, writes once; dismissals and other refits commit in between | dismissals are fed back and not undone, flags cleared only with cause |
| Ask your finances: `services/text_to_sql/` | query log | ask | template chosen by an LLM; templates do not know of splits | answers fit together, and agree with the dashboard where they can |
| Recurring: `services/recurring_service.py` | none | detect | same-day payments, tolerances | clusters are regular |
| Metrics and audit: `services/metrics_service.py`, `services/audit_service.py` | `audit_log` (append only) | record, count | a commit of its own, after the action | what users were told of is in it |
| Browser: `src/frontend/src/lib/api.ts`, `auth-context.tsx` | tokens in localStorage, refresh in flight | request with one retry, hydrate, login, logout | tabs share storage and not the refresh in flight; lost answers | a session survives its own retries |

Who calls whom: the router runs the limiter, then `get_current_user`, then a
service, then `audit_service.record`. An upload calls parsing, the account
lookup, Tier 2, Tier 3 (which runs the promotion job) and the anomaly refit in
this order in one request. Corrections write the merchant table that Tier 2 of
every later upload reads. Everything else meets in the database only.

The hazards this gives are listed, each at its line, in `PROJECT.json`.

## 2. The modules

| Module | Models | Proofs |
|---|---|---|
| `SessionLifecycle` | the abstract promise: a session is opened once by one user and closed for good | - |
| `Sessions` | register, login, refresh, logout, revocation between their commits | `SessionsProofs` |
| `Browser` | tabs, their calls and the shared refresh; extends `Sessions`, which is its server | `BrowserProofs` |
| `RateLimiter` | `FixedWindowLimiter` with an integer clock | `RateLimiterProofs` |
| `AnomalyFlags` | overlapping refits and dismissals | `AnomalyFlagsProofs` |
| `Categorization` | Tiers 2 and 3, promotion, correction, split | `CategorizationProofs` |
| `Queries` | the spending views and the six question templates, as operators over tables | `SpendingProofs` |
| `Spending` | allocations with amounts, overlapping splits, the view between its SELECTs; extends `Categorization` and `Queries` | `SpendingProofs` |
| `StatementLifecycle` | the abstract promise: a statement appears with its file, is settled at most once together with its transactions, loses its file only on the way out, and never comes back | - |
| `Statements` | upload, deletion and download, database, disk and audit log | `StatementsProofs` |
| `SignConvention` | the five sign conventions | `ParsingProofs` |
| `StatementLayout` | column roles, date formats | `ParsingProofs` |
| `Parsing` | Tier 1 with learned profiles; extends the two above | `ParsingProofs` |
| `MC...` | values for TLC | - |

How they correspond to the code:

* **Sessions.** `rows` is `refresh_tokens` in order of insertion; a token is the
  index of its row; `parent` (history) is the row it was exchanged for. `horizon`
  is how many of the oldest rows have expired. `known` (history) are the tokens
  whose answer reached a client: `Respond`; an answer that is lost is `Abort`.
  `rotate_refresh_token` is `RefreshLookup` or `RefreshReused`, then
  `RefreshRevoke` (first commit), `RefreshIssue` (second), `Respond`. Hashing,
  JWTs and password checks are left out; a token cannot be forged. Access tokens
  are not looked up in the database by the code, so a revoked session may act
  until they expire: `HoldsAccess`.
* **Browser.** `store` is localStorage, shared by all tabs; `blocked[t]` are the
  calls that await `refreshPromise` of tab `t`, which is set exactly while some
  `fetch` is that tab's refresh. A slot of `Request` is a fetch and the server
  side it starts, which goes on when the fetch is given up (`Orphaned`); a refresh
  or a logout that nobody waits for any more still does what it was sent for. The
  SELECT of a logout finds its row whenever it runs (rows are never deleted and the
  query has no other condition), so `SignOut` takes it with the sending; its
  commit, `LogoutRevoke`, comes at any later time or, after `Crash`, never. A call
  that is not waiting for a refresh has no state; that it may get a 401 is that
  `StartRefresh` is always possible. `Reload` forgets the variables of a tab and
  keeps the storage. `excused` (history) are the families for which a lost answer
  or a sign-out already explains that the server sees a consumed token.
* **RateLimiter.** `allow` has no await, so it is one step, `Admit` or `Refuse`.
  `hits` is `_hits`. The limiter is modelled as enabled
  (`rate_limit_enabled`, the default). `Restart` loses all hits, and with them the
  history: the bound is one of a process, not of the service.
* **AnomalyFlags.** A refit is `DetectLoad`, `DetectSuppressed`, `DetectFit`,
  then `DetectCommit` or, when its commit hits a unique index or a row that has
  gone, `DetectFail`. What the forest finds is any set of the transactions that
  are not suppressed (those with an amount driver excepted, as in
  `detector.py:153-160`). One user; the queries name the user. The signature of a
  transaction is a constant, although a correction of its category changes it.
* **Categorization.** The ORM writes only columns that changed since the row was
  loaded; `Write` is that rule and every commit uses it. `rule_exact` and
  `rule_fuzzy` are one method and a fuzzy hit is a free choice among lookup rows
  (`Outcomes`), so what holds does not depend on the similarity score. `Empty` is
  the merchant of transactions of whose text the cleaner leaves nothing (a bare
  reference number): they are never matched, asked about or taught (`HasMerchant`;
  `if cleaned:` in `service.py:89` and `tier3.py:46`, `matcher.py:35`), so a correction
  of one writes the transaction alone (`RecategorizeOnly`). Answers
  of the LLM may omit merchants, name one twice, or name none. Confidences are
  read by no property and left out, so is deletion.
* **Queries.** A table is a set of records, a query a set comprehension, a
  GROUP BY a function from keys to sums. Months have equal lengths: the code only
  compares dates and truncates them to months. Of equal sums, ORDER BY ... LIMIT
  may leave out any.
* **Spending.** `alloc[t][p]` are the rows of `transaction_splits` that the last
  split of request slot `p` inserted: a DELETE removes what was committed when it
  ran (`SplitDelete` records it in `seen`), so two overlapping splits can both
  stay. Amounts are integers in fractions of a cent; `Rounded` is what
  Numeric(14, 2) stores. The view is open between its two SELECTs. A transaction
  without a merchant shows its `raw_merchant` (`NormalizedMerchant`).
* **Statements.** `table` and `content` are committed rows; `files` is the upload
  directory. Parsing, tiers and refit succeed or fail as they may; in what ways
  they do is the business of the other modules. `Abort` is a crash, a killed
  worker or a client that hangs up, and may come between any two steps.
  `loaded` and `expired` are the two facts about the ORM session that decide how
  a request ends: it holds transactions to UPDATE, its objects have expired.
  `Statements` implements `StatementLifecycle` with the status of the row as the
  state (`StateOf`), the file of a committed statement as what is kept, and the
  presence of its transactions as what is listed: the three are written by
  different steps, on disk and in the database, and must still look like one life.
* **Parsing, StatementLayout, SignConvention.** A file is what the readers make of
  it: cells of a header and of lines, or lines of text with a date token and
  amounts. A date cell holds the day it stands for under each format, which is
  what `strptime` can tell; a header text is known by its scores against the
  synonyms. Each file also carries what its bank meant (`format`, `meant`), which
  no definition of the code reads and the properties compare with. An upload is
  `Upload` (detect, look up a candidate), `Reuse` or `Cold`, `UpsertSelect`,
  `UpsertCommit`, `Finish`; the parsers are functions of the file and of the
  profile that was read.

Map entries marked external model the ORM's unit of work as the code uses it.

## 3. What TLC checks

| Run | Instance | Shows |
|---|---|---|
| `sessions` | 2 users, 2 families, 2 requests, 3 rows | all interleavings of two requests: the invariants, the action property, and `Sessions` implements `SessionLifecycle` |
| `sessions_reuse` | same | **violated**: reuse detected between the two commits of a rotation does not close the family |
| `browser` | 1 tab with 2 calls, 2 requests, 1 user, 2 families, 3 rows | sharing the refresh never looks like theft, a logout stays one, no call waits for ever |
| `rate_limit` | 2 addresses, limits 2 per 3 ticks and 1 per 2, clock to 4 | the bound over every window, and that only a full window refuses |
| `anomaly` | 2 transactions of one signature, 2 requests, 2 commits of new rows | feedback, kept dismissals, justified clearing, aimed dismissals |
| `anomaly_dismiss` | same, 1 commit of new rows, trained from 1 transaction on | **violated**: a dismissal made while a refit is at work is deleted by it |
| `categorization` | 3 transactions in 2 statements, one without a merchant, 1 merchant, 1 category, 2 requests, threshold 2, splits in whole cents | closed loop, teaching with the taught (and never without a merchant), threshold, kept corrections; splits sum to the amount unless they overlap; views and answers agree |
| `split_sum` | same | **violated**: two overlapping splits leave the rows of both, which sum to twice the amount |
| `statements` | 1 statement, 2 requests, 1 hint, 1 account | disk and database, status, audit, that pending settles, and `Statements` implements `StatementLifecycle` |
| `upload_hiccup` | same | **violated**: a failed refit turns a stored upload into an error |
| `parsing` | 12 files, 2 uploads, 1 profile | no line is lost, clean means right, proved dates and balances are believed |
| `profile_convention` | a signed file and one of deposits of the same layout | **violated**: the learned sign convention is derived again |

The five violated properties quote a docstring, a comment or the documentation; the
traces are described under "findings" in `PROJECT.json`.

**Bounds.** Everything that is violated in these systems takes two actors and one
object they share, so two requests over one family, transaction, merchant,
statement or layout is the instance that matters; a second user or family is
there where a property compares two. `MaxRows`, `MaxId`, `MaxLog`, `MaxTime`,
`MaxAccounts` and `MaxProfiles` stop what would grow for ever: three token rows
allow a rotation and a reuse after it; a clock of 4 passes the end of a window
of 3; two decisions reach the threshold of two. Two transactions are of one
merchant, so that requests contend for it, and a third has none; that requests
about different merchants leave each other alone is shown by the proof
(`DecisionsKept`). One purchase is a month old, one is of today and the
deposit lies a month ahead, so that the trend has months that are empty, full
and beyond it. A cent is two units, so that half a cent exists, but the splits of
the runs are in whole cents: `MCSpending` evaluates `Rounded` over a range of
amounts (`RoundedIsNearest`), and what it does to splits is proved
(`AllocationsSum`, `OffByRounding`). The proofs remove these bounds again, for
everything but what section 4 leaves to TLC.

The 12 files of `parsing` are one for each way through Tier 1: both date orders and
ISO, dates that prove the order and dates that hardly do, each of the five sign
conventions, newest first, a column that resembles another, a format nobody can
find, text with a balance and text with signs, a scan that cannot be read. The
sample is five lines, not twenty, so that a file can be longer than it. Three date
formats stand for the 13 of `text_utils.py:7-21`: month first and day first, which a
date can be mistaken for, and ISO, which it cannot. Their order, which breaks ties in
grids, is that of the code for slashes and a year of four digits; with a year of two
digits, and with dashes, the code tries the day first.

**Deadlock** is checked, except in `sessions`, `sessions_reuse` and `browser`, where
a state in which every family is used and every token expired or spent is a
legitimate end.

**Where the code promises less.** Some properties state a condition that a reader may
want to know of, since what they exclude does happen:

* `NoFalseTheft` and `StoreIsLive` are about one tab. The refresh in flight is a
  variable of the page, the tokens are in localStorage: two tabs can send the same
  refresh token, the second is taken for a theft and the session is closed. TLC
  finds it in 11 states. The comment in `api.ts:61-64` speaks of concurrent calls,
  not of tabs.
* `OutMeansOut` excepts a refresh in flight during the logout: it stores the new
  pair after the tokens were cleared.
* `CorrectionsKept` and the exact half of `OneBatch` except what the history
  `contested` records: merchants that two requests had in hand at once (in a
  transaction or about to be promoted), and those that a promotion job had in hand
  when it died. Requests about other merchants may overlap as they like. That a
  correction is in the lookup table is said only of transactions that have a
  merchant; `TaughtTogether` likewise, which says of the others that nothing is ever
  taught or decided for them. Of a
  contested merchant, a split between the read and the write of a tier leaves a
  method without a category, a promotion chosen before a correction overwrites it,
  the decisions that a dead job left are promoted over a later correction, and the
  allocations of two splits both stay.
* `promotion.py:13-14` promotes a merchant only with consistent decisions, but a
  decision logged between its GROUP BY and its SELECT is promoted with them. This is
  in `PromoteDecisions` and in the list of hazards; it fails as soon as two jobs
  overlap and is not among the properties.
* `ProvenDatesRight` asks for more than a fifth of the sampled dates, because a
  stored date format is kept while four in five samples fit it
  (`profile_service.py:97-106`). A first file that does not prove its order may teach
  the wrong one, and a later file of which one date in five proves the right one
  (`eu_boundary`) is then read with the wrong one; the line whose date does not fit
  goes to review and the others get wrong days.
* A profile that several uploads write at the same time may be one that no file taught
  as a whole (`profile_service.py:109-183`); what is kept is that every column of it
  was taught by a file of its layout (`ProfilesAreTaught`).
* `AllocationsAddUp` is the documented promise, that splits sum exactly to the amount,
  where it holds: for transactions whose merchant no two requests had in hand at once,
  and splits asked for in whole cents. Without the first condition it is `SplitsSumUp`,
  which the run `split_sum` finds violated: both requests run their DELETE before either
  commits its INSERTs. Without the second it fails after a single split, since the
  request is checked before the column rounds (`transaction_service.py:134-138`
  against the Numeric(14, 2) of `models/transaction_split.py:28`): two halves of
  an odd number of cents are both rounded away from zero.
* `DashboardAgrees` excepts a split between the two SELECTs, rounded splits and
  parents that have a category of their own. The last happens when a split transaction
  is recategorized: `recategorize_transaction` sets the category without asking for
  splits (`service.py:84`), against the docstring of `models/transaction_split.py:12-13`
  ("When a transaction has any splits, its own `category` is cleared"). The templates
  then count the parent's whole amount in that category while the view counts the
  splits.
* `PendingSettles` excepts uploads that died or raised, and `detect_structure` may raise
  outside the `try` of a function whose docstring says "Never raises"
  (`pipeline.py:17-19`): such a statement stays pending.
* `BalanceTellsSign` excepts files with rows skipped before the signs are inferred, and
  newest-first files with several rows a day; `ProvenDatesRight` excepts files whose
  dates do not prove their order.

Several hazards in `PROJECT.json` are these exceptions themselves. They have no
property, and a note saying what happens.

**Mutants.** Every property of a passing run has a mutant: a definition with a
plausible bug (a dropped WHERE, a missing UPDATE, the wrong order of two writes)
under which TLC finds it violated. They stand beside the definition they change.

**Fairness** is assumed in two places. In `Statements`, weakly, for each request's
next step: the event loop runs every coroutine that is ready, the database answers,
the LLM client has a timeout. Crashes and client aborts are never fair and never
excluded: `PendingSettles` says that a pending statement settles unless its
upload died or raised, in which case the code has nothing that resumes it. In
`Browser`, weakly, for the end of a refresh: a fetch is answered or the browser
gives it up, so that `BlockedReleased` holds however it ends. The other
specifications state safety only; nothing in them must happen, since a client may
fall silent at any point.

## 4. What is proved

TLAPS checks the following for every value of the constants, that is for any
number of users, families, statements, transactions and overlapping requests. The
assumptions are those of the modules: the NULLs are not values, bounds are
naturals, `Sig`, `Max` and `Window` are functions of the right type, a statement
has finitely many transactions, amounts and days are integers, scores are
percentages, and the cells of a file are what a reader can make of it
(`ContentAssumption`). TLC evaluates each of them in its runs.

* **SessionsProofs.** `TypeOK`, `FamilyOneOwner`, `ConsumedBeforeReplaced`,
  `KnownSessionsAudited`, `RevokesOnlyOwnRows`, the action properties
  `RowsKeepHistory` and `RevocationScope`, and the refinement
  `Spec => Lifecycle!Spec`. None is inductive: the strengthening
  (`RequestsConsistent`) is what a request in flight knows of the row it has read,
  for instance that the row it is about to replace is revoked already. For the
  refinement, every step leaves the status of every family as it is, opens a fresh
  one, or closes one; an expiry, which may close several at once by its number of
  rows, closes at most one because it expires one row at a time.
* **BrowserProofs.** Every step of the composition is a step of `Sessions` or leaves
  the server alone, so `BrowserSpec => Spec` (`ClientsObeySessions`) and all of
  `SessionsProofs` holds of it, the refinement of `SessionLifecycle` included. This
  needs that browsers present only tokens they were given (`BInv`). `OutMeansOut`
  follows for any number of tabs. `OneRefreshPerTab` and `EndWakesAll` are proved for
  any number of tabs too: a call awaits a refresh exactly while its tab has one in
  flight, there is never a second one, and a step that ends it, however it ends,
  wakes all who wait; this is the safety half of `BlockedReleased`. `NoFalseTheft` and `StoreIsLive` are proved for
  one tab and any number of calls and requests. The strengthening (`OInv`) says, for
  every family that is not excused: at most one refresh presents its token, on the
  client's side or the server's; the token on its way, the one being rotated or the
  one stored is the only live one. Its core is the lemma `FewerOInv`: a step after
  which no such family has more in flight preserves it.
* **RateLimiterProofs.** `WindowBound` for all limits and widths, zero included,
  and `RefusesOnlyWhenFull`. The strengthening ties the list in memory to the
  history of admissions: it is a suffix of it, what is missing is stale, and both
  are in order of time.
* **AnomalyFlagsProofs.** `TypeOK` with the foreign key, `FeedbackApplied`, and
  the three action properties. The strengthening: what a refit has read as
  dismissed when it began is among the signatures it suppresses, as long as the
  row is the same.
* **StatementsProofs.** All five safety invariants, the refinement
  `Spec => Lifecycle!Spec`, and `StatementOnlyMovesOn` (`NoReturn`), which the runs
  check as a part of the refinement. For the refinement, every step of an upload or a
  deletion is one abstract step of its statement or none: that it is the only one
  follows from the same invariant. `PendingHasUpload` is the safety half of
  `PendingSettles`: while a statement is pending, an upload stands before the commit
  that settles it, no step of another request moves it from there or takes the
  statement away, and its own next step settles the statement or is on record as its
  death. The strengthening has two parts: what each request knows of its statement where it
  stands (`Fits`: after the file is written it is on the disk, before the row of a
  deletion goes the file is gone, past Tier 1 the status is settled, past the link
  the accounts agree), and that two uploads never share a statement, nor does
  anyone know of one that is not committed (`Apart`).
* **CategorizationProofs.** `TypeOK`, `ClosedLoop`, `TaughtTogether` and
  `PromotedByThreshold`. The argument is rely and guarantee. `Grows` is what every
  step guarantees to the other requests: transactions, lookup rows, decisions and
  promotions are never taken back, and a resolved transaction stays resolved unless
  a split clears it. `Fits` is what a request relies on, and `Survives` shows that
  `Grows` preserves it. The threshold rests on one fact: the decisions a job is
  about to promote and those that count as promoted already are together at least
  as many as the threshold, because the job has selected whatever others left over.
* **SpendingProofs.** Every step of `Spending` is a step of `Categorization` or a
  stutter, so what is proved of the latter holds of the composition. `OneBatch`, the
  half of `AllocationsAddUp` that is not arithmetic, is proved by `SInv`: the shapes
  of allocations and requests and, for a transaction whose merchant is not
  contested, that only one request holds it and that a split which has run its
  DELETE has seen every row there is.
  The arithmetic half adds `AInv`: what a request is to write is one of the lists a
  user may ask for and was checked against the amount, and whole cents are stored as
  they are (`RoundedExact`, `StoredExact`), so each batch sums to the amount. In
  fractions of a cent it is off by half a cent a row at most (`OffByRounding`).
  `AnswersAgree` holds of
  any finite table, and `StoredFinite` is its invariant: uploads are finite.
  For `DashboardAgrees`, `VInv` keeps what an open view has seen: there was a table,
  the one of its first SELECT, of which the plain rows and the templates' answer are
  those it holds, and whose splits are still there. `CorrectionsKept` needs `KInv`:
  of a merchant that is not contested, the one request that has it in hand knows
  what the tables hold, whatever the others write meanwhile (`OthersKnow`); a
  correction without a merchant leaves the lookup as it is; and if
  it qualifies for promotion, it has no lookup row and a job that will promote it.
* **ParsingProofs.** The invariant (`PInv`) says what a request has parsed: its file
  from nothing, or with a profile that fits the file; and that every profile holds
  one of the code's date formats, whoever taught it. An outcome of either kind is
  that of rows that stand for lines of the file (`Stands`), which gives
  `EveryLineAccounted` for files of any length. `ProvenDatesRight` is a count: if
  more than a fifth of the sampled dates can be read in one format only, any other
  format fits less than four in five, so that neither the detectors choose it nor a
  profile with it survives its trial. `BalanceTellsSign` rests on ledgers of any
  length: oldest first, with several rows a day, every row but the first gets the
  sign the bank meant; newest first, with one row a day, every row but the last. A
  row's predecessor in date order is its neighbour in the file, and then the
  difference of the balances is the amount. `CleanIsPrinted`: a statement is
  `parsed_clean` only if every line became a row and its convention prints the
  signs. `ProfilesAreTaught` says what profiles come to when uploads teach each
  other: each column of a stored profile was taught by a file of the profile's type
  and print. That one file taught all of it is false, as TLC shows: two uploads that
  read the row before either wrote it may each write the columns in which they differ
  from what they read. `CleanIsRight` rests on it: if the banks mean what they print,
  `CleanMeansRight` holds. That hypothesis, `SignsMeant`, is about the files only
  (what a line says when it is read with the roles of its own columns or of a layout
  some file teaches), and TLC evaluates it for the files of the runs (`MCParsing`).
  And the greedy pass that gives columns their roles is a stable matching
  (`ColumnsMatched`), so that no cell is read as two things (`ColumnsDiffer`).

Sums and the greedy pass are recursive functions on finite sets. What they compute
for every set is proved from a least counterexample (`NatLessThanWellFounded` with
`WFMin`): no theorem that takes a predicate is needed, a set takes its place
(`SubsetInduction`, `FirstLine`).

The proofs have corrected the model once. The sign convention was a CASE whose
guards overlapped, which TLC reads in order, as the code's `if ... elif` does, but
which TLA+ leaves to choice: that its result is one of the branches was all that
could be proved. It is an IF ... ELSE chain now.

Left to TLC:

* `PendingSettles` and `BlockedReleased`: liveness under fairness and ENABLED are out
  of the prover's reach. What is left is only that the step which settles, or wakes, is
  enabled and scheduled; that nothing else is needed is `PendingHasUpload` and
  `EndWakesAll`.
* `SignsMeant`, the hypothesis of `CleanIsRight`: that a printed sign is the meant one
  is a fact about the banks, not about the code. It is evaluated for the files of the
  runs. The code's part needs no hypothesis: `CleanIsPrinted`.

## 5. Not modelled

* Recurring payments: means and deviations over the transactions of one merchant,
  computed on each request and never stored. It has no state and promises only to be
  a heuristic.
* Of parsing: the search for the header among the first five rows, the readers of
  files (`ocr_parser.py`, `csv_parser.py`, `pdf_table_parser.py`) and what a regular
  expression makes of a cell: no state or protocol, and their result is an input
  here. The counters and time stamps of a profile decide nothing.
* The query log and the prompts of the question answering: the log is an append in
  the same commit.
* Audit rows other than those of login, upload, delete and download: no property
  reads them.
* The numeric content of the anomaly model (`features.py`, the forest) and the
  similarity of merchant names: replaced by free choices.
* Admin metrics, pages, schemas, migrations and scripts: no state or protocol of their
  own. Seeds are an initial state of `Categorization`; the constraints of the tables
  are in the modules of the services that meet them.

## 6. Plan

1. Done: sessions with their browser, the limiter, anomalies, categorization with
   splits, views and answers, statements, parsing with its profiles.
2. Possible extensions: the download of a statement while its transactions are being
   categorized (`Statements` and `Categorization` share only the transactions, which
   appear in one and are abstracted in the other); the remaining audit rows; the
   search for the header row.
3. Theorems: `NoFalseTheft` and `StoreIsLive` for tabs that share nothing;
   `CorrectionsKept` and `OneBatch` for two transactions of one merchant, of which
   one is in hand twice.
