# Metron, specified

TLA+ models of the parts of Metron that keep state or compute money: what a
broker import does to the database, how the dated NAV series is written and
revised by several writers, how the nightly reconciliation records and closes
breaks, who may see what, what the caches may answer, and what the pure engines
(FIFO ledger, tax, performance, planning, live prices) make of a record. TLC
checks small instances; TLAPS proves the central properties for every instance.

All paths below are relative to the repository root. `PROJECT.json` holds, for
every definition, the lines it models, and for every hazard the line at which it
bites and the properties that cover it.

## 1. Inventory of the system

Metron is a multi-tenant portfolio service: a FastAPI application over
Postgres (SQLite on a laptop), a nightly job (`python -m api.maintenance
daily-refresh`, up to three fires an evening), a nightly reconciliation, a shadow
recompute, operator commands, an older file-based ingestion
(`portfolio_analytics/ingestion`), and a Next.js client. Several processes (API
workers, jobs, CLI) share only the database and one `diskcache` directory.
Sessions (`api/db/session.py`) run with autoflush off under READ COMMITTED: a
statement sees what is committed when it starts, ORM writes reach the database at
the flush, and only unique and foreign keys and the row locks of DELETE and UPDATE
order two transactions.

| Component | State | Operations | Hard part | What makes it correct | Modelled |
|---|---|---|---|---|---|
| Import bridge `api/services/persistence.py` | accounts, transactions, realized lots, positions, open lots, exclusion list | `persist_snapshot` from every connector | two imports at once, delete racing import, partial feeds, re-typed keys | nothing orphaned, lost, doubled, blanked or resurrected | partly |
| Settings routes `api/routers/portfolios.py` | exclusion column, account rows | delete, restore, create preferences | read-modify-write of one text column | a deleted account stays deleted | partly |
| NAV series `api/services/performance.py` | `nav_snapshots` | record, reconstruct, reconcile, repair | four writers of a row; prices that arrive late; flow windows of two kinds | look-ahead is stamped; flows explain moves; provisional rows restate to their own session | partly |
| Nightly refresh `api/maintenance.py` | none of its own | the order of the steps, the freshness gate, best effort | early fires, failing steps | a session is stamped with its own close | partly |
| Price cache `api/services/prices.py` | `price_bars` | refresh, backfill | late fund NAVs, two listings of a symbol | as-of reads | partly |
| Market data and FX `api/services/fx.py`, ... | `fx_rates`, `market_input_revisions` | refresh, backfill, windowed reads | what a correction overwrites, what a window hides | replaced values are logged; a window reads as the whole | partly |
| NAV revision log `api/db/models.py` | `nav_snapshot_revisions` | `before_flush` hook | two sessions overwriting one row | every served value is on record | modelled |
| Reconciliation `api/services/reconciliation.py` | breaks, fetch status | fetch, diff, persist, resolve, alert | outages, crash between alert and stamp, trade between fetch and diff | breaks open, close and alert when and only when they should | partly |
| Broker sync `api/services/broker_sync.py` | account stamps | fetch, import | no-op and raise conditions | as the import bridge | partly |
| Compute cache `api/services/compute_cache.py` | disk cache, locks | `cached`, fingerprint memo | lock expiry, changes the fingerprint misses | no stale value, one computation | modelled |
| Demo access `api/services/external_demo.py` | invites, sessions | mint, redeem, revoke, check | racing redemptions and revocations | a code makes one session; revoked is out | modelled |
| Identity and entitlements `api/services/identity.py`, `api/entitlements.py` | users, tenants | first sign-in, gates | first requests in parallel | one workspace per identity; nothing out of scope | modelled |
| FIFO ledger `portfolio_analytics/domain/ledger.py` | none | replay | splits, wash windows, missing history | agrees with a share-by-share reference | modelled |
| Tax arithmetic `portfolio_analytics/domain/tax.py`, ... | none | if-sold, year, export | terms, netting, picks | views agree with the ledger | modelled |
| Account-basis performance `portfolio_analytics/domain/account_performance.py` | account snapshots | observe, gate, roll up | missing observations, provisional ends | no wrong gain passes the gate | modelled |
| Snapshot gap backfill `api/services/snapshot_gap.py` | marked rows, stashes | plan, apply, undo | runs over the same rows, the job in between | nothing counted twice; an undo leaves no trace | modelled |
| Shadow recompute `api/services/shadow_recompute.py` | break rows | recompute, compare | late trades, missed nights | finds exactly the wrong rows | modelled |
| Intraday decomposition `api/services/intraday.py` | the delayed-quote artifact, leg splits | beat, today, movers, split | stale, faulty, lagging quotes | the views of one screen agree | modelled |
| Analytics reads, overview reads `api/services/analytics.py`, `glance.py` | none | valuation, lots, income, movers | several sources of one account | each account counted from one source | partly |
| Planning `api/services/cash_to_targets.py`, `deploy_cash.py`, `whatif_purchase.py` | plan targets | plan, rank, preview | limits and remainders | no limit passed; preview equals purchase | partly |
| Silver store and ingest `portfolio_analytics/ingestion` | JSON documents, lots cache | fetch, filter, merge, read back | failing sources, re-typed events, hand-over of an account | events once; last-good kept | modelled |
| Connectors, statement readers `portfolio_analytics/broker_io` | none | Flex, SnapTrade, CSV, OFX to one snapshot | three calls that fail apart, retries | what the reader shows is what the broker holds | partly |
| Database models and sessions `api/db` | tables, keys | flush, hooks, isolation | columns flushed one by one | (through the other components) | partly |
| Deploy scripts, web application | host and view state | | | | no |

Interactions: connectors return a `ConnectorSnapshot`; the import bridge alone
writes what they carry. `daily_refresh` calls broker sync (an import), then the
price cache, then the NAV writers, whose flush calls the revision hook.
Reconciliation calls the same fetch as broker sync but does not persist. Routes run
the same functions as the job, at any time, and read through the compute cache.
The backfill command rewrites rows the job also rewrites. The shadow recompute and
the performance page read the same rows by different computations.

## 2. Modules

State machines, with the module that instantiates each for TLC and the one that
holds its proofs:

| Module | Models | TLC | Proofs |
|---|---|---|---|
| `PersistSnapshot` | import bridge and settings, statement by statement | `MCPersistSnapshot` | `PersistSnapshotProofs` |
| `BrokerBook` | abstract: what an import, a delete, a restore promise | same | `PersistSnapshotProofs` (refinement) |
| `NavSeries` | the writers of `nav_snapshots`, the job, two buttons, the price cache | `MCNavSeries` | `NavSeriesProofs` |
| `NavRevisions` | sessions over snapshot rows and the revision hook | `MCNavRevisions` | `NavRevisionsProofs` |
| `ReconBreaks` | the nightly reconciliation of one portfolio | `MCReconBreaks` | `ReconBreaksProofs` |
| `ComputeCache` | requests, fingerprint, entries, locks with expiry | `MCComputeCache` | `ComputeCacheProofs` |
| `Entitlements`, `Access` | tiers and gates; requests, invites, sign-in | `MCAccess` | `AccessProofs` |
| `MarketInputs`, `Planning`, `Desk` | cached closes and rates with their log; plans; a book over both | `MCDesk` | `DeskProofs` |
| `GapPricing`, `SnapshotGap` | how a missed day is priced; plan, apply, undo | `MCSnapshotGap` | `SnapshotGapProofs` |
| `Ledger`, `TaxLens`, `AccountPerformance`, `Household` | the engines, and a household whose record they read | `MCHousehold` | |
| `Returns`, `BookReturns`, `ShadowRecompute` | performance reads; a book that trades; the nightly recompute | `MCShadowRecompute` | |
| `LivePrices`, `Glance` | quotes and their producer; rows, splits and the screen | `MCGlance` | |
| `Connectors`, `SilverStore`, `Feeds` | what brokers send; the store; one ingestion after another | `MCFeeds` | |

The pure modules (`Entitlements`, `Planning`, `GapPricing`, `Ledger`, `TaxLens`,
`AccountPerformance`, `Returns`, `Connectors`, `SilverStore`) have no variables of
their own; the state machine beside them in the table feeds them every record that
it can produce.

### PersistSnapshot

`rowId`, `owner`: the accounts table (0: no row; otherwise the number of the import
that made the row, so that a row created again is a different row). `facts`: rows that are
unioned (transactions, realized lots); `held`: rows that are replaced (positions,
open lots), each with the import that wrote it (`by`). `excluded`, `prefs`: the
preferences row. The remaining variables are one import's local state: what it read
(`excl`, `ids`, `vis`), what its flush will do (`add`, `swap`, `moved`, `doomed`).
`deleted`, `barred` and `stated` are observations.

One action per helper of `persist_snapshot`, in its order: `Begin` (exclusion list,
filter), `UpsertAccounts`, `CreateAccounts`, `InsertActivities`, `ReplacePositions`,
`ReplaceOpenLots` (each a DELETE in two steps: the statement's snapshot, then locks
and removal), `InsertRealizedLots`, `Commit` or `Abort`. `Abort` covers the unique
keys (`Clash`) and the foreign keys (`Vanished`); an import all of whose rows hang on
living accounts may commit although another of its accounts was deleted, as an
UPDATE is issued only for a changed column.

Abstractions. An activity is its `source_key`; the loop of `_insert_activities`
over an ordered list, where a key enters and a legacy key leaves `seen`, is stated as
what each position of the list finds there (`Upgrades`, `Discarded`, `Inserted`). A
snapshot states a key once (`ConstantsAssumption`): a repeated key is dropped by the
loop and changes nothing. The exclusion column is the set of pieces it splits
into, `KeyOf` and `Parts` say what joining and splitting makes of a key. The INSERTs
of several missing accounts are one step, so deadlocks between two imports that create
the same accounts in opposite orders (the database aborts one) are not modelled.
The securities upsert, cash, the sticky account columns and the sync stamps are left
out; account and security identity are values of `Accounts` and `Items`.

### BrokerBook

An import, a delete, a restore as one step each over live accounts, ledger and book.
`ImportsAtomically` is its step relation under the mapping that forgets row ids and
who wrote a row: run one at a time, the statement sequence implements the book.
Overlapped it does not: each DELETE removes what it sees, and the rows of both imports
may stay.

### NavSeries

A price is the day of the bar it was read from, a NAV the legs it sums (`qty`, the
stock's bar, the fund's bar): a row shows what it was valued from, and arithmetic
with prices, FX and tolerances disappears. `rows` is the table; `loaded` and
`pending` are what a writer read and computed, flushed column by column by `Commit`
(`Merged`), because SQLAlchemy updates only columns that changed. `todo` is the
list of steps a request has still to run, `asof` the date it was begun with.
`Recorded`, `ReconstructRows`, `ReconcileRows` are `record_snapshot`,
`reconstruct_snapshots` with `_reconstruct_nav_points`, and `reconcile_snapshots` with
`_restate_provisional`. `Published` is the freshness gate, `Skip` the best-effort
wrapper, `End` an early return (nothing priced, implausible jump), an exception or a
dead process. `LotSourced` chooses between broker lots and a replayed ledger. An account
that reports lots has no BUY or SELL rows, so `LiveFlow` (`_net_purchases`) is 0 for it
while the reconstruction counts its lots (`RebuiltFlow`). `AsOfBar` has both branches of
`_value_leg`: a past day without a cached close takes today's price, and so does the fund
when it is held without lots (`Placed`) and carried back; `Estimated` is the stamp such rows get.

Abstractions: one portfolio, one stock that trades and one fund held throughout (since a
lot of day 1, or as a position without lots), one share per lot; a trade's transaction and
lot carry the same date; the stamps of FX rates and of closes that are merely old; deposits (which
add valuation dates but no flow) and the per-account series are left out; a request does not run over
midnight; spine and fund publication are external, modelled from how the gate and
`_restate_provisional` use them.

### NavRevisions

`rows` are the snapshot tables of both grains by scope (kind, portfolio, account,
day), `revs` the log, `sess` the ORM sessions: what each loaded, what it will write
and, once its hook has run, the number it will give. `Upsert`, `Remove`,
`BeforeFlush` (the hook), `Commit`, `Abort` and `DeleteAccount` are the steps. A valuation is
one value: the hook skips a row whose only change is the estimate stamp, and that is
kept apart. `served` and `crossed` are observations.

### ReconBreaks

`theirs` and `ours` are the broker's and the database's book, `rows`, `alerted` and
`status` the two tables, the other variables the run under way. A run asks each
broker (`NotConnected`, `FetchFails`, `Fetch`), compares (`DiffSnapshot`), commits
(`PersistBreaks`: persist, resolve, status in one transaction) and alerts
(`NothingNew`, `SendAlert`, `SendFails`). `Die` may strike anywhere, also between the
delivery and the stamp. A good fetch lists every live account of its broker, but the
SnapTrade reader asks for holdings account by account and swallows a failed call: such an
account (`skipped`) stays in the snapshot without holdings, and the comparison, which does
not look at `holdings_complete_for`, reads it as sold out. Trades, syncs and wrong imports (`Corrupt`) run at any
moment, between fetch and comparison too; `Sync` also stands for the interactive import
that first connects a broker.

Abstractions: the job is the only writer of its tables, so that its transaction over them is one
step; an account is never deleted here; values beyond tolerance are different values; a status row's
age is counted in nights up to `StaleAfter` (two nights exceed the 36 hours of
`reconciliation_stale_hours`). The observe-only NAV comparison and the alert of each single fetch
failure change no state and are left out.

### ComputeCache

The data is the set of changes made to it; a fingerprint is the part a request can
see (`Visible`), a result the changes its computation read, statement by statement.
Entries and locks carry the ticks they have left; a lock does not say who holds it,
so that a computation which outlives its lock releases another's. Requests are killed
or raise anywhere.

### Access and Entitlements

A request is its headers (demo session, verified identity, tenant header) and a kind
of route; it passes the middlewares, is authorised against the database and handled.
Redemption, revocation and first sign-in are transactions of several statements under
READ COMMITTED; `claim` is the row lock of a redemption. `Entitlements` resolves tier,
pin, feed and retirement to the features a request sees. Signatures and claim parsing
are a verified identity or none.

### MarketInputs, Planning, Desk

`cache` holds a series per listing and per foreign currency, filled by `refresh` and
`backfill` jobs in sessions (select, flush; a bulk upsert logs and writes); `log` is
`market_input_revisions`. A symbol may be listed under several currencies. `Planning`
is the plan towards targets, the ranked plan under limits and the what-if, in whole
parts and whole money so that a quotient of the code stays the product it is compared
with. `Desk` puts a portfolio that buys over both.

### GapPricing and SnapshotGap

A price is the day of the close it was read from (0: estimated), with how it was
found; `GapPricing` is the decisions of the valuer and of the plan. `SnapshotGap` has
the rows of every account and of the portfolio (per series, a function on the days that
have one), a planned run, the two stashes a row may carry (`restate`: its value before a fund leg
was finalised; `rebase`: its flow before the gap ahead of it was filled; each with `kept`
and the gap it belongs to), the two transactions of an undo, and the nightly reconstruction
between any two of these steps. Any run may be planned over any rows, and any range undone.
`base` is what the job alone would have left. Two observations say where the code gives up a
promise, and a property that needs them says so. `crossed`: a stash no longer holds what the
tool met, because the job has rewritten a row the tool marked, stashed or planned from, or
because a later run that ends at the same row has overwritten its `backfill_rebase`
(`StashesOver`). `loose`: flows may not add up, because the job has filled a day of a gap that
a run left out, a plan was applied with a flow that `_settle_flows` overlooks (`Overlooked`),
or a run was undone in part, under a later one, or after `crossed`. A foreign listing
(`foreign`) without a close of its own on a US session carries its last one unflagged, as the
condition on the currency in `ListedPrice` has it.

### Ledger, TaxLens, AccountPerformance, Household

`Ledger` replays one (account, security) group with every type of transaction; its
reference relieves lots share by share. `Household` is a taxable account kept by the
ledger and a retirement account whose broker reports positions and closed lots; events
may be omitted or learnt late, syncs fail. All reads are operators of the
record: holdings, cash, realized gains, the tax tab, the 8949 export, the account-basis
periods and their gate. Numbers are exact and amounts in one currency; crypto is a
parameter.

### Returns, BookReturns, ShadowRecompute

A growth is a fraction, one security trades at its close, tolerances are zero. Rows are
recorded at night (or missed), trades may be entered late, one row may be wrong by
`Err`. The figures of the Performance page are read from rows or rebuilt from lots; the
shadow job pools the recorded trades of all accounts into one ledger, compares, and keeps break
rows. A trade of a lot-reporting account (`Brokers`) has no transaction row (`Stated` leaves it
out): neither a row's flow nor the shadow's ledger sees it. A night whose NAV jumps implausibly
is not recorded (`RecordedUnlessJump`).
Annualised figures and risk ratios are left out.

### LivePrices and Glance

The clock goes through pre-market, open and post-market; a beat publishes the delayed
quotes, whichever of them the producer gets wrong (`Faults`); the refresh button and
the nightly job write closes, rows and the split of the day. The screen is composed of
the same functions the routes call: live value, today's move and its parts, headline,
sparkline, movers, recap, estimate of a fund from its proxy.

### Connectors, SilverStore, Feeds

`Connectors` is what each source makes of a broker's words and calls, `SilverStore`
the ownership filter, the merge and what is read back, `Feeds` one ingestion after
another with the brokers' books moving between the calls: SnapTrade's three calls,
Flex with its retries, files (CSV and OFX, two sources), the hand-over of an account, a crash in the tax page's
cache. Records are of one security.

## 3. Runs

Twelve runs, all passing, each within five minutes with two workers.

| Run | Question | Bounds, and why they do |
|---|---|---|
| `imports` | what holds under any interleaving; does the sequence implement the book | two importers, one settings session, accounts flex (tenant-wide id) and csv (labelled), snapshots: rotation with a re-typed reinvestment, no lot detail, sold out, failed fetch, statement without holdings. Either two overlapping imports of one portfolio after the seed, or four in turn over two: every hazard listed is between two sessions |
| `nav_series` | look-ahead, flows, restatement, provisional rows | four days (sessions 1, 2, 4; 3 a weekend and month end), one lot bought and sold, fund one session behind and held with or without a lot, window 2, an account that reports lots; three fires, or one fire and one button at any moment; deferral, abort at any step, a failing reconcile and a failing reconstruction occur: a row can be recorded, restated and rebuilt in any order |
| `revisions` | is every served value on record | two sessions, a portfolio and an account row, two values, four commits of one row each: two sessions can overwrite each other twice |
| `recon` | recording, closing, stamping, staleness | one SnapTrade account whose holdings call may fail, Flex never connected, a book in cash or in shares, stale after two nights; complete, no bound on the length of a run, deadlock checked |
| `compute_cache` | stale answers, one computation, no hang | two requests (two reads and one), one change seen and one missed, every lifetime one tick; deadlock checked |
| `access` | codes, revocation, scope, workspaces | two workers, two identities of one address, one invite, two deployments (public beta; owner's build), six kinds of route, three requests; symmetric |
| `snapshot_gap` | double counting, honesty of estimates, undo | five days (3 without a session), two layouts of rows (one with a row behind two missing days, so that a flow is overlooked), four histories of purchases, two accounts and their portfolio, a share, a fund, a leg without closes, four markets (one with a foreign listing closed on a session), six option sets, ranges that share a row, two runs applied |
| `household` | sources, gates, tax views | a ledger account and a reported one, three events of which one hidden, three closes, a year end between them |
| `shadow` | figures and findings | a lot-reporting and two ledger accounts (interchangeable), four days (3 a weekend, 2 a month and year end), three trades, one wrong row, the recompute on day 4 |
| `desk` | windowed reads, plans, what-if, replaced values | three symbols, one with a stray listing, two sessions, one correction, two trades; `JobsTakeTurns` |
| `live` | agreement of one screen's views | two US and two foreign stocks (one without a rate), a fund with a proxy, two accounts, a weekend, one market move, two beats, one mover shown |
| `feeds` | events once, last good, reader equals book | three accounts, two days, five events, two ingestions; an account's feed hands over once |

Constants that bound a state space, and nothing else: `MaxImports`; `Last`, `Budgets`
(NavSeries); `MaxCommits`, `MaxBatch`; `MaxCompute`, `MaxCalls`; `MaxRequests`; `MaxRuns`;
`MaxEvents`, `MaxHidden`, `LastDay`; `MaxTrades`, `MaxWrong`, `JobDays`; `MaxDay`,
`MaxRevisions`, `Amounts`; `MaxMoves`, `MaxBeats`; `Happenings`. `Window` (7 in the code),
`Lag`, `FundLag`, `StaleAfter`, the TTLs and attempts are parameters of the code, small
here. A run whose bound ends its behaviours switches the deadlock check off.

What the runs show, in words:

* *imports.* An account deleted while an import is under way takes every row with it or
  the import fails (`NoOrphanRows`); no stated event is lost (`StatedIsStored`); a
  reinvestment is not counted a second time (`SharesCountedOnce`); rows vanish only by an
  import entitled to replace them (`LastGoodKept`); an import that begins after a delete does not
  bring the account back (`NoLaterResurrection`; one that began before may); one at a
  time, an import is one step of the book (`ImportsAtomically`).
* *nav_series.* A row that holds a price from after its day has `estimated_inputs` set,
  whoever wrote it last (`LookAheadIsStamped`); before the day of the last reconstruction
  that knew the lots, consecutive rows differ in position by exactly the flow, although a live
  row of a lot-reporting account records none (`FlowsExplainMoves`); a provisional row is the sum
  of its legs, one of them stale (`ProvisionalIsItsLegs`); a restatement makes a row final only
  at its own session's fund NAV (`RestatedAtOwnSession`). The first three are for a series only
  the job writes, the last for a fund at most one session behind.
* *revisions.* The log in the order of its numbers with the live row is what each day
  served, unless two sessions crossed on it or its account was deleted; number 1 is
  always the first value; nothing is logged that was never served (`HistoryIsServed`).
* *recon.* A break closes only with a fetch of its own broker (`ResolvedWithFetch`);
  divergences of a book that stands still all end up open and nothing else does, unless its
  holdings call fails again and again (`BreaksAreDivergences`: a break opened for an account that was
  not heard does not outlive its next complete check); a stamp is never of an earlier occurrence
  (`AlertStampIsTrue`); a broker never compared again becomes stale (`DeadBrokerEscalates`).
* *compute_cache.* No answer misses a change that its fingerprint sees and that was
  committed when the request began (`NoStaleAnswer`); one it does not see is missed no
  longer than an entry lives and is computed (`MissedChangesShowInTime`); one computation per key while
  none outlives the lock (`SingleFlight`); every call ends (`EveryCallEnds`).
* *access.* A code makes one session (`SingleUse`), none survives its invite
  (`RevokedIsOut`), answers stay in scope (`ServedWithinScope`), an identity has one
  workspace (`OneWorkspacePerIdentity`).
* *snapshot_gap.* Unless `loose`, flows of filled rows are counted once (their sum lies
  between the purchases and what the job alone would count), and guesses are marked
  (`FilledRowsAreHonest`); with every run undone, in any pieces and order, the rows are what the
  job alone would have left unless a stash was overwritten (`UndoLeavesNoTrace`).
* *household.* Lots go first in, first out, each account counted from one source
  (`HouseholdIsHeld`); the gate passes no wrong gain (`PeriodsReconcile`); tab, export
  and ledger agree (`TaxViewsAgree`).
* *shadow.* Every figure read from rows whose flows are complete, and every line rebuilt
  from lots, is the price return of what was held (`FiguresArePriceReturns`); on the days on
  which the recorded trades are the whole position, breaks open on exactly the wrong rows
  compared (`ShadowFindsWrongRows`).
* *desk.* A windowed read values as the wide one (`WindowReadAgrees`); a replaced close or
  rate is in the log (`ReplacedIsLogged`); plans pass no limit and leave no cash they
  could place (`PlansAreSound`); the preview is the book the purchase makes (`WhatIfIsTheBook`).
* *live.* Live value, day's move, headline and sparkline agree (`LiveViewsAgree`); the
  split is the move the rows then show and the estimate the value struck later
  (`SettlesAsShown`); movers are the largest (`LiveMoversAreLargest`).
* *feeds.* Events are kept once (`EventsKeptOnce`), an outage leaves the last good
  records (`OutageKeepsLastGood`), and after a quiet clean run the reader says what the
  brokers would (`ReaderIsTheBook`).

### Fairness

Two specifications state liveness. `ReconBreaks!FairSpec`: `WF(Begin)` and `SF(Night)`
(a timer starts the run, nights pass); `WF(Report)` (a process that is not killed
finishes); `SF` of asking, comparing, committing and sending: a process may die again
and again, but not each time before the same step. Nothing assumes that a broker ever
answers: `BreaksAreDivergences` is conditional on an account being checked again and
again, and `DeadBrokerEscalates` is about the broker that is not.
`ComputeCache!FairSpec`: `WF(Tick)` (time passes), `WF(Serve)` (a worker runs), and
`SF(Acquire)`: `diskcache.Lock` polls, and a poller is not unlucky for ever. The other runs
state safety only.

### Limits the code has

Each was met while modelling; a property that stops at one says so in its comment, and
`PROJECT.json` lists those that are hazards.

* Imports: two overlapping imports of one account may leave both sets of positions
  or lots; a user's label with a comma splits into keys that exclude other accounts; two
  settings requests lose one update of the exclusion column.
* NAV series: a live row of an account that reports lots has flow 0, so that until a reconstruction
  on a later day its purchase reads as a gain; a past day without a close, and a holding without
  lots, are valued at today's price (and stamped); the freshness gate covers the live record and not
  the reconstruction; a ledger-sourced purchase before a month end is in the flow of two rows; a row
  a button wrote on a day without a fire is never rebuilt; a button pressed while the job computes
  leaves columns of both; a fund two sessions behind is finalised at an intermediate NAV; a row
  recorded on a weekend stays provisional.
* Reconciliation: the swallowed holdings call of one account opens `missing_at_broker` breaks for
  all it holds and closes its others, until the next complete check; an alert that failed is sent
  only with the next new break; breaks of accounts no broker lists stay open.
* Account-basis performance: a split recorded in one account unsettles the household's
  periods although each account's reconcile (`RollupAgrees` excludes it).
* Gap backfill: a purchase on a filled day, another filled day behind it and then a row that was
  there counts twice: `_settle_flows` looks one day ahead, although its docstring says that such a
  flow is refused (`Overlooked`); so does the flow of a day of the gap outside the range which the
  job fills later, and one of a run that is undone after the job has rewritten its rows. A second
  run that ends at a row an earlier one rebased overwrites the stash (`apply_plan`,
  snapshot_gap.py:1312-1316): the flow first recorded is lost, whatever is undone later, although
  the module's docstring (:106) says that undo deletes exactly what was written. A foreign listing's
  carried close is unflagged (:391).
* Performance and shadow recompute: a purchase in a lot-reporting account is no flow of its
  live rows, and the figures read from them show it as a return; the shadow replays transaction
  rows only, so that a right book with such an account opens breaks, although
  shadow_recompute.py:48-55 says that such an account is replayed like every other. Both properties of the
  run `shadow` leave these days out.
* Live prices: a split is recorded under today's date whatever session the beat was of;
  the today view has no scale check; a proxy's own suspect flag is not looked at; an
  estimate is laid on an older NAV; a pre-open beat shows the last session's move.
* Feeds: the silver merge does not look at `holdings_complete_for`, so that an account whose
  holdings call failed is blanked; tranches are rebuilt per ticker and not per account;
  two equal fills of one day share a key; a lots cache torn by a crash loses lots older
  than the broker's window; two overlapping ingestions would lose one's updates (nothing
  in `src/` runs two).

## 4. Proofs

Eight modules hold proofs, for every value of the constants that satisfies the
assumptions of the modules (`ConstantsAssumption`, `ReconAssumption`, `NavAssumption`,
`ListingsAssumption`, `DeskAssumption`, `PlanAssumption` (what the planning routes validate: distinct targets,
no negative weight, limit or amount), `GapAssumption`, and in three modules `NoneAssumption`: the absent value
is no value of the kinds it stands beside; each evaluated by TLC in a run). Where a
theorem needs more than the modules assume, it says so in an `ASSUME` of its own, and
the run's instance asserts that same hypothesis, so that neither is empty:

| Hypothesis | Needed by | Without it |
|---|---|---|
| `NoLegacyStated` | `CountedOnce`, `StatedStays`, refinement | a snapshot with a genuine BUY of the day and amount of a reinvestment: the loop may take the one for the legacy form of the other |
| `LotsOfOneAccount` | `StatedStays`, refinement | equal account numbers at two brokers: a realized lot's key is taken as stored for both |
| `KeysWithoutComma` | `DeletedStayAway`, refinement | a label with a comma is joined into the exclusion column as two keys |
| `OneRequestAtATime` | `DeletedStayAway` | two settings requests: the later one writes back the column without the other's key |
| `NavsComeInTime`, `FiresSeePrices` | `RestatementsAreExact` | a fund two sessions late, or a swallowed refresh or probe failure: a row is finalised at an older NAV |
| `TradesAreSeen` | `FlowsExplainEveryMove` | a trade learnt a day late, or positions replayed from a ledger: a row keeps the position or the flow of before (dropping either conjunct, TLC finds the series) |
| `SharesCloseEverySession` | `EstimatesFlagged`, `FilledHonestly` | a dollar share without a close in some session: a live account row that valued it at an older one carries no flag, and neither does a sum over accounts (a foreign listing needs no hypothesis: what is promised of it is its last close) |
| `JobsTakeTurns` | `ReplacementsAreLogged` | another job's commit between a refresh's SELECT and its flush: the value it wrote is in no revision |

The argument of each, by module. None of the properties is inductive alone.

* `PersistSnapshotProofs`. `NoOrphans` rests on `RowsInv`: an import's number is no row's
  id, an uncommitted account has one creator and no committed row, and pending rows hang
  on resolved accounts; `Commit` needs all three. `LastGoodStays` adds `GoneInv` (what an
  import deletes lies in what its snapshot replaces); `DeletedStayAway` adds `BarredInv` (an open request
  has read the column as it stands; no import resolves an account on the list it read);
  `CountedOnce` adds `CountedInv` (nothing is flushed under a legacy key, nor beside it);
  `StatedStays` adds `StoredInv` and `IdsInv` (what an import has stated so far is stored, will be
  flushed or was re-keyed to something that is).
  `SerialImportsAreAtomic` (the refinement of `BrokerBook`): with one session at a time, what an import
  prepared at each step still agrees with the tables (`SerialInv`, of `OpenInv`, `ReadInv`,
  `Emptied`), so that its commit is the abstract `Import`, a settings commit `Delete` or `Restore`, and every other
  step a stutter.
* `NavSeriesProofs`. `TypeCorrect` needs `BarsInv` (no bar from after today) and
  `SessionInv` (a request is dated today or later and writes over rows that are still
  there). `LookAheadStamped` adds that stored and pending rows are honest (`LookInv`: a price
  from after the day is stamped, and the composition recorded with a row has none for the stock, so
  that a restatement, which stamps nothing, brings none in);
  `OpenRowsAreTheirLegs` that only the job holds rows while no button was pressed
  (`AloneInv`), or the column-wise flush would tear a row; `RestatementsAreExact` that once
  closes are published only a session's own NAV is open (`FundInv`), that a fire which will record was let
  through on its day (`FireInv`), and that the job's rows are no more than one NAV away (`NearInv`).
  `FlowsExplainEveryMove`: a flow over a window is the difference of the positions at its
  ends (`FlowIsChange`, by counting lots), and positions change only on days of trades. A row
  no reconstruction rebuilds is exact although its flow is 0, since it is on no day of a trade; a
  reconstruction that knew the lots leaves every row up to its day exact and covers each day of a trade, and
  what later steps do before that day keeps it so (`MovesInv`).
* `NavRevisionsProofs`. `HistoryServed`: numbers are at most the commits made (`CountInv`),
  a row shows what its scope served last (`RowsInv`), and what a session loaded was served
  when it loaded; its number is that value's place unless another session served in between
  (`LoadedInv`, `HookedInv`). A commit then puts the loaded value at its own place, or the
  scope is `crossed`.
* `ReconBreaksProofs`. `StampsAreTrue`: only rows carry stamps, and at the alert phase every break
  of the run is an open row (`StampInv`). `OnlyAFetchResolves`: the status the transaction will
  write has age 0 for the broker of every covered account (`CoveredIsFresh`). `CheckedBreaksHold`,
  the safety half of `BreaksAreDivergences`: what a run has found for a compared account is its
  divergences as long as its books stand still (`RunInv`), so the commit closes and opens exactly
  the difference, and from then on nothing but another comparison, which finds the same unless the
  holdings were left out, touches its rows (`Standing`). `AgesOnlyRise`, that of
  `DeadBrokerEscalates`: what a run has made of the status rows differs from them only in a row's
  birth and for brokers of which it has covered an account (`MarksInv`), so an age falls only with
  that broker's own comparison.
* `ComputeCacheProofs`. `NoAnswerIsStale`: an entry and a running computation hold what
  their key sees and more (`FreshInv`); `MissedChangesShow`: a change older than what a
  computation has run is read by it, one older than an entry's age is in it (`LateInv`); `OneFlight`: a computation
  that has not outlived its lock holds it for the ticks left (`FlightInv`). `WaitsExpire`, the safety
  half of `EveryCallEnds`: whoever waits has bounded the lock of its key, and nothing takes the bound
  off again (`WaitInv`); it shrinks with every tick, and grows only by a grant.
* `AccessProofs`. A code that is not used has no session and a redemption that claimed one
  holds its row (`CodeInv`: `CodesWorkOnce`, `RevocationEnds`); an address belongs to one
  user, an identity to the user of its address (`LandInv`: `OneWorkspace`); what a request holds at
  each phase stays in its scope (`ScopeInv`: `AnswersInScope`).
* `DeskProofs`. `WindowsAgree`: an anchored window has the newest row before any day it
  covers, listing by listing (`CacheInv`, `AnchorProperties`). `ReplacementsAreLogged`: what a job has logged or
  will log is what the cache holds until it writes (`JobInv`, `FreshInv`).
  `PreviewsAreTheBook`: nothing cached or pending is of a day to come (`BoundInv`), so a
  listing has one newest close that preview and page both take, and what is not held has cost
  nothing (`BookInv`, kept by every trade). The purchased book then differs from the book in one summand: `n`
  times the price more value and cost (`Purchase`, `SumPlusOne`), hence the same value,
  weights, sectors and yield (`PreviewIsPicture`, for every `n`, not only the run's). The
  lemmas about sums are those of `SnapshotGapProofs`, proved again here, as each
  component keeps its proofs in one module.
  `PlansHold`: both plans are folds, over the targets and over the ranking. A fold is a chain of
  plans, one per prefix (`FoldExists`, `TargetSteps`, `DeploySteps`: the function
  that the library's fold chooses exists), and what a step keeps holds along the chain
  (`PrefixInduction`). Along it (`TargetInv`, `DeployInv`): spent and left add up to the
  amount, what is later in the line is untouched, what was bought is within the room it had, and of
  what has had its turn no further share would be bought, with the cash and room left then or
  with less of either (`Full`; `SharesOnce`: a line bought takes every whole share that cash and
  room pay for). The book with the plan carried out has the plan's purchases as its one difference
  (`DoneBook`), so the limits kept in the plan are kept in that book, and asking again with the
  rest finds every line full (`TargetIdle`, `DeployIdle`). The ranking is an order of the
  candidates, whatever their scores and weights (`RankedIsSorted`: score, weight, ticker
  leave no tie).
* `SnapshotGapProofs`. `UndoRestores`: the rows the tool met can be read back from those it left
  (`View`: drop what a run inserted, take value and flow from the stashes where kept), and that view
  is what the job alone would have left (`BaseInv`). It needs that stashes and marks name runs that
  were applied over the day (`RowsInv`), that a pending plan rewrites nothing that it does not stash
  and inserts only days that are free (`PlanInv`), and that between the two transactions of an undo
  no stash of its range is left (`UndoInv`). All of it while the job has rewritten no row of the
  tool and no run has stashed over another (`~crossed`): from then on there is nothing that could be
  restored. With no run applied no mark and no stash is left, and the view is the row
  (`NothingLeft`). `EstimatesFlagged` is about the marks of what the tool inserts (`FlagInv`): in
  account rows every leg without a flag has its day's close, and the sum over accounts asks of a
  listing exactly its holders; stashed rows are late in the fund's leg alone; a pending plan
  proposes no unflagged guess, whether it restated an anchor, carried or interpolated
  (`PlannedHonest`). `FlowsConserved`: while no stash was overwritten and flows are not `loose`, the
  flows of a series add up to those of the rows the job alone would have left. `FlowInv` says more,
  since an undo may come at any time: over every set of days that an undo could cover (`Whole`: runs
  as a whole, and with a run the later ones it met), the sum of what would be left (`Undone`) is the
  sum of what is there (`Even`). A plan's flows and the rebased flow add up to the one recorded
  (`Conserving`; `SettledConserves` from the guards of `_settle_flows` and `Overlooked`), so an
  apply moves flows within one whole set (`ApplyFlows`), an undo gives them back (`RestoreFlows`,
  `DeleteFlows`), and the job changes both sums alike (`RebuildFlows`). Over the empty set that is
  the sum of the rows, over all days the sum of `View`. `FilledHonestly` joins this with
  `EstimatesFlagged` and with `BaseFlowInv`: without the tool, each row carries at least the
  purchases since the row before (`Abreast`), so the sum is no less than the purchases between any
  two rows. What is needed about sums is proved here, since the library's induction theorems take an
  operator: a sum is the number of pairs in a stack as high as each summand (`SumIsStack`, by a
  smallest counterexample), and splitting, adding and comparing sums (`SumSplit`, `SumPlus`,
  `SumUnion`, `SumPart`) follow from that or by induction over subsets (`SubsetInduction`).

Model-checked only, and why: liveness (`EveryCallEnds`, `BreaksAreDivergences` as a whole,
`DeadBrokerEscalates`: the prover has no fairness or ENABLED, so of each its safety half is proved
and that time passes and fetches come is not); properties of values that folds and recursive
functions compute (`HouseholdIsHeld`, `PeriodsReconcile`, `TaxViewsAgree`, `FiguresArePriceReturns`,
`ShadowFindsWrongRows`, `LiveViewsAgree`, `SettlesAsShown`, `LiveMoversAreLargest`,
`EventsKeptOnce`, `ReaderIsTheBook`: what a fold returns for every input needs an induction over
data, which the provers cannot take from a library theorem and which each would need by hand, as
`SumIsStack` does for sums and `FoldExists` for the plans of `Desk`); `OutageKeepsLastGood`, whose
merge is a fold in the model; and of `FilledRowsAreHonest` the states after the job has rewritten a
row of the tool and before such a run is undone (`crossed` and not `loose`), where the two sums
differ by what the job wrote.

What is next: `OutageKeepsLastGood`, whose merge is a fold along which the lemmas of `PlansHold`
would carry an invariant; then the ledger's folds, which `Household` and `ShadowRecompute`
rest on.

## 5. Not modelled

The per-account sibling of the NAV series and its FX and estimate stamps; the repair command
(its effect on the revision log is in `NavRevisions`); events, risk, attribution and
showcase steps of the job; the transport and text of statements (OFX and PDF parsing, number
formats, column guessing); risk ratios, annualisation and attribution (floating-point
statistics); theme and layout preferences; schema synchronisation; deploy scripts; the web
client. `PROJECT.json` gives the reason per component.
