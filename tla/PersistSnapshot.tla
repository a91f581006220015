--------------------------- MODULE PersistSnapshot ---------------------------
(***************************************************************************)
(* The import bridge: api/services/persistence.py, with the two settings   *)
(* routes that write what it reads (delete an account, restore one).       *)
(*                                                                         *)
(* Every import (Flex, SnapTrade, CSV, OFX, manual entry; interactive or   *)
(* nightly) is one database transaction that runs persist_snapshot.  The   *)
(* sessions of api/db/session.py have autoflush off and run READ           *)
(* COMMITTED, so an import is a sequence of statements that read what is   *)
(* committed at that moment, row locks taken by its DELETEs, and one       *)
(* flush at the commit in which the unique and foreign keys are enforced.  *)
(* Importers run imports, Editors run the settings routes, all of them     *)
(* interleave statement by statement.                                      *)
(***************************************************************************)
EXTENDS Integers, Sequences, FiniteSets

CONSTANTS
  Importers,   \* sessions that run persist_snapshot
  Editors,     \* sessions that run the settings routes
  Portfolios,
  Accounts,    \* account identities: (tenant, broker, external id, scope)
  Stable,      \* the identities whose source assigns tenant-wide ids (reparentable)
  Pieces,      \* what a comma-separated exclusion column is made of
  KeyOf,       \* account_key of an identity, a piece
  Parts,       \* the pieces that key becomes once it is joined and split on ","
  Keys,        \* source_key / lot_key values
  Legacy,      \* legacy_activity_key of a key, or NoKey
  NoKey,
  Items,       \* securities and lot labels
  Snapshots,   \* the snapshots a connector may return
  Seed,        \* what the database holds at the start, an import of its own
  MaxImports   \* bound: imports begun, the seed included

Fetched ==     \* ConnectorSnapshot, the fields persistence reads
  [portfolio : Portfolios,
   accounts  : SUBSET Accounts,
   acts      : [Accounts -> Seq(Keys)],
   realized  : [Accounts -> SUBSET Keys],
   holdings  : [Accounts -> SUBSET Items],
   lots      : [Accounts -> SUBSET Items],
   full      : BOOLEAN,           \* no error and sync_mode = FULL_REFRESH
   holdingsCompleteFor : SUBSET Accounts,
   lotsCompleteFor     : SUBSET Accounts]

ASSUME ConstantsAssumption ==
  /\ MaxImports \in Nat \ {0}
  /\ Stable \subseteq Accounts
  /\ KeyOf \in [Accounts -> Pieces]
  /\ Parts \in [Accounts -> SUBSET Pieces]
  /\ Legacy \in [Keys -> Keys \cup {NoKey}]
  /\ NoKey \notin Keys
  /\ \A k \in Keys : Legacy[k] \in Keys => Legacy[Legacy[k]] = NoKey   \* the key of a BUY
  /\ Snapshots \subseteq Fetched
  /\ Seed \in Fetched
  /\ \A sn \in Snapshots, a \in Accounts :     \* a key is stated once: see InsertActivities
       \A i, j \in DOMAIN sn.acts[a] : sn.acts[a][i] = sn.acts[a][j] => i = j

VARIABLES
  \* the database
  rowId,       \* accounts table: the id of each account's row, 0 if it has none
  owner,       \* accounts table: the portfolio_id of that row
  facts,       \* transactions and realized_lots: rows that are only unioned
  held,        \* positions and open_lots: rows that are replaced
  excluded,    \* investor_preferences.excluded_account_keys, as its pieces
  prefs,       \* portfolios that have an investor_preferences row
  \* one import per importer: what it was given, what it read, what it will flush
  pc, snap, num, excl, ids, moved, vis, add, swap, doomed,
  \* one request per editor
  open,        \* the requests an editor has begun and not committed
  \* bound and observation
  imports,     \* imports begun so far
  deleted,     \* <<p, a>>: the user deleted a from p and has not restored it
  barred,      \* per importer: what the user had deleted when its import began
  stated       \* facts a committed import carried, of rows that still exist

db      == <<rowId, owner, facts, held, excluded, prefs>>
private == <<snap, num, excl, ids, moved, vis, add, swap, doomed>>
ghosts  == <<deleted, stated>>
vars    == <<db, pc, private, open, imports, ghosts, barred>>

FactTables == {"transactions", "realized_lots"}
HeldTables == {"positions", "open_lots"}
Steps == {"idle", "accounts", "create", "transactions", "positions", "clear_positions",
          "open_lots", "clear_open_lots", "realized_lots", "commit"}
Ids == 0 .. MaxImports      \* a row's id is the number of the import that made it

Fact == [table : FactTables, acct : Accounts, id : Ids, key : Keys]
Held == [table : HeldTables, acct : Accounts, id : Ids, item : Items, by : Ids]

Edit == [editor : Editors, op : {"delete", "restore"}, portfolio : Portfolios,
         acct : Accounts, id : Ids, read : SUBSET Pieces, hadPrefs : BOOLEAN]

TypeOK ==
  /\ rowId \in [Accounts -> Ids]
  /\ owner \in [Accounts -> Portfolios]
  /\ facts \in SUBSET Fact
  /\ held \in SUBSET Held
  /\ excluded \in [Portfolios -> SUBSET Pieces]
  /\ prefs \in SUBSET Portfolios
  /\ pc \in [Importers -> Steps]
  /\ snap \in [Importers -> Fetched]
  /\ num \in [Importers -> Ids]
  /\ excl \in [Importers -> SUBSET Pieces]
  /\ ids \in [Importers -> [Accounts -> Ids]]
  /\ moved \in [Importers -> SUBSET Accounts]
  /\ vis \in [Importers -> SUBSET Held]
  /\ add \in [Importers -> SUBSET Fact]
  /\ swap \in [Importers -> SUBSET Fact]
  /\ doomed \in [Importers -> SUBSET Held]
  /\ open \in SUBSET Edit
  /\ imports \in Ids
  /\ deleted \in SUBSET (Portfolios \X Accounts)
  /\ barred \in [Importers -> SUBSET Accounts]
  /\ stated \in SUBSET Fact
------------------------------------------------------------------------------
(***************************************************************************)
(* Replacement scope of a snapshot.                                        *)
(***************************************************************************)

\* Mutant of Declared: the sync mode and the error flag are not looked at.
DeclaredAlways(sn, scope) == scope

\* A declaration counts only from a successful full refresh.
Declared(sn, scope) == IF sn.full THEN scope ELSE {}

Holding(sn)   == {a \in Accounts : sn.holdings[a] # {}}
HasLots(sn)   == {a \in Accounts : sn.lots[a] # {}}

HoldingsScope(sn) == Holding(sn) \cup Declared(sn, sn.holdingsCompleteFor)

\* Mutant of OpenLotsScope: the lots of an account stated empty are left in place.
OpenLotsScopeNoEmptied(sn) == HasLots(sn) \cup Declared(sn, sn.lotsCompleteFor)

\* An account stated empty has no lot either, whether or not lots were declared.
OpenLotsScope(sn) ==
  HasLots(sn) \cup Declared(sn, sn.lotsCompleteFor)
              \cup (Declared(sn, sn.holdingsCompleteFor) \ Holding(sn))

Scope(sn, table) == IF table = "positions" THEN HoldingsScope(sn) ELSE OpenLotsScope(sn)
Stated(sn, table, a) == IF table = "positions" THEN sn.holdings[a] ELSE sn.lots[a]

(***************************************************************************)
(* The union of one account's activities, read against the keys seen in    *)
(* the table.  The loop adds each key to seen as it goes and discards the  *)
(* legacy key of a reinvestment it re-types, so the order of the           *)
(* activities matters when a reinvestment and a BUY share a legacy key.    *)
(***************************************************************************)
ListedBefore(acts, i, key) == \E j \in 1 .. i - 1 : acts[j] = key

\* Mutant of Upgrades: no legacy key, every unseen reinvestment is a new row.
UpgradesNothing(seen, acts, i) == FALSE

\* The reinvestment at i is taken for one stored as a BUY under its legacy key.
Upgrades(seen, acts, i) ==
  /\ acts[i] \notin seen
  /\ Legacy[acts[i]] # NoKey
  /\ Legacy[acts[i]] \in seen \/ ListedBefore(acts, i, Legacy[acts[i]])

\* A key the loop no longer finds in seen: an earlier upgrade discarded it.
Discarded(seen, acts, i) ==
  \E j \in 1 .. i - 1 : Upgrades(seen, acts, j) /\ Legacy[acts[j]] = acts[i]

Inserted(seen, acts, i) ==
  /\ acts[i] \in seen => Discarded(seen, acts, i)
  /\ ~Upgrades(seen, acts, i)

InsertedKeys(seen, acts) == {acts[i] : i \in {j \in DOMAIN acts : Inserted(seen, acts, j)}}

\* _retype_legacy_reinvestment finds the row only if it is stored, not if the
\* legacy key is one this batch has just added.
RetypedKeys(seen, acts) ==
  {acts[i] : i \in {j \in DOMAIN acts : /\ Upgrades(seen, acts, j)
                                        /\ Legacy[acts[j]] \in seen}}

Before(f) == [f EXCEPT !.key = Legacy[f.key]]     \* the row a retype rewrites
------------------------------------------------------------------------------
(***************************************************************************)
(* One import.                                                             *)
(***************************************************************************)
Row(a) == rowId[a] # 0
Current(r) == rowId[r.acct] = r.id      \* the account row r hangs on exists

Goto(s, from, to) == pc[s] = from /\ pc' = [pc EXCEPT ![s] = to]

KeptAll(s) == snap[s].accounts    \* mutant of Kept: excluded accounts are not dropped
Kept(s) == {a \in snap[s].accounts : KeyOf[a] \notin excl[s]}
Resolved(s) == {a \in Accounts : ids[s][a] # 0}
Fresh(s) == {a \in Resolved(s) : ids[s][a] = num[s]}   \* created, not yet committed
Scoped(s, table) == Resolved(s) \cap Scope(snap[s], table)

\* persist_snapshot starts: the exclusion list is read, accounts on it are dropped.
Begin(s, sn) ==
  /\ Goto(s, "idle", "accounts")
  /\ imports < MaxImports
  /\ imports' = imports + 1
  /\ snap' = [snap EXCEPT ![s] = sn]
  /\ num' = [num EXCEPT ![s] = imports + 1]
  /\ excl' = [excl EXCEPT ![s] = excluded[sn.portfolio]]
  /\ barred' = [barred EXCEPT ![s] = {a \in Accounts : <<sn.portfolio, a>> \in deleted}]
  /\ UNCHANGED <<db, ids, moved, vis, add, swap, doomed, open, ghosts>>

\* _upsert_accounts, the SELECTs: which rows exist, which of them to reparent.
UpsertAccounts(s) ==
  /\ Goto(s, "accounts", "create")
  /\ ids' = [ids EXCEPT ![s] = [a \in Accounts |-> IF a \in Kept(s) THEN rowId[a] ELSE 0]]
  /\ moved' = [moved EXCEPT ![s] = {a \in Kept(s) \cap Stable :
                                      /\ Row(a)
                                      /\ owner[a] # snap[s].portfolio}]
  /\ UNCHANGED <<db, snap, num, excl, vis, add, swap, doomed, open, imports, ghosts, barred>>

\* The INSERTs of the missing ones.  The unique identity makes an INSERT wait for
\* a session that holds an uncommitted row of it, and fail if that one committed.
Missing(s) == {a \in Kept(s) : ids[s][a] = 0}

CreateAccounts(s) ==
  /\ Goto(s, "create", "transactions")
  /\ \A a \in Missing(s) : ~Row(a) /\ \A t \in Importers \ {s} : a \notin Fresh(t)
  /\ ids' = [ids EXCEPT ![s] = [a \in Accounts |->
                                  IF a \in Missing(s) THEN num[s] ELSE ids[s][a]]]
  /\ UNCHANGED <<db, snap, num, excl, moved, vis, add, swap, doomed, open, imports, ghosts, barred>>

\* What the snapshot says of the accounts the import resolved, as rows of a table.
Reported(s, table) ==
  {f \in Fact : /\ f.table = table
                /\ f.acct \in Resolved(s) /\ f.id = ids[s][f.acct]
                /\ \/ table = "transactions"
                      /\ \E i \in DOMAIN snap[s].acts[f.acct] : snap[s].acts[f.acct][i] = f.key
                   \/ table = "realized_lots" /\ f.key \in snap[s].realized[f.acct]}

\* Mutant of Seen: the keys of every account count as this account's.
SeenAnywhere(s, a) == {f.key : f \in {g \in facts : g.table = "transactions"}}

\* _insert_activities: the keys in the table now decide what is inserted, what re-typed.
Seen(s, a) ==
  {f.key : f \in {g \in facts : /\ g.table = "transactions"
                                /\ g.acct = a
                                /\ g.id = ids[s][a]}}

InsertActivities(s) ==
  /\ Goto(s, "transactions", "positions")
  /\ add' = [add EXCEPT ![s] =
       {f \in Reported(s, "transactions") :
          f.key \in InsertedKeys(Seen(s, f.acct), snap[s].acts[f.acct])}]
  /\ swap' = [swap EXCEPT ![s] =
       {f \in Reported(s, "transactions") :
          f.key \in RetypedKeys(Seen(s, f.acct), snap[s].acts[f.acct])}]
  /\ UNCHANGED <<db, snap, num, excl, ids, moved, vis, doomed, open, imports, ghosts, barred>>

\* _replace_positions and _replace_open_lots: a DELETE sees the rows committed
\* when it starts, waits for the sessions that hold locks on them, and removes
\* those that are still there.  The new rows are flushed at the commit.
ClearStep(table) == IF table = "positions" THEN "clear_positions" ELSE "clear_open_lots"
AfterClear(table) == IF table = "positions" THEN "open_lots" ELSE "realized_lots"

StartDelete(s, table) ==
  /\ Goto(s, table, ClearStep(table))
  /\ vis' = [vis EXCEPT ![s] = {r \in held : /\ r.table = table
                                             /\ r.acct \in Scoped(s, table)
                                             /\ r.id = ids[s][r.acct]}]
  /\ UNCHANGED <<db, snap, num, excl, ids, moved, add, swap, doomed, open, imports, ghosts, barred>>

FinishDelete(s, table) ==
  /\ Goto(s, ClearStep(table), AfterClear(table))
  /\ \A t \in Importers \ {s} : doomed[t] \cap vis[s] = {}
  /\ doomed' = [doomed EXCEPT ![s] = @ \cup (vis[s] \cap held)]
  /\ vis' = [vis EXCEPT ![s] = {}]
  /\ UNCHANGED <<db, snap, num, excl, ids, moved, add, swap, open, imports, ghosts, barred>>

ReplacePositions(s) == StartDelete(s, "positions") \/ FinishDelete(s, "positions")
ReplaceOpenLots(s)  == StartDelete(s, "open_lots") \/ FinishDelete(s, "open_lots")

\* _insert_realized_lots: a lot already stored anywhere in the tenant is skipped.
InsertRealizedLots(s) ==
  /\ Goto(s, "realized_lots", "commit")
  /\ add' = [add EXCEPT ![s] = @ \cup
       {f \in Reported(s, "realized_lots") :
          ~\E g \in facts : g.table = "realized_lots" /\ g.key = f.key}]
  /\ UNCHANGED <<db, snap, num, excl, ids, moved, vis, swap, doomed, open, imports, ghosts, barred>>

\* The flush.  An account deleted since it was read takes no row: an INSERT that
\* names it breaks the foreign key, an UPDATE of it matches no row and raises; an
\* import with neither (no row for it, no changed column) commits.
NewHeld(s) ==
  {r \in Held : /\ r.acct \in Resolved(s) /\ r.id = ids[s][r.acct]
                /\ r.item \in Stated(snap[s], r.table, r.acct)
                /\ r.by = num[s]}

VanishedNever(s) == {}     \* mutant of Vanished: no foreign key from child rows
Vanished(s) == {a \in Resolved(s) \ Fresh(s) : rowId[a] # ids[s][a]}
Written(s) == {r.acct : r \in add[s] \cup swap[s]} \cup {r.acct : r \in NewHeld(s)}

SameKey(f, g) ==
  IF f.table = "realized_lots" THEN g.table = f.table /\ g.key = f.key ELSE f = g

\* A unique constraint a concurrent import has made this one break.
Clash(s) ==
  \/ \E f \in add[s], g \in facts : SameKey(f, g)
  \/ \E f \in swap[s] : {f, Before(f)} \subseteq facts
  \/ \E r \in NewHeld(s), q \in held \ doomed[s] :
       /\ r.table = "positions"
       /\ [q EXCEPT !.by = r.by] = r

Closed(s) ==      \* the session is closed: nothing of the import is left in it
  /\ snap' = [snap EXCEPT ![s] = Seed]
  /\ num' = [num EXCEPT ![s] = 0]
  /\ excl' = [excl EXCEPT ![s] = {}]
  /\ ids' = [ids EXCEPT ![s] = [a \in Accounts |-> 0]]
  /\ moved' = [moved EXCEPT ![s] = {}]
  /\ vis' = [vis EXCEPT ![s] = {}]
  /\ add' = [add EXCEPT ![s] = {}]
  /\ swap' = [swap EXCEPT ![s] = {}]
  /\ doomed' = [doomed EXCEPT ![s] = {}]
  /\ barred' = [barred EXCEPT ![s] = {}]
  /\ UNCHANGED <<open, imports, deleted>>

Commit(s) ==
  /\ Goto(s, "commit", "idle")
  /\ ~Clash(s)
  /\ Vanished(s) \cap Written(s) = {}
  /\ rowId' = [a \in Accounts |-> IF a \in Fresh(s) THEN num[s] ELSE rowId[a]]
  /\ owner' = [a \in Accounts |-> IF a \in Fresh(s) \cup (moved[s] \ Vanished(s))
                                  THEN snap[s].portfolio ELSE owner[a]]
  /\ facts' = (facts \ {Before(f) : f \in swap[s]}) \cup swap[s] \cup add[s]
  /\ held' = (held \ doomed[s]) \cup NewHeld(s)
  /\ stated' = stated \cup {f \in Reported(s, "transactions") \cup Reported(s, "realized_lots") :
                                 f.acct \notin Vanished(s)}
  /\ UNCHANGED <<excluded, prefs>>
  /\ Closed(s)

\* The flush or an earlier INSERT failed: the routes answer 500, the nightly job
\* rolls back and goes on.
Abort(s) ==
  /\ \/ /\ Goto(s, "commit", "idle")
        /\ Clash(s) \/ Vanished(s) # {}
     \/ /\ Goto(s, "create", "idle")
        /\ \E a \in Missing(s) : Row(a)
  /\ UNCHANGED <<db, stated>>
  /\ Closed(s)
------------------------------------------------------------------------------
(***************************************************************************)
(* The settings routes: each reads the exclusion column and writes it back *)
(* whole at its commit.                                                    *)
(***************************************************************************)
Free(e) == ~\E r \in open : r.editor = e

Request(e, op, p, a) ==
  [editor |-> e, op |-> op, portfolio |-> p, acct |-> a, id |-> rowId[a],
   read |-> excluded[p], hadPrefs |-> p \in prefs]

BeginDelete(e, p, a) ==
  /\ Free(e)
  /\ Row(a) /\ owner[a] = p           \* _owned_account: 404 otherwise
  /\ open' = open \cup {Request(e, "delete", p, a)}
  /\ UNCHANGED <<db, pc, private, imports, ghosts, barred>>

BeginRestore(e, p, a) ==
  /\ Free(e)
  /\ KeyOf[a] \in excluded[p]                     \* 404 otherwise
  /\ open' = open \cup {Request(e, "restore", p, a)}
  /\ UNCHANGED <<db, pc, private, imports, ghosts, barred>>

\* An unchanged column is not written.
Rewritten(r, new) ==
  IF new = r.read THEN excluded ELSE [excluded EXCEPT ![r.portfolio] = new]

\* The rows go with the account row.  The DELETEs wait for an import that has
\* locked some of them; a concurrent creation of the preferences row fails one.
CommitDelete(r) ==
  /\ r.op = "delete"
  /\ r.hadPrefs \/ r.portfolio \notin prefs
  /\ \A s \in Importers : \A h \in doomed[s] : ~(h.acct = r.acct /\ h.id = r.id)
  /\ excluded' = Rewritten(r, r.read \cup Parts[r.acct])
  /\ prefs' = prefs \cup {r.portfolio}
  /\ rowId' = [a \in Accounts |-> IF a = r.acct /\ rowId[a] = r.id THEN 0 ELSE rowId[a]]
  /\ facts' = {f \in facts : ~(f.acct = r.acct /\ f.id = r.id)}
  /\ held' = {h \in held : ~(h.acct = r.acct /\ h.id = r.id)}
  /\ open' = open \ {r}
  /\ deleted' = deleted \cup {<<r.portfolio, r.acct>>}
  /\ stated' = {f \in stated : ~(f.acct = r.acct /\ f.id = r.id)}
  /\ UNCHANGED <<owner, pc, private, imports, barred>>

CommitRestore(r) ==
  /\ r.op = "restore"
  /\ excluded' = Rewritten(r, r.read \ {KeyOf[r.acct]})
  /\ open' = open \ {r}
  /\ deleted' = {d \in deleted : ~(d[1] = r.portfolio /\ KeyOf[d[2]] = KeyOf[r.acct])}
  /\ UNCHANGED <<rowId, owner, facts, held, prefs, pc, private, imports, stated, barred>>

\* Any other settings write creates the preferences row as well.
SavePreferences(p) ==
  /\ p \notin prefs
  /\ prefs' = prefs \cup {p}
  /\ UNCHANGED <<rowId, owner, facts, held, excluded, pc, private, open, imports, ghosts, barred>>

FailDelete(r) ==
  /\ r.op = "delete"
  /\ ~r.hadPrefs /\ r.portfolio \in prefs
  /\ open' = open \ {r}
  /\ UNCHANGED <<db, pc, private, imports, ghosts, barred>>
------------------------------------------------------------------------------
Init ==
  /\ rowId = [a \in Accounts |-> IF a \in Seed.accounts THEN 1 ELSE 0]
  /\ owner = [a \in Accounts |-> Seed.portfolio]
  /\ facts = {f \in Fact : /\ f.table = "transactions"
                           /\ f.acct \in Seed.accounts /\ f.id = 1
                           /\ \E i \in DOMAIN Seed.acts[f.acct] : Seed.acts[f.acct][i] = f.key}
  /\ held = {r \in Held : /\ r.acct \in Seed.accounts /\ r.id = 1 /\ r.by = 1
                          /\ r.item \in Stated(Seed, r.table, r.acct)}
  /\ excluded = [p \in Portfolios |-> {}]
  /\ prefs = {}
  /\ pc = [s \in Importers |-> "idle"]
  /\ snap = [s \in Importers |-> Seed]
  /\ num = [s \in Importers |-> 0]
  /\ excl = [s \in Importers |-> {}]
  /\ ids = [s \in Importers |-> [a \in Accounts |-> 0]]
  /\ moved = [s \in Importers |-> {}]
  /\ vis = [s \in Importers |-> {}]
  /\ add = [s \in Importers |-> {}]
  /\ swap = [s \in Importers |-> {}]
  /\ doomed = [s \in Importers |-> {}]
  /\ open = {}
  /\ imports = 1
  /\ deleted = {}
  /\ barred = [s \in Importers |-> {}]
  /\ stated = facts

Import(s) ==
  \/ \E sn \in Snapshots : Begin(s, sn)
  \/ UpsertAccounts(s) \/ CreateAccounts(s)
  \/ InsertActivities(s)
  \/ ReplacePositions(s) \/ ReplaceOpenLots(s)
  \/ InsertRealizedLots(s)
  \/ Commit(s) \/ Abort(s)

Settings ==
  \/ \E e \in Editors, p \in Portfolios, a \in Accounts : BeginDelete(e, p, a) \/ BeginRestore(e, p, a)
  \/ \E p \in Portfolios : SavePreferences(p)
  \/ \E r \in open : CommitDelete(r) \/ CommitRestore(r) \/ FailDelete(r)

Next == Settings \/ \E s \in Importers : Import(s)

Spec == Init /\ [][Next]_vars

\* One user, and no job running: at most one import or settings request is under way.
OneAtATime ==
  /\ \A s, t \in Importers : pc[s] # "idle" /\ pc[t] # "idle" => s = t
  /\ \A q, r \in open : q = r
  /\ open # {} => \A s \in Importers : pc[s] = "idle"

SerialSpec == Init /\ [][Next /\ OneAtATime']_vars
------------------------------------------------------------------------------
(***************************************************************************)
(* What feeds and users keep to, where a property needs it.                *)
(***************************************************************************)

\* No feed has a genuine BUY of the key a reinvestment was once stored under.
NoLegacyStated ==
  /\ \A sn \in Snapshots, a \in Accounts, k \in Keys : \A i \in DOMAIN sn.acts[a] : Legacy[k] # sn.acts[a][i]
  /\ \A a \in Accounts : \A i, j \in DOMAIN Seed.acts[a] : Legacy[Seed.acts[a][i]] # Seed.acts[a][j]

\* The key of a closed lot names the number of its account.
LotsOfOneAccount ==
  \A sn, tn \in Snapshots, a, b \in Accounts :
    sn.realized[a] \cap tn.realized[b] # {} => a = b

\* Account keys have no comma: joining and splitting the exclusion column gives them back.
KeysWithoutComma == \A a \in Accounts : Parts[a] = {KeyOf[a]}

\* The exclusion column is read and written back by one session at a time.
OneRequestAtATime == \A e, f \in Editors : e = f
------------------------------------------------------------------------------
(***************************************************************************)
(* Properties.                                                             *)
(***************************************************************************)

\* No child row survives or lands without its account row: a delete that overtakes
\* an import between its account SELECT and its flush leaves nothing behind.
NoOrphanRows == \A r \in facts \cup held : Current(r)

\* The strengthening NoOrphanRows needs.  Account ids are fresh, an uncommitted
\* account row is its creator's alone and no committed row has its identity, and
\* what an import will flush hangs on the account rows it resolved.
Active(s) == pc[s] # "idle"

FreshIds ==
  /\ \A a \in Accounts : rowId[a] <= imports
  /\ \A s \in Importers : Active(s) => /\ num[s] # 0 /\ num[s] <= imports
                                       /\ \A a \in Accounts : rowId[a] # num[s]
  /\ \A s, t \in Importers : Active(s) /\ Active(t) /\ s # t => num[s] # num[t]

OneCreator ==
  \A s \in Importers : \A a \in Fresh(s) :
    rowId[a] = 0 /\ \A t \in Importers \ {s} : a \notin Fresh(t)

PendingResolved ==
  \A s \in Importers :
    /\ pc[s] \in {"idle", "accounts"} => Resolved(s) = {}
    /\ pc[s] = "create" => Fresh(s) = {}
    /\ pc[s] \in {"idle", "accounts", "create", "transactions"} => add[s] \cup swap[s] = {}
    /\ \A f \in add[s] \cup swap[s] : f.acct \in Resolved(s) /\ f.id = ids[s][f.acct]

RowsInv ==
  /\ FreshIds /\ OneCreator /\ PendingResolved
  /\ NoOrphanRows
  /\ \A r \in facts \cup held : r.id # 0

\* Every transaction and realized lot a committed import carried is in the table,
\* under its own key or re-typed to the reinvestment it was, whatever imports and
\* deletes ran meanwhile: the union by source_key loses nothing.
StatedIsStored ==
  \A f \in stated :
    \/ f \in facts
    \/ \E k \in Keys : Legacy[k] = f.key /\ [f EXCEPT !.key = k] \in facts

\* A reinvestment stored as a BUY before it had a type of its own is re-typed, never
\* stored a second time (the double count legacy_activity_key exists to prevent),
\* also when two imports meet it at once.  For feeds with no genuine BUY of that key.
SharesCountedOnce ==
  \A f \in facts : f.table = "transactions" /\ Legacy[f.key] # NoKey => Before(f) \notin facts

\* Rows of an account that stays are removed only by an import whose snapshot has a
\* row for it or, as a successful full refresh, declares it complete: a failed fetch
\* or a feed without lot detail never blanks last-good rows.
LastGoodKept ==
  [][\A r \in held \ held' : rowId'[r.acct] = r.id =>
       \E s \in Importers :
         /\ pc[s] = "commit" /\ pc'[s] = "idle"
         /\ \/ Stated(snap[s], r.table, r.acct) # {}
            \/ /\ snap[s].full
               /\ r.acct \in snap[s].holdingsCompleteFor \cup snap[s].lotsCompleteFor]_vars

\* An account row appears only from an import that began while the account was not
\* on the user's deleted list: an import that begins after a delete has answered
\* never brings the account back, whatever other imports are under way.
NoLaterResurrection ==
  [][\A a \in Accounts : ~Row(a) /\ Row(a)' =>
       \E s \in Importers : pc[s] = "commit" /\ a \in Fresh(s) \ barred[s]]_vars

\* The broker book an implementation state stands for.  Run one at a time, the statement
\* sequences are atomic imports, deletes and restores of it, or change nothing.
Book == INSTANCE BrokerBook WITH
  live   <- {a \in Accounts : Row(a)},
  owner  <- owner,
  ledger <- {[table |-> f.table, acct |-> f.acct, key |-> f.key] : f \in facts},
  book   <- {[table |-> r.table, acct |-> r.acct, item |-> r.item] : r \in held}
==============================================================================
