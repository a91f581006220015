------------------------ MODULE PersistSnapshotProofs ------------------------
(***************************************************************************)
(* The import bridge for every set of sessions, accounts, keys and         *)
(* snapshots: its types, the integrity of its child rows, what an import   *)
(* may remove or bring back, and that the union of the ledger loses        *)
(* nothing and counts nothing twice; then, of sessions that take turns,    *)
(* that each import is one step of the abstract book.                      *)
(***************************************************************************)
EXTENDS PersistSnapshot, TLAPS

USE DEF Ids

\* What a snapshot reports are fact rows.
LEMMA ReportedType == \A s, t : Reported(s, t) \subseteq Fact
  BY DEF Reported

\* What the flush writes are held rows.
LEMMA NewHeldType == \A s : NewHeld(s) \subseteq Held
  BY DEF NewHeld

\* The seed and every snapshot are what a connector may return.
LEMMA SeedType == Seed \in Fetched /\ Snapshots \subseteq Fetched
  BY ConstantsAssumption

\* The initial database is well typed.
LEMMA InitType == Init => TypeOK
  <1> SUFFICES ASSUME Init PROVE TypeOK
    OBVIOUS
  <1> USE ConstantsAssumption
  <1>1. Seed.portfolio \in Portfolios
    BY DEF Fetched
  <1>2. rowId \in [Accounts -> Ids] /\ owner \in [Accounts -> Portfolios]
    BY <1>1 DEF Init
  <1>3. facts \in SUBSET Fact /\ held \in SUBSET Held /\ stated \in SUBSET Fact
    BY DEF Init
  <1>4. /\ excluded \in [Portfolios -> SUBSET Pieces] /\ prefs \in SUBSET Portfolios
        /\ open \in SUBSET Edit /\ imports \in Ids
        /\ deleted \in SUBSET (Portfolios \X Accounts)
    BY DEF Init
  <1>5. /\ pc \in [Importers -> Steps] /\ snap \in [Importers -> Fetched]
        /\ num \in [Importers -> Ids] /\ excl \in [Importers -> SUBSET Pieces]
        /\ ids \in [Importers -> [Accounts -> Ids]]
    BY DEF Init, Steps
  <1>6. /\ moved \in [Importers -> SUBSET Accounts] /\ vis \in [Importers -> SUBSET Held]
        /\ add \in [Importers -> SUBSET Fact] /\ swap \in [Importers -> SUBSET Fact]
        /\ doomed \in [Importers -> SUBSET Held] /\ barred \in [Importers -> SUBSET Accounts]
    BY DEF Init
  <1>7. QED
    BY <1>2, <1>3, <1>4, <1>5, <1>6 DEF TypeOK

\* Closing a session leaves every variable well typed.
LEMMA ClosedType ==
  ASSUME TypeOK, NEW s \in Importers, Closed(s)
  PROVE  /\ snap' \in [Importers -> Fetched] /\ num' \in [Importers -> Ids]
         /\ excl' \in [Importers -> SUBSET Pieces]
         /\ ids' \in [Importers -> [Accounts -> Ids]]
         /\ moved' \in [Importers -> SUBSET Accounts] /\ vis' \in [Importers -> SUBSET Held]
         /\ add' \in [Importers -> SUBSET Fact] /\ swap' \in [Importers -> SUBSET Fact]
         /\ doomed' \in [Importers -> SUBSET Held]
         /\ barred' \in [Importers -> SUBSET Accounts]
         /\ open' \in SUBSET Edit /\ imports' \in Ids
         /\ deleted' \in SUBSET (Portfolios \X Accounts)
  <1>1. [a \in Accounts |-> 0] \in [Accounts -> Ids]
    BY ConstantsAssumption
  <1>2. ids' \in [Importers -> [Accounts -> Ids]]
    BY <1>1 DEF Closed, TypeOK
  <1>3. snap' \in [Importers -> Fetched]
    BY SeedType DEF Closed, TypeOK
  <1>4. num' \in [Importers -> Ids]
    BY ConstantsAssumption DEF Closed, TypeOK
  <1>5. /\ excl' \in [Importers -> SUBSET Pieces] /\ moved' \in [Importers -> SUBSET Accounts]
        /\ barred' \in [Importers -> SUBSET Accounts]
    BY DEF Closed, TypeOK
  <1>6. /\ vis' \in [Importers -> SUBSET Held] /\ doomed' \in [Importers -> SUBSET Held]
        /\ add' \in [Importers -> SUBSET Fact] /\ swap' \in [Importers -> SUBSET Fact]
    BY DEF Closed, TypeOK
  <1>7. /\ open' \in SUBSET Edit /\ imports' \in Ids
        /\ deleted' \in SUBSET (Portfolios \X Accounts)
    BY DEF Closed, TypeOK
  <1>8. QED
    BY <1>2, <1>3, <1>4, <1>5, <1>6, <1>7

\* Every step keeps the types.
LEMMA StepType == TypeOK /\ [Next]_vars => TypeOK'
  <1> SUFFICES ASSUME TypeOK, [Next]_vars PROVE TypeOK'
    OBVIOUS
  <1> USE DEF db, private, ghosts
  <1>1. ASSUME NEW s \in Importers, NEW sn \in Snapshots, Begin(s, sn) PROVE TypeOK'
    <2>1. sn \in Fetched /\ sn.portfolio \in Portfolios
      BY SeedType DEF Fetched
    <2>2. imports + 1 \in Ids
      BY <1>1, ConstantsAssumption DEF Begin, TypeOK
    <2>3. excluded[sn.portfolio] \in SUBSET Pieces
      BY <2>1 DEF TypeOK
    <2>4. QED
      BY <1>1, <2>1, <2>2, <2>3 DEF Begin, Goto, TypeOK, Steps
  <1>2. ASSUME NEW s \in Importers, UpsertAccounts(s) PROVE TypeOK'
    <2>1. [a \in Accounts |-> IF a \in Kept(s) THEN rowId[a] ELSE 0] \in [Accounts -> Ids]
      BY ConstantsAssumption DEF TypeOK
    <2>2. {a \in Kept(s) \cap Stable : /\ Row(a)
                                       /\ owner[a] # snap[s].portfolio}
            \in SUBSET Accounts
      BY ConstantsAssumption
    <2>3. QED
      BY <1>2, <2>1, <2>2 DEF UpsertAccounts, Goto, TypeOK, Steps
  <1>3. ASSUME NEW s \in Importers, CreateAccounts(s) PROVE TypeOK'
    <2>1. [a \in Accounts |-> IF a \in Missing(s) THEN num[s] ELSE ids[s][a]] \in [Accounts -> Ids]
      BY DEF TypeOK
    <2>2. QED
      BY <1>3, <2>1 DEF CreateAccounts, Goto, TypeOK, Steps
  <1>4. ASSUME NEW s \in Importers, InsertActivities(s) PROVE TypeOK'
    BY <1>4, ReportedType DEF InsertActivities, Goto, TypeOK, Steps
  <1>5. ASSUME NEW s \in Importers, NEW t \in HeldTables, StartDelete(s, t) PROVE TypeOK'
    <2>1. ClearStep(t) \in Steps
      BY DEF ClearStep, Steps
    <2>2. QED
      BY <1>5, <2>1 DEF StartDelete, Goto, TypeOK
  <1>6. ASSUME NEW s \in Importers, NEW t \in HeldTables, FinishDelete(s, t) PROVE TypeOK'
    <2>1. AfterClear(t) \in Steps
      BY DEF AfterClear, Steps
    <2>2. QED
      BY <1>6, <2>1 DEF FinishDelete, Goto, TypeOK
  <1>7. ASSUME NEW s \in Importers, InsertRealizedLots(s) PROVE TypeOK'
    BY <1>7, ReportedType DEF InsertRealizedLots, Goto, TypeOK, Steps
  <1>8. ASSUME NEW s \in Importers, Commit(s) PROVE TypeOK'
    <2>1. rowId' \in [Accounts -> Ids] /\ owner' \in [Accounts -> Portfolios]
      <3>1. snap[s].portfolio \in Portfolios /\ num[s] \in Ids
        BY DEF TypeOK, Fetched
      <3>2. QED
        BY <1>8, <3>1 DEF Commit, TypeOK
    <2>2. facts' \in SUBSET Fact /\ held' \in SUBSET Held /\ stated' \in SUBSET Fact
      BY <1>8, ReportedType, NewHeldType DEF Commit, TypeOK
    <2>3. pc' \in [Importers -> Steps] /\ excluded' = excluded /\ prefs' = prefs
      BY <1>8 DEF Commit, Goto, TypeOK, Steps
    <2>4. QED
      BY <1>8, <2>1, <2>2, <2>3, ClosedType DEF Commit, TypeOK
  <1>9. ASSUME NEW s \in Importers, Abort(s) PROVE TypeOK'
    <2>1. pc' \in [Importers -> Steps] /\ UNCHANGED <<db, stated>> /\ Closed(s)
      BY <1>9 DEF Abort, Goto, TypeOK, Steps
    <2>2. QED
      BY <2>1, ClosedType DEF TypeOK
  <1>10. ASSUME NEW e \in Editors, NEW p \in Portfolios, NEW a \in Accounts,
                BeginDelete(e, p, a) \/ BeginRestore(e, p, a)
         PROVE TypeOK'
    <2>1. \A op \in {"delete", "restore"} : Request(e, op, p, a) \in Edit
      BY DEF Request, Edit, TypeOK
    <2>2. QED
      BY <1>10, <2>1 DEF BeginDelete, BeginRestore, TypeOK
  <1>11. ASSUME NEW p \in Portfolios, SavePreferences(p) PROVE TypeOK'
    BY <1>11 DEF SavePreferences, TypeOK
  <1>12. ASSUME NEW r \in open, CommitDelete(r) PROVE TypeOK'
    <2>1. r \in Edit /\ Parts[r.acct] \subseteq Pieces /\ r.acct \in Accounts
          /\ r.portfolio \in Portfolios
      BY ConstantsAssumption DEF TypeOK, Edit
    <2>2. excluded' \in [Portfolios -> SUBSET Pieces]
      BY <1>12, <2>1 DEF CommitDelete, Rewritten, TypeOK, Edit
    <2>3. rowId' \in [Accounts -> Ids]
      BY <1>12, <2>1, ConstantsAssumption DEF CommitDelete, TypeOK
    <2>4. /\ facts' \in SUBSET Fact /\ held' \in SUBSET Held /\ stated' \in SUBSET Fact
          /\ prefs' \in SUBSET Portfolios /\ open' \in SUBSET Edit
      BY <1>12, <2>1 DEF CommitDelete, TypeOK
    <2>5. deleted' \in SUBSET (Portfolios \X Accounts)
      BY <1>12, <2>1 DEF CommitDelete, TypeOK
    <2>6. QED
      BY <1>12, <2>2, <2>3, <2>4, <2>5 DEF CommitDelete, TypeOK
  <1>13. ASSUME NEW r \in open, CommitRestore(r) PROVE TypeOK'
    <2>1. excluded' \in [Portfolios -> SUBSET Pieces]
      BY <1>13 DEF CommitRestore, Rewritten, TypeOK, Edit
    <2>2. QED
      BY <1>13, <2>1 DEF CommitRestore, TypeOK
  <1>14. ASSUME NEW r \in open, FailDelete(r) PROVE TypeOK'
    BY <1>14 DEF FailDelete, TypeOK
  <1>15. CASE UNCHANGED vars
    BY <1>15 DEF vars, TypeOK
  <1>16. QED
    BY <1>1, <1>2, <1>3, <1>4, <1>5, <1>6, <1>7, <1>8, <1>9, <1>10, <1>11, <1>12, <1>13,
       <1>14, <1>15
       DEF Next, Settings, Import, ReplacePositions, ReplaceOpenLots, HeldTables

\* Every variable keeps its type, for every set of sessions, accounts and snapshots.
THEOREM TypeCorrect == Spec => []TypeOK
  <1>1. QED
    BY InitType, StepType, PTL DEF Spec
------------------------------------------------------------------------------
(***************************************************************************)
(* Child rows hang on an account row that exists.                          *)
(***************************************************************************)
\* At the start the only rows are the seed's.
LEMMA InitRows == Init => RowsInv
  <1> SUFFICES ASSUME Init PROVE RowsInv
    OBVIOUS
  <1>1. \A s \in Importers : Resolved(s) = {} /\ Fresh(s) = {}
    BY DEF Init, Resolved, Fresh
  <1>2. FreshIds
    BY DEF Init, FreshIds, Active
  <1>3. OneCreator /\ PendingResolved
    BY <1>1 DEF Init, OneCreator, PendingResolved
  <1>4. \A r \in facts \cup held : r.acct \in Seed.accounts /\ r.acct \in Accounts /\ r.id = 1
    BY DEF Init, Fact, Held
  <1>5. NoOrphanRows
    BY <1>4 DEF Init, NoOrphanRows, Current
  <1>6. QED
    BY <1>2, <1>3, <1>4, <1>5 DEF RowsInv

\* What a step keeps as long as it leaves the importers and the account rows alone.
LEMMA SameImporters ==
  ASSUME TypeOK, RowsInv, UNCHANGED <<rowId, pc, num, ids, add, swap, imports>>
  PROVE  FreshIds' /\ OneCreator' /\ PendingResolved'
  <1>1. \A s \in Importers : Resolved(s)' = Resolved(s) /\ Fresh(s)' = Fresh(s)
    BY DEF Resolved, Fresh
  <1>2. FreshIds'
    BY DEF RowsInv, FreshIds, Active
  <1>3. OneCreator' /\ PendingResolved'
    BY <1>1 DEF RowsInv, OneCreator, PendingResolved
  <1>4. QED
    BY <1>2, <1>3

\* A step that leaves accounts and child rows alone leaves them attached.
LEMMA SameRows ==
  ASSUME RowsInv, UNCHANGED <<rowId, facts, held>>
  PROVE  NoOrphanRows' /\ \A r \in (facts \cup held)' : r.id # 0
  BY DEF RowsInv, NoOrphanRows, Current

\* Closing a session returns its importer to the state of an idle one.
LEMMA ClosedImporter ==
  ASSUME TypeOK, NEW s \in Importers, Closed(s), pc' = [pc EXCEPT ![s] = "idle"]
  PROVE  /\ Resolved(s)' = {} /\ Fresh(s)' = {} /\ add'[s] = {} /\ swap'[s] = {}
         /\ ~Active(s)'
         /\ imports' = imports
         /\ \A t \in Importers \ {s} :
              /\ Resolved(t)' = Resolved(t) /\ Fresh(t)' = Fresh(t)
              /\ num'[t] = num[t] /\ ids'[t] = ids[t] /\ pc'[t] = pc[t]
              /\ add'[t] = add[t] /\ swap'[t] = swap[t]
              /\ Active(t)' = Active(t)
  <1>1. ids'[s] = [a \in Accounts |-> 0] /\ add'[s] = {} /\ swap'[s] = {} /\ pc'[s] = "idle"
    BY DEF Closed, TypeOK
  <1>2. \A t \in Importers \ {s} :
          /\ num'[t] = num[t] /\ ids'[t] = ids[t] /\ pc'[t] = pc[t]
          /\ add'[t] = add[t] /\ swap'[t] = swap[t]
    BY DEF Closed, TypeOK
  <1>3. Resolved(s)' = {} /\ Fresh(s)' = {} /\ ~Active(s)'
    BY <1>1 DEF Resolved, Fresh, Active
  <1>4. \A t \in Importers \ {s} :
          Resolved(t)' = Resolved(t) /\ Fresh(t)' = Fresh(t) /\ Active(t)' = Active(t)
    BY <1>2 DEF Resolved, Fresh, Active
  <1>5. imports' = imports
    BY DEF Closed
  <1>6. QED
    BY <1>1, <1>2, <1>3, <1>4, <1>5

\* A closing import leaves the others' account ids and pending rows as they were,
\* provided the account rows it committed are its own fresh ones.
LEMMA ClosedInv ==
  ASSUME TypeOK, RowsInv, NEW s \in Importers, Closed(s), pc' = [pc EXCEPT ![s] = "idle"],
         pc[s] # "idle",
         \A a \in Accounts : rowId'[a] = rowId[a] \/ (a \in Fresh(s) /\ rowId'[a] = num[s])
  PROVE  FreshIds' /\ OneCreator' /\ PendingResolved'
  <1>0. /\ Resolved(s)' = {} /\ Fresh(s)' = {} /\ add'[s] = {} /\ swap'[s] = {}
        /\ ~Active(s)' /\ imports' = imports /\ pc'[s] = "idle"
        /\ \A t \in Importers \ {s} :
             /\ Resolved(t)' = Resolved(t) /\ Fresh(t)' = Fresh(t)
             /\ num'[t] = num[t] /\ ids'[t] = ids[t] /\ pc'[t] = pc[t]
             /\ add'[t] = add[t] /\ swap'[t] = swap[t]
             /\ Active(t)' = Active(t)
    BY ClosedImporter DEF TypeOK
  <1>1. num[s] # 0 /\ num[s] <= imports /\ \A t \in Importers \ {s} : Active(t) => num[t] # num[s]
    BY DEF RowsInv, FreshIds, Active
  <1>2. FreshIds'
    <2>1. \A a \in Accounts : rowId'[a] <= imports'
      BY <1>0, <1>1 DEF RowsInv, FreshIds
    <2>2. ASSUME NEW t \in Importers, Active(t)'
          PROVE  /\ num'[t] # 0 /\ num'[t] <= imports'
                 /\ \A a \in Accounts : rowId'[a] # num'[t]
      <3>1. t # s /\ Active(t)
        BY <2>2, <1>0
      <3>2. QED
        BY <3>1, <1>0, <1>1 DEF RowsInv, FreshIds
    <2>3. \A t, u \in Importers : Active(t)' /\ Active(u)' /\ t # u => num'[t] # num'[u]
      <3>1. \A t \in Importers : Active(t)' => t # s /\ Active(t)
        BY <1>0
      <3>2. QED
        BY <3>1, <1>0 DEF RowsInv, FreshIds
    <2>4. QED
      BY <2>1, <2>2, <2>3 DEF FreshIds
  <1>3. OneCreator'
    <2>1. ASSUME NEW t \in Importers, NEW a \in Fresh(t)'
          PROVE  rowId'[a] = 0 /\ \A u \in Importers \ {t} : a \notin Fresh(u)'
      <3>1. t # s /\ a \in Fresh(t) /\ a \in Accounts
        BY <2>1, <1>0 DEF Fresh, Resolved
      <3>2. a \notin Fresh(s) /\ rowId[a] = 0 /\ \A u \in Importers \ {t} : a \notin Fresh(u)
        BY <3>1 DEF RowsInv, OneCreator
      <3>3. \A u \in Importers \ {t} : a \notin Fresh(u)'
        BY <3>2, <1>0
      <3>4. QED
        BY <3>1, <3>2, <3>3
    <2>2. QED
      BY <2>1 DEF OneCreator
  <1>4. PendingResolved'
    <2>1. ASSUME NEW t \in Importers
          PROVE  /\ pc'[t] \in {"idle", "accounts"} => Resolved(t)' = {}
                 /\ pc'[t] = "create" => Fresh(t)' = {}
                 /\ pc'[t] \in {"idle", "accounts", "create", "transactions"} =>
                      add'[t] \cup swap'[t] = {}
                 /\ \A f \in add'[t] \cup swap'[t] : f.acct \in Resolved(t)' /\ f.id = ids'[t][f.acct]
      <3>1. CASE t = s
        BY <3>1, <1>0
      <3>2. CASE t # s
        BY <3>2, <1>0 DEF RowsInv, PendingResolved
      <3>3. QED
        BY <3>1, <3>2
    <2>2. QED
      BY <2>1 DEF PendingResolved
  <1>5. QED
    BY <1>2, <1>3, <1>4

\* An import begins with a number no account row has.
LEMMA BeginRows ==
  ASSUME TypeOK, RowsInv, NEW s \in Importers, NEW sn \in Snapshots, Begin(s, sn)
  PROVE  RowsInv'
  <1>1. /\ pc[s] = "idle" /\ pc'[s] = "accounts" /\ num'[s] = imports + 1
        /\ imports' = imports + 1 /\ imports \in Nat
        /\ \A t \in Importers \ {s} : num'[t] = num[t] /\ pc'[t] = pc[t]
        /\ UNCHANGED <<rowId, facts, held, ids, add, swap>>
    BY DEF Begin, Goto, TypeOK, db, private
  <1>2. Resolved(s)' = {} /\ Fresh(s)' = {}
    BY <1>1 DEF RowsInv, PendingResolved, Resolved, Fresh
  <1>3. \A t \in Importers \ {s} :
          Resolved(t)' = Resolved(t) /\ Fresh(t)' = Fresh(t) /\ Active(t)' = Active(t)
    BY <1>1 DEF Resolved, Fresh, Active
  <1>4. FreshIds'
    <2>1. \A t \in Importers : num[t] \in Nat
      BY DEF TypeOK
    <2>2. \A a \in Accounts : rowId[a] \in Nat /\ rowId'[a] <= imports' /\ rowId'[a] # num'[s]
      BY <1>1 DEF TypeOK, RowsInv, FreshIds
    <2>3. \A t \in Importers \ {s} : Active(t)' =>
            /\ num'[t] # 0 /\ num'[t] <= imports /\ num'[t] # num'[s]
            /\ \A a \in Accounts : rowId'[a] # num'[t]
      BY <1>1, <1>3, <2>1 DEF RowsInv, FreshIds
    <2>4. \A t, u \in Importers \ {s} : Active(t)' /\ Active(u)' /\ t # u => num'[t] # num'[u]
      BY <1>1, <1>3 DEF RowsInv, FreshIds
    <2>5. \A t \in Importers : Active(t)' =>
            /\ num'[t] # 0 /\ num'[t] <= imports'
            /\ \A a \in Accounts : rowId'[a] # num'[t]
      BY <1>1, <2>1, <2>2, <2>3
    <2>6. \A t, u \in Importers : Active(t)' /\ Active(u)' /\ t # u => num'[t] # num'[u]
      BY <2>3, <2>4
    <2>7. QED
      BY <2>2, <2>5, <2>6 DEF FreshIds
  <1>5. OneCreator'
    BY <1>1, <1>2, <1>3 DEF RowsInv, OneCreator
  <1>6. PendingResolved'
    BY <1>1, <1>2, <1>3 DEF RowsInv, PendingResolved
  <1>7. QED
    BY <1>1, <1>4, <1>5, <1>6, SameRows DEF RowsInv

\* A step of importer s that only moves its counter and its own account ids or
\* pending rows: what there is to show about it concerns s alone.
LEMMA OwnStep ==
  ASSUME TypeOK, RowsInv, NEW s \in Importers, pc[s] # "idle", pc'[s] # "idle",
         UNCHANGED <<rowId, facts, held, num, imports>>,
         \A t \in Importers \ {s} : /\ ids'[t] = ids[t] /\ pc'[t] = pc[t]
                                    /\ add'[t] = add[t] /\ swap'[t] = swap[t],
         \A a \in Fresh(s)' : rowId[a] = 0 /\ \A t \in Importers \ {s} : a \notin Fresh(t),
         pc'[s] = "accounts" => Resolved(s)' = {},
         pc'[s] = "create" => Fresh(s)' = {},
         pc'[s] \in {"accounts", "create", "transactions"} => add'[s] \cup swap'[s] = {},
         \A f \in add'[s] \cup swap'[s] : f.acct \in Resolved(s)' /\ f.id = ids'[s][f.acct]
  PROVE  RowsInv'
  <1>1. \A t \in Importers \ {s} :
          Resolved(t)' = Resolved(t) /\ Fresh(t)' = Fresh(t)
    BY DEF Resolved, Fresh
  <1>2. \A t \in Importers : Active(t)' = Active(t)
    BY DEF Active
  <1>3. FreshIds'
    BY <1>2 DEF RowsInv, FreshIds
  <1>4. OneCreator'
    BY <1>1 DEF RowsInv, OneCreator
  <1>5. PendingResolved'
    BY <1>1 DEF RowsInv, PendingResolved
  <1>6. QED
    BY <1>3, <1>4, <1>5, SameRows DEF RowsInv

\* Reading the account rows resolves committed ones only.
LEMMA UpsertAccountsRows ==
  ASSUME TypeOK, RowsInv, NEW s \in Importers, UpsertAccounts(s)
  PROVE  RowsInv'
  <1>1. /\ pc[s] = "accounts" /\ pc'[s] = "create"
        /\ UNCHANGED <<rowId, facts, held, num, imports, add, swap>>
        /\ \A t \in Importers \ {s} : ids'[t] = ids[t] /\ pc'[t] = pc[t]
        /\ \A a \in Accounts : ids'[s][a] \in {0, rowId[a]}
    BY DEF UpsertAccounts, Goto, TypeOK, db
  <1>2. Fresh(s)' = {}
    <2>1. \A a \in Accounts : rowId[a] # num[s]
      BY <1>1 DEF RowsInv, FreshIds, Active
    <2>2. QED
      BY <1>1, <2>1 DEF Fresh, Resolved
  <1>3. add[s] \cup swap[s] = {}
    BY <1>1 DEF RowsInv, PendingResolved
  <1>4. QED
    BY <1>1, <1>2, <1>3, OwnStep

\* A created account row has no committed or uncommitted twin.
LEMMA CreateAccountsRows ==
  ASSUME TypeOK, RowsInv, NEW s \in Importers, CreateAccounts(s)
  PROVE  RowsInv'
  <1>1. /\ pc[s] = "create" /\ pc'[s] = "transactions"
        /\ UNCHANGED <<rowId, facts, held, num, imports, add, swap>>
        /\ \A t \in Importers \ {s} : ids'[t] = ids[t] /\ pc'[t] = pc[t]
        /\ \A a \in Accounts : ids'[s][a] = IF a \in Missing(s) THEN num[s] ELSE ids[s][a]
    BY DEF CreateAccounts, Goto, TypeOK, db
  <1>2. Fresh(s) = {}
    BY <1>1 DEF RowsInv, PendingResolved
  <1>3. \A a \in Fresh(s)' : a \in Missing(s)
    BY <1>1, <1>2 DEF Fresh, Resolved
  <1>4. \A a \in Fresh(s)' : rowId[a] = 0 /\ \A t \in Importers \ {s} : a \notin Fresh(t)
    BY <1>3 DEF CreateAccounts, Row
  <1>5. add[s] \cup swap[s] = {}
    BY <1>1 DEF RowsInv, PendingResolved
  <1>6. QED
    BY <1>1, <1>4, <1>5, OwnStep

\* The steps that read or prepare child rows leave the resolved accounts alone.
LEMMA PrepareRows ==
  ASSUME TypeOK, RowsInv, NEW s \in Importers,
         pc[s] \notin {"idle", "accounts"},
         pc'[s] \notin {"idle", "accounts", "create", "transactions"},
         UNCHANGED <<rowId, facts, held, num, imports, ids>>,
         \A t \in Importers \ {s} : pc'[t] = pc[t] /\ add'[t] = add[t] /\ swap'[t] = swap[t],
         \A f \in (add'[s] \cup swap'[s]) \ (add[s] \cup swap[s]) :
           f.acct \in Resolved(s) /\ f.id = ids[s][f.acct]
  PROVE  RowsInv'
  <1>1. Resolved(s)' = Resolved(s) /\ Fresh(s)' = Fresh(s)
    BY DEF Resolved, Fresh
  <1>2. \A a \in Fresh(s)' : rowId[a] = 0 /\ \A t \in Importers \ {s} : a \notin Fresh(t)
    BY <1>1 DEF RowsInv, OneCreator
  <1>3. \A f \in add'[s] \cup swap'[s] : f.acct \in Resolved(s)' /\ f.id = ids'[s][f.acct]
    BY <1>1 DEF RowsInv, PendingResolved
  <1>4. QED
    BY <1>2, <1>3, OwnStep

\* What is prepared for the ledger hangs on resolved accounts.
LEMMA InsertRows ==
  ASSUME TypeOK, RowsInv, NEW s \in Importers, InsertActivities(s) \/ InsertRealizedLots(s)
  PROVE  RowsInv'
  <1>1. /\ pc[s] \in {"transactions", "realized_lots"} /\ pc'[s] \in {"positions", "commit"}
        /\ UNCHANGED <<rowId, facts, held, num, imports, ids>>
        /\ \A t \in Importers \ {s} : pc'[t] = pc[t] /\ add'[t] = add[t] /\ swap'[t] = swap[t]
    BY DEF InsertActivities, InsertRealizedLots, Goto, TypeOK, db
  <1>2. \A f \in (add'[s] \cup swap'[s]) \ (add[s] \cup swap[s]) :
          f \in Reported(s, "transactions") \cup Reported(s, "realized_lots")
    BY DEF InsertActivities, InsertRealizedLots, TypeOK
  <1>3. \A f \in (add'[s] \cup swap'[s]) \ (add[s] \cup swap[s]) :
          f.acct \in Resolved(s) /\ f.id = ids[s][f.acct]
    BY <1>2 DEF Reported
  <1>4. QED
    BY <1>1, <1>3, PrepareRows

\* The deletes prepare nothing new.
LEMMA DeleteRows ==
  ASSUME TypeOK, RowsInv, NEW s \in Importers, NEW t \in HeldTables,
         StartDelete(s, t) \/ FinishDelete(s, t)
  PROVE  RowsInv'
  <1>1. /\ pc[s] \in {"positions", "open_lots", "clear_positions", "clear_open_lots"}
        /\ pc'[s] \in {"clear_positions", "clear_open_lots", "open_lots", "realized_lots"}
        /\ UNCHANGED <<rowId, facts, held, num, imports, ids, add, swap>>
        /\ \A u \in Importers \ {s} : pc'[u] = pc[u]
    BY DEF StartDelete, FinishDelete, ClearStep, AfterClear, HeldTables, Goto, TypeOK, db
  <1>2. QED
    BY <1>1, PrepareRows

\* What the flush writes hangs on an account row that is there or comes with it: an
\* account that vanished since it was resolved takes no row.
LEMMA CommitRows ==
  ASSUME TypeOK, RowsInv, NEW s \in Importers, Commit(s)
  PROVE  RowsInv'
  <1>1. /\ pc[s] = "commit" /\ pc' = [pc EXCEPT ![s] = "idle"] /\ Closed(s)
        /\ Vanished(s) \cap Written(s) = {}
        /\ facts' \subseteq facts \cup swap[s] \cup add[s]
        /\ held' \subseteq held \cup NewHeld(s)
    BY DEF Commit, Goto
  <1>2. \A a \in Accounts : rowId'[a] = IF a \in Fresh(s) THEN num[s] ELSE rowId[a]
    BY DEF Commit
  <1>3. FreshIds' /\ OneCreator' /\ PendingResolved'
    BY <1>1, <1>2, ClosedInv
  <1>4. ASSUME NEW r \in facts \cup held PROVE Current(r)' /\ r.id # 0
    <2>1. r.acct \in Accounts /\ rowId[r.acct] = r.id /\ r.id # 0
      BY DEF TypeOK, Fact, Held, RowsInv, NoOrphanRows, Current
    <2>2. r.acct \notin Fresh(s)
      BY <2>1 DEF RowsInv, OneCreator
    <2>3. QED
      BY <2>1, <2>2, <1>2 DEF Current
  <1>5. ASSUME NEW r, r.acct \in Resolved(s), r.id = ids[s][r.acct], r.acct \in Written(s)
        PROVE  Current(r)' /\ r.id # 0
    <2>1. r.acct \in Accounts /\ r.id # 0 /\ r.acct \notin Vanished(s)
      BY <1>5, <1>1 DEF Resolved
    <2>2. CASE r.acct \in Fresh(s)
      BY <2>1, <2>2, <1>2, <1>5 DEF Fresh, Current
    <2>3. CASE r.acct \notin Fresh(s)
      BY <2>1, <2>3, <1>2, <1>5 DEF Vanished, Current
    <2>4. QED
      BY <2>1, <2>2, <2>3
  <1>6. \A r \in add[s] \cup swap[s] \cup NewHeld(s) :
          r.acct \in Resolved(s) /\ r.id = ids[s][r.acct] /\ r.acct \in Written(s)
    <2>1. \A r \in add[s] \cup swap[s] : r.acct \in Resolved(s) /\ r.id = ids[s][r.acct]
      BY DEF RowsInv, PendingResolved
    <2>2. \A r \in NewHeld(s) : r.acct \in Resolved(s) /\ r.id = ids[s][r.acct]
      BY DEF NewHeld
    <2>3. \A r \in add[s] \cup swap[s] \cup NewHeld(s) : r.acct \in Written(s)
      BY DEF Written
    <2>4. QED
      BY <2>1, <2>2, <2>3
  <1>7. \A r \in add[s] \cup swap[s] \cup NewHeld(s) : Current(r)' /\ r.id # 0
    BY <1>5, <1>6
  <1>8. \A r \in (facts \cup held)' : Current(r)' /\ r.id # 0
    BY <1>1, <1>4, <1>7
  <1>9. NoOrphanRows' /\ \A r \in (facts \cup held)' : r.id # 0
    BY <1>8 DEF NoOrphanRows, Current
  <1>10. QED
    BY <1>3, <1>9 DEF RowsInv

\* A failed import leaves no trace.
LEMMA AbortRows ==
  ASSUME TypeOK, RowsInv, NEW s \in Importers, Abort(s)
  PROVE  RowsInv'
  <1>1. /\ pc[s] # "idle" /\ pc' = [pc EXCEPT ![s] = "idle"] /\ Closed(s)
        /\ UNCHANGED <<rowId, facts, held>>
    BY DEF Abort, Goto, db
  <1>2. FreshIds' /\ OneCreator' /\ PendingResolved'
    BY <1>1, ClosedInv
  <1>3. QED
    BY <1>1, <1>2, SameRows DEF RowsInv

\* A delete takes the rows with the account row: the ones it leaves hang on others.
LEMMA CommitDeleteRows ==
  ASSUME TypeOK, RowsInv, NEW r \in open, CommitDelete(r)
  PROVE  RowsInv'
  <1>1. /\ \A a \in Accounts : rowId'[a] = IF a = r.acct /\ rowId[a] = r.id THEN 0 ELSE rowId[a]
        /\ facts' = {f \in facts : ~(f.acct = r.acct /\ f.id = r.id)}
        /\ held' = {h \in held : ~(h.acct = r.acct /\ h.id = r.id)}
        /\ UNCHANGED <<pc, num, ids, add, swap, imports>>
    BY DEF CommitDelete, private
  <1>2. \A s \in Importers :
          Resolved(s)' = Resolved(s) /\ Fresh(s)' = Fresh(s) /\ Active(s)' = Active(s)
    BY <1>1 DEF Resolved, Fresh, Active
  <1>3. FreshIds'
    <2>1. imports \in Nat
      BY ConstantsAssumption DEF TypeOK
    <2>2. \A a \in Accounts : rowId'[a] \in {0, rowId[a]}
      BY <1>1
    <2>3. QED
      BY <1>1, <1>2, <2>1, <2>2 DEF RowsInv, FreshIds
  <1>4. OneCreator'
    <2>1. \A s \in Importers : Fresh(s) \subseteq Accounts
      BY DEF Fresh, Resolved
    <2>2. QED
      BY <1>1, <1>2, <2>1 DEF RowsInv, OneCreator
  <1>5. PendingResolved'
    BY <1>1, <1>2 DEF RowsInv, PendingResolved
  <1>6. NoOrphanRows' /\ \A q \in (facts \cup held)' : q.id # 0
    <2>1. \A q \in (facts \cup held)' :
            q \in facts \cup held /\ q.acct \in Accounts /\ ~(q.acct = r.acct /\ q.id = r.id)
      BY <1>1 DEF TypeOK, Fact, Held
    <2>2. QED
      BY <1>1, <2>1 DEF RowsInv, NoOrphanRows, Current
  <1>7. QED
    BY <1>3, <1>4, <1>5, <1>6 DEF RowsInv

\* Every step keeps the invariant.
LEMMA StepRows == TypeOK /\ RowsInv /\ [Next]_vars => RowsInv'
  <1> SUFFICES ASSUME TypeOK, RowsInv, [Next]_vars PROVE RowsInv'
    OBVIOUS
  <1>1. ASSUME NEW s \in Importers, Import(s) PROVE RowsInv'
    <2>1. CASE \E sn \in Snapshots : Begin(s, sn)
      BY <2>1, BeginRows
    <2>2. CASE UpsertAccounts(s)
      BY <2>2, UpsertAccountsRows
    <2>3. CASE CreateAccounts(s)
      BY <2>3, CreateAccountsRows
    <2>4. CASE InsertActivities(s) \/ InsertRealizedLots(s)
      BY <2>4, InsertRows
    <2>5. CASE ReplacePositions(s) \/ ReplaceOpenLots(s)
      BY <2>5, DeleteRows DEF ReplacePositions, ReplaceOpenLots, HeldTables
    <2>6. CASE Commit(s)
      BY <2>6, CommitRows
    <2>7. CASE Abort(s)
      BY <2>7, AbortRows
    <2>8. QED
      BY <1>1, <2>1, <2>2, <2>3, <2>4, <2>5, <2>6, <2>7 DEF Import
  <1>2. ASSUME UNCHANGED <<rowId, pc, num, ids, add, swap, imports>>, UNCHANGED <<facts, held>>
        PROVE  RowsInv'
    BY <1>2, SameImporters, SameRows DEF RowsInv
  <1>3. ASSUME Settings PROVE RowsInv'
    <2>1. CASE \E e \in Editors, p \in Portfolios, a \in Accounts :
                 BeginDelete(e, p, a) \/ BeginRestore(e, p, a)
      BY <2>1, <1>2 DEF BeginDelete, BeginRestore, db, private
    <2>2. CASE \E p \in Portfolios : SavePreferences(p)
      BY <2>2, <1>2 DEF SavePreferences, private
    <2>3. CASE \E r \in open : CommitDelete(r)
      BY <2>3, CommitDeleteRows
    <2>4. CASE \E r \in open : CommitRestore(r) \/ FailDelete(r)
      BY <2>4, <1>2 DEF CommitRestore, FailDelete, db, private
    <2>5. QED
      BY <1>3, <2>1, <2>2, <2>3, <2>4 DEF Settings
  <1>4. CASE UNCHANGED vars
    BY <1>4, <1>2 DEF vars, db, private
  <1>5. QED
    BY <1>1, <1>3, <1>4 DEF Next

\* Account ids stay fresh, an uncommitted account row stays its creator's alone and
\* pending rows stay on the accounts their import resolved.
THEOREM RowsCorrect == Spec => []RowsInv
  <1>1. QED
    BY InitType, StepType, InitRows, StepRows, PTL DEF Spec

\* No transaction, lot or position is ever left without its account row, however
\* imports and deletes interleave.
THEOREM NoOrphans == Spec => []NoOrphanRows
  <1>1. RowsInv => NoOrphanRows
    BY DEF RowsInv
  <1>2. QED
    BY <1>1, RowsCorrect, PTL
------------------------------------------------------------------------------
(***************************************************************************)
(* What a snapshot does not replace stays.                                 *)
(***************************************************************************)
\* What an import deletes lies in what its snapshot replaces.
GoneInv ==
  \A s \in Importers :
    /\ pc[s] = "idle" => vis[s] \cup doomed[s] = {}
    /\ \A r \in vis[s] \cup doomed[s] : r.acct \in Scope(snap[s], r.table)

\* What an import leaves of it when it closes its session.
LEMMA ClosedGone ==
  ASSUME TypeOK, GoneInv, NEW s \in Importers, Closed(s), pc' = [pc EXCEPT ![s] = "idle"]
  PROVE  GoneInv'
  <1>1. vis'[s] = {} /\ doomed'[s] = {}
    BY DEF Closed, TypeOK
  <1>2. \A t \in Importers \ {s} :
          vis'[t] = vis[t] /\ doomed'[t] = doomed[t] /\ snap'[t] = snap[t] /\ pc'[t] = pc[t]
    BY DEF Closed, TypeOK
  <1>3. QED
    BY <1>1, <1>2 DEF GoneInv

\* A DELETE names the accounts of its scope and no others.
LEMMA DeleteGone ==
  ASSUME TypeOK, GoneInv, NEW s \in Importers, NEW t \in HeldTables,
         StartDelete(s, t) \/ FinishDelete(s, t)
  PROVE  GoneInv'
  <1>1. /\ UNCHANGED snap /\ pc'[s] # "idle"
        /\ \A u \in Importers \ {s} : vis'[u] = vis[u] /\ doomed'[u] = doomed[u] /\ pc'[u] = pc[u]
    BY DEF StartDelete, FinishDelete, Goto, TypeOK, ClearStep, AfterClear
  <1>2. \A r \in vis'[s] \cup doomed'[s] :
          r \in vis[s] \cup doomed[s] \/ (r.table = t /\ r.acct \in Scoped(s, t))
    BY DEF StartDelete, FinishDelete, TypeOK
  <1>3. \A r \in vis'[s] \cup doomed'[s] : r.acct \in Scope(snap[s], r.table)
    BY <1>2 DEF GoneInv, Scoped
  <1>4. QED
    BY <1>1, <1>3 DEF GoneInv

\* Every step keeps the invariant.
LEMMA StepGone == TypeOK /\ GoneInv /\ [Next]_vars => GoneInv'
  <1> SUFFICES ASSUME TypeOK, GoneInv, [Next]_vars PROVE GoneInv'
    OBVIOUS
  <1>1. ASSUME UNCHANGED <<snap, vis, doomed>>, NEW s \in Importers, pc'[s] # "idle",
               \A t \in Importers \ {s} : pc'[t] = pc[t]
        PROVE  GoneInv'
    BY <1>1 DEF GoneInv
  <1>2. ASSUME UNCHANGED <<pc, snap, vis, doomed>> PROVE GoneInv'
    BY <1>2 DEF GoneInv
  <1>3. ASSUME NEW s \in Importers, NEW sn \in Snapshots, Begin(s, sn) PROVE GoneInv'
    <2>1. /\ pc[s] = "idle" /\ UNCHANGED <<vis, doomed>>
          /\ \A t \in Importers \ {s} : pc'[t] = pc[t] /\ snap'[t] = snap[t]
      BY <1>3 DEF Begin, Goto, TypeOK
    <2>2. QED
      BY <2>1 DEF GoneInv
  <1>4. ASSUME NEW s \in Importers, UpsertAccounts(s) \/ CreateAccounts(s) PROVE GoneInv'
    <2>1. pc'[s] # "idle" /\ \A t \in Importers \ {s} : pc'[t] = pc[t]
      BY <1>4 DEF UpsertAccounts, CreateAccounts, Goto, TypeOK
    <2>2. QED
      BY <1>4, <2>1, <1>1 DEF UpsertAccounts, CreateAccounts
  <1>5. ASSUME NEW s \in Importers, InsertActivities(s) \/ InsertRealizedLots(s) PROVE GoneInv'
    <2>1. pc'[s] # "idle" /\ \A t \in Importers \ {s} : pc'[t] = pc[t]
      BY <1>5 DEF InsertActivities, InsertRealizedLots, Goto, TypeOK
    <2>2. QED
      BY <1>5, <2>1, <1>1 DEF InsertActivities, InsertRealizedLots
  <1>6. ASSUME NEW s \in Importers, Commit(s) \/ Abort(s) PROVE GoneInv'
    <2>1. Closed(s) /\ pc' = [pc EXCEPT ![s] = "idle"]
      BY <1>6 DEF Commit, Abort, Goto
    <2>2. QED
      BY <2>1, ClosedGone
  <1>7. ASSUME Settings PROVE GoneInv'
    BY <1>7, <1>2 DEF Settings, BeginDelete, BeginRestore, SavePreferences, CommitDelete,
                      CommitRestore, FailDelete, private
  <1>8. CASE UNCHANGED vars
    BY <1>8, <1>2 DEF vars, private
  <1>9. QED
    BY <1>3, <1>4, <1>5, <1>6, <1>7, <1>8, DeleteGone
       DEF Next, Import, ReplacePositions, ReplaceOpenLots, HeldTables

\* At the start nothing is being deleted.
LEMMA InitGone == Init => GoneInv
  BY DEF Init, GoneInv

\* What a snapshot replaces it has a row for or declares complete.
LEMMA ScopeIsStated ==
  ASSUME NEW sn, NEW table \in HeldTables, NEW a \in Scope(sn, table)
  PROVE  \/ Stated(sn, table, a) # {}
         \/ sn.full /\ a \in sn.holdingsCompleteFor \cup sn.lotsCompleteFor
  BY DEF Scope, HoldingsScope, OpenLotsScope, Holding, HasLots, Declared, Stated, HeldTables

\* A row that goes while its account row stays went with the commit that deleted it.
LEMMA StepKept ==
  ASSUME TypeOK, RowsInv, GoneInv, Next,
         NEW r \in held \ held', rowId'[r.acct] = r.id
  PROVE  \E s \in Importers :
           /\ pc[s] = "commit" /\ pc'[s] = "idle"
           /\ \/ Stated(snap[s], r.table, r.acct) # {}
              \/ /\ snap[s].full
                 /\ r.acct \in snap[s].holdingsCompleteFor \cup snap[s].lotsCompleteFor
  <1>1. r.table \in HeldTables /\ r.acct \in Accounts /\ r.id # 0 /\ rowId[r.acct] = r.id
    BY DEF TypeOK, Held, RowsInv, NoOrphanRows, Current
  <1>2. ASSUME NEW s \in Importers, Commit(s)
        PROVE  /\ pc[s] = "commit" /\ pc'[s] = "idle"
               /\ \/ Stated(snap[s], r.table, r.acct) # {}
                  \/ /\ snap[s].full
                     /\ r.acct \in snap[s].holdingsCompleteFor \cup snap[s].lotsCompleteFor
    <2>1. r \in doomed[s] /\ pc[s] = "commit" /\ pc'[s] = "idle"
      BY <1>2 DEF Commit, Goto, TypeOK
    <2>2. r.acct \in Scope(snap[s], r.table)
      BY <2>1 DEF GoneInv
    <2>3. QED
      BY <2>1, <2>2, <1>1, ScopeIsStated
  <1>3. ASSUME NEW q \in open, CommitDelete(q) PROVE FALSE
    <2>1. r.acct = q.acct /\ r.id = q.id
      BY <1>3 DEF CommitDelete
    <2>2. rowId'[r.acct] = 0
      BY <1>3, <2>1, <1>1 DEF CommitDelete
    <2>3. QED
      BY <2>2, <1>1
  <1>4. CASE UNCHANGED held
    BY <1>4
  <1>5. QED
    BY <1>2, <1>3, <1>4
       DEF Next, Settings, Import, ReplacePositions, ReplaceOpenLots, Begin, UpsertAccounts,
           CreateAccounts, InsertActivities, StartDelete, FinishDelete, InsertRealizedLots,
           Abort, BeginDelete, BeginRestore, SavePreferences, CommitRestore, FailDelete, db

\* Rows of an account that stays go only by an import whose snapshot has a row for it or
\* declares it complete in a successful full refresh, whatever runs beside it.
THEOREM LastGoodStays == Spec => LastGoodKept
  <1>1. TypeOK /\ RowsInv /\ GoneInv /\ [Next]_vars =>
          [\A r \in held \ held' : rowId'[r.acct] = r.id =>
             \E s \in Importers :
               /\ pc[s] = "commit" /\ pc'[s] = "idle"
               /\ \/ Stated(snap[s], r.table, r.acct) # {}
                  \/ /\ snap[s].full
                     /\ r.acct \in snap[s].holdingsCompleteFor \cup snap[s].lotsCompleteFor]_vars
    BY StepKept
  <1>2. Spec => []GoneInv
    BY InitType, StepType, InitGone, StepGone, PTL DEF Spec
  <1>3. QED
    BY <1>1, <1>2, TypeCorrect, RowsCorrect, PTL DEF Spec, LastGoodKept
------------------------------------------------------------------------------
(***************************************************************************)
(* A deleted account does not come back by an import begun later.          *)
(***************************************************************************)
\* Who is barred from coming back: an open request has read the column as it stands,
\* every deleted account's key is in it, and an import resolves no account whose key is
\* on the list it read, which has every account deleted when it began.
BarredInv ==
  /\ \A q, r \in open : q = r
  /\ \A r \in open : r.read = excluded[r.portfolio]
  /\ \A d \in deleted : KeyOf[d[2]] \in excluded[d[1]]
  /\ \A s \in Importers : \A a \in barred[s] : KeyOf[a] \in excl[s]
  /\ \A s \in Importers : \A a \in Resolved(s) : KeyOf[a] \notin excl[s]

\* At the start nobody is excluded and nothing resolved.
LEMMA InitBarred == Init => BarredInv
  BY DEF Init, BarredInv, Resolved

\* The importers' half: lists and resolved accounts.
LEMMA SameBarred ==
  ASSUME BarredInv, UNCHANGED <<open, excluded, deleted, barred, excl, ids>>
  PROVE  BarredInv'
  BY DEF BarredInv, Resolved

\* An import reads the list when it begins and keeps what it read until it closes.
LEMMA ImportBarred ==
  ASSUME TypeOK, RowsInv, BarredInv, NEW s \in Importers, Import(s)
  PROVE  BarredInv'
  <1>1. CASE \E sn \in Snapshots : Begin(s, sn)
    <2>1. PICK sn \in Snapshots : Begin(s, sn)
      BY <1>1
    <2>2. /\ UNCHANGED <<open, excluded, deleted, ids>>
          /\ excl'[s] = excluded[sn.portfolio]
          /\ barred'[s] = {a \in Accounts : <<sn.portfolio, a>> \in deleted}
          /\ \A t \in Importers \ {s} : excl'[t] = excl[t] /\ barred'[t] = barred[t]
          /\ pc[s] = "idle"
      BY <2>1 DEF Begin, Goto, TypeOK, db, ghosts
    <2>3. Resolved(s)' = {}
      BY <2>2 DEF RowsInv, PendingResolved, Resolved
    <2>4. \A a \in barred'[s] : KeyOf[a] \in excl'[s]
      BY <2>2 DEF BarredInv
    <2>5. \A t \in Importers \ {s} : Resolved(t)' = Resolved(t)
      BY <2>2 DEF Resolved
    <2>6. QED
      BY <2>2, <2>3, <2>4, <2>5 DEF BarredInv
  <1>2. ASSUME UNCHANGED <<open, excluded, deleted, barred, excl>>,
               \A t \in Importers \ {s} : ids'[t] = ids[t],
               \A a \in Accounts : ids'[s][a] # 0 => ids[s][a] # 0 \/ KeyOf[a] \notin excl[s]
        PROVE  BarredInv'
    <2>1. \A t \in Importers \ {s} : Resolved(t)' = Resolved(t)
      BY <1>2 DEF Resolved
    <2>2. \A a \in Resolved(s)' : KeyOf[a] \notin excl[s]
      BY <1>2 DEF Resolved, BarredInv
    <2>3. QED
      BY <1>2, <2>1, <2>2 DEF BarredInv
  <1>3. CASE UpsertAccounts(s)
    <2>1. \A a \in Accounts : ids'[s][a] # 0 => KeyOf[a] \notin excl[s]
      BY <1>3 DEF UpsertAccounts, TypeOK, Kept
    <2>2. QED
      BY <1>2, <1>3, <2>1 DEF UpsertAccounts, db, ghosts, TypeOK
  <1>4. CASE CreateAccounts(s)
    <2>1. \A a \in Accounts : ids'[s][a] # 0 => ids[s][a] # 0 \/ KeyOf[a] \notin excl[s]
      BY <1>4 DEF CreateAccounts, TypeOK, Missing, Kept
    <2>2. QED
      BY <1>2, <1>4, <2>1 DEF CreateAccounts, db, ghosts, TypeOK
  <1>5. CASE InsertActivities(s) \/ InsertRealizedLots(s)
    BY <1>5, SameBarred DEF InsertActivities, InsertRealizedLots, db, ghosts
  <1>6. CASE ReplacePositions(s) \/ ReplaceOpenLots(s)
    BY <1>6, SameBarred DEF ReplacePositions, ReplaceOpenLots, StartDelete, FinishDelete, db, ghosts
  <1>7. CASE Commit(s) \/ Abort(s)
    <2>1. Closed(s) /\ UNCHANGED excluded
      BY <1>7 DEF Commit, Abort, db
    <2>2. /\ UNCHANGED <<open, excluded, deleted>>
          /\ excl'[s] = {} /\ barred'[s] = {} /\ ids'[s] = [a \in Accounts |-> 0]
          /\ \A t \in Importers \ {s} :
               excl'[t] = excl[t] /\ barred'[t] = barred[t] /\ ids'[t] = ids[t]
      BY <2>1 DEF Closed, TypeOK
    <2>3. Resolved(s)' = {} /\ \A t \in Importers \ {s} : Resolved(t)' = Resolved(t)
      BY <2>2 DEF Resolved
    <2>4. QED
      BY <2>2, <2>3 DEF BarredInv
  <1>8. QED
    BY <1>1, <1>3, <1>4, <1>5, <1>6, <1>7 DEF Import

\* The routes' half: one request is open, and it wrote back what it read.
LEMMA SettingsBarred ==
  ASSUME OneRequestAtATime, KeysWithoutComma, TypeOK, BarredInv, Settings
  PROVE  BarredInv'
  <1>1. ASSUME UNCHANGED <<barred, excl, ids>>,
               \A q, r \in open' : q = r,
               \A r \in open' : r.read = excluded'[r.portfolio],
               \A d \in deleted' : KeyOf[d[2]] \in excluded'[d[1]]
        PROVE  BarredInv'
    BY <1>1 DEF BarredInv, Resolved
  <1>2. ASSUME NEW e \in Editors, NEW p \in Portfolios, NEW a \in Accounts,
               BeginDelete(e, p, a) \/ BeginRestore(e, p, a)
        PROVE  BarredInv'
    <2>1. PICK op : open' = open \cup {Request(e, op, p, a)}
      BY <1>2 DEF BeginDelete, BeginRestore
    <2>2. UNCHANGED <<barred, excl, ids, excluded, deleted>> /\ Free(e)
      BY <1>2 DEF BeginDelete, BeginRestore, db, private, ghosts
    <2>3. open = {}
      BY <2>2 DEF Free, TypeOK, Edit, OneRequestAtATime
    <2>4. Request(e, op, p, a).read = excluded[p] /\ Request(e, op, p, a).portfolio = p
      BY DEF Request
    <2>5. QED
      BY <1>1, <2>1, <2>2, <2>3, <2>4 DEF BarredInv
  <1>3. ASSUME NEW p \in Portfolios, SavePreferences(p) PROVE BarredInv'
    BY <1>3, SameBarred DEF SavePreferences, private, ghosts
  <1>4. ASSUME NEW r \in open, CommitDelete(r) \/ CommitRestore(r) \/ FailDelete(r)
        PROVE  BarredInv'
    <2>1. /\ open' = {} /\ UNCHANGED <<barred, excl, ids>>
          /\ r.acct \in Accounts /\ r.portfolio \in Portfolios
          /\ r.read = excluded[r.portfolio]
      BY <1>4 DEF CommitDelete, CommitRestore, FailDelete, private, BarredInv, TypeOK, Edit
    <2>2. \A new : Rewritten(r, new) = [excluded EXCEPT ![r.portfolio] = new]
      BY <2>1 DEF Rewritten, TypeOK
    <2>3. CASE CommitDelete(r)
      <3>1. /\ excluded' = [excluded EXCEPT ![r.portfolio] = excluded[r.portfolio] \cup Parts[r.acct]]
            /\ deleted' = deleted \cup {<<r.portfolio, r.acct>>}
        BY <2>1, <2>2, <2>3 DEF CommitDelete
      <3>2. KeyOf[r.acct] \in Parts[r.acct]
        BY <2>1 DEF KeysWithoutComma
      <3>3. \A p \in Portfolios : excluded[p] \subseteq excluded'[p]
        BY <3>1, <2>1 DEF TypeOK
      <3>4. \A d \in deleted : d[1] \in Portfolios
        BY DEF TypeOK
      <3>5. KeyOf[r.acct] \in excluded'[r.portfolio]
        BY <3>1, <3>2, <2>1 DEF TypeOK
      <3>6. \A d \in deleted' : KeyOf[d[2]] \in excluded'[d[1]]
        BY <3>1, <3>3, <3>4, <3>5 DEF BarredInv
      <3>7. QED
        BY <1>1, <2>1, <3>6
    <2>4. CASE CommitRestore(r)
      <3>1. /\ excluded' = [excluded EXCEPT ![r.portfolio] = excluded[r.portfolio] \ {KeyOf[r.acct]}]
            /\ deleted' = {d \in deleted : ~(d[1] = r.portfolio /\ KeyOf[d[2]] = KeyOf[r.acct])}
        BY <2>1, <2>2, <2>4 DEF CommitRestore
      <3>2. \A d \in deleted : d[1] \in Portfolios
        BY DEF TypeOK
      <3>3. \A d \in deleted' : KeyOf[d[2]] \in excluded'[d[1]]
        BY <3>1, <3>2, <2>1 DEF BarredInv, TypeOK
      <3>4. QED
        BY <1>1, <2>1, <3>3
    <2>5. CASE FailDelete(r)
      BY <2>5, <1>1, <2>1 DEF FailDelete, db, ghosts, BarredInv
    <2>6. QED
      BY <1>4, <2>3, <2>4, <2>5
  <1>5. QED
    BY <1>2, <1>3, <1>4 DEF Settings

\* An account row appears with the commit of an import that did not find it barred.
LEMMA StepAppears ==
  ASSUME TypeOK, BarredInv, Next, NEW a \in Accounts, ~Row(a), Row(a)'
  PROVE  \E s \in Importers : pc[s] = "commit" /\ a \in Fresh(s) \ barred[s]
  <1>1. ASSUME NEW s \in Importers, Commit(s)
        PROVE  pc[s] = "commit" /\ a \in Fresh(s) \ barred[s]
    <2>1. pc[s] = "commit" /\ a \in Fresh(s)
      BY <1>1 DEF Commit, Goto, Row
    <2>2. a \notin barred[s]
      BY <2>1 DEF BarredInv, Fresh
    <2>3. QED
      BY <2>1, <2>2
  <1>2. ASSUME NEW q \in open, CommitDelete(q) PROVE FALSE
    BY <1>2 DEF CommitDelete, Row
  <1>3. CASE UNCHANGED rowId
    BY <1>3 DEF Row
  <1>4. QED
    BY <1>1, <1>2, <1>3
       DEF Next, Settings, Import, ReplacePositions, ReplaceOpenLots, Begin, UpsertAccounts,
           CreateAccounts, InsertActivities, StartDelete, FinishDelete, InsertRealizedLots,
           Abort, BeginDelete, BeginRestore, SavePreferences, CommitRestore, FailDelete, db

\* An import that begins after a delete has answered never brings the account back.  With
\* two settings requests at once one exclusion can be lost, and with it the promise.
THEOREM DeletedStayAway ==
  ASSUME OneRequestAtATime, KeysWithoutComma
  PROVE  Spec => NoLaterResurrection
  <1>1. TypeOK /\ RowsInv /\ BarredInv /\ [Next]_vars => BarredInv'
    <2>1. CASE UNCHANGED vars
      BY <2>1, SameBarred DEF vars, db, private, ghosts
    <2>2. QED
      BY <2>1, ImportBarred, SettingsBarred DEF Next
  <1>2. TypeOK /\ BarredInv /\ [Next]_vars =>
          [\A a \in Accounts : ~Row(a) /\ Row(a)' =>
             \E s \in Importers : pc[s] = "commit" /\ a \in Fresh(s) \ barred[s]]_vars
    BY StepAppears
  <1>3. QED
    BY <1>1, <1>2, InitBarred, TypeCorrect, RowsCorrect, PTL DEF Spec, NoLaterResurrection
------------------------------------------------------------------------------
(***************************************************************************)
(* A reinvestment is stored once.                                          *)
(***************************************************************************)
\* A running import has a snapshot a connector returned.
SnapInv == \A s \in Importers : pc[s] # "idle" => snap[s] \in Snapshots

\* No import flushes a row under a legacy key, what it re-types is a transaction, and
\* what it inserts is not stored under its legacy key.
CountedInv ==
  /\ \A s \in Importers : \A f \in add[s] \cup swap[s], k \in Keys :
       f.table = "transactions" => Legacy[k] # f.key
  /\ \A s \in Importers : \A f \in swap[s] : f.table = "transactions"
  /\ \A s \in Importers : \A f \in add[s] :
       f.table = "transactions" /\ Legacy[f.key] # NoKey => Before(f) \notin facts
  /\ SharesCountedOnce

\* Every step keeps it.
LEMMA StepSnap == TypeOK /\ SnapInv /\ [Next]_vars => SnapInv'
  <1> SUFFICES ASSUME TypeOK, SnapInv, [Next]_vars PROVE SnapInv'
    OBVIOUS
  <1>1. ASSUME UNCHANGED snap, \A s \in Importers : pc'[s] # "idle" => pc[s] # "idle"
        PROVE  SnapInv'
    BY <1>1 DEF SnapInv
  <1>2. ASSUME NEW s \in Importers, NEW sn \in Snapshots, Begin(s, sn) PROVE SnapInv'
    BY <1>2 DEF Begin, Goto, TypeOK, SnapInv
  <1>3. ASSUME NEW s \in Importers, Commit(s) \/ Abort(s) PROVE SnapInv'
    <2>1. Closed(s) /\ pc' = [pc EXCEPT ![s] = "idle"]
      BY <1>3 DEF Commit, Abort, Goto
    <2>2. QED
      BY <2>1 DEF Closed, TypeOK, SnapInv
  <1>4. ASSUME NEW s \in Importers,
               \/ UpsertAccounts(s) \/ CreateAccounts(s) \/ InsertActivities(s)
               \/ ReplacePositions(s) \/ ReplaceOpenLots(s) \/ InsertRealizedLots(s)
        PROVE  SnapInv'
    <2>1. UNCHANGED snap /\ pc[s] # "idle" /\ \A t \in Importers \ {s} : pc'[t] = pc[t]
      BY <1>4 DEF UpsertAccounts, CreateAccounts, InsertActivities, ReplacePositions,
         ReplaceOpenLots, StartDelete, FinishDelete, InsertRealizedLots, ClearStep, Goto, TypeOK
    <2>2. QED
      BY <2>1, <1>1
  <1>5. CASE UNCHANGED <<pc, snap>>
    BY <1>5, <1>1
  <1>6. QED
    BY <1>2, <1>3, <1>4, <1>5 DEF Next, Import, Settings, BeginDelete, BeginRestore,
       SavePreferences, CommitDelete, CommitRestore, FailDelete, private, vars

\* When nothing stated is a legacy key, the loop discards nothing: what it inserts is
\* new under both its keys.
LEMMA InsertedIsNew ==
  ASSUME NoLegacyStated, NEW sn \in Snapshots, NEW a \in Accounts, NEW seen,
         NEW k \in InsertedKeys(seen, sn.acts[a])
  PROVE  k \notin seen /\ (Legacy[k] # NoKey => Legacy[k] \notin seen)
  <1> DEFINE acts == sn.acts[a]
  <1>1. PICK i \in DOMAIN acts : k = acts[i] /\ Inserted(seen, acts, i)
    BY DEF InsertedKeys
  <1>2. acts \in Seq(Keys)
    BY ConstantsAssumption DEF Fetched
  <1>3. \A j \in 1 .. i - 1 : j \in DOMAIN acts /\ acts[j] \in Keys
    BY <1>1, <1>2
  <1>4. ~Discarded(seen, acts, i)
    BY <1>1, <1>3 DEF Discarded, NoLegacyStated
  <1>5. QED
    BY <1>1, <1>4 DEF Inserted, Upgrades

\* A reported transaction is one of the snapshot's activities.
LEMMA ReportedKey ==
  ASSUME NEW s \in Importers, NEW f \in Reported(s, "transactions")
  PROVE  /\ f \in Fact /\ f.table = "transactions" /\ f.acct \in Resolved(s) /\ f.id = ids[s][f.acct]
         /\ \E i \in DOMAIN snap[s].acts[f.acct] : f.key = snap[s].acts[f.acct][i]
  BY DEF Reported

\* What the union decides to insert is new under both its keys.
LEMMA InsertCounted ==
  ASSUME NoLegacyStated, TypeOK, SnapInv, CountedInv, NEW s \in Importers, InsertActivities(s)
  PROVE  CountedInv'
  <1>1. snap[s] \in Snapshots /\ UNCHANGED facts
    BY DEF InsertActivities, Goto, SnapInv, db
  <1>2. \A t \in Importers \ {s} : add'[t] = add[t] /\ swap'[t] = swap[t]
    BY DEF InsertActivities, TypeOK
  <1>3. /\ add'[s] = {f \in Reported(s, "transactions") :
                        f.key \in InsertedKeys(Seen(s, f.acct), snap[s].acts[f.acct])}
        /\ swap'[s] \subseteq Reported(s, "transactions")
    BY DEF InsertActivities, TypeOK
  <1>4. \A f \in add'[s] \cup swap'[s] :
          f.table = "transactions" /\ \A k \in Keys : Legacy[k] # f.key
    <2>1. SUFFICES ASSUME NEW f \in Reported(s, "transactions")
                   PROVE  f.table = "transactions" /\ \A k \in Keys : Legacy[k] # f.key
      BY <1>3
    <2>2. QED
      BY <1>1, ReportedKey DEF NoLegacyStated, Fact
  <1>5. ASSUME NEW f \in add'[s], Legacy[f.key] # NoKey PROVE Before(f) \notin facts
    <2>1. /\ f \in Fact /\ f.id = ids[s][f.acct] /\ f.table = "transactions"
          /\ f.key \in InsertedKeys(Seen(s, f.acct), snap[s].acts[f.acct])
      BY <1>3, <1>5, ReportedKey
    <2>2. Legacy[f.key] \notin Seen(s, f.acct)
      BY <2>1, <1>1, <1>5, InsertedIsNew DEF Fact
    <2>3. /\ Before(f).table = "transactions" /\ Before(f).acct = f.acct
          /\ Before(f).id = f.id /\ Before(f).key = Legacy[f.key]
      BY <2>1 DEF Before, Fact
    <2>4. QED
      BY <2>1, <2>2, <2>3 DEF Seen
  <1>6. SharesCountedOnce'
    BY <1>1 DEF CountedInv, SharesCountedOnce
  <1>7. QED
    BY <1>1, <1>2, <1>4, <1>5, <1>6 DEF CountedInv

\* A flush re-types a row or adds one that is new: the double count never lands.
LEMMA CommitCounted ==
  ASSUME TypeOK, CountedInv, NEW s \in Importers, Commit(s)
  PROVE  CountedInv'
  <1>1. /\ facts' = (facts \ {Before(f) : f \in swap[s]}) \cup swap[s] \cup add[s]
        /\ add'[s] = {} /\ swap'[s] = {}
        /\ \A t \in Importers \ {s} : add'[t] = add[t] /\ swap'[t] = swap[t]
    BY DEF Commit, Closed, TypeOK
  <1>2. \A f \in Fact : Before(f).table = f.table /\ Before(f).key = Legacy[f.key]
    BY DEF Before, Fact
  <1>3. \A f \in add[s] \cup swap[s] : f \in Fact
    BY DEF TypeOK
  <1>4. \A f \in Fact : f.table = "transactions" => Before(f) \notin add[s] \cup swap[s]
    <2>1. SUFFICES ASSUME NEW f \in Fact, f.table = "transactions",
                          Before(f) \in add[s] \cup swap[s]
                   PROVE  FALSE
      OBVIOUS
    <2>2. Before(f).table = "transactions" /\ Before(f).key = Legacy[f.key] /\ f.key \in Keys
      BY <1>2, <2>1 DEF Fact
    <2>3. QED
      BY <2>1, <2>2 DEF CountedInv
  <1>5. ASSUME NEW g \in Fact, g.table = "transactions", Before(g) \in facts' PROVE Before(g) \in facts
    BY <1>1, <1>4, <1>5
  <1>6. SharesCountedOnce'
    <2>1. SUFFICES ASSUME NEW g \in facts', g.table = "transactions", Legacy[g.key] # NoKey,
                          Before(g) \in facts'
                   PROVE  FALSE
      BY DEF SharesCountedOnce, Before
    <2>2. g \in Fact /\ Before(g) \in facts
      BY <2>1, <1>1, <1>5, <1>3 DEF TypeOK
    <2>3. g \notin facts
      BY <2>1, <2>2 DEF CountedInv, SharesCountedOnce
    <2>4. g \notin add[s]
      BY <2>1, <2>2 DEF CountedInv
    <2>5. g \notin swap[s]
      BY <2>1, <2>2, <1>1, <1>4
    <2>6. QED
      BY <2>1, <2>3, <2>4, <2>5, <1>1
  <1>7. \A t \in Importers : \A f \in add'[t] :
          f.table = "transactions" /\ Legacy[f.key] # NoKey => Before(f) \notin facts'
    BY <1>1, <1>5 DEF CountedInv, TypeOK
  <1>8. QED
    BY <1>1, <1>6, <1>7 DEF CountedInv

\* Every step keeps the invariant.
LEMMA StepCounted ==
  ASSUME NoLegacyStated, TypeOK, SnapInv, CountedInv, [Next]_vars
  PROVE  CountedInv'
  <1>1. ASSUME UNCHANGED <<add, swap>>, facts' \subseteq facts PROVE CountedInv'
    <2>1. SharesCountedOnce'
      BY <1>1 DEF CountedInv, SharesCountedOnce, Before
    <2>2. \A s \in Importers : \A f \in add[s] :
            f.table = "transactions" /\ Legacy[f.key] # NoKey => Before(f) \notin facts'
      BY <1>1 DEF CountedInv
    <2>3. QED
      BY <1>1, <2>1, <2>2 DEF CountedInv, Before
  <1>2. ASSUME NEW s \in Importers, Abort(s) PROVE CountedInv'
    <2>1. /\ UNCHANGED facts /\ add'[s] = {} /\ swap'[s] = {}
          /\ \A t \in Importers \ {s} : add'[t] = add[t] /\ swap'[t] = swap[t]
      BY <1>2 DEF Abort, Closed, TypeOK, db
    <2>2. SharesCountedOnce'
      BY <2>1 DEF CountedInv, SharesCountedOnce, Before
    <2>3. QED
      BY <2>1, <2>2 DEF CountedInv, Before
  <1>3. ASSUME NEW s \in Importers, InsertRealizedLots(s) PROVE CountedInv'
    <2>1. /\ UNCHANGED <<facts, swap>>
          /\ \A t \in Importers \ {s} : add'[t] = add[t]
          /\ \A f \in add'[s] : f \in add[s] \/ f.table = "realized_lots"
      BY <1>3 DEF InsertRealizedLots, TypeOK, db, Reported
    <2>2. SharesCountedOnce'
      BY <2>1 DEF CountedInv, SharesCountedOnce, Before
    <2>3. QED
      BY <2>1, <2>2 DEF CountedInv, Before
  <1>4. ASSUME NEW r \in open, CommitDelete(r) PROVE CountedInv'
    BY <1>4, <1>1 DEF CommitDelete, private
  <1>5. CASE UNCHANGED <<add, swap, facts>>
    BY <1>5, <1>1
  <1>6. QED
    BY <1>2, <1>3, <1>4, <1>5, InsertCounted, CommitCounted
       DEF Next, Settings, Import, ReplacePositions, ReplaceOpenLots, Begin, UpsertAccounts,
           CreateAccounts, StartDelete, FinishDelete, BeginDelete, BeginRestore,
           SavePreferences, CommitRestore, FailDelete, db, private, vars

\* The seed does not hold a reinvestment under both keys.
LEMMA InitCounted == NoLegacyStated /\ Init => SnapInv /\ CountedInv
  <1> SUFFICES ASSUME NoLegacyStated, Init PROVE SnapInv /\ CountedInv
    OBVIOUS
  <1>1. ASSUME NEW f \in facts, Before(f) \in facts PROVE FALSE
    <2>1. /\ f \in Fact /\ Before(f).acct = f.acct /\ Before(f).key = Legacy[f.key]
          /\ \E i \in DOMAIN Seed.acts[f.acct] : Seed.acts[f.acct][i] = f.key
          /\ \E j \in DOMAIN Seed.acts[f.acct] : Seed.acts[f.acct][j] = Legacy[f.key]
      BY <1>1 DEF Init, Before, Fact
    <2>2. QED
      BY <2>1 DEF NoLegacyStated, Fact
  <1>2. SharesCountedOnce
    BY <1>1 DEF SharesCountedOnce
  <1>3. QED
    BY <1>2 DEF Init, SnapInv, CountedInv

\* A reinvestment stored as a BUY before it had a type of its own is never stored a second
\* time, also when two imports meet it at once.
THEOREM CountedOnce ==
  ASSUME NoLegacyStated
  PROVE  Spec => []SharesCountedOnce
  <1>1. CountedInv => SharesCountedOnce
    BY DEF CountedInv
  <1>2. QED
    BY <1>1, InitCounted, StepSnap, StepCounted, TypeCorrect, PTL DEF Spec
------------------------------------------------------------------------------
(***************************************************************************)
(* What a committed import stated is stored.                               *)
(***************************************************************************)
\* The steps of an import that has read its ledger keys.
Prepared == {"positions", "clear_positions", "open_lots", "clear_open_lots", "realized_lots", "commit"}

\* A stated row is stored, will be flushed, or its account row is gone.
Safe(s, f) == f \in facts \cup add[s] \cup swap[s] \/ f.acct \in Vanished(s)

\* A closed lot of an account is one some snapshot states of it.
Ours(f) == \E sn \in Snapshots : f.key \in sn.realized[f.acct]

\* What an import has stated so far is safe, and the union by key lost nothing before.
StoredInv ==
  /\ \A s \in Importers : pc[s] \in Prepared =>
       \A f \in Reported(s, "transactions") : Safe(s, f)
  /\ \A s \in Importers : pc[s] = "commit" =>
       \A f \in Reported(s, "realized_lots") : Safe(s, f)
  /\ \A f \in facts : f.table = "realized_lots" => Ours(f)
  /\ \A s \in Importers : \A f \in add[s] : f.table = "realized_lots" => Ours(f)
  /\ StatedIsStored

\* What an import will write stays safe while it does nothing: the rows it relies on go
\* only with their account row, and no retype rewrites a key it stated.
LEMMA StaysSafe ==
  ASSUME TypeOK, RowsInv, NEW s \in Importers, NEW f \in Fact, Safe(s, f),
         f.acct \in Resolved(s), f.id = ids[s][f.acct],
         UNCHANGED <<ids[s], num[s], add[s], swap[s]>>,
         f.acct \in Fresh(s) => rowId'[f.acct] = rowId[f.acct],
         rowId'[f.acct] \in {0, rowId[f.acct]} \/ rowId[f.acct] = 0,
         rowId[f.acct] = 0 => rowId'[f.acct] # f.id,
         f \in facts \ facts' => rowId'[f.acct] # f.id
  PROVE  Safe(s, f)'
  <1>1. Resolved(s)' = Resolved(s) /\ Fresh(s)' = Fresh(s)
    BY DEF Resolved, Fresh
  <1>2. f.acct \in Accounts
    BY DEF Fact
  <1>3. CASE f \in add[s] \cup swap[s]
    BY <1>3 DEF Safe
  <1>4. CASE f.acct \in Vanished(s)
    <2>1. rowId[f.acct] # ids[s][f.acct] /\ f.acct \notin Fresh(s) /\ ids[s][f.acct] # 0
      BY <1>4 DEF Vanished, Resolved
    <2>2. rowId'[f.acct] # ids'[s][f.acct]
      BY <2>1
    <2>3. f.acct \in Vanished(s)'
      BY <1>1, <2>1, <2>2 DEF Vanished
    <2>4. QED
      BY <2>3 DEF Safe
  <1>5. CASE f \in facts /\ f \notin facts'
    <2>1. rowId[f.acct] = f.id /\ f.id # 0
      BY <1>5 DEF RowsInv, NoOrphanRows, Current
    <2>2. f.acct \notin Fresh(s)
      BY <2>1 DEF RowsInv, OneCreator
    <2>3. f.acct \in Vanished(s)'
      BY <1>1, <2>2, <1>5 DEF Vanished
    <2>4. QED
      BY <2>3 DEF Safe
  <1>6. CASE f \in facts'
    BY <1>6 DEF Safe
  <1>7. QED
    BY <1>3, <1>4, <1>5, <1>6 DEF Safe
\* What an import resolved is no account row another one has yet to create.
IdsInv ==
  /\ \A t \in Importers, a \in Accounts : ids[t][a] <= imports
  /\ \A s, t \in Importers, a \in Accounts : s # t /\ Active(s) => ids[t][a] # num[s]

\* At the start nothing is resolved.
LEMMA InitIds == Init => IdsInv
  BY DEF Init, IdsInv, Active

\* Every step keeps it.
LEMMA StepIds == TypeOK /\ RowsInv /\ IdsInv /\ [Next]_vars => IdsInv'
  <1> SUFFICES ASSUME TypeOK, RowsInv, IdsInv, [Next]_vars PROVE IdsInv'
    OBVIOUS
  <1>0. \A t \in Importers, a \in Accounts : imports \in Nat /\ num[t] \in Nat /\ ids[t][a] \in Nat
    BY ConstantsAssumption DEF TypeOK
  <1>1. ASSUME NEW s \in Importers, NEW sn \in Snapshots, Begin(s, sn) PROVE IdsInv'
    <2>1. /\ UNCHANGED ids /\ imports' = imports + 1 /\ num'[s] = imports + 1 /\ pc[s] = "idle"
          /\ \A t \in Importers \ {s} : num'[t] = num[t] /\ pc'[t] = pc[t]
      BY <1>1 DEF Begin, Goto, TypeOK
    <2>2. \A t \in Importers, a \in Accounts : ids'[t][a] <= imports' /\ ids'[t][a] # num'[s]
      BY <2>1, <1>0 DEF IdsInv
    <2>3. QED
      BY <2>1, <2>2 DEF IdsInv, Active
  <1>2. ASSUME NEW s \in Importers, UNCHANGED <<num, imports>>, pc'[s] # "idle" => pc[s] # "idle",
               \A t \in Importers \ {s} : ids'[t] = ids[t] /\ pc'[t] = pc[t],
               \A a \in Accounts : \/ ids'[s][a] = ids[s][a]
                                   \/ ids'[s][a] = num[s] /\ pc[s] # "idle"
                                   \/ ids'[s][a] \in {0, rowId[a]}
        PROVE  IdsInv'
    <2>1. \A a \in Accounts : ids'[s][a] <= imports
      BY <1>2, <1>0 DEF IdsInv, RowsInv, FreshIds, Active
    <2>2. \A t \in Importers, a \in Accounts : t # s /\ Active(t) => ids'[s][a] # num[t]
      BY <1>2, <1>0 DEF IdsInv, RowsInv, FreshIds, Active
    <2>3. QED
      BY <1>2, <2>1, <2>2 DEF IdsInv, Active
  <1>3. ASSUME NEW s \in Importers, UpsertAccounts(s) \/ CreateAccounts(s) PROVE IdsInv'
    <2>1. /\ UNCHANGED <<num, imports>> /\ pc[s] # "idle"
          /\ \A t \in Importers \ {s} : ids'[t] = ids[t] /\ pc'[t] = pc[t]
      BY <1>3 DEF UpsertAccounts, CreateAccounts, Goto, TypeOK
    <2>2. \A a \in Accounts : \/ ids'[s][a] = ids[s][a]
                              \/ ids'[s][a] = num[s]
                              \/ ids'[s][a] \in {0, rowId[a]}
      BY <1>3 DEF UpsertAccounts, CreateAccounts, TypeOK
    <2>3. QED
      BY <2>1, <2>2, <1>2
  <1>4. ASSUME NEW s \in Importers, Commit(s) \/ Abort(s) PROVE IdsInv'
    <2>1. Closed(s) /\ pc' = [pc EXCEPT ![s] = "idle"]
      BY <1>4 DEF Commit, Abort, Goto
    <2>2. /\ ids'[s] = [a \in Accounts |-> 0] /\ pc'[s] = "idle" /\ imports' = imports
          /\ \A t \in Importers \ {s} : ids'[t] = ids[t] /\ num'[t] = num[t] /\ pc'[t] = pc[t]
      BY <2>1 DEF Closed, TypeOK
    <2>3. \A t \in Importers, a \in Accounts : ids'[t][a] = ids[t][a] \/ (t = s /\ ids'[t][a] = 0)
      BY <2>2
    <2>4. \A t \in Importers : Active(t) => num[t] # 0
      BY DEF RowsInv, FreshIds
    <2>5. \A t, u \in Importers, a \in Accounts : t # u /\ Active(t)' => ids'[u][a] # num'[t]
      BY <2>2, <2>3, <2>4 DEF IdsInv, Active
    <2>6. QED
      BY <2>2, <2>3, <2>5, <1>0 DEF IdsInv
  <1>5. ASSUME NEW s \in Importers,
               \/ InsertActivities(s) \/ ReplacePositions(s) \/ ReplaceOpenLots(s)
               \/ InsertRealizedLots(s)
        PROVE  IdsInv'
    <2>1. /\ UNCHANGED <<num, imports, ids>> /\ pc[s] # "idle"
          /\ \A t \in Importers \ {s} : pc'[t] = pc[t]
      BY <1>5 DEF InsertActivities, ReplacePositions, ReplaceOpenLots, StartDelete,
         FinishDelete, InsertRealizedLots, ClearStep, Goto, TypeOK
    <2>2. QED
      BY <2>1, <1>2
  <1>6. CASE UNCHANGED <<ids, num, pc, imports>>
    BY <1>6 DEF IdsInv, Active
  <1>7. QED
    BY <1>1, <1>3, <1>4, <1>5, <1>6 DEF Next, Import, Settings, BeginDelete, BeginRestore,
       SavePreferences, CommitDelete, CommitRestore, FailDelete, private, vars

\* The steps of others: they commit, delete, or leave accounts and facts alone.
LEMMA OthersSafe ==
  ASSUME NoLegacyStated, TypeOK, RowsInv, IdsInv, SnapInv, CountedInv, NEW t \in Importers,
         pc[t] # "idle",
         NEW f \in Reported(t, "transactions") \cup Reported(t, "realized_lots"), Safe(t, f),
         UNCHANGED <<ids[t], num[t], add[t], swap[t]>>,
         \/ UNCHANGED <<rowId, facts>>
         \/ \E s \in Importers \ {t} : Commit(s)
         \/ \E r \in open : CommitDelete(r)
  PROVE  Safe(t, f)'
  <1>1. f \in Fact /\ f.acct \in Resolved(t) /\ f.id = ids[t][f.acct] /\ f.acct \in Accounts /\ f.id # 0
    BY DEF Reported, Resolved, Fact
  <1>2. f.acct \in Fresh(t) => rowId[f.acct] = 0
    BY DEF RowsInv, OneCreator
  <1>3. CASE UNCHANGED <<rowId, facts>>
    BY <1>1, <1>3, StaysSafe
  <1>4. CASE \E s \in Importers \ {t} : Commit(s)
    <2>1. PICK s \in Importers \ {t} : Commit(s)
      BY <1>4
    <2>2. /\ \A a \in Accounts : rowId'[a] = IF a \in Fresh(s) THEN num[s] ELSE rowId[a]
          /\ facts' = (facts \ {Before(g) : g \in swap[s]}) \cup swap[s] \cup add[s]
          /\ pc[s] = "commit"
      BY <2>1 DEF Commit, Goto
    <2>3. \A a \in Fresh(s) : rowId[a] = 0 /\ a \notin Fresh(t)
      BY DEF RowsInv, OneCreator
    <2>4. f.id # num[s]
      BY <1>1, <2>2 DEF IdsInv, Active
    <2>5. \A g \in swap[s] : Before(g) # f
      <3>1. SUFFICES ASSUME NEW g \in swap[s], Before(g) = f PROVE FALSE
        OBVIOUS
      <3>2. g \in Fact /\ g.table = "transactions"
        BY DEF TypeOK, CountedInv
      <3>3. f.table = "transactions" /\ f.key = Legacy[g.key] /\ g.key \in Keys
        BY <3>1, <3>2 DEF Before, Fact
      <3>4. f \in Reported(t, "transactions")
        BY <3>3 DEF Reported
      <3>5. \E i \in DOMAIN snap[t].acts[f.acct] : f.key = snap[t].acts[f.acct][i]
        BY <3>4, ReportedKey
      <3>6. QED
        BY <3>3, <3>5, <1>1 DEF NoLegacyStated, SnapInv
    <2>6. f \in facts => f \in facts'
      BY <2>2, <2>5
    <2>7. f.acct \in Fresh(t) => rowId'[f.acct] = rowId[f.acct]
      BY <2>2, <2>3, <1>1
    <2>8. rowId'[f.acct] \in {0, rowId[f.acct]} \/ rowId[f.acct] = 0
      BY <2>2, <2>3, <1>1
    <2>9. rowId[f.acct] = 0 => rowId'[f.acct] # f.id
      BY <2>2, <2>4, <1>1
    <2>10. QED
      BY <1>1, <2>6, <2>7, <2>8, <2>9, StaysSafe
  <1>5. CASE \E r \in open : CommitDelete(r)
    <2>1. PICK r \in open : CommitDelete(r)
      BY <1>5
    <2>2. /\ \A a \in Accounts : rowId'[a] = IF a = r.acct /\ rowId[a] = r.id THEN 0 ELSE rowId[a]
          /\ facts' = {g \in facts : ~(g.acct = r.acct /\ g.id = r.id)}
      BY <2>1 DEF CommitDelete
    <2>3. f \in facts \ facts' => rowId'[f.acct] = 0
      BY <2>2, <1>1 DEF RowsInv, NoOrphanRows, Current
    <2>4. /\ rowId'[f.acct] \in {0, rowId[f.acct]}
          /\ rowId[f.acct] = 0 => rowId'[f.acct] = 0
      BY <2>2, <1>1
    <2>5. QED
      BY <1>1, <1>2, <2>3, <2>4, StaysSafe
  <1>6. QED
    BY <1>3, <1>4, <1>5
\* The invariants the next facts rest on.
Stores == NoLegacyStated /\ TypeOK /\ RowsInv /\ IdsInv /\ SnapInv /\ CountedInv /\ StoredInv

\* Each activity is inserted, re-typed, or stored already.
LEMMA InsertSafe ==
  ASSUME NoLegacyStated, TypeOK, SnapInv, NEW s \in Importers, InsertActivities(s),
         NEW f \in Reported(s, "transactions")
  PROVE  Safe(s, f)'
  <1>1. PICK i \in DOMAIN snap[s].acts[f.acct] : f.key = snap[s].acts[f.acct][i]
    BY ReportedKey
  <1> DEFINE acts == snap[s].acts[f.acct]
             seen == Seen(s, f.acct)
  <1>2. f \in Fact /\ f.table = "transactions" /\ f.id = ids[s][f.acct] /\ f.acct \in Accounts
    BY ReportedKey DEF Fact
  <1>3. snap[s] \in Snapshots /\ acts \in Seq(Keys)
    BY <1>2, ConstantsAssumption DEF InsertActivities, Goto, SnapInv, Fetched
  <1>4. \A j \in 1 .. i - 1 : j \in DOMAIN acts
    BY <1>1, <1>3
  <1>5. CASE Inserted(seen, acts, i)
    <2>1. f.key \in InsertedKeys(seen, acts)
      BY <1>1, <1>5 DEF InsertedKeys
    <2>2. QED
      BY <2>1 DEF InsertActivities, TypeOK, Safe
  <1>6. CASE Upgrades(seen, acts, i)
    <2>1. f.key \in Keys /\ Legacy[f.key] \in Keys
      BY <1>2, <1>6, <1>1, ConstantsAssumption DEF Upgrades, Fact
    <2>2. ~ListedBefore(acts, i, Legacy[acts[i]])
      BY <1>1, <1>2, <1>3, <1>4, <2>1 DEF ListedBefore, NoLegacyStated
    <2>3. f.key \in RetypedKeys(seen, acts)
      BY <1>1, <1>6, <2>2 DEF RetypedKeys, Upgrades
    <2>4. QED
      BY <2>3 DEF InsertActivities, TypeOK, Safe
  <1>7. CASE ~Inserted(seen, acts, i) /\ ~Upgrades(seen, acts, i)
    <2>1. f.key \in seen
      BY <1>1, <1>7 DEF Inserted
    <2>2. PICK g \in facts : /\ g.table = "transactions" /\ g.acct = f.acct
                             /\ g.id = ids[s][f.acct] /\ g.key = f.key
      BY <2>1 DEF Seen
    <2>3. g \in Fact
      BY DEF TypeOK
    <2>4. g = f
      BY <2>2, <2>3, <1>2 DEF Fact
    <2>5. QED
      BY <2>4 DEF InsertActivities, Safe, db
  <1>8. QED
    BY <1>5, <1>6, <1>7

\* A closed lot is inserted unless its account has it stored already.
LEMMA LotsSafe ==
  ASSUME LotsOfOneAccount, TypeOK, RowsInv, SnapInv, StoredInv, NEW s \in Importers,
         InsertRealizedLots(s), NEW f \in Reported(s, "realized_lots")
  PROVE  Safe(s, f)'
  <1>1. /\ f \in Fact /\ f.table = "realized_lots" /\ f.acct \in Accounts /\ f.id = ids[s][f.acct]
        /\ f.acct \in Resolved(s) /\ f.key \in snap[s].realized[f.acct]
    BY DEF Reported, Fact
  <1>2. snap[s] \in Snapshots /\ UNCHANGED <<facts, rowId, ids, num>>
    BY DEF InsertRealizedLots, Goto, SnapInv, db
  <1>3. CASE \E g \in facts : g.table = "realized_lots" /\ g.key = f.key
    <2>1. PICK g \in facts : g.table = "realized_lots" /\ g.key = f.key
      BY <1>3
    <2>2. g \in Fact /\ g.acct \in Accounts /\ rowId[g.acct] = g.id /\ g.id # 0
      BY DEF TypeOK, Fact, RowsInv, NoOrphanRows, Current
    <2>3. PICK sn \in Snapshots : g.key \in sn.realized[g.acct]
      BY <2>1 DEF StoredInv, Ours
    <2>4. g.acct = f.acct
      BY <2>1, <2>2, <2>3, <1>1, <1>2 DEF LotsOfOneAccount
    <2>5. CASE g.id = f.id
      <3>1. g = f
        BY <2>1, <2>2, <2>4, <2>5, <1>1 DEF Fact
      <3>2. QED
        BY <3>1, <1>2 DEF Safe
    <2>6. CASE g.id # f.id
      <3>1. f.acct \notin Fresh(s)
        BY <2>2, <2>4 DEF RowsInv, OneCreator
      <3>2. f.acct \in Vanished(s)
        BY <3>1, <2>2, <2>4, <2>6, <1>1 DEF Vanished
      <3>3. Vanished(s)' = Vanished(s)
        BY <1>2 DEF Vanished, Resolved, Fresh
      <3>4. QED
        BY <3>2, <3>3 DEF Safe
    <2>7. QED
      BY <2>5, <2>6
  <1>4. CASE ~\E g \in facts : g.table = "realized_lots" /\ g.key = f.key
    BY <1>4 DEF InsertRealizedLots, TypeOK, Safe
  <1>5. QED
    BY <1>3, <1>4

\* The reported rows of an importer whose snapshot and accounts stay.
LEMMA SameReported ==
  ASSUME NEW t \in Importers, UNCHANGED <<snap[t], ids[t]>>
  PROVE  /\ Reported(t, "transactions")' = Reported(t, "transactions")
         /\ Reported(t, "realized_lots")' = Reported(t, "realized_lots")
  BY DEF Reported, Resolved

\* A lot of an import is one its snapshot states.
LEMMA LotsAreOurs ==
  ASSUME TypeOK, SnapInv, NEW s \in Importers, pc[s] # "idle",
         NEW f \in Reported(s, "realized_lots")
  PROVE  Ours(f)
  BY DEF Reported, Ours, SnapInv

\* What a commit carries is stored when it is done, and what was stored before stays.
LEMMA CommitStores ==
  ASSUME Stores, NEW s \in Importers, Commit(s)
  PROVE  StatedIsStored'
  <1> USE DEF Stores
  <1>1. /\ facts' = (facts \ {Before(g) : g \in swap[s]}) \cup swap[s] \cup add[s]
        /\ stated' = stated \cup {f \in Reported(s, "transactions") \cup Reported(s, "realized_lots") :
                                    f.acct \notin Vanished(s)}
        /\ pc[s] = "commit"
    BY DEF Commit, Goto
  <1>2. \A g \in swap[s] : /\ g \in Fact /\ g.table = "transactions" /\ g.key \in Keys
                           /\ Before(g) = [g EXCEPT !.key = Legacy[g.key]]
                           /\ Before(g).table = "transactions"
    BY DEF TypeOK, CountedInv, Before, Fact
  <1>3. ASSUME NEW f \in Reported(s, "transactions") \cup Reported(s, "realized_lots"),
               f.acct \notin Vanished(s)
        PROVE  f \in facts'
    <2>1. f \in facts \cup add[s] \cup swap[s]
      BY <1>1, <1>3 DEF StoredInv, Safe, Prepared
    <2>2. \A g \in swap[s] : Before(g) # f
      <3>1. SUFFICES ASSUME NEW g \in swap[s], Before(g) = f PROVE FALSE
        OBVIOUS
      <3>2. f.table = "transactions" /\ f.key = Legacy[g.key] /\ g.key \in Keys
        BY <3>1, <1>2 DEF Before, Fact
      <3>3. f \in Reported(s, "transactions") /\ f.acct \in Accounts
        BY <3>2 DEF Reported, Fact
      <3>4. QED
        BY <3>2, <3>3, <1>1, ReportedKey DEF NoLegacyStated, SnapInv
    <2>3. QED
      BY <1>1, <2>1, <2>2
  <1>4. ASSUME NEW f \in stated, f \in facts
        PROVE  \/ f \in facts'
               \/ \E k \in Keys : Legacy[k] = f.key /\ [f EXCEPT !.key = k] \in facts'
    <2>1. CASE \E g \in swap[s] : Before(g) = f
      <3>1. PICK g \in swap[s] : Before(g) = f
        BY <2>1
      <3>2. Legacy[g.key] = f.key /\ g.key \in Keys /\ [f EXCEPT !.key = g.key] = g
        BY <3>1, <1>2 DEF Fact
      <3>3. QED
        BY <3>2, <1>1
    <2>2. CASE ~\E g \in swap[s] : Before(g) = f
      BY <2>2, <1>4, <1>1
    <2>3. QED
      BY <2>1, <2>2
  <1>5. ASSUME NEW f \in stated, NEW k \in Keys, Legacy[k] = f.key, [f EXCEPT !.key = k] \in facts
        PROVE  [f EXCEPT !.key = k] \in facts'
    <2>1. f \in Fact /\ f.key \in Keys
      BY DEF TypeOK, Fact
    <2>2. \A g \in swap[s] : Before(g) # [f EXCEPT !.key = k]
      <3>1. SUFFICES ASSUME NEW g \in swap[s], Before(g) = [f EXCEPT !.key = k] PROVE FALSE
        OBVIOUS
      <3>2. Legacy[g.key] = k /\ g.key \in Keys
        BY <3>1, <1>2, <2>1 DEF Fact
      <3>3. Legacy[k] = NoKey
        BY <3>2, ConstantsAssumption
      <3>4. QED
        BY <3>3, <2>1, <1>5, ConstantsAssumption
    <2>3. QED
      BY <2>2, <1>5, <1>1
  <1>6. \A f \in stated : \/ f \in facts'
                          \/ \E k \in Keys : Legacy[k] = f.key /\ [f EXCEPT !.key = k] \in facts'
    BY <1>4, <1>5 DEF StoredInv, StatedIsStored
  <1>7. QED
    BY <1>1, <1>3, <1>6 DEF StatedIsStored

\* A delete takes what was stated of the account with its rows.
LEMMA DeleteStores ==
  ASSUME TypeOK, StatedIsStored, NEW r \in open, CommitDelete(r)
  PROVE  StatedIsStored'
  <1>1. /\ facts' = {f \in facts : ~(f.acct = r.acct /\ f.id = r.id)}
        /\ stated' = {f \in stated : ~(f.acct = r.acct /\ f.id = r.id)}
    BY DEF CommitDelete
  <1>2. \A f \in stated, k \in Keys : [f EXCEPT !.key = k].acct = f.acct /\ [f EXCEPT !.key = k].id = f.id
    BY DEF TypeOK, Fact
  <1>3. ASSUME NEW f \in stated'
        PROVE  f \in facts' \/ \E k \in Keys : Legacy[k] = f.key /\ [f EXCEPT !.key = k] \in facts'
    <2>1. f \in stated /\ ~(f.acct = r.acct /\ f.id = r.id)
      BY <1>1
    <2>2. CASE f \in facts
      BY <2>1, <2>2, <1>1
    <2>3. CASE f \notin facts
      <3>1. PICK k \in Keys : Legacy[k] = f.key /\ [f EXCEPT !.key = k] \in facts
        BY <2>1, <2>3 DEF StatedIsStored
      <3>2. [f EXCEPT !.key = k] \in facts'
        BY <3>1, <2>1, <1>1, <1>2
      <3>3. QED
        BY <3>1, <3>2
    <2>4. QED
      BY <2>2, <2>3
  <1>4. QED
    BY <1>3 DEF StatedIsStored

\* An import leaves the others' sessions alone.
LEMMA Beside ==
  ASSUME TypeOK, NEW s \in Importers, Import(s), NEW t \in Importers \ {s}
  PROVE  /\ UNCHANGED <<snap[t], ids[t], num[t], add[t], swap[t], pc[t]>>
         /\ UNCHANGED <<rowId, facts, stated>> \/ Commit(s)
  <1>1. CASE \E sn \in Snapshots : Begin(s, sn)
    BY <1>1 DEF Begin, Goto, TypeOK, db, ghosts
  <1>2. CASE UpsertAccounts(s) \/ CreateAccounts(s)
    BY <1>2 DEF UpsertAccounts, CreateAccounts, Goto, TypeOK, db, ghosts
  <1>3. CASE InsertActivities(s) \/ InsertRealizedLots(s)
    BY <1>3 DEF InsertActivities, InsertRealizedLots, Goto, TypeOK, db, ghosts
  <1>4. CASE ReplacePositions(s) \/ ReplaceOpenLots(s)
    BY <1>4 DEF ReplacePositions, ReplaceOpenLots, StartDelete, FinishDelete, Goto, TypeOK, db, ghosts
  <1>5. CASE Commit(s) \/ Abort(s)
    BY <1>5 DEF Commit, Abort, Closed, Goto, TypeOK, db
  <1>6. QED
    BY <1>1, <1>2, <1>3, <1>4, <1>5 DEF Import

\* A step of an import keeps what was stated safe.
LEMMA ImportStored ==
  ASSUME LotsOfOneAccount, Stores, NEW s \in Importers, Import(s)
  PROVE  StoredInv'
  <1> USE DEF Stores
  <1>1. ASSUME NEW t \in Importers \ {s}
        PROVE  /\ pc'[t] \in Prepared => \A f \in Reported(t, "transactions")' : Safe(t, f)'
               /\ pc'[t] = "commit" => \A f \in Reported(t, "realized_lots")' : Safe(t, f)'
    <2>1. /\ UNCHANGED <<snap[t], ids[t], num[t], add[t], swap[t], pc[t]>>
          /\ UNCHANGED <<rowId, facts>> \/ Commit(s)
      BY Beside
    <2>2. ASSUME pc[t] \in Prepared, NEW f \in Reported(t, "transactions") PROVE Safe(t, f)'
      BY <2>1, <2>2, OthersSafe DEF StoredInv, Prepared
    <2>3. ASSUME pc[t] = "commit", NEW f \in Reported(t, "realized_lots") PROVE Safe(t, f)'
      BY <2>1, <2>3, OthersSafe DEF StoredInv
    <2>4. QED
      BY <2>1, <2>2, <2>3, SameReported
  <1>2. ASSUME UNCHANGED <<rowId, facts, stated>>,
               pc'[s] \in Prepared => \A f \in Reported(s, "transactions")' : Safe(s, f)',
               pc'[s] = "commit" => \A f \in Reported(s, "realized_lots")' : Safe(s, f)',
               \A f \in add'[s] : f \in add[s] \/ f.table # "realized_lots" \/ Ours(f)
        PROVE  StoredInv'
    <2>1. \A t \in Importers : \A f \in add'[t] : f.table = "realized_lots" => Ours(f)
      BY <1>2, Beside DEF StoredInv
    <2>2. StatedIsStored'
      BY <1>2 DEF StoredInv, StatedIsStored
    <2>3. \A f \in facts' : f.table = "realized_lots" => Ours(f)
      BY <1>2 DEF StoredInv
    <2>4. \A t \in Importers : pc'[t] \in Prepared => \A f \in Reported(t, "transactions")' : Safe(t, f)'
      BY <1>1, <1>2
    <2>5. \A t \in Importers : pc'[t] = "commit" => \A f \in Reported(t, "realized_lots")' : Safe(t, f)'
      BY <1>1, <1>2
    <2>6. QED
      BY <2>1, <2>2, <2>3, <2>4, <2>5 DEF StoredInv, Ours
  <1>3. CASE \E sn \in Snapshots : Begin(s, sn)
    <2>1. UNCHANGED <<rowId, facts, stated, add>> /\ pc'[s] = "accounts"
      BY <1>3 DEF Begin, Goto, TypeOK, db, ghosts
    <2>2. QED
      BY <2>1, <1>2 DEF Prepared
  <1>4. CASE UpsertAccounts(s) \/ CreateAccounts(s)
    <2>1. UNCHANGED <<rowId, facts, stated, add>> /\ pc'[s] \in {"create", "transactions"}
      BY <1>4 DEF UpsertAccounts, CreateAccounts, Goto, TypeOK, db, ghosts
    <2>2. QED
      BY <2>1, <1>2 DEF Prepared
  <1>5. CASE InsertActivities(s)
    <2>1. UNCHANGED <<rowId, facts, stated, snap, ids>> /\ pc'[s] = "positions"
      BY <1>5 DEF InsertActivities, Goto, TypeOK, db, ghosts
    <2>2. \A f \in add'[s] : f.table = "transactions"
      BY <1>5 DEF InsertActivities, TypeOK, Reported
    <2>3. \A f \in Reported(s, "transactions")' : Safe(s, f)'
      BY <1>5, <2>1, InsertSafe, SameReported
    <2>4. QED
      BY <2>1, <2>2, <2>3, <1>2
  <1>6. CASE ReplacePositions(s) \/ ReplaceOpenLots(s)
    <2>1. /\ UNCHANGED <<rowId, facts, stated, snap, ids, num, add, swap>>
          /\ pc[s] \in Prepared /\ pc'[s] # "commit"
      BY <1>6 DEF ReplacePositions, ReplaceOpenLots, StartDelete, FinishDelete, ClearStep,
                  AfterClear, Prepared, Goto, TypeOK, db, ghosts
    <2>2. \A f \in Reported(s, "transactions") : Safe(s, f)'
      BY <2>1, OthersSafe DEF StoredInv, Prepared
    <2>3. \A f \in Reported(s, "transactions")' : Safe(s, f)'
      BY <2>1, <2>2, SameReported
    <2>4. QED
      BY <2>1, <2>3, <1>2
  <1>7. CASE InsertRealizedLots(s)
    <2>1. /\ UNCHANGED <<rowId, facts, stated, snap, ids, num, swap>>
          /\ pc[s] = "realized_lots" /\ add[s] \subseteq add'[s]
      BY <1>7 DEF InsertRealizedLots, Goto, TypeOK, db, ghosts
    <2>2. \A f \in add'[s] : f \in add[s] \/ Ours(f)
      <3>1. \A f \in add'[s] : f \in add[s] \/ f \in Reported(s, "realized_lots")
        BY <1>7 DEF InsertRealizedLots, TypeOK
      <3>2. QED
        BY <3>1, <2>1, LotsAreOurs
    <2>3. \A f \in Reported(s, "transactions") : Safe(s, f)'
      <3>1. \A f \in Reported(s, "transactions") : Safe(s, f)
        BY <2>1 DEF StoredInv, Prepared
      <3>2. Vanished(s)' = Vanished(s)
        BY <2>1 DEF Vanished, Resolved, Fresh
      <3>3. QED
        BY <2>1, <3>1, <3>2 DEF Safe
    <2>4. \A f \in Reported(s, "realized_lots") : Safe(s, f)'
      BY <1>7, LotsSafe
    <2>5. QED
      BY <2>1, <2>2, <2>3, <2>4, <1>2, SameReported
  <1>8. CASE Commit(s)
    <2>1. /\ facts' \subseteq facts \cup swap[s] \cup add[s] /\ add'[s] = {} /\ pc'[s] = "idle"
      BY <1>8 DEF Commit, Closed, Goto, TypeOK
    <2>2. \A f \in facts' : f.table = "realized_lots" => Ours(f)
      <3>1. \A f \in swap[s] : f.table = "transactions"
        BY DEF CountedInv
      <3>2. QED
        BY <2>1, <3>1 DEF StoredInv
    <2>3. \A t \in Importers : \A f \in add'[t] : f.table = "realized_lots" => Ours(f)
      BY <2>1, Beside DEF StoredInv
    <2>4. pc'[s] \notin Prepared /\ pc'[s] # "commit"
      BY <2>1 DEF Prepared
    <2>5. \A t \in Importers : pc'[t] \in Prepared => \A f \in Reported(t, "transactions")' : Safe(t, f)'
      BY <1>1, <2>4
    <2>6. \A t \in Importers : pc'[t] = "commit" => \A f \in Reported(t, "realized_lots")' : Safe(t, f)'
      BY <1>1, <2>4
    <2>7. QED
      BY <1>8, <2>2, <2>3, <2>5, <2>6, CommitStores DEF StoredInv, Ours
  <1>9. CASE Abort(s)
    <2>1. UNCHANGED <<rowId, facts, stated>> /\ add'[s] = {} /\ pc'[s] = "idle"
      BY <1>9 DEF Abort, Closed, Goto, TypeOK, db
    <2>2. QED
      BY <2>1, <1>2 DEF Prepared
  <1>10. QED
    BY <1>3, <1>4, <1>5, <1>6, <1>7, <1>8, <1>9 DEF Import

\* So does every other step.
LEMMA RestStored ==
  ASSUME Stores, Settings \/ UNCHANGED vars
  PROVE  StoredInv'
  <1> USE DEF Stores
  <1>1. /\ UNCHANGED <<snap, ids, num, add, swap, pc>>
        /\ UNCHANGED <<rowId, facts, stated>> \/ \E r \in open : CommitDelete(r)
    BY DEF Settings, BeginDelete, BeginRestore, SavePreferences, CommitDelete, CommitRestore,
           FailDelete, db, private, ghosts, vars
  <1>2. ASSUME NEW t \in Importers
        PROVE  /\ pc'[t] \in Prepared => \A f \in Reported(t, "transactions")' : Safe(t, f)'
               /\ pc'[t] = "commit" => \A f \in Reported(t, "realized_lots")' : Safe(t, f)'
    <2>1. ASSUME pc[t] \in Prepared, NEW f \in Reported(t, "transactions") PROVE Safe(t, f)'
      BY <1>1, <2>1, OthersSafe DEF StoredInv, Prepared
    <2>2. ASSUME pc[t] = "commit", NEW f \in Reported(t, "realized_lots") PROVE Safe(t, f)'
      BY <1>1, <2>2, OthersSafe DEF StoredInv
    <2>3. QED
      BY <1>1, <2>1, <2>2, SameReported
  <1>3. facts' \subseteq facts /\ StatedIsStored'
    <2>1. CASE UNCHANGED <<facts, stated>>
      BY <2>1 DEF StoredInv, StatedIsStored
    <2>2. CASE \E r \in open : CommitDelete(r)
      BY <2>2, DeleteStores DEF CommitDelete, StoredInv
    <2>3. QED
      BY <1>1, <2>1, <2>2
  <1>4. QED
    BY <1>1, <1>2, <1>3 DEF StoredInv, Ours

\* At the start the database is what was stated.
LEMMA InitStored == Init => StoredInv
  BY DEF Init, StoredInv, StatedIsStored, Prepared

\* Every transaction and closed lot a committed import carried is in the table, under its own
\* key or re-typed to the reinvestment it was, whatever imports and deletes ran meanwhile.
THEOREM StatedStays ==
  ASSUME NoLegacyStated, LotsOfOneAccount
  PROVE  Spec => []StatedIsStored
  <1>1. StoredInv => StatedIsStored
    BY DEF StoredInv
  <1>2. Stores /\ [Next]_vars => StoredInv'
    BY ImportStored, RestStored DEF Next
  <1>3. QED
    BY <1>1, <1>2, InitCounted, StepSnap, StepCounted, InitIds, StepIds, InitStored,
       TypeCorrect, RowsCorrect, PTL DEF Spec, Stores
----------------------------------------------------------------------------
(* Run one session at a time, PersistSnapshot implements BrokerBook.  A    *)
(* lone session reads a database nobody else changes, so that what it      *)
(* prepared at each step (SerialInv) is still what the tables say at its   *)
(* commit, and the commit then does what the abstract import does.         *)

\* What the DELETE of a table is to remove.
Outdated(s, table) == {r \in held : /\ r.table = table
                                    /\ r.acct \in Scoped(s, table)
                                    /\ r.id = ids[s][r.acct]}

\* An open request has read what the database still holds.
OpenInv ==
  \A r \in open : /\ r.read = excluded[r.portfolio]
                  /\ r.id = rowId[r.acct]
                  /\ r.op = "delete" => r.id # 0 /\ owner[r.acct] = r.portfolio

\* So has an import: the list, the account rows, and it prepares what it reported.
ReadInv(s) ==
  /\ pc[s] # "idle" => excl[s] = excluded[snap[s].portfolio]
  /\ pc[s] = "create" => \A a \in Accounts : ids[s][a] = IF a \in Kept(s) THEN rowId[a] ELSE 0
  /\ pc[s] \in Prepared \cup {"transactions"} =>
       \A a \in Accounts : ids[s][a] = IF a \notin Kept(s) THEN 0
                                       ELSE IF Row(a) THEN rowId[a] ELSE num[s]
  /\ pc[s] \in Prepared \cup {"create", "transactions"} =>
       moved[s] = {a \in Kept(s) \cap Stable : Row(a) /\ owner[a] # snap[s].portfolio}
  /\ add[s] \cup swap[s] \subseteq Reported(s, "transactions") \cup Reported(s, "realized_lots")

\* What it has deleted so far.
Emptied(s) ==
  /\ pc[s] \in {"accounts", "create", "transactions", "positions", "clear_positions"} => doomed[s] = {}
  /\ pc[s] = "clear_positions" => vis[s] = Outdated(s, "positions")
  /\ pc[s] \in {"open_lots", "clear_open_lots"} => doomed[s] = Outdated(s, "positions")
  /\ pc[s] = "clear_open_lots" => vis[s] = Outdated(s, "open_lots")
  /\ pc[s] \in {"realized_lots", "commit"} =>
       doomed[s] = Outdated(s, "positions") \cup Outdated(s, "open_lots")

\* With one session at a time, what each session prepared still agrees with the database.
SerialInv == OneAtATime /\ OpenInv /\ \A s \in Importers : ReadInv(s) /\ Emptied(s)

\* No session, nothing read.
LEMMA InitSerial == Init => SerialInv
  <1> SUFFICES ASSUME Init PROVE SerialInv
    OBVIOUS
  <1>1. OneAtATime /\ OpenInv
    BY DEF Init, OneAtATime, OpenInv
  <1>2. ASSUME NEW s \in Importers PROVE ReadInv(s) /\ Emptied(s)
    <2>1. pc[s] = "idle" /\ add[s] = {} /\ swap[s] = {}
      BY DEF Init
    <2>2. QED
      BY <2>1 DEF ReadInv, Emptied, Prepared
  <1>3. QED
    BY <1>1, <1>2 DEF SerialInv

\* Begin reads the portfolio's exclusion list and has deleted nothing.
LEMMA BeginSerial ==
  ASSUME TypeOK, RowsInv, GoneInv, NEW s \in Importers, NEW sn \in Snapshots, Begin(s, sn)
  PROVE  ReadInv(s)' /\ Emptied(s)'
  <1>1. /\ pc[s] = "idle" /\ pc'[s] = "accounts" /\ excl'[s] = excluded[sn.portfolio]
        /\ snap'[s] = sn /\ UNCHANGED <<excluded, add, swap, doomed>>
    BY DEF Begin, Goto, TypeOK, db
  <1>2. add[s] = {} /\ swap[s] = {} /\ doomed[s] = {}
    BY <1>1 DEF RowsInv, PendingResolved, GoneInv
  <1>3. ReadInv(s)'
    BY <1>1, <1>2 DEF ReadInv, Prepared
  <1>4. QED
    BY <1>1, <1>2, <1>3 DEF Emptied

\* upsert_account: the row of each account that exists, and the moved ones.
LEMMA UpsertSerial ==
  ASSUME TypeOK, RowsInv, NEW s \in Importers, ReadInv(s), Emptied(s), UpsertAccounts(s)
  PROVE  ReadInv(s)' /\ Emptied(s)'
  <1>1. /\ pc[s] = "accounts" /\ pc'[s] = "create"
        /\ UNCHANGED <<rowId, owner, excluded, snap, excl, add, swap, doomed>>
        /\ \A a \in Accounts : ids'[s][a] = IF a \in Kept(s) THEN rowId[a] ELSE 0
        /\ moved'[s] = {a \in Kept(s) \cap Stable : Row(a) /\ owner[a] # snap[s].portfolio}
    BY DEF UpsertAccounts, Goto, TypeOK, db
  <1>2. Kept(s)' = Kept(s) /\ add[s] = {} /\ swap[s] = {}
    BY <1>1 DEF Kept, RowsInv, PendingResolved
  <1>3. {a \in Kept(s) \cap Stable : Row(a) /\ owner[a] # snap[s].portfolio}'
          = {a \in Kept(s) \cap Stable : Row(a) /\ owner[a] # snap[s].portfolio}
    BY <1>1, <1>2 DEF Row
  <1>4. ReadInv(s)'
    BY <1>1, <1>2, <1>3 DEF ReadInv, Prepared
  <1>5. QED
    BY <1>1, <1>4 DEF Emptied

\* The missing accounts take the number of this import.
LEMMA CreateSerial ==
  ASSUME TypeOK, RowsInv, NEW s \in Importers, ReadInv(s), Emptied(s), CreateAccounts(s)
  PROVE  ReadInv(s)' /\ Emptied(s)'
  <1>1. /\ pc[s] = "create" /\ pc'[s] = "transactions"
        /\ UNCHANGED <<rowId, owner, excluded, snap, excl, num, moved, add, swap, doomed>>
        /\ \A a \in Accounts : ids'[s][a] = IF a \in Missing(s) THEN num[s] ELSE ids[s][a]
    BY DEF CreateAccounts, Goto, TypeOK, db
  <1>2. /\ Kept(s)' = Kept(s) /\ add[s] = {} /\ swap[s] = {}
        /\ \A a \in Accounts : Row(a)' = Row(a)
    BY <1>1 DEF Kept, RowsInv, PendingResolved, Row
  <1>3. \A a \in Accounts : ids'[s][a] = IF a \notin Kept(s) THEN 0
                                         ELSE IF Row(a) THEN rowId[a] ELSE num[s]
    BY <1>1 DEF ReadInv, Missing, Row
  <1>4. moved[s]' = {a \in Kept(s) \cap Stable : Row(a) /\ owner[a] # snap[s].portfolio}'
    <2>1. {a \in Kept(s) \cap Stable : Row(a) /\ owner[a] # snap[s].portfolio}'
            = {a \in Kept(s) \cap Stable : Row(a) /\ owner[a] # snap[s].portfolio}
      BY <1>1, <1>2 DEF Row
    <2>2. QED
      BY <1>1, <2>1 DEF ReadInv
  <1>5. ReadInv(s)'
    BY <1>1, <1>2, <1>3, <1>4 DEF ReadInv, Prepared
  <1>6. QED
    BY <1>1, <1>5 DEF ReadInv, Emptied

\* The later steps leave the accounts resolved: what is left to see is the rest.
LEMMA PreparedSerial ==
  ASSUME TypeOK, NEW s \in Importers, ReadInv(s),
         pc[s] \in Prepared \cup {"transactions"}, pc'[s] \in Prepared \cup {"transactions"},
         UNCHANGED <<rowId, owner, excluded, snap, excl, num, ids, moved>>,
         add'[s] \cup swap'[s] \subseteq add[s] \cup swap[s] \cup Reported(s, "transactions")
                                           \cup Reported(s, "realized_lots")
  PROVE  ReadInv(s)'
  <1>1. /\ Kept(s)' = Kept(s) /\ \A a \in Accounts : Row(a)' = Row(a)
        /\ Reported(s, "transactions")' = Reported(s, "transactions")
        /\ Reported(s, "realized_lots")' = Reported(s, "realized_lots")
    BY DEF Kept, Row, Reported, Resolved
  <1>2. {a \in Kept(s) \cap Stable : Row(a) /\ owner[a] # snap[s].portfolio}'
          = {a \in Kept(s) \cap Stable : Row(a) /\ owner[a] # snap[s].portfolio}
    BY <1>1 DEF Row
  <1>3. moved[s]' = {a \in Kept(s) \cap Stable : Row(a) /\ owner[a] # snap[s].portfolio}'
    BY <1>2 DEF ReadInv
  <1>4. \A a \in Accounts : ids'[s][a] = IF a \notin Kept(s)' THEN 0
                                         ELSE IF Row(a)' THEN rowId'[a] ELSE num'[s]
    BY <1>1 DEF ReadInv
  <1>5. pc'[s] # "create" /\ excl'[s] = excluded'[snap'[s].portfolio]
    BY DEF ReadInv, Prepared
  <1>6. (add[s] \cup swap[s])' \subseteq (Reported(s, "transactions") \cup Reported(s, "realized_lots"))'
    BY <1>1 DEF ReadInv
  <1>7. QED
    BY <1>3, <1>4, <1>5, <1>6 DEF ReadInv

\* The activities: what is added or re-keyed is what the snapshot reports.
LEMMA InsertSerial ==
  ASSUME TypeOK, NEW s \in Importers, ReadInv(s), Emptied(s),
         InsertActivities(s) \/ InsertRealizedLots(s)
  PROVE  ReadInv(s)' /\ Emptied(s)'
  <1>1. /\ UNCHANGED <<rowId, owner, held, excluded, snap, excl, num, ids, moved, doomed>>
        /\ \/ pc[s] = "transactions" /\ pc'[s] = "positions"
           \/ pc[s] = "realized_lots" /\ pc'[s] = "commit"
        /\ add'[s] \cup swap'[s] \subseteq add[s] \cup swap[s] \cup Reported(s, "transactions")
                                             \cup Reported(s, "realized_lots")
    BY DEF InsertActivities, InsertRealizedLots, Goto, TypeOK, db
  <1>2. \A t \in HeldTables : Outdated(s, t)' = Outdated(s, t)
    BY <1>1 DEF Outdated, Scoped, Resolved
  <1>3. Emptied(s)'
    BY <1>1, <1>2 DEF Emptied, HeldTables
  <1>4. QED
    BY <1>1, <1>3, PreparedSerial DEF Prepared

\* The bulk deletes see exactly the rows their WHERE clause names.
LEMMA ReplaceSerial ==
  ASSUME TypeOK, NEW s \in Importers, ReadInv(s), Emptied(s), NEW t \in HeldTables,
         StartDelete(s, t) \/ FinishDelete(s, t)
  PROVE  ReadInv(s)' /\ Emptied(s)'
  <1>1. /\ UNCHANGED <<rowId, owner, held, excluded, snap, excl, num, ids, moved, add, swap>>
        /\ pc[s] \in Prepared /\ pc'[s] \in Prepared
    BY DEF StartDelete, FinishDelete, ClearStep, AfterClear, HeldTables, Goto, TypeOK, db, Prepared
  <1>2. \A u \in HeldTables : Outdated(s, u)' = Outdated(s, u)
    BY <1>1 DEF Outdated, Scoped, Resolved
  <1>3. CASE StartDelete(s, t)
    <2>1. vis'[s] = Outdated(s, t) /\ doomed' = doomed /\ pc[s] = t /\ pc'[s] = ClearStep(t)
      BY <1>3 DEF StartDelete, Goto, TypeOK, Outdated
    <2>2. Emptied(s)'
      BY <2>1, <1>2 DEF Emptied, ClearStep, HeldTables
    <2>3. QED
      BY <1>1, <2>2, PreparedSerial
  <1>4. CASE FinishDelete(s, t)
    <2>1. /\ vis'[s] = {} /\ doomed'[s] = doomed[s] \cup (vis[s] \cap held)
          /\ pc[s] = ClearStep(t) /\ pc'[s] = AfterClear(t)
      BY <1>4 DEF FinishDelete, Goto, TypeOK
    <2>2. vis[s] = Outdated(s, t) /\ Outdated(s, t) \subseteq held
      BY <2>1 DEF Emptied, ClearStep, HeldTables, Outdated
    <2>3. doomed[s] = IF t = "positions" THEN {} ELSE Outdated(s, "positions")
      BY <2>1 DEF Emptied, ClearStep, HeldTables
    <2>4. Emptied(s)'
      BY <2>1, <2>2, <2>3, <1>2 DEF Emptied, ClearStep, AfterClear, HeldTables
    <2>5. QED
      BY <1>1, <2>4, PreparedSerial
  <1>5. QED
    BY <1>3, <1>4

\* Every step of a lone import.
LEMMA ImportSerial ==
  ASSUME TypeOK, RowsInv, RowsInv', GoneInv, SerialInv, OneAtATime', NEW s \in Importers, Import(s)
  PROVE  SerialInv'
  <1>1. ReadInv(s) /\ Emptied(s)
    BY DEF SerialInv
  <1>2. ReadInv(s)' /\ Emptied(s)'
    <2>1. CASE Commit(s) \/ Abort(s)
      <3>1. pc'[s] = "idle" /\ add'[s] = {} /\ swap'[s] = {}
        BY <2>1 DEF Commit, Abort, Closed, Goto, TypeOK
      <3>2. QED
        BY <3>1 DEF ReadInv, Emptied, Prepared
    <2>2. QED
      BY <1>1, <2>1, BeginSerial, UpsertSerial, CreateSerial, InsertSerial, ReplaceSerial
         DEF Import, ReplacePositions, ReplaceOpenLots, HeldTables
  <1>3. ASSUME NEW t \in Importers \ {s} PROVE ReadInv(t)' /\ Emptied(t)'
    <2>1. pc'[t] = pc[t] /\ pc[t] = "idle"
      <3>1. pc'[t] = pc[t]
        BY Beside
      <3>2. pc[s] # "idle" \/ pc'[s] # "idle"
        BY DEF Import, Begin, UpsertAccounts, CreateAccounts, InsertActivities, ReplacePositions,
               ReplaceOpenLots, StartDelete, FinishDelete, InsertRealizedLots, Commit, Abort,
               ClearStep, Goto, TypeOK
      <3>3. QED
        BY <3>1, <3>2 DEF SerialInv, OneAtATime
    <2>2. add'[t] = {} /\ swap'[t] = {}
      BY <2>1 DEF RowsInv, PendingResolved
    <2>3. QED
      BY <2>1, <2>2 DEF ReadInv, Emptied, Prepared
  <1>4. open = {} /\ open' = {}
    <2>1. UNCHANGED open
      BY DEF Import, Begin, UpsertAccounts, CreateAccounts, InsertActivities, ReplacePositions,
             ReplaceOpenLots, StartDelete, FinishDelete, InsertRealizedLots, Commit, Abort, Closed
    <2>2. pc[s] # "idle" \/ pc'[s] # "idle"
      BY DEF Import, Begin, UpsertAccounts, CreateAccounts, InsertActivities, ReplacePositions,
             ReplaceOpenLots, StartDelete, FinishDelete, InsertRealizedLots, Commit, Abort,
             ClearStep, Goto, TypeOK
    <2>3. QED
      BY <2>1, <2>2 DEF SerialInv, OneAtATime
  <1>5. QED
    BY <1>2, <1>3, <1>4 DEF SerialInv, OpenInv

\* A lone settings request reads the exclusion column and the row it deletes.
LEMMA SettingsSerial ==
  ASSUME TypeOK, RowsInv, RowsInv', SerialInv, OneAtATime', Settings
  PROVE  SerialInv'
  <1>1. /\ UNCHANGED <<pc, snap, num, excl, ids, moved, vis, add, swap, doomed>>
        /\ \A s \in Importers : pc[s] = "idle"
             \/ UNCHANGED <<rowId, owner, held, facts, excluded, open>>
    <2>1. ASSUME NEW e \in Editors, NEW p \in Portfolios, NEW a \in Accounts,
                 BeginDelete(e, p, a) \/ BeginRestore(e, p, a)
          PROVE  UNCHANGED <<pc, snap, num, excl, ids, moved, vis, add, swap, doomed>> /\ open' # {}
      BY <2>1 DEF BeginDelete, BeginRestore, private
    <2>2. ASSUME NEW p \in Portfolios, SavePreferences(p)
          PROVE  /\ UNCHANGED <<pc, snap, num, excl, ids, moved, vis, add, swap, doomed>>
                 /\ UNCHANGED <<rowId, owner, held, facts, excluded, open>>
      BY <2>2 DEF SavePreferences, private
    <2>3. ASSUME NEW r \in open, CommitDelete(r) \/ CommitRestore(r) \/ FailDelete(r)
          PROVE  UNCHANGED <<pc, snap, num, excl, ids, moved, vis, add, swap, doomed>> /\ open # {}
      BY <2>3 DEF CommitDelete, CommitRestore, FailDelete, private
    <2>4. QED
      BY <2>1, <2>2, <2>3 DEF Settings, SerialInv, OneAtATime
  <1>2. ASSUME NEW s \in Importers PROVE ReadInv(s)' /\ Emptied(s)'
    <2>1. CASE pc[s] = "idle"
      <3>1. pc'[s] = "idle" /\ add'[s] = {} /\ swap'[s] = {}
        BY <1>1, <2>1 DEF RowsInv, PendingResolved
      <3>2. QED
        BY <3>1 DEF ReadInv, Emptied, Prepared
    <2>2. CASE UNCHANGED <<rowId, owner, held, facts, excluded, open>>
      <3>1. /\ Kept(s)' = Kept(s) /\ \A a \in Accounts : Row(a)' = Row(a)
            /\ Reported(s, "transactions")' = Reported(s, "transactions")
            /\ Reported(s, "realized_lots")' = Reported(s, "realized_lots")
            /\ Outdated(s, "positions")' = Outdated(s, "positions")
            /\ Outdated(s, "open_lots")' = Outdated(s, "open_lots")
        BY <1>1, <2>2 DEF Kept, Row, Reported, Resolved, Outdated, Scoped
      <3>2. {a \in Kept(s) \cap Stable : Row(a) /\ owner[a] # snap[s].portfolio}'
              = {a \in Kept(s) \cap Stable : Row(a) /\ owner[a] # snap[s].portfolio}
        BY <1>1, <2>2, <3>1 DEF Row
      <3>3. ReadInv(s) /\ Emptied(s)
        BY DEF SerialInv
      <3>4. ReadInv(s)'
        <4>1. /\ pc'[s] # "idle" => excl'[s] = excluded'[snap'[s].portfolio]
              /\ pc'[s] = "create" => \A a \in Accounts :
                   ids'[s][a] = IF a \in Kept(s)' THEN rowId'[a] ELSE 0
              /\ pc'[s] \in Prepared \cup {"transactions"} =>
                   \A a \in Accounts : ids'[s][a] = IF a \notin Kept(s)' THEN 0
                                                    ELSE IF Row(a)' THEN rowId'[a] ELSE num'[s]
              /\ add'[s] \cup swap'[s] \subseteq
                   Reported(s, "transactions")' \cup Reported(s, "realized_lots")'
          BY <1>1, <2>2, <3>1, <3>3 DEF ReadInv
        <4>2. pc'[s] \in Prepared \cup {"create", "transactions"} =>
                moved'[s] = {a \in Kept(s) \cap Stable : Row(a) /\ owner[a] # snap[s].portfolio}'
          BY <1>1, <3>2, <3>3 DEF ReadInv
        <4>3. QED
          BY <4>1, <4>2 DEF ReadInv
      <3>5. Emptied(s)'
        BY <1>1, <3>1, <3>3 DEF Emptied
      <3>6. QED
        BY <3>4, <3>5
    <2>3. QED
      BY <1>1, <2>1, <2>2
  <1>3. OpenInv'
    <2>1. ASSUME NEW e \in Editors, NEW p \in Portfolios, NEW a \in Accounts,
                 BeginDelete(e, p, a) \/ BeginRestore(e, p, a)
          PROVE  OpenInv'
      <3>1. PICK op \in {"delete", "restore"} :
              /\ open' = open \cup {Request(e, op, p, a)}
              /\ op = "delete" => Row(a) /\ owner[a] = p
        BY <2>1 DEF BeginDelete, BeginRestore
      <3>2. UNCHANGED <<rowId, owner, excluded>>
        BY <2>1 DEF BeginDelete, BeginRestore, db
      <3>3. QED
        BY <3>1, <3>2 DEF OpenInv, SerialInv, Request, Row
    <2>2. ASSUME NEW p \in Portfolios, SavePreferences(p) PROVE OpenInv'
      BY <2>2 DEF SavePreferences, OpenInv, SerialInv
    <2>3. ASSUME NEW r \in open, CommitDelete(r) \/ CommitRestore(r) \/ FailDelete(r)
          PROVE  OpenInv'
      <3>1. open' = {}
        BY <2>3 DEF CommitDelete, CommitRestore, FailDelete, SerialInv, OneAtATime
      <3>2. QED
        BY <3>1 DEF OpenInv
    <2>4. QED
      BY <2>1, <2>2, <2>3 DEF Settings
  <1>4. QED
    BY <1>2, <1>3 DEF SerialInv

\* The ledger and the book a state stands for.
Entry(f) == [table |-> f.table, acct |-> f.acct, key |-> f.key]
\* A position or lot row without its ids.
Line(r) == [table |-> r.table, acct |-> r.acct, item |-> r.item]
\* The ledger of the broker book.
Ledger == {Entry(f) : f \in facts}
\* Its positions and open lots.
Holdings == {Line(r) : r \in held}

\* What a snapshot replaces is what the book is told in full.
LEMMA ScopeIsFull ==
  ASSUME NEW sn \in Fetched, NEW table \in HeldTables, NEW a \in Accounts
  PROVE  Book!InFull(sn, table, a) <=> a \in Scope(sn, table)
  <1>1. (\E row \in Book!BookRow : row.table = table /\ row.acct = a /\ Book!Holds(sn, row))
          <=> Stated(sn, table, a) # {}
    <2>1. ASSUME NEW x \in Stated(sn, table, a)
          PROVE  \E row \in Book!BookRow : row.table = table /\ row.acct = a /\ Book!Holds(sn, row)
      <3>1. x \in Items
        BY <2>1 DEF Stated, Fetched
      <3> DEFINE row == [table |-> table, acct |-> a, item |-> x]
      <3>2. row \in Book!BookRow /\ row.table = table /\ row.acct = a /\ row.item = x
        BY <3>1 DEF Book!BookRow, HeldTables
      <3>3. Book!Holds(sn, row)
        BY <2>1 DEF Book!Holds, Stated
      <3>4. QED
        BY <3>2, <3>3
    <2>2. ASSUME NEW row \in Book!BookRow, row.table = table, row.acct = a, Book!Holds(sn, row)
          PROVE  Stated(sn, table, a) # {}
      BY <2>2 DEF Book!Holds, Stated
    <2>3. QED
      BY <2>1, <2>2
  <1>2. QED
    BY <1>1 DEF Book!InFull, Scope, HoldingsScope, OpenLotsScope, Holding, HasLots, Declared,
                Stated, HeldTables

\* What a snapshot says is what the import reports of the accounts it kept.
LEMMA SaysIsReported ==
  ASSUME NEW s \in Importers, NEW f \in Fact, f.id = ids[s][f.acct], f.acct \in Resolved(s)
  PROVE  Book!Says(snap[s], Entry(f)) <=>
           f \in Reported(s, "transactions") \cup Reported(s, "realized_lots")
  BY DEF Book!Says, Entry, Reported, Fact, FactTables

\* The seeded database stands for the seeded book.
LEMMA InitBook == Init => Book!Init
  <1> SUFFICES ASSUME Init PROVE Book!Init
    OBVIOUS
  <1>1. Seed.accounts \subseteq Accounts
    BY ConstantsAssumption DEF Fetched
  <1>2. {a \in Accounts : Row(a)} = Seed.accounts
    BY <1>1 DEF Init, Row
  <1>3. Ledger = {row \in Book!LedgerRow : /\ row.acct \in {a \in Accounts : Row(a)}
                                           /\ row.table = "transactions" /\ Book!Says(Seed, row)}
    <2>1. ASSUME NEW f \in facts
          PROVE  /\ Entry(f) \in Book!LedgerRow /\ Entry(f).acct \in Seed.accounts
                 /\ Entry(f).table = "transactions" /\ Book!Says(Seed, Entry(f))
      BY DEF Init, Entry, Book!LedgerRow, Fact, FactTables, Book!Says
    <2>2. ASSUME NEW row \in Book!LedgerRow, row.acct \in Seed.accounts,
                 row.table = "transactions", Book!Says(Seed, row)
          PROVE  row \in Ledger
      <3> DEFINE f == [table |-> row.table, acct |-> row.acct, id |-> 1, key |-> row.key]
      <3>1. f \in Fact
        <4>1. row.table \in FactTables /\ row.acct \in Accounts /\ row.key \in Keys /\ 1 \in Ids
          BY ConstantsAssumption, <2>2 DEF FactTables, Book!LedgerRow, Ids
        <4>2. QED
          BY <4>1 DEF Fact
      <3>2. f \in facts
        BY <3>1, <2>2 DEF Init, Book!Says
      <3>3. row = Entry(f)
        BY DEF Entry, Book!LedgerRow
      <3>4. QED
        BY <3>2, <3>3 DEF Ledger
    <2>3. QED
      BY <1>2, <2>1, <2>2 DEF Ledger
  <1>4. Holdings = {row \in Book!BookRow : row.acct \in {a \in Accounts : Row(a)} /\ Book!Holds(Seed, row)}
    <2>1. ASSUME NEW r \in held
          PROVE  /\ Line(r) \in Book!BookRow /\ Line(r).acct \in Seed.accounts
                 /\ Book!Holds(Seed, Line(r))
      BY DEF Init, Line, Book!BookRow, Held, HeldTables, Book!Holds, Stated
    <2>2. ASSUME NEW row \in Book!BookRow, row.acct \in Seed.accounts, Book!Holds(Seed, row)
          PROVE  row \in Holdings
      <3> DEFINE r == [table |-> row.table, acct |-> row.acct, id |-> 1, item |-> row.item, by |-> 1]
      <3>1. r \in Held
        <4>1. row.table \in HeldTables /\ row.acct \in Accounts /\ row.item \in Items /\ 1 \in Ids
          BY ConstantsAssumption, <2>2 DEF HeldTables, Book!BookRow, Ids
        <4>2. QED
          BY <4>1 DEF Held
      <3>2. r \in held
        BY <3>1, <2>2 DEF Init, Book!Holds, Stated
      <3>3. row = Line(r)
        BY DEF Line, Book!BookRow
      <3>4. QED
        BY <3>2, <3>3 DEF Holdings
    <2>3. QED
      BY <1>2, <2>1, <2>2 DEF Holdings
  <1>5. owner = [a \in Accounts |-> Seed.portfolio] /\ excluded = [p \in Portfolios |-> {}]
    BY DEF Init
  <1>6. QED
    BY <1>2, <1>3, <1>4, <1>5 DEF Book!Init, Ledger, Holdings, Entry, Line

\* At the flush of a lone import: what it resolved, created and lost.
LEMMA CommitAccounts ==
  ASSUME TypeOK, RowsInv, SerialInv, NEW s \in Importers, pc[s] = "commit"
  PROVE  /\ Resolved(s) = Kept(s)
         /\ Fresh(s) = {a \in Kept(s) : ~Row(a)}
         /\ Vanished(s) = {}
         /\ \A a \in Kept(s) : Row(a) => ids[s][a] = rowId[a]
         /\ num[s] # 0 /\ excl[s] = excluded[snap[s].portfolio]
         /\ Kept(s) \subseteq Accounts
  <1>1. /\ \A a \in Accounts : ids[s][a] = IF a \notin Kept(s) THEN 0
                                           ELSE IF Row(a) THEN rowId[a] ELSE num[s]
        /\ excl[s] = excluded[snap[s].portfolio]
    BY DEF SerialInv, ReadInv, Prepared
  <1>2. num[s] # 0 /\ \A a \in Accounts : rowId[a] # num[s]
    BY DEF RowsInv, FreshIds, Active
  <1>3. Kept(s) \subseteq Accounts
    BY DEF Kept, TypeOK, Fetched
  <1>4. Resolved(s) = Kept(s)
    BY <1>1, <1>2, <1>3 DEF Resolved, Row
  <1>5. Fresh(s) = {a \in Kept(s) : ~Row(a)}
    BY <1>1, <1>2, <1>3, <1>4 DEF Fresh, Row
  <1>6. Vanished(s) = {}
    BY <1>1, <1>3, <1>4, <1>5 DEF Vanished, Row
  <1>7. QED
    BY <1>1, <1>2, <1>3, <1>4, <1>5, <1>6

\* The union of the ledger: what the snapshot says replaces what it re-types.
LEMMA CommitLedger ==
  ASSUME Stores, SerialInv, NEW s \in Importers, Commit(s)
  PROVE  LET said  == {row \in Book!LedgerRow : row.acct \in Kept(s) /\ Book!Says(snap[s], row)}
             older == {row \in Book!LedgerRow : \E new \in said : /\ row.table = "transactions"
                                                                  /\ new.table = row.table
                                                                  /\ new.acct = row.acct
                                                                  /\ Legacy[new.key] = row.key}
         IN  Ledger' = (Ledger \ older) \cup said
  <1> USE DEF Stores
  <1> DEFINE said  == {row \in Book!LedgerRow : row.acct \in Kept(s) /\ Book!Says(snap[s], row)}
             older == {row \in Book!LedgerRow : \E new \in said : /\ row.table = "transactions"
                                                                  /\ new.table = row.table
                                                                  /\ new.acct = row.acct
                                                                  /\ Legacy[new.key] = row.key}
             reported == Reported(s, "transactions") \cup Reported(s, "realized_lots")
  <1>1. /\ pc[s] = "commit"
        /\ facts' = (facts \ {Before(g) : g \in swap[s]}) \cup swap[s] \cup add[s]
    BY DEF Commit, Goto
  <1>2. /\ Resolved(s) = Kept(s) /\ Vanished(s) = {} /\ Kept(s) \subseteq Accounts
        /\ \A a \in Kept(s) : Row(a) => ids[s][a] = rowId[a]
    BY <1>1, CommitAccounts
  <1>3. \A f \in reported : f \in Fact /\ f.acct \in Kept(s) /\ f.id = ids[s][f.acct] /\ f.id # 0
    BY <1>2 DEF Reported, Resolved
  <1>4. \A f \in reported : f \in facts \cup add[s] \cup swap[s]
    BY <1>1, <1>2 DEF StoredInv, Safe, Prepared
  <1>5. add[s] \cup swap[s] \subseteq reported
    BY DEF SerialInv, ReadInv
  <1>6. \A f \in facts : f \in Fact /\ rowId[f.acct] = f.id /\ f.id # 0
    BY DEF TypeOK, RowsInv, NoOrphanRows, Current
  <1>7. \A f \in reported : Entry(f) \in said
    <2>1. \A f \in Fact : Entry(f) \in Book!LedgerRow /\ Entry(f).acct = f.acct
      BY DEF Entry, Book!LedgerRow, Fact, FactTables
    <2>2. \A f \in reported : Book!Says(snap[s], Entry(f))
      BY <1>2, <1>3, SaysIsReported
    <2>3. QED
      BY <1>3, <2>1, <2>2
  <1>8. ASSUME NEW row \in said
        PROVE  \E f \in reported : row = Entry(f)
    <2> DEFINE f == [table |-> row.table, acct |-> row.acct, id |-> ids[s][row.acct], key |-> row.key]
    <2>1. row.acct \in Kept(s) /\ row.acct \in Accounts /\ ids[s][row.acct] \in Ids
      BY <1>2 DEF TypeOK
    <2>2. /\ f \in Fact /\ f.id = ids[s][f.acct] /\ f.acct \in Resolved(s)
          /\ row = Entry(f)
      BY <2>1, <1>2 DEF Fact, FactTables, Book!LedgerRow, Entry
    <2>3. f \in reported
      BY <2>2, SaysIsReported
    <2>4. QED
      BY <2>2, <2>3
  <1>9. ASSUME NEW g \in swap[s], NEW f \in Fact, Before(g) = f
        PROVE  Entry(f) \in older
    <2>1. g \in reported /\ g \in Fact /\ g.table = "transactions"
      BY <1>3, <1>5 DEF CountedInv
    <2>2. f.table = g.table /\ f.acct = g.acct /\ f.key = Legacy[g.key]
      BY <1>9, <2>1 DEF Before, Fact
    <2>3. Entry(g) \in said /\ Entry(f) \in Book!LedgerRow
      BY <1>7, <2>1 DEF Entry, Book!LedgerRow, Fact, FactTables
    <2>4. QED
      BY <2>1, <2>2, <2>3 DEF Entry
  <1>10. ASSUME NEW f \in facts, Entry(f) \in older
         PROVE  \E g \in swap[s] : Before(g) = f
    <2>1. PICK new \in said : /\ f.table = "transactions" /\ new.table = f.table
                              /\ new.acct = f.acct /\ Legacy[new.key] = f.key
      BY <1>10 DEF Entry
    <2>2. PICK g \in reported : new = Entry(g)
      BY <1>8
    <2>3. /\ g \in Fact /\ g.table = "transactions" /\ g.acct = f.acct /\ Legacy[g.key] = f.key
          /\ g.acct \in Kept(s) /\ g.id = ids[s][g.acct]
      BY <1>3, <2>1, <2>2 DEF Entry
    <2>4. g.id = f.id
      BY <1>2, <1>6, <2>3 DEF Row
    <2>5. Before(g) = f
      <3>1. /\ Before(g) = [g EXCEPT !.key = Legacy[g.key]] /\ f \in Fact
            /\ g.table = f.table /\ g.acct = f.acct /\ g.id = f.id /\ f.key = Legacy[g.key]
        BY <2>1, <2>3, <2>4, <1>6, <1>10 DEF Before
      <3>2. QED
        BY <3>1, <2>3 DEF Fact
    <2>6. Legacy[g.key] # NoKey
      BY <2>3, <1>6, ConstantsAssumption DEF Fact
    <2>7. g \notin facts
      BY <2>3, <2>5, <2>6 DEF CountedInv, SharesCountedOnce
    <2>8. g \notin add[s]
      BY <2>3, <2>5, <2>6 DEF CountedInv
    <2>9. QED
      BY <1>4, <2>5, <2>7, <2>8
  <1>11. ASSUME NEW f \in facts' PROVE Entry(f) \in (Ledger \ older) \cup said
    <2>1. CASE f \in add[s] \cup swap[s]
      BY <2>1, <1>5, <1>7
    <2>2. CASE f \in facts /\ ~\E g \in swap[s] : Before(g) = f
      <3>1. Entry(f) \in Ledger
        BY <2>2 DEF Ledger
      <3>2. Entry(f) \notin older
        BY <2>2, <1>10
      <3>3. QED
        BY <3>1, <3>2
    <2>3. QED
      BY <1>1, <2>1, <2>2
  <1>12. ASSUME NEW row \in Ledger \ older PROVE row \in Ledger'
    <2>1. PICK f \in facts : row = Entry(f)
      BY DEF Ledger
    <2>2. ~\E g \in swap[s] : Before(g) = f
      BY <1>6, <1>9, <2>1
    <2>3. f \in facts'
      BY <1>1, <2>2
    <2>4. QED
      BY <2>1, <2>3 DEF Ledger, Entry
  <1>13. ASSUME NEW row \in said PROVE row \in Ledger'
    <2>1. PICK f \in reported : row = Entry(f)
      BY <1>8
    <2>2. f \in facts'
      <3>1. \A g \in swap[s] : Before(g) # f
        <4>1. SUFFICES ASSUME NEW g \in swap[s], Before(g) = f PROVE FALSE
          OBVIOUS
        <4>2. g \in Fact /\ g.table = "transactions"
          BY DEF TypeOK, CountedInv
        <4>3. f.table = "transactions" /\ f.key = Legacy[g.key] /\ g.key \in Keys /\ f.acct \in Accounts
          BY <4>1, <4>2, <1>3 DEF Before, Fact
        <4>4. f \in Reported(s, "transactions")
          BY <4>3 DEF Reported
        <4>5. QED
          BY <4>3, <4>4, <1>1, ReportedKey DEF NoLegacyStated, SnapInv
      <3>2. QED
        BY <1>1, <1>4, <3>1
    <2>3. QED
      BY <2>1, <2>2 DEF Ledger, Entry
  <1>14. Ledger' = {Entry(f) : f \in facts'}
    BY DEF Ledger, Entry
  <1>15. QED
    BY <1>11, <1>12, <1>13, <1>14

\* The replacement of the book: what it is told in full goes, what it is told comes.
LEMMA CommitBook ==
  ASSUME Stores, SerialInv, NEW s \in Importers, Commit(s)
  PROVE  Holdings' = {row \in Holdings : ~(row.acct \in Kept(s) /\ Book!InFull(snap[s], row.table, row.acct))}
                       \cup {row \in Book!BookRow : row.acct \in Kept(s) /\ Book!Holds(snap[s], row)}
  <1> USE DEF Stores
  <1> DEFINE left == {row \in Holdings : ~(row.acct \in Kept(s) /\ Book!InFull(snap[s], row.table, row.acct))}
             come == {row \in Book!BookRow : row.acct \in Kept(s) /\ Book!Holds(snap[s], row)}
  <1>1. pc[s] = "commit" /\ held' = (held \ doomed[s]) \cup NewHeld(s)
    BY DEF Commit, Goto
  <1>2. /\ Resolved(s) = Kept(s) /\ Kept(s) \subseteq Accounts
        /\ \A a \in Kept(s) : Row(a) => ids[s][a] = rowId[a]
    BY <1>1, CommitAccounts
  <1>3. \A r \in held : r \in Held /\ rowId[r.acct] = r.id /\ r.id # 0 /\ r.table \in HeldTables /\ r.acct \in Accounts
    BY DEF TypeOK, RowsInv, NoOrphanRows, Current, Held
  <1>4. snap[s] \in Fetched
    BY DEF TypeOK
  <1>5. \A r \in held : r \in doomed[s] <=> r.acct \in Kept(s) /\ r.acct \in Scope(snap[s], r.table)
    <2>1. doomed[s] = Outdated(s, "positions") \cup Outdated(s, "open_lots")
      BY <1>1 DEF SerialInv, Emptied
    <2>2. \A r \in held : r \in doomed[s] <=> /\ r.acct \in Scoped(s, r.table)
                                              /\ r.id = ids[s][r.acct]
      BY <2>1, <1>3 DEF Outdated, HeldTables
    <2>3. QED
      BY <2>2, <1>2, <1>3 DEF Scoped, Row
  <1>6. \A r \in held : r \in doomed[s] <=>
          Line(r).acct \in Kept(s) /\ Book!InFull(snap[s], Line(r).table, Line(r).acct)
    BY <1>3, <1>4, <1>5, ScopeIsFull DEF Line
  <1>7. \A r \in held \ doomed[s] : Line(r) \in left
    BY <1>6 DEF Holdings
  <1>8. \A r \in NewHeld(s) : Line(r) \in come
    BY <1>2 DEF NewHeld, Line, Book!BookRow, Held, HeldTables, Book!Holds, Stated
  <1>9. ASSUME NEW row \in left PROVE \E r \in held \ doomed[s] : row = Line(r)
    BY <1>6 DEF Holdings
  <1>10. ASSUME NEW row \in come PROVE \E r \in NewHeld(s) : row = Line(r)
    <2> DEFINE r == [table |-> row.table, acct |-> row.acct, id |-> ids[s][row.acct],
                     item |-> row.item, by |-> num[s]]
    <2>1. row.acct \in Kept(s) /\ row.acct \in Accounts /\ ids[s][row.acct] \in Ids /\ num[s] \in Ids
      BY <1>2 DEF TypeOK
    <2>2. r \in Held
      BY <2>1 DEF Held, HeldTables, Book!BookRow
    <2>3. r.item \in Stated(snap[s], r.table, r.acct)
      BY DEF Stated, Book!Holds
    <2>4. r \in NewHeld(s)
      BY <1>2, <2>1, <2>2, <2>3 DEF NewHeld
    <2>5. row = Line(r)
      BY DEF Line, Book!BookRow
    <2>6. QED
      BY <2>4, <2>5
  <1>11. Holdings' = {Line(r) : r \in held'}
    BY DEF Holdings, Line
  <1>12. QED
    BY <1>1, <1>7, <1>8, <1>9, <1>10, <1>11

\* The commit of a lone import is an atomic import of its snapshot.
LEMMA CommitIsImport ==
  ASSUME Stores, SerialInv, NEW s \in Importers, Commit(s), NEW sn \in Snapshots, sn = snap[s]
  PROVE  Book!Import(sn)
  <1> USE DEF Stores
  <1>1. /\ pc[s] = "commit" /\ UNCHANGED excluded
        /\ rowId' = [a \in Accounts |-> IF a \in Fresh(s) THEN num[s] ELSE rowId[a]]
        /\ owner' = [a \in Accounts |-> IF a \in Fresh(s) \cup (moved[s] \ Vanished(s))
                                        THEN snap[s].portfolio ELSE owner[a]]
    BY DEF Commit, Goto
  <1>2. /\ Fresh(s) = {a \in Kept(s) : ~Row(a)} /\ Vanished(s) = {}
        /\ num[s] # 0 /\ excl[s] = excluded[snap[s].portfolio] /\ Kept(s) \subseteq Accounts
    BY <1>1, CommitAccounts
  <1>3. Kept(s) = {a \in snap[s].accounts : KeyOf[a] \notin excluded[snap[s].portfolio]}
    BY <1>2 DEF Kept
  <1>4. {a \in Accounts : Row(a)'} = {a \in Accounts : Row(a)} \cup Kept(s)
    BY <1>1, <1>2 DEF Row
  <1>5. owner' = [a \in Accounts |->
                    IF a \in Kept(s) /\ (a \notin {b \in Accounts : Row(b)} \/ a \in Stable)
                    THEN snap[s].portfolio ELSE owner[a]]
    <2>1. moved[s] = {a \in Kept(s) \cap Stable : Row(a) /\ owner[a] # snap[s].portfolio}
      BY <1>1 DEF SerialInv, ReadInv, Prepared
    <2>2. \A a \in Accounts : (IF a \in Fresh(s) \cup (moved[s] \ Vanished(s))
                               THEN snap[s].portfolio ELSE owner[a])
                              = (IF a \in Kept(s) /\ (a \notin {b \in Accounts : Row(b)} \/ a \in Stable)
                                 THEN snap[s].portfolio ELSE owner[a])
      BY <1>2, <2>1
    <2>3. QED
      BY <1>1, <2>2
  <1>6. QED
    BY <1>1, <1>3, <1>4, <1>5, CommitLedger, CommitBook
       DEF Book!Import, Ledger, Holdings, Entry, Line

\* The commit of a lone delete is an atomic delete.
LEMMA CommitIsDelete ==
  ASSUME KeysWithoutComma, TypeOK, RowsInv, SerialInv, NEW r \in open, CommitDelete(r)
  PROVE  Book!Delete(r.portfolio, r.acct)
  <1>1. /\ r.acct \in Accounts /\ r.portfolio \in Portfolios /\ r.read = excluded[r.portfolio]
        /\ r.id = rowId[r.acct] /\ r.id # 0 /\ owner[r.acct] = r.portfolio
    BY DEF SerialInv, OpenInv, TypeOK, Edit, CommitDelete
  <1>2. /\ rowId' = [a \in Accounts |-> IF a = r.acct /\ rowId[a] = r.id THEN 0 ELSE rowId[a]]
        /\ facts' = {f \in facts : ~(f.acct = r.acct /\ f.id = r.id)}
        /\ held' = {h \in held : ~(h.acct = r.acct /\ h.id = r.id)}
        /\ UNCHANGED owner
    BY DEF CommitDelete
  <1>3. excluded' = [excluded EXCEPT ![r.portfolio] = excluded[r.portfolio] \cup {KeyOf[r.acct]}]
    BY <1>1 DEF CommitDelete, Rewritten, KeysWithoutComma, TypeOK
  <1>4. \A q \in facts \cup held : q.acct = r.acct => q.id = r.id
    BY <1>1 DEF RowsInv, NoOrphanRows, Current
  <1>5. {a \in Accounts : Row(a)'} = {a \in Accounts : Row(a)} \ {r.acct}
    BY <1>1, <1>2 DEF Row
  <1>6. {Entry(f) : f \in facts'} = {row \in {Entry(f) : f \in facts} : row.acct # r.acct}
    BY <1>2, <1>4 DEF Entry
  <1>7. {Line(h) : h \in held'} = {row \in {Line(h) : h \in held} : row.acct # r.acct}
    BY <1>2, <1>4 DEF Line
  <1>8. r.acct \in {a \in Accounts : Row(a)}
    BY <1>1 DEF Row
  <1>9. QED
    BY <1>1, <1>2, <1>3, <1>5, <1>6, <1>7, <1>8 DEF Book!Delete, Entry, Line

\* The commit of a lone restore is an atomic restore.
LEMMA CommitIsRestore ==
  ASSUME TypeOK, SerialInv, NEW r \in open, CommitRestore(r)
  PROVE  Book!Restore(r.portfolio, r.acct)
  <1>1. r.portfolio \in Portfolios /\ r.read = excluded[r.portfolio]
    BY DEF SerialInv, OpenInv, TypeOK, Edit
  <1>2. excluded' = [excluded EXCEPT ![r.portfolio] = excluded[r.portfolio] \ {KeyOf[r.acct]}]
    BY <1>1 DEF CommitRestore, Rewritten, TypeOK
  <1>3. UNCHANGED <<rowId, owner, facts, held>>
    BY DEF CommitRestore
  <1>4. QED
    BY <1>2, <1>3 DEF Book!Restore, Row

\* Whatever leaves the six tables of the book alone is a stutter of it.
LEMMA StutterOfBook ==
  ASSUME UNCHANGED <<rowId, owner, facts, held, excluded>>
  PROVE  UNCHANGED Book!bookVars
  BY DEF Book!bookVars, Row

\* Every step is a step of the broker book or leaves it alone.
LEMMA StepBook ==
  ASSUME KeysWithoutComma, Stores, SerialInv, [Next]_vars
  PROVE  Book!Next \/ UNCHANGED Book!bookVars
  <1> USE DEF Stores
  <1>1. ASSUME NEW s \in Importers, Commit(s) PROVE Book!Next
    <2>1. snap[s] \in Snapshots
      BY <1>1 DEF Commit, Goto, SnapInv
    <2>2. PICK sn \in Snapshots : sn = snap[s]
      BY <2>1
    <2>3. Book!Import(sn)
      BY <1>1, <2>2, CommitIsImport
    <2>4. QED
      BY <2>3 DEF Book!Next
  <1>2. ASSUME NEW r \in open, CommitDelete(r) \/ CommitRestore(r) PROVE Book!Next
    <2>1. r.portfolio \in Portfolios /\ r.acct \in Accounts
      BY DEF TypeOK, Edit
    <2>2. QED
      BY <1>2, <2>1, CommitIsDelete, CommitIsRestore DEF Book!Next
  <1>3. CASE UNCHANGED <<rowId, owner, facts, held, excluded>>
    BY <1>3, StutterOfBook
  <1>4. QED
    BY <1>1, <1>2, <1>3
       DEF Next, Settings, Import, ReplacePositions, ReplaceOpenLots, Begin, UpsertAccounts,
           CreateAccounts, InsertActivities, StartDelete, FinishDelete, InsertRealizedLots,
           Abort, BeginDelete, BeginRestore, SavePreferences, FailDelete, db, vars

\* Serial steps preserve SerialInv.
LEMMA StepSerial ==
  ASSUME TypeOK, RowsInv, RowsInv', GoneInv, SerialInv, [Next /\ OneAtATime']_vars
  PROVE  SerialInv'
  <1>1. CASE Next /\ OneAtATime'
    BY <1>1, ImportSerial, SettingsSerial DEF Next
  <1>2. CASE UNCHANGED vars
    BY <1>2 DEF vars, db, private, SerialInv, OneAtATime, OpenInv, ReadInv, Emptied, Prepared, Kept,
       Row, Reported, Resolved, Outdated, Scoped
  <1>3. QED
    BY <1>1, <1>2

\* Run one at a time, the statement sequences of imports, deletes and restores
\* (persistence.py persist_snapshot, portfolios.py) take effect as atomic operations of
\* the broker book: each import at its commit, whole, or not at all.
THEOREM SerialImportsAreAtomic ==
  ASSUME NoLegacyStated, LotsOfOneAccount, KeysWithoutComma
  PROVE  SerialSpec => Book!Spec
  <1>1. SerialSpec => Spec
    <2>1. [Next /\ OneAtATime']_vars => [Next]_vars
      OBVIOUS
    <2>2. QED
      BY <2>1, PTL DEF Spec, SerialSpec
  <1>2. Spec => [](TypeOK /\ RowsInv /\ GoneInv)
    BY InitType, StepType, InitGone, StepGone, TypeCorrect, RowsCorrect, PTL DEF Spec
  <1>3. Spec => []Stores
    <2>1. Stores /\ [Next]_vars => StoredInv'
      BY ImportStored, RestStored DEF Next
    <2>2. QED
      BY <2>1, InitCounted, StepSnap, StepCounted, InitIds, StepIds, InitStored, TypeCorrect,
         RowsCorrect, PTL DEF Spec, Stores
  <1>4. SerialSpec => []SerialInv
    BY <1>1, <1>2, InitSerial, StepSerial, PTL DEF SerialSpec
  <1>5. QED
    BY <1>1, <1>3, <1>4, InitBook, StepBook, PTL DEF SerialSpec, Spec, Book!Spec
=============================================================================
