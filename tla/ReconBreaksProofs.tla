--------------------------- MODULE ReconBreaksProofs ---------------------------
(***************************************************************************)
(* Proofs about ReconBreaks, for every set of accounts, brokers,           *)
(* securities and books: its type invariant, that alerted_at is true, that *)
(* only a good fetch of an account's broker closes a break of it or makes  *)
(* its age fall, and that the open breaks of an account whose holdings     *)
(* were read are its divergences while it rests.                           *)
(***************************************************************************)
EXTENDS ReconBreaks, SequenceTheorems, TLAPS

\* What a comparison finds are break keys.
LEMMA BreaksAreKeys ==
  ASSUME NEW a \in Accounts, NEW reported, NEW mine, known \subseteq Securities
  PROVE  Breaks(a, reported, mine) \subseteq Keys
  BY DEF Breaks, CashBreak, Keys, BreakTypes

\* The head of the queue is a broker and its tail a queue of brokers.
LEMMA QueueOfBrokers ==
  ASSUME todo \in Seq(BrokerSet), todo # << >>
  PROVE  Head(todo) \in BrokerSet /\ Tail(todo) \in Seq(BrokerSet)
  BY HeadTailProperties

\* A run starts and ends with an empty queue and no status row of its own.
LEMMA Rest == << >> \in Seq(BrokerSet) /\ [b \in BrokerSet |-> None] \in StatusRows
<1>1. << >> \in Seq(BrokerSet)
  BY EmptySeq
<1>2. [b \in BrokerSet |-> None] \in StatusRows
  BY DEF StatusRows
<1>. QED BY <1>1, <1>2

\* What the transaction over both tables leaves behind is well typed.
LEMMA TablesTyped ==
  ASSUME TypeOK
  PROVE  /\ Resolvable \subseteq Keys /\ NewOrReopened \subseteq Keys
         /\ Reopened \subseteq Keys
  BY DEF TypeOK, Resolvable, NewOrReopened, Reopened

\* Every step preserves the types.
LEMMA TypeStep == TypeOK /\ [Next]_vars => TypeOK'
<1> SUFFICES ASSUME TypeOK, [Next]_vars PROVE TypeOK'
  OBVIOUS
<1> USE ReconAssumption
<1>1. CASE Begin
  BY <1>1 DEF TypeOK, Begin, world, tables
<1>2. ASSUME NEW b \in BrokerSet, NotConnected(b) PROVE TypeOK'
  BY <1>2, QueueOfBrokers DEF TypeOK, NotConnected, Asking, world, tables
<1>3. ASSUME NEW b \in BrokerSet, FetchFails(b) PROVE TypeOK'
  <2>1. todo' \in Seq(BrokerSet)
    BY <1>3, QueueOfBrokers DEF TypeOK, FetchFails, Asking
  <2>2. marks' \in StatusRows
    BY <1>3 DEF TypeOK, FetchFails, StatusRows, Ages
  <2>. QED BY <1>3, <2>1, <2>2 DEF TypeOK, FetchFails, world, tables
<1>4. ASSUME NEW b \in BrokerSet, Fetch(b) PROVE TypeOK'
  <2>1. PICK missed \in Unanswered(b) :
          /\ got' = [a \in Accounts |->
                       IF a \in missed THEN WithoutHoldings(theirs[a]) ELSE theirs[a]]
          /\ skipped' = skipped \cup missed
    BY <1>4 DEF Fetch
  <2>2. missed \subseteq Accounts
    BY DEF Unanswered, AccountsOf, TypeOK
  <2>3. ASSUME NEW a \in Accounts
        PROVE  WithoutHoldings(theirs[a]) \in Statements /\ theirs[a] \in Statements
    <3>1. theirs[a] \in Books
      BY DEF TypeOK
    <3>. QED BY <3>1 DEF Statements
  <2>4. got' \in [Accounts -> Statements] /\ skipped' \in SUBSET Accounts
    BY <2>1, <2>2, <2>3 DEF TypeOK
  <2>. QED BY <1>4, <2>4 DEF TypeOK, Fetch, world, tables
<1>5. ASSUME NEW b \in BrokerSet, DiffSnapshot(b) PROVE TypeOK'
  <2>1. todo' \in Seq(BrokerSet)
    BY <1>5, QueueOfBrokers DEF TypeOK, DiffSnapshot
  <2>2. marks' \in StatusRows
    BY <1>5 DEF TypeOK, DiffSnapshot, StatusRows, Ages
  <2>3. AccountsOf(b) \subseteq Accounts
    BY DEF TypeOK, AccountsOf
  <2>4. UNION {Breaks(a, got[a], ours[a]) : a \in AccountsOf(b)} \subseteq Keys
    BY <2>3, BreaksAreKeys DEF TypeOK
  <2>5. found' \in SUBSET Keys /\ covered' \in SUBSET Accounts
    BY <1>5, <2>3, <2>4 DEF TypeOK, DiffSnapshot
  <2>. QED BY <1>5, <2>1, <2>2, <2>5 DEF TypeOK, DiffSnapshot, world, tables
<1>6. CASE PersistBreaks
  <2>1. rows' \in [open : SUBSET Keys, resolved : SUBSET Keys]
    BY <1>6, TablesTyped DEF TypeOK, PersistBreaks
  <2>2. alerted' \in SUBSET Keys /\ told' \in SUBSET Keys
    BY <1>6 DEF TypeOK, PersistBreaks
  <2>. QED BY <1>6, <2>1, <2>2 DEF TypeOK, PersistBreaks, world
<1>7. ASSUME Over PROVE /\ todo' \in Seq(BrokerSet) /\ got' = None /\ found' \in SUBSET Keys
                        /\ covered' \in SUBSET Accounts /\ skipped' \in SUBSET Accounts
                        /\ marks' \in StatusRows /\ phase' \in {"idle", "fetch", "alert"} /\ news' \in BOOLEAN
  BY <1>7, Rest DEF Over
<1>8. CASE NothingNew
  BY <1>7, <1>8 DEF TypeOK, NothingNew, world, tables
<1>9. CASE SendAlert
  <2>1. alerted' \in SUBSET Keys /\ told' \in SUBSET Keys
    BY <1>9 DEF TypeOK, SendAlert
  <2>. QED BY <1>7, <1>9, <2>1 DEF TypeOK, SendAlert, world
<1>10. CASE SendFails
  BY <1>7, <1>10 DEF TypeOK, SendFails, world, tables
<1>11. CASE Die
  <2>1. told' \in SUBSET Keys
    BY <1>11 DEF TypeOK, Die
  <2>. QED BY <1>7, <1>11, <2>1 DEF TypeOK, Die, world, tables
<1>12. ASSUME NEW a \in Accounts, Trade(a) PROVE TypeOK'
  BY <1>12 DEF TypeOK, Trade, tables, run
<1>13. ASSUME NEW a \in Accounts, Corrupt(a) PROVE TypeOK'
  BY <1>13 DEF TypeOK, Corrupt, tables, run
<1>14. ASSUME NEW b \in BrokerSet, Sync(b) PROVE TypeOK'
  BY <1>14 DEF TypeOK, Sync, tables, run
<1>15. CASE Night
  <2>1. status' \in StatusRows
    BY <1>15 DEF TypeOK, Night, StatusRows, Ages
  <2>. QED BY <1>15, <2>1 DEF TypeOK, Night, world, run
<1>16. CASE UNCHANGED vars
  BY <1>16 DEF TypeOK, vars, world, tables, run
<1>. QED
  BY <1>1, <1>2, <1>3, <1>4, <1>5, <1>6, <1>8, <1>9, <1>10, <1>11, <1>12, <1>13, <1>14,
     <1>15, <1>16 DEF Next, Reconcile, World

\* The initial states are well typed.
LEMMA TypeInit == Init => TypeOK
<1> SUFFICES ASSUME Init PROVE TypeOK
  OBVIOUS
<1>1. theirs \in [Accounts -> Books] /\ ours \in [Accounts -> Books]
  BY DEF Init
<1>2. rows \in [open : SUBSET Keys, resolved : SUBSET Keys]
  BY DEF Init
<1>3. status \in StatusRows /\ marks \in StatusRows /\ todo \in Seq(BrokerSet)
  BY Rest DEF Init
<1>. QED BY <1>1, <1>2, <1>3 DEF Init, TypeOK

\* Type correctness: whatever the nightly runs, syncs and deaths do, the tables hold
\* break keys, ages and accounts.
THEOREM TypeCorrect == Spec => []TypeOK
  BY TypeInit, TypeStep, PTL DEF Spec

\* The strengthening AlertStampIsTrue needs: a stamp belongs to a row, and what the
\* run is about to alert is open.
StampInv ==
  /\ alerted \subseteq rows.open \cup rows.resolved
  /\ phase = "alert" => found \subseteq rows.open
  /\ AlertStampIsTrue

\* Every step preserves it.
LEMMA StampStep == TypeOK /\ StampInv /\ [Next]_vars => StampInv'
<1> SUFFICES ASSUME TypeOK, StampInv, [Next]_vars PROVE StampInv'
  OBVIOUS
<1>1. CASE PersistBreaks
  <2>1. /\ rows'.open = (rows.open \cup NewOrReopened) \ Resolvable
        /\ rows'.resolved = (rows.resolved \ Reopened) \cup Resolvable
        /\ alerted' = alerted \ Reopened
        /\ told' = told \ (NewOrReopened \cup Resolvable)
        /\ found' = found
    BY <1>1 DEF PersistBreaks, Unstamped
  <2>2. alerted' \subseteq rows'.open \cup rows'.resolved
    BY <2>1 DEF StampInv
  <2>3. found' \subseteq rows'.open
    BY <2>1 DEF NewOrReopened, Reopened, Resolvable
  <2>4. alerted' \cap rows'.open \subseteq told'
    BY <2>1 DEF StampInv, AlertStampIsTrue, NewOrReopened, Reopened
  <2>. QED BY <2>2, <2>3, <2>4 DEF StampInv, AlertStampIsTrue
<1>2. CASE SendAlert
  BY <1>2 DEF StampInv, AlertStampIsTrue, SendAlert, Over
<1>3. CASE Die
  BY <1>3 DEF StampInv, AlertStampIsTrue, Die, Over, tables
<1>4. CASE Begin
  BY <1>4 DEF StampInv, AlertStampIsTrue, Begin, tables
<1>5. CASE NothingNew \/ SendFails
  BY <1>5 DEF StampInv, AlertStampIsTrue, NothingNew, SendFails, Over, tables
<1>6. ASSUME NEW b \in BrokerSet, DiffSnapshot(b) PROVE StampInv'
  BY <1>6 DEF StampInv, AlertStampIsTrue, DiffSnapshot, tables
<1>7. ASSUME UNCHANGED <<rows, alerted, told, found, phase>> PROVE StampInv'
  BY <1>7 DEF StampInv, AlertStampIsTrue
<1>. QED
  BY <1>1, <1>2, <1>3, <1>4, <1>5, <1>6, <1>7
     DEF Next, Reconcile, World, NotConnected, FetchFails, Fetch, Trade, Corrupt, Sync,
         Night, vars, tables, run

\* alerted_at tells the truth: every stamped open break reached the operator since it
\* last opened, through any sequence of failed sends, deaths and reopenings.
THEOREM StampsAreTrue == Spec => []AlertStampIsTrue
<1>1. Init => StampInv
  BY DEF Init, StampInv, AlertStampIsTrue
<1>2. StampInv => AlertStampIsTrue
  BY DEF StampInv
<1>. QED BY <1>1, <1>2, StampStep, TypeCorrect, PTL DEF Spec

\* The strengthening: an account is covered only where the run's status row of its
\* broker has been reset by a good fetch, and never outside a run.
CoveredIsFresh ==
  /\ phase = "idle" => covered = {}
  /\ \A a \in covered : marks[BrokerOf[a]] = 0

\* Every step keeps the covered accounts' brokers fresh.
LEMMA CoveredStep == TypeOK /\ CoveredIsFresh /\ [Next]_vars => CoveredIsFresh'
<1> SUFFICES ASSUME TypeOK, CoveredIsFresh, [Next]_vars PROVE CoveredIsFresh'
  OBVIOUS
<1> USE ReconAssumption
<1>0. \A a \in covered : BrokerOf[a] \in BrokerSet
  BY DEF TypeOK
<1>1. ASSUME NEW b \in BrokerSet, FetchFails(b) PROVE CoveredIsFresh'
  BY <1>0, <1>1 DEF TypeOK, StatusRows, CoveredIsFresh, FetchFails
<1>2. ASSUME NEW b \in BrokerSet, DiffSnapshot(b) PROVE CoveredIsFresh'
  <2>1. \A a \in AccountsOf(b) : a \in Accounts /\ BrokerOf[a] = b
    BY DEF TypeOK, AccountsOf
  <2>. QED BY <1>0, <1>2, <2>1 DEF TypeOK, StatusRows, CoveredIsFresh, DiffSnapshot
<1>3. ASSUME covered' = {} PROVE CoveredIsFresh'
  BY <1>3 DEF CoveredIsFresh
<1>5. CASE Begin
  BY <1>5 DEF CoveredIsFresh, Begin
<1>4. ASSUME UNCHANGED <<covered, marks, phase>> PROVE CoveredIsFresh'
  BY <1>4 DEF CoveredIsFresh
<1>. QED
  BY <1>1, <1>2, <1>3, <1>4, <1>5
     DEF Next, Reconcile, World, NotConnected, Fetch, PersistBreaks, NothingNew,
         SendAlert, SendFails, Die, Over, Trade, Corrupt, Sync, Night, vars, run

\* A break is closed only with a good fetch of its own account's broker, whichever other
\* brokers answered, failed or were never connected.
THEOREM OnlyAFetchResolves == Spec => ResolvedWithFetch
<1>1. Init => CoveredIsFresh
  BY DEF Init, CoveredIsFresh
<1>2. TypeOK /\ CoveredIsFresh /\ [Next]_vars =>
        [\A k \in rows.open \ rows'.open : status'[BrokerOf[k.acct]] = 0]_vars
  <2> SUFFICES ASSUME TypeOK, CoveredIsFresh, Next, NEW k \in rows.open \ rows'.open
               PROVE  status'[BrokerOf[k.acct]] = 0
    OBVIOUS
  <2>1. CASE PersistBreaks
    <3>1. k \in Resolvable
      BY <2>1 DEF PersistBreaks
    <3>2. k.acct \in covered
      BY <3>1 DEF Resolvable
    <3>. QED BY <2>1, <3>2 DEF CoveredIsFresh, PersistBreaks
  <2>2. CASE UNCHANGED rows
    BY <2>2
  <2>. QED
    BY <2>1, <2>2
       DEF Next, Reconcile, World, Begin, NotConnected, FetchFails, Fetch, DiffSnapshot,
           NothingNew, SendAlert, SendFails, Die, Trade, Corrupt, Sync, Night, tables
<1>. QED BY <1>1, <1>2, CoveredStep, TypeCorrect, PTL DEF Spec, ResolvedWithFetch

\* Every break names the account it is of.
LEMMA BreaksName ==
  ASSUME NEW x, NEW reported, NEW mine, NEW k \in Breaks(x, reported, mine)
  PROVE  k.acct = x
  BY DEF Breaks, CashBreak

\* The divergences of one account, and its open breaks being just those.
Divergences(a) == IF a \in live THEN Breaks(a, theirs[a], ours[a]) ELSE {}
Agrees(a) == \A k \in Keys : k.acct = a => (k \in rows.open <=> k \in Diverging)

\* Diverging, account by account.
LEMMA DivergingOf ==
  ASSUME NEW a, NEW k, k.acct = a
  PROVE  k \in Diverging <=> k \in Divergences(a)
<1>1. ASSUME k \in Diverging PROVE k \in Divergences(a)
  <2>1. PICK x \in live : k \in Breaks(x, theirs[x], ours[x])
    BY <1>1, Zenon DEF Diverging
  <2>2. k.acct = x
    BY <2>1, BreaksName
  <2>. QED BY <2>1, <2>2 DEF Divergences
<1>2. ASSUME k \in Divergences(a) PROVE k \in Diverging
  <2>1. a \in live /\ k \in Breaks(a, theirs[a], ours[a])
    BY <1>2 DEF Divergences
  <2>. QED BY <2>1, Zenon DEF Diverging
<1>. QED BY <1>1, <1>2

\* So it is for every break.
LEMMA DivergingIs ==
  ASSUME NEW a
  PROVE  \A k : k.acct = a => (k \in Diverging <=> k \in Divergences(a))
  BY DivergingOf

\* A run starts with nothing found, and covers accounts that were imported.
RunInv ==
  /\ phase = "idle" => found = {} /\ covered = {} /\ got = None
  /\ covered \subseteq live

\* Every step keeps it.
LEMMA RunStep == RunInv /\ [Next]_vars => RunInv'
<1> SUFFICES ASSUME RunInv, [Next]_vars PROVE RunInv'
  OBVIOUS
<1>1. ASSUME Over, live' = live PROVE RunInv'
  BY <1>1 DEF RunInv, Over
<1>2. ASSUME NEW b \in BrokerSet, DiffSnapshot(b) PROVE RunInv'
  BY <1>2 DEF RunInv, DiffSnapshot, AccountsOf, world
<1>3. ASSUME NEW b \in BrokerSet, Fetch(b) PROVE RunInv'
  BY <1>3 DEF RunInv, Fetch, Asking, world
<1>4. CASE Begin \/ PersistBreaks
  BY <1>4 DEF RunInv, Begin, PersistBreaks, world
<1>5. ASSUME UNCHANGED <<phase, found, covered, got>>, live \subseteq live' PROVE RunInv'
  BY <1>5 DEF RunInv
<1>. QED
  BY <1>1, <1>2, <1>3, <1>4, <1>5
     DEF Next, Reconcile, World, NotConnected, FetchFails, NothingNew, SendAlert, SendFails,
         Die, Trade, Corrupt, Sync, Night, vars, world, run

\* What a run holds of an account whose books stand still since it began: nothing until it
\* has compared the account, then the divergences, unless the call for its holdings failed.
Standing(a) ==
  phase = "fetch" =>
    /\ got # None /\ a \notin skipped => got[a] = theirs[a]
    /\ \A k : k.acct = a /\ k \in found => a \in covered
    /\ a \notin skipped /\ a \in covered =>
         \A k : k.acct = a => (k \in found <=> k \in Divergences(a))

\* The divergences of a connected account change only when its books move; those of one
\* that a sync connects are none.
LEMMA StillDivergences ==
  ASSUME TypeOK, [Next]_vars, NEW a \in Accounts, ~Moves(a)
  PROVE  Divergences(a)' = Divergences(a)
<1>1. theirs'[a] = theirs[a] /\ ours'[a] = ours[a] /\ known' = known
  BY DEF Moves
<1>2. Breaks(a, theirs[a], ours[a])' = Breaks(a, theirs[a], ours[a])
  BY <1>1 DEF Breaks
<1>3. CASE live' = live
  BY <1>2, <1>3 DEF Divergences
<1>4. ASSUME NEW b \in BrokerSet, Sync(b) PROVE Divergences(a)' = Divergences(a)
  <2>1. CASE BrokerOf[a] = b
    <3>1. ours'[a] = theirs'[a] /\ theirs[a] \in Book
      BY <1>4, <2>1, ReconAssumption DEF Sync, TypeOK
    <3>2. \A s \in Securities : theirs[a].pos[s] # None => s \in known
      BY <1>1, <1>4, <2>1 DEF Sync
    <3>3. Breaks(a, theirs[a], ours[a]) = {}
      BY <1>1, <3>1, <3>2 DEF Breaks, CashBreak
    <3>. QED BY <1>2, <3>3 DEF Divergences
  <2>2. CASE BrokerOf[a] # b
    <3>1. a \in live' <=> a \in live
      BY <1>4, <2>2 DEF Sync
    <3>. QED BY <1>2, <3>1 DEF Divergences
  <2>. QED BY <2>1, <2>2
<1>. QED
  BY <1>3, <1>4
     DEF Next, Reconcile, World, Begin, NotConnected, FetchFails, Fetch, DiffSnapshot,
         PersistBreaks, NothingNew, SendAlert, SendFails, Die, Trade, Corrupt, Night, vars, world

\* While the books stand still every step keeps what the run holds of them.
LEMMA StandingStep ==
  ASSUME NEW a \in Accounts
  PROVE  TypeOK /\ RunInv /\ Standing(a) /\ [Next]_vars /\ ~Moves(a) => Standing(a)'
<1> SUFFICES ASSUME TypeOK, RunInv, Standing(a), [Next]_vars, ~Moves(a) PROVE Standing(a)'
  OBVIOUS
<1>1. Divergences(a)' = Divergences(a) /\ theirs'[a] = theirs[a] /\ ours'[a] = ours[a]
  BY StillDivergences DEF Moves
<1>2. CASE phase' # "fetch"
  BY <1>2 DEF Standing
<1>3. CASE Begin
  BY <1>3 DEF Standing, RunInv, Begin
<1>4. ASSUME NEW b \in BrokerSet, Fetch(b) PROVE Standing(a)'
  <2>1. PICK missed \in Unanswered(b) :
          /\ got' = [x \in Accounts |->
                       IF x \in missed THEN WithoutHoldings(theirs[x]) ELSE theirs[x]]
          /\ skipped' = skipped \cup missed
    BY <1>4 DEF Fetch
  <2>2. UNCHANGED <<phase, found, covered>>
    BY <1>4 DEF Fetch
  <2>3. a \notin skipped' => a \notin skipped /\ got'[a] = theirs'[a]
    BY <1>1, <2>1
  <2>. QED BY <1>1, <2>2, <2>3 DEF Standing
<1>5. ASSUME NEW b \in BrokerSet, DiffSnapshot(b) PROVE Standing(a)'
  <2>1. /\ phase = "fetch" /\ got # None /\ got' = None /\ skipped' = skipped
        /\ found' = found \cup UNION {Breaks(x, got[x], ours[x]) : x \in AccountsOf(b)}
        /\ covered' = covered \cup AccountsOf(b)
    BY <1>5 DEF DiffSnapshot
  <2>2. ASSUME NEW k, k.acct = a
        PROVE  k \in found' <=> k \in found \/ (a \in AccountsOf(b) /\ k \in Breaks(a, got[a], ours[a]))
    <3>1. ASSUME NEW x \in AccountsOf(b), k \in Breaks(x, got[x], ours[x])
          PROVE  x = a
      BY <2>2, <3>1, BreaksName
    <3>2. k \in found' <=> k \in found \/ \E x \in AccountsOf(b) : k \in Breaks(x, got[x], ours[x])
      BY <2>1, Zenon
    <3>. QED BY <3>1, <3>2
  <2>3. \A k : k.acct = a /\ k \in found' => a \in covered'
    BY <2>1, <2>2 DEF Standing
  <2>4. ASSUME a \notin skipped', a \in covered', NEW k, k.acct = a
        PROVE  k \in found' <=> k \in Divergences(a)
    <3>1. a \in AccountsOf(b) => Breaks(a, got[a], ours[a]) = Divergences(a)
      BY <2>1, <2>4 DEF Standing, Divergences, AccountsOf
    <3>2. a \in covered => (k \in found <=> k \in Divergences(a))
      BY <2>1, <2>4 DEF Standing
    <3>3. a \notin covered => k \notin found
      BY <2>1, <2>4 DEF Standing
    <3>. QED BY <2>1, <2>2, <2>4, <3>1, <3>2, <3>3
  <2>. QED BY <1>1, <2>1, <2>3, <2>4 DEF Standing
<1>6. ASSUME UNCHANGED <<phase, found, covered, skipped, got>> PROVE Standing(a)'
  BY <1>1, <1>6 DEF Standing
<1>. QED
  BY <1>2, <1>3, <1>4, <1>5, <1>6
     DEF Next, Reconcile, World, NotConnected, FetchFails, PersistBreaks, NothingNew, SendAlert,
         SendFails, Die, Over, Trade, Corrupt, Sync, Night, vars, world, run

\* A commit of a run that compared the account with its holdings makes its open breaks its
\* divergences, and no other step takes that away but a commit of one without them.
LEMMA AgreesStep ==
  ASSUME NEW a \in Accounts, TypeOK, Standing(a), Next, ~Moves(a),
         Checked(a) \/ Agrees(a), ~Missed(a)
  PROVE  Agrees(a)'
<1>1. Divergences(a)' = Divergences(a)
  BY StillDivergences
<1>2. \A k : k.acct = a => (k \in Diverging' <=> k \in Divergences(a))
  <2>1. (\A k : k.acct = a => (k \in Diverging <=> k \in Divergences(a)))'
    BY DivergingIs, PTL
  <2>. QED BY <1>1, <2>1
<1>3. CASE PersistBreaks
  <2>1. ASSUME NEW k \in Keys, k.acct = a PROVE k \in rows'.open <=> k \in Divergences(a)
    <3>1. k \in found <=> a \in covered /\ k \in Divergences(a)
      <4>1. phase = "fetch" /\ (a \in covered => a \notin skipped)
        BY <1>3 DEF PersistBreaks, Missed, Checked
      <4>. QED BY <2>1, <4>1 DEF Standing
    <3>2. rows'.open = (rows.open \cup NewOrReopened) \ Resolvable
      BY <1>3 DEF PersistBreaks
    <3>3. CASE a \in covered
      BY <2>1, <3>1, <3>2, <3>3 DEF NewOrReopened, Reopened, Resolvable
    <3>4. CASE a \notin covered
      <4>1. k \in rows'.open <=> k \in rows.open
        BY <2>1, <3>1, <3>2, <3>4 DEF NewOrReopened, Reopened, Resolvable
      <4>2. k \in rows.open <=> k \in Divergences(a)
        BY <2>1, <3>4, DivergingOf DEF Agrees, Checked
      <4>. QED BY <4>1, <4>2
    <3>. QED BY <3>3, <3>4
  <2>. QED BY <1>2, <2>1 DEF Agrees
<1>4. CASE rows' = rows /\ ~PersistBreaks
  <2>1. \A k \in Keys : k.acct = a => (k \in rows.open <=> k \in Divergences(a))
    BY <1>4, DivergingIs DEF Agrees, Checked
  <2>. QED BY <1>2, <1>4, <2>1 DEF Agrees
<1>. QED
  BY <1>3, <1>4
     DEF Next, Reconcile, World, Begin, NotConnected, FetchFails, Fetch, DiffSnapshot, NothingNew,
         SendAlert, SendFails, Die, Trade, Corrupt, Sync, Night, tables

\* The safety half of BreaksAreDivergences.  From any moment between two runs, as long as
\* the books of an account stand still: the first run that compares the account, its holdings
\* read, and commits makes its open breaks exactly its divergences, and they stay so through
\* outages, deaths, failed alerts and whatever other accounts do, until a run commits that
\* compared it although the call for its holdings failed.
THEOREM CheckedBreaksHold ==
  ASSUME NEW a \in Accounts
  PROVE  Spec => [](phase = "idle" /\ [][~Moves(a)]_vars
                      => [][(Checked(a) \/ Agrees(a)) /\ ~Missed(a) => Agrees(a)']_vars)
<1>1. Init => RunInv
  BY DEF Init, RunInv
<1>2. phase = "idle" => Standing(a)
  BY DEF Standing
<1>3. TypeOK /\ RunInv /\ Standing(a) /\ [Next]_vars /\ [~Moves(a)]_vars => Standing(a)'
  <2>1. ASSUME UNCHANGED vars PROVE ~Moves(a)
    BY <2>1 DEF vars, world, Moves
  <2>. QED BY <2>1, StandingStep
<1>4. TypeOK /\ Standing(a) /\ [Next]_vars /\ [~Moves(a)]_vars =>
        [(Checked(a) \/ Agrees(a)) /\ ~Missed(a) => Agrees(a)']_vars
  BY AgreesStep
<1>. QED BY <1>1, <1>2, <1>3, <1>4, RunStep, TypeCorrect, PTL DEF Spec

\* What a run has made of the status rows so far: as they stood before it, but for a row's
\* birth and for the brokers it has compared.  A snapshot is of a broker that has accounts.
MarksInv ==
  /\ phase = "fetch" => \A b \in BrokerSet :
       \/ marks[b] = status[b]
       \/ marks[b] = 0 /\ (status[b] = None \/ \E a \in covered : BrokerOf[a] = b)
  /\ got # None => phase = "fetch" /\ todo # << >> /\ AccountsOf(Head(todo)) # {}

\* Every step preserves it.
LEMMA MarksStep == TypeOK /\ MarksInv /\ [Next]_vars => MarksInv'
<1> SUFFICES ASSUME TypeOK, MarksInv, [Next]_vars PROVE MarksInv'
  OBVIOUS
<1>1. ASSUME NEW b \in BrokerSet, FetchFails(b) PROVE MarksInv'
  <2>1. /\ phase = "fetch" /\ got = None /\ phase' = phase /\ got' = got
        /\ status' = status /\ covered' = covered
        /\ marks' = [marks EXCEPT ![b] = IF @ = None THEN 0 ELSE @] /\ marks \in StatusRows
    BY <1>1 DEF FetchFails, Asking, tables, TypeOK
  <2>2. ASSUME NEW c \in BrokerSet, c # b PROVE marks'[c] = marks[c]
    BY <2>1, <2>2 DEF StatusRows
  <2>3. marks'[b] = IF marks[b] = None THEN 0 ELSE marks[b]
    BY <2>1 DEF StatusRows
  <2>4. QED
    BY <2>1, <2>2, <2>3 DEF MarksInv
<1>2. ASSUME NEW b \in BrokerSet, Fetch(b) PROVE MarksInv'
  <2>1. UNCHANGED <<phase, todo, status, covered, marks, live>> /\ phase = "fetch" /\ todo # << >> /\ Head(todo) = b
        /\ AccountsOf(b) # {}
    BY <1>2 DEF Fetch, Asking, tables, world
  <2>2. QED
    BY <2>1 DEF MarksInv, AccountsOf
<1>3. ASSUME NEW b \in BrokerSet, DiffSnapshot(b) PROVE MarksInv'
  <2>1. /\ phase = "fetch" /\ phase' = phase /\ got # None /\ got' = None /\ status' = status
        /\ Head(todo) = b /\ covered' = covered \cup AccountsOf(b)
        /\ marks' = [marks EXCEPT ![b] = 0] /\ marks \in StatusRows
    BY <1>3 DEF DiffSnapshot, tables, TypeOK
  <2>2. PICK a : a \in AccountsOf(b)
    BY <2>1 DEF MarksInv
  <2>3. BrokerOf[a] = b /\ a \in covered'
    BY <2>1, <2>2 DEF AccountsOf
  <2>4. \A c \in BrokerSet : c # b => marks'[c] = marks[c]
    BY <2>1 DEF StatusRows
  <2>5. marks'[b] = 0
    BY <2>1 DEF StatusRows
  <2>6. QED
    BY <2>1, <2>3, <2>4, <2>5 DEF MarksInv
<1>4. ASSUME NEW b \in BrokerSet, NotConnected(b) PROVE MarksInv'
  BY <1>4 DEF MarksInv, NotConnected, Asking, tables
<1>5. CASE Begin
  BY <1>5 DEF MarksInv, Begin, tables
<1>6. CASE PersistBreaks
  BY <1>6 DEF MarksInv, PersistBreaks
<1>7. CASE NothingNew \/ SendAlert \/ SendFails \/ Die
  BY <1>7 DEF MarksInv, NothingNew, SendAlert, SendFails, Die, Over
<1>8. ASSUME UNCHANGED <<phase, todo, got, status, covered, marks>>, live \subseteq live' PROVE MarksInv'
  BY <1>8 DEF MarksInv, AccountsOf
<1>9. CASE Night
  BY <1>9 DEF MarksInv, Night, run
<1>10. CASE (\E a \in Accounts : Trade(a) \/ Corrupt(a)) \/ (\E b \in BrokerSet : Sync(b))
  <2>1. UNCHANGED <<phase, todo, got, status, covered, marks>> /\ live \subseteq live'
    BY <1>10 DEF Trade, Corrupt, Sync, run, tables
  <2>2. QED
    BY <1>8, <2>1
<1>11. CASE UNCHANGED vars
  BY <1>8, <1>11 DEF vars, run, tables, world
<1>. QED
  BY <1>1, <1>2, <1>3, <1>4, <1>5, <1>6, <1>7, <1>9, <1>10, <1>11 DEF Next, Reconcile, World

\* A run that has compared an account of broker b commits.
Compared(b) == PersistBreaks /\ \E a \in covered : BrokerOf[a] = b
\* A broker's age: a night adds to it, a commit that compared the broker begins it anew, and the
\* first attempt gives it its row.
AgeMoves(b) ==
  \/ status'[b] = status[b]
  \/ Night /\ status[b] # None /\ status'[b] = status[b] + 1
  \/ PersistBreaks /\ status'[b] = 0 /\ (status[b] = None \/ Compared(b))

\* The safety half of DeadBrokerEscalates.  The age of a broker's last good fetch falls
\* only in a transaction of a run that fetched and compared that very broker: failed
\* fetches, other brokers' answers, runs that die and alerts leave it, nights raise it, and
\* no row is ever lost.  What stays with TLC is that nights do pass.
THEOREM AgesOnlyRise == Spec => [][\A b \in BrokerSet : AgeMoves(b)]_vars
<1>1. Init => MarksInv
  BY DEF Init, MarksInv
<1>2. TypeOK /\ MarksInv /\ [Next]_vars => [\A b \in BrokerSet : AgeMoves(b)]_vars
  <2> SUFFICES ASSUME TypeOK, MarksInv, Next, NEW b \in BrokerSet PROVE AgeMoves(b)
    OBVIOUS
  <2>1. CASE PersistBreaks
    <3>1. phase = "fetch" /\ status' = marks
      BY <2>1 DEF PersistBreaks
    <3>2. QED
      BY <2>1, <3>1 DEF MarksInv, AgeMoves, Compared
  <2>2. CASE Night
    <3>1. status'[b] = IF status[b] = None THEN None ELSE IF status[b] < StaleAfter THEN status[b] + 1 ELSE status[b]
      BY <2>2 DEF Night
    <3>2. QED
      BY <2>2, <3>1 DEF AgeMoves
  <2>3. CASE UNCHANGED status
    BY <2>3 DEF AgeMoves
  <2>. QED
    BY <2>1, <2>2, <2>3
       DEF Next, Reconcile, World, Begin, NotConnected, FetchFails, Fetch, DiffSnapshot,
           NothingNew, SendAlert, SendFails, Die, Trade, Corrupt, Sync, tables
<1>. QED BY <1>1, <1>2, MarksStep, TypeCorrect, PTL DEF Spec
================================================================================
