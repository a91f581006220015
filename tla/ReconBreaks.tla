------------------------------ MODULE ReconBreaks ------------------------------
(***************************************************************************)
(* Custodian reconciliation, api/services/reconciliation.py, of one        *)
(* portfolio: the nightly job fetches every broker afresh, compares what   *)
(* it reports with the positions and cash in the database, keeps one row   *)
(* per distinct break and alerts the operator of new and reopened ones.    *)
(*                                                                         *)
(* The job is one process.  It alone writes the break and status tables,   *)
(* so its single transaction over them is one step; broker syncs and       *)
(* trades run beside it, between a fetch and the comparison too.  The      *)
(* process may die anywhere.                                               *)
(***************************************************************************)
EXTENDS Integers, Sequences, FiniteSets

CONSTANTS
  Accounts,
  Brokers,     \* _BROKERS, in the order they are asked
  BrokerOf,    \* the broker of an account
  Piecewise,   \* brokers asked for the holdings of one account at a time
  Securities,
  Books,       \* what an account may hold: a position or None per security, and cash
  StaleAfter,  \* nights without a good fetch that exceed reconciliation_stale_hours
  None

BrokerSet == {Brokers[i] : i \in DOMAIN Brokers}

Book == [pos : [Securities -> [qty : Nat, cost : Nat] \cup {None}], cash : Nat]

ASSUME ReconAssumption ==
  /\ Brokers \in Seq(BrokerSet)
  /\ BrokerOf \in [Accounts -> BrokerSet]
  /\ Piecewise \subseteq BrokerSet
  /\ Books \subseteq Book
  /\ StaleAfter \in Nat \ {0}
  /\ None \notin [qty : Nat, cost : Nat]

VARIABLES
  theirs,      \* per account, what the broker holds for it
  ours,        \* per account, the positions and cash in the database
  live,        \* the accounts that have been imported
  known,       \* the securities the database has a row for
  rows,        \* reconciliation_breaks: the keys that have a row, split in two
  alerted,     \* the rows whose alerted_at is set
  status,      \* reconciliation_fetch_status: per broker, nights since the last good
               \* fetch, else since the row's birth; None without a row
  \* the run in progress
  todo,        \* the brokers still to ask, and the broker being compared at the head
  got,         \* the snapshot of the broker at the head, or None
  found,       \* all_breaks
  covered,     \* covered_account_ids
  skipped,     \* the accounts whose holdings call failed: those a snapshot lists and
               \* leaves out of holdings_complete_for
  marks,       \* the status rows as the run's transaction has them
  phase,       \* "idle", "fetch", "alert"
  news,        \* whether the run opened or reopened a break
  told         \* observation: the breaks whose present occurrence reached the operator

world == <<theirs, ours, live, known>>
tables == <<rows, alerted, status>>
run == <<todo, got, found, covered, skipped, marks, phase, news>>
vars == <<world, tables, run, told>>

BreakTypes == {"missing_in_metron", "quantity", "cost_basis", "missing_at_broker"}
WithoutHoldings(book) == [book EXCEPT !.pos = [s \in Securities |-> None]]
Statements == Books \cup {WithoutHoldings(book) : book \in Books}
Keys == [acct : Accounts, type : BreakTypes, sec : Securities]
          \cup [acct : Accounts, type : {"cash"}, sec : {None}]
Ages == 0 .. StaleAfter      \* an age counts no further than it matters
StatusRows == [BrokerSet -> Ages \cup {None}]

TypeOK ==
  /\ theirs \in [Accounts -> Books]
  /\ ours \in [Accounts -> Books]
  /\ live \in SUBSET Accounts
  /\ known \in SUBSET Securities
  /\ rows \in [open : SUBSET Keys, resolved : SUBSET Keys]
  /\ alerted \in SUBSET Keys
  /\ status \in StatusRows
  /\ todo \in Seq(BrokerSet)
  /\ got \in [Accounts -> Statements] \cup {None}
  /\ found \in SUBSET Keys
  /\ covered \in SUBSET Accounts
  /\ skipped \in SUBSET Accounts
  /\ marks \in StatusRows
  /\ phase \in {"idle", "fetch", "alert"}
  /\ news \in BOOLEAN
  /\ told \in SUBSET Keys
------------------------------------------------------------------------------
(***************************************************************************)
(* _diff_snapshot: one account's book as the broker reports it against the *)
(* book in the database.  The broker's side of a security Metron has no    *)
(* row for is not compared.                                                *)
(***************************************************************************)
CashBreak(a, reported, mine) ==
  IF mine.cash = reported.cash THEN {} ELSE {[acct |-> a, type |-> "cash", sec |-> None]}

Breaks(a, reported, mine) ==
  LET key(type, s) == [acct |-> a, type |-> type, sec |-> s]
      compared == {s \in known : reported.pos[s] # None}
      both     == {s \in compared : mine.pos[s] # None}
  IN {key("missing_in_metron", s) : s \in compared \ both}
       \cup {key("quantity", s) : s \in {t \in both : mine.pos[t].qty # reported.pos[t].qty}}
       \cup {key("cost_basis", s) : s \in {t \in both : mine.pos[t].cost # reported.pos[t].cost}}
       \cup {key("missing_at_broker", s) :
               s \in {t \in Securities : mine.pos[t] # None /\ t \notin both}}
       \cup CashBreak(a, reported, mine)

AccountsOf(b) == {a \in live : BrokerOf[a] = b}

\* What a comparison of the books as they stand would find.
Diverging == UNION {Breaks(a, theirs[a], ours[a]) : a \in live}
------------------------------------------------------------------------------
(***************************************************************************)
(* The nightly run.                                                        *)
(***************************************************************************)
Begin ==
  /\ phase = "idle"
  /\ phase' = "fetch"
  /\ todo' = Brokers
  /\ marks' = status
  /\ UNCHANGED <<world, tables, got, found, covered, skipped, news, told>>

Asking(b) == phase = "fetch" /\ todo # << >> /\ Head(todo) = b /\ got = None

\* No account of this broker was ever imported: nothing to ask.
NotConnected(b) ==
  /\ Asking(b) /\ AccountsOf(b) = {}
  /\ todo' = Tail(todo)
  /\ UNCHANGED <<world, tables, got, found, covered, skipped, marks, phase, news, told>>

\* Mutant of FetchFails: only a good fetch creates the status row.
FetchFailsRowless(b) ==
  /\ Asking(b) /\ AccountsOf(b) # {}
  /\ todo' = Tail(todo)
  /\ UNCHANGED <<world, tables, got, found, covered, skipped, marks, phase, news, told>>

\* The status row exists from the first attempt on, so that its age counts.
FetchFails(b) ==
  /\ Asking(b) /\ AccountsOf(b) # {}
  /\ marks' = [marks EXCEPT ![b] = IF @ = None THEN 0 ELSE @]
  /\ todo' = Tail(todo)
  /\ UNCHANGED <<world, tables, got, found, covered, skipped, phase, news, told>>

\* get_all_holdings asks a piecewise broker account by account; a call that fails is logged
\* and skipped, and the account is in the snapshot with its cash and without holdings.
Unanswered(b) == IF b \in Piecewise THEN SUBSET AccountsOf(b) ELSE {{}}

Fetch(b) ==
  /\ Asking(b) /\ AccountsOf(b) # {}
  /\ \E missed \in Unanswered(b) :
       /\ got' = [a \in Accounts |-> IF a \in missed THEN WithoutHoldings(theirs[a]) ELSE theirs[a]]
       /\ skipped' = skipped \cup missed
  /\ UNCHANGED <<world, tables, todo, found, covered, marks, phase, news, told>>

\* Every account of the broker is compared, one without holdings in the snapshot too.
DiffSnapshot(b) ==
  /\ phase = "fetch" /\ todo # << >> /\ Head(todo) = b /\ got # None
  /\ marks' = [marks EXCEPT ![b] = 0]
  /\ found' = found \cup UNION {Breaks(a, got[a], ours[a]) : a \in AccountsOf(b)}
  /\ covered' = covered \cup AccountsOf(b)
  /\ got' = None
  /\ todo' = Tail(todo)
  /\ UNCHANGED <<world, tables, skipped, phase, news, told>>

\* _persist_breaks: a found break opens, reopens or stays as it is.
Reopened == found \cap rows.resolved
NewOrReopened == (found \ (rows.open \cup rows.resolved)) \cup Reopened

\* Mutant of Unstamped: reopening keeps the stamp of the occurrence before.
UnstampedNever == {}

\* alerted_at of a reopened break is cleared: the new occurrence alerts anew.
Unstamped == Reopened

\* Mutants of Resolvable: the accounts that were compared are left out of account, or
\* taken from the breaks that were found.
ResolvableAnywhere == rows.open \ found
ResolvableBesideOthers == {k \in rows.open \ found : \E f \in found : f.acct = k.acct}

\* _resolve_stale_breaks: only of accounts a snapshot of this run named.
Resolvable == {k \in rows.open \ found : k.acct \in covered}

\* The transaction over both tables.
PersistBreaks ==
  /\ phase = "fetch" /\ todo = << >>
  /\ rows' = [open |-> (rows.open \cup NewOrReopened) \ Resolvable,
              resolved |-> (rows.resolved \ Reopened) \cup Resolvable]
  /\ alerted' = alerted \ Unstamped
  /\ status' = marks
  /\ told' = told \ (NewOrReopened \cup Resolvable)
  /\ news' = (NewOrReopened # {})
  /\ covered' = {} /\ skipped' = {}
  /\ phase' = "alert"
  /\ UNCHANGED <<world, todo, got, found, marks>>

Over ==
  /\ phase' = "idle"
  /\ todo' = << >>
  /\ got' = None
  /\ found' = {}
  /\ covered' = {} /\ skipped' = {}
  /\ marks' = [b \in BrokerSet |-> None]
  /\ news' = FALSE

NothingNew ==
  /\ phase = "alert" /\ ~news
  /\ Over
  /\ UNCHANGED <<world, tables, told>>

\* One alert of every break of this run that has no stamp yet, then the stamps.
SendAlert ==
  /\ phase = "alert" /\ news
  /\ alerted' = alerted \cup found
  /\ told' = told \cup (found \ alerted)
  /\ Over
  /\ UNCHANGED <<world, rows, status>>

SendFails ==
  /\ phase = "alert" /\ news
  /\ Over
  /\ UNCHANGED <<world, tables, told>>

\* The process dies or raises; it may have sent the alert without the stamps.
Die ==
  /\ phase # "idle"
  /\ told' \in {told} \cup (IF phase = "alert" /\ news THEN {told \cup (found \ alerted)} ELSE {})
  /\ Over
  /\ UNCHANGED <<world, tables>>
------------------------------------------------------------------------------
(***************************************************************************)
(* The world beside it.                                                    *)
(***************************************************************************)
Trade(a) ==
  /\ \E book \in Books : theirs' = [theirs EXCEPT ![a] = book]
  /\ UNCHANGED <<ours, live, known, tables, run, told>>

\* A broker sync persists the broker's accounts (module PersistSnapshot).
Sync(b) ==
  LET of == {a \in Accounts : BrokerOf[a] = b}
  IN /\ ours' = [a \in Accounts |-> IF a \in of THEN theirs[a] ELSE ours[a]]
     /\ live' = live \cup of
     /\ known' = known \cup {s \in Securities : \E a \in of : theirs[a].pos[s] # None}
     /\ UNCHANGED <<theirs, tables, run, told>>

\* A sync that mapped or parsed what it read wrongly: the bug layer 1 is there to find.
Corrupt(a) ==
  /\ a \in live
  /\ \E book \in Books :
       /\ {s \in Securities : book.pos[s] # None} \subseteq known
       /\ ours' = [ours EXCEPT ![a] = book]
  /\ UNCHANGED <<theirs, live, known, tables, run, told>>

\* A night passes between two runs.
Night ==
  /\ phase = "idle"
  /\ status' = [b \in BrokerSet |->
                  IF status[b] = None THEN None
                  ELSE IF status[b] < StaleAfter THEN status[b] + 1 ELSE status[b]]
  /\ UNCHANGED <<world, rows, alerted, run, told>>
------------------------------------------------------------------------------
Init ==
  /\ theirs \in [Accounts -> Books]
  /\ ours = theirs
  /\ live = {} /\ known = {}
  /\ rows = [open |-> {}, resolved |-> {}]
  /\ alerted = {}
  /\ status = [b \in BrokerSet |-> None]
  /\ todo = << >> /\ got = None /\ found = {} /\ covered = {} /\ skipped = {}
  /\ marks = [b \in BrokerSet |-> None]
  /\ phase = "idle" /\ news = FALSE
  /\ told = {}

Reconcile ==
  \/ Begin
  \/ \E b \in BrokerSet : NotConnected(b) \/ FetchFails(b) \/ Fetch(b) \/ DiffSnapshot(b)
  \/ PersistBreaks \/ NothingNew \/ SendAlert \/ SendFails

World ==
  \/ \E a \in Accounts : Trade(a) \/ Corrupt(a)
  \/ \E b \in BrokerSet : Sync(b)
  \/ Night

Next == Reconcile \/ Die \/ World

Spec == Init /\ [][Next]_vars

\* The timer starts a run whenever none is running and nights pass.  The process may die
\* again and again, but not every time before it has asked, compared or committed: a
\* step tried without end is done at last, the delivery of an alert too.  Nothing says a
\* broker ever answers.
Report == NothingNew \/ SendAlert \/ SendFails
Ask(b) == NotConnected(b) \/ FetchFails(b) \/ Fetch(b)

Fairness ==
  /\ WF_vars(Begin) /\ SF_vars(Night) /\ WF_vars(Report)
  /\ \A b \in BrokerSet : SF_vars(Ask(b)) /\ SF_vars(DiffSnapshot(b))
  /\ SF_vars(PersistBreaks) /\ SF_vars(SendAlert)

FairSpec == Spec /\ Fairness
------------------------------------------------------------------------------
(***************************************************************************)
(* Properties.                                                             *)
(***************************************************************************)

\* alerted_at of an open break speaks of its present occurrence: the operator has been
\* told since it last opened, whatever runs died or failed to send in between.
AlertStampIsTrue == alerted \cap rows.open \subseteq told

\* A break is closed only in a transaction that records a good fetch of its own
\* account's broker: another broker's success, or an outage, closes nothing.
ResolvedWithFetch ==
  [][\A k \in rows.open \ rows'.open : status'[BrokerOf[k.acct]] = 0]_vars

\* A run that has compared account a commits, one of whose holdings it heard nothing too;
\* the books of a change under way.
Checked(a) == PersistBreaks /\ a \in covered
Missed(a) == Checked(a) /\ a \in skipped
Moves(a) == theirs[a] # theirs'[a] \/ ours[a] # ours'[a] \/ known # known'

\* Once the books of an account stand still, and it is checked again and again, its open
\* breaks become exactly its divergences and stay so: none missing, one that was resolved
\* before included, and none left open that is over or never was, found because a trade
\* and its sync fell between the fetch and the comparison, or because the call for its
\* holdings failed.  A call that fails again and again is excused: the comparison does not
\* look at holdings_complete_for, and opens a missing_at_broker break for every position of
\* such an account and closes its other breaks.
BreaksAreDivergences ==
  \A a \in Accounts :
    \/ []<><<Moves(a)>>_vars
    \/ <>[][~Checked(a)]_vars
    \/ []<><<Missed(a)>>_vars
    \/ <>[](\A k \in Keys : k.acct = a => (k \in rows.open <=> k \in Diverging))

\* A connected broker that is never compared again becomes stale and stays so, one
\* that never answered at all too.
DeadBrokerEscalates ==
  \A b \in BrokerSet :
    \/ [](AccountsOf(b) = {})
    \/ []<><<DiffSnapshot(b)>>_vars
    \/ <>[](status[b] = StaleAfter)

===============================================================================
