----------------------------- MODULE NavRevisions ------------------------------
(***************************************************************************)
(* The append-only log of every valuation a NAV snapshot row ever served:  *)
(* api/db/models.py, NavSnapshotRevision and the before_flush hook         *)
(* _record_nav_revisions, for both kinds of rows (portfolio and account).  *)
(*                                                                         *)
(* A writer is an ORM session: it reads the committed row of a scope,      *)
(* assigns to it (or deletes it, or adds a new row), and at its commit the *)
(* hook runs first: it appends, for each row whose valuation changed, the  *)
(* values the session had loaded, numbered max + 1 over the committed      *)
(* revisions.  The flush then writes the changed columns.  Nothing locks a *)
(* row between a session's read and its flush.                             *)
(***************************************************************************)
EXTENDS Integers, Sequences, FiniteSets

CONSTANTS
  Writers,    \* sessions: the nightly steps, the buttons, the operator commands
  Scopes,     \* (kind, tenant, portfolio, account, day)
  OfAccount,  \* the scopes of account-grain rows
  Values,     \* what nav, cost_basis, external_flow, ... say together
  None,
  MaxCommits, \* bound: transactions committed
  MaxBatch    \* bound: rows one transaction writes

ASSUME ConstantsAssumption ==
  /\ OfAccount \subseteq Scopes
  /\ None \notin Values
  /\ MaxCommits \in Nat
  /\ MaxBatch \in Nat

VARIABLES
  rows,     \* the snapshot tables: the row of each scope, None if it has none
  revs,     \* nav_snapshot_revisions
  sess,     \* per writer: its phase, what it loaded, what it will write, its
            \* numbers (and seen: how much had been served when it loaded)
  closed,   \* the scopes whose account was deleted
  \* bound and observation
  commits,  \* transactions committed so far; also numbers the rows
  served,   \* per scope, the valuations it served, in order
  crossed   \* the scopes a session overwrote after another had, since it loaded them

vars == <<rows, revs, sess, closed, commits, served, crossed>>

Row      == [id : Nat, val : Values, est : BOOLEAN]
Revision == [scope : Scopes, number : Nat \ {0}, id : Nat, change : {"update", "delete"},
             val : Values, est : BOOLEAN]
Nothing  == [s \in Scopes |-> None]
Idle     == [phase |-> "idle", loaded |-> Nothing, want |-> Nothing,
             top |-> [s \in Scopes |-> 0], seen |-> [s \in Scopes |-> 0]]
Removed  == [gone |-> TRUE]
Wanted   == [val : Values, est : BOOLEAN]

ASSUME NoneAssumption == None \notin Row \cup Wanted \cup {Removed}

----------------------------------------------------------------------------
Touched(w) == {s \in Scopes : sess[w].want[s] # None}

\* Mutant of Superseded: the hook looks at session.dirty only.
SupersededUpdates(w, s) ==
  LET l == sess[w].loaded[s]  want == sess[w].want[s] IN
  s \in Touched(w) /\ l # None /\ want # Removed /\ want.val # l.val

\* The hook skips a row whose only change is its estimate stamp (_prior_values).
Superseded(w, s) ==
  LET l == sess[w].loaded[s]  want == sess[w].want[s] IN
  s \in Touched(w) /\ l # None /\ (want = Removed \/ want.val # l.val)

\* Mutant of Top: the numbers are counted per row and not per day.
TopOfRow(s) == Cardinality({q \in revs : q.scope = s /\ rows[s] # None /\ q.id = rows[s].id})

\* func.max(revision) over the committed revisions of the scope.
Top(s) == LET ns == {r.number : r \in {q \in revs : q.scope = s}}
          IN IF ns = {} THEN 0 ELSE CHOOSE n \in ns : \A m \in ns : m <= n

Appended(w) ==
  {[scope |-> s, number |-> sess[w].top[s] + 1, id |-> sess[w].loaded[s].id,
    change |-> IF sess[w].want[s] = Removed THEN "delete" ELSE "update",
    val |-> sess[w].loaded[s].val, est |-> sess[w].loaded[s].est]
     : s \in {t \in Scopes : Superseded(w, t)}}

\* The loaded row is no longer the row of its scope.
Moved(s, l) == rows[s] = None \/ rows[s].id # l.id

\* The columns a flush writes are those the session saw change.
Written(w, s) ==
  LET l == sess[w].loaded[s]  want == sess[w].want[s]  now == rows[s] IN
  IF s \notin Touched(w) THEN now
  ELSE IF l = None THEN [id |-> commits + 1, val |-> want.val, est |-> want.est]
  ELSE IF Moved(s, l) THEN now
  ELSE IF want = Removed THEN None
  ELSE [now EXCEPT !.val = IF want.val = l.val THEN @ ELSE want.val,
                   !.est = IF want.est = l.est THEN @ ELSE want.est]

\* An INSERT against the unique day key or under an account that is gone, an
\* UPDATE of a row that is gone (StaleDataError; for a DELETE only a warning).
Fails(w, s) ==
  LET l == sess[w].loaded[s]  want == sess[w].want[s] IN
  IF l = None THEN rows[s] # None \/ s \in closed
  ELSE Moved(s, l) /\ want # Removed /\ want # [val |-> l.val, est |-> l.est]

Clash(w) == \E s \in Touched(w) : Fails(w, s)
----------------------------------------------------------------------------
\* _upsert_snapshot and its siblings: SELECT the row unless the session has it
\* already, then assign; add a new one when there is none.
Assign(w, s, want) ==
  /\ sess[w].phase \in {"idle", "open"}
  /\ want = Removed => s \notin Touched(w) /\ rows[s] # None
  /\ sess[w].want[s] # Removed
  /\ want # sess[w].want[s]
  /\ Cardinality(Touched(w) \cup {s}) <= MaxBatch
  /\ sess' = [sess EXCEPT ![w].phase = "open", ![w].want[s] = want,
                          ![w].loaded[s] = IF s \in Touched(w) THEN @ ELSE rows[s],
                          ![w].seen[s] = IF s \in Touched(w) THEN @ ELSE Len(served[s])]
  /\ UNCHANGED <<rows, revs, closed, commits, served, crossed>>

Upsert(w, s) == s \notin closed /\ \E want \in Wanted : Assign(w, s, want)
Remove(w, s) == Assign(w, s, Removed)

\* _record_nav_revisions: the numbers are read before anything is written.
BeforeFlush(w) ==
  /\ sess[w].phase = "open"
  /\ sess' = [sess EXCEPT ![w].phase = "hooked",
                          ![w].top = [s \in Scopes |-> IF Superseded(w, s) THEN Top(s) ELSE 0]]
  /\ UNCHANGED <<rows, revs, closed, commits, served, crossed>>

\* Another session replaced the valuation since this one loaded it.
Overlapped(w, s) ==
  /\ Superseded(w, s)
  /\ Len(served[s]) # sess[w].seen[s] \/ Moved(s, sess[w].loaded[s])

Commit(w) ==
  /\ sess[w].phase = "hooked" /\ ~Clash(w)
  /\ commits < MaxCommits
  /\ commits' = commits + 1
  /\ rows' = [s \in Scopes |-> Written(w, s)]
  /\ revs' = revs \cup Appended(w)
  /\ served' = [s \in Scopes |->
       IF rows'[s] = None \/ (rows[s] # None /\ rows'[s].val = rows[s].val) THEN served[s]
       ELSE Append(served[s], rows'[s].val)]
  /\ crossed' = crossed \cup {s \in Scopes : Overlapped(w, s)}
  /\ sess' = [sess EXCEPT ![w] = Idle]
  /\ UNCHANGED closed

\* The flush fails, or the step raised: the whole transaction is rolled back.
Abort(w) ==
  /\ sess[w].phase # "idle"
  /\ sess' = [sess EXCEPT ![w] = Idle]
  /\ UNCHANGED <<rows, revs, closed, commits, served, crossed>>

\* delete_account: the database cascades to the account's rows, below the hook.
DeleteAccount ==
  /\ commits < MaxCommits /\ closed = {} /\ OfAccount # {}
  /\ closed' = OfAccount
  /\ rows' = [s \in Scopes |-> IF s \in OfAccount THEN None ELSE rows[s]]
  /\ commits' = commits + 1
  /\ UNCHANGED <<revs, sess, served, crossed>>

Init ==
  /\ rows = Nothing /\ revs = {} /\ closed = {}
  /\ sess = [w \in Writers |-> Idle]
  /\ commits = 0 /\ served = [s \in Scopes |-> <<>>] /\ crossed = {}

Write(w) ==
  \/ \E s \in Scopes : Upsert(w, s) \/ Remove(w, s)
  \/ BeforeFlush(w) \/ Commit(w) \/ Abort(w)

Next == DeleteAccount \/ \E w \in Writers : Write(w)

Spec == Init /\ [][Next]_vars
----------------------------------------------------------------------------
TypeOK ==
  /\ rows \in [Scopes -> Row \cup {None}]
  /\ revs \subseteq Revision
  /\ sess \in [Writers -> [phase : {"idle", "open", "hooked"},
                           loaded : [Scopes -> Row \cup {None}],
                           want : [Scopes -> Wanted \cup {Removed, None}],
                           top : [Scopes -> Nat], seen : [Scopes -> Nat]]]
  /\ closed \in SUBSET OfAccount
  /\ commits \in 0..MaxCommits
  /\ served \in [Scopes -> Seq(Values)]
  /\ crossed \subseteq Scopes

RevisionsOf(s) == {r \in revs : r.scope = s}
Live(s) == IF rows[s] = None THEN <<>> ELSE <<rows[s].val>>

\* r are the valuations of the revisions of s, in the order of their numbers.
InOrder(s, r) ==
  /\ Cardinality(RevisionsOf(s)) = Len(r)
  /\ \A q \in RevisionsOf(s) : q.number \in DOMAIN r /\ r[q.number] = q.val
  /\ \A n \in DOMAIN r : \E q \in RevisionsOf(s) : q.number = n

\* The live row and the superseded revisions in the order of their numbers are
\* exactly what the date has served, whatever the steps rewrote, deleted or
\* recorded again: unless two sessions overlapped on the row, or the account
\* was deleted, which takes its last valuation along unrecorded.
HistoryComplete ==
  \A s \in Scopes \ crossed :
    LET n == Len(served[s]) IN
    \/ InOrder(s, SubSeq(served[s], 1, n - Len(Live(s))))
       /\ Live(s) = SubSeq(served[s], n + 1 - Len(Live(s)), n)
    \/ s \in closed /\ n > 0 /\ InOrder(s, SubSeq(served[s], 1, n - 1))

\* "1 = the first value this date ever served", also when sessions overlap and
\* two of them take the same number.
FirstIsFirst ==
  \A r \in revs : r.number = 1 => served[r.scope] # <<>> /\ r.val = served[r.scope][1]

\* What the log and the live rows tell is what was served.
HistoryIsServed == HistoryComplete /\ FirstIsFirst

================================================================================
