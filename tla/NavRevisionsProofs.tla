-------------------------- MODULE NavRevisionsProofs ---------------------------
(***************************************************************************)
(* Proofs about NavRevisions, for every set of sessions, scopes and        *)
(* values and any number of commits: its types, and that the revision log  *)
(* and the live rows tell what was served.                                 *)
(***************************************************************************)
EXTENDS NavRevisions, FiniteSetTheorems, SequenceTheorems, TLAPS
USE ConstantsAssumption DEF ConstantsAssumption

\* The state of a session.
Session == [phase : {"idle", "open", "hooked"}, loaded : [Scopes -> Row \cup {None}],
            want : [Scopes -> Wanted \cup {Removed, None}],
            top : [Scopes -> Nat], seen : [Scopes -> Nat]]

\* The numbers are no higher than the commits that made them, and the log of a
\* scope is finite.
CountInv ==
  /\ \A r \in revs : r.number <= commits
  /\ \A w \in Writers, s \in Scopes : sess[w].top[s] <= commits
  /\ \A s \in Scopes : IsFiniteSet(RevisionsOf(s))

\* A row shows what its scope served last; the rows of a closed account are
\* gone; until the log says something the scope has served one valuation.
RowInv(s) ==
  /\ rows[s] # None => served[s] # <<>> /\ served[s][Len(served[s])] = rows[s].val
  /\ s \in closed => rows[s] = None
  /\ RevisionsOf(s) = {} => Len(served[s]) <= 1 /\ (rows[s] = None /\ served[s] # <<>> => s \in closed)

\* The log of s holds the first n valuations it served.
Logged(s, n) ==
  /\ Cardinality(RevisionsOf(s)) = n
  /\ \A q \in RevisionsOf(s) : q.number \in 1..n /\ served[s][q.number] = q.val
  /\ \A k \in 1..n : \E q \in RevisionsOf(s) : q.number = k

\* HistoryComplete, per scope and by the length of what is logged.
Told(s) ==
  LET n == Len(served[s]) IN
  IF rows[s] # None THEN Logged(s, n - 1)
  ELSE Logged(s, n) \/ (s \in closed /\ n > 0 /\ Logged(s, n - 1))

\* What a session loaded had been served when it loaded it.
LoadedInv(w, s) ==
  /\ sess[w].want[s] # None => sess[w].phase # "idle"
  /\ sess[w].want[s] = Removed => sess[w].loaded[s] # None
  /\ s \in Touched(w) /\ sess[w].loaded[s] # None =>
       /\ sess[w].seen[s] \in 1..Len(served[s])
       /\ sess[w].loaded[s].val = served[s][sess[w].seen[s]]

\* The number a session will give is the place of what it loaded in the history,
\* unless another session has served the scope since.
HookedInv(w, s) ==
  sess[w].phase = "hooked" /\ Superseded(w, s) =>
    /\ sess[w].top[s] = 0 => sess[w].seen[s] = 1
    /\ s \notin crossed /\ sess[w].seen[s] = Len(served[s]) /\ rows[s] # None
         => sess[w].top[s] = sess[w].seen[s] - 1

\* Every scope, with what it served.
RowsInv == \A s \in Scopes : RowInv(s)
\* Every session, with every scope.
SessInv == \A w \in Writers, s \in Scopes : LoadedInv(w, s) /\ HookedInv(w, s)

\* The inductive invariant.
Inv == TypeOK /\ CountInv /\ RowsInv /\ SessInv /\ HistoryIsServed

\* What to write is a valuation or a removal, and not both.
LEMMA WantedType ==
  /\ None \notin Row /\ None \notin Wanted /\ Removed # None /\ Removed \notin Wanted
  /\ \A want \in Wanted : want.val \in Values /\ want.est \in BOOLEAN
  /\ \A want \in Wanted \cup {Removed, None} : want # None /\ want # Removed => want \in Wanted
  <1>1. Removed \notin Wanted
    <2>1. DOMAIN Removed = {"gone"} /\ \A want \in Wanted : DOMAIN want = {"val", "est"}
      BY DEF Removed, Wanted
    <2>2. "gone" \notin {"val", "est"}
      OBVIOUS
    <2>3. QED
      BY <2>1, <2>2
  <1>2. QED
    BY <1>1, NoneAssumption DEF Wanted

\* The numbers of a scope have a highest one.
LEMMA TopType ==
  ASSUME TypeOK, CountInv, NEW s \in Scopes
  PROVE  /\ Top(s) \in Nat /\ Top(s) <= commits
         /\ Top(s) = 0 <=> RevisionsOf(s) = {}
         /\ \A r \in RevisionsOf(s) : r.number <= Top(s)
         /\ RevisionsOf(s) # {} => \E r \in RevisionsOf(s) : r.number = Top(s)
  <1> DEFINE ns == {r.number : r \in {q \in revs : q.scope = s}}
             Above(m) == {k \in ns : m < k}
  <1>0. /\ revs \subseteq Revision /\ commits \in Nat
        /\ \A r \in Revision : r.number \in Nat \ {0}
        /\ \A r \in revs : r.number <= commits
    BY DEF TypeOK, CountInv, Revision
  <1>1. /\ ns \in SUBSET (Nat \ {0}) /\ commits \in Nat /\ \A n \in ns : n <= commits
        /\ ns = {} <=> RevisionsOf(s) = {}
        /\ \A r \in RevisionsOf(s) : r.number \in ns
        /\ \A n \in ns : \E r \in RevisionsOf(s) : r.number = n
    BY <1>0 DEF RevisionsOf
  <1>2. Top(s) = IF ns = {} THEN 0 ELSE CHOOSE n \in ns : \A m \in ns : m <= n
    BY DEF Top
  <1> HIDE DEF ns
  <1>3. ASSUME ns # {} PROVE \E m \in ns : \A n \in ns : n <= m
    <2>1. IsFiniteSet(ns)
      BY <1>1, FS_BoundedSetOfNaturals
    <2>2. IsWellFoundedOn(StrictSubsetOrdering(ns), SUBSET ns)
      BY <2>1, FS_StrictSubsetOrderingWellFounded, FS_FiniteSubsetsOfFinite
    <2>3. {Above(m) : m \in ns} \subseteq SUBSET ns /\ {Above(m) : m \in ns} # {}
      <3>1. \A m \in ns : Above(m) \in SUBSET ns
        OBVIOUS
      <3> HIDE DEF Above
      <3>2. PICK m : m \in ns
        BY <1>3
      <3>3. Above(m) \in {Above(k) : k \in ns}
        BY <3>2
      <3>4. QED
        BY <3>1, <3>3
    <2>4. PICK T \in {Above(m) : m \in ns} :
            \A U \in {Above(m) : m \in ns} : <<U, T>> \notin StrictSubsetOrdering(ns)
      BY <2>2, <2>3, WFMin
    <2>5. PICK m \in ns : T = Above(m)
      BY <2>4
    <2>6. ASSUME NEW n \in ns, ~(n <= m) PROVE FALSE
      <3>1. n \in Nat /\ m \in Nat /\ ns \subseteq Nat
        BY <1>1
      <3>2. m < n
        BY <3>1, <2>6
      <3>3. n \in Above(m) /\ n \notin Above(n)
        BY <3>1, <3>2
      <3>4. ASSUME NEW k \in Above(n) PROVE k \in Above(m)
        BY <3>1, <3>2
      <3>5. <<Above(n), T>> \in StrictSubsetOrdering(ns)
        BY <3>3, <3>4, <2>5 DEF StrictSubsetOrdering
      <3>6. QED
        BY <3>5, <2>4
    <2>7. QED
      BY <2>6
  <1>4. ns # {} => Top(s) \in ns /\ \A n \in ns : n <= Top(s)
    BY <1>2, <1>3
  <1>5. CASE ns = {}
    <2>1. Top(s) = 0 /\ RevisionsOf(s) = {}
      BY <1>1, <1>2, <1>5
    <2>2. QED
      BY <2>1, <1>1
  <1>6. CASE ns # {}
    <2>1. Top(s) \in ns /\ RevisionsOf(s) # {} /\ \A n \in ns : n <= Top(s)
      BY <1>1, <1>4, <1>6
    <2>2. Top(s) \in Nat /\ Top(s) # 0 /\ Top(s) <= commits
      BY <2>1, <1>1
    <2>3. QED
      BY <2>1, <2>2, <1>1
  <1>7. QED
    BY <1>5, <1>6

\* Nothing has been written.
LEMMA IdleType == Idle \in Session /\ Idle.top = [s \in Scopes |-> 0] /\ \A s \in Scopes : Idle.want[s] = None
  BY DEF Idle, Nothing, Session

\* A sequence of length one is its element.
LEMMA OneElement ==
  ASSUME NEW S, NEW q \in Seq(S), Len(q) = 1
  PROVE  q = <<q[1]>>
  OBVIOUS

\* InOrder, without the sequence it compares the log with.
LEMMA InOrderIsLogged ==
  ASSUME TypeOK, NEW s \in Scopes, NEW n \in 0..Len(served[s])
  PROVE  InOrder(s, SubSeq(served[s], 1, n)) <=> Logged(s, n)
  <1> DEFINE r == SubSeq(served[s], 1, n)
  <1>1. served[s] \in Seq(Values) /\ Len(served[s]) \in Nat
    BY LenProperties DEF TypeOK
  <1>2. r \in Seq(Values) /\ Len(r) = n /\ DOMAIN r = 1..n /\ \A k \in 1..n : r[k] = served[s][k]
    <2>1. n \in Nat /\ n <= Len(served[s])
      BY <1>1
    <2>2. r = [k \in 1..n |-> served[s][k]]
      BY <1>1, <2>1
    <2>3. QED
      BY <1>1, <2>1, <2>2
  <1> HIDE DEF r
  <1>3. InOrder(s, r) <=> Logged(s, n)
    BY <1>2 DEF InOrder, Logged
  <1>4. QED
    BY <1>3 DEF r

\* HistoryComplete, without sequences cut in two.
LEMMA CompleteIsTold ==
  ASSUME TypeOK, RowsInv
  PROVE  HistoryComplete <=> \A s \in Scopes \ crossed : Told(s)
  <1> DEFINE Complete(s) ==
    LET n == Len(served[s]) IN
    \/ InOrder(s, SubSeq(served[s], 1, n - Len(Live(s))))
       /\ Live(s) = SubSeq(served[s], n + 1 - Len(Live(s)), n)
    \/ s \in closed /\ n > 0 /\ InOrder(s, SubSeq(served[s], 1, n - 1))
  <1>1. ASSUME NEW s \in Scopes PROVE Complete(s) <=> Told(s)
    <2> DEFINE n == Len(served[s])
    <2>1. served[s] \in Seq(Values) /\ n \in Nat
      BY LenProperties DEF TypeOK
    <2>2. RowInv(s)
      BY DEF RowsInv
    <2>3. CASE rows[s] = None
      <3>1. Live(s) = <<>> /\ Len(Live(s)) = 0 /\ n - 0 = n
        BY <2>3, <2>1 DEF Live
      <3>2. SubSeq(served[s], n + 1, n) = <<>>
        BY <2>1
      <3>3. InOrder(s, SubSeq(served[s], 1, n)) <=> Logged(s, n)
        BY <2>1, InOrderIsLogged
      <3>4. n > 0 => (InOrder(s, SubSeq(served[s], 1, n - 1)) <=> Logged(s, n - 1))
        <4>1. n > 0 => n - 1 \in 0..n
          BY <2>1
        <4>2. QED
          BY <4>1, InOrderIsLogged
      <3>5. n + 1 - Len(Live(s)) = n + 1 /\ n - Len(Live(s)) = n
        BY <3>1, <2>1
      <3> HIDE DEF n
      <3>6. Complete(s) <=> \/ Logged(s, n)
                            \/ s \in closed /\ n > 0 /\ Logged(s, n - 1)
        BY <3>1, <3>2, <3>3, <3>4, <3>5 DEF n
      <3>7. QED
        BY <3>6, <2>3 DEF Told, n
    <2>4. CASE rows[s] # None
      <3>1. Live(s) = <<rows[s].val>> /\ Len(Live(s)) = 1
        BY <2>4 DEF Live
      <3>2. served[s] # <<>> /\ served[s][n] = rows[s].val /\ s \notin closed
        BY <2>2, <2>4 DEF RowInv
      <3>3. n \in 1..n /\ n - 1 \in 0..n
        BY <2>1, <3>2, EmptySeq
      <3>4. SubSeq(served[s], n, n) = <<served[s][n]>>
        <4>1. /\ Len(SubSeq(served[s], n, n)) = 1 /\ SubSeq(served[s], n, n) \in Seq(Values)
              /\ SubSeq(served[s], n, n)[1] = served[s][n]
          <5>1. n \in Nat /\ 1 <= n /\ n - n + 1 = 1 /\ 1 + n - 1 = n /\ n <= Len(served[s])
            BY <2>1, <3>3
          <5>2. QED
            BY <5>1, <2>1, SubSeqProperties
        <4>2. QED
          BY <4>1, OneElement
      <3>5. InOrder(s, SubSeq(served[s], 1, n - 1)) <=> Logged(s, n - 1)
        BY <3>3, InOrderIsLogged
      <3>6. n + 1 - Len(Live(s)) = n /\ n - Len(Live(s)) = n - 1
        BY <3>1, <2>1
      <3> HIDE DEF n
      <3>7. Complete(s) <=> Logged(s, n - 1)
        BY <3>1, <3>2, <3>4, <3>5, <3>6 DEF n
      <3>8. QED
        BY <3>7, <2>4 DEF Told, n
    <2>5. QED
      BY <2>3, <2>4
  <1>2. HistoryComplete <=> \A s \in Scopes \ crossed : Complete(s)
    BY DEF HistoryComplete
  <1>3. QED
    BY <1>1, <1>2

\* Nothing is served, logged or written at first.
LEMMA InitType == Init => Inv
  <1> SUFFICES ASSUME Init PROVE Inv
    OBVIOUS
  <1>1. sess \in [Writers -> Session]
    BY IdleType DEF Init
  <1>2. TypeOK
    BY <1>1, EmptySeq DEF Init, TypeOK, Session, Nothing
  <1>3. CountInv
    BY IdleType, FS_EmptySet DEF Init, CountInv, Nothing, RevisionsOf
  <1>4. RowsInv
    BY DEF Init, RowsInv, RowInv, Nothing
  <1>5. SessInv
    BY IdleType, WantedType DEF Init, SessInv, LoadedInv, HookedInv, Touched, Idle
  <1>6. HistoryIsServed
    <2>1. ASSUME NEW s \in Scopes PROVE Told(s)
      BY FS_EmptySet DEF Init, Told, Logged, RevisionsOf, Nothing
    <2>2. HistoryComplete
      BY <2>1, <1>2, <1>4, CompleteIsTold
    <2>3. FirstIsFirst
      BY DEF Init, FirstIsFirst
    <2>4. QED
      BY <2>2, <2>3 DEF HistoryIsServed
  <1>7. QED
    BY <1>2, <1>3, <1>4, <1>5, <1>6 DEF Inv

\* The number a hook reads is how many valuations the log tells.
LEMMA LoggedTop ==
  ASSUME TypeOK, CountInv, NEW s \in Scopes, NEW n \in Nat, Logged(s, n)
  PROVE  Top(s) = n
  <1>1. \A q \in RevisionsOf(s) : q.number \in 1..n /\ q.number <= Top(s)
    BY TopType DEF Logged
  <1>2. Top(s) \in Nat
    BY TopType
  <1>3. CASE n = 0
    <2>1. RevisionsOf(s) = {}
      BY <1>1, <1>3
    <2>2. QED
      BY <2>1, <1>3, TopType
  <1>4. CASE n # 0
    <2>1. PICK q \in RevisionsOf(s) : q.number = n
      BY <1>4 DEF Logged
    <2>2. n <= Top(s) /\ RevisionsOf(s) # {}
      BY <2>1, <1>1
    <2>3. PICK p \in RevisionsOf(s) : p.number = Top(s)
      BY <2>2, TopType
    <2>4. Top(s) <= n
      BY <2>3, <1>1
    <2>5. QED
      BY <2>2, <2>4, <1>2
  <1>5. QED
    BY <1>3, <1>4

\* A step of one session that writes nothing.
LEMMA SessionStep ==
  ASSUME Inv, NEW w \in Writers, NEW new \in Session,
         sess' = [sess EXCEPT ![w] = new],
         UNCHANGED <<rows, revs, closed, commits, served, crossed>>,
         \A s \in Scopes : new.top[s] <= commits,
         \A s \in Scopes : LoadedInv(w, s)' /\ HookedInv(w, s)'
  PROVE  Inv'
  <1>1. sess \in [Writers -> Session] /\ sess'[w] = new
        /\ \A v \in Writers \ {w} : sess'[v] = sess[v]
    BY DEF Inv, TypeOK, Session
  <1>2. TypeOK'
    <2>1. sess' \in [Writers -> Session]
      BY <1>1
    <2>2. QED
      BY <2>1 DEF Inv, TypeOK, Session
  <1>3. CountInv'
    <2>1. ASSUME NEW v \in Writers, NEW s \in Scopes PROVE (sess[v].top[s] <= commits)'
      BY <1>1 DEF Inv, CountInv
    <2>2. QED
      BY <2>1 DEF Inv, CountInv, RevisionsOf
  <1>4. RowsInv'
    BY DEF Inv, RowsInv, RowInv, RevisionsOf
  <1>5. SessInv'
    <2>1. ASSUME NEW v \in Writers \ {w}, NEW s \in Scopes PROVE LoadedInv(v, s)' /\ HookedInv(v, s)'
      <3>1. LoadedInv(v, s) /\ HookedInv(v, s) /\ sess'[v] = sess[v]
        BY <1>1 DEF Inv, SessInv
      <3>2. QED
        BY <3>1 DEF LoadedInv, HookedInv, Touched, Superseded
    <2>2. QED
      BY <2>1 DEF SessInv
  <1>6. HistoryIsServed'
    <2>1. \A s \in Scopes \ crossed : Told(s)
      BY CompleteIsTold DEF Inv, HistoryIsServed
    <2>2. ASSUME NEW s \in Scopes \ crossed' PROVE Told(s)'
      <3>1. \A n : Logged(s, n)' <=> Logged(s, n)
        BY DEF Logged, RevisionsOf
      <3>2. QED
        BY <2>1, <3>1 DEF Told
    <2>3. HistoryComplete'
      <3>1. (HistoryComplete <=> \A s \in Scopes \ crossed : Told(s))'
        BY <1>2, <1>4, CompleteIsTold, PTL
      <3>2. QED
        BY <3>1, <2>2
    <2>4. FirstIsFirst'
      BY DEF Inv, HistoryIsServed, FirstIsFirst
    <2>5. QED
      BY <2>3, <2>4 DEF HistoryIsServed
  <1>7. QED
    BY <1>2, <1>3, <1>4, <1>5, <1>6 DEF Inv

\* A rolled back session leaves no trace.
LEMMA AbortStep == ASSUME Inv, NEW w \in Writers, Abort(w) PROVE Inv'
  <1>1. Idle \in Session /\ commits \in Nat
    BY IdleType DEF Inv, TypeOK
  <1>2. \A s \in Scopes : Idle.top[s] <= commits
    BY <1>1, IdleType
  <1>3. sess' = [sess EXCEPT ![w] = Idle] /\ sess'[w] = Idle
    BY DEF Abort, Inv, TypeOK
  <1>4. ASSUME NEW s \in Scopes PROVE LoadedInv(w, s)' /\ HookedInv(w, s)'
    BY <1>3, IdleType, WantedType DEF LoadedInv, HookedInv, Touched, Superseded
  <1>5. QED
    BY <1>1, <1>2, <1>3, <1>4, SessionStep DEF Abort

\* A session reads the row it will write, or goes on with what it has read.
LEMMA AssignStep ==
  ASSUME Inv, NEW w \in Writers, NEW s \in Scopes, NEW want \in Wanted \cup {Removed},
         Assign(w, s, want)
  PROVE  Inv'
  <1> DEFINE old == sess[w]
             wants == [old.want EXCEPT ![s] = want]
             loads == [old.loaded EXCEPT ![s] = IF s \in Touched(w) THEN @ ELSE rows[s]]
             seens == [old.seen EXCEPT ![s] = IF s \in Touched(w) THEN @ ELSE Len(served[s])]
             new == [old EXCEPT !.phase = "open", !.want = wants, !.loaded = loads, !.seen = seens]
  <1>1. old \in Session /\ TypeOK /\ want # None /\ Len(served[s]) \in Nat
    BY WantedType, LenProperties DEF Inv, TypeOK, Session
  <1>2. sess' = [sess EXCEPT ![w] = new]
    BY <1>1 DEF Assign, Inv, TypeOK
  <1>3. /\ wants \in [Scopes -> Wanted \cup {Removed, None}]
        /\ loads \in [Scopes -> Row \cup {None}] /\ seens \in [Scopes -> Nat]
    BY <1>1 DEF Session, TypeOK
  <1>4. new \in Session /\ new.phase = "open" /\ new.want = wants /\ new.loaded = loads
        /\ new.seen = seens /\ new.top = old.top
    BY <1>1, <1>3 DEF Session
  <1>5. \A t \in Scopes : new.top[t] <= commits
    BY <1>4 DEF Inv, CountInv
  <1>6. sess'[w] = new
    BY <1>2 DEF Inv, TypeOK
  <1>7. ASSUME NEW t \in Scopes PROVE LoadedInv(w, t)' /\ HookedInv(w, t)'
    <2>1. LoadedInv(w, t) /\ RowInv(s)
      BY DEF Inv, SessInv, RowsInv
    <2>2. HookedInv(w, t)'
      BY <1>6, <1>4 DEF HookedInv
    <2>3. CASE t # s
      <3>1. new.want[t] = old.want[t] /\ new.loaded[t] = old.loaded[t] /\ new.seen[t] = old.seen[t]
        BY <2>3, <1>4, <1>1 DEF Session
      <3>2. QED
        BY <2>1, <2>2, <3>1, <1>6, <1>4 DEF LoadedInv, Touched, Assign
    <2>4. CASE t = s
      <3>1. new.want[s] = want
        BY <1>4, <1>1 DEF Session
      <3>2. CASE s \in Touched(w)
        <4>1. new.loaded[s] = old.loaded[s] /\ new.seen[s] = old.seen[s] /\ want # Removed
          BY <3>2, <1>4, <1>1 DEF Session, Assign
        <4>2. QED
          BY <2>1, <2>2, <2>4, <3>1, <3>2, <4>1, <1>6, <1>4 DEF LoadedInv, Touched, Assign
      <3>3. CASE s \notin Touched(w)
        <4>1. new.loaded[s] = rows[s] /\ new.seen[s] = Len(served[s])
              /\ (want = Removed => rows[s] # None)
          BY <3>3, <1>4, <1>1 DEF Session, Assign
        <4>2. rows[s] # None => Len(served[s]) \in 1..Len(served[s])
                                /\ rows[s].val = served[s][Len(served[s])]
          BY <2>1, <1>1, EmptySeq DEF RowInv, TypeOK
        <4>3. QED
          BY <2>2, <2>4, <3>1, <4>1, <4>2, <1>6, <1>4 DEF LoadedInv, Touched, Assign
      <3>4. QED
        BY <3>2, <3>3
    <2>5. QED
      BY <2>3, <2>4
  <1> HIDE DEF new
  <1>8. QED
    BY <1>2, <1>4, <1>5, <1>7, SessionStep DEF Assign

\* _record_nav_revisions reads the highest number of each row it will log.
LEMMA HookStep == ASSUME Inv, NEW w \in Writers, BeforeFlush(w) PROVE Inv'
  <1> DEFINE tops == [s \in Scopes |-> IF Superseded(w, s) THEN Top(s) ELSE 0]
             new == [sess[w] EXCEPT !.phase = "hooked", !.top = tops]
  <1>1. sess[w] \in Session /\ commits \in Nat /\ TypeOK /\ CountInv
    BY DEF Inv, TypeOK, Session
  <1>2. tops \in [Scopes -> Nat] /\ \A s \in Scopes : tops[s] <= commits
    <2>1. \A s \in Scopes : Top(s) \in Nat /\ Top(s) <= commits
      BY <1>1, TopType
    <2>2. QED
      BY <2>1, <1>1
  <1>3. \A s \in Scopes : Superseded(w, s) => tops[s] = Top(s)
    OBVIOUS
  <1>4. sess' = [sess EXCEPT ![w] = new]
    BY <1>1 DEF BeforeFlush, Inv, TypeOK
  <1> HIDE DEF tops
  <1>5. new \in Session /\ new.phase = "hooked" /\ new.want = sess[w].want
        /\ new.loaded = sess[w].loaded /\ new.seen = sess[w].seen /\ new.top = tops
    BY <1>1, <1>2 DEF Session
  <1> HIDE DEF new
  <1>6. sess'[w] = new
    BY <1>4 DEF Inv, TypeOK
  <1>7. ASSUME NEW s \in Scopes PROVE LoadedInv(w, s)' /\ HookedInv(w, s)'
    <2>1. LoadedInv(w, s) /\ RowInv(s)
      BY DEF Inv, SessInv, RowsInv
    <2>2. LoadedInv(w, s)'
      BY <2>1, <1>5, <1>6 DEF LoadedInv, Touched, BeforeFlush
    <2>3. ASSUME Superseded(w, s)
          PROVE  /\ tops[s] = 0 => new.seen[s] = 1
                 /\ s \notin crossed /\ new.seen[s] = Len(served[s]) /\ rows[s] # None
                      => tops[s] = new.seen[s] - 1
      <3>1. sess[w].seen[s] \in 1..Len(served[s]) /\ tops[s] = Top(s) /\ Len(served[s]) \in Nat
        BY <2>1, <2>3, <1>3, <1>1, LenProperties DEF LoadedInv, Superseded, TypeOK
      <3>2. ASSUME tops[s] = 0 PROVE new.seen[s] = 1
        <4>1. RevisionsOf(s) = {}
          BY <3>1, <3>2, <1>1, TopType
        <4>2. QED
          BY <4>1, <3>1, <2>1, <1>5 DEF RowInv
      <3>3. ASSUME s \notin crossed, new.seen[s] = Len(served[s]), rows[s] # None
            PROVE  tops[s] = new.seen[s] - 1
        <4>1. Logged(s, Len(served[s]) - 1)
          BY <3>3, CompleteIsTold DEF Inv, HistoryIsServed, Told
        <4>2. Len(served[s]) - 1 \in Nat
          BY <3>1
        <4>3. QED
          BY <4>1, <4>2, <3>1, <3>3, <1>1, LoggedTop
      <3>4. QED
        BY <3>2, <3>3
    <2>4. Superseded(w, s)' <=> Superseded(w, s)
      BY <1>5, <1>6 DEF Superseded, Touched
    <2>5. HookedInv(w, s)'
      BY <2>3, <2>4, <1>5, <1>6 DEF HookedInv, BeforeFlush
    <2>6. QED
      BY <2>2, <2>5
  <1>8. QED
    BY <1>2, <1>4, <1>5, <1>7, SessionStep DEF BeforeFlush

\* delete_account's cascade takes the last valuation along.
LEMMA DeleteStep == ASSUME Inv, DeleteAccount PROVE Inv'
  <1>1. TypeOK /\ commits \in Nat /\ commits' \in Nat /\ commits' \in 0..MaxCommits /\ commits <= commits'
    BY DEF Inv, TypeOK, DeleteAccount
  <1>2. TypeOK'
    BY <1>1 DEF DeleteAccount, TypeOK
  <1>3. CountInv'
    <2>1. ASSUME NEW r \in revs PROVE r.number <= commits'
      <3>1. r.number \in Nat /\ r.number <= commits
        BY DEF Inv, CountInv, TypeOK, Revision
      <3>2. QED
        BY <3>1, <1>1
    <2>2. ASSUME NEW w \in Writers, NEW s \in Scopes PROVE sess[w].top[s] <= commits'
      <3>1. sess[w].top[s] \in Nat /\ sess[w].top[s] <= commits
        BY DEF Inv, CountInv, TypeOK
      <3>2. QED
        BY <3>1, <1>1
    <2>3. QED
      BY <2>1, <2>2 DEF Inv, CountInv, DeleteAccount, RevisionsOf
  <1>4. RowsInv'
    BY DEF Inv, RowsInv, RowInv, RevisionsOf, DeleteAccount, TypeOK
  <1>5. SessInv'
    <2>1. ASSUME NEW w \in Writers, NEW s \in Scopes PROVE LoadedInv(w, s)' /\ HookedInv(w, s)'
      <3>1. LoadedInv(w, s) /\ HookedInv(w, s) /\ UNCHANGED <<sess, served, crossed>>
            /\ (rows'[s] # None => rows[s] # None)
        BY DEF Inv, SessInv, DeleteAccount, TypeOK
      <3>2. QED
        BY <3>1 DEF LoadedInv, HookedInv, Touched, Superseded
    <2>2. QED
      BY <2>1 DEF SessInv
  <1>6. HistoryIsServed'
    <2>1. \A s \in Scopes \ crossed : Told(s)
      BY CompleteIsTold DEF Inv, HistoryIsServed
    <2>2. ASSUME NEW s \in Scopes \ crossed' PROVE Told(s)'
      <3>1. Told(s) /\ RowInv(s) /\ UNCHANGED <<revs, served, crossed>> /\ closed = {}
        BY <2>1 DEF DeleteAccount, Inv, RowsInv
      <3>2. Len(served[s]) \in Nat /\ (served[s] # <<>> => Len(served[s]) > 0)
        BY <1>1, LenProperties, EmptySeq DEF TypeOK
      <3>3. \A n : Logged(s, n)' <=> Logged(s, n)
        BY <3>1 DEF Logged, RevisionsOf
      <3>4. CASE s \in OfAccount
        BY <3>1, <3>2, <3>3, <3>4 DEF Told, RowInv, DeleteAccount
      <3>5. CASE s \notin OfAccount
        BY <3>1, <3>2, <3>3, <3>5 DEF Told, RowInv, DeleteAccount
      <3>6. QED
        BY <3>4, <3>5
    <2>3. (HistoryComplete <=> \A s \in Scopes \ crossed : Told(s))'
      BY <1>2, <1>4, CompleteIsTold, PTL
    <2>4. FirstIsFirst'
      BY DEF Inv, HistoryIsServed, FirstIsFirst, DeleteAccount
    <2>5. QED
      BY <2>2, <2>3, <2>4 DEF HistoryIsServed
  <1>7. QED
    BY <1>2, <1>3, <1>4, <1>5, <1>6 DEF Inv

\* What a commit does to a scope: its row shows what it showed, or something new.
Kept(s) ==
  /\ served'[s] = served[s] /\ (rows'[s] = None <=> rows[s] = None)
  /\ rows[s] # None => rows'[s].val = rows[s].val

\* The row shows something new, which the scope has served now.
Shown(s) == rows'[s] # None /\ served'[s] = Append(served[s], rows'[s].val)

\* The revision a commit of w appends for s.
Prior(w, s) ==
  [scope |-> s, number |-> sess[w].top[s] + 1, id |-> sess[w].loaded[s].id,
   change |-> IF sess[w].want[s] = Removed THEN "delete" ELSE "update",
   val |-> sess[w].loaded[s].val, est |-> sess[w].loaded[s].est]

\* What a session loaded and what it will write.
LEMMA SessionFields ==
  ASSUME TypeOK, NEW w \in Writers, NEW s \in Scopes
  PROVE  /\ sess[w].loaded[s] \in Row \cup {None} /\ sess[w].want[s] \in Wanted \cup {Removed, None}
         /\ sess[w].top[s] \in Nat /\ sess[w].seen[s] \in Nat
         /\ \A l \in Row : l.id \in Nat /\ l.val \in Values /\ l.est \in BOOLEAN /\ l # None
  BY WantedType DEF TypeOK, Row

\* A flush leaves a row or none.
LEMMA WrittenType ==
  ASSUME Inv, NEW w \in Writers, NEW s \in Scopes
  PROVE  Written(w, s) \in Row \cup {None}
  <1>1. /\ sess[w].loaded[s] \in Row \cup {None} /\ rows[s] \in Row \cup {None} /\ commits \in Nat
        /\ sess[w].want[s] = Removed => sess[w].loaded[s] # None
    BY SessionFields DEF Inv, TypeOK, SessInv, LoadedInv
  <1>2. s \in Touched(w) /\ sess[w].want[s] # Removed =>
          sess[w].want[s] \in Wanted /\ sess[w].want[s].val \in Values /\ sess[w].want[s].est \in BOOLEAN
    BY WantedType, SessionFields DEF Inv, Touched
  <1> DEFINE l == sess[w].loaded[s]  want == sess[w].want[s]  now == rows[s]
             fresh == [id |-> commits + 1, val |-> want.val, est |-> want.est]
             a == IF want.val = l.val THEN now.val ELSE want.val
             b == IF want.est = l.est THEN now.est ELSE want.est
             over == [now EXCEPT !.val = a, !.est = b]
  <1>3. s \in Touched(w) /\ want # Removed => fresh \in Row
    BY <1>1, <1>2 DEF Row
  <1>4. s \in Touched(w) /\ want # Removed /\ now # None => over \in Row
    <2>1. ASSUME s \in Touched(w), want # Removed, now # None PROVE over \in Row
      <3>1. now \in Row /\ now.val \in Values /\ now.est \in BOOLEAN
        BY <2>1, <1>1 DEF Row
      <3>2. a \in Values /\ b \in BOOLEAN
        BY <2>1, <3>1, <1>2
      <3> HIDE DEF a, b
      <3>3. QED
        BY <3>1, <3>2 DEF Row
    <2>2. QED
      BY <2>1
  <1>5. Written(w, s) = IF s \notin Touched(w) THEN now
                        ELSE IF l = None THEN fresh
                        ELSE IF Moved(s, l) THEN now
                        ELSE IF want = Removed THEN None ELSE over
    BY DEF Written
  <1>6. ~Moved(s, l) => now # None
    BY DEF Moved
  <1> HIDE DEF fresh, over
  <1>7. QED
    BY <1>1, <1>3, <1>4, <1>5, <1>6

\* The valuation a written row has.
LEMMA WrittenValue ==
  ASSUME Inv, NEW w \in Writers, NEW s \in Touched(w), sess[w].want[s] # Removed
  PROVE  /\ sess[w].loaded[s] = None => Written(w, s) # None /\ Written(w, s).val = sess[w].want[s].val
         /\ sess[w].loaded[s] # None /\ ~Moved(s, sess[w].loaded[s]) =>
              /\ Written(w, s) # None
              /\ Written(w, s).val = IF sess[w].want[s].val = sess[w].loaded[s].val
                                     THEN rows[s].val ELSE sess[w].want[s].val
  <1> DEFINE l == sess[w].loaded[s]  want == sess[w].want[s]  now == rows[s]
             fresh == [id |-> commits + 1, val |-> want.val, est |-> want.est]
             a == IF want.val = l.val THEN now.val ELSE want.val
             b == IF want.est = l.est THEN now.est ELSE want.est
             over == [now EXCEPT !.val = a, !.est = b]
  <1>1. s \in Scopes /\ now \in Row \cup {None} /\ commits \in Nat /\ TypeOK
    BY DEF Touched, Inv, TypeOK
  <1>2. want \in Wanted /\ want.val \in Values /\ want.est \in BOOLEAN
    BY <1>1, WantedType, SessionFields DEF Touched
  <1>3. l = None => Written(w, s) = fresh
    BY DEF Written
  <1>4. fresh \in Row /\ fresh.val = want.val
    BY <1>1, <1>2 DEF Row
  <1>5. l # None /\ ~Moved(s, l) => Written(w, s) = over /\ now # None
    BY DEF Written, Moved
  <1>6. now # None => over \in Row /\ over.val = a
    <2>1. ASSUME now # None PROVE over \in Row /\ over.val = a
      <3>1. now \in Row /\ now.val \in Values /\ now.est \in BOOLEAN
        BY <2>1, <1>1 DEF Row
      <3>2. a \in Values /\ b \in BOOLEAN
        BY <3>1, <1>2
      <3> HIDE DEF a, b
      <3>3. QED
        BY <3>1, <3>2 DEF Row
    <2>2. QED
      BY <2>1
  <1> HIDE DEF fresh, over
  <1>7. QED
    BY <1>3, <1>4, <1>5, <1>6, WantedType

\* The four things a commit does to a scope.
LEMMA CommitRow ==
  ASSUME Inv, NEW w \in Writers, Commit(w), NEW s \in Scopes
  PROVE  \/ Kept(s) /\ (Superseded(w, s) => Overlapped(w, s))
         \/ Shown(s) /\ rows[s] = None /\ s \notin closed /\ ~Superseded(w, s)
         \/ rows[s] # None /\ rows'[s] = None /\ served'[s] = served[s] /\ Superseded(w, s)
         \/ rows[s] # None /\ Shown(s) /\ Superseded(w, s)
  <1> DEFINE l == sess[w].loaded[s]  want == sess[w].want[s]
  <1>1. /\ TypeOK /\ RowInv(s) /\ LoadedInv(w, s)
        /\ rows'[s] = Written(w, s)
        /\ served'[s] = IF rows'[s] = None \/ (rows[s] # None /\ rows'[s].val = rows[s].val)
                        THEN served[s] ELSE Append(served[s], rows'[s].val)
    BY DEF Inv, RowsInv, SessInv, Commit
  <1>2. CASE s \notin Touched(w)
    BY <1>1, <1>2 DEF Written, Kept, Superseded
  <1>3. CASE s \in Touched(w) /\ l = None
    <2>1. rows[s] = None /\ s \notin closed /\ want # Removed /\ ~Superseded(w, s)
      BY <1>1, <1>3 DEF Commit, Clash, Fails, LoadedInv, Superseded
    <2>2. rows'[s] # None
      BY <2>1, <1>1, <1>3, WrittenValue
    <2>3. QED
      BY <2>1, <2>2, <1>1 DEF Shown
  <1>4. CASE s \in Touched(w) /\ l # None /\ Moved(s, l)
    <2>1. rows'[s] = rows[s]
      BY <1>1, <1>4 DEF Written
    <2>2. QED
      BY <2>1, <1>1, <1>4 DEF Kept, Overlapped
  <1>5. CASE s \in Touched(w) /\ l # None /\ ~Moved(s, l)
    <2>1. rows[s] # None
      BY <1>5 DEF Moved
    <2>2. CASE want = Removed
      <3>1. rows'[s] = None /\ Superseded(w, s)
        BY <1>1, <1>5, <2>2 DEF Written, Superseded
      <3>2. QED
        BY <3>1, <2>1, <1>1
    <2>3. CASE want # Removed
      <3>1. rows'[s] # None
            /\ rows'[s].val = IF want.val = l.val THEN rows[s].val ELSE want.val
        BY <1>1, <1>5, <2>3, WrittenValue
      <3>2. CASE want.val = l.val
        <4>1. Kept(s) /\ ~Superseded(w, s)
          BY <3>1, <3>2, <2>1, <2>3, <1>1 DEF Kept, Superseded
        <4>2. QED
          BY <4>1
      <3>3. CASE want.val # l.val
        <4>1. Superseded(w, s) /\ rows'[s].val = want.val
          BY <3>1, <3>3, <1>5 DEF Superseded
        <4>2. CASE want.val = rows[s].val
          <5>1. Kept(s)
            BY <4>1, <4>2, <3>1, <2>1, <1>1 DEF Kept
          <5>2. l.val = served[s][sess[w].seen[s]] /\ rows[s].val = served[s][Len(served[s])]
            BY <1>1, <1>5, <2>1 DEF LoadedInv, RowInv
          <5>3. Len(served[s]) # sess[w].seen[s]
            BY <5>2, <3>3, <4>2
          <5>4. QED
            BY <5>1, <5>3, <4>1 DEF Overlapped
        <4>3. CASE want.val # rows[s].val
          BY <4>1, <4>3, <3>1, <2>1, <1>1 DEF Shown
        <4>4. QED
          BY <4>2, <4>3
      <3>4. QED
        BY <3>2, <3>3
    <2>4. QED
      BY <2>2, <2>3
  <1>6. QED
    BY <1>2, <1>3, <1>4, <1>5

\* A superseded row was loaded, and its revision says what was loaded.
LEMMA PriorType ==
  ASSUME Inv, NEW w \in Writers, NEW s \in Scopes, Superseded(w, s)
  PROVE  /\ Prior(w, s) \in Revision /\ Prior(w, s).scope = s
         /\ Prior(w, s).number = sess[w].top[s] + 1
         /\ Prior(w, s).val = served[s][sess[w].seen[s]]
         /\ sess[w].seen[s] \in 1..Len(served[s])
  <1> DEFINE l == sess[w].loaded[s]
             change == IF sess[w].want[s] = Removed THEN "delete" ELSE "update"
  <1>1. l \in Row /\ sess[w].top[s] \in Nat /\ TypeOK /\ change \in {"update", "delete"}
    BY SessionFields DEF Superseded, Inv
  <1>2. l.id \in Nat /\ l.val \in Values /\ l.est \in BOOLEAN /\ sess[w].top[s] + 1 \in Nat \ {0}
    BY <1>1, SessionFields
  <1>3. LoadedInv(w, s) /\ s \in Touched(w)
    BY DEF Inv, SessInv, Superseded
  <1>4. Prior(w, s) = [scope |-> s, number |-> sess[w].top[s] + 1, id |-> l.id,
                       change |-> change, val |-> l.val, est |-> l.est]
    BY DEF Prior
  <1> HIDE DEF change
  <1>5. QED
    BY <1>1, <1>2, <1>3, <1>4 DEF Revision, LoadedInv, Superseded

\* A commit appends to a scope its one revision or none.
LEMMA AppendedOf ==
  ASSUME Inv, NEW w \in Writers, Commit(w), NEW s \in Scopes
  PROVE  RevisionsOf(s)' = IF Superseded(w, s) THEN RevisionsOf(s) \cup {Prior(w, s)}
                           ELSE RevisionsOf(s)
  <1>1. revs' = revs \cup {Prior(w, t) : t \in {u \in Scopes : Superseded(w, u)}}
    BY DEF Commit, Appended, Prior
  <1>2. \A t \in Scopes : Prior(w, t).scope = t
    BY DEF Prior
  <1>3. RevisionsOf(s)' = {r \in revs' : r.scope = s}
    BY DEF RevisionsOf
  <1> HIDE DEF Prior
  <1>4. QED
    BY <1>1, <1>2, <1>3 DEF RevisionsOf

\* A scope serves on: what it has served stays.
LEMMA ServedGrows ==
  ASSUME Inv, NEW w \in Writers, Commit(w), NEW s \in Scopes
  PROVE  /\ Len(served[s]) \in Nat /\ Len(served'[s]) \in Nat /\ Len(served[s]) <= Len(served'[s])
         /\ \A k \in 1..Len(served[s]) : served'[s][k] = served[s][k]
         /\ Shown(s) => Len(served'[s]) = Len(served[s]) + 1
                        /\ served'[s][Len(served'[s])] = rows'[s].val
  <1>1. served[s] \in Seq(Values) /\ Len(served[s]) \in Nat /\ rows'[s] \in Row \cup {None}
    BY WrittenType, LenProperties DEF Inv, TypeOK, Commit
  <1>2. rows'[s] # None => rows'[s].val \in Values
    BY <1>1 DEF Row
  <1>3. CASE served'[s] = served[s]
    <2>1. ~Shown(s)
      <3>1. ASSUME Shown(s) PROVE FALSE
        <4>1. Len(served'[s]) = Len(served[s]) + 1
          BY <3>1, <1>1, <1>2, AppendProperties DEF Shown
        <4>2. QED
          BY <4>1, <1>3, <1>1
      <3>2. QED
        BY <3>1
    <2>2. QED
      BY <2>1, <1>1, <1>3
  <1>4. CASE rows'[s] # None /\ served'[s] = Append(served[s], rows'[s].val)
    <2>1. /\ Len(served'[s]) = Len(served[s]) + 1
          /\ \A k \in 1..Len(served[s]) : served'[s][k] = served[s][k]
          /\ served'[s][Len(served[s]) + 1] = rows'[s].val
      BY <1>1, <1>2, <1>4, AppendProperties
    <2>2. QED
      BY <2>1, <1>1
  <1>5. QED
    BY <1>3, <1>4, CommitRow DEF Kept, Shown

\* A commit keeps the types.
LEMMA CommitType ==
  ASSUME Inv, NEW w \in Writers, Commit(w)
  PROVE  TypeOK' /\ commits \in Nat /\ commits' = commits + 1
  <1>1. TypeOK /\ commits \in Nat /\ commits' = commits + 1 /\ commits' \in 0..MaxCommits
    BY DEF Inv, TypeOK, Commit
  <1>2. rows' \in [Scopes -> Row \cup {None}]
    BY WrittenType DEF Commit
  <1>3. revs' \subseteq Revision
    <2>1. revs' = revs \cup {Prior(w, t) : t \in {u \in Scopes : Superseded(w, u)}}
      BY DEF Commit, Appended, Prior
    <2>2. \A t \in Scopes : Superseded(w, t) => Prior(w, t) \in Revision
      BY PriorType
    <2>3. QED
      BY <2>1, <2>2, <1>1 DEF TypeOK
  <1>4. served' \in [Scopes -> Seq(Values)]
    <2>1. \A s \in Scopes : rows'[s] # None => rows'[s].val \in Values
      BY <1>2 DEF Row
    <2>2. ASSUME NEW s \in Scopes, rows'[s] # None PROVE Append(served[s], rows'[s].val) \in Seq(Values)
      <3>1. served[s] \in Seq(Values) /\ rows'[s].val \in Values
        BY <2>1, <2>2, <1>1 DEF TypeOK
      <3>2. QED
        BY <3>1, AppendProperties
    <2>3. QED
      BY <2>2, <1>1 DEF Commit, TypeOK
  <1>5. sess' \in [Writers -> Session]
    BY <1>1, IdleType DEF Commit, TypeOK, Session
  <1>6. QED
    BY <1>1, <1>2, <1>3, <1>4, <1>5 DEF Commit, TypeOK, Session

\* A commit's numbers are no higher than its own.
LEMMA CommitCount ==
  ASSUME Inv, NEW w \in Writers, Commit(w)
  PROVE  CountInv'
  <1>1. TypeOK' /\ TypeOK /\ CountInv /\ commits \in Nat /\ commits' = commits + 1
    BY CommitType DEF Inv
  <1>2. ASSUME NEW r \in revs' PROVE r.number <= commits'
    <2>1. r \in Revision /\ r.number \in Nat /\ r.scope \in Scopes
      BY <1>1 DEF TypeOK, Revision
    <2>2. r \in RevisionsOf(r.scope)'
      BY DEF RevisionsOf
    <2>3. CASE r \in revs
      BY <2>3, <2>1, <1>1 DEF CountInv
    <2>4. CASE r \notin revs
      <3>1. Superseded(w, r.scope) /\ r = Prior(w, r.scope)
        BY <2>1, <2>2, <2>4, AppendedOf DEF RevisionsOf
      <3>2. r.number = sess[w].top[r.scope] + 1
        BY <3>1, <2>1, PriorType
      <3>3. sess[w].top[r.scope] \in Nat /\ sess[w].top[r.scope] <= commits
        BY <2>1, <1>1, SessionFields DEF CountInv
      <3>4. QED
        BY <3>2, <3>3, <1>1
    <2>5. QED
      BY <2>3, <2>4
  <1>3. ASSUME NEW v \in Writers, NEW s \in Scopes PROVE sess'[v].top[s] <= commits'
    <2>1. sess[v].top[s] \in Nat /\ sess[v].top[s] <= commits
      BY <1>1, SessionFields DEF CountInv
    <2>2. sess'[v] = IF v = w THEN Idle ELSE sess[v]
      BY <1>1 DEF Commit, TypeOK
    <2>3. QED
      BY <2>1, <2>2, <1>1, IdleType
  <1>4. ASSUME NEW s \in Scopes PROVE IsFiniteSet(RevisionsOf(s)')
    <2>1. IsFiniteSet(RevisionsOf(s))
      BY <1>1 DEF CountInv
    <2>2. IsFiniteSet(RevisionsOf(s) \cup {Prior(w, s)})
      BY <2>1, FS_AddElement
    <2>3. QED
      BY <2>1, <2>2, AppendedOf
  <1>5. QED
    BY <1>2, <1>3, <1>4 DEF CountInv

\* After a commit the rows still show what was served last.
LEMMA CommitRows ==
  ASSUME Inv, NEW w \in Writers, Commit(w), NEW s \in Scopes
  PROVE  RowInv(s)'
  <1>1. RowInv(s) /\ served[s] \in Seq(Values) /\ closed' = closed /\ Len(served[s]) \in Nat
    BY LenProperties DEF Inv, RowsInv, TypeOK, Commit
  <1>2. RevisionsOf(s)' = {} => ~Superseded(w, s) /\ RevisionsOf(s) = {}
    BY AppendedOf
  <1>3. CASE Kept(s)
    BY <1>1, <1>2, <1>3 DEF Kept, RowInv
  <1>4. CASE Shown(s)
    <2>1. /\ Len(served'[s]) = Len(served[s]) + 1 /\ served'[s][Len(served'[s])] = rows'[s].val
          /\ rows'[s] # None /\ Len(served'[s]) \in Nat
      BY <1>4, ServedGrows DEF Shown
    <2>2. served'[s] # <<>>
      BY <2>1, <1>1
    <2>3. s \notin closed
      BY <1>1, <1>4, CommitRow DEF RowInv, Kept, Shown
    <2>4. ASSUME RevisionsOf(s)' = {} PROVE Len(served'[s]) <= 1
      <3>1. ~Superseded(w, s) /\ RevisionsOf(s) = {}
        BY <1>2, <2>4
      <3>2. ~Kept(s)
        BY <2>1, <1>1 DEF Kept
      <3>3. rows[s] = None
        BY <3>1, <3>2, CommitRow
      <3>4. served[s] = <<>>
        BY <3>1, <3>3, <2>3, <1>1 DEF RowInv
      <3>5. QED
        BY <3>4, <2>1
    <2>5. QED
      BY <2>1, <2>2, <2>3, <2>4, <1>1 DEF RowInv
  <1>5. CASE rows[s] # None /\ rows'[s] = None /\ served'[s] = served[s] /\ Superseded(w, s)
    BY <1>1, <1>2, <1>5 DEF RowInv
  <1>6. QED
    BY <1>3, <1>4, <1>5, CommitRow

\* What a session holds against what the scope serves later.
LEMMA CommitSess ==
  ASSUME Inv, NEW w \in Writers, Commit(w)
  PROVE  SessInv'
  <1> SUFFICES ASSUME NEW v \in Writers, NEW s \in Scopes PROVE LoadedInv(v, s)' /\ HookedInv(v, s)'
    BY DEF SessInv
  <1>1. sess'[v] = IF v = w THEN Idle ELSE sess[v]
    BY DEF Commit, Inv, TypeOK
  <1>2. CASE v = w
    BY <1>1, <1>2, IdleType, WantedType DEF LoadedInv, HookedInv, Touched, Superseded, Idle
  <1>3. CASE v # w
    <2>1. LoadedInv(v, s) /\ HookedInv(v, s) /\ sess'[v] = sess[v]
      BY <1>1, <1>3 DEF Inv, SessInv
    <2>2. /\ Len(served[s]) \in Nat /\ Len(served'[s]) \in Nat /\ Len(served[s]) <= Len(served'[s])
          /\ \A k \in 1..Len(served[s]) : served'[s][k] = served[s][k]
      BY ServedGrows
    <2>3. \A k \in 1..Len(served[s]) : k \in 1..Len(served'[s])
      BY <2>2
    <2>4. LoadedInv(v, s)'
      BY <2>1, <2>2, <2>3 DEF LoadedInv, Touched
    <2>5. Superseded(v, s)' <=> Superseded(v, s)
      BY <2>1 DEF Superseded, Touched
    <2>6. ASSUME Superseded(v, s), sess[v].seen[s] = Len(served'[s]), rows'[s] # None
          PROVE  sess[v].seen[s] = Len(served[s]) /\ rows[s] # None
      <3>1. sess[v].seen[s] \in 1..Len(served[s])
        BY <2>1, <2>6 DEF LoadedInv, Superseded
      <3>2. Len(served'[s]) = Len(served[s])
        BY <3>1, <2>2, <2>6
      <3>3. ~Shown(s)
        BY <3>2, <2>2, ServedGrows
      <3>4. QED
        BY <3>2, <3>3, <2>6, CommitRow DEF Kept
    <2>7. crossed \subseteq crossed'
      BY DEF Commit
    <2>8. HookedInv(v, s)'
      BY <2>1, <2>5, <2>6, <2>7 DEF HookedInv
    <2>9. QED
      BY <2>4, <2>8
  <1>4. QED
    BY <1>2, <1>3

\* What the log told it tells again when no revision is added.
LEMMA LoggedKept ==
  ASSUME NEW s \in Scopes, NEW n \in Nat, Logged(s, n), RevisionsOf(s)' = RevisionsOf(s),
         \A k \in 1..n : served'[s][k] = served[s][k]
  PROVE  Logged(s, n)'
  BY DEF Logged

\* One revision more tells one valuation more.
LEMMA LoggedGrows ==
  ASSUME NEW s \in Scopes, NEW n \in Nat, Logged(s, n), IsFiniteSet(RevisionsOf(s)),
         NEW p, p.number = n + 1, p.val = served[s][n + 1],
         RevisionsOf(s)' = RevisionsOf(s) \cup {p},
         \A k \in 1..(n + 1) : served'[s][k] = served[s][k]
  PROVE  Logged(s, n + 1)'
  <1>1. \A q \in RevisionsOf(s) : q.number \in 1..n /\ served[s][q.number] = q.val
    BY DEF Logged
  <1>2. p \notin RevisionsOf(s)
    BY <1>1
  <1>3. Cardinality(RevisionsOf(s)') = n + 1
    <2>1. Cardinality(RevisionsOf(s)) = n
      BY DEF Logged
    <2>2. Cardinality(RevisionsOf(s) \cup {p}) = Cardinality(RevisionsOf(s)) + 1
      BY <1>2, FS_AddElement
    <2>3. QED
      BY <2>1, <2>2
  <1>4. ASSUME NEW q \in RevisionsOf(s)'
        PROVE  q.number \in 1..(n + 1) /\ served'[s][q.number] = q.val
    BY <1>1
  <1>5. ASSUME NEW k \in 1..(n + 1) PROVE \E q \in RevisionsOf(s)' : q.number = k
    <2>1. CASE k = n + 1
      BY <2>1
    <2>2. CASE k # n + 1
      <3>1. k \in 1..n
        BY <2>2
      <3>2. QED
        BY <3>1 DEF Logged
    <2>3. QED
      BY <2>1, <2>2
  <1>6. QED
    BY <1>3, <1>4, <1>5 DEF Logged

\* A scope no two sessions overlapped on is told in full after a commit.
LEMMA CommitTold ==
  ASSUME Inv, NEW w \in Writers, Commit(w), NEW s \in Scopes \ crossed'
  PROVE  Told(s)'
  <1>0. PICK n : n = Len(served[s])
    OBVIOUS
  <1>1. /\ s \in Scopes \ crossed /\ ~Overlapped(w, s) /\ closed' = closed
        /\ sess[w].phase = "hooked" /\ HookedInv(w, s) /\ RowInv(s)
        /\ TypeOK /\ RowsInv /\ IsFiniteSet(RevisionsOf(s))
    BY DEF Commit, Inv, SessInv, RowsInv, CountInv
  <1>2. Told(s)
    BY <1>1, CompleteIsTold DEF Inv, HistoryIsServed
  <1>3. /\ n \in Nat /\ Len(served'[s]) \in Nat
        /\ \A k \in 1..n : served'[s][k] = served[s][k]
        /\ Shown(s) => Len(served'[s]) = n + 1
    BY <1>0, ServedGrows
  <1>4. served[s] # <<>> => n > 0 /\ n - 1 \in Nat /\ (n - 1) + 1 = n
    BY <1>0, <1>1, <1>3, EmptySeq DEF TypeOK
  <1>5. CASE ~Superseded(w, s)
    <2>1. RevisionsOf(s)' = RevisionsOf(s)
      BY <1>5, AppendedOf
    <2>2. Logged(s, n) => Logged(s, n)'
      BY <1>3, <2>1, LoggedKept
    <2>3. n > 0 /\ Logged(s, n - 1) => Logged(s, n - 1)'
      <3>1. ASSUME n > 0, Logged(s, n - 1) PROVE Logged(s, n - 1)'
        <4>1. n - 1 \in Nat /\ \A k \in 1..(n - 1) : served'[s][k] = served[s][k]
          BY <3>1, <1>3
        <4>2. QED
          BY <4>1, <2>1, <3>1, LoggedKept
      <3>2. QED
        BY <3>1
    <2>4. CASE Kept(s)
      <3>1. Len(served'[s]) = n /\ (rows'[s] = None <=> rows[s] = None)
        BY <1>0, <2>4 DEF Kept
      <3>2. rows[s] # None => n > 0
        BY <1>1, <1>4 DEF RowInv
      <3>3. QED
        BY <1>0, <3>1, <3>2, <2>2, <2>3, <1>1, <1>2 DEF Told
    <2>5. CASE Shown(s) /\ rows[s] = None /\ s \notin closed
      <3>1. Logged(s, n)
        BY <1>0, <2>5, <1>2 DEF Told
      <3>2. rows'[s] # None /\ Len(served'[s]) - 1 = n
        BY <2>5, <1>3 DEF Shown
      <3>3. QED
        BY <3>1, <3>2, <2>2 DEF Told
    <2>6. QED
      BY <2>4, <2>5, <1>5, CommitRow
  <1>6. CASE Superseded(w, s)
    <2>1. Len(served[s]) = sess[w].seen[s] /\ rows[s] # None
      BY <1>1, <1>6 DEF Overlapped, Moved
    <2>2. sess[w].top[s] = n - 1 /\ Logged(s, n - 1)
      BY <1>0, <2>1, <1>1, <1>2, <1>6 DEF HookedInv, Told
    <2>3. n - 1 \in Nat /\ (n - 1) + 1 = n
      BY <2>1, <1>1, <1>4 DEF RowInv
    <2>4. /\ Prior(w, s).number = (n - 1) + 1 /\ Prior(w, s).val = served[s][(n - 1) + 1]
          /\ RevisionsOf(s)' = RevisionsOf(s) \cup {Prior(w, s)}
      BY <1>0, <2>1, <2>2, <2>3, <1>6, PriorType, AppendedOf
    <2>5. \A k \in 1..((n - 1) + 1) : served'[s][k] = served[s][k]
      BY <1>3, <2>3
    <2>6. Logged(s, n)'
      <3>1. Logged(s, (n - 1) + 1)'
        BY <2>2, <2>3, <2>4, <2>5, <1>1, LoggedGrows
      <3>2. QED
        BY <3>1, <2>3
    <2>7. CASE rows'[s] = None /\ served'[s] = served[s]
      BY <1>0, <2>6, <2>7 DEF Told
    <2>8. CASE Shown(s)
      <3>1. rows'[s] # None /\ Len(served'[s]) - 1 = n
        BY <2>8, <1>3 DEF Shown
      <3>2. QED
        BY <3>1, <2>6 DEF Told
    <2>9. QED
      BY <2>7, <2>8, <1>1, <1>6, CommitRow
  <1>7. QED
    BY <1>5, <1>6

\* Number 1 is given once, to what the scope served first, or twice to the same.
LEMMA CommitFirst ==
  ASSUME Inv, NEW w \in Writers, Commit(w)
  PROVE  FirstIsFirst'
  <1> SUFFICES ASSUME NEW r \in revs', r.number = 1
               PROVE  served'[r.scope] # <<>> /\ r.val = served'[r.scope][1]
    BY DEF FirstIsFirst
  <1> DEFINE s == r.scope
  <1>1. s \in Scopes /\ TypeOK /\ FirstIsFirst /\ r \in RevisionsOf(s)'
    BY CommitType DEF TypeOK, Revision, Inv, HistoryIsServed, RevisionsOf
  <1>2. served[s] # <<>> /\ r.val = served[s][1]
    <2>1. CASE r \in revs
      BY <2>1, <1>1 DEF FirstIsFirst
    <2>2. CASE r \notin revs
      <3>1. Superseded(w, s) /\ r = Prior(w, s)
        BY <2>2, <1>1, AppendedOf DEF RevisionsOf
      <3>2. /\ 1 = sess[w].top[s] + 1 /\ r.val = served[s][sess[w].seen[s]]
            /\ sess[w].seen[s] \in 1..Len(served[s]) /\ sess[w].top[s] \in Nat
        BY <3>1, <1>1, PriorType, SessionFields
      <3>3. HookedInv(w, s) /\ sess[w].phase = "hooked"
        BY <1>1 DEF Inv, SessInv, Commit
      <3>4. sess[w].seen[s] = 1
        BY <3>1, <3>2, <3>3 DEF HookedInv
      <3>5. served[s] # <<>>
        BY <3>2, <1>1, EmptySeq DEF TypeOK
      <3>6. QED
        BY <3>2, <3>4, <3>5
    <2>3. QED
      BY <2>1, <2>2
  <1>3. /\ Len(served[s]) \in Nat /\ Len(served[s]) > 0 /\ Len(served[s]) <= Len(served'[s])
        /\ \A k \in 1..Len(served[s]) : served'[s][k] = served[s][k]
    <2>1. served[s] \in Seq(Values) /\ Len(served[s]) \in Nat /\ Len(served[s]) # 0
      BY <1>1, <1>2, LenProperties, EmptySeq DEF TypeOK
    <2>2. QED
      BY <1>1, <2>1, ServedGrows
  <1>4. served'[s] # <<>> /\ served'[s][1] = served[s][1]
    BY <1>1, <1>3, EmptySeq, CommitType DEF TypeOK
  <1>5. QED
    BY <1>2, <1>4

\* A commit keeps the invariant.
LEMMA CommitStep == ASSUME Inv, NEW w \in Writers, Commit(w) PROVE Inv'
  <1>1. TypeOK' /\ CountInv' /\ SessInv'
    BY CommitType, CommitCount, CommitSess
  <1>2. RowsInv'
    BY CommitRows DEF RowsInv
  <1>3. (HistoryComplete <=> \A s \in Scopes \ crossed : Told(s))'
    BY <1>1, <1>2, CompleteIsTold, PTL
  <1>4. HistoryIsServed'
    BY <1>3, CommitTold, CommitFirst DEF HistoryIsServed
  <1>5. QED
    BY <1>1, <1>2, <1>4 DEF Inv

\* Every step keeps the invariant.
LEMMA Step == Inv /\ [Next]_vars => Inv'
  <1> SUFFICES ASSUME Inv, [Next]_vars PROVE Inv'
    OBVIOUS
  <1>1. CASE DeleteAccount
    BY <1>1, DeleteStep
  <1>2. CASE \E w \in Writers : Write(w)
    <2>1. PICK w \in Writers : Write(w)
      BY <1>2
    <2>2. CASE \E s \in Scopes : Upsert(w, s) \/ Remove(w, s)
      BY <2>2, AssignStep DEF Upsert, Remove
    <2>3. CASE BeforeFlush(w)
      BY <2>3, HookStep
    <2>4. CASE Commit(w)
      BY <2>4, CommitStep
    <2>5. CASE Abort(w)
      BY <2>5, AbortStep
    <2>6. QED
      BY <2>1, <2>2, <2>3, <2>4, <2>5 DEF Write
  <1>3. CASE UNCHANGED vars
    <2>1. CountInv' /\ TypeOK'
      BY <1>3 DEF Inv, vars, CountInv, TypeOK, RevisionsOf
    <2>2. RowsInv' /\ SessInv'
      BY <1>3 DEF Inv, vars, RowsInv, RowInv, RevisionsOf, SessInv, LoadedInv, HookedInv, Touched, Superseded
    <2>3. HistoryIsServed'
      <3>1. \A s \in Scopes : \A n : Logged(s, n)' <=> Logged(s, n)
        BY <1>3 DEF vars, Logged, RevisionsOf
      <3>2. \A s \in Scopes : Told(s)' <=> Told(s)
        BY <1>3, <3>1 DEF vars, Told
      <3>3. (HistoryComplete <=> \A s \in Scopes \ crossed : Told(s))'
        BY <2>1, <2>2, CompleteIsTold, PTL
      <3>4. QED
        BY <1>3, <3>2, <3>3, CompleteIsTold DEF Inv, vars, HistoryIsServed, FirstIsFirst
    <2>4. QED
      BY <2>1, <2>2, <2>3 DEF Inv
  <1>4. QED
    BY <1>1, <1>2, <1>3 DEF Next

\* Sessions, rows and the log keep their shape: api/db/models.py, NavSnapshot,
\* AccountNavSnapshot and NavSnapshotRevision.
THEOREM TypeCorrect == Spec => []TypeOK
  <1>1. Inv => TypeOK
    BY DEF Inv
  <1>2. QED
    BY <1>1, InitType, Step, PTL DEF Spec

\* The live rows and the revisions, in the order of their numbers, are what each
\* date has served, and number 1 is its first value, for any number of sessions,
\* scopes and commits: _record_nav_revisions beside every writer of the two tables.
THEOREM HistoryServed == Spec => []HistoryIsServed
  <1>1. Inv => HistoryIsServed
    BY DEF Inv
  <1>2. QED
    BY <1>1, InitType, Step, PTL DEF Spec
================================================================================
