-------------------------- MODULE ComputeCacheProofs ---------------------------
(***************************************************************************)
(* Proofs about ComputeCache, for every set of requests and of changes and *)
(* every lifetime of entries, locks and computations: its types, that no   *)
(* answer is stale, that a change the fingerprint misses shows in time,    *)
(* that workers share one computation while none outlives its lock, and    *)
(* that the lock a request waits for expires.                              *)
(***************************************************************************)
EXTENDS ComputeCache, FiniteSetTheorems, TLAPS

\* Every step preserves the types: what it makes of a request's row is a row.
LEMMA TypeStep == TypeOK /\ [Next]_vars => TypeOK'
<1> SUFFICES ASSUME TypeOK, [Next]_vars PROVE TypeOK'
  OBVIOUS
<1> USE ConstantsAssumption DEF ConstantsAssumption
<1>a. \A r \in Requests : req[r] \in RequestRows
  BY DEF TypeOK
<1>b. \A r \in Requests : \A row \in RequestRows : [req EXCEPT ![r] = row] \in [Requests -> RequestRows]
  BY DEF TypeOK
<1>c. \A r \in Requests : [Blank EXCEPT !.calls = MaxCalls[r]] \in RequestRows
  BY DEF RequestRows, Blank, Keys
<1>d. Forever \in Nat /\ LockExpire \in 0..Forever /\ 0 \in 0..Forever /\ TTL \in 0..TTL
  BY DEF Forever
<1>e. {} \in Keys /\ {} \in SUBSET Changes /\ 0 \in 0..MaxCompute
  BY DEF Keys
<1>1. ASSUME NEW r \in Requests, Begin(r) PROVE TypeOK'
  <2> DEFINE row == [req[r] EXCEPT !.phase = "open", !.owed = data \cap Visible,
                                   !.late = {c \in data : age[c] = Stale}]
  <2>1. row \in RequestRows
    BY <1>a DEF TypeOK, RequestRows
  <2>2. req' = [req EXCEPT ![r] = row]
    BY <1>1 DEF TypeOK, Begin
  <2> HIDE DEF row
  <2>3. UNCHANGED <<data, entry, lock, age, overrun>>
    BY <1>1 DEF Begin
  <2>. QED BY <1>b, <2>1, <2>2, <2>3 DEF TypeOK
<1>2. ASSUME NEW r \in Requests, Sign(r) PROVE TypeOK'
  <2> DEFINE fp == IF req[r].memo = NoMemo THEN Fingerprint(r) ELSE req[r].memo
             row == [req[r] EXCEPT !.phase = "signed", !.calls = @ + 1, !.memo = fp, !.key = fp]
  <2>1. fp \in Keys /\ req[r].calls + 1 \in Nat
    BY <1>a DEF RequestRows, Fingerprint, Keys
  <2>2. req' = [req EXCEPT ![r] = row]
    BY <1>2 DEF TypeOK, Sign
  <2> HIDE DEF fp
  <2>3. row \in RequestRows
    BY <1>a, <2>1 DEF RequestRows
  <2> HIDE DEF row
  <2>4. UNCHANGED <<data, entry, lock, age, overrun>>
    BY <1>2 DEF Sign
  <2>. QED BY <1>b, <2>2, <2>3, <2>4 DEF TypeOK
<1>3. ASSUME NEW r \in Requests, NEW reads \in SUBSET Changes, Answer(r, reads)
      PROVE  req' \in [Requests -> RequestRows]
  <2> DEFINE row == [req[r] EXCEPT !.phase = "answered", !.reads = reads]
  <2>1. row \in RequestRows
    BY <1>a DEF RequestRows
  <2>2. req' = [req EXCEPT ![r] = row]
    BY <1>3 DEF TypeOK, Answer
  <2>. QED BY <1>b, <2>1, <2>2
<1>4. ASSUME NEW r \in Requests
      PROVE req[r].key \in Keys /\ entry[req[r].key].reads \in SUBSET Changes
            /\ req[r].reads \in SUBSET Changes /\ View(r) \in SUBSET Changes
  BY <1>a DEF TypeOK, RequestRows, View
<1>5. ASSUME NEW r \in Requests, LookUp(r) PROVE TypeOK'
  BY <1>3, <1>4, <1>5 DEF TypeOK, LookUp
<1>6. ASSUME NEW r \in Requests, Queue(r) PROVE TypeOK'
  <2> DEFINE row == [req[r] EXCEPT !.phase = "waiting"]
  <2>1. row \in RequestRows
    BY <1>a DEF RequestRows
  <2>2. req' = [req EXCEPT ![r] = row]
    BY <1>6 DEF TypeOK, Queue
  <2>3. lock' \in [Keys -> 0..Forever]
    BY <1>6, <1>d DEF TypeOK, Queue, Bounded
  <2>. QED BY <1>b, <1>6, <2>1, <2>2, <2>3 DEF TypeOK, Queue
<1>7. ASSUME NEW r \in Requests, Acquire(r) PROVE TypeOK'
  <2> DEFINE row == [req[r] EXCEPT !.phase = "computing", !.reads = View(r), !.ran = 0]
  <2>1. row \in RequestRows
    BY <1>a, <1>4, <1>e DEF RequestRows
  <2>2. CASE Hit(req[r].key)
    BY <1>3, <1>4, <1>7, <1>d, <2>2 DEF TypeOK, Acquire
  <2>3. CASE ~Hit(req[r].key)
    <3>1. req' = [req EXCEPT ![r] = row]
      BY <1>7, <2>3 DEF TypeOK, Acquire
    <3>. QED BY <1>b, <1>d, <1>7, <2>1, <3>1 DEF TypeOK, Acquire
  <2>. QED BY <2>2, <2>3
<1>8. ASSUME NEW r \in Requests, Finish(r) PROVE TypeOK'
  BY <1>3, <1>4, <1>8, <1>d DEF TypeOK, Finish
<1>9. ASSUME NEW r \in Requests, Raise(r) PROVE TypeOK'
  BY <1>b, <1>c, <1>d, <1>9 DEF TypeOK, Raise, Gone
<1>10. ASSUME NEW r \in Requests, Kill(r) PROVE TypeOK'
  BY <1>b, <1>c, <1>10 DEF TypeOK, Kill, Gone
<1>11. ASSUME NEW r \in Requests, Resume(r) PROVE TypeOK'
  <2> DEFINE row == [req[r] EXCEPT !.phase = "open", !.key = {}, !.reads = {}, !.ran = 0]
  <2>1. row \in RequestRows
    BY <1>a, <1>e DEF RequestRows
  <2>2. req' = [req EXCEPT ![r] = row]
    BY <1>11 DEF TypeOK, Resume
  <2>. QED BY <1>b, <1>11, <2>1, <2>2 DEF TypeOK, Resume
<1>12. ASSUME NEW r \in Requests, NEW c \in Changes, Write(r, c) PROVE TypeOK'
  <2> DEFINE row == [req[r] EXCEPT !.mine = @ \cup {c}, !.memo = NoMemo, !.owed = @ \cup ({c} \cap Visible)]
  <2>1. row \in RequestRows
    BY <1>a DEF RequestRows
  <2>2. req' = [req EXCEPT ![r] = row]
    BY <1>12 DEF TypeOK, Write
  <2>. QED BY <1>b, <1>12, <2>1, <2>2 DEF TypeOK, Write
<1>13. ASSUME NEW r \in Requests, CommitWrites(r) PROVE TypeOK'
  <2> DEFINE row == [req[r] EXCEPT !.mine = {}, !.memo = NoMemo]
  <2>1. row \in RequestRows /\ req[r].mine \subseteq Changes
    BY <1>a DEF RequestRows
  <2>2. req' = [req EXCEPT ![r] = row]
    BY <1>13 DEF TypeOK, CommitWrites
  <2>. QED BY <1>b, <1>13, <2>1, <2>2 DEF TypeOK, CommitWrites
<1>14. ASSUME NEW r \in Requests, Rollback(r) PROVE TypeOK'
  <2> DEFINE row == [req[r] EXCEPT !.mine = {}, !.memo = NoMemo, !.owed = @ \ req[r].mine]
  <2>1. row \in RequestRows
    BY <1>a DEF RequestRows
  <2>2. req' = [req EXCEPT ![r] = row]
    BY <1>14 DEF TypeOK, Rollback
  <2>. QED BY <1>b, <1>14, <2>1, <2>2 DEF TypeOK, Rollback
<1>15. ASSUME NEW r \in Requests, End(r) PROVE TypeOK'
  BY <1>b, <1>c, <1>15 DEF TypeOK, End, Gone
<1>16. ASSUME NEW c \in Changes, Change(c) PROVE TypeOK'
  BY <1>16 DEF TypeOK, Change
<1>17. CASE Tick
  <2>1. entry' \in [Keys -> [reads : SUBSET Changes, left : 0..TTL]]
    BY <1>17 DEF TypeOK, Tick, Aged, NoEntry
  <2>2. lock' \in [Keys -> 0..Forever]
    BY <1>17 DEF TypeOK, Tick, Less, Forever
  <2>3. req' \in [Requests -> RequestRows]
    <3>1. ASSUME NEW r \in Requests, req[r].phase = "computing"
          PROVE  [req[r] EXCEPT !.ran = @ + 1] \in RequestRows
      <4>1. req[r].ran \in 0..MaxCompute /\ req[r].ran < MaxCompute
        BY <1>a, <1>17, <3>1 DEF RequestRows, Tick
      <4>2. req[r].ran + 1 \in 0..MaxCompute
        BY <4>1
      <4>. QED BY <1>a, <4>2 DEF RequestRows
    <3>. QED BY <1>a, <1>17, <3>1 DEF Tick
  <2>4. age' \in [Changes -> 0..Stale]
    BY <1>17 DEF TypeOK, Tick, Stale
  <2>. QED BY <1>17, <2>1, <2>2, <2>3, <2>4 DEF TypeOK, Tick
<1>18. CASE UNCHANGED vars
  BY <1>18 DEF TypeOK, vars
<1>. QED
  BY <1>1, <1>2, <1>5, <1>6, <1>7, <1>8, <1>9, <1>10, <1>11, <1>12, <1>13, <1>14, <1>15,
     <1>16, <1>17, <1>18 DEF Next, Request, Serve

\* The initial states are well typed, one with an orphaned lock included.
LEMMA TypeInit == Init => TypeOK
  BY ConstantsAssumption DEF ConstantsAssumption, RequestRows, Init, TypeOK, Keys, NoEntry, Blank, Forever, Stale

\* Type correctness: entries and locks stay within their lifetimes, a fingerprint is a
\* key, and no computation outlasts its bound.
THEOREM TypeCorrect == Spec => []TypeOK
  BY TypeInit, TypeStep, PTL DEF Spec
----------------------------------------------------------------------------
\* The strengthening NoStaleAnswer needs: what a request is owed it sees, signs, computes
\* and is answered, and a live entry reflects the fingerprint it is filed under.
OwedSoFar(row, seen) ==
  /\ row.owed \subseteq seen
  /\ row.memo # NoMemo => row.owed \subseteq row.memo /\ row.memo \subseteq seen
  /\ row.phase \in {"signed", "waiting", "computing"} => row.owed \subseteq row.key /\ row.key \subseteq seen
  /\ row.phase = "computing" => row.key \subseteq row.reads
  /\ row.phase = "answered" => row.owed \subseteq row.reads
FreshInv ==
  /\ \A k \in Keys : Hit(k) => k \subseteq entry[k].reads
  /\ \A r \in Requests : OwedSoFar(req[r], View(r))

\* A request that does not move stays as it was while the data grows.
LEMMA OthersFresh ==
  ASSUME NEW q \in Requests, OwedSoFar(req[q], View(q)), req'[q] = req[q], data \subseteq data'
  PROVE  OwedSoFar(req'[q], View(q)')
  BY DEF OwedSoFar, View

\* Every step preserves it.
LEMMA FreshStep == TypeOK /\ FreshInv /\ [Next]_vars => FreshInv'
<1> SUFFICES ASSUME TypeOK, FreshInv, [Next]_vars PROVE FreshInv'
  OBVIOUS
<1> USE DEF FreshInv
<1>a. \A r \in Requests : req[r] \in RequestRows
  BY DEF TypeOK
\* It is enough to look at the request that moves.
<1>b. ASSUME NEW r \in Requests, data \subseteq data', \A q \in Requests \ {r} : req'[q] = req[q],
             OwedSoFar(req'[r], View(r)'),
             \A k \in Keys : Hit(k)' => k \subseteq entry'[k].reads
      PROVE  FreshInv'
  BY <1>b, OthersFresh
<1>c. ASSUME entry' = entry
      PROVE  \A k \in Keys : Hit(k)' => k \subseteq entry'[k].reads
  BY <1>c DEF Hit
<1>1. ASSUME NEW r \in Requests, Begin(r) PROVE FreshInv'
  <2>1. /\ req'[r] = [Blank EXCEPT !.phase = "open", !.owed = data \cap Visible,
                                   !.late = {c \in data : age[c] = Stale}]
        /\ \A q \in Requests \ {r} : req'[q] = req[q]
        /\ data' = data /\ entry' = entry
    BY <1>1 DEF TypeOK, Begin
  <2>2. OwedSoFar(req'[r], View(r)')
    BY <2>1 DEF OwedSoFar, View, Blank
  <2>. QED BY <1>b, <1>c, <2>1, <2>2
<1>2. ASSUME NEW r \in Requests, Sign(r) PROVE FreshInv'
  <2> DEFINE fp == IF req[r].memo = NoMemo THEN Fingerprint(r) ELSE req[r].memo
  <2>1. /\ req'[r] = [req[r] EXCEPT !.phase = "signed", !.calls = @ + 1, !.memo = fp, !.key = fp]
        /\ \A q \in Requests \ {r} : req'[q] = req[q]
        /\ data' = data /\ entry' = entry
    BY <1>2 DEF TypeOK, Sign
  <2>2. req[r].owed \subseteq fp /\ fp \subseteq View(r)
    BY <1>a DEF RequestRows, OwedSoFar, Fingerprint
  <2>3. View(r)' = View(r)
    BY <2>1, <1>a DEF View, RequestRows
  <2> HIDE DEF fp
  <2>4. OwedSoFar(req'[r], View(r)')
    BY <1>a, <2>1, <2>2, <2>3 DEF OwedSoFar, RequestRows
  <2>. QED BY <1>b, <1>c, <2>1, <2>4
<1>3. ASSUME NEW r \in Requests, NEW reads, Answer(r, reads), req[r].owed \subseteq reads, data' = data,
             \A k \in Keys : Hit(k)' => k \subseteq entry'[k].reads
      PROVE  FreshInv'
  <2>1. /\ req'[r] = [req[r] EXCEPT !.phase = "answered", !.reads = reads]
        /\ \A q \in Requests \ {r} : req'[q] = req[q]
    BY <1>3 DEF TypeOK, Answer
  <2>2. OwedSoFar(req'[r], View(r)')
    BY <1>a, <1>3, <2>1 DEF OwedSoFar, View, RequestRows
  <2>. QED BY <1>b, <1>3, <2>1, <2>2
<1>4. ASSUME NEW r \in Requests, LookUp(r) PROVE FreshInv'
  <2>1. req[r].owed \subseteq entry[req[r].key].reads
    BY <1>a, <1>4 DEF LookUp, OwedSoFar, RequestRows
  <2>. QED BY <1>3, <1>4, <1>c, <2>1 DEF LookUp
<1>5. ASSUME NEW r \in Requests, Queue(r) PROVE FreshInv'
  <2>1. /\ req'[r] = [req[r] EXCEPT !.phase = "waiting"]
        /\ \A q \in Requests \ {r} : req'[q] = req[q]
        /\ data' = data /\ entry' = entry
    BY <1>5 DEF TypeOK, Queue
  <2>2. OwedSoFar(req'[r], View(r)')
    BY <1>a, <1>5, <2>1 DEF OwedSoFar, View, RequestRows, Queue
  <2>. QED BY <1>b, <1>c, <2>1, <2>2
<1>6. ASSUME NEW r \in Requests, Acquire(r) PROVE FreshInv'
  <2>1. CASE Hit(req[r].key)
    <3>1. req[r].owed \subseteq entry[req[r].key].reads
      BY <1>a, <1>6, <2>1 DEF Acquire, OwedSoFar, RequestRows
    <3>. QED BY <1>3, <1>6, <1>c, <2>1, <3>1 DEF Acquire
  <2>2. CASE ~Hit(req[r].key)
    <3>1. /\ req'[r] = [req[r] EXCEPT !.phase = "computing", !.reads = View(r), !.ran = 0]
          /\ \A q \in Requests \ {r} : req'[q] = req[q]
          /\ data' = data /\ entry' = entry
      BY <1>6, <2>2 DEF TypeOK, Acquire
    <3>2. View(r)' = View(r)
      BY <3>1, <1>a DEF View, RequestRows
    <3>3. OwedSoFar(req'[r], View(r)')
      BY <1>a, <1>6, <3>1, <3>2 DEF OwedSoFar, RequestRows, Acquire
    <3>. QED BY <1>b, <1>c, <3>1, <3>3
  <2>. QED BY <2>1, <2>2
<1>7. ASSUME NEW r \in Requests, Finish(r) PROVE FreshInv'
  <2>1. req[r].owed \subseteq req[r].reads /\ req[r].key \subseteq req[r].reads /\ req[r].key \in Keys
    BY <1>a, <1>7 DEF OwedSoFar, RequestRows, Finish
  <2>2. \A k \in Keys : Hit(k)' => k \subseteq entry'[k].reads
    BY <1>7, <2>1 DEF TypeOK, Hit, Finish
  <2>. QED BY <1>3, <1>7, <2>1, <2>2 DEF Finish
<1>8. ASSUME NEW r \in Requests, Gone(r), data' = data, entry' = entry PROVE FreshInv'
  <2>1. /\ req'[r] = [Blank EXCEPT !.calls = MaxCalls[r]]
        /\ \A q \in Requests \ {r} : req'[q] = req[q]
    BY <1>8 DEF TypeOK, Gone
  <2>2. OwedSoFar(req'[r], View(r)')
    BY <2>1 DEF OwedSoFar, View, Blank
  <2>. QED BY <1>b, <1>c, <1>8, <2>1, <2>2
<1>9. ASSUME NEW r \in Requests, Raise(r) \/ Kill(r) \/ End(r) PROVE FreshInv'
  BY <1>8, <1>9 DEF Raise, Kill, End
<1>10. ASSUME NEW r \in Requests, Resume(r) PROVE FreshInv'
  <2>1. /\ req'[r] = [req[r] EXCEPT !.phase = "open", !.key = {}, !.reads = {}, !.ran = 0]
        /\ \A q \in Requests \ {r} : req'[q] = req[q]
        /\ data' = data /\ entry' = entry
    BY <1>10 DEF TypeOK, Resume
  <2>2. OwedSoFar(req'[r], View(r)')
    BY <1>a, <2>1 DEF OwedSoFar, View, RequestRows
  <2>. QED BY <1>b, <1>c, <2>1, <2>2
<1>11. ASSUME NEW r \in Requests, NEW c \in Changes, Write(r, c) PROVE FreshInv'
  <2>1. /\ req'[r] = [req[r] EXCEPT !.mine = @ \cup {c}, !.memo = NoMemo, !.owed = @ \cup ({c} \cap Visible)]
        /\ \A q \in Requests \ {r} : req'[q] = req[q]
        /\ data' = data /\ entry' = entry /\ req[r].phase = "open"
    BY <1>11 DEF TypeOK, Write
  <2>2. OwedSoFar(req'[r], View(r)')
    BY <1>a, <2>1 DEF OwedSoFar, View, RequestRows
  <2>. QED BY <1>b, <1>c, <2>1, <2>2
<1>12. ASSUME NEW r \in Requests, CommitWrites(r) PROVE FreshInv'
  <2>1. /\ req'[r] = [req[r] EXCEPT !.mine = {}, !.memo = NoMemo]
        /\ \A q \in Requests \ {r} : req'[q] = req[q]
        /\ data' = data \cup req[r].mine /\ entry' = entry /\ req[r].phase = "open"
    BY <1>12 DEF TypeOK, CommitWrites
  <2>2. OwedSoFar(req'[r], View(r)')
    BY <1>a, <2>1 DEF OwedSoFar, View, RequestRows
  <2>. QED BY <1>b, <1>c, <2>1, <2>2
<1>13. ASSUME NEW r \in Requests, Rollback(r) PROVE FreshInv'
  <2>1. /\ req'[r] = [req[r] EXCEPT !.mine = {}, !.memo = NoMemo, !.owed = @ \ req[r].mine]
        /\ \A q \in Requests \ {r} : req'[q] = req[q]
        /\ data' = data /\ entry' = entry /\ req[r].phase = "open"
    BY <1>13 DEF TypeOK, Rollback
  <2>2. OwedSoFar(req'[r], View(r)')
    BY <1>a, <2>1 DEF OwedSoFar, View, RequestRows
  <2>. QED BY <1>b, <1>c, <2>1, <2>2
<1>14. ASSUME NEW c \in Changes, Change(c) PROVE FreshInv'
  BY <1>14, <1>c, OthersFresh DEF Change
<1>15. CASE Tick
  <2>1. \A k \in Keys : Hit(k)' => Hit(k) /\ entry'[k].reads = entry[k].reads
    BY <1>15 DEF TypeOK, Tick, Aged, NoEntry, Hit
  <2>2. ASSUME NEW q \in Requests PROVE OwedSoFar(req'[q], View(q)')
    <3>1. req'[q] = req[q] \/ (req[q].phase = "computing" /\ req'[q] = [req[q] EXCEPT !.ran = @ + 1])
      BY <1>15 DEF Tick
    <3>. QED BY <1>a, <1>15, <3>1, OthersFresh DEF OwedSoFar, View, RequestRows, Tick
  <2>. QED BY <2>1, <2>2
<1>16. CASE UNCHANGED vars
  BY <1>16, <1>c, OthersFresh DEF vars
<1>. QED
  BY <1>1, <1>2, <1>4, <1>5, <1>6, <1>7, <1>9, <1>10, <1>11, <1>12, <1>13, <1>14, <1>15,
     <1>16 DEF Next, Request, Serve

\* At the start nobody is owed anything and nothing is cached.
LEMMA FreshInit == Init => FreshInv
  BY DEF Init, FreshInv, OwedSoFar, View, Hit, NoEntry, Blank

\* No answer is stale: whatever memo, entry or lock it came through, it reflects every
\* change the fingerprint sees that was committed when its request began or is its own.
THEOREM NoAnswerIsStale == Spec => []NoStaleAnswer
<1>1. FreshInv => NoStaleAnswer
  BY DEF FreshInv, OwedSoFar, NoStaleAnswer, Answered
<1>. QED BY <1>1, TypeInit, TypeStep, FreshInit, FreshStep, PTL DEF Spec

\* The strengthening MissedChangesShowInTime needs: a computation has read every change
\* older than itself, a live entry every change older than it and a computation.
LateSoFar(row) ==
  /\ row.late \subseteq {c \in data : age[c] = Stale}
  /\ row.phase = "computing" => {c \in data : age[c] > row.ran} \cup row.late \subseteq row.reads
  /\ row.phase = "answered" => row.late \subseteq row.reads
LateInv ==
  /\ \A c \in Changes \ data : age[c] = 0
  /\ \A k \in Keys : Hit(k) => {c \in data : age[c] > Stale - entry[k].left} \subseteq entry[k].reads
  /\ \A r \in Requests : LateSoFar(req[r])

\* A request that does not move stays as it was while no age changes and data of age 0 is added.
LEMMA OthersLate ==
  ASSUME TypeOK, LateInv, NEW q \in Requests, req'[q] = req[q], age' = age,
         data \subseteq data', data' \subseteq Changes
  PROVE  LateSoFar(req[q])'
<1>1. req[q] \in RequestRows /\ LateSoFar(req[q])
  BY DEF TypeOK, LateInv
<1>2. \A c \in data' \ data : age[c] = 0
  BY DEF LateInv
<1>. QED BY <1>1, <1>2 DEF LateSoFar, RequestRows

\* Every step preserves it.
LEMMA LateStep == TypeOK /\ LateInv /\ [Next]_vars => LateInv'
<1> SUFFICES ASSUME TypeOK, LateInv, [Next]_vars PROVE LateInv'
  OBVIOUS
<1> USE ConstantsAssumption DEF ConstantsAssumption
<1>a. \A r \in Requests : req[r] \in RequestRows /\ LateSoFar(req[r])
  BY DEF TypeOK, LateInv
<1>s. Stale \in Nat /\ Stale >= TTL /\ TTL > 0
  BY DEF Stale
\* It is enough to look at the request that moves.
<1>b. ASSUME NEW r \in Requests, data \subseteq data', data' \subseteq Changes, age' = age, entry' = entry,
             \A q \in Requests \ {r} : req'[q] = req[q], LateSoFar(req[r])'
      PROVE  LateInv'
  <2>1. \A c \in data' \ data : age[c] = 0
    BY <1>b DEF LateInv
  <2>2. \A k \in Keys : Hit(k)' => {c \in data' : age'[c] > Stale - entry'[k].left} \subseteq entry'[k].reads
    BY <1>b, <1>s, <2>1 DEF LateInv, TypeOK, Hit, Stale
  <2>. QED BY <1>b, <2>1, <2>2, OthersLate DEF LateInv
<1>d. data \subseteq Changes
  BY DEF TypeOK
<1>1. ASSUME NEW r \in Requests, Begin(r) PROVE LateInv'
  <2>1. /\ req'[r] = [Blank EXCEPT !.phase = "open", !.owed = data \cap Visible,
                                   !.late = {c \in data : age[c] = Stale}]
        /\ \A q \in Requests \ {r} : req'[q] = req[q]
        /\ data' = data /\ entry' = entry /\ age' = age
    BY <1>1 DEF TypeOK, Begin
  <2>2. LateSoFar(req[r])'
    BY <2>1 DEF LateSoFar, Blank
  <2>. QED BY <1>b, <1>d, <2>1, <2>2
<1>2. ASSUME NEW r \in Requests, Sign(r) PROVE LateInv'
  <2> DEFINE fp == IF req[r].memo = NoMemo THEN Fingerprint(r) ELSE req[r].memo
  <2>1. /\ req'[r] = [req[r] EXCEPT !.phase = "signed", !.calls = @ + 1, !.memo = fp, !.key = fp]
        /\ \A q \in Requests \ {r} : req'[q] = req[q]
        /\ data' = data /\ entry' = entry /\ age' = age
    BY <1>2 DEF TypeOK, Sign
  <2> HIDE DEF fp
  <2>2. LateSoFar(req[r])'
    BY <1>a, <2>1 DEF LateSoFar, RequestRows
  <2>. QED BY <1>b, <1>d, <2>1, <2>2
<1>3. ASSUME NEW r \in Requests, NEW reads, Answer(r, reads), req[r].late \subseteq reads, data' = data, age' = age
      PROVE  /\ \A q \in Requests \ {r} : req'[q] = req[q]
             /\ LateSoFar(req[r])'
  <2>1. /\ req'[r] = [req[r] EXCEPT !.phase = "answered", !.reads = reads]
        /\ \A q \in Requests \ {r} : req'[q] = req[q]
    BY <1>3 DEF TypeOK, Answer
  <2>2. LateSoFar(req[r])'
    BY <1>a, <1>3, <2>1 DEF LateSoFar, RequestRows
  <2>. QED BY <2>1, <2>2
\* A live entry has everything a request may not miss.
<1>4. ASSUME NEW r \in Requests, Hit(req[r].key) PROVE req[r].late \subseteq entry[req[r].key].reads
  <2>1. req[r].key \in Keys /\ entry[req[r].key].left \in 0..TTL /\ entry[req[r].key].left > 0
    BY <1>a, <1>4 DEF RequestRows, TypeOK, Hit
  <2>2. \A c \in req[r].late : c \in data /\ age[c] = Stale
    BY <1>a DEF LateSoFar
  <2>3. Stale > Stale - entry[req[r].key].left
    BY <2>1, <1>s
  <2>. QED BY <1>4, <2>1, <2>2, <2>3 DEF LateInv
<1>5. ASSUME NEW r \in Requests, LookUp(r) PROVE LateInv'
  <2>1. data' = data /\ age' = age /\ entry' = entry
    BY <1>5 DEF LookUp
  <2>. QED BY <1>b, <1>d, <1>3, <1>4, <1>5, <2>1 DEF LookUp
<1>6. ASSUME NEW r \in Requests, Queue(r) PROVE LateInv'
  <2>1. /\ req'[r] = [req[r] EXCEPT !.phase = "waiting"]
        /\ \A q \in Requests \ {r} : req'[q] = req[q]
        /\ data' = data /\ entry' = entry /\ age' = age
    BY <1>6 DEF TypeOK, Queue
  <2>2. LateSoFar(req[r])'
    BY <1>a, <2>1 DEF LateSoFar, RequestRows
  <2>. QED BY <1>b, <1>d, <2>1, <2>2
<1>7. ASSUME NEW r \in Requests, Acquire(r) PROVE LateInv'
  <2>1. data' = data /\ age' = age /\ entry' = entry
    BY <1>7 DEF Acquire
  <2>2. CASE Hit(req[r].key)
    BY <1>b, <1>d, <1>3, <1>4, <1>7, <2>1, <2>2 DEF Acquire
  <2>3. CASE ~Hit(req[r].key)
    <3>1. /\ req'[r] = [req[r] EXCEPT !.phase = "computing", !.reads = View(r), !.ran = 0]
          /\ \A q \in Requests \ {r} : req'[q] = req[q]
      BY <1>7, <2>3 DEF TypeOK, Acquire
    <3>2. data \subseteq View(r) /\ req[r].late \subseteq data
      BY <1>a DEF View, LateSoFar
    <3>3. LateSoFar(req[r])'
      BY <1>a, <2>1, <3>1, <3>2 DEF LateSoFar, RequestRows
    <3>. QED BY <1>b, <1>d, <2>1, <3>1, <3>3
  <2>. QED BY <2>2, <2>3
<1>8. ASSUME NEW r \in Requests, Finish(r) PROVE LateInv'
  <2>1. data' = data /\ age' = age
    BY <1>8 DEF Finish
  <2>2. {c \in data : age[c] > req[r].ran} \cup req[r].late \subseteq req[r].reads /\ req[r].ran \in 0..MaxCompute
        /\ req[r].key \in Keys
    BY <1>a, <1>8 DEF Finish, LateSoFar, RequestRows
  <2>3. (\A q \in Requests \ {r} : req'[q] = req[q]) /\ LateSoFar(req[r])'
    BY <1>3, <1>8, <2>1, <2>2 DEF Finish
  <2>4. ASSUME NEW k \in Keys, Hit(k)'
        PROVE  {c \in data : age[c] > Stale - entry'[k].left} \subseteq entry'[k].reads
    <3>1. CASE k = req[r].key
      <4>1. entry'[k].left = TTL /\ entry'[k].reads = req[r].reads
        BY <1>8, <3>1, <2>2 DEF Finish, TypeOK
      <4>2. \A c \in data : age[c] > Stale - TTL => age[c] > req[r].ran
        BY <2>2, <1>d DEF Stale, TypeOK
      <4>. QED BY <2>2, <4>1, <4>2
    <3>2. CASE k # req[r].key
      BY <1>8, <2>4, <3>2 DEF Finish, TypeOK, Hit, LateInv
    <3>. QED BY <3>1, <3>2
  <2>. QED BY <2>1, <2>3, <2>4, <1>d, OthersLate DEF LateInv
<1>9. ASSUME NEW r \in Requests, Gone(r), data' = data, entry' = entry, age' = age PROVE LateInv'
  <2>1. /\ req'[r] = [Blank EXCEPT !.calls = MaxCalls[r]]
        /\ \A q \in Requests \ {r} : req'[q] = req[q]
    BY <1>9 DEF TypeOK, Gone
  <2>2. LateSoFar(req[r])'
    BY <2>1 DEF LateSoFar, Blank
  <2>. QED BY <1>b, <1>d, <1>9, <2>1, <2>2
<1>10. ASSUME NEW r \in Requests, Raise(r) \/ Kill(r) \/ End(r) PROVE LateInv'
  BY <1>9, <1>10 DEF Raise, Kill, End
<1>11. ASSUME NEW r \in Requests, Resume(r) PROVE LateInv'
  <2>1. /\ req'[r] = [req[r] EXCEPT !.phase = "open", !.key = {}, !.reads = {}, !.ran = 0]
        /\ \A q \in Requests \ {r} : req'[q] = req[q]
        /\ data' = data /\ entry' = entry /\ age' = age
    BY <1>11 DEF TypeOK, Resume
  <2>2. LateSoFar(req[r])'
    BY <1>a, <2>1 DEF LateSoFar, RequestRows
  <2>. QED BY <1>b, <1>d, <2>1, <2>2
<1>12. ASSUME NEW r \in Requests, NEW c \in Changes, Write(r, c) PROVE LateInv'
  <2>1. /\ req'[r] = [req[r] EXCEPT !.mine = @ \cup {c}, !.memo = NoMemo, !.owed = @ \cup ({c} \cap Visible)]
        /\ \A q \in Requests \ {r} : req'[q] = req[q]
        /\ data' = data /\ entry' = entry /\ age' = age
    BY <1>12 DEF TypeOK, Write
  <2>2. LateSoFar(req[r])'
    BY <1>a, <2>1 DEF LateSoFar, RequestRows
  <2>. QED BY <1>b, <1>d, <2>1, <2>2
<1>13. ASSUME NEW r \in Requests, CommitWrites(r) PROVE LateInv'
  <2>1. /\ req'[r] = [req[r] EXCEPT !.mine = {}, !.memo = NoMemo]
        /\ \A q \in Requests \ {r} : req'[q] = req[q]
        /\ data' = data \cup req[r].mine /\ entry' = entry /\ age' = age /\ req[r].phase = "open"
    BY <1>13 DEF TypeOK, CommitWrites
  <2>2. data \subseteq data' /\ data' \subseteq Changes
    BY <1>a, <1>d, <2>1 DEF RequestRows
  <2>3. LateSoFar(req[r])'
    BY <1>a, <2>1 DEF LateSoFar, RequestRows
  <2>. QED BY <1>b, <2>1, <2>2, <2>3
<1>14. ASSUME NEW r \in Requests, Rollback(r) PROVE LateInv'
  <2>1. /\ req'[r] = [req[r] EXCEPT !.mine = {}, !.memo = NoMemo, !.owed = @ \ req[r].mine]
        /\ \A q \in Requests \ {r} : req'[q] = req[q]
        /\ data' = data /\ entry' = entry /\ age' = age
    BY <1>14 DEF TypeOK, Rollback
  <2>2. LateSoFar(req[r])'
    BY <1>a, <2>1 DEF LateSoFar, RequestRows
  <2>. QED BY <1>b, <1>d, <2>1, <2>2
<1>15. ASSUME NEW c \in Changes, Change(c) PROVE LateInv'
  <2>1. data \subseteq data' /\ data' \subseteq Changes /\ entry' = entry /\ age' = age /\ req' = req
    BY <1>d, <1>15 DEF Change
  <2>2. \A b \in data' \ data : age[b] = 0
    BY <2>1 DEF LateInv
  <2>3. \A k \in Keys : Hit(k)' => {b \in data' : age'[b] > Stale - entry'[k].left} \subseteq entry'[k].reads
    BY <2>1, <2>2, <1>s DEF LateInv, TypeOK, Hit, Stale
  <2>. QED BY <2>1, <2>3, OthersLate DEF LateInv
<1>16. CASE Tick
  <2>1. data' = data /\ \A c \in Changes : age'[c] = IF c \in data /\ age[c] < Stale THEN age[c] + 1 ELSE age[c]
    BY <1>16 DEF Tick
  <2>2. \A c \in Changes : age[c] \in 0..Stale
    BY DEF TypeOK
  <2>3. \A c \in Changes \ data' : age'[c] = 0
    BY <2>1 DEF LateInv
  <2>4. ASSUME NEW k \in Keys, Hit(k)'
        PROVE  {c \in data' : age'[c] > Stale - entry'[k].left} \subseteq entry'[k].reads
    <3>1. /\ entry[k].left \in 0..TTL /\ entry[k].left > 1
          /\ entry'[k].left = entry[k].left - 1 /\ entry'[k].reads = entry[k].reads
      BY <1>16, <2>4 DEF TypeOK, Tick, Aged, NoEntry, Hit
    <3>2. \A c \in data : age'[c] > Stale - entry'[k].left => age[c] > Stale - entry[k].left
      BY <1>d, <1>s, <2>1, <2>2, <3>1
    <3>3. {c \in data : age[c] > Stale - entry[k].left} \subseteq entry[k].reads
      BY <3>1 DEF LateInv, Hit
    <3>. QED BY <2>1, <3>1, <3>2, <3>3
  <2>5. ASSUME NEW q \in Requests PROVE LateSoFar(req[q])'
    <3>1. {c \in data : age[c] = Stale} \subseteq {c \in data' : age'[c] = Stale}
      BY <1>d, <1>s, <2>1, <2>2
    <3>2. CASE req[q].phase # "computing"
      BY <1>a, <1>16, <3>1, <3>2 DEF LateSoFar, RequestRows, Tick
    <3>3. CASE req[q].phase = "computing"
      <4>1. req'[q] = [req[q] EXCEPT !.ran = @ + 1] /\ req[q].ran \in 0..MaxCompute /\ req[q].ran < MaxCompute
        BY <1>a, <1>16, <3>3 DEF Tick, RequestRows
      <4>2. \A c \in data : age'[c] > req[q].ran + 1 => age[c] > req[q].ran
        BY <1>d, <1>s, <2>1, <2>2, <4>1
      <4>3. req'[q].ran = req[q].ran + 1 /\ req'[q].reads = req[q].reads
            /\ req'[q].late = req[q].late /\ req'[q].phase = "computing"
        BY <1>a, <3>3, <4>1 DEF RequestRows
      <4>. QED BY <1>a, <2>1, <3>1, <3>3, <4>2, <4>3 DEF LateSoFar
    <3>. QED BY <3>2, <3>3
  <2>. QED BY <2>3, <2>4, <2>5 DEF LateInv
<1>17. CASE UNCHANGED vars
  BY <1>d, <1>17, OthersLate DEF vars, LateInv, Hit
<1>. QED
  BY <1>1, <1>2, <1>5, <1>6, <1>7, <1>8, <1>10, <1>11, <1>12, <1>13, <1>14, <1>15, <1>16,
     <1>17 DEF Next, Request, Serve

\* At the start nothing is committed, cached or computed.
LEMMA LateInit == Init => LateInv
  BY DEF Init, LateInv, LateSoFar, Hit, NoEntry, Blank

\* A change the fingerprint misses is missing from an answer no longer than an entry lives
\* and a computation of it takes.
THEOREM MissedChangesShow == Spec => []MissedChangesShowInTime
<1>1. LateInv => MissedChangesShowInTime
  BY DEF LateInv, LateSoFar, MissedChangesShowInTime, Answered
<1>. QED BY <1>1, TypeInit, TypeStep, LateInit, LateStep, PTL DEF Spec

\* The strengthening SingleFlight needs: a computation that has not outlived its lock
\* holds it, for the ticks that are left, and is the only one.
FlightInv ==
  \A k \in Keys \ overrun : \A r \in Computing(k) :
    /\ req[r].ran < LockExpire /\ lock[k] = LockExpire - req[r].ran
    /\ Computing(k) = {r}

\* Every step preserves it.
LEMMA FlightStep == TypeOK /\ FlightInv /\ [Next]_vars => FlightInv'
<1> SUFFICES ASSUME TypeOK, FlightInv, [Next]_vars PROVE FlightInv'
  OBVIOUS
<1> USE ConstantsAssumption DEF ConstantsAssumption
<1>a. \A r \in Requests : req[r] \in RequestRows
  BY DEF TypeOK
<1>k. \A k \in Keys : \A r \in Computing(k) : r \in Requests /\ req[r].phase = "computing" /\ req[r].key = k
  BY DEF Computing
\* A step that moves no request into or out of a computation and touches no held lock.
<1>b. ASSUME \A q \in Requests : req'[q].phase = "computing" \/ req[q].phase = "computing" => req'[q] = req[q],
             \A k \in Keys : Computing(k) = {} \/ lock'[k] = lock[k], overrun' = overrun
      PROVE  FlightInv'
  <2>1. \A k \in Keys : Computing(k)' = Computing(k)
    BY <1>b DEF Computing
  <2>2. \A k \in Keys : \A r \in Computing(k) : req'[r] = req[r] /\ lock'[k] = lock[k]
    BY <1>b, <1>k
  <2>. QED BY <1>b, <2>1, <2>2 DEF FlightInv
\* A step that ends the computation of r, and may release the lock of its key.
<1>c. ASSUME NEW r \in Requests, req[r].phase = "computing", req'[r].phase # "computing", overrun' = overrun,
             \A q \in Requests \ {r} : req'[q] = req[q], \A k \in Keys \ {req[r].key} : lock'[k] = lock[k]
      PROVE  FlightInv'
  <2> SUFFICES ASSUME NEW k \in Keys \ overrun, NEW q \in Computing(k)'
               PROVE  /\ req'[q].ran < LockExpire /\ lock'[k] = LockExpire - req'[q].ran
                      /\ Computing(k)' = {q}
    BY <1>c DEF FlightInv
  <2>1. Computing(k)' = Computing(k) \ {r}
    BY <1>c DEF Computing
  <2>2. q \in Computing(k) /\ q # r /\ Computing(k) = {q}
    BY <2>1 DEF FlightInv
  <2>3. r \notin Computing(k) /\ k # req[r].key
    BY <1>c, <2>2 DEF Computing
  <2>. QED BY <1>c, <1>k, <2>1, <2>2, <2>3 DEF FlightInv
<1>1. ASSUME NEW r \in Requests, Begin(r) PROVE FlightInv'
  <2>1. req[r].phase = "idle" /\ req'[r].phase = "open" /\ \A q \in Requests \ {r} : req'[q] = req[q]
    BY <1>1 DEF TypeOK, Begin, Blank
  <2>. QED BY <1>1, <1>b, <2>1 DEF Begin
<1>2. ASSUME NEW r \in Requests, Sign(r) PROVE FlightInv'
  <2> DEFINE fp == IF req[r].memo = NoMemo THEN Fingerprint(r) ELSE req[r].memo
  <2>1. /\ req'[r] = [req[r] EXCEPT !.phase = "signed", !.calls = @ + 1, !.memo = fp, !.key = fp]
        /\ \A q \in Requests \ {r} : req'[q] = req[q]
        /\ lock' = lock /\ overrun' = overrun /\ req[r].phase = "open"
    BY <1>2 DEF TypeOK, Sign
  <2> HIDE DEF fp
  <2>2. req'[r].phase = "signed"
    BY <1>a, <2>1 DEF RequestRows
  <2>. QED BY <1>b, <2>1, <2>2
<1>3. ASSUME NEW r \in Requests, NEW reads, Answer(r, reads)
      PROVE  req'[r].phase = "answered" /\ \A q \in Requests \ {r} : req'[q] = req[q]
  BY <1>3, <1>a DEF TypeOK, Answer, RequestRows
<1>4. ASSUME NEW r \in Requests, LookUp(r) PROVE FlightInv'
  BY <1>3, <1>4, <1>b DEF LookUp
<1>5. ASSUME NEW r \in Requests, Queue(r) PROVE FlightInv'
  <2>1. req'[r].phase = "waiting" /\ \A q \in Requests \ {r} : req'[q] = req[q]
    BY <1>5, <1>a DEF TypeOK, Queue, RequestRows
  <2>2. ASSUME NEW k \in Keys, NEW q \in Computing(k), k \notin overrun PROVE lock'[k] = lock[k]
    <3>1. lock[k] = LockExpire - req[q].ran /\ req[q].ran \in Nat
      BY <1>a, <1>k, <2>2 DEF FlightInv, RequestRows
    <3>2. lock[k] # Forever
      BY <3>1 DEF Forever
    <3>. QED BY <1>5, <3>2 DEF TypeOK, Queue, Bounded
  <2>3. \A k \in Keys : Computing(k)' = Computing(k)
    BY <1>5, <2>1 DEF Computing, Queue
  <2>4. \A k \in Keys : \A q \in Computing(k) : req'[q] = req[q]
    BY <1>5, <1>k, <2>1 DEF Queue
  <2>. QED BY <1>5, <2>2, <2>3, <2>4 DEF FlightInv, Queue
<1>6. ASSUME NEW r \in Requests, Acquire(r) PROVE FlightInv'
  <2>0. PICK k0 \in Keys : k0 = req[r].key
    BY <1>a DEF RequestRows
  <2>1. k0 \in Keys /\ lock[k0] = 0 /\ req[r].phase = "waiting" /\ overrun' = overrun
    BY <1>6, <2>0 DEF Acquire
  \* No computation of the key that has not outlived its lock is under way.
  <2>2. k0 \notin overrun => Computing(k0) = {}
    <3> SUFFICES ASSUME k0 \notin overrun, NEW q \in Computing(k0) PROVE FALSE
      OBVIOUS
    <3>1. req[q].ran < LockExpire /\ lock[k0] = LockExpire - req[q].ran /\ req[q].ran \in Nat
      BY <1>a, <1>k, <2>1 DEF FlightInv, RequestRows
    <3>. QED BY <2>1, <3>1
  <2>3. CASE Hit(k0)
    <3>1. req'[r].phase = "answered" /\ \A q \in Requests \ {r} : req'[q] = req[q]
      BY <1>3, <1>6, <2>0, <2>3 DEF Acquire
    <3>2. \A k \in Keys : lock'[k] = lock[k]
      BY <1>6, <2>0, <2>1, <2>3 DEF Acquire, TypeOK
    <3>. QED BY <1>b, <2>1, <3>1, <3>2
  <2>4. CASE ~Hit(k0)
    <3>1. /\ req'[r] = [req[r] EXCEPT !.phase = "computing", !.reads = View(r), !.ran = 0]
          /\ \A q \in Requests \ {r} : req'[q] = req[q]
          /\ lock' = [lock EXCEPT ![k0] = LockExpire]
      BY <1>6, <2>0, <2>4 DEF TypeOK, Acquire
    <3>2. req'[r].phase = "computing" /\ req'[r].ran = 0 /\ req'[r].key = k0
      BY <1>a, <2>0, <3>1 DEF RequestRows
    <3>3. ASSUME NEW k \in Keys \ {k0} PROVE Computing(k)' = Computing(k)
      <4>1. \A q \in Requests : req'[q].phase = "computing" /\ req'[q].key = k
                                <=> req[q].phase = "computing" /\ req[q].key = k
        BY <2>0, <2>1, <3>1, <3>2
      <4>. QED BY <4>1 DEF Computing
    <3>4. \A k \in Keys \ {k0} : lock'[k] = lock[k] /\ \A q \in Computing(k) : req'[q] = req[q]
      BY <1>k, <2>0, <3>1 DEF TypeOK
    <3>5. Computing(k0)' = Computing(k0) \cup {r}
      BY <3>1, <3>2 DEF Computing
    <3>6. lock'[k0] = LockExpire
      BY <2>1, <3>1 DEF TypeOK
    <3>. QED BY <2>1, <2>2, <3>2, <3>3, <3>4, <3>5, <3>6 DEF FlightInv
  <2>. QED BY <2>3, <2>4
<1>7. ASSUME NEW r \in Requests, Finish(r) PROVE FlightInv'
  BY <1>3, <1>7, <1>c DEF Finish, TypeOK
<1>8. ASSUME NEW r \in Requests, Gone(r)
      PROVE  req'[r].phase = "idle" /\ \A q \in Requests \ {r} : req'[q] = req[q]
  BY <1>8 DEF TypeOK, Gone, Blank
<1>9. ASSUME NEW r \in Requests, Raise(r) PROVE FlightInv'
  BY <1>8, <1>9, <1>c DEF Raise, TypeOK
<1>10. ASSUME NEW r \in Requests, Kill(r) PROVE FlightInv'
  BY <1>8, <1>10, <1>b, <1>c DEF Kill, TypeOK
<1>11. ASSUME NEW r \in Requests, End(r) PROVE FlightInv'
  BY <1>8, <1>11, <1>b DEF End, TypeOK
<1>12. ASSUME NEW r \in Requests, Resume(r) PROVE FlightInv'
  <2>1. req'[r].phase = "open" /\ \A q \in Requests \ {r} : req'[q] = req[q]
    BY <1>12, <1>a DEF TypeOK, Resume, RequestRows
  <2>. QED BY <1>12, <1>b, <2>1 DEF Resume
<1>13. ASSUME NEW r \in Requests, (\E c \in Changes : Write(r, c)) \/ CommitWrites(r) \/ Rollback(r)
       PROVE FlightInv'
  <2>1. req'[r].phase = "open" /\ \A q \in Requests \ {r} : req'[q] = req[q]
    <3>1. CASE \E c \in Changes : Write(r, c)
      BY <1>a, <3>1 DEF TypeOK, Write, RequestRows
    <3>2. CASE CommitWrites(r)
      BY <1>a, <3>2 DEF TypeOK, CommitWrites, RequestRows
    <3>3. CASE Rollback(r)
      BY <1>a, <3>3 DEF TypeOK, Rollback, RequestRows
    <3>. QED BY <1>13, <3>1, <3>2, <3>3
  <2>2. req[r].phase = "open" /\ lock' = lock /\ overrun' = overrun
    BY <1>13 DEF Write, CommitWrites, Rollback
  <2>. QED BY <1>b, <2>1, <2>2
<1>14. ASSUME NEW c \in Changes, Change(c) PROVE FlightInv'
  BY <1>14, <1>b DEF Change
<1>15. CASE Tick
  <2>1. ASSUME NEW k \in Keys PROVE Computing(k)' = Computing(k)
    <3>1. \A q \in Requests : req'[q].phase = req[q].phase /\ req'[q].key = req[q].key
      BY <1>15, <1>a DEF Tick, RequestRows
    <3>. QED BY <3>1 DEF Computing
  <2>2. ASSUME NEW k \in Keys \ overrun', NEW r \in Computing(k)
        PROVE  req'[r].ran < LockExpire /\ lock'[k] = LockExpire - req'[r].ran /\ Computing(k) = {r}
    <3>1. req[r].ran < LockExpire /\ lock[k] = LockExpire - req[r].ran /\ Computing(k) = {r} /\ req[r].ran \in Nat
      BY <1>15, <1>a, <1>k, <2>2 DEF FlightInv, RequestRows, Tick
    <3>2. req'[r].ran = req[r].ran + 1
      BY <1>15, <1>a, <1>k DEF Tick, RequestRows
    <3>3. req[r].ran + 1 < LockExpire
      BY <1>15, <2>2, <3>1 DEF Tick
    <3>4. lock'[k] = lock[k] - 1
      BY <1>15, <3>1, <3>3 DEF Tick, Less, Forever
    <3>. QED BY <3>1, <3>2, <3>3, <3>4
  <2>. QED BY <2>1, <2>2 DEF FlightInv
<1>16. CASE UNCHANGED vars
  BY <1>16, <1>b DEF vars
<1>. QED
  BY <1>1, <1>2, <1>4, <1>5, <1>6, <1>7, <1>9, <1>10, <1>11, <1>12, <1>13, <1>14, <1>15,
     <1>16 DEF Next, Request, Serve

\* At the start nothing is computed.
LEMMA FlightInit == Init => FlightInv
  BY DEF Init, FlightInv, Computing, Blank

\* Single flight: of a key whose computations have all ended before its lock expired at
\* most one is under way, whatever workers were killed and however late they came.
THEOREM OneFlight == Spec => []SingleFlight
<1>1. FlightInv => SingleFlight
  <2> SUFFICES ASSUME FlightInv, NEW k \in Keys \ overrun PROVE Cardinality(Computing(k)) <= 1
    BY DEF SingleFlight
  <2>1. Computing(k) = {} \/ \E r : Computing(k) = {r}
    BY DEF FlightInv
  <2>2. Cardinality(Computing(k)) \in {0, 1}
    BY <2>1, FS_EmptySet, FS_Singleton
  <2>. QED BY <2>2
<1>. QED BY <1>1, TypeInit, TypeStep, FlightInit, FlightStep, PTL DEF Spec

\* The key a request waits for has a lock that expires: what an older release left
\* without expiry was bounded when the request joined the queue.
WaitInv == \A r \in Requests : req[r].phase = "waiting" => lock[req[r].key] \in 0..LockExpire

\* Every step preserves it.
LEMMA WaitStep == TypeOK /\ WaitInv /\ [Next]_vars => WaitInv'
<1> SUFFICES ASSUME TypeOK, WaitInv, [Next]_vars PROVE WaitInv'
  OBVIOUS
<1> USE ConstantsAssumption DEF ConstantsAssumption
<1>a. \A r \in Requests : req[r] \in RequestRows /\ req[r].key \in Keys
  BY DEF TypeOK, RequestRows
<1>l. lock \in [Keys -> 0..Forever] /\ 0 \in 0..LockExpire /\ LockExpire \in 0..LockExpire /\ Forever = LockExpire + 1
  BY DEF TypeOK, Forever
\* A step that makes nobody wait, and leaves each lock, releases it or takes it anew.
<1>b. ASSUME \A q \in Requests : req'[q].phase = "waiting" => req[q].phase = "waiting" /\ req'[q].key = req[q].key,
             \A k \in Keys : lock'[k] = lock[k] \/ lock'[k] \in 0..LockExpire
      PROVE  WaitInv'
  BY <1>a, <1>b DEF WaitInv
\* A step that changes the row of one request, to another phase.
<1>c. ASSUME NEW r \in Requests, NEW row, req' = [req EXCEPT ![r] = row], row.phase # "waiting",
             \A k \in Keys : lock'[k] = lock[k] \/ lock'[k] \in 0..LockExpire
      PROVE  WaitInv'
  <2>1. \A q \in Requests : req'[q] = IF q = r THEN row ELSE req[q]
    BY <1>c DEF TypeOK
  <2>2. \A q \in Requests : req'[q].phase = "waiting" => req[q].phase = "waiting" /\ req'[q].key = req[q].key
    BY <1>c, <2>1
  <2>. QED BY <1>b, <1>c, <2>2
<1>1. ASSUME NEW r \in Requests, Begin(r) \/ Sign(r) \/ LookUp(r) \/ Resume(r)
      PROVE  WaitInv'
  <2>1. \E row : req' = [req EXCEPT ![r] = row] /\ row.phase # "waiting"
    <3>1. CASE Begin(r)
      <4> DEFINE row == [req[r] EXCEPT !.phase = "open", !.owed = data \cap Visible,
                                       !.late = {c \in data : age[c] = Stale}]
      <4>1. req' = [req EXCEPT ![r] = row]
        BY <3>1 DEF TypeOK, Begin
      <4>2. row.phase = "open"
        BY <1>a DEF RequestRows
      <4>. QED BY <4>1, <4>2
    <3>2. CASE Sign(r)
      <4> DEFINE fp == IF req[r].memo = NoMemo THEN Fingerprint(r) ELSE req[r].memo
                 row == [req[r] EXCEPT !.phase = "signed", !.calls = @ + 1, !.memo = fp, !.key = fp]
      <4>1. req' = [req EXCEPT ![r] = row]
        BY <3>2 DEF TypeOK, Sign
      <4>2. row.phase = "signed"
        BY <1>a DEF RequestRows
      <4>. QED BY <4>1, <4>2
    <3>3. CASE LookUp(r)
      <4> DEFINE row == [req[r] EXCEPT !.phase = "answered", !.reads = entry[req[r].key].reads]
      <4>1. req' = [req EXCEPT ![r] = row]
        BY <3>3 DEF TypeOK, LookUp, Answer
      <4>2. row.phase = "answered"
        BY <1>a DEF RequestRows
      <4>. QED BY <4>1, <4>2
    <3>4. CASE Resume(r)
      <4> DEFINE row == [req[r] EXCEPT !.phase = "open", !.key = {}, !.reads = {}, !.ran = 0]
      <4>1. req' = [req EXCEPT ![r] = row]
        BY <3>4 DEF TypeOK, Resume
      <4>2. row.phase = "open"
        BY <1>a DEF RequestRows
      <4>. QED BY <4>1, <4>2
    <3>. QED BY <1>1, <3>1, <3>2, <3>3, <3>4
  <2>2. PICK row : req' = [req EXCEPT ![r] = row] /\ row.phase # "waiting"
    BY <2>1
  <2>3. lock' = lock
    BY <1>1 DEF Begin, Sign, LookUp, Resume
  <2>. QED BY <1>c, <2>2, <2>3
<1>2. ASSUME NEW r \in Requests, Queue(r) PROVE WaitInv'
  <2>1. PICK k \in Keys : k = req[r].key
    BY <1>a
  <2>2. lock' = [lock EXCEPT ![k] = Bounded(@)] /\ req' = [req EXCEPT ![r].phase = "waiting"]
    BY <1>2, <2>1 DEF Queue
  <2>3. lock'[k] \in 0..LockExpire /\ \A j \in Keys : j # k => lock'[j] = lock[j]
    BY <1>l, <2>2 DEF Bounded
  <2>4. req'[r].key = k /\ \A q \in Requests : q # r => req'[q] = req[q]
    BY <1>a, <2>1, <2>2 DEF TypeOK, RequestRows
  <2>5. ASSUME NEW q \in Requests, req'[q].phase = "waiting" PROVE lock'[req'[q].key] \in 0..LockExpire
    <3>1. CASE q = r
      BY <2>3, <2>4, <3>1
    <3>2. CASE q # r
      <4>1. req'[q] = req[q] /\ lock[req[q].key] \in 0..LockExpire /\ req[q].key \in Keys
        BY <1>a, <2>4, <2>5, <3>2 DEF WaitInv
      <4>. QED BY <2>3, <4>1
    <3>. QED BY <3>1, <3>2
  <2>. QED BY <2>5 DEF WaitInv
<1>3. ASSUME NEW r \in Requests, Acquire(r) \/ Finish(r) PROVE WaitInv'
  <2>1. PICK k \in Keys : k = req[r].key
    BY <1>a
  <2>2. \A j \in Keys : lock'[j] = lock[j] \/ lock'[j] \in 0..LockExpire
    <3>1. \E n \in 0..LockExpire : lock' = [lock EXCEPT ![k] = n]
      BY <1>3, <1>l, <2>1 DEF Acquire, Finish
    <3>. QED BY <1>l, <3>1
  <2>3. \A q \in Requests : q # r => req'[q] = req[q]
    BY <1>3 DEF TypeOK, Acquire, Finish, Answer
  <2>4. req'[r].phase # "waiting"
    BY <1>3, <1>a DEF TypeOK, Acquire, Finish, Answer, RequestRows
  <2>. QED BY <1>b, <2>2, <2>3, <2>4
<1>4. ASSUME NEW r \in Requests, Raise(r) \/ Kill(r) \/ End(r) PROVE WaitInv'
  <2>1. Gone(r)
    BY <1>4 DEF Raise, Kill, End
  <2>2. PICK row : row = [Blank EXCEPT !.calls = MaxCalls[r]]
    OBVIOUS
  <2>3. req' = [req EXCEPT ![r] = row] /\ row.phase # "waiting"
    BY <2>1, <2>2 DEF Gone, Blank
  <2>4. \A k \in Keys : lock'[k] = lock[k] \/ lock'[k] \in 0..LockExpire
    BY <1>4, <1>a, <1>l DEF Raise, Kill, End
  <2>. QED BY <1>c, <2>3, <2>4
<1>5. ASSUME NEW r \in Requests, (\E c \in Changes : Write(r, c)) \/ CommitWrites(r) \/ Rollback(r) PROVE WaitInv'
  <2>1. req'[r].phase = "open" /\ \A q \in Requests \ {r} : req'[q] = req[q]
    <3>1. CASE \E c \in Changes : Write(r, c)
      BY <1>a, <3>1 DEF TypeOK, Write, RequestRows
    <3>2. CASE CommitWrites(r)
      BY <1>a, <3>2 DEF TypeOK, CommitWrites, RequestRows
    <3>3. CASE Rollback(r)
      BY <1>a, <3>3 DEF TypeOK, Rollback, RequestRows
    <3>. QED BY <1>5, <3>1, <3>2, <3>3
  <2>2. lock' = lock
    BY <1>5 DEF Write, CommitWrites, Rollback
  <2>. QED BY <1>b, <2>1, <2>2
<1>6. CASE Tick
  <2>1. \A q \in Requests : req'[q].phase = req[q].phase /\ req'[q].key = req[q].key
    BY <1>6, <1>a DEF Tick, RequestRows
  <2>2. \A k \in Keys : lock[k] \in 0..LockExpire => lock'[k] \in 0..LockExpire
    BY <1>6, <1>l DEF Tick, Less
  <2>. QED BY <1>a, <2>1, <2>2 DEF WaitInv
<1>7. CASE UNCHANGED <<req, lock>>
  BY <1>7 DEF WaitInv
<1>. QED
  BY <1>1, <1>2, <1>3, <1>4, <1>5, <1>6, <1>7 DEF Next, Request, Serve, Change, vars

\* The safety half of EveryCallEnds, _bound_unexpiring_lock and diskcache.Lock: whatever
\* workers were killed holding it, in this release or an older one, the lock a request waits for
\* ends within LOCK_EXPIRE_S.  Every tick takes one off it, and only a worker that is granted it
\* makes it last longer.  What stays with TLC is that ticks and grants do come.
THEOREM WaitsExpire ==
  Spec => [][\A r \in Requests : LET k == req[r].key IN
               req[r].phase = "waiting" =>
                 /\ lock[k] <= LockExpire
                 /\ Tick => lock'[k] = Less(lock[k])
                 /\ lock'[k] > lock[k] => \E q \in Requests : Acquire(q) /\ req[q].key = k]_vars
<1>1. Init => WaitInv
  BY DEF Init, WaitInv, Blank
<1>2. TypeOK /\ WaitInv /\ [Next]_vars =>
        [\A r \in Requests : LET k == req[r].key IN
           req[r].phase = "waiting" =>
             /\ lock[k] <= LockExpire
             /\ Tick => lock'[k] = Less(lock[k])
             /\ lock'[k] > lock[k] => \E q \in Requests : Acquire(q) /\ req[q].key = k]_vars
  <2> SUFFICES ASSUME TypeOK, WaitInv, Next, NEW r \in Requests, req[r].phase = "waiting", NEW k, k = req[r].key
               PROVE  /\ lock[k] <= LockExpire
                      /\ Tick => lock'[k] = Less(lock[k])
                      /\ lock'[k] > lock[k] => \E q \in Requests : Acquire(q) /\ req[q].key = k
    OBVIOUS
  <2> USE ConstantsAssumption DEF ConstantsAssumption
  <2>1. k \in Keys /\ lock[k] \in 0..LockExpire /\ lock \in [Keys -> 0..Forever] /\ Forever = LockExpire + 1
    BY DEF TypeOK, RequestRows, WaitInv, Forever
  <2>2. Tick => lock'[k] = Less(lock[k])
    BY <2>1 DEF Tick
  <2>3. ASSUME lock'[k] > lock[k] PROVE \E q \in Requests : Acquire(q) /\ req[q].key = k
    <3>1. lock' # lock /\ lock'[k] # lock[k]
      BY <2>1, <2>3
    <3>2. ~Tick
      BY <2>1, <2>2, <2>3 DEF Less
    <3>3. PICK q \in Requests : Queue(q) \/ Acquire(q) \/ Finish(q) \/ Raise(q)
      BY <3>1, <3>2 DEF Next, Request, Serve, Change, Begin, Sign, LookUp, Resume, Kill, End, Write,
                        CommitWrites, Rollback
    <3>4. PICK j : j = req[q].key
      OBVIOUS
    <3>5. CASE Acquire(q)
      <4>1. k = j
        BY <2>1, <3>1, <3>4, <3>5 DEF Acquire
      <4>. QED BY <3>4, <3>5, <4>1
    <3>6. CASE Queue(q)
      BY <2>1, <3>1, <3>4, <3>6 DEF Queue, Bounded
    <3>7. CASE Finish(q) \/ Raise(q)
      <4>1. lock' = [lock EXCEPT ![j] = 0]
        BY <3>4, <3>7 DEF Finish, Raise
      <4>2. lock'[k] = lock[k] \/ lock'[k] = 0
        BY <2>1, <4>1
      <4>. QED BY <2>1, <2>3, <4>2
    <3>. QED BY <3>3, <3>5, <3>6, <3>7
  <2>. QED BY <2>1, <2>2, <2>3
<1>. QED BY <1>1, <1>2, WaitStep, TypeInit, TypeStep, PTL DEF Spec
================================================================================
