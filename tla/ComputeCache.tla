----------------------------- MODULE ComputeCache ------------------------------
(***************************************************************************)
(* The cross-process cache of computed reads: api/services/compute_cache.py *)
(* with the request sessions of api/db/session.py.                         *)
(*                                                                         *)
(* The data is the set of the changes made to it.  The fingerprint of a    *)
(* portfolio sees the changes that move a count, a newest date or the sum  *)
(* of market values (Visible) and misses the others: a close revised in    *)
(* place, an older bar backfilled, a swap at equal value.  A key is a      *)
(* fingerprint, a result the changes its computation has read.  A session  *)
(* reads what is committed at each statement, and its own writes.          *)
(*                                                                         *)
(* The cache and its locks are one diskcache store shared by all workers:  *)
(* an entry and a lock carry the ticks they have left, a lock does not     *)
(* carry its holder.                                                       *)
(***************************************************************************)
EXTENDS Integers, FiniteSets

CONSTANTS
  Requests,
  Changes,
  Visible,      \* the changes a fingerprint sees
  TTL,          \* _TTL_S, in ticks
  LockExpire,   \* LOCK_EXPIRE_S, in ticks
  MaxCompute,   \* bound: ticks a computation takes
  MaxCalls      \* bound: the cached reads each request makes

ASSUME ConstantsAssumption ==
  /\ Visible \subseteq Changes
  /\ TTL \in Nat \ {0} /\ LockExpire \in Nat \ {0} /\ MaxCompute \in Nat
  /\ MaxCalls \in [Requests -> Nat]

VARIABLES
  data,     \* the changes committed
  entry,    \* the cache: per key, what the result reflects and the ticks it has left
  lock,     \* per key, the ticks its lock has left; 0 when free or expired
  req,      \* the requests
  \* observation
  age,      \* per change, ticks since its commit, up to Stale
  overrun   \* keys one of whose computations has outlived its lock

vars == <<data, entry, lock, req, age, overrun>>

Keys     == SUBSET Visible
Stale    == TTL + MaxCompute
Forever  == LockExpire + 1      \* a lock without expiry, left by an older release
NoEntry  == [reads |-> {}, left |-> 0]
NoMemo   == {Changes}           \* not a fingerprint
Blank    == [phase |-> "idle", calls |-> 0, memo |-> NoMemo, key |-> {}, mine |-> {},
             reads |-> {}, ran |-> 0, owed |-> {}, late |-> {}]
----------------------------------------------------------------------------
Gone(r) == req' = [req EXCEPT ![r] = [Blank EXCEPT !.calls = MaxCalls[r]]]

View(r) == data \cup req[r].mine
Fingerprint(r) == View(r) \cap Visible

Begin(r) ==
  /\ req[r] = Blank
  /\ req' = [req EXCEPT ![r].phase = "open", ![r].owed = data \cap Visible,
                        ![r].late = {c \in data : age[c] = Stale}]
  /\ UNCHANGED <<data, entry, lock, age, overrun>>

\* portfolio_fingerprint: at most one statement per request.
Sign(r) ==
  /\ req[r].phase = "open" /\ req[r].calls < MaxCalls[r]
  /\ LET fp == IF req[r].memo = NoMemo THEN Fingerprint(r) ELSE req[r].memo IN
     req' = [req EXCEPT ![r].phase = "signed", ![r].calls = @ + 1,
                        ![r].memo = fp, ![r].key = fp]
  /\ UNCHANGED <<data, entry, lock, age, overrun>>

Hit(k) == entry[k].left > 0
Answer(r, reads) == req' = [req EXCEPT ![r].phase = "answered", ![r].reads = reads]

\* cached: the first look, outside the lock.
LookUp(r) ==
  /\ req[r].phase = "signed" /\ Hit(req[r].key)
  /\ Answer(r, entry[req[r].key].reads)
  /\ UNCHANGED <<data, entry, lock, age, overrun>>

\* Mutant of Bounded: an orphaned lock is left as it is.
BoundedNever(left) == left

\* _bound_unexpiring_lock.
Bounded(left) == IF left = Forever THEN LockExpire ELSE left

Queue(r) ==
  /\ req[r].phase = "signed" /\ ~Hit(req[r].key)
  /\ lock' = [lock EXCEPT ![req[r].key] = Bounded(@)]
  /\ req' = [req EXCEPT ![r].phase = "waiting"]
  /\ UNCHANGED <<data, entry, age, overrun>>

\* Mutant of Acquire: the lock is not waited for.
AcquireUnlocked(r) ==
  /\ req[r].phase = "waiting"
  /\ req' = [req EXCEPT ![r].phase = "computing", ![r].reads = View(r), ![r].ran = 0]
  /\ UNCHANGED <<data, entry, lock, age, overrun>>

\* diskcache.Lock: add the lock's key, which an expired one does not prevent.
\* Then look again; compute what is still missing.
Acquire(r) ==
  LET k == req[r].key IN
  /\ req[r].phase = "waiting" /\ lock[k] = 0
  /\ lock' = [lock EXCEPT ![k] = IF Hit(k) THEN 0 ELSE LockExpire]
  /\ IF Hit(k) THEN Answer(r, entry[k].reads)
     ELSE req' = [req EXCEPT ![r].phase = "computing", ![r].reads = View(r), ![r].ran = 0]
  /\ UNCHANGED <<data, entry, age, overrun>>

\* The result is stored, then the key's lock removed, whoever holds it by now.
Finish(r) ==
  LET k == req[r].key IN
  /\ req[r].phase = "computing"
  /\ entry' = [entry EXCEPT ![k] = [reads |-> req[r].reads, left |-> TTL]]
  /\ lock' = [lock EXCEPT ![k] = 0]
  /\ Answer(r, req[r].reads)
  /\ UNCHANGED <<data, age, overrun>>

\* The computation raises: nothing is stored.
Raise(r) ==
  /\ req[r].phase = "computing"
  /\ lock' = [lock EXCEPT ![req[r].key] = 0]
  /\ Gone(r)
  /\ UNCHANGED <<data, entry, age, overrun>>

\* A worker is killed (a deploy): its lock stays behind.
Kill(r) ==
  /\ req[r].phase \in {"waiting", "computing"}
  /\ Gone(r)
  /\ UNCHANGED <<data, entry, lock, age, overrun>>

Resume(r) ==
  /\ req[r].phase = "answered"
  /\ req' = [req EXCEPT ![r].phase = "open", ![r].key = {}, ![r].reads = {}, ![r].ran = 0]
  /\ UNCHANGED <<data, entry, lock, age, overrun>>

\* Mutant of Write: the memo survives the session's own writes.
WriteMemoKept(r, c) ==
  /\ req[r].phase = "open" /\ c \notin data \cup UNION {req[q].mine : q \in Requests}
  /\ req' = [req EXCEPT ![r].mine = @ \cup {c}, ![r].owed = @ \cup ({c} \cap Visible)]
  /\ UNCHANGED <<data, entry, lock, age, overrun>>

\* A flush, or a Core statement that is not a SELECT: the memo is dropped.
Write(r, c) ==
  /\ req[r].phase = "open" /\ c \notin data \cup UNION {req[q].mine : q \in Requests}
  /\ req' = [req EXCEPT ![r].mine = @ \cup {c}, ![r].memo = NoMemo,
                        ![r].owed = @ \cup ({c} \cap Visible)]
  /\ UNCHANGED <<data, entry, lock, age, overrun>>

\* The request commits or rolls back what it wrote and goes on.
CommitWrites(r) ==
  /\ req[r].phase = "open" /\ req[r].mine # {}
  /\ data' = data \cup req[r].mine
  /\ req' = [req EXCEPT ![r].mine = {}, ![r].memo = NoMemo]
  /\ UNCHANGED <<entry, lock, age, overrun>>

Rollback(r) ==
  /\ req[r].phase = "open" /\ req[r].mine # {}
  /\ req' = [req EXCEPT ![r].mine = {}, ![r].memo = NoMemo, ![r].owed = @ \ req[r].mine]
  /\ UNCHANGED <<data, entry, lock, age, overrun>>

End(r) ==
  /\ req[r].phase = "open" /\ req[r].mine = {}
  /\ Gone(r)
  /\ UNCHANGED <<data, entry, lock, age, overrun>>

\* An import, a price refresh, a job: any other session that commits.
Change(c) ==
  /\ c \notin data \cup UNION {req[q].mine : q \in Requests}
  /\ data' = data \cup {c}
  /\ UNCHANGED <<entry, lock, req, age, overrun>>

Less(n) == IF n = 0 THEN 0 ELSE n - 1

\* Mutant of Aged: entries are stored without expiry.
AgedNever(e) == e

Aged(e) == IF e.left <= 1 THEN NoEntry ELSE [e EXCEPT !.left = @ - 1]
Computing(k) == {r \in Requests : req[r].phase = "computing" /\ req[r].key = k}

Tick ==
  /\ \A r \in Requests : req[r].phase = "computing" => req[r].ran < MaxCompute
  /\ entry' = [k \in Keys |-> Aged(entry[k])]
  /\ lock' = [k \in Keys |-> IF lock[k] = Forever THEN Forever ELSE Less(lock[k])]
  /\ req' = [r \in Requests |-> IF req[r].phase = "computing" THEN [req[r] EXCEPT !.ran = @ + 1] ELSE req[r]]
  /\ age' = [c \in Changes |-> IF c \in data /\ age[c] < Stale THEN age[c] + 1 ELSE age[c]]
  /\ overrun' = overrun \cup {k \in Keys : \E r \in Computing(k) : req[r].ran + 1 >= LockExpire}
  /\ UNCHANGED data

Init ==
  /\ data = {}
  /\ entry = [k \in Keys |-> NoEntry]
  /\ lock \in {[k \in Keys |-> 0], [k \in Keys |-> IF k = {} THEN Forever ELSE 0]}
  /\ req = [r \in Requests |-> Blank]
  /\ age = [c \in Changes |-> 0] /\ overrun = {}

Serve(r) == Sign(r) \/ LookUp(r) \/ Queue(r) \/ Acquire(r) \/ Finish(r) \/ Raise(r)

Request(r) ==
  \/ Begin(r) \/ Serve(r) \/ Resume(r) \/ Kill(r) \/ End(r)
  \/ \E c \in Changes : Write(r, c)
  \/ CommitWrites(r) \/ Rollback(r)

Next == Tick \/ (\E c \in Changes : Change(c)) \/ \E r \in Requests : Request(r)

Spec == Init /\ [][Next]_vars

\* Time passes; a request that can go on goes on.  A waiting worker polls its
\* lock, so it takes one that is free again and again.
FairSpec ==
  /\ Spec /\ WF_vars(Tick)
  /\ \A r \in Requests : WF_vars(Serve(r)) /\ SF_vars(Acquire(r))
----------------------------------------------------------------------------
RequestRows ==
  [phase : {"idle", "open", "signed", "waiting", "computing", "answered"},
   calls : Nat, memo : Keys \cup {NoMemo}, key : Keys,
   mine : SUBSET Changes, reads : SUBSET Changes, ran : 0..MaxCompute,
   owed : SUBSET Visible, late : SUBSET Changes]

TypeOK ==
  /\ data \subseteq Changes
  /\ entry \in [Keys -> [reads : SUBSET Changes, left : 0..TTL]]
  /\ lock \in [Keys -> 0..Forever]
  /\ req \in [Requests -> RequestRows]
  /\ age \in [Changes -> 0..Stale]
  /\ overrun \subseteq Keys

Answered == {r \in Requests : req[r].phase = "answered"}

\* "No staleness window": an answer reflects every change the fingerprint sees
\* that was committed when its request began, and those the request has made
\* itself, through whatever memo, entry or lock it came.
NoStaleAnswer == \A r \in Answered : req[r].owed \subseteq req[r].reads

\* A change the fingerprint misses is missing from the answers of requests that
\* begin within an entry's lifetime and one computation of it, no longer.
MissedChangesShowInTime == \A r \in Answered : req[r].late \subseteq req[r].reads

\* Workers that ask for one key share one computation, as long as none of its
\* computations has taken longer than the lock lasts.
SingleFlight == \A k \in Keys \ overrun : Cardinality(Computing(k)) <= 1

\* A request that waits for a computation does not wait for ever, even if the
\* worker that holds the lock is killed, in this release or an older one.
EveryCallEnds == \A r \in Requests : req[r].phase = "waiting" ~> req[r].phase # "waiting"
================================================================================
