-------------------------- MODULE MCPersistSnapshot --------------------------
(***************************************************************************)
(* Instances of PersistSnapshot for TLC.  Two broker accounts: one from a  *)
(* snapshot source with a tenant-wide id (flex), one labelled by the user  *)
(* (csv).  The database starts with an import of flex from before          *)
(* reinvestments had a type of their own, so "drip" is stored as "buy".    *)
(***************************************************************************)
EXTENDS PersistSnapshot, TLC

CONSTANTS flex, csv, p1, p2, s1, s2

MCKeys == {"buy", "drip", "div", "lot"}
MCLegacy == [k \in MCKeys |-> IF k = "drip" THEN "buy" ELSE NoKey]
MCItems == {"x", "y"}

\* A snapshot of one account a of portfolio p.
One(p, a, acts, realized, holdings, lots, full, complete) ==
  [portfolio |-> p, accounts |-> {a},
   acts      |-> [b \in Accounts |-> IF b = a THEN acts ELSE << >>],
   realized  |-> [b \in Accounts |-> IF b = a THEN realized ELSE {}],
   holdings  |-> [b \in Accounts |-> IF b = a THEN holdings ELSE {}],
   lots      |-> [b \in Accounts |-> IF b = a THEN lots ELSE {}],
   full      |-> full,
   holdingsCompleteFor |-> IF complete THEN {a} ELSE {},
   lotsCompleteFor     |-> {}]

MCSeed == One(p1, flex, <<"buy">>, {}, {"x"}, {"x"}, TRUE, TRUE)

Rotated(p)  == One(p, flex, <<"div", "drip">>, {"lot"}, {"y"}, {"y"}, TRUE, TRUE)
NoLots(p)   == One(p, flex, <<"drip">>, {}, {"x"}, {}, TRUE, TRUE)
SoldAll(p)  == One(p, flex, << >>, {"lot"}, {}, {}, TRUE, TRUE)
Degraded(p) == One(p, flex, << >>, {}, {}, {}, FALSE, TRUE)
Statement   == One(p1, csv, <<"div">>, {}, {}, {}, TRUE, FALSE)

\* Plain keys: joining and splitting the exclusion column gives the key back.
PlainKey   == [a \in Accounts |-> a]
PlainParts == [a \in Accounts |-> {a}]

Overlapping == {Rotated(p1), NoLots(p1), SoldAll(p1), Degraded(p1), Statement}
TwoBooks    == {Rotated(p1), NoLots(p2), SoldAll(p1), Degraded(p2), Statement}
MCSnapshots == Overlapping \cup TwoBooks

\* The instance keeps to what the theorems suppose of feeds and users.
ASSUME InScope == NoLegacyStated /\ LotsOfOneAccount /\ KeysWithoutComma /\ OneRequestAtATime

\* Either two overlapping imports of one portfolio beside a settings request, or imports
\* and settings requests one at a time over two portfolios: one user, no job running.
VARIABLE overlapping
InTurn == pc[s2] = "idle" /\ snap[s1] \in TwoBooks \cup {Seed} /\ OneAtATime
TwoAtOnce ==
  /\ imports <= 3 /\ \A s \in Importers : snap[s] \in Overlapping \cup {Seed}
  /\ prefs \subseteq {p1} /\ \A e \in open : e.portfolio = p1
MCInit == Init /\ overlapping \in BOOLEAN
MCNext == Next /\ UNCHANGED overlapping /\ IF overlapping THEN TwoAtOnce' ELSE InTurn'
MCSpec == MCInit /\ [][MCNext]_<<vars, overlapping>>

\* Run one at a time, the statement sequence is an atomic import, an atomic delete
\* or an atomic restore of the broker book, or an attempt that changes nothing.
ImportsAtomically == Book!Init /\ [][overlapping \/ Book!Next]_(Book!bookVars)
==============================================================================
