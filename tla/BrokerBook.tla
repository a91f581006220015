------------------------------ MODULE BrokerBook ------------------------------
(***************************************************************************)
(* What the import bridge promises a portfolio: an import takes effect at  *)
(* once and whole.  Each account it names and the user has not excluded    *)
(* exists afterwards; its events are unioned into the ledger, each under   *)
(* its newest key; the position and lot sets it states in full are what    *)
(* the book holds, the others stay.  Deleting an account drops it with all *)
(* it held and excludes it; restoring it only lifts the exclusion.         *)
(***************************************************************************)
EXTENDS Integers, Sequences

CONSTANTS Portfolios, Accounts, Stable, Pieces, KeyOf, Keys, Legacy, NoKey, Items,
          Snapshots, Seed

VARIABLES live,      \* accounts that exist
          owner,     \* the portfolio of each of them
          ledger,    \* [table, acct, key]: transactions and realized lots
          book,      \* [table, acct, item]: positions and open lots
          excluded   \* keys the user deleted, per portfolio

bookVars == <<live, owner, ledger, book, excluded>>

LedgerRow == [table : {"transactions", "realized_lots"}, acct : Accounts, key : Keys]
BookRow   == [table : {"positions", "open_lots"}, acct : Accounts, item : Items]

Says(sn, row) ==
  \/ row.table = "transactions" /\ \E i \in DOMAIN sn.acts[row.acct] : sn.acts[row.acct][i] = row.key
  \/ row.table = "realized_lots" /\ row.key \in sn.realized[row.acct]

Holds(sn, row) ==
  row.item \in IF row.table = "positions" THEN sn.holdings[row.acct] ELSE sn.lots[row.acct]

\* The tables of an account a snapshot replaces.  No position means no lot.
InFull(sn, table, a) ==
  \/ \E row \in BookRow : row.table = table /\ row.acct = a /\ Holds(sn, row)
  \/ sn.full /\ a \in IF table = "positions" THEN sn.holdingsCompleteFor ELSE sn.lotsCompleteFor
  \/ sn.full /\ table = "open_lots" /\ a \in sn.holdingsCompleteFor /\ sn.holdings[a] = {}

Init ==
  /\ live = Seed.accounts
  /\ owner = [a \in Accounts |-> Seed.portfolio]
  /\ ledger = {row \in LedgerRow : row.acct \in live /\ row.table = "transactions" /\ Says(Seed, row)}
  /\ book = {row \in BookRow : row.acct \in live /\ Holds(Seed, row)}
  /\ excluded = [p \in Portfolios |-> {}]

Import(sn) ==
  LET named == {a \in sn.accounts : KeyOf[a] \notin excluded[sn.portfolio]}
      said  == {row \in LedgerRow : row.acct \in named /\ Says(sn, row)}
      older == {row \in LedgerRow : \E new \in said : /\ row.table = "transactions"
                                                      /\ new.table = row.table
                                                      /\ new.acct = row.acct
                                                      /\ Legacy[new.key] = row.key}
  IN /\ live' = live \cup named
     /\ owner' = [a \in Accounts |-> IF a \in named /\ (a \notin live \/ a \in Stable)
                                     THEN sn.portfolio ELSE owner[a]]
     /\ ledger' = (ledger \ older) \cup said
     /\ book' = {row \in book : ~(row.acct \in named /\ InFull(sn, row.table, row.acct))}
                  \cup {row \in BookRow : row.acct \in named /\ Holds(sn, row)}
     /\ UNCHANGED excluded

Delete(p, a) ==
  /\ a \in live /\ owner[a] = p
  /\ live' = live \ {a}
  /\ ledger' = {row \in ledger : row.acct # a}
  /\ book' = {row \in book : row.acct # a}
  /\ excluded' = [excluded EXCEPT ![p] = @ \cup {KeyOf[a]}]
  /\ UNCHANGED owner

Restore(p, a) ==
  /\ excluded' = [excluded EXCEPT ![p] = @ \ {KeyOf[a]}]
  /\ UNCHANGED <<live, owner, ledger, book>>

Next ==
  \/ \E sn \in Snapshots : Import(sn)
  \/ \E p \in Portfolios, a \in Accounts : Delete(p, a) \/ Restore(p, a)

Spec == Init /\ [][Next]_bookVars
===============================================================================
