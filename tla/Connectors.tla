------------------------------ MODULE Connectors ------------------------------
(* What the connectors make of what the brokers send: ibkr_flex_connector.py, *)
(* flex_xml.py, snaptrade.py and the readers of CSV and OFX files, each to    *)
(* one canonical snapshot (ingestion/base.py), and the contract a snapshot is *)
(* checked against (ingestion/quality.py).  Everything is of one security.    *)
EXTENDS Ledger, FiniteSets, FiniteSetsExt, Functions

CONSTANT None

SnapshotOf(source, nav, holdings, acts) ==
  [source |-> source, nav |-> nav, holdings |-> holdings, acts |-> acts, lots |-> {}, openLots |-> {}]
\* A connector whose fetch failed returns no records and the error.
Failed(source) == [source |-> source, error |-> TRUE]

Activity(acct, e, type) ==
  [acct |-> acct, day |-> e.day, type |-> type, qty |-> e.qty, price |-> e.price, fees |-> 0, amount |-> e.amount]
\* activity_key and legacy_activity_key: a reinvestment was once stored as a purchase.
Key(act) == <<act.acct, act.day, act.type, act.qty, act.amount>>
LegacyKey(act) == Key([act EXCEPT !.type = "BUY"])
KeysOf(acts) == {Key(act) : act \in acts}

-----------------------------------------------------------------------------
(* The brokers' words for a transaction; None is not represented. *)
\* _ACTIVITY_TYPE_MAP
SnapTradeType(word) ==
  CASE word \in Purchases \cup {"SELL"} \cup CashTypes -> word
    [] word = "CONTRIBUTION" -> "DEPOSIT"
    [] OTHER -> None
\* _map_cash_type
FlexCashType(word, amount) ==
  CASE word = "Broker Interest Paid" -> "FEE"
    [] word = "Broker Interest Received" -> "INTEREST"
    [] word \in {"Dividends", "Payment In Lieu Of Dividends"} -> "DIVIDEND"
    [] word \in {"Withholding Tax", "Other Fees", "Commission Adjustments"} -> "FEE"
    [] word = "Deposits/Withdrawals" -> IF amount >= 0 THEN "DEPOSIT" ELSE "WITHDRAWAL"
    [] OTHER -> None
\* _coerce_type: synonyms, else the canonical name itself.
CsvType(word) ==
  CASE word \in {"bought", "purchase"} -> "BUY"
    [] word \in {"reinvest dividend", "reinvest shares"} -> "REINVESTMENT"
    [] word \in {"sold", "sale"} -> "SELL"
    [] word \in {"qualified dividend", "div"} -> "DIVIDEND"
    [] word \in TxnType -> word
    [] OTHER -> None
\* _classify
OfxType(word, amount) ==
  CASE word = "INVBANKTRAN" -> IF amount > 0 THEN "DEPOSIT" ELSE IF amount < 0 THEN "WITHDRAWAL" ELSE None
    [] word = "INCOME" -> "DIVIDEND"
    [] word = "REINVEST" -> "REINVESTMENT"
    [] word \in {"BUYSTOCK", "BUYMF"} -> "BUY"
    [] word \in {"SELLSTOCK", "SELLMF"} -> "SELL"
    [] OTHER -> None

-----------------------------------------------------------------------------
(* SnapTrade: the listed accounts with their totals, the positions of those whose call   *)
(* succeeded, the rows of activity.  Magnitudes: the sign of a row is in its type.       *)
Abs(n) == IF n < 0 THEN -n ELSE n
SnapTradeSnapshot(listed, positions, rows) ==
  SnapshotOf("snaptrade", listed, positions,
    {Activity(r.acct, [r EXCEPT !.qty = Abs(@), !.amount = Abs(@)], SnapTradeType(r.word)) :
       r \in {q \in rows : SnapTradeType(q.word) # None}})

(* Flex: the sections of one statement. *)
\* parse_accounts: of several report dates the latest.
Accounted(st) ==
  [a \in {e.acct : e \in st.equity} |->
     (CHOOSE e \in st.equity : e.acct = a /\ \A f \in st.equity : f.acct = a => f.day <= e.day).nav]
\* parse_open_positions and parse_open_lots: the rollup of a position, and its lots.
SummaryRows(st) == {p \in st.positions : p.level # "LOT"}
LotRows(st) == {p \in st.positions : p.level = "LOT" /\ p.qty # 0}
\* parse_cash_transactions
CashRows(st) ==
  {Activity(r.acct, [r EXCEPT !.amount = Abs(@)], FlexCashType(r.word, r.amount)) :
     r \in {q \in st.cash : FlexCashType(q.word, q.amount) # None}}
\* parse_realized_lots: the lot rows, else the closed-lot trades, else any trade that
\* realized something, never two of them.
RealizedRows(st) ==
  IF st.lots # {} THEN st.lots ELSE IF st.closed # {} THEN st.closed ELSE st.orders
\* A lot row has no proceeds: they are its cost and the realized profit.
RealizedLot(r) ==
  LET proceeds == IF r.proceeds = None THEN Abs(r.cost) + r.pnl ELSE r.proceeds
  IN [acct |-> r.acct, open |-> r.open, close |-> r.close, qty |-> Abs(r.qty),
      proceeds |-> proceeds, basis |-> proceeds - r.pnl]
RealizedLots(st) == {RealizedLot(r) : r \in RealizedRows(st)}
FlexSnapshot(st) ==
  [SnapshotOf("ibkr_flex", Accounted(st), {[acct |-> p.acct, qty |-> p.qty, basis |-> p.basis] : p \in SummaryRows(st)},
              CashRows(st))
   EXCEPT !.lots = RealizedLots(st),
          !.openLots = {[acct |-> p.acct, day |-> p.open, qty |-> p.qty] : p \in LotRows(st)}]

(* A file of one account: the rows that can be read; positions are never stored.  An OFX *)
(* statement names its account, a CSV file only in its rows.                             *)
FileSnapshot(format, acct, rows) ==
  LET typed(r) == IF format = "csv" THEN CsvType(r.word) ELSE OfxType(r.word, r.amount)
      read == {r \in rows : typed(r) # None}
  IN SnapshotOf(format, [a \in IF format = "ofx" \/ read # {} THEN {acct} ELSE {} |-> 0], {},
                {Activity(r.acct, [r EXCEPT !.qty = Abs(@), !.amount = Abs(@)], typed(r)) : r \in read})

-----------------------------------------------------------------------------
(* check_snapshot_contract, as far as records relate: the accounts they name, *)
(* magnitudes, and dates. *)
ActivityFindings(snap, today) ==
  {act \in snap.acts :
     \/ act.acct \notin DOMAIN snap.nav
     \/ act.day > today + 1
     \/ act.type \in Purchases \cup {"SELL"} /\ (act.qty <= 0 \/ act.price < 0)
     \/ act.type \in CashTypes /\ act.amount < 0}
LotFindings(snap) ==
  {l \in snap.lots : l.acct \notin DOMAIN snap.nav \/ l.qty <= 0 \/ l.close < l.open}
Findings(snap, today) ==
  {h \in snap.holdings : h.acct \notin DOMAIN snap.nav}
  \cup {l \in snap.openLots : l.acct \notin DOMAIN snap.nav}
  \cup ActivityFindings(snap, today) \cup LotFindings(snap)
=============================================================================
