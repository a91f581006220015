-------------------------------- MODULE Feeds --------------------------------
(* One ingestion of the dashboard (ingestion/ingest.py): SnapTrade in three calls, *)
(* the Flex service with its retries, a file of the user, and the silver file,     *)
(* while the brokers' books and the day go on.  "ib" is seen by SnapTrade and by   *)
(* Flex, "fid" by SnapTrade alone, "roll" only in files.                           *)
EXTENDS SilverStore

CONSTANTS
  MaxDay, MaxEvents, MaxRuns,   \* bounds
  Happenings,                   \* bound: what may happen in an account
  Window,                       \* days of history a broker gives
  SendAttempts, PollAttempts    \* of the Flex service

ASSUME FeedsAssumption == {MaxDay, MaxEvents, MaxRuns, Window} \subseteq Nat
                          /\ {SendAttempts, PollAttempts} \subseteq Nat \ {0}

VARIABLES
  today, book,      \* the day; per account what happened there, oldest first
  linked,           \* the accounts the user linked at SnapTrade
  cutover,          \* the policy: Flex owns the account it sees, OFX files the other
  run,              \* the ingestion under way
  silver,           \* the store as last saved
  cache,            \* the file of closed lots of the tax page
  told, shown,      \* observation: what the store and the tax page were told
  fresh, runs       \* observation: the store was saved clean, and nothing happened since
vars == <<today, book, linked, cutover, run, silver, cache, told, shown, fresh, runs>>

Accounts == {"ib", "fid", "roll"}
Policy ==
  [explicit |-> [s \in {"ibkr_flex", "csv", "ofx"} |->
                   CASE s = "ibkr_flex" -> IF cutover THEN {"ib"} ELSE {}
                     [] s = "csv" -> IF cutover THEN {} ELSE {"roll"}
                     [] OTHER -> IF cutover THEN {"roll"} ELSE {}],
   default  |-> "snaptrade"]

-----------------------------------------------------------------------------
(* The brokers *)
Price(day) == day + 1
Event(day, kind) ==
  [day |-> day, type |-> kind, price |-> IF kind = "DIVIDEND" THEN 0 ELSE Price(day), fees |-> 0,
   qty |-> CASE kind = "DIVIDEND" -> 0 [] kind = "REINVESTMENT" -> 1 [] OTHER -> 2,
   amount |-> CASE kind = "DIVIDEND" -> 1 [] kind = "REINVESTMENT" -> Price(day) [] OTHER -> 2 * Price(day)]
HeldAt(a) == Came(book[a], Len(book[a])) - Left(book[a], Len(book[a]))
OpenParcels(a) == {r \in OpenReference(book[a]) : r.qty > 0}
PaidFor(a) == LET Paid(r) == r.qty * r.cost IN SumOver(OpenParcels(a), Paid)
Closings(a) ==
  {[acct |-> a, open |-> s.open, close |-> s.close, qty |-> s.qty,
    proceeds |-> s.qty * Price(s.close), basis |-> s.basis] : s \in SaleReference(book[a])}
NavOf(a) == HeldAt(a) * Price(today)
Recent(a, from) == {i \in DOMAIN book[a] : book[a][i].day >= from}
Position(a) == [acct |-> a, qty |-> HeldAt(a), basis |-> PaidFor(a)]

\* SnapTrade says REI for a reinvestment, and nothing of the trades of "ib".
SnapTradeWord(kind) == IF kind = "REINVESTMENT" THEN "REI" ELSE kind
SnapTradeRows(a) ==
  {book[a][i] @@ [acct |-> a, word |-> SnapTradeWord(book[a][i].type)] :
     i \in {j \in Recent(a, today - Window) : a = "ib" => book[a][j].type = "DIVIDEND"}}
\* Flex gives disposals as lots, as closed-lot trades, or as both.
Statement(form) ==
  LET closings == {c \in Closings("ib") : c.close >= today - Window}
      lot(c) == [acct |-> c.acct, open |-> c.open, close |-> c.close, qty |-> -c.qty, cost |-> c.basis,
                 pnl |-> c.proceeds - c.basis, proceeds |-> None, level |-> "LOT"]
      closed(c) == [lot(c) EXCEPT !.proceeds = c.proceeds, !.level = "CLOSED_LOT"]
  IN [equity |-> {[acct |-> "ib", day |-> d, nav |-> IF d = today THEN NavOf("ib") ELSE 0] : d \in {today - 1, today}},
      positions |-> IF HeldAt("ib") = 0 THEN {}
                    ELSE {Position("ib") @@ [level |-> "SUMMARY", open |-> None]}
                         \cup {[acct |-> "ib", qty |-> r.qty, basis |-> r.qty * r.cost, level |-> "LOT", open |-> r.day] :
                                 r \in OpenParcels("ib")},
      cash |-> {book["ib"][i] @@ [acct |-> "ib", word |-> "Dividends"] :
                  i \in {j \in Recent("ib", today - Window) : book["ib"][j].type = "DIVIDEND"}},
      lots |-> IF form = "trades" THEN {} ELSE {lot(c) : c \in closings},
      closed |-> IF form = "lots" THEN {} ELSE {closed(c) : c \in closings},
      orders |-> {}]
FileWord(format, kind) ==
  IF format = "csv"
  THEN CASE kind = "BUY" -> "bought" [] kind = "SELL" -> "sold" [] kind = "DIVIDEND" -> "div"
         [] OTHER -> "reinvest dividend"
  ELSE CASE kind = "BUY" -> "BUYSTOCK" [] kind = "SELL" -> "SELLSTOCK" [] kind = "DIVIDEND" -> "INCOME"
         [] OTHER -> "REINVEST"
FileRows(format, from) ==
  {book["roll"][i] @@ [acct |-> "roll", word |-> FileWord(format, book["roll"][i].type)] : i \in Recent("roll", from)}

-----------------------------------------------------------------------------
(* The ingestion *)
\* The tax page is read between two ingestions (a bound: it shares nothing with them).
Idle == [pc |-> "idle"]
Fresh == [pc |-> "accounts", store |-> silver, nav |-> [a \in {} |-> 0], positions |-> {}, ok |-> {},
          tries |-> 0, clean |-> TRUE, findings |-> FALSE, fed |-> {}, took |-> {}]

\* The events an activity of an account may stand for.
TellsOf(acts) == {<<act.acct, act.day>> : act \in acts}
\* What a connector returned, merged.
Merged(snap, next, clean) ==
  /\ run' = [run EXCEPT !.pc = next, !.tries = 0,
                        !.store = Ingest(@, snap, Policy),
                        !.clean = @ /\ clean,
                        !.took = @ \cup IF "error" \in DOMAIN snap THEN {} ELSE {snap.source},
                        !.findings = @ \/ ("error" \notin DOMAIN snap /\ Findings(snap, today) # {}),
                        !.fed = @ \cup IF "error" \in DOMAIN snap THEN {} ELSE TellsOf(FilterOwned(snap, Policy).acts)]
  /\ UNCHANGED <<today, book, linked, cutover, silver, cache, told, shown, fresh, runs>>
Keep == UNCHANGED <<today, book, linked, cutover, silver, cache, told, shown, fresh, runs>>

Begin ==
  /\ run = Idle /\ runs < MaxRuns
  /\ run' = Fresh /\ runs' = runs + 1 /\ fresh' = FALSE
  /\ UNCHANGED <<today, book, linked, cutover, silver, cache, told, shown>>

GetAccounts ==
  /\ run.pc = "accounts"
  /\ run' = [run EXCEPT !.pc = "holdings", !.nav = [a \in linked |-> NavOf(a)]]
  /\ Keep
\* Any of the three calls may find SnapTrade unreachable.
SnapTradeDown ==
  /\ run.pc \in {"accounts", "holdings", "activities"}
  /\ Merged(Failed("snaptrade"), "send", FALSE)
\* get_all_holdings: one call for the accounts, one for each; a call that fails is skipped.
GetHoldings ==
  /\ run.pc = "holdings"
  /\ \E ok \in {linked, linked \ {"fid"}} :
       run' = [run EXCEPT !.pc = "activities", !.ok = ok,
                          !.positions = {Position(a) : a \in {b \in ok : HeldAt(b) # 0}}]
  /\ Keep
\* get_all_activities, and with it the snapshot is whole.
GetActivities ==
  /\ run.pc = "activities"
  /\ \E ok \in {linked, linked \ {"fid"}} :
       Merged(SnapTradeSnapshot(run.nav, run.positions, UNION {SnapTradeRows(a) : a \in ok}),
              "send", run.ok = linked /\ ok = linked)

\* _send_request: any answer but success is asked again, a bounded number of times.
SendWarned ==
  /\ run.pc = "send"
  /\ IF run.tries + 1 < SendAttempts
     THEN run' = [run EXCEPT !.tries = @ + 1] /\ Keep
     ELSE Merged(Failed("ibkr_flex"), "file", FALSE)
SendAccepted == run.pc = "send" /\ run' = [run EXCEPT !.pc = "poll", !.tries = 0] /\ Keep
\* fetch_flex_xml: the statement is being generated.
PollGenerating ==
  /\ run.pc = "poll"
  /\ IF run.tries + 1 < PollAttempts
     THEN run' = [run EXCEPT !.tries = @ + 1] /\ Keep
     ELSE Merged(Failed("ibkr_flex"), "file", FALSE)
PollReady == run.pc = "poll" /\ \E form \in {"lots", "trades", "both"} : Merged(FlexSnapshot(Statement(form)), "file", TRUE)
\* _http_get gave up, or an answer that is not to be retried.
FlexDown == run.pc \in {"send", "poll"} /\ Merged(Failed("ibkr_flex"), "file", FALSE)

\* The user's export, from some day on.
ReadFile ==
  /\ run.pc = "file"
  /\ \E format \in {"csv", "ofx"}, from \in {0, today} :
       Merged(FileSnapshot(format, "roll", FileRows(format, from)), "save", from = 0)

\* save_store replaces the file in one step.
Save ==
  /\ run.pc = "save"
  /\ run' = Idle /\ silver' = run.store
  /\ told' = told \cup run.fed
  /\ fresh' = run.clean
  /\ UNCHANGED <<today, book, linked, cutover, cache, shown, runs>>
Crash == run # Idle /\ run' = Idle /\ Keep

\* get_realized_lots of the tax page: its file is written in place, only when it grew.
TaxPage ==
  /\ run = Idle
  /\ \E form \in {"lots", "trades", "both", "failed"}, torn \in BOOLEAN :
       LET new == IF form = "failed" THEN {} ELSE RealizedLots(Statement(form))
           merged == UnionLots(cache.lots, new)
           saves == Cardinality(merged) # Cardinality(cache.lots)
       IN /\ saves \/ (~torn /\ form # "failed")
          /\ cache' = [lots |-> IF saves THEN IF torn THEN {} ELSE merged ELSE cache.lots]
          /\ shown' = IF saves /\ torn THEN {} ELSE shown \cup new
  /\ UNCHANGED <<today, book, linked, cutover, run, silver, told, fresh, runs>>

-----------------------------------------------------------------------------
(* The world *)
\* A bound on when: between two ingestions, or between two calls of one.
Between == run = Idle \/ run.pc \in {"holdings", "activities"}
Moves == Between /\ fresh' = FALSE /\ run' = IF run = Idle THEN run ELSE [run EXCEPT !.clean = FALSE]
Happen(a, kind) ==
  /\ SumOver(Accounts, LAMBDA b : Len(book[b])) < MaxEvents
  /\ \A i \in DOMAIN book[a] : book[a][i].day < today
  /\ kind = "SELL" => HeldAt(a) >= 2
  /\ book' = [book EXCEPT ![a] = Append(@, Event(today, kind))]
  /\ Moves /\ UNCHANGED <<today, linked, cutover, silver, cache, told, shown, runs>>
NextDay ==
  /\ run = Idle   \* a bound: an ingestion ends the day it began
  /\ today < MaxDay /\ today' = today + 1
  /\ Moves /\ UNCHANGED <<book, linked, cutover, silver, cache, told, shown, runs>>
Link(a) ==
  /\ a \notin linked /\ linked' = linked \cup {a}
  /\ Moves /\ UNCHANGED <<today, book, cutover, silver, cache, told, shown, runs>>
\* The operator hands one account to Flex and the other from CSV files to OFX files,
\* between two ingestions.
CutOver ==
  /\ run = Idle /\ ~cutover /\ cutover' = TRUE
  /\ Moves /\ UNCHANGED <<today, book, linked, silver, cache, told, shown, runs>>

\* A dividend was reinvested in "roll", and stored as a purchase at the time.
Drip == Event(0, "REINVESTMENT")
Init ==
  /\ today = 1 /\ linked = {"ib"} /\ cutover = FALSE
  /\ book = [a \in Accounts |-> IF a = "roll" THEN <<Drip>> ELSE <<Event(0, "BUY")>>]
  /\ run = Idle
  /\ silver = [EmptyStore EXCEPT !.accounts = [a \in {"roll"} |-> 0], !.acts = {Activity("roll", Drip, "BUY")}]
  /\ cache = [lots |-> {}]
  /\ told = {<<"roll", 0>>} /\ shown = {} /\ fresh = FALSE /\ runs = 0

Ingestion ==
  Begin \/ GetAccounts \/ SnapTradeDown \/ GetHoldings \/ GetActivities \/ SendWarned \/ SendAccepted
  \/ PollGenerating \/ PollReady \/ FlexDown \/ ReadFile \/ Save \/ Crash
World == (\E a \in Accounts : \E kind \in Happenings[a] : Happen(a, kind)) \/ NextDay \/ Link("fid") \/ CutOver
Next == Ingestion \/ TaxPage \/ World
Spec == Init /\ [][Next]_vars

-----------------------------------------------------------------------------
(* Properties *)
\* A saved file keeps every event any saved run told it, of whatever source and however
\* often, exactly once; and the tax page every closed lot it ever showed.
EventsKeptOnce ==
  /\ \A who \in told : Cardinality({act \in silver.acts : <<act.acct, act.day>> = who}) = 1
  /\ TellsOf(silver.acts) \subseteq told
  /\ shown \subseteq cache.lots /\ cache.lots \subseteq Closings("ib")

Told(a) == {i \in DOMAIN book[a] : <<a, book[a][i].day>> \in told}
\* What was not told of an account, if anything, is the beginning of its history.
LaterTold(a) == \A i \in Told(a) : {j \in DOMAIN book[a] : j > i} \subseteq Told(a)
Exact(tranches, a) ==
  tranches.lots = {[acct |-> a, day |-> r.day, qty |-> r.qty, cost |-> r.cost] : r \in OpenParcels(a)}

\* After a run in which every call succeeded and during and after which nothing happened,
\* the reader says what the brokers would: the value and the holdings of any accounts; the
\* tranches whenever it calls them complete, which it does where the history was told, and
\* there the gains.  No snapshot breaks the contract unless something happened meanwhile.
ReaderIsTheBook ==
  /\ run # Idle /\ run.findings => ~run.clean
  /\ fresh =>
       /\ TotalNav(silver) = SumOver(linked, NavOf)
       /\ \A accts \in SUBSET linked :
            Aggregated(silver, accts) = [shares |-> SumOver(accts, HeldAt), cost |-> SumOver(accts, PaidFor),
                                         accounts |-> {a \in accts : HeldAt(a) > 0}]
       /\ cutover => {c \in Closings("ib") : c.close >= today - Window} \subseteq silver.lots
       /\ "fid" \in linked =>
            LET tranches == Tranches(silver, {"fid"})
                income == RealizedIncome(silver, {"fid"}, {})
                Profit(c) == c.proceeds - c.basis
                all == Told("fid") = DOMAIN book["fid"]
            IN /\ LaterTold("fid") /\ tranches.complete => Exact(tranches, "fid")
               /\ all => /\ tranches.complete /\ ~income.incomplete
                         /\ income.gains = SumOver(Closings("fid"), Profit)
                         /\ income.dividends = Cardinality({i \in DOMAIN book["fid"] : book["fid"][i].type = "DIVIDEND"})

\* A saved run changes nothing of an account whose owner did not answer.
RecordsOf(store, a) ==
  <<IF a \in DOMAIN store.accounts THEN store.accounts[a] ELSE None, {h \in store.holdings : h.acct = a},
    {act \in store.acts : act.acct = a}, {l \in store.lots : l.acct = a}>>
OutageKeepsLastGood ==
  [][silver' # silver =>
       \A a \in Accounts : OwnerOf(Policy, a) \notin run.took => RecordsOf(silver', a) = RecordsOf(silver, a)]_vars
=============================================================================
