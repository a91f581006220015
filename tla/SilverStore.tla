----------------------------- MODULE SilverStore -----------------------------
(* The silver store (ingestion/store.py): how the records of a connector are     *)
(* filtered by ownership and merged, and what is read back from it: net asset    *)
(* value, holdings, tranches (broker_io/transactions.py) and realized income     *)
(* (broker_io/realized_income.py), of one security.                              *)
EXTENDS Connectors, TLC

SumOver(S, F(_)) == MapThenSumSet(F, S)

-----------------------------------------------------------------------------
(* Ownership *)
OwnerOf(policy, a) ==
  IF \E s \in DOMAIN policy.explicit : a \in policy.explicit[s]
  THEN CHOOSE s \in DOMAIN policy.explicit : a \in policy.explicit[s]
  ELSE policy.default

\* Mutant of FilterOwned: every record of the snapshot is merged.
Unfiltered(snap, policy) == snap
FilterOwned(snap, policy) ==
  LET Mine(records) == {r \in records : OwnerOf(policy, r.acct) = snap.source}
  IN [snap EXCEPT !.nav = Restrict(@, {a \in DOMAIN @ : OwnerOf(policy, a) = snap.source}),
                  !.holdings = Mine(@), !.acts = Mine(@), !.lots = Mine(@)]

-----------------------------------------------------------------------------
(* Merge: accounts and holdings are replaced, events are united. *)
EmptyStore == [accounts |-> [a \in {} |-> 0], holdings |-> {}, acts |-> {}, lots |-> {}]

\* Mutant of Upgraded: the purchase a reinvestment was stored as stays.
NeverUpgraded(held, act) == held
Upgraded(held, act) ==
  IF act.type = "REINVESTMENT" /\ Key(act) \notin KeysOf(held)
  THEN {h \in held : Key(h) # LegacyKey(act)} ELSE held
WithActivity(held, act) ==
  LET kept == Upgraded(held, act) IN IF Key(act) \in KeysOf(kept) THEN kept ELSE kept \cup {act}

LotKey(l) == <<l.acct, l.open, l.close, l.qty, l.proceeds>>
UnionLots(held, new) == held \cup {l \in new : LotKey(l) \notin {LotKey(h) : h \in held}}

\* Mutant of Merge: holdings are united like events.
MergeUnion(store, snap) ==
  LET Add(act, held) == WithActivity(held, act)
  IN [accounts |-> snap.nav @@ store.accounts, holdings |-> store.holdings \cup snap.holdings,
      acts |-> FoldSet(Add, store.acts, snap.acts), lots |-> UnionLots(store.lots, snap.lots)]
\* Every account of the snapshot gets its holdings anew; those of an account it does not
\* list are dropped.
Merge(store, snap) ==
  LET listed == DOMAIN snap.nav
      Add(act, held) == WithActivity(held, act)
  IN [accounts |-> snap.nav @@ store.accounts,
      holdings |-> {h \in store.holdings : h.acct \notin listed} \cup {h \in snap.holdings : h.acct \in listed},
      acts     |-> FoldSet(Add, store.acts, snap.acts),
      lots     |-> UnionLots(store.lots, snap.lots)]

\* One connector of ingest: a failed one leaves the last good records.
Ingest(store, snap, policy) ==
  IF "error" \in DOMAIN snap THEN store ELSE Merge(store, FilterOwned(snap, policy))

-----------------------------------------------------------------------------
(* The reader *)
TotalNav(store) == LET Nav(a) == store.accounts[a] IN SumOver(DOMAIN store.accounts, Nav)
\* aggregate_holdings
Aggregated(store, accts) ==
  LET of == {h \in store.holdings : h.acct \in accts}
      Qty(h) == h.qty
      Paid(h) == h.basis
  IN [shares |-> SumOver(of, Qty), cost |-> SumOver(of, Paid), accounts |-> {h.acct : h \in of}]

\* group_transactions_by_account_ticker: what the replay of an account is given.
Group(store, a) ==
  LET of == {act \in store.acts : act.acct = a /\ act.type # "INTEREST"}
      Before(x, y) == x.day < y.day
  IN SetToSortSeq(of, Before)
Groups(store, accts) == {a \in accts : Group(store, a) # <<>>}
Replays(store, accts) == [a \in Groups(store, accts) |-> BuildLedger(Group(store, a))]
Raised(led) == {a \in DOMAIN led : led[a].raised}

\* The tranches are complete when something was replayed, nothing raised, and they add
\* up to what is held.
Verdict(groups, raised, residual) == groups # {} /\ raised = {} /\ residual = 0

Tranches(store, accts) ==
  LET led == Replays(store, accts)
      fine == DOMAIN led \ Raised(led)
      open(a) == Shares(led[a].lots)
      residual == Aggregated(store, accts).shares - SumOver(fine, open)
  IN [lots |-> {[acct |-> a, day |-> led[a].lots[i].day, qty |-> led[a].lots[i].qty, cost |-> led[a].lots[i].cost] :
                  <<a, i>> \in {<<b, j>> \in fine \X (1 .. Cardinality(store.acts)) : j \in DOMAIN led[b].lots}},
      residual |-> residual,
      complete |-> Verdict(DOMAIN led, Raised(led), residual)]

\* build_realized_income: gains of the replays and of the lots the broker states, and the
\* dividends, by year; with one year, their sums.
RealizedIncome(store, accts, extra) ==
  LET led == Replays(store, accts)
      fine == DOMAIN led \ Raised(led)
      pays == {act \in store.acts : act.acct \in accts /\ act.type = "DIVIDEND"}
      FifoGain(a) == Total([i \in DOMAIN led[a].realized |-> GainOf(led[a].realized[i])])
      Amount(act) == act.amount
      Stated(l) == l.proceeds - l.basis
  IN [gains |-> SumOver(fine, FifoGain) + SumOver(extra, Stated),
      dividends |-> SumOver(pays, Amount),
      incomplete |-> Raised(led) # {}]
=============================================================================
