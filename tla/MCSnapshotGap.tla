---------------------------- MODULE MCSnapshotGap ------------------------------
(* Two accounts with one share that trades, one fund and one leg without closes. *)
EXTENDS SnapshotGap

\* The instance satisfies the hypothesis of EstimatesFlagged.
ASSUME FreshShares == SharesCloseEverySession

Plain == [sessions |-> {1, 2, 4, 5}, closes |-> [x |-> {1, 2, 4, 5}, f |-> {1, 2, 4, 5}, b |-> {}],
          moved |-> [x |-> 0, f |-> 0, b |-> 0], weight |-> [x |-> 70, f |-> 5, b |-> 10],
          rated |-> [x |-> 1, f |-> 1, b |-> 1], proxied |-> [x |-> {}, f |-> {}, b |-> {1, 2, 4, 5}],
          supplied |-> [x |-> {}, f |-> {}, b |-> {2}], steps |-> [x |-> {}, f |-> {}, b |-> {}],
          adjusted |-> {}, start |-> [x |-> 100, f |-> 10, b |-> 10], foreign |-> {}, miss |-> 1]

AFewMarkets ==
  {[Plain EXCEPT !.moved["b"] = 8, !.miss = 15],                    \* a broker's price moved
   [Plain EXCEPT !.closes["f"] = {1, 4, 5}, !.supplied["b"] = {}],  \* a fund's close is missing
   [Plain EXCEPT !.foreign = {"x"}, !.closes["x"] = {1, 2, 5}, !.supplied["b"] = {}],  \* a holiday
   [Plain EXCEPT !.start["x"] = 1, !.steps["x"] = {3}, !.supplied["b"] = {}]}

Off == [aware |-> FALSE, carry |-> FALSE, bridge |-> FALSE, operator |-> FALSE, estimate |-> FALSE,
        accounts |-> FALSE, anchor |-> FALSE, restate |-> FALSE, only |-> {"a1", "a2", "p"}]

SomeSettings ==
  {Off,
   [Off EXCEPT !.aware = TRUE, !.restate = TRUE],
   [Off EXCEPT !.aware = TRUE, !.carry = TRUE, !.only = {"a1", "a2"}],
   [Off EXCEPT !.accounts = TRUE, !.restate = TRUE, !.only = {"p"}],
   [Off EXCEPT !.aware = TRUE, !.accounts = TRUE, !.estimate = TRUE, !.anchor = TRUE],
   [Off EXCEPT !.bridge = TRUE, !.operator = TRUE, !.anchor = TRUE]}

SomePresent ==
  {[a1 |-> {1, 5} \cup p[1], a2 |-> {1, 5} \cup p[2], p |-> {1, 5} \cup p[3]] :
     p \in {<<{4}, {2}, {3}>>, <<{2, 3, 4}, {2, 3, 4}, {}>>}}

SomeHistories ==
  {[a1 |-> h[1], a2 |-> h[2]] : h \in {<<{}, {3}>>, <<{2, 4}, {3}>>}}
================================================================================
