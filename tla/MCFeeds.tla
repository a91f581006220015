------------------------------- MODULE MCFeeds -------------------------------
(* An instance of Feeds: trades and a reinvestment where SnapTrade alone looks, a *)
(* disposal and a dividend where two sources do; the account of the files has its *)
(* one reinvestment.                                                              *)
EXTENDS Feeds

MCHappenings ==
  [a \in Accounts |->
     CASE a = "ib"  -> {"SELL", "DIVIDEND"}
       [] a = "fid" -> {"SELL", "REINVESTMENT"}
       [] OTHER     -> {}]
==============================================================================
