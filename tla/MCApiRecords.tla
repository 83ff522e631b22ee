---------------------------- MODULE MCApiRecords ----------------------------
(***************************************************************************)
(* A credit that is issued through the API, minted by others and retired   *)
(* through the API or without it; transactions that succeed and fail;      *)
(* overlapping requests, and a read beside them.                           *)
(***************************************************************************)
EXTENDS ApiRecords, TLC

CONSTANTS c1, ad, buyer

MCCalls ==
  {[method |-> "submit_credit", credit |-> c1, account |-> ad],
   [method |-> "retire", credit |-> c1, account |-> ad]}

MCInitialStatus == (c1 :> None)
=============================================================================
