--------------------------- MODULE MCFrontendPages ---------------------------
(***************************************************************************)
(* Two accounts that sign in and out and switch, one an administrator; the *)
(* pages in groups that share what they keep, and two loads that overlap.  *)
(***************************************************************************)
EXTENDS FrontendPages, TLC

MCTours == {{"dashboard"}, {"marketplace"}, {"project", "credit", "retire"}, {"admin"}}
=============================================================================
