---------------------------- MODULE MCDailyReport ----------------------------
(* A small instance of DailyReport.                                        *)
EXTENDS DailyReport, TLC

\* The requests are alike, and so are the app instances.
Alike == Permutations(Slots) \cup Permutations(Instances)
=============================================================================
