--------------------------- MODULE MCLogCollector ---------------------------
(***************************************************************************)
(* Instances of LogCollector for TLC.                                      *)
(***************************************************************************)
EXTENDS LogCollector

CONSTANTS s1, j1

\* One server, two runs of one job: a listing holds several files.
OneServerOf == [j \in Jobs |-> s1]
FirstJobOf == [r \in Runs |-> j1]

=============================================================================
