----------------------------- MODULE MCWebCron ------------------------------
(***************************************************************************)
(* Instances of WebCron for TLC.                                           *)
(***************************************************************************)
EXTENDS WebCron, TLC

CONSTANTS s1, s2, j1, g1, g2

\* The second server belongs to another organization.
TwoOrgs == [s \in Servers |-> IF s = s2 THEN g2 ELSE g1]
OneRun == [r \in Runs |-> <<j1, s1>>]

\* One failure in all, but for saves.
OneFailure == faults + passFaults > 0 =>
                \/ UNCHANGED <<faults, passFaults>>
                \/ \E p \in Passes : Collector!SaveFails(p)

\* The servers have a crontab, and the second is not deleted.
MCSpec == /\ WebInit /\ hasCrontab = Servers
          /\ [][WebNext /\ OneFailure /\ delete'[s2] = "no"]_webVars

=============================================================================
