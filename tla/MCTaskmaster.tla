---------------------------- MODULE MCTaskmaster -----------------------------
(* Values for the constants of Taskmaster.                                 *)
EXTENDS Supervision, TLC

CONSTANTS n1, n2, p1, p2, p3, f1, f2, f3

Daemonized == [cmd |-> "serve", autostart |-> TRUE, autorestart |-> "always",
               exitcodes |-> {0}, startretries |-> 2, starttime |-> 1,
               stoptime |-> 1]
Batch == [Daemonized EXCEPT !.autostart = FALSE, !.autorestart = "unexpected"]
OneShot == [Daemonized EXCEPT !.autorestart = "never", !.startretries = 1,
                              !.starttime = 0, !.stoptime = 0]

OneNameConfigs == {[Batch EXCEPT !.autostart = TRUE], [OneShot EXCEPT !.autostart = FALSE]}
OneNameFiles == [{n1} -> OneNameConfigs]

TwoConfigs == {OneShot, Daemonized}
OneNameTwoFiles == [{n1} -> TwoConfigs]

EagerConfigs == {OneShot, [Daemonized EXCEPT !.startretries = 1]}
OneNameEagerFiles == [{n1} -> EagerConfigs]

\* Two programs: one may leave the file while the other changes in it.
Quick == [Daemonized EXCEPT !.startretries = 1, !.stoptime = 0]
TwoNameConfigs == {Quick, OneShot}
TwoNameFiles ==
    {[n \in {n1, n2} |-> Quick],
     [n \in {n1, n2} |-> IF n = n1 THEN Quick ELSE OneShot],
     [n \in {n2} |-> Quick]}

Interchangeable == Permutations(Pids) \cup Permutations(Fds)
=============================================================================
