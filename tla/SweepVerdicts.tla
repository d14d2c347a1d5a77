--------------------------- MODULE SweepVerdicts ---------------------------
(***************************************************************************)
(* What run_exploration.py promises of a sweep, whatever the number of     *)
(* workers, launches and crashes: every design point gets at most one      *)
(* verdict, the one its simulation deserves, and keeps it.                 *)
(***************************************************************************)
EXTENDS Naturals

CONSTANT NumJobs

Jobs == 1..NumJobs

(* What one run of ./destiny and the reading of its CSV file come to:       *)
(* usable rows; a nonzero exit status; no file; a file without usable rows; *)
(* a file pandas cannot parse.                                              *)
Outcomes == {"good", "exit", "missing", "useless", "unreadable"}

VARIABLES outcome, verdict

Init ==
  /\ outcome \in [Jobs -> Outcomes]
  /\ verdict = [j \in Jobs |-> "none"]

(* A file that cannot be parsed raises an exception and decides nothing.    *)
Decide(j) ==
  /\ verdict[j] = "none" /\ outcome[j] # "unreadable"
  /\ verdict' = [verdict EXCEPT ![j] =
                   IF outcome[j] = "good" THEN "valid" ELSE "failed"]
  /\ UNCHANGED outcome

Next == \E j \in Jobs : Decide(j)

Spec == Init /\ [][Next]_<<outcome, verdict>>
=============================================================================
