------------------------------ MODULE MCDriver ------------------------------
(***************************************************************************)
(* Driver for TLC, in two scenarios that share one configuration: in one   *)
(* the jobs of a tick fail at will, in the other the application commits.  *)
(* Each keeps small what its properties do not depend on; one more, with   *)
(* both, would only be their product.                                      *)
(*                                                                         *)
(* One unit of time is a tick; every interval is as long as the ticks in   *)
(* which each job ahead of another fails twice and the other faults happen *)
(* (DriverProofs: LongIntervals).                                          *)
(***************************************************************************)
EXTENDS Driver

CONSTANT LogTicks   \* bound: ticks in the scenario in which the application commits

TwoLevels ==
  << [level |-> 0, interval |-> 0], [level |-> 1, interval |-> 8],
     [level |-> 2, interval |-> 16] >>

VARIABLE scenario

\* A reader of the application keeps a TRUNCATE from emptying the file, but no
\* checkpoint from copying the log (README: IdleIsQuiet).
CopiesAll ==
  pc = "pragma" /\ pc' \notin {"pragma", "idle"} => FullyFolded' \/ work'.folded = -1

JobsScenario == commits' = 0

\* The jobs leave the log alone: a commit between two of them is one after them.
LogScenario ==
  /\ now' <= Start + LogTicks
  /\ waiting' = [j \in Jobs |-> {}]
  /\ pc = "jobs" => commits' = commits
  /\ CopiesAll

MCInit == Init /\ scenario \in {"jobs", "log"}

MCNext ==
  /\ Next /\ UNCHANGED scenario
  /\ scenario = "jobs" => JobsScenario
  /\ scenario = "log" => LogScenario

MCSpec == MCInit /\ [][MCNext]_<<vars, scenario>>
=============================================================================
