------------------------ MODULE MCRealizationObserver ------------------------
(* Activity streams for TLC. *)
EXTENDS RealizationObserver

CONSTANTS g, u  \* a derivation of the graph and one outside it

Success(state, out) == [success |-> TRUE, state |-> state, outputs |-> out]
Failure == [success |-> FALSE, state |-> "Failed", outputs |-> "unusable"]

Starts(ids, kinds, drvs, parent) ==
  [action : {"start"}, id : ids, kind : kinds, subject : drvs, parent : {parent}]
Ends(ids) == [action : {"stop", "log"}, id : ids]
Results(drvs, reports) == [action : {"result"}, drv : drvs, report : reports]

\* A success, a contradicting one, an unknown status, a failure.
AllReports ==
  {Success("Built", "own"), Success("Substituted", "alien"), Success("Odd", "own"), Failure}

Stops(ids) == [action : {"stop"}, id : ids]
OneBuild == Starts({1}, {"build"}, {g}, 0) \cup Stops({1}) \cup Results({g}, AllReports)
TwoBuilds ==
  Starts({1}, {"build"}, {g, u}, 0) \cup Starts({1}, {"remote"}, {g}, 0) \cup Stops({1})
  \cup Results({u}, {Success("Built", "own"), Success("Substituted", "alien")})
\* Two ids, and a transfer below a build.
Restarts ==
  Starts({1, 2}, {"build"}, {u}, 0) \cup Starts({2}, {"transfer"}, {u}, 1)
  \cup Ends({1}) \cup Stops({2})
  \cup Results({u}, {Success("Built", "own")})
AllStreams == {OneBuild, TwoBuilds, Restarts}

Contradictions ==
  {Starts({1}, {"build"}, {g}, 0) \cup Ends({1})
   \cup Results({g}, {Success("Built", "own"), Success("Built", "alien")})}
==============================================================================
