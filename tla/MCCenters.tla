----------------------------- MODULE MCCenters -----------------------------
(***************************************************************************)
(* Instances of Centers and ContactRequests for TLC.                       *)
(***************************************************************************)
EXTENDS ContactRequests

\* Centers are made, edited and removed, all at once or deletions one by one;
\* trials and plans with sweeps, failing or not; and everything one by one.
\* Contact requests are left and answered, without a center changing.
CenterKinds == {"create", "patch", "status", "plan", "delete", "sweep"}

CenterLoads ==
  { [kinds |-> {"create", "patch", "delete"}, alone |-> {}, faults |-> 0],
    [kinds |-> {"create", "patch", "delete"}, alone |-> {"delete"}, faults |-> 0],
    [kinds |-> {"create", "plan", "delete", "sweep"},
     alone |-> {"delete", "plan", "sweep"}, faults |-> 0],
    [kinds |-> {"create", "plan", "delete", "sweep"}, alone |-> {"create", "plan", "delete"}, faults |-> 1],
    [kinds |-> CenterKinds, alone |-> CenterKinds, faults |-> 0] }

ContactLoads ==
  { [kinds |-> {"contact", "answer", "dismiss"}, alone |-> {"contact"}, faults |-> 0],
    [kinds |-> {"contact", "answer", "reopen"}, alone |-> {}, faults |-> 0] }

Probed(load, found) ==
  [kinds |-> load.kinds, alone |-> load.alone, faults |-> load.faults, probe |-> found]

\* With the probe as it is deployed, and with one that finds its table.
MCTraffic ==
  {Probed(load, found) : load \in CenterLoads, found \in BOOLEAN}
    \cup {Probed(load, FALSE) : load \in ContactLoads}

\* Centers are made and removed, as deployed.
MCDeployed == {Probed([kinds |-> {"create", "delete"}, alone |-> {"delete"}, faults |-> 0], FALSE)}
\* Sweeps and changes of plans overlap.
MCOverlap == {Probed([kinds |-> {"create", "plan", "sweep"}, alone |-> {}, faults |-> 0], FALSE)}
\* Visitors overlap.
MCVisitors == {Probed([kinds |-> {"contact", "answer", "dismiss"}, alone |-> {}, faults |-> 0], FALSE)}
=============================================================================
