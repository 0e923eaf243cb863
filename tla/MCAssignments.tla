--------------------------- MODULE MCAssignments ---------------------------
(***************************************************************************)
(* Instances of Assignments for TLC.                                       *)
(***************************************************************************)
EXTENDS Assignments

CONSTANTS g1, g2, s1, s2, k1

MCTeaches  == [k \in Teachers |-> {g1}]
MCEnrolled == {<<g1, s1>>, <<g2, s2>>}

MCAlone == {"exam", "homework", "join", "publish", "grade", "alerts"}

\* An exam is edited by overlapping requests while members leave; everything
\* that sends notices runs one by one, some of it killed half way.
MCTraffic ==
  { [kinds |-> {"exam", "reword", "leave"}, alone |-> {}, faults |-> 0],
    [kinds |-> {"exam", "regroup", "join", "approve"}, alone |-> MCAlone, faults |-> 1],
    [kinds |-> {"exam", "publish", "join", "leave"}, alone |-> MCAlone, faults |-> 0],
    [kinds |-> {"homework", "reword"}, alone |-> MCAlone, faults |-> 0],
    [kinds |-> {"homework", "regroup"}, alone |-> MCAlone, faults |-> 0],
    [kinds |-> {"homework", "alerts"}, alone |-> MCAlone, faults |-> 0],
    [kinds |-> {"grade", "alerts", "leave", "dissolve"}, alone |-> MCAlone, faults |-> 1],
    [kinds |-> {"exam", "alerts", "dissolve"}, alone |-> MCAlone, faults |-> 1] }

\* Two edits of the homework overlap.
MCOverlap == {[kinds |-> {"homework", "regroup"}, alone |-> {}, faults |-> 0]}
=============================================================================
