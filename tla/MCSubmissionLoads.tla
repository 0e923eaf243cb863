------------------------- MODULE MCSubmissionLoads -------------------------
(* SubmissionLoads on the small instances of MCSubmissions.                *)
EXTENDS MCSubmissions, SubmissionLoads

\* Bounds: two actors overlap (two requests, or a request and the task), and
\* then papers stay as they are; otherwise one paper is withdrawn at a time,
\* and one is edited.
AtMostTwoBusy == Cardinality({a \in Actors : Busy(a)}) <= 2
FewPaperEvents ==
  /\ Cardinality({p \in Papers : ~available[p]}) <= 1
  /\ Cardinality({p \in Papers : version[p] > 0}) <= 1

MCNext ==
  /\ LoadNext
  /\ FewPaperEvents'
  /\ ~Serially => UNCHANGED <<version, available>> /\ AtMostTwoBusy'

MCSpec == LoadInit /\ [][MCNext]_loadVars
=============================================================================
