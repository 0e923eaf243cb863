---------------------------- MODULE MCMediaFiles ----------------------------
(***************************************************************************)
(* Instances of MediaFiles for TLC.                                        *)
(***************************************************************************)
EXTENDS MediaFiles, TLC

CONSTANTS u1, u2, c1, m1, m2, n1, n2, n3

\* Requests, materials and the names not used yet are alike.
Alike == Permutations(Requests) \cup Permutations(Materials) \cup Permutations(Names \ {n1})

MCFirstFile == [r \in {u1, u2, c1} |-> IF r = u1 THEN n1 ELSE None]

\* The avatars are served one request at a time, next to materials that are
\* edited by overlapping requests, or next to one another, with a failure.
MCTraffic ==
  { [ops |-> {"replace", "profile", "create"}, local |-> {},
     alone |-> {"avatars", "center_avatars"}, faults |-> 0],
    [ops |-> {"upload", "replace", "profile", "touch", "purge"}, local |-> {u1, u2},
     alone |-> {"avatars", "center_avatars"}, faults |-> 1],
    [ops |-> {"upload", "replace", "touch", "dismiss", "purge"}, local |-> {u1},
     alone |-> {"avatars", "center_avatars"}, faults |-> 1],
    [ops |-> {"create", "profile", "clone"}, local |-> {},
     alone |-> {"avatars", "center_avatars"}, faults |-> 1] }

\* Requests on the avatars of the same folder overlap.
MCOverlap == {[ops |-> {"upload"}, alone |-> {}, local |-> {}, faults |-> 0]}

\* One by one, and without failures: a center is deleted that has deleted users.
MCDismissed == {[ops |-> {"upload", "dismiss", "purge"}, local |-> {u1},
                 alone |-> {"avatars", "center_avatars"}, faults |-> 0]}
=============================================================================
