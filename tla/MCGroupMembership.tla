------------------------- MODULE MCGroupMembership -------------------------
(* Small instances of GroupMembership.                                     *)
EXTENDS GroupMembership, TLC

\* Everything overlaps with everything.
MixedTraffic  == [kinds |-> Kinds, alone |-> {},
                  limits |-> {1}, aborts |-> TRUE]
\* Bulk adds overlap and are killed, removals come one at a time.
BulkTraffic   == [kinds |-> {"bulk", "remove", "delete"}, alone |-> {"remove"},
                  limits |-> {1, 2}, aborts |-> TRUE]
\* Bulk adds overlap, every other change comes one at a time.
SerialTraffic == [kinds |-> Kinds, alone |-> {"add", "remove", "patch"},
                  limits |-> {1, 2}, aborts |-> FALSE]
\* As BulkTraffic with removals that overlap: it breaks RoomForAll.
HastyTraffic  == [BulkTraffic EXCEPT !.alone = {}]

MCTraffic    == {MixedTraffic, BulkTraffic, SerialTraffic}
MCHasty      == {HastyTraffic}
Symmetry == Permutations(Students) \cup Permutations(Teachers)
                                   \cup Permutations(Requests)

\* NoOverfill without its premise.
RoomForAll == Enrolled <= group.max
=============================================================================
