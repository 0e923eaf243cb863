--------------------------- MODULE MCSubmissions ---------------------------
(* Small instances of Submissions: what exists in each of them.            *)
EXTENDS Submissions, TLC

CONSTANTS e1, h1, m1, m2, z1

\* One exam on a mock test, one homework with a quiz and the same mock test.
MCItems      == [h \in Homeworks |-> {z1, m1} \cap Papers]
MCFirstPaper == [e \in Exams |-> m1]
MCTimed      == Papers

Symmetry == Permutations(Requests) \cup Permutations(Answers)
                                    \cup Permutations(RowIds)
=============================================================================
