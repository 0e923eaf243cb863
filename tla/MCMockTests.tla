---------------------------- MODULE MCMockTests ----------------------------
(***************************************************************************)
(* Instances of MockTests for TLC.                                         *)
(***************************************************************************)
EXTENDS MockTests

\* Edits overlap while a change of the status is alone; a test is built,
\* rescored, published and cloned one request at a time, while branches are
\* deleted; and there are moves, within a test and into another.
MCWorkloads ==
  { [kinds |-> {"rescore", "remove", "publish"}, alone |-> {"publish"}],
    [kinds |-> {"add", "retitle", "retotal", "publish"}, alone |-> {"publish"}],
    [kinds |-> {"add", "rescore", "remove", "patch", "clone"}, alone |-> Kinds],
    [kinds |-> {"add", "move", "discard"}, alone |-> Kinds],
    [kinds |-> {"new", "move", "discard"}, alone |-> Kinds] }

\* One request at a time, with moves.
MCAlone == {[kinds |-> {"new", "add", "move", "publish", "remove"}, alone |-> Kinds]}
=============================================================================
