----------------------------- MODULE MCGrading -----------------------------
(***************************************************************************)
(* Instances of Grading for TLC: papers of three or four questions, each   *)
(* the only one of its section, worth enough to stand for all of it.       *)
(***************************************************************************)
EXTENDS Grading, TLC

CONSTANTS v, g, l, x

Asked(place, type, score, key) ==
  [place |-> place, type |-> type, score |-> score, key |-> key]

Test(level, at, first, second, listening, extra) ==
  [kind |-> "mock_test", at |-> at, level |-> level,
   questions |-> v :> first @@ g :> second @@ l :> listening @@ x :> extra]

Vocab(score)     == Asked("there", "VOCAB", score, 0)
Reads(score)     == Asked("there", "GRAMMAR_READING", score, 1)
Listening(score) == Asked("there", "LISTENING", score, 0)
Written(score)   == Asked("there", "FULL_WRITTEN", score, 1)
Later            == Asked("new", "LISTENING", 18, 0)
Keyless          == Asked("there", "VOCAB", 60, None)

\* At the pass marks and at the minimum of each area.
MCPapers ==
  { Test("N1", "exam", Vocab(60), Reads(38), Listening(18), Later),
    Test("N2", "homework", Written(60), Reads(18), Listening(19), Keyless),
    Test("N3", "homework", Vocab(60), Reads(60), Listening(60), Later),
    Test("N4", "homework", Written(60), Reads(38), Listening(19), Later),
    Test("N5", "exam", Vocab(18), Reads(60), Listening(60), Keyless),
    [Test("N1", "homework", Vocab(1), Vocab(18), Keyless, Later) EXCEPT !.kind = "quiz"] }
=============================================================================
