--------------------------- MODULE MCPromptQueue ---------------------------
(* Values for TLC.  A prompt with two hits of severity 3 is capped at 75;  *)
(* its score lies far enough from the user's average to be doubtful, so it *)
(* is judged; the judge may lift it over the cap or not.                   *)
EXTENDS PromptQueue

MCHits == {<<0, 0, 2, 0, 0>>}
MCUsageScores == {Null, 90}
MCJudgeScores == {20, 100}
MCAverages == {40}
=============================================================================
