------------------------------ MODULE Scoring ------------------------------
(***************************************************************************)
(* The arithmetic of prompt scores                                         *)
(* (packages/prompt-core/src/scorer.ts and confidence.ts).  The code works *)
(* with floating-point weights and Math.round; here a score is a quotient  *)
(* of integers rounded half up, so a value that lies exactly between two   *)
(* integers may differ by one from a sum of binary fractions.              *)
(*                                                                         *)
(* Hits are what the rules found: how many hits of each severity.          *)
(***************************************************************************)
EXTENDS Integers

CONSTANT Null   \* a score that is not there (null)

ASSUME NullAssumption == Null \notin Int

Severities == 1..5
HitCounts == [Severities -> Nat]

Least(a, b) == IF a <= b THEN a ELSE b

\* Math.round of n / d, for d > 0.
Rounded(n, d) == (2 * n + d) \div (2 * d)

Weight == <<2, 5, 10, 18, 30>>

ComputeRuleScore(h) ==
  100 - Least(100, Weight[1] * h[1] + Weight[2] * h[2] + Weight[3] * h[3]
                   + Weight[4] * h[4] + Weight[5] * h[5])

\* SQL's MAX(severity), 0 when there is no hit.
MaxSeverity(h) == CHOOSE m \in 0..5 : /\ m = 0 \/ h[m] > 0
                                      /\ \A s \in Severities : h[s] > 0 => s <= m

PositiveBonus(format, criteria, example, path, words) ==
  Least(10, (IF format THEN 3 ELSE 0) + (IF criteria THEN 3 ELSE 0)
            + (IF example /\ words >= 40 THEN 2 ELSE 0) + (IF path THEN 2 ELSE 0))

(* The cap: one grave hit bounds the score whatever the rest says.         *)
CapFor(h) == CASE MaxSeverity(h) >= 5 -> 40
               [] MaxSeverity(h) = 4 -> 60
               [] MaxSeverity(h) < 4 /\ h[3] >= 2 -> 75
               [] OTHER -> 100

TierFor(score) == CASE score >= 90 -> "good"
                    [] score \in 70..89 -> "ok"
                    [] score \in 50..69 -> "weak"
                    [] OTHER -> "bad"

\* The weighted mix in tenths; a score that is missing leaves its weight to the others.
Mix(rule, usage, judge) ==
  CASE judge # Null /\ usage # Null -> 5 * rule + 3 * usage + 2 * judge
    [] judge # Null /\ usage = Null -> 6 * rule + 4 * judge
    [] judge = Null /\ usage # Null -> 7 * rule + 3 * usage
    [] OTHER -> 10 * rule

ComposeFinalScore(rule, usage, judge, bonus, cap) ==
  Rounded(Least(Least(1000, Mix(rule, usage, judge) + 10 * bonus), 10 * cap), 10)

(* How well a prompt was used: fewer failures, tool calls and follow-ups.  *)
ToolEconomy(calls) == CASE calls <= 0 -> 100 [] calls \in 1..3 -> 90 [] calls \in 4..8 -> 75
                        [] calls \in 9..15 -> 50 [] OTHER -> 25

FollowUp(depth) == CASE depth <= 1 -> 100 [] depth = 2 -> 70 [] depth = 3 -> 40 [] OTHER -> 20

\* A turn: did the first shot succeed, its tool calls, its follow-ups.  Null
\* when the transcript says nothing of the turn.
EfficiencyScore(turn) ==
  IF turn = Null THEN Null
  ELSE Least(100, Rounded(600 * turn.first + 3 * ToolEconomy(turn.calls) + FollowUp(turn.depth), 10))

\* Mutant: a component that is missing counts as a neutral 75.
UsageScoreMutant(m) ==
  LET eff == EfficiencyScore(m.turn)
      votes == m.ups + m.downs
  IN IF m.calls = 0 /\ m.reuse = 0 /\ votes = 0 /\ eff = Null THEN Null
     ELSE LET k == IF m.calls = 0 THEN 1 ELSE m.calls
              v == IF votes = 0 THEN 4 ELSE votes
          IN Rounded(25 * 100 * (k - m.fails) * v + 20 * (100 - 20 * Least(5, m.reuse)) * k * v
                     + 25 * 100 * (IF votes = 0 THEN 3 ELSE m.ups) * k
                     + 20 * (IF eff = Null THEN 75 ELSE eff) * k * v, 90 * k * v)

\* The weighted mean of what there is to judge by, over a common denominator.
UsageScore(m) ==
  LET eff == EfficiencyScore(m.turn)
      votes == m.ups + m.downs
      k == IF m.calls = 0 THEN 1 ELSE m.calls
      v == IF votes = 0 THEN 1 ELSE votes
      fails == IF m.calls = 0 THEN 0 ELSE m.fails
      weight == 45 + (IF votes = 0 THEN 0 ELSE 25) + (IF eff = Null THEN 0 ELSE 20)
      total == 25 * 100 * (k - fails) * v
             + 20 * (100 - 20 * Least(5, m.reuse)) * k * v
             + (IF votes = 0 THEN 0 ELSE 25 * 100 * m.ups * k)
             + (IF eff = Null THEN 0 ELSE 20 * eff * k * v)
  IN IF m.calls = 0 /\ m.reuse = 0 /\ votes = 0 /\ eff = Null THEN Null
     ELSE Rounded(total, weight * k * v)

(* What the system thinks of its own score.  delta is the distance from    *)
(* the user's baseline, Null while there is no baseline.                   *)
ComputeConfidence(max, usage, judge, delta) ==
  LET judged == usage # Null \/ judge # Null
      drift == delta # Null /\ (delta > 25 \/ delta < -25)
  IN CASE drift \/ (max <= 1 /\ ~judged) -> "low"
       [] ~drift /\ judged /\ max >= 3 -> "high"
       [] ~drift /\ usage # Null /\ max = 0 -> "high"
       [] OTHER -> "medium"
=============================================================================
