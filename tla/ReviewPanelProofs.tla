-------------------------- MODULE ReviewPanelProofs -------------------------
(***************************************************************************)
(* Theorems about ReviewPanel: what two models must agree on before a      *)
(* question is answered without a human, and which doubts a verdict must   *)
(* show.  Both are properties of models, while the code counts seats: they *)
(* rest on the lemma that the votes kept are of different models.          *)
(***************************************************************************)
EXTENDS ReviewPanel, FiniteSetTheorems, TLAPS

\* The panel has finitely many seats, in a row: Roster is a list.
RosterIsAList == \E n \in Nat : Seats = 1..n

\* Two seats a model answered are never both kept.
LEMMA OneVoteAModel ==
  ASSUME RosterIsAList, NEW s \in Seats, NEW p \in Seats, Kept(s), Kept(p),
         said[s].model = said[p].model
  PROVE  s = p
<1>1. s \in Nat /\ p \in Nat /\ s >= 1 /\ p >= 1
  BY DEF RosterIsAList
<1>2. CASE s < p
  <2>1. s \in 1..(p - 1)
    BY <1>1, <1>2
  <2> QED
    BY <2>1 DEF Kept
<1>3. CASE p < s
  <2>1. p \in 1..(s - 1)
    BY <1>1, <1>3
  <2> QED
    BY <2>1 DEF Kept
<1> QED
  BY <1>1, <1>2, <1>3

\* As many models stand behind a group of votes as there are votes in it.
LEMMA ModelsAreVotes ==
  ASSUME RosterIsAList, NEW group \in SUBSET Voters
  PROVE  /\ IsFiniteSet(group) /\ Cardinality(group) \in Nat
         /\ Cardinality(ModelsOf(group)) = Cardinality(group)
<1>1. IsFiniteSet(Seats)
  BY FS_Interval DEF RosterIsAList
<1>2. IsFiniteSet(group)
  BY <1>1, FS_Subset DEF Voters
<1> DEFINE f == [s \in group |-> said[s].model]
<1>3. f \in Bijection(group, ModelsOf(group))
  <2>1. f \in [group -> ModelsOf(group)]
    BY DEF ModelsOf
  <2>2. \A m \in ModelsOf(group) : \E s \in group : f[s] = m
    BY DEF ModelsOf
  <2>3. \A s, p \in group : f[s] = f[p] => s = p
    BY OneVoteAModel DEF Voters
  <2> QED
    BY <2>1, <2>2, <2>3 DEF Bijection, Injection, Surjection, IsInjective
<1>4. ExistsBijection(group, ModelsOf(group))
  BY <1>3 DEF ExistsBijection
<1> QED
  BY <1>2, <1>4, FS_Bijection, FS_CardinalityType

-----------------------------------------------------------------------------
(***************************************************************************)
(* Decisions.  What is adopted is a group of votes that carries.           *)
(***************************************************************************)
Adopts(group, author) ==
  /\ group \in SUBSET Voters
  /\ Carries(group)
  /\ author \in group
  /\ Irreversible(author) => group = Voters
  /\ outcome = [stage |-> "decided", author |-> author, group |-> group]

DecisionIsSound ==
  kind = "decision" =>
    /\ phase \in {"seats", "tiebreak", "over"}
    /\ phase = "over" => outcome = Failed \/ \E group, author : Adopts(group, author)

Adopted(group, author) ==
  /\ author \in group
  /\ Irreversible(author) => group = Voters
  /\ outcome' = [stage |-> "decided", author |-> author, group |-> group]

LEMMA SettlesAdopts ==
  ASSUME NEW group, Settles(group)
  PROVE  outcome' = Failed \/ \E author : Adopted(group, author)
BY DEF Settles, Applied, Adopted

LEMMA WinnerVotes == Winner \in SUBSET Voters
<1> DEFINE keys == {said[s].content.choice : s \in Voters}
           size(key) == Cardinality(Group(key))
           key == CHOOSE k \in keys : \A l \in keys : size(k) >= size(l)
<1>1. Winner = IF keys = {} THEN {} ELSE Group(key)
  BY DEF Winner
<1> HIDE DEF key, keys
<1> QED
  BY <1>1 DEF Group

LEMMA NextDecides ==
  ASSUME DecisionIsSound, [Next]_vars
  PROVE  DecisionIsSound'
<1> SUFFICES ASSUME kind' = "decision" PROVE DecisionIsSound'
  BY DEF DecisionIsSound
<1>1. kind' = kind
  BY DEF Next, vars, SeatFails, SeatAnswers, Resolve, Tiebreak, GateRules, GateIsSilent,
         Inconclusive, LastSeatRules, Merge, CheckPage
<1>2. phase \in {"seats", "tiebreak", "over"}
  BY <1>1 DEF DecisionIsSound
<1>3. CASE UNCHANGED vars
  BY <1>3 DEF vars, DecisionIsSound, Adopts, Voters, Kept, Answered, Carries, Irreversible, Failed
<1>4. ASSUME phase' = "over", UNCHANGED <<grave, said>>,
             NEW group \in SUBSET Voters,
             outcome' = Failed \/ (Carries(group) /\ Settles(group))
      PROVE  DecisionIsSound'
  <2>1. CASE outcome' = Failed
    BY <1>4, <2>1 DEF DecisionIsSound, Failed
  <2>2. ASSUME NEW author, Adopted(group, author), Carries(group) PROVE Adopts(group, author)'
    <3>1. Voters' = Voters
      BY <1>4 DEF Voters, Kept, Answered
    <3>2. Irreversible(author)' = Irreversible(author)
      BY <1>4 DEF Irreversible
    <3>3. Carries(group)'
      BY <2>2, <3>1 DEF Carries
    <3> QED
      BY <1>4, <2>2, <3>1, <3>2, <3>3 DEF Adopts, Adopted
  <2> QED
    BY <1>4, <2>1, <2>2, SettlesAdopts DEF DecisionIsSound
<1>5. CASE \E s \in Seats : SeatFails(s) \/ \E content \in Contents : SeatAnswers(s, content)
  <2>1. phase' = "seats"
    BY <1>5 DEF SeatFails, SeatAnswers
  <2> QED
    BY <2>1 DEF DecisionIsSound
<1>6. CASE Resolve
  <2>1. CASE phase' = "tiebreak"
    BY <2>1 DEF DecisionIsSound
  <2>2. CASE outcome' = Failed /\ phase' = "over"
    BY <2>2 DEF DecisionIsSound, Failed
  <2>3. CASE Carries(Winner) /\ Settles(Winner) /\ phase' = "over"
    <3>1. UNCHANGED <<grave, said>>
      BY <1>6 DEF Resolve
    <3> QED
      BY <1>4, <2>3, <3>1, WinnerVotes
  <2> QED
    BY <1>6, <2>1, <2>2, <2>3 DEF Resolve
<1>7. CASE Tiebreak
  <2>1. PICK group \in SUBSET Voters :
          IF Carries(group) THEN Settles(group) ELSE outcome' = Failed
    BY <1>7 DEF Tiebreak
  <2>2. phase' = "over" /\ UNCHANGED <<grave, said>>
    BY <1>7 DEF Tiebreak
  <2> QED
    BY <1>4, <2>1, <2>2
<1>8. ~\E passed, panel \in BOOLEAN : GateRules(passed, panel)
  BY <1>2 DEF GateRules
<1>9. ~(GateIsSilent \/ Inconclusive \/ (\E passed \in BOOLEAN : LastSeatRules(passed)))
  BY <1>2 DEF GateIsSilent, Inconclusive, LastSeatRules
<1>10. ~(Merge \/ (\E page \in {"none", "good", "bad"} : CheckPage(page)))
  BY <1>1, <1>2 DEF Merge, CheckPage
<1> QED
  BY <1>3, <1>5, <1>6, <1>7, <1>8, <1>9, <1>10 DEF Next

(***************************************************************************)
(* A question is answered without a human only on the word of two models   *)
(* and of most of those that voted, and of all of them where the answer    *)
(* cannot be undone, whichever seats fell back on whom                     *)
(* (dedupeByRespondedModel, resolveConsensus).                             *)
(***************************************************************************)
THEOREM AdoptionIsShared ==
  ASSUME RosterIsAList
  PROVE  Spec => []AdoptedIsShared
<1>1. Init => DecisionIsSound
  BY DEF Init, DecisionIsSound
<1>2. DecisionIsSound /\ [Next]_vars => DecisionIsSound'
  BY NextDecides
<1>3. DecisionIsSound => AdoptedIsShared
  <2> SUFFICES ASSUME DecisionIsSound, kind = "decision", phase = "over", outcome.stage = "decided"
               PROVE  LET group == outcome.group
                      IN /\ Cardinality(ModelsOf(group)) >= 2
                         /\ Majority(Cardinality(ModelsOf(group)), Cardinality(ModelsOf(Voters)))
                         /\ outcome.author \in group
                         /\ Irreversible(outcome.author) => group = Voters
    BY DEF AdoptedIsShared
  <2>1. PICK group, author : Adopts(group, author)
    BY DEF DecisionIsSound, Failed
  <2>2. outcome.group = group /\ outcome.author = author
    BY <2>1 DEF Adopts
  <2>3. /\ Cardinality(ModelsOf(group)) = Cardinality(group)
        /\ Cardinality(ModelsOf(Voters)) = Cardinality(Voters)
    BY <2>1, ModelsAreVotes DEF Adopts
  <2> QED
    BY <2>1, <2>2, <2>3 DEF Adopts, Carries
<1> QED
  BY <1>1, <1>2, <1>3, PTL DEF Spec
-----------------------------------------------------------------------------
(***************************************************************************)
(* Verdicts.  A vote of a verdict is "pass" or "fail"; a verdict that does *)
(* not come from the votes has none.                                       *)
(***************************************************************************)
NoVotes == \A s \in Seats : said[s] = Null

SaidOfVerdicts ==
  \A s \in Seats : said[s] = Null \/ said[s].content \in {Null, None, "pass", "fail"}

\* What DoubtIsShown says, counted in seats.
PassesFairly ==
  outcome.passed =>
    LET against == Cardinality(Votes("fail"))
    IN /\ ~Majority(against, against + Cardinality(Votes("pass")))
       /\ outcome.flagged \/ (gate = [passed |-> TRUE] /\ against = 0 /\ outcome.page # "bad")

VerdictShape == [passed : BOOLEAN, flagged : BOOLEAN, page : {"none", "good", "bad"}]

VerdictIsSound ==
  kind = "verdict" =>
    /\ said \in [Seats -> {said[s] : s \in Seats}] /\ SaidOfVerdicts
    /\ phase \in {"gate", "seats", "page", "over"}
    /\ phase = "gate" => NoVotes /\ outcome = Null
    /\ phase = "seats" => gate = [passed |-> TRUE]
    /\ phase = "page" => outcome \in VerdictShape /\ PassesFairly
    /\ phase = "over" => outcome = Null \/ (outcome \in VerdictShape /\ PassesFairly)

\* Every vote is for or against.
LEMMA VotesSplit ==
  ASSUME RosterIsAList, SaidOfVerdicts
  PROVE  /\ Cardinality(Voters) = Cardinality(Votes("fail")) + Cardinality(Votes("pass"))
         /\ Cardinality(Votes("fail")) \in Nat /\ Cardinality(Votes("pass")) \in Nat
<1>1. Votes("fail") \in SUBSET Voters /\ Votes("pass") \in SUBSET Voters
  BY DEF Votes
<1>2. IsFiniteSet(Votes("fail")) /\ IsFiniteSet(Votes("pass"))
      /\ Cardinality(Votes("fail")) \in Nat /\ Cardinality(Votes("pass")) \in Nat
  BY <1>1, ModelsAreVotes
<1>3. Voters = Votes("fail") \cup Votes("pass") /\ Votes("fail") \cap Votes("pass") = {}
  BY DEF Votes, Voters, Kept, Answered, SaidOfVerdicts
<1>4. Cardinality({}) = 0
  BY FS_EmptySet
<1>5. Cardinality(Votes("fail") \cup Votes("pass"))
        = Cardinality(Votes("fail")) + Cardinality(Votes("pass"))
            - Cardinality(Votes("fail") \cap Votes("pass"))
  BY <1>2, FS_Union
<1>6. Cardinality(Voters) = Cardinality(Votes("fail")) + Cardinality(Votes("pass")) - 0
  BY <1>3, <1>4, <1>5
<1> QED
  BY <1>2, <1>6

LEMMA NobodyVoted ==
  ASSUME NoVotes
  PROVE  Votes("fail") = {} /\ Votes("pass") = {} /\ Cardinality({}) = 0
BY FS_EmptySet DEF NoVotes, Votes, Voters, Kept, Answered

LEMMA NextRules ==
  ASSUME RosterIsAList, VerdictIsSound, [Next]_vars
  PROVE  VerdictIsSound'
<1> SUFFICES ASSUME kind' = "verdict" PROVE VerdictIsSound'
  BY DEF VerdictIsSound
<1>1. kind' = kind
  BY DEF Next, vars, SeatFails, SeatAnswers, Resolve, Tiebreak, GateRules, GateIsSilent,
         Inconclusive, LastSeatRules, Merge, CheckPage
<1>2. /\ said \in [Seats -> {said[s] : s \in Seats}] /\ SaidOfVerdicts
      /\ phase \in {"gate", "seats", "page", "over"}
      /\ phase = "gate" => NoVotes /\ outcome = Null
  BY <1>1 DEF VerdictIsSound
<1>3. CASE UNCHANGED vars
  BY <1>3 DEF vars, VerdictIsSound, SaidOfVerdicts, NoVotes, PassesFairly, Votes, Voters,
              Kept, Answered, VerdictShape
<1>4. ASSUME NEW s \in Seats, NEW answer, said' = [said EXCEPT ![s] = answer],
             answer = Null \/ answer.content \in {Null, None, "pass", "fail"},
             phase = "seats", phase' = phase, gate' = gate
      PROVE  VerdictIsSound'
  <2>1. \A p \in Seats : said'[p] = IF p = s THEN answer ELSE said[p]
    BY <1>2, <1>4
  <2>2. said' \in [Seats -> {said'[p] : p \in Seats}]
    BY <1>2, <1>4
  <2>3. SaidOfVerdicts'
    BY <1>2, <1>4, <2>1 DEF SaidOfVerdicts
  <2> QED
    BY <1>1, <1>4, <2>2, <2>3 DEF VerdictIsSound
<1>5. CASE \E s \in Seats : SeatFails(s)
  <2>1. PICK s \in Seats : SeatFails(s)
    BY <1>5
  <2>2. CASE said' = said
    BY <1>1, <1>2, <2>1, <2>2 DEF SeatFails, VerdictIsSound, SaidOfVerdicts
  <2>3. CASE said' = [said EXCEPT ![s] = [model |-> Null, content |-> Null]]
    BY <1>4, <2>1, <2>3 DEF SeatFails
  <2> QED
    BY <2>1, <2>2, <2>3 DEF SeatFails
<1>6. CASE \E s \in Seats : \E content \in Contents : SeatAnswers(s, content)
  <2>1. PICK s \in Seats, content \in Contents : SeatAnswers(s, content)
    BY <1>6
  <2>2. content \in {None, "pass", "fail"}
    BY <1>1 DEF Contents
  <2> DEFINE answer == [model |-> Answering[SeatChain(s)[tried[s] + 1]], content |-> content]
  <2>3. answer.content \in {Null, None, "pass", "fail"}
    BY <2>2
  <2>4. /\ said' = [said EXCEPT ![s] = answer]
        /\ phase = "seats" /\ phase' = phase /\ gate' = gate
    BY <2>1 DEF SeatAnswers
  <2> HIDE DEF answer
  <2> QED
    BY <1>4, <2>3, <2>4
<1>7. ~(Resolve \/ Tiebreak)
  BY <1>1, <1>2 DEF Resolve, Tiebreak
\* From here on no seat says anything more.
<1>8. ASSUME UNCHANGED said
      PROVE  /\ said' \in [Seats -> {said'[p] : p \in Seats}]
             /\ SaidOfVerdicts' /\ (NoVotes => NoVotes')
             /\ Votes("fail")' = Votes("fail") /\ Votes("pass")' = Votes("pass")
  BY <1>2, <1>8 DEF SaidOfVerdicts, NoVotes, Votes, Voters, Kept, Answered
<1>9. ASSUME UNCHANGED said, phase' = "page", NEW passed \in BOOLEAN, NEW flagged \in BOOLEAN,
             outcome' = Verdict(passed, flagged),
             passed => /\ ~Majority(Cardinality(Votes("fail")), Cardinality(Voters))
                       /\ flagged \/ (gate' = [passed |-> TRUE] /\ Cardinality(Votes("fail")) = 0)
      PROVE  VerdictIsSound'
  <2>1. outcome' \in VerdictShape /\ outcome'.passed = passed /\ outcome'.flagged = flagged
        /\ outcome'.page = "none"
    BY <1>9 DEF Verdict, VerdictShape
  <2>2. Cardinality(Voters) = Cardinality(Votes("fail")) + Cardinality(Votes("pass"))
    BY <1>2, VotesSplit
  <2>3. PassesFairly'
    BY <1>8, <1>9, <2>1, <2>2 DEF PassesFairly
  <2> QED
    BY <1>8, <1>9, <2>1, <2>3 DEF VerdictIsSound, VerdictShape
<1>10. phase = "gate" => ~Majority(Cardinality(Votes("fail")), Cardinality(Voters))
                         /\ Cardinality(Votes("fail")) = 0
  BY <1>2, NobodyVoted, VotesSplit DEF Majority
<1>11. CASE \E passed, panel \in BOOLEAN : GateRules(passed, panel)
  <2>1. PICK passed \in BOOLEAN, panel \in BOOLEAN : GateRules(passed, panel)
    BY <1>11
  <2>2. phase = "gate" /\ UNCHANGED said /\ gate' = [passed |-> passed]
    BY <2>1 DEF GateRules
  <2>3. CASE passed /\ panel
    <3>1. phase' = "seats"
      BY <2>1, <2>3 DEF GateRules
    <3> QED
      BY <1>8, <2>2, <2>3, <3>1 DEF VerdictIsSound
  <2>4. CASE ~(passed /\ panel)
    <3>1. phase' = "page" /\ outcome' = Verdict(passed, FALSE)
      BY <2>1, <2>4 DEF GateRules
    <3> QED
      BY <1>9, <1>10, <2>2, <3>1
  <2> QED
    BY <2>3, <2>4
<1>12. CASE GateIsSilent
  <2>1. phase = "gate" /\ phase' = phase /\ UNCHANGED <<said, outcome>>
    BY <1>12 DEF GateIsSilent
  <2> QED
    BY <1>2, <1>8, <2>1 DEF VerdictIsSound
<1>13. CASE Inconclusive
  <2>1. phase = "gate" /\ phase' = "over" /\ UNCHANGED <<said, outcome>>
    BY <1>13 DEF Inconclusive
  <2> QED
    BY <1>2, <1>8, <2>1 DEF VerdictIsSound
<1>14. CASE \E passed \in BOOLEAN : LastSeatRules(passed)
  <2>1. PICK passed \in BOOLEAN : LastSeatRules(passed)
    BY <1>14
  <2>2. phase = "gate" /\ phase' = "page" /\ UNCHANGED said /\ outcome' = Verdict(passed, TRUE)
    BY <2>1 DEF LastSeatRules
  <2> QED
    BY <1>9, <1>10, <2>2
<1>15. CASE Merge
  <2> DEFINE fails == Cardinality(Votes("fail"))
             passed == ~Majority(fails, Cardinality(Voters))
  <2>1. /\ phase = "seats" /\ phase' = "page" /\ UNCHANGED <<said, gate>>
        /\ outcome' = Verdict(passed, passed /\ fails > 0)
    BY <1>15 DEF Merge, RunIsOver
  <2>2. gate = [passed |-> TRUE] /\ fails \in Nat
    BY <1>1, <1>2, <2>1, VotesSplit DEF VerdictIsSound
  <2>3. passed \in BOOLEAN /\ (passed /\ fails > 0) \in BOOLEAN
    BY DEF Majority
  <2>4. passed => (passed /\ fails > 0) \/ fails = 0
    BY <2>2
  <2> QED
    BY <1>9, <2>1, <2>2, <2>3, <2>4
<1>16. CASE \E page \in {"none", "good", "bad"} : CheckPage(page)
  <2>1. PICK page \in {"none", "good", "bad"} : CheckPage(page)
    BY <1>16
  <2>2. /\ phase = "page" /\ phase' = "over" /\ UNCHANGED <<said, gate>>
        /\ outcome' = [outcome EXCEPT !.flagged = @ \/ page = "bad", !.page = page]
    BY <2>1 DEF CheckPage, Checked
  <2>3. outcome \in VerdictShape /\ PassesFairly
    BY <1>1, <2>2 DEF VerdictIsSound
  <2>4. /\ outcome' \in VerdictShape /\ outcome'.passed = outcome.passed
        /\ outcome'.flagged = (outcome.flagged \/ page = "bad") /\ outcome'.page = page
    BY <2>2, <2>3 DEF VerdictShape
  <2>5. PassesFairly'
    BY <1>8, <2>2, <2>3, <2>4 DEF PassesFairly
  <2> QED
    BY <1>8, <2>2, <2>4, <2>5 DEF VerdictIsSound, VerdictShape
<1> QED
  BY <1>3, <1>5, <1>6, <1>7, <1>11, <1>12, <1>13, <1>14, <1>15, <1>16 DEF Next

(***************************************************************************)
(* No ticket passes against most of the models that voted, and a pass that *)
(* shows no doubt is one nobody doubted: not the gate, no vote and no page *)
(* (verify, mergeVerdict, withPage, gateFallback).                         *)
(***************************************************************************)
THEOREM DoubtIsAlwaysShown ==
  ASSUME RosterIsAList
  PROVE  Spec => []DoubtIsShown
<1>1. Init => VerdictIsSound
  BY DEF Init, VerdictIsSound, SaidOfVerdicts, NoVotes
<1>2. VerdictIsSound /\ [Next]_vars => VerdictIsSound'
  BY NextRules
<1>3. VerdictIsSound => DoubtIsShown
  <2> SUFFICES ASSUME VerdictIsSound, kind = "verdict", phase = "over", outcome # Null, outcome.passed
               PROVE  LET against == Cardinality(ModelsOf(Votes("fail")))
                      IN /\ ~Majority(against, against + Cardinality(ModelsOf(Votes("pass"))))
                         /\ outcome.flagged \/ (gate = [passed |-> TRUE] /\ against = 0 /\ outcome.page # "bad")
    BY DEF DoubtIsShown
  <2>1. PassesFairly
    BY DEF VerdictIsSound
  <2>2. Votes("fail") \in SUBSET Voters /\ Votes("pass") \in SUBSET Voters
    BY DEF Votes
  <2> QED
    BY <2>1, <2>2, ModelsAreVotes DEF PassesFairly
<1> QED
  BY <1>1, <1>2, <1>3, PTL DEF Spec

=============================================================================
