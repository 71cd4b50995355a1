---------------------------- MODULE ReviewPanel ----------------------------
(***************************************************************************)
(* The models that are asked instead of a human, or beside the gate: the   *)
(* panel of seats (packages/server/src/panel/litellmPanel.ts), the answer  *)
(* it gives to a parked decision (decisionPanel.ts), and the completion    *)
(* gate with its retries, its panel, its last seat and its page check      *)
(* (ticketVerifier.ts, verificationPanel.ts, jev/gateFallback.ts).         *)
(*                                                                         *)
(* One consultation is modelled; consultations share nothing.  What a      *)
(* model writes is a member of Opinions: the option it names, how sure it  *)
(* is (in tenths, None when it does not say), and whether its text names   *)
(* an action that cannot be undone.  The gateway is taken to name the      *)
(* model that answered, as it does in production.                          *)
(***************************************************************************)
EXTENDS Naturals, Sequences, FiniteSets, FiniteSetsExt

CONSTANTS
  Roster,       \* the models of the panel, one seat each
  Fallbacks,    \* per roster model, the models its seat tries next
  Answering,    \* per model asked for by name, the one that answers
  Opinions,     \* what an advisor may write
  Null, None

VARIABLES
  kind,      \* "decision" or "verdict"
  grave,     \* the question names an action that cannot be undone
  phase,     \* "gate", "seats", "tiebreak", "page" or "over"
  tried,     \* per seat, the models that gave no answer
  said,      \* per seat, the answer: who and what
  silent,    \* gate attempts that gave no verdict
  gate,      \* the verdict of the gate
  outcome    \* the decision, or the verdict

vars == <<kind, grave, phase, tried, said, silent, gate, outcome>>

Seats == DOMAIN Roster
Majority(part, whole) == 2 * part > whole

Init == /\ kind \in {"decision", "verdict"}
        /\ grave \in BOOLEAN
        /\ phase = IF kind = "decision" THEN "seats" ELSE "gate"
        /\ tried = [s \in Seats |-> 0]
        /\ said = [s \in Seats |-> Null]
        /\ silent = 0 /\ gate = Null /\ outcome = Null

-----------------------------------------------------------------------------
(* The seats.  Each asks its models in turn, all seats at once.            *)

\* A seat that fails over stays off the models of its peers.
SeatChain(s) ==
  <<Roster[s]>> \o SelectSeq(Fallbacks[Roster[s]], LAMBDA m : \A p \in Seats : m # Roster[p])

\* None: an answer nobody can parse.
Contents == {None} \cup IF kind = "decision" THEN Opinions ELSE {"pass", "fail"}

SeatAnswers(s, content) ==
  /\ phase = "seats"
  /\ said[s] = Null
  /\ said' = [said EXCEPT ![s] = [model |-> Answering[SeatChain(s)[tried[s] + 1]], content |-> content]]
  /\ UNCHANGED <<kind, grave, phase, tried, silent, gate, outcome>>

\* An error, a timeout or an empty answer: the next model, or an abstention.
SeatFails(s) ==
  /\ phase = "seats"
  /\ said[s] = Null
  /\ tried' = [tried EXCEPT ![s] = @ + 1]
  /\ said' = IF tried'[s] < Len(SeatChain(s)) THEN said
             ELSE [said EXCEPT ![s] = [model |-> Null, content |-> Null]]
  /\ UNCHANGED <<kind, grave, phase, silent, gate, outcome>>

Answered(s) == said[s] # Null /\ said[s].content # Null

\* Mutant: every seat that answered keeps its vote.
KeptMutant(s) == Answered(s)

\* dedupeByRespondedModel: of two seats one model answered, the first counts,
\* whether its answer can be read or not.
Kept(s) == Answered(s) /\ \A p \in 1..(s - 1) : Answered(p) => said[p].model # said[s].model

Voters == {s \in Seats : Kept(s) /\ said[s].content # None}
RunIsOver == phase = "seats" /\ \A s \in Seats : said[s] # Null

-----------------------------------------------------------------------------
(* Decisions.                                                              *)

\* consensusKey
Group(key) == {s \in Voters : said[s].content.choice = key}
Winner == LET size(key) == Cardinality(Group(key))
              keys == {said[s].content.choice : s \in Voters}
          IN IF keys = {} THEN {} ELSE Group(CHOOSE k \in keys : \A l \in keys : size(k) >= size(l))

\* At least two, and a strict majority of those that answered.
Carries(group) == Cardinality(group) >= 2 /\ Majority(Cardinality(group), Cardinality(Voters))

\* scoreWinner: the mean of those that said how sure they are reaches 0.5.
Confident(group) ==
  LET scored == {s \in group : said[s].content.sure # None}
  IN scored # {} => 10 * MapThenSumSet(LAMBDA s : said[s].content.sure, scored) >= 50 * Cardinality(scored)

Failed == [stage |-> "failed", author |-> Null, group |-> {}]

\* needsUnanimity: the question, or the answer that would be applied.
Irreversible(author) == grave \/ said[author].content.drastic

\* A split majority may not apply what cannot be undone.
Applied(group, author) ==
  IF Irreversible(author) /\ group # Voters THEN Failed
  ELSE [stage |-> "decided", author |-> author, group |-> group]

\* The answer is the longest text of the group: any, where lengths are left out.
Settles(group) == \/ /\ ~Confident(group)
                     /\ outcome' = Failed
                  \/ /\ Confident(group)
                     /\ \E author \in group : outcome' = Applied(group, author)

\* resolveConsensus; only without any group is a second opinion asked for.
Resolve ==
  /\ kind = "decision"
  /\ RunIsOver
  /\ \/ Carries(Winner) /\ Settles(Winner) /\ phase' = "over"
     \/ ~Carries(Winner) /\ Cardinality(Voters) >= 2 /\ phase' = "tiebreak" /\ UNCHANGED outcome
     \/ ~Carries(Winner) /\ Cardinality(Voters) < 2 /\ outcome' = Failed /\ phase' = "over"
  /\ UNCHANGED <<kind, grave, tried, said, silent, gate>>

\* One model groups the answers, or fails to; what it groups must carry too.
Tiebreak ==
  /\ phase = "tiebreak"
  /\ phase' = "over"
  /\ \E group \in SUBSET Voters :
       IF Carries(group) THEN Settles(group) ELSE outcome' = Failed
  /\ UNCHANGED <<kind, grave, tried, said, silent, gate>>

-----------------------------------------------------------------------------
(* Verdicts.                                                               *)

GateAttempts == 2

Verdict(passed, flagged) == [passed |-> passed, flagged |-> flagged, page |-> "none"]

\* A verdict of the gate ends its attempts; a pass goes on to the panel
\* where the ticket has one, a rejection is final.
GateRules(passed, panel) ==
  /\ phase = "gate"
  /\ silent < GateAttempts
  /\ gate' = [passed |-> passed]
  /\ IF passed /\ panel THEN phase' = "seats" /\ UNCHANGED outcome
     ELSE phase' = "page" /\ outcome' = Verdict(passed, FALSE)
  /\ UNCHANGED <<kind, grave, tried, said, silent>>

GateIsSilent ==
  /\ phase = "gate"
  /\ silent < GateAttempts
  /\ silent' = silent + 1
  /\ UNCHANGED <<kind, grave, phase, tried, said, gate, outcome>>

\* The last seat, asked when no attempt gave a verdict: its word is flagged.
LastSeatRules(passed) ==
  /\ phase = "gate"
  /\ silent = GateAttempts
  /\ phase' = "page"
  /\ outcome' = Verdict(passed, TRUE)
  /\ UNCHANGED <<kind, grave, tried, said, silent, gate>>

\* verify() throws: the runner fails the ticket.
Inconclusive ==
  /\ phase = "gate"
  /\ silent = GateAttempts
  /\ phase' = "over"
  /\ UNCHANGED <<kind, grave, tried, said, silent, gate, outcome>>

Votes(vote) == {s \in Voters : said[s].content = vote}

\* mergeVerdict: a majority of the votes vetoes, a lone dissenter is flagged.
Merge ==
  /\ kind = "verdict"
  /\ RunIsOver
  /\ phase' = "page"
  /\ LET fails == Cardinality(Votes("fail"))
         passed == ~Majority(fails, Cardinality(Voters))
     IN outcome' = Verdict(passed, passed /\ fails > 0)
  /\ UNCHANGED <<kind, grave, tried, said, silent, gate>>

\* Mutant: the page check writes the flag anew.
CheckedMutant(page) == [outcome EXCEPT !.flagged = page = "bad", !.page = page]
Checked(page) == [outcome EXCEPT !.flagged = @ \/ page = "bad", !.page = page]

\* withPage: no page, a browser that cannot run and a good page change nothing.
CheckPage(page) ==
  /\ phase = "page"
  /\ phase' = "over"
  /\ outcome' = Checked(page)
  /\ UNCHANGED <<kind, grave, tried, said, silent, gate>>

-----------------------------------------------------------------------------
Next == \/ \E s \in Seats : SeatFails(s) \/ \E content \in Contents : SeatAnswers(s, content)
        \/ Resolve \/ Tiebreak
        \/ \E passed, panel \in BOOLEAN : GateRules(passed, panel)
        \/ GateIsSilent \/ Inconclusive \/ \E passed \in BOOLEAN : LastSeatRules(passed)
        \/ Merge \/ \E page \in {"none", "good", "bad"} : CheckPage(page)

Spec == Init /\ [][Next]_vars

-----------------------------------------------------------------------------
(* What the models said, counting each model once.                         *)
ModelsOf(seats) == {said[s].model : s \in seats}

(* "The panel is allowed to be unsure; it is not allowed to guess": an     *)
(* answer is adopted without a human only when two different models stand  *)
(* behind it, and most of those that answered; one of them wrote it, and   *)
(* where it cannot be undone nobody with a vote disagreed - whichever      *)
(* seats fell back on whom, and also after a tiebreak.                     *)
AdoptedIsShared ==
  (kind = "decision" /\ phase = "over" /\ outcome.stage = "decided") =>
    LET group == outcome.group
    IN /\ Cardinality(ModelsOf(group)) >= 2
       /\ Majority(Cardinality(ModelsOf(group)), Cardinality(ModelsOf(Voters)))
       /\ outcome.author \in group
       /\ Irreversible(outcome.author) => group = Voters

(* Completion is fail-closed, and no doubt is lost on the way: a verdict   *)
(* never passes against most of the models that voted, and one that passes *)
(* without a flag was passed by the gate itself, with no vote against it   *)
(* and no page that failed its check.                                      *)
DoubtIsShown ==
  (kind = "verdict" /\ phase = "over" /\ outcome # Null /\ outcome.passed) =>
    LET against == Cardinality(ModelsOf(Votes("fail")))
    IN /\ ~Majority(against, against + Cardinality(ModelsOf(Votes("pass"))))
       /\ outcome.flagged \/ (gate = [passed |-> TRUE] /\ against = 0 /\ outcome.page # "bad")
=============================================================================
