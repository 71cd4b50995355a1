---------------------------- MODULE HooksProofs -----------------------------
(***************************************************************************)
(* Theorems about the two worlds of MCHooks.  First the prompt queue, for  *)
(* any sessions, agents, scores, limits and numbers of faults; then what   *)
(* AgentBoardProofs proves of the board, which holds in MCHooks too.       *)
(***************************************************************************)
EXTENDS MCHooks, SequenceTheorems, FiniteSetTheorems, WellFoundedInduction, TLAPS

Lines == Job \cup {Malformed}

(***************************************************************************)
(* The arithmetic of the scores stays within the integers.                 *)
(***************************************************************************)
LEMMA RoundedType ==
  ASSUME NEW n \in Int
  PROVE  Rounded(n, 10) \in Int
BY DEF Rounded

LEMMA MixType ==
  ASSUME NEW rule \in Int, NEW usage \in Int \cup {Null}, NEW judge \in Int \cup {Null}
  PROVE  Mix(rule, usage, judge) \in Int
<1>1. CASE judge # Null /\ usage # Null
  BY <1>1 DEF Mix
<1>2. CASE judge # Null /\ usage = Null
  BY <1>2 DEF Mix
<1>3. CASE judge = Null /\ usage # Null
  BY <1>3 DEF Mix
<1>4. CASE judge = Null /\ usage = Null
  BY <1>4 DEF Mix
<1> QED
  BY <1>1, <1>2, <1>3, <1>4

LEMMA FinalType ==
  ASSUME NEW rule \in Int, NEW usage \in Int \cup {Null}, NEW judge \in Int \cup {Null},
         NEW cap \in Int
  PROVE  ComposeFinalScore(rule, usage, judge, 0, cap) \in Int
<1>1. Mix(rule, usage, judge) \in Int
  BY MixType
<1>2. Least(Least(1000, Mix(rule, usage, judge) + 10 * 0), 10 * cap) \in Int
  BY <1>1 DEF Least
<1> QED
  BY <1>2, RoundedType DEF ComposeFinalScore

LEMMA RuleType ==
  ASSUME NEW h \in HitCounts
  PROVE  ComputeRuleScore(h) \in Int
<1>1. h[1] \in Nat /\ h[2] \in Nat /\ h[3] \in Nat /\ h[4] \in Nat /\ h[5] \in Nat
  BY DEF HitCounts, Severities
<1> QED
  BY <1>1 DEF ComputeRuleScore, Weight, Least

LEMMA CapType ==
  ASSUME NEW h
  PROVE  CapFor(h) \in Int
BY DEF CapFor

LEMMA ConfidenceType ==
  ASSUME NEW m, NEW u, NEW j, NEW d
  PROVE  ComputeConfidence(m, u, j, d) \in {"low", "medium", "high"}
BY DEF ComputeConfidence

\* A hit of severity 2 never changes the cap: the caps begin at severity 3.
LEMMA SmallHitKeepsCap ==
  ASSUME NEW h \in HitCounts
  PROVE  CapFor([h EXCEPT ![2] = 1]) = CapFor(h)
<1> DEFINE g == [h EXCEPT ![2] = 1]
<1>1. /\ g[1] = h[1] /\ g[3] = h[3] /\ g[4] = h[4] /\ g[5] = h[5] /\ g[2] = 1
      /\ h[1] \in Nat /\ h[2] \in Nat /\ h[3] \in Nat /\ h[4] \in Nat /\ h[5] \in Nat
  BY DEF HitCounts, Severities
<1> HIDE DEF g
<1> DEFINE Greatest(f, m) == /\ m \in 0..5
                             /\ m = 0 \/ f[m] > 0
                             /\ \A s \in 1..5 : f[s] > 0 => s <= m
           Top(f) == IF f[5] > 0 THEN 5 ELSE IF f[4] > 0 THEN 4 ELSE IF f[3] > 0 THEN 3
                     ELSE IF f[2] > 0 THEN 2 ELSE IF f[1] > 0 THEN 1 ELSE 0
<1>2. ASSUME NEW f, f[1] \in Nat, f[2] \in Nat, f[3] \in Nat, f[4] \in Nat, f[5] \in Nat
      PROVE  MaxSeverity(f) = Top(f)
  <2>1. Greatest(f, Top(f))
    <3>1. \A s \in 1..5 : s = 1 \/ s = 2 \/ s = 3 \/ s = 4 \/ s = 5
      OBVIOUS
    <3> QED
      BY <1>2, <3>1
  <2>2. ASSUME NEW m, Greatest(f, m)
        PROVE  m = Top(f)
    <3>1. m \in {0, 1, 2, 3, 4, 5}
      BY <2>2
    <3> QED
      BY <1>2, <2>2, <3>1
  <2>3. MaxSeverity(f) = CHOOSE m \in 0..5 : Greatest(f, m)
    BY DEF MaxSeverity, Severities
  <2> HIDE DEF Greatest, Top
  <2> QED
    BY <2>1, <2>2, <2>3
<1>3. MaxSeverity(g) = Top(g) /\ MaxSeverity(h) = Top(h)
  BY <1>1, <1>2
<1>4. CapFor(g) = CapFor(h)
  BY <1>1, <1>3 DEF CapFor
<1> QED
  BY <1>4 DEF g

(***************************************************************************)
(* Rows keep their shape, whatever is recomputed in them.                  *)
(***************************************************************************)
LEMMA RescoredType ==
  ASSUME NEW row \in Row, NEW usage \in Int \cup {Null}, NEW average
  PROVE  /\ Rescored(row, usage, average) \in Row
         /\ Rescored(row, usage, average).judge = row.judge
         /\ Rescored(row, usage, average).usage = Kept(usage, row.usage)
         /\ Rescored(row, usage, average).hits = row.hits
         /\ Rescored(row, usage, average).rule = row.rule
         /\ Rescored(row, usage, average).final
              = ComposeFinalScore(row.rule, usage, row.judge, 0, CapFor(row.hits))
<1> DEFINE cap == CapFor(row.hits)
           final == ComposeFinalScore(row.rule, usage, row.judge, 0, cap)
           delta == IF average = Null THEN Null ELSE final - average
           conf == ComputeConfidence(MaxSeverity(row.hits), usage, row.judge, delta)
           kcap == Kept(IF cap < 100 THEN cap ELSE Null, row.cap)
           kuse == Kept(usage, row.usage)
<1>1. /\ row.rule \in Int /\ row.usage \in Int \cup {Null} /\ row.judge \in Int \cup {Null}
      /\ row.cap \in Int \cup {Null}
  BY DEF Row
<1>2. cap \in Int
  BY CapType
<1>3. final \in Int
  BY <1>1, <1>2, FinalType
<1>4. conf \in {"low", "medium", "high", Null}
  BY ConfidenceType
<1>5. kcap \in Int \cup {Null} /\ kuse \in Int \cup {Null}
  BY <1>1, <1>2 DEF Kept
<1>6. Rescored(row, usage, average)
        = [row EXCEPT !.usage = kuse, !.final = final, !.cap = kcap, !.confidence = conf]
  BY DEF Rescored
<1> HIDE DEF cap, final, delta, conf, kcap, kuse
<1>7. /\ [row EXCEPT !.usage = kuse, !.final = final, !.cap = kcap, !.confidence = conf] \in Row
      /\ \A new : new = [row EXCEPT !.usage = kuse, !.final = final, !.cap = kcap,
                                    !.confidence = conf]
           => /\ new.judge = row.judge /\ new.usage = kuse /\ new.hits = row.hits
              /\ new.rule = row.rule /\ new.final = final
  BY <1>3, <1>4, <1>5 DEF Row
<1> QED
  BY <1>6, <1>7 DEF final, cap, kuse

LEMMA WithHitType ==
  ASSUME NEW row \in Row, NEW hit \in BOOLEAN
  PROVE  /\ WithHit(row, hit) \in Row
         /\ WithHit(row, hit).judge = row.judge
         /\ WithHit(row, hit).usage = row.usage
         /\ WithHit(row, hit).rule = row.rule
         /\ WithHit(row, hit).final = row.final
         /\ CapFor(WithHit(row, hit).hits) = CapFor(row.hits)
<1>1. CASE hit /\ row.hits[2] = 0
  <2> DEFINE h == [row.hits EXCEPT ![2] = 1]
  <2>1. row.hits \in HitCounts
    BY DEF Row
  <2>2. h \in HitCounts
    BY <2>1 DEF HitCounts, Severities
  <2>3. WithHit(row, hit) = [row EXCEPT !.hits = h]
    BY <1>1 DEF WithHit
  <2>4. CapFor(h) = CapFor(row.hits)
    BY <2>1, SmallHitKeepsCap
  <2> HIDE DEF h
  <2> QED
    BY <2>2, <2>3, <2>4 DEF Row
<1>2. CASE ~(hit /\ row.hits[2] = 0)
  BY <1>2 DEF WithHit
<1> QED
  BY <1>1, <1>2

(***************************************************************************)
(* The file only grows, and the current job is one of the batch.           *)
(***************************************************************************)
LEMMA HasLeast ==
  ASSUME NEW S, S \subseteq Nat, S # {}
  PROVE  \E m \in S : \A k \in S : m <= k
<1> DEFINE R == {ss \in Nat \X Nat : ss[1] < ss[2]}
<1>1. IsWellFoundedOn(R, Nat)
  BY NatLessThanWellFounded, Zenon DEF OpToRel
<1>2. PICK x \in S : \A y \in S : ~ (<<y, x>> \in R)
  <2> HIDE DEF R
  <2> QED
    BY <1>1, WFMin
<1>3. \A y \in S : ~(y < x)
  BY <1>2
<1> QED
  BY <1>3

LEMMA CurrentJob ==
  ASSUME TypeOK, batch # {}
  PROVE  /\ Current \in batch /\ Current \in DOMAIN file /\ Current \in offset + 1..next
         /\ file[Current] \in Job
<1>1. batch \subseteq Nat
  BY DEF TypeOK, Readable
<1>2. Current \in batch
  BY <1>1, HasLeast DEF Current
<1>3. Current \in DOMAIN file /\ Current \in offset + 1..next /\ file[Current].kind # "malformed"
  BY <1>2 DEF TypeOK, Readable
<1>4. file[Current] \in Job \cup {Malformed}
  BY <1>3, ElementOfSeq DEF TypeOK
<1> QED
  BY <1>2, <1>3, <1>4 DEF Malformed

Grown == /\ file' \in Seq(Lines) /\ Len(file') >= Len(file)
         /\ DOMAIN file \subseteq DOMAIN file'
         /\ \A i \in DOMAIN file : file'[i] = file[i]
         /\ cut' \in BOOLEAN

LEMMA EnqueueGrows ==
  ASSUME TypeOK, NEW lines \in Seq(Lines), Enqueue(lines)
  PROVE  Grown
<1>1. Written(lines) \in Seq(Lines)
  <2>1. CASE cut /\ lines # <<>>
    <3>1. <<Malformed>> \in Seq(Lines) /\ Tail(lines) \in Seq(Lines)
      BY <2>1, HeadTailProperties DEF Lines
    <3> QED
      BY <2>1, <3>1, ConcatProperties DEF Written
  <2>2. CASE ~(cut /\ lines # <<>>)
    BY <2>2 DEF Written
  <2> QED
    BY <2>1, <2>2
<1>2. file \in Seq(Lines) /\ file' = file \o Written(lines) /\ cut' \in BOOLEAN
  BY DEF TypeOK, Enqueue, Lines
<1> HIDE DEF Lines
<1>3. /\ file' \in Seq(Lines)
      /\ Len(file') = Len(file) + Len(Written(lines))
      /\ \A i \in 1..Len(file) + Len(Written(lines)) :
           file'[i] = IF i <= Len(file) THEN file[i] ELSE Written(lines)[i - Len(file)]
  BY <1>1, <1>2, ConcatProperties
<1>4. Len(file) \in Nat /\ Len(Written(lines)) \in Nat
  BY <1>1, <1>2
<1>5. DOMAIN file = 1..Len(file) /\ DOMAIN file' = 1..Len(file')
  BY <1>2, <1>3
<1> QED
  BY <1>2, <1>3, <1>4, <1>5 DEF Grown

LEMMA SameFileGrows ==
  ASSUME TypeOK, UNCHANGED <<file, cut>>
  PROVE  Grown
BY DEF TypeOK, Grown, Lines

LEMMA CutLineGrows ==
  ASSUME TypeOK, CutLine
  PROVE  Grown
<1>1. file \in Seq(Lines) /\ Malformed \in Lines
  BY DEF TypeOK, Lines
<1>2. /\ cut' = TRUE
      /\ file' = file \/ file' = Append(file, Malformed)
  BY DEF CutLine
<1> HIDE DEF Lines
<1>3. CASE file' = file
  BY <1>1, <1>2, <1>3 DEF Grown
<1>4. CASE file' = Append(file, Malformed)
  <2>1. /\ file' \in Seq(Lines)
        /\ Len(file') = Len(file) + 1
        /\ \A i \in 1..Len(file) : file'[i] = file[i]
    BY <1>1, <1>4, AppendProperties
  <2>2. DOMAIN file = 1..Len(file) /\ DOMAIN file' = 1..Len(file') /\ Len(file) \in Nat
    BY <1>1, <2>1
  <2> QED
    BY <1>2, <2>1, <2>2 DEF Grown
<1> QED
  BY <1>2, <1>3, <1>4

\* The lines read so far are the lines read so far, however the file grew.
LEMMA ReadableKept ==
  ASSUME TypeOK, Grown, NEW a \in Nat \ {0}, NEW b \in 0..Len(file)
  PROVE  {i \in a..b : i \in DOMAIN file' /\ file'[i].kind # "malformed"} = Readable(a, b)
<1>1. file \in Seq(Lines)
  BY DEF TypeOK, Lines
<1>2. DOMAIN file = 1..Len(file) /\ Len(file) \in Nat
  BY <1>1
<1>3. \A i \in a..b : i \in DOMAIN file /\ i \in DOMAIN file' /\ file'[i] = file[i]
  BY <1>2 DEF Grown
<1> QED
  BY <1>3 DEF Readable

(***************************************************************************)
(* The inductive invariant.  Seen: a line that was read is handled, still  *)
(* in the batch, or beyond the batch.  AsksAboutRow: while the judge is    *)
(* asked, nothing changes the row it was asked about.                      *)
(***************************************************************************)
Seen == /\ Readable(1, offset) \subseteq handled
        /\ Readable(offset + 1, next) \ batch \subseteq handled

AsksAboutRow == asked # Null => /\ asked = rows[Subject] /\ asked.judge = Null
                                /\ Subject \in Prompts

QInv == TypeOK /\ Seen /\ AsksAboutRow /\ FinalCountsJudge

QueueOK == /\ offset \in 0..Len(file) /\ next \in offset..Len(file)
           /\ batch \subseteq Readable(offset + 1, next)
           /\ handled \subseteq DOMAIN file
           /\ Seen

FinalOK(row) == \E usage \in {row.usage, Null}, cap \in {100, CapFor(row.hits)} :
                  row.final = ComposeFinalScore(row.rule, usage, row.judge, 0, cap)

\* What every step does with the rows.
RowsOK == /\ rows' \in [Prompts -> Row \cup {Null}]
          /\ \A p \in Prompts : rows'[p] # Null => FinalOK(rows'[p])
          /\ \A p \in Prompts : (rows[p] # Null /\ rows[p].judge # Null)
                                  => (rows'[p] # Null /\ rows'[p].judge = rows[p].judge)

LEMMA SameRows ==
  ASSUME QInv, UNCHANGED rows
  PROVE  RowsOK
BY DEF QInv, TypeOK, FinalCountsJudge, FinalOK, RowsOK

LEMMA OneRow ==
  ASSUME QInv, NEW q, NEW row \in Row, rows' = [rows EXCEPT ![q] = row], FinalOK(row),
         q \in Prompts => \/ rows[q] = Null
                          \/ rows[q].judge = Null
                          \/ row.judge = rows[q].judge
  PROVE  RowsOK
<1>1. rows \in [Prompts -> Row \cup {Null}] /\ row # Null
  BY NoRowAssumption DEF QInv, TypeOK
<1>2. \A p \in Prompts : rows'[p] = IF p = q THEN row ELSE rows[p]
  BY <1>1
<1>3. rows' \in [Prompts -> Row \cup {Null}]
  BY <1>1
<1>4. \A p \in Prompts : rows'[p] # Null => FinalOK(rows'[p])
  BY <1>2 DEF QInv, FinalCountsJudge, FinalOK
<1> QED
  BY <1>1, <1>2, <1>3, <1>4 DEF RowsOK

LEMMA RescoreRows ==
  ASSUME QInv, NEW turns, turns \subseteq Turns(Subject), Rescore(turns)
  PROVE  RowsOK
<1>1. PICK average \in Averages, usage \in [turns -> UsageScores] :
        rows' = [p \in Prompts |-> IF p[1] = Subject /\ p[2] \in turns
                                   THEN Rescored(rows[p], usage[p[2]], average) ELSE rows[p]]
  BY DEF Rescore
<1>2. rows \in [Prompts -> Row \cup {Null}]
  BY DEF QInv, TypeOK
<1>3. ASSUME NEW p \in Prompts
      PROVE  /\ rows'[p] \in Row \cup {Null}
             /\ rows'[p] # Null => FinalOK(rows'[p])
             /\ (rows[p] # Null /\ rows[p].judge # Null)
                  => (rows'[p] # Null /\ rows'[p].judge = rows[p].judge)
  <2>1. CASE p[1] = Subject /\ p[2] \in turns
    <3> DEFINE u == usage[p[2]]
               new == Rescored(rows[p], u, average)
    <3>1. p = <<Subject, p[2]>>
      BY <2>1 DEF Prompts
    <3>2. rows[p] \in Row
      BY <1>2, <2>1, <3>1 DEF Turns
    <3>3. u \in Int \cup {Null}
      <4>1. u \in UsageScores
        BY <2>1
      <4>2. UsageScores \subseteq Nat \cup {Null}
        BY ScoresAssumption
      <4> HIDE DEF u
      <4> QED
        BY <4>1, <4>2
    <3>4. rows'[p] = new
      BY <1>1, <2>1
    <3> HIDE DEF u, new
    <3>5. /\ new \in Row /\ new.judge = rows[p].judge /\ new.usage = Kept(u, rows[p].usage)
          /\ new.hits = rows[p].hits /\ new.rule = rows[p].rule
          /\ new.final = ComposeFinalScore(rows[p].rule, u, rows[p].judge, 0, CapFor(rows[p].hits))
      BY <3>2, <3>3, RescoredType DEF new
    <3>6. u \in {new.usage, Null}
      BY <3>5 DEF Kept
    <3>7. FinalOK(new)
      BY <3>5, <3>6 DEF FinalOK
    <3> QED
      BY <3>4, <3>5, <3>7, NoRowAssumption
  <2>2. CASE ~(p[1] = Subject /\ p[2] \in turns)
    <3>1. rows'[p] = rows[p]
      BY <1>1, <2>2
    <3> QED
      BY <1>2, <3>1 DEF QInv, FinalCountsJudge, FinalOK
  <2> QED
    BY <2>1, <2>2
<1>4. rows' \in [Prompts -> Row \cup {Null}]
  BY <1>1, <1>3
<1> QED
  BY <1>3, <1>4 DEF RowsOK

(***************************************************************************)
(* The queue, for each way a step may treat it.                            *)
(***************************************************************************)
LEMMA QueueKept ==
  ASSUME QInv, Grown, UNCHANGED <<offset, batch, next, handled>>
  PROVE  QueueOK'
<1>1. TypeOK /\ Seen /\ Len(file) \in Nat
  BY DEF QInv, TypeOK
<1>2. /\ Readable(1, offset)' = Readable(1, offset)
      /\ Readable(offset + 1, next)' = Readable(offset + 1, next)
  <2>1. offset \in 0..Len(file) /\ offset + 1 \in Nat \ {0} /\ next \in 0..Len(file)
    BY <1>1 DEF TypeOK
  <2>2. /\ {i \in 1..offset : i \in DOMAIN file' /\ file'[i].kind # "malformed"} = Readable(1, offset)
        /\ {i \in offset + 1..next : i \in DOMAIN file' /\ file'[i].kind # "malformed"}
             = Readable(offset + 1, next)
    BY <1>1, <2>1, ReadableKept
  <2> QED
    BY <2>2 DEF Readable
<1>3. Len(file') \in Nat /\ Len(file') >= Len(file) /\ DOMAIN file \subseteq DOMAIN file'
  BY DEF Grown
<1> QED
  BY <1>1, <1>2, <1>3 DEF TypeOK, QueueOK, Seen

LEMMA QueueThrough ==
  ASSUME QInv, Grown, batch # {}, handled' = handled \cup {Current},
         batch' = batch \ {Current}, UNCHANGED <<offset, next>>
  PROVE  QueueOK'
<1>1. TypeOK /\ Seen /\ Len(file) \in Nat
  BY DEF QInv, TypeOK
<1>2. /\ Readable(1, offset)' = Readable(1, offset)
      /\ Readable(offset + 1, next)' = Readable(offset + 1, next)
  <2>1. offset \in 0..Len(file) /\ offset + 1 \in Nat \ {0} /\ next \in 0..Len(file)
    BY <1>1 DEF TypeOK
  <2>2. /\ {i \in 1..offset : i \in DOMAIN file' /\ file'[i].kind # "malformed"} = Readable(1, offset)
        /\ {i \in offset + 1..next : i \in DOMAIN file' /\ file'[i].kind # "malformed"}
             = Readable(offset + 1, next)
    BY <1>1, <2>1, ReadableKept
  <2> QED
    BY <2>2 DEF Readable
<1>3. Len(file') \in Nat /\ Len(file') >= Len(file) /\ DOMAIN file \subseteq DOMAIN file'
  BY DEF Grown
<1>4. Current \in batch /\ Current \in DOMAIN file
  BY <1>1, CurrentJob
<1> QED
  BY <1>1, <1>2, <1>3, <1>4 DEF TypeOK, QueueOK, Seen

LEMMA QueueRestarted ==
  ASSUME QInv, UNCHANGED <<file, cut, handled>>, batch' = {}, next' = offset',
         offset' = offset \/ offset' = 0
  PROVE  QueueOK'
<1>1. Len(file) \in Nat /\ offset \in 0..Len(file) /\ handled \subseteq DOMAIN file
  BY DEF QInv, TypeOK
<1>2. Readable(offset + 1, next)' = {}
  BY <1>1 DEF Readable
<1>3. Readable(1, offset)' \subseteq handled
  BY <1>1 DEF QInv, Seen, Readable
<1> QED
  BY <1>1, <1>2, <1>3 DEF QueueOK, Seen, Readable

\* What a step has to establish.
StepOK == QInv' /\ RowsOK

LEMMA StepFrom ==
  ASSUME QInv, Grown, QueueOK', RowsOK, alive' \in BOOLEAN,
         subs' \in [Agents -> {"running", "completed"}],
         \/ asked' = Null
         \/ /\ asked' \in Row /\ asked'.judge = Null /\ alive' /\ batch' # {}
            /\ Subject' \in Prompts /\ asked' = rows'[Subject']
  PROVE  StepOK
<1>1. TypeOK'
  BY DEF Grown, QueueOK, RowsOK, TypeOK, Lines
<1>2. FinalCountsJudge'
  BY DEF RowsOK, FinalOK, FinalCountsJudge
<1>3. AsksAboutRow' /\ Seen'
  BY DEF AsksAboutRow, QueueOK
<1> QED
  BY <1>1, <1>2, <1>3 DEF StepOK, QInv

\* A step outside the worker: the queue grows, the judge's row stands.
LEMMA OutsideStep ==
  ASSUME QInv, Grown, UNCHANGED <<offset, worker, handled>>, RowsOK,
         subs' \in [Agents -> {"running", "completed"}],
         \A p \in Prompts : rows[p] # Null => rows'[p] = rows[p]
  PROVE  StepOK
<1>1. QueueOK'
  BY QueueKept DEF worker
<1>2. alive' \in BOOLEAN
  BY DEF QInv, TypeOK, worker
<1>3. ASSUME asked # Null
      PROVE  /\ asked' \in Row /\ asked'.judge = Null /\ alive' /\ batch' # {}
             /\ Subject' \in Prompts /\ asked' = rows'[Subject']
  <2>1. /\ asked \in Row /\ alive /\ batch # {} /\ asked.judge = Null
        /\ Subject \in Prompts /\ asked = rows[Subject]
    BY <1>3 DEF QInv, TypeOK, AsksAboutRow
  <2>2. Current \in DOMAIN file
    BY <2>1, CurrentJob DEF QInv
  <2>3. Current' = Current
    BY DEF Current, worker
  <2>4. Subject' = Subject
    BY <2>2, <2>3 DEF Subject, Grown
  <2> QED
    BY <1>3, <2>1, <2>4 DEF worker
<1>4. asked' = asked
  BY DEF worker
<1> QED
  BY <1>1, <1>2, <1>3, <1>4, StepFrom

\* The end of a handler that changes rows as allowed.
LEMMA ThroughStep ==
  ASSUME QInv, batch # {}, NEW lines \in Seq(Lines), Through(lines), RowsOK,
         subs' \in [Agents -> {"running", "completed"}]
  PROVE  StepOK
<1>1. Grown
  BY EnqueueGrows DEF Through, QInv
<1>2. QueueOK'
  BY <1>1, QueueThrough DEF Through
<1>3. alive' \in BOOLEAN /\ asked' = Null
  BY DEF Through, QInv, TypeOK
<1> QED
  BY <1>1, <1>2, <1>3, StepFrom

\* The worker's memory is lost.
LEMMA RestartStep ==
  ASSUME QInv, UNCHANGED <<file, cut, handled, rows, subs>>, batch' = {}, asked' = Null,
         alive' \in BOOLEAN, next' = offset', offset' = offset \/ offset' = 0
  PROVE  StepOK
<1>1. Grown
  BY SameFileGrows DEF QInv
<1>2. QueueOK'
  BY QueueRestarted
<1>3. RowsOK
  BY SameRows
<1>4. subs' \in [Agents -> {"running", "completed"}]
  BY DEF QInv, TypeOK
<1> QED
  BY <1>1, <1>2, <1>3, <1>4, StepFrom

LEMMA EmptyLines == <<>> \in Seq(Lines)
OBVIOUS

LEMMA AgainType ==
  ASSUME QInv, batch # {}
  PROVE  Again \in Seq(Lines)
<1>1. file[Current] \in Job
  BY CurrentJob DEF QInv
<1> DEFINE again == [file[Current] EXCEPT !.attempts = @ + 1]
<1>2. again \in Lines
  BY <1>1 DEF Job, Lines
<1>3. Again = <<again>> \/ Again = <<>>
  BY DEF Again
<1> HIDE DEF again
<1>4. <<again>> \in Seq(Lines)
  BY <1>2
<1> QED
  BY <1>3, <1>4, EmptyLines, Zenon

LEMMA AskedJob ==
  ASSUME QInv, asked # Null
  PROVE  /\ batch # {} /\ alive /\ asked \in Row /\ asked = rows[Subject] /\ asked.judge = Null
         /\ Subject \in Prompts
BY DEF QInv, TypeOK, AsksAboutRow

(***************************************************************************)
(* One lemma per action.                                                   *)
(***************************************************************************)
LEMMA UserPromptSubmitStep ==
  ASSUME QInv, NEW s \in Sessions, NEW h \in Hits, UserPromptSubmit(s, h)
  PROVE  StepOK
<1> DEFINE rule == ComputeRuleScore(h)
           final == ComposeFinalScore(rule, Null, Null, 0, 100)
           row == [hits |-> h, rule |-> rule, usage |-> Null, judge |-> Null,
                   final |-> final, cap |-> Null, confidence |-> Null]
<1>1. PICK t \in 1..MaxTurns : NewTurn(s, t) /\ rows' = [rows EXCEPT ![<<s, t>>] = row]
  BY DEF UserPromptSubmit
<1>2. rule \in Int /\ final \in Int /\ h \in HitCounts
  <2>1. h \in HitCounts
    BY ScoresAssumption
  <2>2. rule \in Int
    BY <2>1, RuleType
  <2> HIDE DEF rule
  <2>3. 100 \in Int /\ Null \in Int \cup {Null}
    OBVIOUS
  <2>4. final \in Int
    BY <2>2, <2>3, FinalType
  <2> QED
    BY <2>1, <2>2, <2>4
<1>3. row \in Row
  <2> HIDE DEF rule, final
  <2> QED
    BY <1>2 DEF Row
<1>4. rows[<<s, t>>] = Null
  BY <1>1 DEF NewTurn
<1>5. FinalOK(row)
  BY DEF FinalOK
<1>6. RowsOK
  <2> HIDE DEF row
  <2> QED
    BY <1>1, <1>3, <1>4, <1>5, OneRow
<1>7. \A p \in Prompts : rows[p] # Null => rows'[p] = rows[p]
  BY <1>1, <1>4 DEF QInv, TypeOK
<1>8. Grown /\ subs' \in [Agents -> {"running", "completed"}]
  BY SameFileGrows DEF UserPromptSubmit, QInv, TypeOK
<1> QED
  BY <1>6, <1>7, <1>8, OutsideStep DEF UserPromptSubmit

LEMMA StopStep ==
  ASSUME QInv, NEW s \in Sessions, NEW transcript \in BOOLEAN, Stop(s, transcript)
  PROVE  StepOK
<1> DEFINE one == Job1("parse_transcript", s)
           two == Job1("session_end", s)
<1>1. one \in Lines /\ two \in Lines
  BY DEF Job1, Job, Lines
<1> HIDE DEF one, two
<1>2. (IF transcript THEN <<one>> ELSE <<>>) \o <<two>> \in Seq(Lines)
  BY <1>1
<1>3. Grown
  BY <1>2, EnqueueGrows DEF Stop, QInv, one, two
<1>4. RowsOK
  BY SameRows DEF Stop, scores
<1> QED
  BY <1>3, <1>4, OutsideStep DEF Stop, scores, QInv, TypeOK

LEMMA SubagentStopStep ==
  ASSUME QInv, NEW a \in Agents, NEW transcript \in BOOLEAN, SubagentStop(a, transcript)
  PROVE  StepOK
<1> DEFINE job == Job1("parse_subagent_transcript", a)
<1>1. job \in Lines
  BY DEF Job1, Job, Lines
<1> HIDE DEF job
<1>2. (IF transcript THEN <<job>> ELSE <<>>) \in Seq(Lines)
  BY <1>1
<1>3. Grown
  BY <1>2, EnqueueGrows DEF SubagentStop, QInv, job
<1>4. RowsOK
  BY SameRows DEF SubagentStop
<1>5. subs' \in [Agents -> {"running", "completed"}]
  BY DEF SubagentStop, QInv, TypeOK
<1> QED
  BY <1>3, <1>4, <1>5, OutsideStep DEF SubagentStop

LEMMA CutLineStep ==
  ASSUME QInv, CutLine
  PROVE  StepOK
<1>1. Grown
  BY CutLineGrows DEF QInv
<1>2. RowsOK
  BY SameRows DEF CutLine, scores
<1> QED
  BY <1>1, <1>2, OutsideStep DEF CutLine, scores, QInv, TypeOK

LEMMA ReadBatchStep ==
  ASSUME QInv, ReadBatch
  PROVE  StepOK
<1>1. Grown /\ RowsOK
  BY SameFileGrows, SameRows DEF ReadBatch, scores, QInv
<1>2. Len(file) \in Nat /\ offset \in 0..Len(file) /\ MaxItems \in Nat /\ next = offset
  BY LimitsAssumption DEF ReadBatch, Idle, QInv, TypeOK
<1>3. NewOffset \in offset..Len(file)
  BY <1>2 DEF NewOffset, Least
<1>4. QueueOK'
  BY <1>2, <1>3 DEF ReadBatch, QueueOK, QInv, TypeOK, Seen, Readable
<1>5. alive' \in BOOLEAN /\ asked' = Null /\ subs' \in [Agents -> {"running", "completed"}]
  BY DEF ReadBatch, Idle, scores, QInv, TypeOK
<1> QED
  BY <1>1, <1>4, <1>5, StepFrom

LEMMA CommitStep ==
  ASSUME QInv, Commit
  PROVE  StepOK
<1>1. Grown /\ RowsOK
  BY SameFileGrows, SameRows DEF Commit, scores, QInv
<1>2. Len(file) \in Nat /\ offset \in 0..Len(file) /\ next \in offset..Len(file)
  BY DEF QInv, TypeOK
<1>3. QueueOK'
  BY <1>2 DEF Commit, worker, QueueOK, QInv, TypeOK, Seen, Readable
<1>4. alive' \in BOOLEAN /\ asked' = Null /\ subs' \in [Agents -> {"running", "completed"}]
  BY DEF Commit, worker, scores, QInv, TypeOK
<1> QED
  BY <1>1, <1>3, <1>4, StepFrom

LEMMA ParseTranscriptStep ==
  ASSUME QInv, ParseTranscript
  PROVE  StepOK
<1>1. batch # {} /\ Rescore(Turns(Subject)) /\ Through(<<>>)
  BY DEF ParseTranscript, Working
<1>2. RowsOK
  BY <1>1, RescoreRows
<1> QED
  BY <1>1, <1>2, EmptyLines, ThroughStep DEF ParseTranscript, QInv, TypeOK

LEMMA ThrowsStep ==
  ASSUME QInv, Throws
  PROVE  StepOK
<1>1. batch # {} /\ Again \in Seq(Lines)
  BY AgainType DEF Throws
<1>2. Grown
  BY <1>1, EnqueueGrows DEF Throws, QInv
<1>3. QueueOK'
  BY <1>1, <1>2, QueueThrough DEF Throws
<1>4. RowsOK
  <2>1. CASE file[Current].kind = "parse_transcript"
    <3>1. PICK n \in 0..MaxTurns : Rescore({t \in Turns(Subject) : t < n})
      BY <2>1 DEF Throws
    <3> QED
      BY <3>1, RescoreRows
  <2>2. CASE file[Current].kind # "parse_transcript"
    BY <2>2, SameRows DEF Throws
  <2> QED
    BY <2>1, <2>2
<1>5. alive' \in BOOLEAN /\ asked' = Null /\ subs' \in [Agents -> {"running", "completed"}]
  BY DEF Throws, QInv, TypeOK
<1> QED
  BY <1>2, <1>3, <1>4, <1>5, StepFrom

LEMMA ParseSubagentStep ==
  ASSUME QInv, ParseSubagent
  PROVE  StepOK
<1>1. batch # {} /\ RowsOK
  BY SameRows DEF ParseSubagent, Working
<1>2. subs' \in [Agents -> {"running", "completed"}]
  BY DEF ParseSubagent, QInv, TypeOK
<1> QED
  BY <1>1, <1>2, EmptyLines, ThroughStep DEF ParseSubagent

\* Handlers that leave the rows alone and append nothing.
LEMMA QuietStep ==
  ASSUME QInv, NoTranscript \/ JudgeSkips \/ JudgeUnreadable
  PROVE  StepOK
<1>1. batch # {}
  BY AskedJob DEF NoTranscript, JudgeSkips, JudgeUnreadable, Working
<1>2. Through(<<>>) /\ UNCHANGED scores
  BY DEF NoTranscript, JudgeSkips, JudgeUnreadable
<1>3. RowsOK /\ subs' \in [Agents -> {"running", "completed"}]
  BY <1>2, SameRows DEF scores, QInv, TypeOK
<1> QED
  BY <1>1, <1>2, <1>3, EmptyLines, ThroughStep

LEMMA SessionEndStep ==
  ASSUME QInv, SessionEnd
  PROVE  StepOK
<1>1. batch # {} /\ RowsOK /\ subs' \in [Agents -> {"running", "completed"}]
  BY SameRows DEF SessionEnd, Working, scores, QInv, TypeOK
<1>2. CASE Judging
  <2>1. PICK q \in Selected(Subject) :
          Through([i \in DOMAIN q |-> Job1("judge", <<Subject, q[i]>>)])
    BY <1>2 DEF SessionEnd
  <2> DEFINE n == Least(JudgeLimit, Cardinality(Doubtful(Subject)))
  <2>2. n \in Nat
    <3>1. Doubtful(Subject) \subseteq 1..MaxTurns
      BY DEF Doubtful, Turns
    <3>2. IsFiniteSet(1..MaxTurns)
      BY LimitsAssumption, FS_Interval
    <3>3. Cardinality(Doubtful(Subject)) \in Nat
      BY <3>1, <3>2, FS_Subset, FS_CardinalityType
    <3> QED
      BY <3>3, LimitsAssumption DEF Least
  <2>3. q \in [1..n -> Doubtful(Subject)]
    BY DEF Selected
  <2>4. Subject \in Sessions
    <3>1. file[Current] \in Job /\ file[Current].kind = "session_end"
      BY CurrentJob DEF SessionEnd, Working, QInv
    <3> QED
      BY <3>1 DEF Job, Subject
  <2>5. \A i \in 1..n : Job1("judge", <<Subject, q[i]>>) \in Lines
    <3>1. \A i \in 1..n : <<Subject, q[i]>> \in Prompts
      BY <2>3, <2>4 DEF Doubtful, Turns, Prompts
    <3> HIDE DEF n
    <3> QED
      BY <3>1 DEF Job1, Job, Lines
  <2>6. [i \in DOMAIN q |-> Job1("judge", <<Subject, q[i]>>)] \in Seq(Lines)
    <3> HIDE DEF n
    <3>1. DOMAIN q = 1..n
      BY <2>3
    <3> QED
      BY <2>2, <2>5, <3>1
  <2> QED
    BY <1>1, <2>1, <2>6, ThroughStep
<1>3. CASE ~Judging
  BY <1>1, <1>3, EmptyLines, ThroughStep DEF SessionEnd
<1> QED
  BY <1>2, <1>3

LEMMA JudgeAsksStep ==
  ASSUME QInv, JudgeAsks
  PROVE  StepOK
<1>1. Grown /\ RowsOK
  BY SameFileGrows, SameRows DEF JudgeAsks, scores, QInv
<1>2. QueueOK'
  BY <1>1, QueueKept DEF JudgeAsks
<1>3. batch # {} /\ alive /\ rows[Subject] # Null /\ rows[Subject].judge = Null
  BY DEF JudgeAsks, Working, Open
<1>4. Subject \in Prompts
  <2>1. file[Current] \in Job /\ file[Current].kind = "judge"
    BY <1>3, CurrentJob DEF JudgeAsks, Working, QInv
  <2> QED
    BY <2>1 DEF Job, Subject
<1>5. rows[Subject] \in Row
  BY <1>3, <1>4 DEF QInv, TypeOK
<1>6. Subject' = Subject
  BY DEF JudgeAsks, Subject, Current
<1>7. alive' \in BOOLEAN /\ subs' \in [Agents -> {"running", "completed"}]
  BY DEF JudgeAsks, scores, QInv, TypeOK
<1>8. /\ asked' \in Row /\ asked'.judge = Null /\ alive' /\ batch' # {}
      /\ Subject' \in Prompts /\ asked' = rows'[Subject']
  BY <1>3, <1>4, <1>5, <1>6 DEF JudgeAsks, scores
<1> QED
  BY <1>1, <1>2, <1>7, <1>8, StepFrom

LEMMA JudgeAnswersStep ==
  ASSUME QInv, JudgeAnswers
  PROVE  StepOK
<1>1. PICK score \in JudgeScores, hit \in BOOLEAN :
        rows' = [rows EXCEPT ![Subject] = Judged(WithHit(@, hit), score)]
  BY DEF JudgeAnswers
<1>2. /\ batch # {} /\ asked \in Row /\ asked = rows[Subject] /\ asked.judge = Null
      /\ Subject \in Prompts
  BY AskedJob DEF JudgeAnswers
<1> DEFINE old == WithHit(rows[Subject], hit)
           final == ComposeFinalScore(asked.rule, asked.usage, score, 0, 100)
           new == Judged(old, score)
<1>3. old \in Row /\ old.rule = asked.rule /\ old.usage = asked.usage
  BY <1>2, WithHitType
<1>4. score \in Int
  BY ScoresAssumption
<1>5. final \in Int
  <2>1. asked.rule \in Int /\ asked.usage \in Int \cup {Null} /\ 100 \in Int
    BY <1>2 DEF Row
  <2>2. score \in Int \cup {Null}
    BY <1>4
  <2> QED
    BY <2>1, <2>2, FinalType
<1>6. new = [old EXCEPT !.judge = score, !.final = final]
  BY DEF Judged
<1> HIDE DEF old, final, new
<1>7. /\ new \in Row /\ new.judge = score /\ new.final = final
      /\ new.rule = old.rule /\ new.usage = old.usage
  BY <1>3, <1>4, <1>5, <1>6 DEF Row
<1>8. FinalOK(new)
  BY <1>3, <1>7 DEF FinalOK, final
<1>9. rows' = [rows EXCEPT ![Subject] = new]
  BY <1>1 DEF new, old
<1>10. RowsOK
  BY <1>2, <1>7, <1>8, <1>9, OneRow
<1> QED
  BY <1>2, <1>10, EmptyLines, ThroughStep DEF JudgeAnswers, QInv, TypeOK

LEMMA JudgeFailsStep ==
  ASSUME QInv, JudgeFails
  PROVE  StepOK
<1>1. PICK hit \in BOOLEAN : rows' = [rows EXCEPT ![Subject] = WithHit(@, hit)]
  BY DEF JudgeFails
<1>2. /\ batch # {} /\ asked \in Row /\ asked = rows[Subject] /\ Subject \in Prompts
  BY AskedJob DEF JudgeFails
<1> DEFINE new == WithHit(rows[Subject], hit)
<1>3. /\ new \in Row /\ new.judge = rows[Subject].judge /\ new.usage = rows[Subject].usage
      /\ new.rule = rows[Subject].rule /\ new.final = rows[Subject].final
      /\ CapFor(new.hits) = CapFor(rows[Subject].hits)
  BY <1>2, WithHitType
<1>4. rows' = [rows EXCEPT ![Subject] = new]
  BY <1>1
<1>5. FinalOK(rows[Subject])
  BY <1>2, NoRowAssumption DEF QInv, FinalCountsJudge, FinalOK
<1> HIDE DEF new
<1>6. FinalOK(new)
  BY <1>3, <1>5 DEF FinalOK
<1>7. RowsOK
  BY <1>3, <1>4, <1>6, OneRow
<1> QED
  BY <1>2, <1>7, AgainType, ThroughStep DEF JudgeFails, QInv, TypeOK

\* The steps that lose the worker's memory.
LEMMA LossStep ==
  ASSUME QInv, Restart \/ OffsetLost \/ LoopEnds
  PROVE  StepOK
<1>1. CASE Restart
  BY <1>1, RestartStep DEF Restart, Restarted, scores
<1>2. CASE OffsetLost
  BY <1>2, RestartStep DEF OffsetLost, Restarted, scores
<1>3. CASE LoopEnds
  BY <1>3, RestartStep DEF LoopEnds, scores
<1> QED
  BY <1>1, <1>2, <1>3

-----------------------------------------------------------------------------
LEMMA InitQInv == Init => QInv
<1> SUFFICES ASSUME Init PROVE QInv
  OBVIOUS
<1>1. TypeOK
  <2>1. file \in Seq(Job \cup {Malformed}) /\ Len(file) = 0
    BY DEF Init
  <2>2. rows \in [Prompts -> Row \cup {Null}]
    BY DEF Init
  <2>3. subs \in [Agents -> {"running", "completed"}]
    BY DEF Init
  <2>4. cut \in BOOLEAN /\ alive \in BOOLEAN /\ asked = Null
    BY DEF Init
  <2>5. /\ offset \in 0..Len(file) /\ next \in offset..Len(file)
        /\ batch \subseteq Readable(offset + 1, next) /\ handled \subseteq DOMAIN file
    BY <2>1 DEF Init
  <2> QED
    BY <2>1, <2>2, <2>3, <2>4, <2>5 DEF TypeOK
<1>2. Seen
  BY DEF Init, Seen, Readable
<1>3. AsksAboutRow /\ FinalCountsJudge
  BY DEF Init, AsksAboutRow, FinalCountsJudge
<1> QED
  BY <1>1, <1>2, <1>3 DEF QInv

LEMMA NextStep ==
  ASSUME QInv, [Next]_vars
  PROVE  QInv' /\ RowsOK
<1>1. CASE Hook
  <2>1. CASE \E s \in Sessions, h \in Hits : UserPromptSubmit(s, h)
    BY <2>1, UserPromptSubmitStep DEF StepOK
  <2>2. CASE \E s \in Sessions, transcript \in BOOLEAN : Stop(s, transcript)
    BY <2>2, StopStep DEF StepOK
  <2>3. CASE \E a \in Agents, transcript \in BOOLEAN : SubagentStop(a, transcript)
    BY <2>3, SubagentStopStep DEF StepOK
  <2> QED
    BY <1>1, <2>1, <2>2, <2>3 DEF Hook
<1>2. CASE Handle
  BY <1>2, ParseTranscriptStep, ParseSubagentStep, QuietStep, SessionEndStep, JudgeAsksStep,
     JudgeAnswersStep, JudgeFailsStep DEF Handle, StepOK
<1>3. CASE ReadBatch \/ Commit \/ CutLine \/ Throws
  BY <1>3, ReadBatchStep, CommitStep, CutLineStep, ThrowsStep DEF StepOK
<1>4. CASE Restart \/ OffsetLost \/ LoopEnds
  BY <1>4, LossStep DEF StepOK
<1>5. CASE UNCHANGED vars
  <2>1. RowsOK
    BY <1>5, SameRows DEF vars
  <2>2. QInv'
    BY <1>5 DEF vars, QInv, TypeOK, Seen, AsksAboutRow, FinalCountsJudge, Readable, Subject, Current
  <2> QED
    BY <2>1, <2>2
<1> QED
  BY <1>1, <1>2, <1>3, <1>4, <1>5 DEF Next

THEOREM QInvHolds == Spec => []QInv
<1>1. QInv /\ [Next]_vars => QInv'
  BY NextStep
<1> QED
  BY <1>1, InitQInv, PTL DEF Spec

(* Every state of the queue has the shape the worker relies on, for any    *)
(* sessions, limits and answers.                                           *)
THEOREM QueueTypeCorrect == Spec => []TypeOK
<1>1. QInv => TypeOK
  BY DEF QInv
<1> QED
  BY <1>1, QInvHolds, PTL

(* No job is passed over, however often the server stops, the offset file  *)
(* is lost, a line is cut short or a handler fails.                        *)
THEOREM NothingIsSkipped == Spec => []NothingSkipped
<1>1. QInv => NothingSkipped
  BY DEF QInv, Seen, NothingSkipped
<1> QED
  BY <1>1, QInvHolds, PTL

(* The final score counts what the judge said, in whatever order the       *)
(* transcript and the judge came.                                          *)
THEOREM FinalCountsTheJudge == Spec => []FinalCountsJudge
<1>1. QInv => FinalCountsJudge
  BY DEF QInv
<1> QED
  BY <1>1, QInvHolds, PTL

(* What the judge said of a prompt never changes: the row is read before   *)
(* the judge is asked, and nothing can judge it before the answer comes.   *)
THEOREM JudgedForGood == Spec => JudgeIsFinal
<1> DEFINE Stands == \A p \in Prompts : (rows[p] # Null /\ rows[p].judge # Null)
                                    => (rows'[p] # Null /\ rows'[p].judge = rows[p].judge)
<1>1. QInv /\ [Next]_vars => [Stands]_vars
  BY NextStep DEF RowsOK
<1> QED
  BY <1>1, QInvHolds, PTL DEF Spec, JudgeIsFinal

-----------------------------------------------------------------------------
(***************************************************************************)
(* What is proved of the board holds in MCHooks, where the board is one of *)
(* two worlds: a behaviour of MCHooks, seen through the board's variables, *)
(* is one of AgentBoard.  The instance that AgentBoardProofs is about and  *)
(* the one MCHooks runs are the same formulas, action by action.           *)
(***************************************************************************)

Proved == INSTANCE AgentBoardProofs WITH Ids <- Sessions

LEMMA SameInit == Board!Init = Proved!Init
  BY DEF Board!Init, Proved!Init, Board!Absent, Proved!Absent

LEMMA SameStart ==
  ASSUME NEW i
  PROVE  Board!Start(i) = Proved!Start(i)
  BY DEF Board!Start, Proved!Start, Board!Room, Proved!Room, Board!Created,
         Proved!Created, Board!Broadcast, Proved!Broadcast, Board!client,
         Proved!client

LEMMA SameEnd ==
  ASSUME NEW i
  PROVE  Board!End(i) = Proved!End(i)
  BY DEF Board!End, Proved!End, Board!Absent, Proved!Absent, Board!Ended,
         Proved!Ended, Board!Scheduled, Proved!Scheduled, Board!client,
         Proved!client

LEMMA SameDespawnFires ==
  ASSUME NEW i
  PROVE  Board!DespawnFires(i) = Proved!DespawnFires(i)
  BY DEF Board!DespawnFires, Proved!DespawnFires, Board!Absent, Proved!Absent,
         Board!Farewell, Proved!Farewell, Board!Broadcast, Proved!Broadcast,
         Board!client, Proved!client

LEMMA SameRemoveAgent ==
  ASSUME NEW i
  PROVE  Board!RemoveAgent(i) = Proved!RemoveAgent(i)
  BY DEF Board!RemoveAgent, Proved!RemoveAgent, Board!Room, Proved!Room,
         Board!Absent, Proved!Absent, Board!Farewell, Proved!Farewell,
         Board!Broadcast, Proved!Broadcast, Board!client, Proved!client

LEMMA SamePrune ==
  ASSUME NEW i
  PROVE  Board!Prune(i) = Proved!Prune(i)
  BY DEF Board!Prune, Proved!Prune, Board!Absent, Proved!Absent, Board!server,
         Proved!server

LEMMA SameHook ==
  ASSUME NEW i, NEW e, NEW asks
  PROVE  Board!Hook(i, e, asks) = Proved!Hook(i, e, asks)
  BY DEF Board!Hook, Proved!Hook, Board!Room, Proved!Room, Board!Absent,
         Proved!Absent, Board!Transition, Proved!Transition, Board!Effective,
         Proved!Effective, Board!Moves, Proved!Moves, Board!Live, Proved!Live,
         Board!Announced, Proved!Announced, Board!Broadcast, Proved!Broadcast,
         Board!client, Proved!client

LEMMA SameRestart == Board!Restart = Proved!Restart
  BY DEF Board!Restart, Proved!Restart, Board!Absent, Proved!Absent, Board!client,
         Proved!client

LEMMA SameConnect == Board!Connect = Proved!Connect
  BY DEF Board!Connect, Proved!Connect, Board!server, Proved!server, Board!client,
         Proved!client

LEMMA SameDisconnect == Board!Disconnect = Proved!Disconnect
  BY DEF Board!Disconnect, Proved!Disconnect, Board!server, Proved!server,
         Board!client, Proved!client

LEMMA SameReceive == Board!Receive = Proved!Receive
  BY DEF Board!Receive, Proved!Receive, Board!Shown, Proved!Shown, Board!Snapshot,
         Proved!Snapshot, Board!Absent, Proved!Absent, Board!server, Proved!server

LEMMA SameRendered == Board!Rendered = Proved!Rendered
  BY DEF Board!Rendered, Proved!Rendered, Board!Despawning, Proved!Despawning,
         Board!server, Proved!server

LEMMA SameEvents == Board!HookEvents = Proved!HookEvents
  BY DEF Board!HookEvents, Proved!HookEvents, Board!Moves, Proved!Moves, Board!Live, Proved!Live

LEMMA SameNext == Board!Next = Proved!Next
  BY SameEvents, SameStart, SameEnd, SameDespawnFires, SameRemoveAgent, SamePrune, SameHook,
     SameRestart, SameConnect, SameDisconnect, SameReceive, SameRendered
     DEF Board!Next, Proved!Next

-----------------------------------------------------------------------------
(* A behaviour of MCHooks is one of the board.                             *)
LEMMA HooksRunTheBoard == MCSpec => Proved!Spec
<1>1. MCInit => Proved!Init
  BY SameInit DEF MCInit
<1>2. [MCNext]_<<world, vars, board>> => [Proved!Next]_(Proved!vars)
  <2>1. CASE UNCHANGED board
    BY <2>1 DEF board, Proved!vars
  <2>2. CASE Board!Next
    BY <2>2, SameNext
  <2>3. CASE UNCHANGED <<world, vars, board>>
    BY <2>3 DEF board, Proved!vars
  <2> QED
    BY <2>1, <2>2, <2>3 DEF MCNext
<1> QED
  BY <1>1, <1>2, PTL DEF MCSpec, Proved!Spec

(* Beside the prompt queue, too, a dashboard that has read everything      *)
(* shows no agent the server does not have (wsServer.ts, useWebSocket.ts). *)
THEOREM HooksLeaveNoGhosts == MCSpec => []NoGhosts
<1>1. Proved!NoGhosts => NoGhosts
  BY DEF NoGhosts, Board!NoGhosts, Proved!NoGhosts, Board!UpToDate, Proved!UpToDate,
         Board!Absent, Proved!Absent
<1> QED
  BY <1>1, HooksRunTheBoard, Proved!NoGhostIsShown, PTL

(* It shows every live agent it knows as the server has it.                *)
THEOREM HooksKeepTheViewCurrent == MCSpec => []ViewIsCurrent
<1>1. Proved!ViewIsCurrent => ViewIsCurrent
  BY DEF ViewIsCurrent, Board!ViewIsCurrent, Proved!ViewIsCurrent, Board!UpToDate,
         Proved!UpToDate, Board!Absent, Proved!Absent, Board!Live, Proved!Live
<1> QED
  BY <1>1, HooksRunTheBoard, Proved!ShownIsCurrent, PTL

(* An ended agent always has a timer that takes it off (index.ts:338).     *)
THEOREM HooksTimeEveryEnd == MCSpec => []EndedHasTimer
<1>1. Proved!EndedHasTimer => EndedHasTimer
  BY DEF EndedHasTimer, Board!EndedHasTimer, Proved!EndedHasTimer
<1> QED
  BY <1>1, HooksRunTheBoard, Proved!EndedIsOnItsWayOut, PTL
=============================================================================
