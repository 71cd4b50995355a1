---------------------------- MODULE PromptQueue ----------------------------
(***************************************************************************)
(* The prompt analysis queue: hooks append jobs to queue.jsonl             *)
(* (packages/prompt-agent/src/subsystem.ts, packages/prompt-core/src/      *)
(* queue.ts), one worker loop in the server reads them in batches from the *)
(* offset kept in queue.offset and runs their handlers                     *)
(* (packages/prompt-worker/src/index.ts and jobs.ts), which score the      *)
(* prompts of a session and ask a model to judge the doubtful ones.        *)
(*                                                                         *)
(* An offset is a number of lines here: the code counts the UTF-16 units   *)
(* of the lines it has read, a newline each, and slices by the same unit.  *)
(* A line that was cut short (a full disk) spoils the line appended next.  *)
(***************************************************************************)
EXTENDS Scoring, Sequences, FiniteSets

CONSTANTS
  Sessions, Agents,
  Hits,          \* what the rules may find in a prompt: a set of HitCounts
  UsageScores,   \* what a transcript may say of a prompt: scores, or Null
  JudgeScores,   \* what the judge may answer
  Averages,      \* what the user's baseline may be: an average, or Null
  Judging,       \* is the judge enabled, with a key?
  Threshold,     \* judge_threshold_score
  MaxItems, MaxAttempts, JudgeLimit,
  MaxTurns, MaxStops, MaxFaults   \* bounds: prompts and stops of a session, faults

ASSUME ScoresAssumption == /\ Hits \subseteq HitCounts
                           /\ UsageScores \subseteq Nat \cup {Null}
                           /\ JudgeScores \subseteq Nat
                           /\ Averages \subseteq Int \cup {Null}
                           /\ Threshold \in Int
ASSUME LimitsAssumption == /\ MaxItems \in Nat \ {0}
                           /\ MaxAttempts \in Nat \ {0}
                           /\ JudgeLimit \in Nat
                           /\ MaxTurns \in Nat
                           /\ Judging \in BOOLEAN

VARIABLES
  file,     \* queue.jsonl: every line ever appended
  cut,      \* is the last line of the file cut short?
  offset,   \* queue.offset: the lines that are done with
  alive,    \* does the worker's loop run?
  batch,    \* the lines of the batch whose jobs are still to be handled
  next,     \* the offset to commit once the batch is handled
  asked,    \* the row the judge was asked about, Null while it is not asked
  rows,     \* quality_scores and rule_hits, per prompt
  subs,     \* subagent_invocations.status, per agent
  handled,  \* history: the lines whose handler has run to its end
  stops, faults

vars == <<file, cut, offset, alive, batch, next, asked, rows, subs, handled, stops, faults>>

worker == <<alive, batch, next, asked>>
scores == <<rows, subs>>
bounds == <<stops, faults>>

Prompts == Sessions \X (1..MaxTurns)

Job == [kind : {"parse_transcript", "session_end"}, of : Sessions, attempts : Nat]
  \cup [kind : {"judge"}, of : Prompts, attempts : Nat]
  \cup [kind : {"parse_subagent_transcript"}, of : Agents, attempts : Nat]

Malformed == [kind |-> "malformed"]

Row == [hits : HitCounts, rule : Int, usage : Int \cup {Null}, judge : Int \cup {Null},
        final : Int, cap : Int \cup {Null}, confidence : {"low", "medium", "high", Null}]

\* A score that is not there is no row either.
ASSUME NoRowAssumption == Null \notin Row

Job1(kind, of) == [kind |-> kind, of |-> of, attempts |-> 0]

\* The prompts of a session that are stored; turn_index counts them up.
Turns(s) == {t \in 1..MaxTurns : rows[<<s, t>>] # Null}

-----------------------------------------------------------------------------
Init == /\ file = <<>> /\ cut = FALSE /\ offset = 0
        /\ alive = TRUE /\ batch = {} /\ next = 0 /\ asked = Null
        /\ rows = [p \in Prompts |-> Null]
        /\ subs = [a \in Agents |-> "running"]
        /\ handled = {}
        /\ stops = [s \in Sessions |-> 0] /\ faults = 0

(* Appending.                                                              *)

\* What lines look like in the file: the first one after a cut line is
\* glued to it.
Written(lines) == IF cut /\ lines # <<>> THEN <<Malformed>> \o Tail(lines) ELSE lines

Enqueue(lines) == /\ file' = file \o Written(lines)
                  /\ cut' = (cut /\ lines = <<>>)

\* COALESCE(new, old): a column that is not given keeps its value.
Kept(new, old) == IF new = Null THEN old ELSE new

-----------------------------------------------------------------------------
(* Hooks (ingest), each of them synchronous.  The worker shares the        *)
(* server's thread, so a hook comes when its loop waits: for the timer of  *)
(* an empty queue, for the judge, or for the import in session_end.        *)

\* The lines of the file from one to another whose job can be read.
Readable(from, to) == {i \in from..to : i \in DOMAIN file /\ file[i].kind # "malformed"}

\* Mutant: a batch ends at its first malformed line.
NewOffsetMutant == CHOOSE n \in offset..Least(Len(file), offset + MaxItems) :
  /\ \A i \in offset + 1..n : file[i].kind # "malformed"
  /\ n = Least(Len(file), offset + MaxItems) \/ file[n + 1].kind = "malformed"

\* The offset after a batch of at most MaxItems lines, malformed ones included.
NewOffset == Least(Len(file), offset + MaxItems)

\* The job at hand: the first of the batch that is still to be handled.
Current == CHOOSE i \in batch : \A j \in batch : i <= j

Idle == alive /\ batch = {} /\ next = offset

Waits == \/ ~alive
         \/ Idle /\ Readable(offset + 1, NewOffset) = {}
         \/ asked # Null
         \/ batch # {} /\ file[Current].kind = "session_end"

\* The turn_index is the next after those stored.
NewTurn(s, t) == rows[<<s, t>>] = Null /\ \A u \in 1..(t - 1) : rows[<<s, u>>] # Null

UserPromptSubmit(s, h) ==
  LET rule == ComputeRuleScore(h)
      row == [hits |-> h, rule |-> rule, usage |-> Null, judge |-> Null,
              final |-> ComposeFinalScore(rule, Null, Null, 0, 100),
              cap |-> Null, confidence |-> Null]
  IN /\ \E t \in 1..MaxTurns : NewTurn(s, t) /\ rows' = [rows EXCEPT ![<<s, t>>] = row]
     /\ UNCHANGED <<file, cut, offset, worker, subs, handled, bounds>>

\* The end of every turn; a session without a transcript is not parsed.
Stop(s, transcript) ==
  /\ stops[s] < MaxStops
  /\ stops' = [stops EXCEPT ![s] = @ + 1]
  /\ Enqueue((IF transcript THEN <<Job1("parse_transcript", s)>> ELSE <<>>)
             \o <<Job1("session_end", s)>>)
  /\ UNCHANGED <<offset, worker, scores, handled, faults>>

\* SubagentStart and upsertSubagent only see to it that there is a row.
SubagentStop(a, transcript) ==
  /\ subs[a] = "running"
  /\ ~\E i \in DOMAIN file : file[i].kind = "parse_subagent_transcript" /\ file[i].of = a
  /\ subs' = [subs EXCEPT ![a] = IF transcript THEN "running" ELSE "completed"]
  /\ Enqueue(IF transcript THEN <<Job1("parse_subagent_transcript", a)>> ELSE <<>>)
  /\ UNCHANGED <<offset, worker, rows, handled, bounds>>

\* The disk is full in the middle of a line; ingest swallows the exception.
CutLine ==
  /\ faults < MaxFaults
  /\ faults' = faults + 1
  /\ file' = IF cut THEN file ELSE Append(file, Malformed)
  /\ cut' = TRUE
  /\ UNCHANGED <<offset, worker, scores, handled, stops>>

-----------------------------------------------------------------------------
(* The worker's loop.                                                      *)

\* readPendingJobs; with no job to handle the loop sleeps and commits nothing.
ReadBatch ==
  /\ Idle
  /\ Readable(offset + 1, NewOffset) # {}
  /\ batch' = Readable(offset + 1, NewOffset)
  /\ next' = NewOffset
  /\ UNCHANGED <<file, cut, offset, alive, asked, scores, handled, bounds>>

Commit ==
  /\ alive /\ batch = {} /\ next # offset
  /\ offset' = next
  /\ UNCHANGED <<file, cut, worker, scores, handled, bounds>>

Working(kind) == alive /\ asked = Null /\ batch # {} /\ file[Current].kind = kind

Subject == file[Current].of

\* The handler of the current job is through, with these lines appended.
Through(lines) == /\ handled' = handled \cup {Current}
                  /\ batch' = batch \ {Current}
                  /\ asked' = Null
                  /\ Enqueue(lines)
                  /\ UNCHANGED <<offset, alive, next, bounds>>

\* "retry", or an exception: the job again, as long as it has attempts left.
Again == LET job == file[Current]
         IN IF job.attempts + 1 < MaxAttempts
            THEN <<[job EXCEPT !.attempts = @ + 1]>> ELSE <<>>

(* parse_transcript: rescore every prompt of the session.                  *)

\* Mutant: the judge's part is left out of the sum (the column is kept).
RescoredMutant(row, usage, average) ==
  LET cap == CapFor(row.hits)
      final == ComposeFinalScore(row.rule, usage, Null, 0, cap)
      delta == IF average = Null THEN Null ELSE final - average
  IN [row EXCEPT !.usage = Kept(usage, @),
                 !.final = final,
                 !.cap = Kept(IF cap < 100 THEN cap ELSE Null, @),
                 !.confidence = ComputeConfidence(MaxSeverity(row.hits), usage, row.judge, delta)]

Rescored(row, usage, average) ==
  LET cap == CapFor(row.hits)
      final == ComposeFinalScore(row.rule, usage, row.judge, 0, cap)
      delta == IF average = Null THEN Null ELSE final - average
  IN [row EXCEPT !.usage = Kept(usage, @),
                 !.final = final,
                 !.cap = Kept(IF cap < 100 THEN cap ELSE Null, @),
                 !.confidence = ComputeConfidence(MaxSeverity(row.hits), usage, row.judge, delta)]

\* Some turns of the session, scored one after the other.
Rescore(turns) ==
  \E average \in Averages, usage \in [turns -> UsageScores] :
    rows' = [p \in Prompts |-> IF p[1] = Subject /\ p[2] \in turns
                               THEN Rescored(rows[p], usage[p[2]], average) ELSE rows[p]]

ParseTranscript == /\ Working("parse_transcript")
                   /\ Rescore(Turns(Subject))
                   /\ Through(<<>>)
                   /\ UNCHANGED subs

\* A handler throws (the database is locked): before it changed anything, or
\* between two turns of a transcript.
Throws ==
  /\ alive /\ asked = Null /\ batch # {}
  /\ faults < MaxFaults
  /\ faults' = faults + 1
  /\ IF file[Current].kind = "parse_transcript"
     THEN \E n \in 0..MaxTurns : Rescore({t \in Turns(Subject) : t < n})
     ELSE UNCHANGED rows
  /\ handled' = handled \cup {Current}
  /\ batch' = batch \ {Current}
  /\ Enqueue(Again)
  /\ UNCHANGED <<offset, alive, next, asked, subs, stops>>

(* parse_subagent_transcript *)
ParseSubagent ==
  /\ Working("parse_subagent_transcript")
  /\ subs' = [subs EXCEPT ![Subject] = "completed"]
  /\ Through(<<>>)
  /\ UNCHANGED rows

\* A transcript that is missing or cannot be parsed: the job is dropped.
NoTranscript ==
  /\ Working("parse_transcript") \/ Working("parse_subagent_transcript")
  /\ Through(<<>>)
  /\ UNCHANGED scores

(* session_end: ask the judge about the doubtful prompts.                  *)

Doubtful(s) == {t \in Turns(s) : LET row == rows[<<s, t>>]
                                 IN /\ row.judge = Null
                                    /\ \/ row.confidence = "low"
                                       \/ row.confidence = Null /\ row.final < Threshold}

\* The first JudgeLimit of them, in whatever order the database returns them.
Selected(s) == LET n == Least(JudgeLimit, Cardinality(Doubtful(s)))
               IN {q \in [1..n -> Doubtful(s)] : \A i, j \in 1..n : i # j => q[i] # q[j]}

SessionEnd ==
  /\ Working("session_end")
  /\ IF Judging
     THEN \E q \in Selected(Subject) :
            Through([i \in DOMAIN q |-> Job1("judge", <<Subject, q[i]>>)])
     ELSE Through(<<>>)
  /\ UNCHANGED scores

(* judge: the row is read before the model is asked.                       *)

\* Mutant: nobody looks whether the prompt was judged meanwhile.
OpenMutant(row) == Judging /\ row # Null

\* Is there anything to ask the judge?
Open(row) == Judging /\ row # Null /\ row.judge = Null

JudgeAsks == /\ Working("judge") /\ Open(rows[Subject])
             /\ asked' = rows[Subject]
             /\ UNCHANGED <<file, cut, offset, alive, batch, next, scores, handled, bounds>>

JudgeSkips == Working("judge") /\ ~Open(rows[Subject]) /\ Through(<<>>) /\ UNCHANGED scores

\* Hits the judge reports are stored with severity 2, each kind once.
WithHit(row, hit) == IF hit /\ row.hits[2] = 0 THEN [row EXCEPT !.hits[2] = 1] ELSE row

\* composeFinalScore is called without severities, so no cap applies.
Judged(row, score) == [row EXCEPT !.judge = score,
                         !.final = ComposeFinalScore(asked.rule, asked.usage, score, 0, 100)]

JudgeAnswers ==
  /\ asked # Null
  /\ \E score \in JudgeScores, hit \in BOOLEAN :
       rows' = [rows EXCEPT ![Subject] = Judged(WithHit(@, hit), score)]
  /\ Through(<<>>)
  /\ UNCHANGED subs

JudgeUnreadable == asked # Null /\ Through(<<>>) /\ UNCHANGED scores

\* The request fails, or the database does after the hits were stored.
JudgeFails == /\ asked # Null
              /\ \E hit \in BOOLEAN : rows' = [rows EXCEPT ![Subject] = WithHit(@, hit)]
              /\ Through(Again)
              /\ UNCHANGED subs

-----------------------------------------------------------------------------
(* Stops and failures of the server.                                       *)

Fault == faults < MaxFaults /\ faults' = faults + 1

\* Mutant: the batch in hand is committed on the way out.
RestartedMutant(from) == /\ alive' = TRUE /\ batch' = {} /\ asked' = Null
                         /\ offset' = next /\ next' = next

\* The worker's memory is gone; the offset file says where it goes on.
Restarted(from) == /\ alive' = TRUE /\ batch' = {} /\ asked' = Null
                   /\ offset' = from /\ next' = from

\* shutdown() does not wait for the loop, and a crash may come anywhere.
Restart == /\ Fault
           /\ Restarted(offset)
           /\ UNCHANGED <<file, cut, scores, handled, stops>>

\* writeFileSync was stopped after it truncated the file: no number is read as 0.
OffsetLost == /\ Fault
              /\ alive /\ batch = {} /\ next # offset
              /\ Restarted(0)
              /\ UNCHANGED <<file, cut, scores, handled, stops>>

\* A write fails for good (requeue, or the offset): the exception leaves the
\* loop, and nothing starts it again before the next start of the server.
LoopEnds == /\ Fault /\ alive /\ next # offset
            /\ alive' = FALSE /\ batch' = {} /\ asked' = Null /\ next' = offset
            /\ UNCHANGED <<file, cut, offset, scores, handled, stops>>

-----------------------------------------------------------------------------
Hook == Waits /\ (
        \/ \E s \in Sessions : (\E h \in Hits : UserPromptSubmit(s, h))
                               \/ (\E transcript \in BOOLEAN : Stop(s, transcript))
        \/ \E a \in Agents : \E transcript \in BOOLEAN : SubagentStop(a, transcript))

Handle == \/ ParseTranscript \/ ParseSubagent \/ NoTranscript \/ SessionEnd
          \/ JudgeAsks \/ JudgeSkips \/ JudgeAnswers \/ JudgeUnreadable \/ JudgeFails

Next == \/ Hook \/ ReadBatch \/ Handle \/ Commit
        \/ CutLine \/ Throws \/ Restart \/ OffsetLost \/ LoopEnds

Spec == Init /\ [][Next]_vars

(* The loop goes on, and the request to the judge settles (fetch has a     *)
(* time limit of its own).                                                 *)
FairSpec == Spec /\ WF_vars(ReadBatch \/ Handle \/ Commit)

-----------------------------------------------------------------------------
TypeOK ==
  /\ file \in Seq(Job \cup {Malformed}) /\ cut \in BOOLEAN
  /\ offset \in 0..Len(file) /\ next \in offset..Len(file)
  /\ alive \in BOOLEAN
  /\ batch \subseteq Readable(offset + 1, next)
  /\ asked \in Row \cup {Null} /\ (asked # Null => alive /\ batch # {})
  /\ rows \in [Prompts -> Row \cup {Null}]
  /\ subs \in [Agents -> {"running", "completed"}]
  /\ handled \subseteq DOMAIN file

(* No job is passed over: the offset in the file covers only lines whose   *)
(* handler has run to its end, through every crash, stop and repetition.   *)
(* The comment at promptWorker.ts:31 says so: "resumes on the next server  *)
(* start without loss".                                                    *)
NothingSkipped == Readable(1, offset) \subseteq handled

(* A final score that was computed after the judge spoke counts what the   *)
(* judge said, whichever of the transcript and the judge came last, and    *)
(* with jobs repeated.  The usage part may be that of the last transcript  *)
(* that had one.                                                           *)
FinalCountsJudge ==
  \A p \in Prompts : LET row == rows[p] IN
    row # Null => \E usage \in {row.usage, Null}, cap \in {100, CapFor(row.hits)} :
                    row.final = ComposeFinalScore(row.rule, usage, row.judge, 0, cap)

(* The judge is asked once: what it said of a prompt never changes, though *)
(* each turn of a session asks for the same prompt again and batches are   *)
(* repeated after a crash.                                                 *)
JudgeIsFinal == [][\A p \in Prompts :
                     (rows[p] # Null /\ rows[p].judge # Null)
                       => (rows'[p] # Null /\ rows'[p].judge = rows[p].judge)]_vars

(* The queue drains: whatever fails, is retried or cannot be read, a loop  *)
(* that runs gets to the last line (malformed lines alone wait for a job). *)
QueueDrains == <>[](alive => Readable(offset + 1, Len(file)) = {})

(* "severity-5 cap overrides otherwise-perfect score" (scorer.test.ts:172):*)
(* a prompt that was rescored is held under the cap of its gravest hits.   *)
CapHolds == \A p \in Prompts :
              (rows[p] # Null /\ rows[p].cap # Null) => rows[p].final <= rows[p].cap
=============================================================================
