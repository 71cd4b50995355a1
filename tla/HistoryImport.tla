--------------------------- MODULE HistoryImport ---------------------------
(***************************************************************************)
(* think-prompt backfill --execute: the prompts of Claude's own history    *)
(* files are put into the prompt database                                  *)
(* (packages/prompt-core/src/backfill.ts), by a process of its own, while  *)
(* sessions go on: Claude writes each prompt to the history, and a hook    *)
(* hands it to the server, which stores it too                             *)
(* (packages/prompt-agent/src/subsystem.ts).                               *)
(*                                                                         *)
(* One import runs at a time, over all projects and times; each session    *)
(* has one file.  A prompt is its words and whether there are blanks       *)
(* around them; its hash is the prompt.                                    *)
(***************************************************************************)
EXTENDS Naturals, Sequences

CONSTANTS
  Sessions,
  Words,
  BatchSize,
  MaxPrompts,  \* bound on prompts
  MaxRuns      \* bound on imports

VARIABLES
  history,     \* session -> its file: the prompts, one a line
  hooks,       \* prompts whose hook is on its way to the server
  rows,        \* prompt_usages in the order of insertion
  stage,       \* of the import: "none", "scan", "write"
  hashSet, unread, candidates,   \* the variables of importClaudeHistory
  known,       \* how many rows there were when the hashes were loaded
  failed,      \* prompts of this import that could not be stored
  run, clock

vars == <<history, hooks, rows, stage, hashSet, unread, candidates, known, failed, run, clock>>

import == <<stage, hashSet, unread, candidates, known, failed, run>>

Prompts == [words : Words, padded : BOOLEAN]

Init == /\ history = [s \in Sessions |-> <<>>] /\ hooks = {} /\ rows = <<>>
        /\ stage = "none" /\ hashSet = {} /\ unread = {} /\ candidates = <<>>
        /\ known = 0 /\ failed = {} /\ run = 0 /\ clock = 0

\* prompt_usages: the prompt, and which import stored it (0: a hook did).
Row(p, r) == [prompt |-> p, run |-> r, known |-> IF r = 0 THEN 0 ELSE known]

-----------------------------------------------------------------------------
(* Sessions.                                                               *)

\* The user asks: a line in the history, and a hook.
Ask(s, p) == /\ clock < MaxPrompts /\ clock' = clock + 1
             /\ history' = [history EXCEPT ![s] = Append(@, p)]
             /\ hooks' = hooks \cup {[prompt |-> p, at |-> clock']}
             /\ UNCHANGED <<rows, import>>

\* ingest(): stored as it is, blanks and all, met before or not ...
Capture(h) == /\ hooks' = hooks \ {h}
              /\ rows' = Append(rows, Row(h.prompt, 0))
              /\ UNCHANGED <<history, import, clock>>

\* ... unless the server is down: curl gives up.
Missed(h) == /\ hooks' = hooks \ {h}
             /\ UNCHANGED <<history, rows, import, clock>>

-----------------------------------------------------------------------------
(* importClaudeHistory.                                                    *)

\* Mutant: every run believes that the database is empty.
LoadedMutant == {}

\* loadExistingHashes
Loaded == {rows[i].prompt : i \in DOMAIN rows}

Load == /\ stage = "none" /\ run < MaxRuns
        /\ stage' = "scan"
        /\ hashSet' = Loaded /\ known' = Len(rows)
        /\ unread' = Sessions
        /\ candidates' = <<>> /\ failed' = {}
        /\ run' = run + 1
        /\ UNCHANGED <<history, hooks, rows, clock>>

Trimmed(p) == [p EXCEPT !.padded = FALSE]

\* extractUserText trims; a prompt met before is skipped.
Picked(s, met) ==
  LET lines == history[s]
      upto[i \in 0..Len(lines)] ==
        IF i = 0 THEN [met |-> met, picked |-> <<>>]
        ELSE LET p == Trimmed(lines[i])
             IN IF p \in upto[i - 1].met THEN upto[i - 1]
                ELSE [met |-> upto[i - 1].met \cup {p},
                      picked |-> Append(upto[i - 1].picked, p)]
  IN upto[Len(lines)]

\* scanFile, in the order of the file names; a file that cannot be read is
\* passed over.
Scan(s) == /\ stage = "scan" /\ s \in unread
           /\ unread' = unread \ {s}
           /\ \/ /\ hashSet' = Picked(s, hashSet).met
                 /\ candidates' = candidates \o Picked(s, hashSet).picked
              \/ UNCHANGED <<hashSet, candidates>>
           /\ UNCHANGED <<history, hooks, rows, stage, known, failed, run, clock>>

\* The sort is by session and time: it orders the sessions, as the lines of
\* a file are in the order of time.
ScanEnds == /\ stage = "scan" /\ unread = {}
            /\ stage' = "write"
            /\ UNCHANGED <<history, hooks, rows, hashSet, unread, candidates, known, failed, run, clock>>

Batch == SubSeq(candidates, 1, IF BatchSize < Len(candidates) THEN BatchSize ELSE Len(candidates))

\* Mutant: what is left over after a batch is not written.
RestMutant == <<>>

Rest == SubSeq(candidates, Len(Batch) + 1, Len(candidates))

\* A row whose insertion throws; one whose rules throw stays without a score.
Kept(refused) ==
  LET upto[i \in 0..Len(Batch)] ==
        IF i = 0 THEN <<>>
        ELSE IF i \in refused THEN upto[i - 1]
        ELSE Append(upto[i - 1], Batch[i])
  IN upto[Len(Batch)]

Refused(refused) == {Batch[i] : i \in refused}

\* insertBatch: a transaction, in which a row that throws is passed over.
Write == /\ stage = "write" /\ candidates # <<>>
         /\ \E refused \in SUBSET DOMAIN Batch :
              /\ rows' = rows \o [i \in DOMAIN Kept(refused) |-> Row(Kept(refused)[i], run)]
              /\ failed' = failed \cup Refused(refused)
         /\ candidates' = Rest
         /\ UNCHANGED <<history, hooks, stage, hashSet, unread, known, run, clock>>

\* The import ends; or it is killed, between two transactions.
Ends == /\ stage # "none"
        /\ stage' = "none"
        /\ UNCHANGED <<history, hooks, rows, hashSet, unread, candidates, known, failed, run, clock>>

Next == \/ \E s \in Sessions : Scan(s) \/ \E p \in Prompts : Ask(s, p)
        \/ \E h \in hooks : Capture(h) \/ Missed(h)
        \/ Load \/ ScanEnds \/ Write \/ Ends

Spec == Init /\ [][Next]_vars

-----------------------------------------------------------------------------
\* What was there when the run began, and what the run itself has stored.
Before(i, j) == i < j /\ (i <= rows[j].known \/ rows[i].run = rows[j].run)

(* "Idempotent: re-running is safe": whatever is captured, killed and run  *)
(* again, an import stores no prompt that the database had when it began,  *)
(* and none twice ...                                                      *)
ImportedOnce ==
  \A j \in DOMAIN rows : rows[j].run > 0 =>
    \A i \in DOMAIN rows : Before(i, j) => rows[i].prompt # rows[j].prompt

(* ... "crashes mid-run lose" no more than a batch: what a run has skipped *)
(* or picked is in the database, still to be written, or refused.          *)
NothingDropped ==
  stage = "write" =>
    \A p \in hashSet : \/ \E i \in DOMAIN rows : rows[i].prompt = p
                       \/ \E i \in DOMAIN candidates : candidates[i] = p
                       \/ p \in failed

ImportIsIdempotent == ImportedOnce /\ NothingDropped
=============================================================================
