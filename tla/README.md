# A TLA+ verification of claude-alive

claude-alive watches Claude Code sessions and runs tickets with agents of its
own. This directory holds TLA+ modules translated from its source, the TLC
configurations that check them on small instances, and TLAPS proofs of what
holds for every instance. Paths below are relative to the root of the
repository; `server/` is short for `packages/server/src/`, `core/` for
`packages/core/src/`, `ui/` for `packages/ui/src/`.

## 1. The system

One Node process (the server) owns all shared state. It is one JavaScript
thread: handlers interleave at their awaits only. Around it are agent processes,
shell hooks that post events by HTTP, dashboards on WebSockets, git processes,
models behind a gateway, and a command line that imports prompt history. State
lives in memory; files and an SQLite database are written behind it.

| Component | Source | State | Operations | What is hard | What makes it correct |
|---|---|---|---|---|---|
| Ticket runner | `server/ticketRunner.ts` | slots (`running`), backlog (`queue`), process handles, wallclock timers | create, retry, reply, cancel, start, exit of an agent, verify, commit, consult a panel, time out, recover | a dozen awaits, across which users, processes and panels interleave | limit, no idle or leaked slot, nothing forgotten or left in flight, one answer per question |
| Ticket store | `server/ticketStore.ts` | map of tickets, file | update, remove, load | map now, file later; crash inside a write | the file catches up; nothing of the old run is believed after a restart |
| Agent registry | `core/state/` | map of agents and their state | hook events, removal | hooks arrive in any order | an ended agent leaves; the state is that of the last event |
| Despawn, broadcasts | `server/index.ts`, `server/wsServer.ts` | despawn timers, clients | start, end, timer, snapshot, broadcast | timers against resumed sessions; sockets that break | a dashboard that read everything shows what the server has |
| Dashboard state | `ui/views/dashboard/hooks/useWebSocket.ts` | copy of the map, prune timers | reduce a message, reconnect, prune | snapshot against events, lost despawns | no ghosts |
| Run registry | `server/runStore.ts`, `server/runAdapters/` | tree of runs, file | upsert, close, reopen, remove, touch | coalesced flush against touch; mirrors that land late | what a human closed stays closed; changes reach the file |
| Evaluations | `server/evalStore.ts` | one record per ticket, file | capture, label | a retry settles while a human labels | a human label stays |
| Terminals | `server/terminalManager.ts`, `managedSessionStore.ts`, `ui/views/chat/` | ptys, subscribers, managed sessions, tabs of each window | spawn, attach, close, resume, exit, reload | late exits of closed ptys; messages that cross | a tab that looks alive is; what can be resumed is listed |
| Panels | `server/panel/` | none between consultations | ask seats, fall back, count votes | abstentions, one model in two seats, ties | no answer is adopted on one model's word |
| Verifier | `server/ticketVerifier.ts`, `server/jev/` | none | gate, panel, last seat, page check | each step may fail or disagree | no doubt is lost |
| Committer | `server/ticketCommit.ts` | git's | status, filter, add, diff, commit | others use the checkout meanwhile | a ticket commits its own work only |
| Agent processes | `server/executors/`, `agentFlags.ts`, `headlessClaude.ts` | one answer about claude's flags per target | spawn, probe, kill, refuse, spawn again | a kill before the process; upgrades; runs that share a probe | no run dies of a flag; no kill is lost |
| Prompt queue | `packages/prompt-core/src/queue.ts`, `packages/prompt-worker/src/` | append-only file, offset file, scores | enqueue, read a batch, handle, requeue, commit | crash between handling and commit; torn lines | at least once, bounded attempts, the judge counts |
| Prompt scoring | `packages/prompt-core/src/scorer.ts` | none | compose a score | missing parts, caps | see the queue |
| History import | `packages/prompt-core/src/backfill.ts` | prompts in the database | scan, batch, write | a live hook beside it, a kill | idempotent |
| Canonical pipeline | `server/canonicalPipeline.ts`, `core/canonical/`, `packages/storage/src/` | event log (SQLite), tree | ingest, import, project | import beside live ingestion; failures | order of arrival; the tree is the log |
| Everything else | see `PROJECT.json` | | | | HTTP, settings, probes, installation, views |

Interactions: the runner calls the store and awaits its flush; agent processes,
the verifier, the committer and the panel answer the runner's promises; every
change of a ticket is broadcast, mirrored into the run registry after a git probe,
and captured by the evaluations when it settles. Hooks call `onEvent`, which changes
the registry, broadcasts and hands the hook to the canonical pipeline; a hook of a
prompt is stored and queued for the worker. A client that connects gets a snapshot,
then every broadcast in order, and sends terminal messages. `recover()` runs at
boot, while requests are already served.

The hazards, each at its line and with the properties that watch it, are listed
under `hazards` in `PROJECT.json`.

## 2. Modules

| Module | Stands for |
|---|---|
| `TicketRunner` | the runner and the map of the store, one action per stretch of code between two awaits |
| `TicketPool` | abstract: a ticket's lifecycle, the limit, and that busy tickets go on |
| `TicketRestart` | extends `TicketRunner`: the file, a crash, `load()`, `recover()` |
| `AgentFSM` | the table of `agentFSM.ts`, as operators |
| `AgentBoard` | session store, despawn timers, one socket, one dashboard |
| `Scoring` | the arithmetic of prompt scores |
| `PromptQueue` | queue file, offset, worker loop, the four handlers and their rows |
| `TicketRecords` | run registry, evaluations, and the wiring of both to tickets |
| `Terminals` | ptys and managed sessions of the server, the tabs of the windows, messages between |
| `ReviewPanel` | panel of models, decision, completion gate, page check |
| `CanonicalLog` | hooks as events, the log, the tree, the import at a start |
| `TicketCommit` | the git processes of a commit, and the others in the checkout |
| `HistoryImport` | the import of prompt history beside the live hook |
| `AgentRuns` | spawns with flags: cache, probes, kills, refusals |
| `MCTicketRunner`, `MCTicketRestart` | symmetry of the tickets for TLC |
| `MCPromptQueue`, `MCHooks`, `MCServices` | values for TLC, and compositions of parts that share no state |
| `TicketRunnerProofs` | theorems about `TicketRunner`, the refinement of `TicketPool`, and `TicketRestart` |
| `AgentBoardProofs`, `TicketCommitProofs`, `AgentRunsProofs`, `ReviewPanelProofs`, `TerminalsProofs` | theorems about the module of that name |
| `HooksProofs` | theorems about `PromptQueue`, and about the composition `MCHooks` |
| `ServicesProofs` | theorems about `TicketRecords`, and about the composition `MCServices` |

### TicketRunner

Variables are the code's: `tickets` (the store's map), `running`, `queue`,
`handles`, `timers`. Two more hold what a JavaScript engine holds:

- `flushq`, the continuations waiting for the store's flush. The store serialises
  its flushes, so they resume first come first served. `flushq` names what each
  will do ("enqueue", "release", "starting", ...).
- `runs`, one record for each attempt to work on a ticket: which await it is in
  (`pc`), the conversation it works in (`thread`), the question its prompt answers.
  `pc` values `validating`, `live`, `killed`, `verifying`, `committing` and
  `advising` wait for the outside world, which may answer in any order.

`Store` is `store.update` with the caller's continuation; `Release` is
`releaseSlot`, which always pumps; `Settle`/`Fail` is `fail()`. `Create`, `Retry`,
`Reply`, `Cancel`, `Remove` are the routes, `AgentFails`, `AgentAsks`,
`AgentReports`, `AgentEndsLate` the four branches of `onMainDone` up to its first
await, `Verifier...`, `Committed`, `PanelAnswers` what follows the later awaits, and
`Spawned`, `Parked`, `Judging`, `Consulting`, `Escalated`, `Adopted`, `Enqueued`,
`Released`, `Noted` what follows a flush.

Left out: the text of tickets, turns, metrics and outcomes; empty replies (an
early return without effect); `maxTickets` eviction; `done` promises that reject
(`consumeHeadless` and the deferred remote handle settle by resolving); a write to
the file that fails.

### TicketRestart

`disk` is the file, `writing` the snapshot of the flush in progress: it is taken
when that flush begins, not when the update was made. `Crash` may happen at any
point, during recovery included. The file is then the last complete one, the
one being written, or (a write cut in two, which `load()` cannot parse) nothing.
`recovery` is where `recover()` is in its three loops and what is left of the list
that loop iterates, each entry as it was when `list()` copied it. Requests are
served meanwhile, as in the code. A ticket retried during recovery may be enqueued
twice, as in the code: `pump()` drops the second entry.

### AgentFSM and AgentBoard

`Moves` groups the code's table by event: where from and where to. `Transition` and
`Effective` are `transition()` and the rewrite of a Notification. `agents` is the
map of the session store (`"absent"`: no entry), `timers` counts the despawn timers
running for an id (a second end does not clear the first), `inbox` is what is on the
socket, `view` the dashboard's map, `pruning` its prune timers. Connecting puts a
snapshot into `inbox`, a break or a restart empties it.

Left out: names, token usage, the event log, the archive, other messages of the
socket, more than one client (each has a socket and a copy of its own; the limit of
50 clients only closes the socket), and a second socket of one dashboard.

### Scoring and PromptQueue

`file` is the queue file, line by line, `offset` the offset file; the code counts
UTF-16 units on both sides, so lines will do. `ReadBatch` takes up to `MaxItems` lines,
malformed ones counted; `Handle` runs one handler and, on "retry" or an exception,
requeues until `MaxAttempts`; `Commit` writes the offset. `Hook` is the capture of a
prompt, of a stop and of a subagent, with the lines each appends; `CutLine` is a
line that a full disk cut, and that the next append completes into garbage.
`Restart` and `OffsetLost` are the faults; `LoopEnds` an exception from `requeue` or
`commitOffset`, after which nothing drains until a restart. The judge is asked in two
steps, since the row is read before his answer is awaited. A stop of the worker in
the middle of a batch never commits: in the server the process exits first.

### TicketRecords

A mirror sets out with the ticket as it was and lands when its git probe ends, in
any order (`mirrors`); `verdicts` are the `onSettled` calls that nobody awaits;
`Evaluate` is the route, which labels and then files the run; `flush` is the timer
and the write of the run registry, with `dirty` and what is `out`. `Restart` reads
both files, the registry's as it was, as it was being written, or torn. Only the
mirroring of tickets is wired in `index.ts` (`agentToUpsert` and `terminalToUpsert`
have no caller), so only runs of tickets exist.

### Terminals

`entries` is the map of ptys, `dying` those that were closed and have not exited,
`records` and `file` the managed sessions; per window, `tab` is what the page shows,
`attached` its set of attached tabs, `listed` what it was told can be resumed.
`Serve...` are the terminal messages of `index.ts`, `Hears...` what a window does with
the answers, `Open`, `Adopt`, `Close`, `Resume`, `Reload` what a user does. Shells and
ssh tabs, screens, sizes and the limits of 50 exited ptys and 200 records are left
out. With `Offline` a window is used while its socket is down as well; then tabs
stay blank (see the hazard at `ChatOverlay.tsx:614`), and the run assumes it FALSE.

### ReviewPanel

One consultation. `SeatAnswers` and `SeatFails` are the seats, which ask their models
in turn and stay off their peers'; `Kept` is the deduplication by the model that
answered; `Resolve`, `Tiebreak` and `Applied` are `resolveConsensus`, the second round
and the adoption; `GateRules`, `GateIsSilent`, `Inconclusive`, `LastSeatRules`,
`Merge` and `CheckPage` the completion gate. What a model writes is a member of
`Opinions`: an option, how sure it is, whether it names something irreversible.

### CanonicalLog

`Arrive` is a hook, `Probe` the head of the tail promise, whose directory is
resolved, `Process` maps it to events (`Entry`, `Advanced`) and appends them with
their deduplication keys; what was appended is applied to the tree. `Import` is one
session of `importLegacySessions`, at every start; `ProbeFails` and a failing append
leave a gap, `Restart` rebuilds the tree. Two hooks of one kind in one millisecond
have one key, as in the code.

### TicketCommit

`work`, `index` and `head` hold, for each file, who wrote it and when. One action per
git process of `commit()` (`Survey`, `ChangedSince`, `Stage`, `Diff`, `Commit`) or the
early return in its place; between two of them other tickets and people write,
delete, stage and commit. git itself is external, modelled as far as those calls
depend on it: a deletion that is staged already makes `git add` fail, a commit of
paths takes the files as they are now.

### HistoryImport

`Ask` writes a prompt to Claude's history and runs the hook, which stores it
(`Capture`) or is missed. `Load` reads the hashes, `Scan` picks prompts that are not
among them, `Write` stores a batch, `Refused` is a row that cannot be stored, `Ends` the
end or a kill. Hashes of the import are trimmed, those of the hook are not.

### AgentRuns

One target. `settled` and `inFlight` are the cache, `probes` the `claude --help` under
way, `runs` the runs of each ticket: waiting for a probe, `plain` (without the second
net), `flagged` (with it) or `bare` (started again). `Kill` before the process exists
is remembered and passed on; `Refused` is "unknown option", which drops the answer of
the probe and starts again without flags; `Install` is another claude. What claude
lists and what it knows may differ.

### Compositions

`MCHooks` and `MCServices` run parts that share no state as one specification: a
behaviour chooses its part at the start and stays in it. That saves runs and hides
nothing: the reachable states are those of the parts, side by side.

## 3. Runs

`about` in `PROJECT.json` says what each run shows; this is why its bounds are
enough.

| Run | Instance | Distinct states | Checks |
|---|---|---|---|
| `ticket_races` | 1 ticket, 3 attempts, all requests, panel | 2.05 M | `TypeOK`, `ResumesOnce`, `SlotHasKeeper`, `WorkIsDriven`, `QueuedIsKept`, `AnsweredOnce` |
| `ticket_liveness` | 1 ticket, 2 attempts, all requests and timeouts, panel | 54 k | `SlotsComeBack`, `InFlightProceeds`, `ConsultationEnds` |
| `ticket_calm` | 2 tickets, 1 slot, 3 attempts, retry only | 7 k | `WorkHoldsSlot`, `AgentsAreReachable`, `QueuedProceeds`, `PoolSpec` |
| `restart` | 2 tickets, 2 slots, 2 attempts, removal, panel, 1 crash | 2.7 M | `FileCatchesUp`, `InFlightIsRecovered`, `BacklogIsRecovered`, `DecidingIsAttended` |
| `restart_liveness` | 2 tickets, 1 slot, 2 attempts, 1 crash | 24 k | `WorkConserving`, `InFlightProceeds`, `QueuedProceeds` |
| `hooks` | prompts: 1 session, 1 turn, batches of 3, 2 attempts, 1 fault, with 2 stops or with 1 stop and 1 subagent; board: 1 id, every hook, 2 overlapping timers, 3 messages in flight | 209 k | `NothingSkipped`, `FinalCountsJudge`, `JudgeIsFinal`, `QueueDrains`; `NoGhosts`, `ViewIsCurrent`, `EndedHasTimer`, `EndedLeaves`, `GhostsVanish` |
| `services` | records: 1 ticket, 3 changes, 1 evaluation, 1 crash; terminals: 1 tab, 2 windows, 3 events; panels: 3 seats, 4 opinions; log: 1 session, 3 hooks, 1 fault; commit: 1 ticket, 2 files, 3 writes; import: 2 prompts, 3 imports; agents: 1 ticket, 3 runs, 2 flags, 1 upgrade | 1.59 M | `EvaluatedIsFiled`, `DirtyOrSaved`, `HumanStands`; `RunningIsWatched`, `ResumableIsListed`; `AdoptedIsShared`, `DoubtIsShown`; `CatalogIsTheLog`; `OnlyItsOwn`; `ImportIsIdempotent`; `FlagsAreGuarded` |

- The races of one ticket need one ticket: a run of an earlier attempt, the current
  one and a third that begins while both are alive are three attempts. The slots
  are what tickets share: two tickets and one slot make one of them wait, and
  `ticket_calm` and `restart_liveness` have that. `ticket_races` was also checked
  with two tickets and three attempts under cancel and retry (8.7 M states, four
  invariants: `WorkConserving`, `SlotHasKeeper`, `WorkIsDriven`, `QueuedIsKept`).
- `restart` has two slots so that two tickets are in flight when the server stops,
  and two flushes pending, so that the file is behind by two updates.
- Agents of the board do not interact: an action touches one id, messages name one
  id, and only the snapshot and the restart touch all. One id shows every order
  of its own messages, and the proofs cover any number. `MaxInbox` holds back new
  hooks, never a timer.
- Prompts: a batch of three holds a transcript job, a judge's and a torn line at
  once; two stops of a session make a prompt's jobs repeat; one fault is a crash, a
  lost offset or a torn line at any point. A subagent multiplies the orders of jobs
  without touching a score, so it has a world of its own with one stop.
  `QueueDrains` speaks of lines with a job: as many malformed lines in a row as a
  batch holds (20 in the code) stop the worker, which the bound on faults excludes
  and the hazard at `prompt-worker/src/index.ts:49` describes.
- Records: three changes of a ticket put a late mirror behind two newer states, and
  an evaluation before, between or after them. Terminals: two windows share a tab,
  and three events let one of them reload while the other resumes. Panels: two of the
  fallback models are served by one model, so a majority may be one voice. Commit: one
  write before the run, one in it, one by someone else in the middle of the commit.
  Log: two hooks of one kind, a third and the
  import of their session meet a failure or a restart at any point (checked also with
  two faults, 533 k states). Import: batches of one, so that a kill falls between two
  of them (checked also with three prompts and batches of two, 480 k states). Agents:
  three runs of one ticket, one of them cancelled during a probe (checked also
  with two tickets and two runs each, 551 k states).
- `MaxAttempts` (tickets) bounds requests for a run, not runs in progress; the other
  `Max...` constants bound repetition, each named in its module.
- `CHECK_DEADLOCK FALSE`: the ticket system stops when no ticket is open and the
  bounds are used up, and so do the parts of the compositions.

Properties that hold only for a calm system (no cancel, reply or removal) are
checked in `ticket_calm`. They do not hold otherwise: `replyInternal` takes a slot
whatever the limit, and a cancel leaves the process to exit later while a retry
already starts another. That no more agents than slots work is part of `PoolSpec`.

### Fairness

Tickets: `WF(Flush)`, and weak fairness of what the world answers each run: every
promise the runner awaits settles. The store's write, the directory check and the git
commands of the commit are local calls that end; every panel model is asked with a
timeout (`DEFAULT_PANEL_TIMEOUT_MS`). That an agent exits, and that the verifier,
which is an agent too, gives its verdict, is an assumption about them: by default
the code has no cap (`TicketRunnerOptions.timeoutMs`), and without it a hung agent
holds its slot until it is cancelled. Users owe nothing and a wallclock timer need
not fire. For recovery, `recover()` goes on with its loop.

Hooks: the worker's loop goes on (one `WF` of its reads, handlers and commits: it is a
`while` loop whose awaits end); despawn timers fire, a socket delivers and a dashboard
retries to connect; nobody has to send a hook. `GhostsVanish` assumes that the socket
eventually stays up, and says so in its formula. `services` checks safety only.

### Disagreements met while modelling

Five runs with `expect: violation` state what a comment, a test or a document says
and find it violated by what the code does; each finding quotes its line.

- `cancelled_runs`: a ticket cancelled while its directory is checked runs anyway.
- `late_panel`: a late answer of the panel lands on a later question.
- `resumed_agent`: the despawn timer of an earlier end removes a resumed agent.
- `judge_uncaps`: the judge's score is composed without the cap of a grave hit.
- `answered_commit`: a ticket that asked and was answered commits only what it wrote
  after the answer.

Others are described with their hazards, where one more run would say little: a run
whose flags were refused reports the flags passed and forgets those the probe had
dropped (`FlagsAreGuarded` is stated up to that point), and its second process is out
of reach of a kill; every start imports the managed sessions again, though a comment
says once; state events of one kind in one millisecond share a key.

## 4. Proofs

All are checked by TLAPS for every value of the constants, under the assumptions the
modules name: `Tickets` is finite, `Concurrency` is a positive number, `Operations` is a
set of known operations, `Advisors` and `Judging` are boolean, scores are numbers,
`Null` is no record. Bounds need not be numbers unless an assumption says so
(`MaxFiles`, `MaxTurns`, and `MaxRuns` of `AgentRuns`, whose runs are numbered by it);
`BatchSize` of the import is a positive number (the command refuses any other).

| Theorem | States | Argument |
|---|---|---|
| `TypeCorrect` | `Spec => []TypeOK` of `TicketRunner` | inductive by itself; the lemmas type each helper (`Pump`, `Without`, `Settle`, `Answer`) once and each action cites them |
| `NoIdleSlot` | `[]WorkConserving` | `TypeOK /\ WorkConserving` is inductive: every action that shrinks `running` or grows `queue` ends in `Pump`, which leaves the queue empty or no room |
| `EachRunResumesOnce` | `[]ResumesOnce` | with `TypeOK`; every action is a `Step`: it removes the head of `flushq` or nothing, moves only the run whose continuation that was (or one that waits for the world), and appends at most one continuation, of a run it has just put into the phase it resumes |
| `NoLeakedSlot` | `[]SlotHasKeeper` | `TypeOK /\ ResumesOnce /\ SlotHasKeeper` is inductive. `ResumesOnce` is needed: a continuation that resumes must find its run in the phase it waits in, or it might end a run that was another slot's keeper |
| `NoStrandedWork` | `[]WorkIsDriven` | adds `WorkIsCarried`: a running ticket has a run whose agent has not ended, a verifying one a run between the end of its agent and its settlement. Every action is a `Change` of one ticket by one run: the state of a ticket and the phase of its run move together, and with `ResumesOnce` no continuation moves a run twice |
| `NoSecondAnswer` | `[]AnsweredOnce` | `Questions` adds that what was answered was asked by a run that is past its agent, and that the question of a parked ticket is its own and has no answer yet |
| `NoForgottenTicket` | `[]QueuedIsKept` | `Backlog`: a queued ticket waits in the queue, is being validated, or has its "enqueue" in the line of flushes, with the "release" of the slot it may still hold before it (`enqueue()` drops an id that holds a slot); and a settled ticket that still holds a slot has that "release" under way |
| `OneLifeAtATime` | the inductive invariant `Calm` of a system whose users only retry | each ticket is in one of five situations (`Resting`, `Settled`, `AskedFor`, `InBacklog`, `AtWork`), which fix at once its state, its slot, its place in the queue, the phase of its one run that is not over, and its continuations in the line |
| `WorkKeepsItsSlot`, `EveryAgentIsReachable` | `[]WorkHoldsSlot`, `[]AgentsAreReachable`, same system | from `Calm`, a situation at a time |
| `RunnerImplementsPool` | the safety part of `TicketPool` (`Pool!PSafe`), same system, no panel | each action maps to a step of the pool or a stutter: `Calm` says in which state the ticket is that a run moves, and that starting one more finds room |
| `RestartTypeCorrect`, `NothingStaysInMemory` | the types, `[]FileCatchesUp` of `TicketRestart` | `FileFollows` adds the flush in progress: with one update pending, what is being written is the map |
| `RestartStrandsNobody` | `[]InFlightIsRecovered` | `WorkIsRecovered`: each ticket is `Carried` as in `NoStrandedWork`, or a cut-off one on `recover()`'s list. The lemmas on `Change` are reused: what `recover()` does to a ticket is one of those changes, by no run |
| `NoPanelIsForgotten` | `[]DecidingIsAttended` | `PanelIsRecovered`, from the part of `Keeping` that says how a ticket comes to show its panel as deciding, and what becomes of a panel's run |
| `BacklogComesBack` | `[]BacklogIsRecovered`, without both cancel and retry | `QueuedIsAwaited`: a queued ticket is `Backed` as in `NoForgottenTicket`, or `recover()` has yet to come to it and it holds no slot, so that its enqueue is not dropped. `ListIsDormant` is needed for the first loop: a ticket on its list holds no slot and all its runs are over, which every step keeps, since a step is of one run that is not over (`Rouses`) or of a request |
| `BoardTypeCorrect` | `[]TypeOK` of `AgentBoard` | inductive by itself |
| `NoGhostIsShown`, `ShownIsCurrent` | `[]NoGhosts`, `[]ViewIsCurrent` | neither is inductive: they speak of an empty inbox only. `BoardInv` adds `Faithful`: for each id, the last message in `inbox` about it (or `view`, if there is none) agrees with the server. Appending news of an id makes it the last; reading any other message keeps the last |
| `EndedIsOnItsWayOut` | `[]EndedHasTimer` | with `TypeOK`, and the lemma that no hook leads to "despawning" from another state |
| `QueueTypeCorrect`, `NothingIsSkipped`, `FinalCountsTheJudge` | `[]TypeOK`, `[]NothingSkipped`, `[]FinalCountsJudge` of `PromptQueue` | `QInv` adds `Seen` (a line before the offset, or before the batch's rest, was handled or is requeued further on) and that the judge is asked about a row that exists |
| `JudgedForGood` | `JudgeIsFinal` | from `QInv`: the row the judge is asked about has no judge's score, and the worker, which handles one job at a time, gives it none meanwhile |
| `EvaluatedRunsAreFiled`, `NoChangeIsForgotten`, `HumansAreNotOverruled` | `[]EvaluatedIsFiled`, `[]DirtyOrSaved`, `HumanStands` of `TicketRecords` | `RInv` adds: a ticket without a run has a mirror of its present state under way; only removed tickets lose their run; what is being written is the registry unless it is dirty |
| `CommitTypeCorrect`, `CommitsOnlyItsOwn` | `[]TypeOK`, `OnlyItsOwn` of `TicketCommit` | `PathsAreOwn`: what `changedSince` kept is still not older than the run, whatever is written between the git processes, since time only goes forward |
| `FlagsAreAlwaysGuarded` | `[]FlagsAreGuarded` of `AgentRuns` | `OneProbe`: until a flag is refused there is one probe at most, and none once the answer is known; `NoneOvertakes`: a run that waits is the ticket's latest, or was followed by runs that wait too, so that all learn the answer in one step |
| `AdoptionIsShared` | `[]AdoptedIsShared` of `ReviewPanel` | `DecisionIsSound`: what is adopted is a group that `Carries`; no two of its seats were served by one model, so it has as many models as seats (a bijection), and what it outvotes is counted |
| `DoubtIsAlwaysShown` | `[]DoubtIsShown` | `VerdictIsSound`, by phase: until the page is checked a verdict that passes has counted its votes against it |
| `TerminalTypeCorrect`, `EveryWindowKnows` | `[]ResumableIsListed` of `Terminals` | `ListInv`: the last list on its way to a window, or the one it shows if there is none, is that of the server |
| `NoTabLooksAlive` | `[]RunningIsWatched` | `WatchInv`: a tab that shows a terminal is watched, was closed with its exit still to come, has asked, or has its answer on the way (`Attended`); and a window that lost its socket believes no tab attached |
| `HooksLeaveNoGhosts`, `HooksKeepTheViewCurrent`, `HooksTimeEveryEnd` | the board's invariants of `MCHooks` | a behaviour of `MCHooks`, seen through the board's variables, is one of `AgentBoard`; the theorems about it are instantiated |
| `ServicesCommitOnlyTheirOwn`, `ServicesGuardFlags`, `ServicesShareAdoption`, `ServicesShowDoubt`, `ServicesListResumable`, `ServicesWatchRunning` | the same of the parts of `MCServices` | likewise |
| `ServicesReplayTheLog` | `[]CatalogIsTheLog` of `MCServices` | `LogInv` adds `InOrder`: no hook of the log is later than the one being probed, nor that one than any in the queue, which is in order. What `Stored` appends continues the log (`AppendedGrows`), and a fold over a log continued is the fold over the rest, begun with what the log gave (`AppliedJoins`), so the tree stays the replay |
| `ServicesImportOnce` | `[]ImportIsIdempotent` of `MCServices` | `ImportInv` adds `Importing`: the hashes of a run are of rows it found or stored itself, of what it has yet to write, or of what was refused; and what it has yet to write is distinct and in none of the rows it counts. `PickedIsNew` and `KeptIsTheRest` say what the two folds over a file and a batch yield |

Some theorems have hypotheses of their own, each for a reason in the code:

- The calm system is `Operations \subseteq {"retry"}`, the instance of `ticket_calm`: a
  cancel or a reply breaks each of those properties (section 3). `Calm` holds with a
  panel too; the pool has none.
- `BacklogComesBack` assumes `NoRerun`: users do not have both cancel and retry. With
  both `BacklogIsRecovered` is false of instances larger than the run `restart`: a
  ticket `recover()` has listed as cut off can be cancelled, retried and running again
  when its turn comes; it is then written as failed while it holds a slot, and its next
  retry is dropped. Crashes, removals, replies, late timers, panels and one of the two are
  covered.
- `AdoptionIsShared`, `DoubtIsAlwaysShown`: the seats are numbered (`RosterIsAList`), as
  the roster is an array. `EveryWindowKnows`, `NoTabLooksAlive`: the tabs are finite in
  number and `Null` is no pty.
- `NoTabLooksAlive` assumes `~Offline`. With it a tab opened while the socket is down
  is marked attached, its spawn is dropped, and it stays blank: the hazard at
  `ChatOverlay.tsx:614`.

The tree of `CanonicalLog` and the files and batches of `HistoryImport` are folds over
sequences of any length, written as recursive functions over `0..n`. The library's
induction theorems take an operator, which the provers cannot instantiate; but that
`<` is well-founded (`NatLessThanWellFounded`) is a fact about sets. From it follow, with
sets and functions for parameters, `Least` (a set of numbers has a least element),
`Induction` (a set that has 0 and, with each number below n, the next, has all up to n)
and `Recursion` (the function a fold is defined by exists), which the lemmas about the
folds cite.

Only model-checked:

- Liveness, and with it the fairness of `PoolSpec`: TLAPS has no liveness under
  fairness and no ENABLED.

## 5. Not modelled, and why

Every component is in `PROJECT.json` with its status. Routing and access control,
settings, probes, installation, translations and the command line have no protocol
of their own; the usage poller repairs itself with the next poll; the efficio report
and usage statistics are arithmetic; the Codex supervisor is started by nothing in
the server; the browser check reaches the rest as one verdict. About half of the
implementation is rendering: components that draw what a hook or a store holds. A
model of it would restate markup, so the share of lines the map covers stays small
and is the share of the code that keeps state others depend on.

Inside modelled components: `maxTickets` eviction, rejected writes (they end the
process, and the crash is modelled), the archive of finished sessions and its double
appends, several sockets of one dashboard, runs of plain agents and terminals (not
wired), remote hosts, the choice of a repository for a run, export and reprocess
commands of the prompt command line, logs longer than 100 000 events.

## 6. Plan

Done: tickets, restart and the abstract pool, with the proof that the runner implements it; the board; the prompt queue; the
records about tickets; panels and gate; terminals; the canonical log; commit; import;
agent runs; the proofs above.

Left, in this order:

1. `TicketRestart` with an eviction beyond `maxTickets`.
2. `AgentBoard` with the event log and a second socket of one dashboard.
3. An abstract specification of the terminals (a session is shown, resumable or gone)
   that `Terminals` implements.
