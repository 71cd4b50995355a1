---------------------------- MODULE CanonicalLog ----------------------------
(***************************************************************************)
(* The canonical event log beside the live board                           *)
(* (packages/server/src/canonicalPipeline.ts, storage/src/eventStore.ts,   *)
(* core/src/canonical): hooks are turned into events one after the other,  *)
(* each after a git probe of its directory, the read model is kept in step *)
(* with the log, and managed sessions of earlier days are imported at      *)
(* every start, while hooks arrive.                                        *)
(*                                                                         *)
(* Workspaces, titles, tools and payloads are left out; two hooks of one   *)
(* kind in the same millisecond are taken to have the same payload.  Every *)
(* hook names its directory, and the log is shorter than the 100 000       *)
(* events that a start reads.                                              *)
(***************************************************************************)
EXTENDS AgentFSM, Naturals, Sequences

CONSTANTS
  Sessions,
  Kinds,       \* the hook events that arrive, of HookEvents and the two below
  MaxHooks,    \* bound on hooks
  MaxFaults    \* bound on failing appends and probes, and on restarts

VARIABLES
  log,         \* the events table, in append order
  catalog,     \* the read model: the state shown for each session
  stream,      \* ClaudeCanonicalStream: the state machine of each session
  queue,       \* hooks behind the tail promise
  probing,     \* hooks whose probe is under way
  imports,     \* managed sessions the import has not reached
  managed,     \* the sessions in managed-sessions.json
  hooks, clock, faults

vars == <<log, catalog, stream, queue, probing, imports, managed, hooks, clock, faults>>

bounds == <<hooks, clock, faults>>

Start == "SessionStart"
End == "SessionEnd"

Init == /\ log = <<>>
        /\ catalog = [s \in Sessions |-> Absent] /\ stream = catalog
        /\ queue = <<>> /\ probing = {} /\ imports = {} /\ managed = {}
        /\ hooks = 0 /\ clock = 0 /\ faults = 0

Fault == faults < MaxFaults /\ faults' = faults + 1

-----------------------------------------------------------------------------
(* One hook, as events.                                                    *)

Tools == {"PreToolUse", "PostToolUse", "PostToolUseFailure"}

\* claudeHookToCanonical, and what stateFor makes of the event; Absent where
\* the event says nothing about the state.
Implied(kind) ==
  CASE kind = Start -> "starting"
    [] kind = End -> "stopped"
    [] kind \in {"UserPromptSubmit", "PostToolUse", "PostToolUseFailure"} -> "thinking"
    [] kind = "PreToolUse" -> "using-tool"
    [] kind = "PermissionRequest" -> "waiting-user"
    [] kind = "Stop" -> "completed"
    [] OTHER -> Absent

Unmapped == {"Notification", "TeammateIdle", "TaskCompleted", "WorktreeCreate", "WorktreeRemove"}

\* normalizeLegacyState
Normalized(state, kind) ==
  CASE state = "active" -> IF kind \in Tools THEN "using-tool" ELSE "thinking"
    [] state = "spawning" -> "starting"
    [] state \in {"idle", "listening"} -> "ready"
    [] state = "waiting" -> "waiting-user"
    [] state = "error" -> "failed"
    [] state = "done" -> "completed"
    [] OTHER -> "stopped"

\* advance(): a start begins anew, an unknown session is spawning.
Advanced(h) ==
  LET known == IF stream[h.session] = Absent THEN "spawning" ELSE stream[h.session]
  IN CASE h.kind = Start -> "spawning"
       [] h.kind = End -> "despawning"
       [] OTHER -> Transition(known, Effective(h.kind, h.asks), h.asks)

\* The key of the dedupe: native for tools and for states, else by content.
ContentKey(h) == IF h.kind \in Tools THEN <<h.session, h.kind, "id", h.n>>
                 ELSE <<h.session, Effective(h.kind, h.asks), "at", h.at>>

Entry(h, key, state) == [n |-> h.n, session |-> h.session, key |-> key, state |-> state]

Content(h) == LET kind == Effective(h.kind, h.asks)
              IN IF kind \in Unmapped THEN <<>> ELSE <<Entry(h, ContentKey(h), Implied(kind))>>

\* push(): the event of the hook, then the state the machine is in.
Canonical(h) ==
  Append(Content(h), Entry(h, <<h.session, h.kind, "state", h.at>>, Normalized(Advanced(h), h.kind)))

-----------------------------------------------------------------------------
(* The log and the read model.                                             *)

Logged(entries, e) == \E i \in DOMAIN entries : entries[i].key = e.key

\* The log after the events es, each refused if the log has its key.
Appended(entries, es) ==
  LET upto[i \in 0..Len(es)] ==
        IF i = 0 THEN entries
        ELSE IF Logged(upto[i - 1], es[i]) THEN upto[i - 1]
        ELSE Append(upto[i - 1], es[i])
  IN upto[Len(es)]

\* applyCanonicalEvent, as far as the state goes
Apply(cat, e) == IF e.state # Absent THEN [cat EXCEPT ![e.session] = e.state]
                 ELSE IF cat[e.session] = Absent THEN [cat EXCEPT ![e.session] = "starting"]
                 ELSE cat

Applied(cat, es) ==
  LET upto[i \in 0..Len(es)] == IF i = 0 THEN cat ELSE Apply(upto[i - 1], es[i])
  IN upto[Len(es)]

Replay(entries) == Applied([s \in Sessions |-> Absent], entries)

\* Each event is appended and, unless the log had it, applied.
Stored(es) == /\ log' = Appended(log, es)
              /\ catalog' = Applied(catalog, SubSeq(log', Len(log) + 1, Len(log')))

\* asks: a tool that blocks on the user, or a notification about one.
Arrive(s, kind, asks, ticks) ==
  /\ hooks < MaxHooks /\ hooks' = hooks + 1
  /\ asks => kind \in {"PreToolUse", "Notification"}
  /\ clock' = IF ticks THEN clock + 1 ELSE clock
  /\ queue' = Append(queue, [session |-> s, kind |-> kind, asks |-> asks, at |-> clock', n |-> hooks'])
  /\ UNCHANGED <<log, catalog, stream, probing, imports, managed, faults>>

\* Mutant: ingest does not wait for the hook before.
ProbeMutant == /\ queue # <<>>
               /\ probing' = probing \cup {Head(queue)}
               /\ queue' = Tail(queue)
               /\ UNCHANGED <<log, catalog, stream, imports, managed, bounds>>

\* The tail promise: one hook at a time.
Probe == /\ queue # <<>> /\ probing = {}
         /\ probing' = {Head(queue)}
         /\ queue' = Tail(queue)
         /\ UNCHANGED <<log, catalog, stream, imports, managed, bounds>>

\* process() after the probe; an append that throws ends it half-way, with the
\* state machine advanced and the events before it kept.
Process(h, kept) ==
  /\ h \in probing
  /\ probing' = probing \ {h}
  /\ stream' = [stream EXCEPT ![h.session] = Advanced(h)]
  /\ Stored(SubSeq(Canonical(h), 1, kept))
  /\ IF kept = Len(Canonical(h)) THEN UNCHANGED faults ELSE Fault
  /\ UNCHANGED <<queue, imports, managed, hooks, clock>>

\* The probe throws: the hook leaves a gap.
ProbeFails(h) == /\ Fault
                 /\ h \in probing
                 /\ probing' = probing \ {h}
                 /\ UNCHANGED <<log, catalog, stream, queue, imports, managed, hooks, clock>>

Migration(s) == [n |-> 0, session |-> s, key |-> <<s, "migration">>, state |-> "starting"]

\* A synthetic event with a key of its own puts a session into the catalog;
\* a session whose probe or append fails is skipped.
Import(s) ==
  /\ s \in imports
  /\ imports' = imports \ {s}
  /\ Stored(<<Migration(s)>>) \/ UNCHANGED <<log, catalog>>
  /\ UNCHANGED <<stream, queue, probing, managed, bounds>>

\* A terminal is opened: its session is managed from now on.
Manage(s) == /\ s \notin managed
             /\ managed' = managed \cup {s}
             /\ UNCHANGED <<log, catalog, stream, queue, probing, imports, bounds>>

\* The log survives; everything else starts again.
Restart == /\ Fault
           /\ catalog' = Replay(log)
           /\ stream' = [s \in Sessions |-> Absent]
           /\ queue' = <<>> /\ probing' = {}
           /\ imports' = managed
           /\ UNCHANGED <<log, managed, hooks, clock>>

Next == \/ \E s \in Sessions : \/ Manage(s) \/ Import(s)
                               \/ \E kind \in Kinds, asks, ticks \in BOOLEAN : Arrive(s, kind, asks, ticks)
        \/ Probe \/ \E h \in probing : ProbeFails(h) \/ \E kept \in 0..Len(Canonical(h)) : Process(h, kept)
        \/ Restart

Spec == Init /\ [][Next]_vars

-----------------------------------------------------------------------------
(* "Events land in the log in arrival order even though workspace probing  *)
(* is async.  Out-of-order appends would corrupt projection replay": hooks *)
(* are in the log in the order of their arrival, with gaps where one       *)
(* failed, across imports and restarts ...                                 *)
ArrivalOrder == \A i, j \in DOMAIN log : (i < j /\ log[j].n # 0) => log[i].n <= log[j].n

(* ... and what the tree shows is what the log says: no event counted that *)
(* the log refused, and "a restart reconstructs exactly the state the      *)
(* events describe".                                                       *)
CatalogIsReplay == catalog = Replay(log)

CatalogIsTheLog == ArrivalOrder /\ CatalogIsReplay
=============================================================================
