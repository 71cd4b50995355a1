----------------------------- MODULE AgentBoard -----------------------------
(***************************************************************************)
(* The live board of agents: the server's SessionStore and despawn timers  *)
(* (packages/core/src/state/sessionStore.ts, packages/server/src/index.ts),*)
(* the WebSocket that carries its changes (wsServer.ts), and the copy of   *)
(* the board that a dashboard keeps (useWebSocket.ts).                     *)
(*                                                                         *)
(* Hooks of a session are separate curl processes, so they reach the       *)
(* server in any order; a socket is FIFO, and loses what is in flight when *)
(* it breaks.  One dashboard is modelled: dashboards change nothing on the *)
(* server, and each has a socket and a copy of its own.                    *)
(***************************************************************************)
EXTENDS AgentFSM, Integers, Sequences

CONSTANTS
  Ids,        \* session ids and subagent ids
  MaxEnds,    \* bound: despawn timers that may run for one id
  MaxInbox    \* bound: messages in flight when a request or a hook comes

VARIABLES
  agents,   \* the store's map: id -> state (Absent: no such agent)
  timers,   \* id -> how many 30 s despawn timers are running for it
  sock,     \* the dashboard's socket: "open" or "closed"
  inbox,    \* the messages on their way to the dashboard
  view,     \* the dashboard's map: id -> state
  pruning   \* the ids for which the dashboard runs a prune timer

vars == <<agents, timers, sock, inbox, view, pruning>>

server == <<agents, timers>>
client == <<view, pruning>>

Board == [Ids -> AgentStates \cup {Absent}]

Message == [k : {"snapshot"}, agents : Board]
      \cup [k : {"spawn", "state"}, id : Ids, state : AgentStates]
      \cup [k : {"despawn"}, id : Ids]

Room == Len(inbox) < MaxInbox

\* broadcast(): to whoever is connected.
Broadcast(m) == /\ inbox' = IF sock = "open" THEN Append(inbox, m) ELSE inbox
                /\ UNCHANGED <<sock, client>>

-----------------------------------------------------------------------------
Init == /\ agents = [i \in Ids |-> Absent]
        /\ timers = [i \in Ids |-> 0]
        /\ sock = "closed"
        /\ inbox = <<>>
        /\ view = [i \in Ids |-> Absent]
        /\ pruning = {}

(* Hooks (onEvent, processEvent).                                          *)

\* createAgent replaces the entry of an id that is known already.
Created(i) == [agents EXCEPT ![i] = "spawning"]

\* SessionStart, or SubagentStart with an agent id.  The placeholder of a
\* terminal that resumes a session is such a start, too.
Start(i) ==
  /\ Room
  /\ agents' = Created(i)
  /\ Broadcast([k |-> "spawn", id |-> i, state |-> "spawning"])
  /\ UNCHANGED timers

\* Mutant: only a session that finished is archived and gets a timer.
ScheduledMutant(i) == IF agents[i] \in {"idle", "done"} THEN [timers EXCEPT ![i] = @ + 1] ELSE timers
Scheduled(i) == [timers EXCEPT ![i] = @ + 1]

\* processEvent archives the session, in whatever state it ends.
Ended(i) == [agents EXCEPT ![i] = "despawning"]

\* SessionEnd, or SubagentStop with an agent id: the card stays for 30 s.
\* Nothing tells a dashboard that the agent is despawning.
End(i) ==
  /\ agents[i] # Absent
  /\ timers[i] < MaxEnds
  /\ agents' = Ended(i)
  /\ timers' = Scheduled(i)
  /\ UNCHANGED <<sock, inbox, client>>

\* Mutant: a prompt is announced as a prompt only.
AnnouncedMutant(i, e, s) ==
  IF e = "UserPromptSubmit" THEN UNCHANGED <<sock, inbox, client>>
  ELSE Broadcast([k |-> "state", id |-> i, state |-> s])
Announced(i, e, s) == Broadcast([k |-> "state", id |-> i, state |-> s])

\* Any other hook; an unknown session is created on the way.
Hook(i, e, asks) ==
  LET known == IF agents[i] = Absent THEN "spawning" ELSE agents[i]
      s == Transition(known, Effective(e, asks), asks)
  IN  /\ Room
      /\ agents' = [agents EXCEPT ![i] = s]
      /\ Announced(i, e, s)
      /\ UNCHANGED timers

(* The other ways an agent goes.                                           *)

\* Mutant: a despawn is broadcast for agents that are still live only.
FarewellMutant(i) ==
  IF agents[i] = "despawning" THEN UNCHANGED <<sock, inbox, client>>
  ELSE Broadcast([k |-> "despawn", id |-> i])
Farewell(i) == Broadcast([k |-> "despawn", id |-> i])

\* The timer that an earlier end has set: it does not look at the agent.
DespawnFires(i) ==
  /\ timers[i] > 0
  /\ timers' = [timers EXCEPT ![i] = @ - 1]
  /\ agents' = [agents EXCEPT ![i] = Absent]
  /\ Farewell(i)

\* DELETE /api/agents/:id
RemoveAgent(i) ==
  /\ Room
  /\ agents[i] # Absent
  /\ agents' = [agents EXCEPT ![i] = Absent]
  /\ Farewell(i)
  /\ UNCHANGED timers

\* The server stops and starts: nothing of the board is on disk.
Restart ==
  /\ agents' = [i \in Ids |-> Absent]
  /\ timers' = [i \in Ids |-> 0]
  /\ sock' = "closed"
  /\ inbox' = <<>>
  /\ UNCHANGED client

(* The socket.                                                             *)

\* The dashboard's retry every 2 s; the server greets it with a snapshot.
Connect ==
  /\ sock = "closed"
  /\ sock' = "open"
  /\ inbox' = <<[k |-> "snapshot", agents |-> agents]>>
  /\ UNCHANGED <<server, client>>

Disconnect ==
  /\ sock = "open"
  /\ sock' = "closed"
  /\ inbox' = <<>>
  /\ UNCHANGED <<server, client>>

(* The dashboard.                                                          *)

\* Mutant: the snapshot is merged into the map, which is not cleared first.
SnapshotMutant(v, m) == [i \in Ids |-> IF m.agents[i] = Absent THEN v[i] ELSE m.agents[i]]
Snapshot(v, m) == m.agents

\* A state of an agent that the dashboard does not know is dropped.
Shown(v, m) ==
  CASE m.k = "snapshot" -> Snapshot(v, m)
    [] m.k = "spawn"    -> [v EXCEPT ![m.id] = m.state]
    [] m.k = "despawn"  -> [v EXCEPT ![m.id] = Absent]
    [] m.k = "state"    -> [v EXCEPT ![m.id] = IF @ = Absent THEN @ ELSE m.state]

Receive ==
  /\ inbox # <<>>
  /\ view' = Shown(view, Head(inbox))
  /\ inbox' = Tail(inbox)
  /\ UNCHANGED <<server, sock, pruning>>

\* The effect that follows a render: timers for the despawning, none else.
Despawning == {i \in Ids : view[i] = "despawning"}

Rendered ==
  /\ pruning # Despawning
  /\ pruning' = Despawning
  /\ UNCHANGED <<server, sock, inbox, view>>

Prune(i) ==
  /\ i \in pruning
  /\ pruning' = pruning \ {i}
  /\ view' = IF view[i] = "despawning" THEN [view EXCEPT ![i] = Absent] ELSE view
  /\ UNCHANGED <<server, sock, inbox>>

-----------------------------------------------------------------------------
Next ==
  \/ \E i \in Ids : \/ Start(i) \/ End(i) \/ DespawnFires(i) \/ RemoveAgent(i) \/ Prune(i)
                    \/ \E e \in HookEvents, asks \in BOOLEAN : Hook(i, e, asks)
  \/ Restart \/ Connect \/ Disconnect \/ Receive \/ Rendered

Spec == Init /\ [][Next]_vars

\* Timers fire, a socket delivers, and a dashboard retries until it is
\* connected; nobody has to send a hook.
Fairness == /\ \A i \in Ids : WF_vars(DespawnFires(i))
            /\ WF_vars(Receive)
            /\ WF_vars(Connect)

FairSpec == Spec /\ Fairness
-----------------------------------------------------------------------------
\* Every variable has the shape the code gives it.
TypeOK ==
  /\ agents \in Board
  /\ timers \in [Ids -> Nat]
  /\ sock \in {"open", "closed"}
  /\ inbox \in Seq(Message)
  /\ view \in Board
  /\ pruning \subseteq Ids

UpToDate == sock = "open" /\ inbox = <<>>

(***************************************************************************)
(* A dashboard that has read everything shows no agent that the server     *)
(* does not have, whatever was removed, lost with the socket or forgotten  *)
(* by a restart (removeAgent, the despawn timer, the snapshot).            *)
(***************************************************************************)
NoGhosts == UpToDate => \A i \in Ids : agents[i] = Absent => view[i] = Absent

(***************************************************************************)
(* A dashboard that has read everything shows every agent it knows in the  *)
(* state the server has it in, an ended one excepted (onEvent broadcasts   *)
(* every other change of state).                                           *)
(***************************************************************************)
ViewIsCurrent ==
  UpToDate => \A i \in Ids : agents[i] \in Live => view[i] \in {Absent, agents[i]}

(***************************************************************************)
(* An ended agent is on its way out: a timer that will remove it runs,     *)
(* however often it ended, started again or was removed in between.        *)
(***************************************************************************)
EndedHasTimer == \A i \in Ids : agents[i] = "despawning" => timers[i] > 0

(***************************************************************************)
(* The despawn timer removes ended agents only: a session that started     *)
(* again keeps its card, as the dashboard's own timer sees to ("only prune *)
(* if it's still despawning", useWebSocket.ts).                            *)
(***************************************************************************)
OnlyEndedDespawn ==
  [][\A i \in Ids : sock' = "open" /\ timers'[i] < timers[i] /\ agents[i] \in Live
                      => agents'[i] # Absent]_vars

\* Liveness: an ended agent leaves the store, or starts again.
EndedLeaves == \A i \in Ids : agents[i] = "despawning" ~> agents[i] # "despawning"

\* Liveness: once the socket stays up, what the server no longer has
\* disappears from the dashboard.
GhostsVanish ==
  <>[](sock = "open") =>
    \A i \in Ids : agents[i] = Absent ~> agents[i] # Absent \/ view[i] = Absent
=============================================================================
