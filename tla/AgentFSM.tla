------------------------------ MODULE AgentFSM ------------------------------
(***************************************************************************)
(* The finite-state machine of an agent card                               *)
(* (packages/core/src/state/agentFSM.ts): what a hook event of a session   *)
(* does to the state the dashboard shows for it.                           *)
(***************************************************************************)

Absent == "absent"   \* not a state of the code: the map has no such agent
Live == {"spawning", "idle", "listening", "active", "waiting", "error", "done"}
AgentStates == Live \cup {"despawning"}

\* The events that may change the state of an agent that exists, where from
\* and where to; SessionEnd never reaches the table (processEvent).
Moves ==
  [UserPromptSubmit   |-> [from |-> {"spawning", "idle", "waiting", "error", "done"},
                           to   |-> "listening"],
   PreToolUse         |-> [from |-> Live \ {"waiting"},                   to |-> "active"],
   PermissionRequest  |-> [from |-> Live \ {"spawning", "waiting"},       to |-> "waiting"],
   PostToolUseFailure |-> [from |-> {"active"},                           to |-> "error"],
   Stop               |-> [from |-> Live \ {"idle", "done"},              to |-> "idle"],
   TaskCompleted      |-> [from |-> Live \ {"spawning", "done"},          to |-> "done"]]

HookEvents == DOMAIN Moves \cup
  {"PostToolUse", "Notification", "SubagentStart", "SubagentStop", "TeammateIdle",
   "ConfigChange", "PreCompact", "WorktreeCreate", "WorktreeRemove"}

\* A Notification that asks for a permission counts as a PermissionRequest.
Effective(event, asks) ==
  IF event = "Notification" /\ asks THEN "PermissionRequest" ELSE event

\* Mutant: an event that the table does not list leaves no state at all.
TransitionMutant(state, event, asks) ==
  IF event = "PreToolUse" /\ asks THEN "waiting"
  ELSE IF event \in DOMAIN Moves /\ state \in Moves[event].from THEN Moves[event].to
  ELSE "undefined"

\* transition(): asks says that the tool is one that blocks on the user, which
\* overrides the table in every state.
Transition(state, event, asks) ==
  IF event = "PreToolUse" /\ asks THEN "waiting"
  ELSE IF event \in DOMAIN Moves /\ state \in Moves[event].from THEN Moves[event].to
  ELSE state
=============================================================================
