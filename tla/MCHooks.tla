------------------------------ MODULE MCHooks ------------------------------
(***************************************************************************)
(* The two readers of the hooks that have a life of their own afterwards:  *)
(* the prompt queue with its worker, and the board with its timers and its *)
(* dashboard.  They share no state, so a behaviour stays with one of them. *)
(* A subagent multiplies the orders of jobs and touches no score: prompts  *)
(* are checked without it, and with it for one stop fewer.                 *)
(***************************************************************************)
EXTENDS MCPromptQueue

CONSTANTS MaxEnds, MaxInbox

VARIABLES world, agents, timers, sock, inbox, view, pruning

board == <<agents, timers, sock, inbox, view, pruning>>

Board == INSTANCE AgentBoard WITH Ids <- Sessions

MCInit == world \in {"prompts", "subagents", "board"} /\ Init /\ Board!Init

MCNext == \/ /\ world = "prompts"
             /\ Next
             /\ UNCHANGED subs
             /\ \A i \in DOMAIN file' : file'[i].kind # "parse_subagent_transcript"
             /\ UNCHANGED <<world, board>>
          \/ /\ world = "subagents"
             /\ Next
             /\ \A s \in Sessions : stops'[s] < MaxStops
             /\ UNCHANGED <<world, board>>
          \/ /\ world = "board"
             /\ Board!Next
             /\ UNCHANGED <<world, vars>>

MCSpec == MCInit /\ [][MCNext]_<<world, vars, board>>

\* The fairness of either, in its own world.
MCFairSpec ==
  /\ MCSpec
  /\ WF_vars(world # "board" /\ (ReadBatch \/ Handle \/ Commit))
  /\ \A i \in Sessions : WF_board(world = "board" /\ Board!DespawnFires(i))
  /\ WF_board(world = "board" /\ Board!Receive)
  /\ WF_board(world = "board" /\ Board!Connect)

-----------------------------------------------------------------------------
(* Board: a dashboard that has read everything shows no agent that the     *)
(* server does not have.                                                   *)
NoGhosts == Board!NoGhosts

(* Board: it shows every live agent that it knows as the server has it.    *)
ViewIsCurrent == Board!ViewIsCurrent

(* Board: a timer runs that will remove an ended agent.                    *)
EndedHasTimer == Board!EndedHasTimer

(* Board: an ended agent leaves, or starts again.                          *)
EndedLeaves == Board!EndedLeaves

(* Board: once the socket stays up, what is gone leaves the dashboard.     *)
GhostsVanish == Board!GhostsVanish
=============================================================================
