-------------------------- MODULE AgentBoardProofs --------------------------
(***************************************************************************)
(* Theorems about AgentBoard, for any set of ids, any events and bounds.   *)
(***************************************************************************)
EXTENDS AgentBoard, SequenceTheorems, TLAPS

\* The state machine stays among the states of an agent (transition()).
LEMMA TransitionStays ==
  ASSUME NEW s \in AgentStates, NEW e, NEW asks \in BOOLEAN
  PROVE  Transition(s, e, asks) \in AgentStates
<1>1. \A x \in DOMAIN Moves : Moves[x].to \in AgentStates
  BY DEF Moves, AgentStates, Live
<1>2. "waiting" \in AgentStates
  BY DEF AgentStates, Live
<1> QED BY <1>1, <1>2 DEF Transition

\* What a broadcast leaves behind is well formed.
LEMMA BroadcastType ==
  ASSUME inbox \in Seq(Message), NEW m \in Message, Broadcast(m)
  PROVE  /\ inbox' \in Seq(Message)
         /\ UNCHANGED <<sock, view, pruning>>
BY DEF Broadcast, client

\* A message turns a board into a board (the reducer of useWebSocket).
LEMMA ShownType ==
  ASSUME NEW v \in Board, NEW m \in Message
  PROVE  Shown(v, m) \in Board
<1>1. CASE m \in [k : {"snapshot"}, agents : Board]
  BY <1>1 DEF Shown, Snapshot, Board
<1>2. CASE m \in [k : {"spawn", "state"}, id : Ids, state : AgentStates]
  BY <1>2 DEF Shown, Board
<1>3. CASE m \in [k : {"despawn"}, id : Ids]
  BY <1>3 DEF Shown, Board
<1> QED BY <1>1, <1>2, <1>3 DEF Message

LEMMA InitType == Init => TypeOK
BY DEF Init, TypeOK, Board

LEMMA NextType == TypeOK /\ [Next]_vars => TypeOK'
<1> SUFFICES ASSUME TypeOK, [Next]_vars PROVE TypeOK'
  OBVIOUS
<1> USE DEF TypeOK
<1>a. "spawning" \in AgentStates /\ "despawning" \in AgentStates
  BY DEF AgentStates, Live
<1>1. ASSUME NEW i \in Ids, Start(i) PROVE TypeOK'
  <2>1. [k |-> "spawn", id |-> i, state |-> "spawning"] \in Message
    BY <1>a DEF Message
  <2>2. inbox' \in Seq(Message) /\ UNCHANGED <<sock, view, pruning>>
    BY <1>1, <2>1, BroadcastType DEF Start
  <2> QED BY <1>1, <1>a, <2>2 DEF Start, Created, Board
<1>2. ASSUME NEW i \in Ids, End(i) PROVE TypeOK'
  BY <1>2, <1>a DEF End, Ended, Scheduled, Board, client
<1>3. ASSUME NEW i \in Ids, DespawnFires(i) PROVE TypeOK'
  <2>1. [k |-> "despawn", id |-> i] \in Message
    BY DEF Message
  <2>2. inbox' \in Seq(Message) /\ UNCHANGED <<sock, view, pruning>>
    BY <1>3, <2>1, BroadcastType DEF DespawnFires, Farewell
  <2> QED BY <1>3, <2>2 DEF DespawnFires, Board
<1>4. ASSUME NEW i \in Ids, RemoveAgent(i) PROVE TypeOK'
  <2>1. [k |-> "despawn", id |-> i] \in Message
    BY DEF Message
  <2>2. inbox' \in Seq(Message) /\ UNCHANGED <<sock, view, pruning>>
    BY <1>4, <2>1, BroadcastType DEF RemoveAgent, Farewell
  <2> QED BY <1>4, <2>2 DEF RemoveAgent, Board
<1>5. ASSUME NEW i \in Ids, Prune(i) PROVE TypeOK'
  BY <1>5 DEF Prune, Board, server
<1>6. ASSUME NEW i \in Ids, NEW e \in HookEvents, NEW asks \in BOOLEAN, Hook(i, e, asks)
      PROVE  TypeOK'
  <2> DEFINE known == IF agents[i] = Absent THEN "spawning" ELSE agents[i]
             s == Transition(known, Effective(e, asks), asks)
  <2>1. known \in AgentStates
    BY <1>a DEF Board
  <2>2. s \in AgentStates
    BY <2>1, TransitionStays
  <2> HIDE DEF s, known
  <2>3. [k |-> "state", id |-> i, state |-> s] \in Message
    BY <2>2 DEF Message
  <2>4. /\ agents' = [agents EXCEPT ![i] = s]
        /\ Broadcast([k |-> "state", id |-> i, state |-> s])
        /\ timers' = timers
    BY <1>6 DEF Hook, Announced, s, known
  <2>5. inbox' \in Seq(Message) /\ UNCHANGED <<sock, view, pruning>>
    BY <2>3, <2>4, BroadcastType
  <2> QED BY <2>2, <2>4, <2>5 DEF Board
<1>7. CASE Restart
  BY <1>7 DEF Restart, Board, client
<1>8. CASE Connect
  BY <1>8 DEF Connect, Message, server, client
<1>9. CASE Disconnect
  BY <1>9 DEF Disconnect, server, client
<1>10. CASE Receive
  <2>1. Head(inbox) \in Message /\ Tail(inbox) \in Seq(Message)
    BY <1>10 DEF Receive
  <2>2. view' \in Board
    BY <1>10, <2>1, ShownType DEF Receive
  <2> QED BY <1>10, <2>1, <2>2 DEF Receive, server
<1>11. CASE Rendered
  BY <1>11 DEF Rendered, Despawning, server
<1>12. CASE UNCHANGED vars
  BY <1>12 DEF vars
<1> QED BY <1>1, <1>2, <1>3, <1>4, <1>5, <1>6, <1>7, <1>8, <1>9, <1>10, <1>11, <1>12
        DEF Next

(***************************************************************************)
(* Every state of the board, the socket and the dashboard has the shape    *)
(* the code relies on.                                                     *)
(***************************************************************************)
THEOREM BoardTypeCorrect == Spec => []TypeOK
<1>1. Init => TypeOK
  BY InitType
<1>2. TypeOK /\ [Next]_vars => TypeOK'
  BY NextType
<1> QED BY <1>1, <1>2, PTL DEF Spec

-----------------------------------------------------------------------------
(***************************************************************************)
(* What a dashboard will show of an agent once it has read everything is   *)
(* decided by the last message about it on the way, and by its map if      *)
(* there is none.  That is what stays true to the server, whatever the     *)
(* messages before it say: a is the server's state of agent i, q the       *)
(* messages on their way, v what the dashboard shows for i.                *)
(***************************************************************************)
About(m, i) == m.k = "snapshot" \/ m.id = i

Says(m, i) == IF m.k = "snapshot" THEN m.agents[i]
              ELSE IF m.k = "despawn" THEN Absent ELSE m.state

Consistent(i, a, q, v) ==
  \/ a = "despawning"
  \/ /\ \A n \in 1..Len(q) :
          About(q[n], i) /\ (\A k \in 1..Len(q) : k > n => ~About(q[k], i))
            => Says(q[n], i) = a
     /\ (\A n \in 1..Len(q) : ~About(q[n], i)) => v \in {Absent, a}

Faithful == sock = "open" => \A i \in Ids : Consistent(i, agents[i], inbox, view[i])

BoardInv == TypeOK /\ Faithful

\* A message about the agent that tells its new state restores consistency.
LEMMA NewsIsLast ==
  ASSUME NEW i, NEW q \in Seq(Message), NEW m \in Message, NEW v, About(m, i)
  PROVE  Consistent(i, Says(m, i), Append(q, m), v)
<1> DEFINE p == Append(q, m)
<1>1. Len(p) = Len(q) + 1 /\ p[Len(p)] = m /\ Len(q) \in Nat
  OBVIOUS
<1>2. \A n \in 1..Len(p) : n # Len(p) => Len(p) > n
  BY <1>1
<1>3. Len(p) \in 1..Len(p)
  BY <1>1
<1> HIDE DEF p
<1> QED BY <1>1, <1>2, <1>3 DEF Consistent, p

\* A message about another agent changes nothing.
LEMMA OthersNews ==
  ASSUME NEW i, NEW a, NEW q \in Seq(Message), NEW m \in Message, NEW v,
         Consistent(i, a, q, v), ~About(m, i)
  PROVE  Consistent(i, a, Append(q, m), v)
<1> DEFINE p == Append(q, m)
<1>1. /\ Len(p) = Len(q) + 1 /\ p[Len(p)] = m /\ Len(q) \in Nat
      /\ \A n \in 1..Len(q) : n \in 1..Len(p) /\ p[n] = q[n]
      /\ \A n \in 1..Len(p) : n # Len(p) => n \in 1..Len(q)
  OBVIOUS
<1> HIDE DEF p
<1> QED BY <1>1 DEF Consistent, p

\* Reading a message keeps what will be shown in the end.
LEMMA ReadingIsConsistent ==
  ASSUME NEW i \in Ids, NEW a, NEW q \in Seq(Message), NEW board \in Board,
         q # <<>>, Consistent(i, a, q, board[i])
  PROVE  Consistent(i, a, Tail(q), Shown(board, Head(q))[i])
<1> DEFINE p == Tail(q)
           m == Head(q)
           w == Shown(board, m)[i]
<1>1. /\ m = q[1] /\ m \in Message /\ Len(q) \in Nat /\ Len(q) >= 1
      /\ Len(p) = Len(q) - 1
      /\ \A n \in 1..Len(p) : p[n] = q[n + 1] /\ n + 1 \in 1..Len(q)
      /\ \A k \in 1..Len(q) : k > 1 => k - 1 \in 1..Len(p) /\ p[k - 1] = q[k]
      /\ 1 \in 1..Len(q)
  OBVIOUS
<1>2. ~About(m, i) => w = board[i]
  BY <1>1 DEF About, Shown, Message, Board
<1>3. About(m, i) => w \in {Absent, Says(m, i)}
  BY <1>1 DEF About, Says, Shown, Snapshot, Message, Board
<1> SUFFICES ASSUME a # "despawning" PROVE Consistent(i, a, p, w)
  BY DEF Consistent
<1> HIDE DEF p, m, w
<1>4. ASSUME NEW n \in 1..Len(p), About(p[n], i),
             \A k \in 1..Len(p) : k > n => ~About(p[k], i)
      PROVE  Says(p[n], i) = a
  <2>1. n + 1 \in 1..Len(q) /\ p[n] = q[n + 1]
    BY <1>1
  <2>2. \A k \in 1..Len(q) : k > n + 1 => ~About(q[k], i)
    <3> SUFFICES ASSUME NEW k \in 1..Len(q), k > n + 1 PROVE ~About(q[k], i)
      OBVIOUS
    <3>1. k - 1 \in 1..Len(p) /\ p[k - 1] = q[k] /\ k - 1 > n
      BY <1>1
    <3> QED BY <3>1, <1>4
  <2> QED BY <1>4, <2>1, <2>2 DEF Consistent
<1>5. ASSUME \A n \in 1..Len(p) : ~About(p[n], i) PROVE w \in {Absent, a}
  <2>1. \A k \in 1..Len(q) : k > 1 => ~About(q[k], i)
    BY <1>1, <1>5
  <2>2. CASE About(m, i)
    BY <2>1, <2>2, <1>1, <1>3 DEF Consistent
  <2>3. CASE ~About(m, i)
    <3>1. \A k \in 1..Len(q) : ~About(q[k], i)
      BY <2>1, <2>3, <1>1
    <3> QED BY <3>1, <1>2, <2>3 DEF Consistent
  <2> QED BY <2>2, <2>3
<1> QED BY <1>4, <1>5 DEF Consistent

\* Broadcasting the new state of one agent keeps the promise for all.
LEMMA BroadcastIsFaithful ==
  ASSUME BoardInv, NEW i \in Ids, NEW m \in Message, NEW s \in AgentStates \cup {Absent},
         m.k # "snapshot", m.id = i, Says(m, i) = s,
         agents' = [agents EXCEPT ![i] = s], Broadcast(m)
  PROVE  Faithful'
<1> SUFFICES ASSUME sock = "open", NEW j \in Ids
             PROVE  Consistent(j, agents'[j], inbox', view'[j])
  BY DEF Faithful, Broadcast, client
<1>1. inbox' = Append(inbox, m) /\ view' = view /\ inbox \in Seq(Message)
  BY DEF Broadcast, client, BoardInv, TypeOK
<1>2. CASE j = i
  <2>1. agents'[j] = s
    BY <1>2 DEF BoardInv, TypeOK, Board
  <2> QED BY <2>1, <1>1, <1>2, NewsIsLast DEF About
<1>3. CASE j # i
  <2>1. agents'[j] = agents[j] /\ ~About(m, j)
    BY <1>3 DEF BoardInv, TypeOK, Board, About
  <2>2. Consistent(j, agents[j], inbox, view[j])
    BY DEF BoardInv, Faithful
  <2> QED BY <2>1, <2>2, <1>1, OthersNews
<1> QED BY <1>2, <1>3

LEMMA NextFaithful == BoardInv /\ [Next]_vars => BoardInv'
<1> SUFFICES ASSUME BoardInv, [Next]_vars PROVE Faithful'
  BY NextType DEF BoardInv
<1> USE DEF BoardInv
<1>a. "spawning" \in AgentStates /\ "despawning" \in AgentStates
  BY DEF AgentStates, Live
<1>1. ASSUME NEW i \in Ids, Start(i) PROVE Faithful'
  <2> DEFINE m == [k |-> "spawn", id |-> i, state |-> "spawning"]
  <2>1. m \in Message /\ m.k # "snapshot" /\ m.id = i /\ Says(m, i) = "spawning"
    BY <1>a DEF Message, Says
  <2>2. agents' = [agents EXCEPT ![i] = "spawning"] /\ Broadcast(m)
    BY <1>1 DEF Start, Created
  <2> HIDE DEF m
  <2> QED BY <2>1, <2>2, <1>a, BroadcastIsFaithful
<1>2. ASSUME NEW i \in Ids, End(i) PROVE Faithful'
  <2> SUFFICES ASSUME sock = "open", NEW j \in Ids
               PROVE  Consistent(j, agents'[j], inbox, view[j])
    BY <1>2 DEF Faithful, End, client
  <2>1. CASE j = i
    BY <2>1, <1>2 DEF End, Ended, TypeOK, Board, Consistent
  <2>2. CASE j # i
    BY <2>2, <1>2 DEF End, Ended, TypeOK, Board, Faithful
  <2> QED BY <2>1, <2>2
<1>3. ASSUME NEW i \in Ids, DespawnFires(i) \/ RemoveAgent(i) PROVE Faithful'
  <2> DEFINE m == [k |-> "despawn", id |-> i]
  <2>1. m \in Message /\ m.k # "snapshot" /\ m.id = i /\ Says(m, i) = Absent
    BY DEF Message, Says
  <2>2. agents' = [agents EXCEPT ![i] = Absent] /\ Broadcast(m)
    BY <1>3 DEF DespawnFires, RemoveAgent, Farewell
  <2> HIDE DEF m
  <2> QED BY <2>1, <2>2, BroadcastIsFaithful
<1>4. ASSUME NEW i \in Ids, NEW e \in HookEvents, NEW asks \in BOOLEAN, Hook(i, e, asks)
      PROVE  Faithful'
  <2> DEFINE known == IF agents[i] = Absent THEN "spawning" ELSE agents[i]
             s == Transition(known, Effective(e, asks), asks)
             m == [k |-> "state", id |-> i, state |-> s]
  <2>1. known \in AgentStates
    BY <1>a DEF TypeOK, Board
  <2>2. s \in AgentStates
    BY <2>1, TransitionStays
  <2>3. agents' = [agents EXCEPT ![i] = s] /\ Broadcast(m)
    BY <1>4 DEF Hook, Announced
  <2> HIDE DEF s, known
  <2>4. m \in Message /\ m.k # "snapshot" /\ m.id = i /\ Says(m, i) = s
    BY <2>2 DEF Message, Says
  <2> HIDE DEF m
  <2> QED BY <2>2, <2>3, <2>4, BroadcastIsFaithful
<1>5. ASSUME NEW i \in Ids, Prune(i) PROVE Faithful'
  <2> SUFFICES ASSUME sock = "open", NEW j \in Ids
               PROVE  Consistent(j, agents[j], inbox, view'[j])
    BY <1>5 DEF Faithful, Prune, server
  <2>1. Consistent(j, agents[j], inbox, view[j])
    BY DEF Faithful
  <2>2. view'[j] \in {Absent, view[j]}
    BY <1>5 DEF Prune, TypeOK, Board
  <2> QED BY <2>1, <2>2 DEF Consistent
<1>6. CASE Restart \/ Disconnect
  BY <1>6 DEF Restart, Disconnect, Faithful
<1>7. CASE Connect
  <2> DEFINE m == [k |-> "snapshot", agents |-> agents]
  <2>1. m \in Message /\ m.k = "snapshot"
    BY DEF Message, TypeOK
  <2>2. inbox' = Append(<<>>, m) /\ UNCHANGED <<agents, view>>
    BY <1>7 DEF Connect, server, client
  <2>3. \A j \in Ids : Says(m, j) = agents[j] /\ About(m, j)
    BY DEF Says, About
  <2>4. <<>> \in Seq(Message)
    OBVIOUS
  <2> HIDE DEF m
  <2>5. \A j \in Ids : Consistent(j, agents[j], Append(<<>>, m), view[j])
    <3> TAKE j \in Ids
    <3>1. Consistent(j, Says(m, j), Append(<<>>, m), view[j])
      BY <2>1, <2>3, <2>4, NewsIsLast
    <3> QED BY <3>1, <2>3
  <2> QED BY <2>2, <2>5 DEF Faithful
<1>8. CASE Receive
  <2> SUFFICES ASSUME sock = "open", NEW j \in Ids
               PROVE  Consistent(j, agents[j], Tail(inbox), Shown(view, Head(inbox))[j])
    BY <1>8 DEF Faithful, Receive, server
  <2> QED BY <1>8, ReadingIsConsistent DEF Receive, Faithful, TypeOK
<1>9. CASE Rendered
  BY <1>9 DEF Rendered, Faithful, server
<1>10. CASE UNCHANGED vars
  BY <1>10 DEF vars, Faithful
<1> QED BY <1>1, <1>2, <1>3, <1>4, <1>5, <1>6, <1>7, <1>8, <1>9, <1>10 DEF Next

LEMMA BoardInvHolds == Spec => []BoardInv
<1>1. Init => BoardInv
  BY InitType DEF BoardInv, Init, Faithful
<1> QED BY <1>1, NextFaithful, PTL DEF Spec

(***************************************************************************)
(* A dashboard that has read everything shows no agent the server does not *)
(* have.                                                                   *)
(***************************************************************************)
THEOREM NoGhostIsShown == Spec => []NoGhosts
<1>1. BoardInv => NoGhosts
  BY DEF BoardInv, TypeOK, Faithful, NoGhosts, UpToDate, Consistent, Absent
<1> QED BY <1>1, BoardInvHolds, PTL

(***************************************************************************)
(* A dashboard that has read everything shows live agents as they are.     *)
(***************************************************************************)
THEOREM ShownIsCurrent == Spec => []ViewIsCurrent
<1>1. BoardInv => ViewIsCurrent
  BY DEF BoardInv, TypeOK, Faithful, ViewIsCurrent, UpToDate, Consistent, Live
<1> QED BY <1>1, BoardInvHolds, PTL

-----------------------------------------------------------------------------
\* Only an ended agent is despawning after an event that does not end it.
LEMMA TransitionNeverEnds ==
  ASSUME NEW s, NEW e, NEW asks \in BOOLEAN, Transition(s, e, asks) = "despawning"
  PROVE  s = "despawning"
<1>1. \A x \in DOMAIN Moves : Moves[x].to # "despawning"
  BY DEF Moves
<1> QED BY <1>1 DEF Transition

LEMMA NextHasTimer ==
  TypeOK /\ EndedHasTimer /\ [Next]_vars => EndedHasTimer'
<1> SUFFICES ASSUME TypeOK, EndedHasTimer, [Next]_vars,
                    NEW j \in Ids, agents'[j] = "despawning"
             PROVE  timers'[j] > 0
  BY DEF EndedHasTimer
<1> USE DEF TypeOK, Board, EndedHasTimer
<1>1. ASSUME NEW i \in Ids, Start(i) PROVE timers'[j] > 0
  BY <1>1 DEF Start, Created
<1>2. ASSUME NEW i \in Ids, End(i) PROVE timers'[j] > 0
  BY <1>2 DEF End, Ended, Scheduled
<1>3. ASSUME NEW i \in Ids, DespawnFires(i) PROVE timers'[j] > 0
  BY <1>3 DEF DespawnFires, Absent
<1>4. ASSUME NEW i \in Ids, RemoveAgent(i) PROVE timers'[j] > 0
  BY <1>4 DEF RemoveAgent, Absent
<1>5. ASSUME NEW i \in Ids, Prune(i) PROVE timers'[j] > 0
  BY <1>5 DEF Prune, server
<1>6. ASSUME NEW i \in Ids, NEW e \in HookEvents, NEW asks \in BOOLEAN, Hook(i, e, asks)
      PROVE  timers'[j] > 0
  <2> DEFINE known == IF agents[i] = Absent THEN "spawning" ELSE agents[i]
             s == Transition(known, Effective(e, asks), asks)
  <2>1. agents' = [agents EXCEPT ![i] = s] /\ timers' = timers
    BY <1>6 DEF Hook
  <2>2. s = "despawning" => known = "despawning"
    BY TransitionNeverEnds
  <2> HIDE DEF s
  <2>3. agents[j] = "despawning"
    BY <2>1, <2>2
  <2> QED BY <2>1, <2>3
<1>7. CASE Restart
  BY <1>7 DEF Restart, Absent
<1>8. CASE Connect \/ Disconnect \/ Receive \/ Rendered
  BY <1>8 DEF Connect, Disconnect, Receive, Rendered, server
<1>9. CASE UNCHANGED vars
  BY <1>9 DEF vars
<1> QED BY <1>1, <1>2, <1>3, <1>4, <1>5, <1>6, <1>7, <1>8, <1>9 DEF Next

(***************************************************************************)
(* An ended agent always has a timer that will remove it.                  *)
(***************************************************************************)
THEOREM EndedIsOnItsWayOut == Spec => []EndedHasTimer
<1>1. Init => EndedHasTimer
  BY DEF Init, EndedHasTimer, Absent
<1> QED BY <1>1, NextHasTimer, BoardTypeCorrect, PTL DEF Spec
=============================================================================
