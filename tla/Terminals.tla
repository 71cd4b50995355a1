----------------------------- MODULE Terminals -----------------------------
(***************************************************************************)
(* Terminals: the ptys the server owns                                     *)
(* (packages/server/src/terminalManager.ts, managedSessionStore.ts, the    *)
(* terminal messages of index.ts) and the windows that show them           *)
(* (packages/ui/src/views/chat/ChatOverlay.tsx), with the messages in      *)
(* flight between them.                                                    *)
(*                                                                         *)
(* The tabs are Claude tabs: shells and ssh have no record to resume.      *)
(* Screen contents, sizes, names and times are left out; the retention     *)
(* limits (50 exited ptys, 200 records) are taken as not reached.          *)
(***************************************************************************)
EXTENDS SequencesExt, Naturals

CONSTANTS Tabs, Windows, Null,
          Offline,     \* TRUE: a window is also used while its socket is down
          MaxEvents    \* bound on exits, breaks, reloads, resumptions, adoptions, restarts

VARIABLES
  entries,    \* TerminalManager.terminals
  dying,      \* ptys that were closed and have not exited: tab and subscribers
  records,    \* the managed sessions in memory, by tab
  file,       \* and in managed-sessions.json
  conn,       \* the windows with an open socket
  toServer, toWindow,   \* messages in flight, per window
  tab,        \* per window and tab: what the page shows
  attached,   \* per window: the tabs attached in this connection epoch
  listed,     \* per window: the resumable sessions it was last told
  opened,     \* the tabs created so far: ids are unique
  events

vars == <<entries, dying, records, file, conn, toServer, toWindow, tab, attached, listed, opened, events>>

server == <<entries, dying, records, file>>
page == <<tab, attached, listed>>

Exits == {"left", "killed"}   \* isInterruptedExit tells them apart
Entry == [pty : {"live"} \cup Exits, subs : SUBSET Windows]
Shown == {"running"} \cup Exits

Init == /\ entries = [t \in Tabs |-> Null]
        /\ dying = {} /\ records = {} /\ file = {}
        /\ conn = {}
        /\ toServer = [w \in Windows |-> <<>>] /\ toWindow = toServer
        /\ tab = [w \in Windows |-> [t \in Tabs |-> "unseen"]]
        /\ attached = [w \in Windows |-> {}] /\ listed = attached
        /\ opened = {} /\ events = 0

Event == events < MaxEvents /\ events' = events + 1

-----------------------------------------------------------------------------
(* The server.                                                             *)

IsLive(t) == entries[t] # Null /\ entries[t].pty = "live"

\* getResumableSessions: persisted sessions without a live pty.
Resumable(recs, es) == {t \in recs : es[t] = Null \/ es[t].pty # "live"}

\* Every open socket hears the broadcasts; told[w] comes after them.
Sent(broadcasts, told) ==
  toWindow' = [w \in Windows |->
                 IF w \in conn THEN toWindow[w] \o broadcasts \o told[w] ELSE toWindow[w]]

List == <<"list", Resumable(records', entries')>>

Only(ws, msgs) == [w \in Windows |-> IF w \in ws THEN msgs ELSE <<>>]

Takes(w, kind, t) == /\ toServer[w] # <<>> /\ Head(toServer[w]) = <<kind, t>>
                     /\ toServer' = [toServer EXCEPT ![w] = Tail(@)]

Subscribed(w, t) == entries' = [entries EXCEPT ![t].subs = @ \cup {w}]

\* A spawn for a live tab is an attach.
ServeReattach(w, t) ==
  /\ Takes(w, "spawn", t)
  /\ IsLive(t)
  /\ Subscribed(w, t)
  /\ Sent(<<>>, Only({w}, << <<"restore", t>> >>))
  /\ UNCHANGED <<dying, records, file, conn, page, opened, events>>

\* An exited entry is replaced, the session is recorded, everybody told.
ServeSpawn(w, t) ==
  /\ Takes(w, "spawn", t)
  /\ ~IsLive(t)
  /\ entries' = [entries EXCEPT ![t] = [pty |-> "live", subs |-> {w}]]
  /\ records' = records \cup {t}
  /\ Sent(<<List>>, Only({}, <<>>))
  /\ UNCHANGED <<dying, file, conn, page, opened, events>>

\* pty.spawn throws: onTerminalExit broadcasts before the record is saved.
SpawnFails(w, t) ==
  /\ Event
  /\ Takes(w, "spawn", t)
  /\ ~IsLive(t)
  /\ entries' = [entries EXCEPT ![t] = Null]
  /\ records' = records \cup {t}
  /\ toWindow' = [v \in Windows |->
       IF v \in conn
       THEN toWindow[v] \o (IF v = w THEN << <<"left", t>> >> ELSE <<>>)
                        \o << <<"list", Resumable(records, entries')>>, List>>
       ELSE toWindow[v]]
  /\ UNCHANGED <<dying, file, conn, page, opened>>

HasFrame(t) == entries[t] # Null /\ entries[t].pty # "killed"

\* A killed pty has nothing to show but its last frame: the page resumes it.
ServeAttach(w, t) ==
  /\ Takes(w, "attach", t)
  /\ \/ /\ ~HasFrame(t)
        /\ Sent(<<>>, Only({w}, << <<IF t \in records THEN "dormant" ELSE "missing", t>> >>))
        /\ UNCHANGED entries
     \/ /\ HasFrame(t)
        /\ Subscribed(w, t)
        /\ Sent(<<>>, Only({w}, << <<"restore", t>> >>
                                \o IF IsLive(t) THEN <<>> ELSE << <<"left", t>> >>))
  /\ UNCHANGED <<dying, records, file, conn, page, opened, events>>

\* Mutant: the close stops listening to the process it kills.
ServeCloseMutant(w, t) ==
  /\ Takes(w, "close", t)
  /\ entries' = [entries EXCEPT ![t] = Null]
  /\ records' = records \ {t}
  /\ Sent(<<List>>, Only({}, <<>>))
  /\ UNCHANGED <<dying, file, conn, page, opened, events>>

\* The entry goes at once; its process is killed and exits later.
ServeClose(w, t) ==
  /\ Takes(w, "close", t)
  /\ entries' = [entries EXCEPT ![t] = Null]
  /\ dying' = IF IsLive(t) THEN dying \cup {[tab |-> t, subs |-> entries[t].subs]} ELSE dying
  /\ records' = records \ {t}
  /\ Sent(<<List>>, Only({}, <<>>))
  /\ UNCHANGED <<file, conn, page, opened, events>>

\* Mutant: an exit is told to those who watch, and to nobody else.
PtyExitsMutant(t, how) ==
  /\ Event
  /\ IsLive(t)
  /\ entries' = [entries EXCEPT ![t].pty = how]
  /\ Sent(<<>>, Only(entries[t].subs, << <<how, t>> >>))
  /\ UNCHANGED <<dying, records, file, conn, toServer, page, opened>>

\* markExited, then the subscribers are told.
PtyExits(t, how) ==
  /\ Event
  /\ IsLive(t)
  /\ entries' = [entries EXCEPT ![t].pty = how]
  /\ UNCHANGED <<dying, records, file, conn, toServer, page, opened>>
  /\ Sent(<<List>>, Only(entries[t].subs, << <<how, t>> >>))

\* The exit of a closed pty still reaches its old subscribers.
LateExit(d) ==
  /\ d \in dying
  /\ dying' = dying \ {d}
  /\ UNCHANGED <<entries, records, file, conn, toServer, page, opened, events>>
  /\ Sent(<<List>>, Only(d.subs, << <<"killed", d.tab>> >>))

Flush == /\ file # records
         /\ file' = records
         /\ UNCHANGED <<entries, dying, records, conn, toServer, toWindow, page, opened, events>>

\* Every pty and every socket dies with the server; the next one drops the
\* records of sessions that have no transcript (pruneManagedSessions).
Restart ==
  /\ Event
  /\ entries' = [t \in Tabs |-> Null]
  /\ dying' = {}
  /\ records' \in SUBSET file
  /\ conn' = {}
  /\ toServer' = [w \in Windows |-> <<>>] /\ toWindow' = toServer'
  /\ attached' = [w \in Windows |-> {}]
  /\ UNCHANGED <<file, tab, listed, opened>>

-----------------------------------------------------------------------------
(* The windows.                                                            *)

\* send: dropped without a word while the socket is down.
Says(w, kind, ts) ==
  toServer' = IF w \in conn'
              THEN [toServer EXCEPT ![w] = @ \o [i \in DOMAIN SetToSeq(ts) |-> <<kind, SetToSeq(ts)[i]>>]]
              ELSE toServer

InUse(w) == w \in conn \/ Offline

Shows(w, t, state) == tab' = [tab EXCEPT ![w][t] = state]

Attaches(w, ts) == attached' = [attached EXCEPT ![w] = @ \cup ts]

\* createTab: spawned, and marked as attached without waiting for an answer.
Open(w, t) ==
  /\ InUse(w)
  /\ t \notin opened
  /\ opened' = opened \cup {t}
  /\ Shows(w, t, "running") /\ Attaches(w, {t})
  /\ UNCHANGED <<server, conn, toWindow, listed, events>>
  /\ Says(w, "spawn", {t})

\* The poll of /api/terminals shows a tab this page has not had yet.
Adopt(w, t) ==
  /\ Event
  /\ tab[w][t] = "unseen" /\ IsLive(t)
  /\ Shows(w, t, "running")
  /\ Attaches(w, IF w \in conn THEN {t} ELSE {})
  /\ UNCHANGED <<server, conn, toWindow, listed, opened>>
  /\ Says(w, "attach", {t})

Close(w, t) ==
  /\ InUse(w)
  /\ tab[w][t] \in Shown
  /\ Shows(w, t, "closed")
  /\ UNCHANGED <<server, conn, toWindow, attached, listed, opened, events>>
  /\ Says(w, "close", {t})

\* resumeInPlace, also the resume button of an exited tab.
Resume(w, t) ==
  /\ Event
  /\ InUse(w)
  /\ tab[w][t] \in Exits
  /\ Shows(w, t, "running") /\ Attaches(w, {t})
  /\ UNCHANGED <<server, conn, toWindow, listed, opened>>
  /\ Says(w, "spawn", {t})

\* A connection starts with the snapshot; what is not attached is attached.
Connect(w) ==
  LET mounted == {t \in Tabs : tab[w][t] \in {"running", "killed"}}
  IN /\ w \notin conn
     /\ conn' = conn \cup {w}
     /\ toWindow' = [toWindow EXCEPT ![w] = << <<"list", Resumable(records, entries)>> >>]
     /\ Attaches(w, mounted)
     /\ UNCHANGED <<server, tab, listed, opened, events>>
     /\ Says(w, "attach", mounted \ attached[w])

\* The old socket takes its messages and its subscriptions with it.
Drops(w) ==
  /\ conn' = conn \ {w}
  /\ toServer' = [toServer EXCEPT ![w] = <<>>]
  /\ toWindow' = [toWindow EXCEPT ![w] = <<>>]
  /\ entries' = [t \in Tabs |-> IF entries[t] = Null THEN Null
                                ELSE [entries[t] EXCEPT !.subs = @ \ {w}]]
  /\ dying' = {[d EXCEPT !.subs = @ \ {w}] : d \in dying}
  /\ attached' = [attached EXCEPT ![w] = {}]

Break(w) ==
  /\ Event
  /\ w \in conn
  /\ Drops(w)
  /\ UNCHANGED <<records, file, tab, listed, opened>>

\* The page comes back with the tabs some window saved last (openTabsStore).
Reload(w, v) ==
  /\ Event
  /\ Drops(w)
  /\ tab' = [tab EXCEPT ![w] = [t \in Tabs |-> IF tab[v][t] \in {"running", "killed"}
                                               THEN "running" ELSE "unseen"]]
  /\ listed' = [listed EXCEPT ![w] = {}]
  /\ UNCHANGED <<records, file, opened>>

Hears(w, kind) == /\ toWindow[w] # <<>> /\ Head(toWindow[w])[1] = kind
                  /\ toWindow' = [toWindow EXCEPT ![w] = Tail(@)]

HearsList(w) ==
  /\ Hears(w, "list")
  /\ listed' = [listed EXCEPT ![w] = Head(toWindow[w])[2]]
  /\ UNCHANGED <<server, conn, toServer, tab, attached, opened, events>>

\* The screen is repainted; whether the tab has exited is left as it was.
HearsRestore(w) ==
  /\ Hears(w, "restore")
  /\ UNCHANGED <<server, conn, toServer, page, opened, events>>

\* resumeInPlace: dormant even for a tab that was closed meanwhile.
HearsNoPty(w) ==
  \E kind \in {"dormant", "missing"} :
    /\ Hears(w, kind)
    /\ LET t == Head(toWindow[w])[2]
       IN IF kind = "dormant" \/ tab[w][t] \in Shown
          THEN /\ conn' = conn
               /\ Says(w, "spawn", {t}) /\ Attaches(w, {t})
               /\ tab' = [tab EXCEPT ![w][t] = IF @ \in Shown THEN "running" ELSE @]
          ELSE UNCHANGED <<conn, toServer, attached, tab>>
    /\ UNCHANGED <<server, listed, opened, events>>

HearsExit(w) ==
  \E how \in Exits :
    /\ Hears(w, how)
    /\ tab' = [tab EXCEPT ![w][Head(toWindow[w])[2]] = IF @ \in Shown THEN how ELSE @]
    /\ UNCHANGED <<server, conn, toServer, attached, listed, opened, events>>

-----------------------------------------------------------------------------
Next ==
  \/ \E w \in Windows :
       \/ \E t \in Tabs :
            \/ ServeReattach(w, t) \/ ServeSpawn(w, t) \/ SpawnFails(w, t)
            \/ ServeAttach(w, t) \/ ServeClose(w, t)
            \/ Open(w, t) \/ Adopt(w, t) \/ Close(w, t) \/ Resume(w, t)
       \/ Connect(w) \/ Break(w) \/ \E v \in Windows : Reload(w, v)
       \/ HearsList(w) \/ HearsRestore(w) \/ HearsNoPty(w) \/ HearsExit(w)
  \/ \E t \in Tabs, how \in Exits : PtyExits(t, how)
  \/ \E d \in dying : LateExit(d)
  \/ Flush \/ Restart

Spec == Init /\ [][Next]_vars

-----------------------------------------------------------------------------
(* A window with nothing in flight.                                        *)
Settled(w) == w \in conn /\ toServer[w] = <<>> /\ toWindow[w] = <<>>

(* A tab that looks alive is: its window is subscribed to a live pty, or   *)
(* to a closed one whose exit it will still hear of, whatever windows,     *)
(* restarts and exits crossed each other.                                  *)
RunningIsWatched ==
  \A w \in Windows, t \in Tabs :
    (Settled(w) /\ tab[w][t] = "running") =>
      \/ IsLive(t) /\ w \in entries[t].subs
      \/ \E d \in dying : d.tab = t /\ w \in d.subs

(* Every window knows what can be resumed: "A pty exiting (or failing to   *)
(* spawn) makes its session resumable - tell every connected client        *)
(* immediately" (index.ts).                                                *)
ResumableIsListed == \A w \in Windows : Settled(w) => listed[w] = Resumable(records, entries)
=============================================================================
