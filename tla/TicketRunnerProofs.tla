------------------------- MODULE TicketRunnerProofs -------------------------
(***************************************************************************)
(* Theorems about TicketRunner, for any set of tickets, any limit, any     *)
(* bound on the attempts and any set of operations: the types; the slots,  *)
(* none of which idles while tickets wait or is leaked; the work in flight, *)
(* which has a run that carries it on; the backlog and the panels, neither *)
(* of which forgets a ticket; and, for the case in which requests are      *)
(* only new tickets and retries, the order of a ticket's life and the      *)
(* refinement of TicketPool.  The last part is about TicketRestart: the    *)
(* runner when the server may stop at any moment.                          *)
(***************************************************************************)
EXTENDS TicketRestart, SequenceTheorems, FiniteSetTheorems, TLAPS

(***************************************************************************)
(* Lemmas on the operators the actions are built from: the sequence of     *)
(* runs stays one of run records and never gets shorter.                   *)
(***************************************************************************)
RunSeq(rs) == rs \in Seq(RunRecord) /\ Len(rs) >= Len(runs)

LEMMA PutRecord ==
  ASSUME NEW rs \in Seq(RunRecord), NEW i \in 1..Len(rs), NEW e \in RunRecord
  PROVE  /\ [rs EXCEPT ![i] = e] \in Seq(RunRecord)
         /\ Len([rs EXCEPT ![i] = e]) = Len(rs)
         /\ [rs EXCEPT ![i] = e][i] = e
         /\ \A j \in 1..Len(rs) : j # i => [rs EXCEPT ![i] = e][j] = rs[j]
<1> DEFINE new == [rs EXCEPT ![i] = e]
<1>1. /\ new \in Seq(RunRecord)
      /\ Len(new) = Len(rs)
      /\ \A j \in 1 .. Len(rs) : new[j] = IF j = i THEN e ELSE rs[j]
  BY ExceptSeq
<1> QED
  BY <1>1

LEMMA SetPhase ==
  ASSUME TypeOK, NEW r \in Runs, NEW p \in Phases
  PROVE  RunSeq(Phase(r, p)) /\ Len(Phase(r, p)) = Len(runs)
<1>1. runs[r] \in RunRecord
  BY ElementOfSeq DEF TypeOK, Runs
<1>2. [runs[r] EXCEPT !.pc = p] \in RunRecord
  BY <1>1 DEF RunRecord
<1>3. Phase(r, p) = [runs EXCEPT ![r] = [runs[r] EXCEPT !.pc = p]]
  BY DEF Phase
<1> QED
  BY <1>2, <1>3, PutRecord DEF TypeOK, Runs, RunSeq

LEMMA DisarmType ==
  ASSUME TypeOK, NEW t \in Tickets, NEW rs, RunSeq(rs)
  PROVE  RunSeq(Disarmed(t, rs)) /\ Len(Disarmed(t, rs)) = Len(rs)
<1> DEFINE i == timers[t]
<1>1. CASE i = NoRun
  BY <1>1 DEF Disarmed
<1>2. CASE i # NoRun
  <2>1. i \in 1..Len(rs)
    BY <1>2 DEF TypeOK, Runs, RunSeq
  <2>2. rs[i] \in RunRecord
    BY <2>1, ElementOfSeq DEF RunSeq
  <2>3. [rs[i] EXCEPT !.armed = FALSE] \in RunRecord
    BY <2>2 DEF RunRecord
  <2>4. Disarmed(t, rs) = [rs EXCEPT ![i] = [rs[i] EXCEPT !.armed = FALSE]]
    BY <1>2 DEF Disarmed
  <2> QED
    BY <2>1, <2>3, <2>4, PutRecord DEF RunSeq
<1> QED
  BY <1>1, <1>2

LEMMA KillType ==
  ASSUME TypeOK, NEW t \in Tickets
  PROVE  RunSeq(Kill(t)) /\ Len(Kill(t)) = Len(runs)
<1>1. CASE handles[t] # NoRun /\ runs[handles[t]].pc = "live"
  <2>1. handles[t] \in Runs /\ "killed" \in Phases
    BY <1>1 DEF TypeOK, Phases, Working, Alive
  <2> QED
    BY <1>1, <2>1, SetPhase DEF Kill
<1>2. CASE ~(handles[t] # NoRun /\ runs[handles[t]].pc = "live")
  BY <1>2 DEF Kill, TypeOK, RunSeq
<1> QED
  BY <1>1, <1>2

LEMMA FiredType ==
  ASSUME TypeOK, NEW r \in Runs, NEW rs, RunSeq(rs)
  PROVE  RunSeq([rs EXCEPT ![r].armed = FALSE])
<1>1. r \in 1..Len(rs)
  BY DEF Runs, RunSeq, TypeOK
<1>2. rs[r] \in RunRecord
  BY <1>1, ElementOfSeq DEF RunSeq
<1>3. [rs[r] EXCEPT !.armed = FALSE] \in RunRecord
  BY <1>2 DEF RunRecord
<1>4. [rs EXCEPT ![r].armed = FALSE] = [rs EXCEPT ![r] = [rs[r] EXCEPT !.armed = FALSE]]
  OBVIOUS
<1> QED
  BY <1>1, <1>3, <1>4, PutRecord DEF RunSeq

LEMMA AddRun ==
  ASSUME TypeOK, NEW rs, RunSeq(rs), NEW t \in Tickets, NEW p \in Phases,
         NEW thread \in Nat, NEW answers \in Nat
  PROVE  /\ RunSeq(Append(rs, NewRun(t, p, thread, answers)))
         /\ Len(Append(rs, NewRun(t, p, thread, answers))) = Len(rs) + 1
<1>1. NewRun(t, p, thread, answers) \in RunRecord
  BY DEF NewRun, RunRecord
<1>2. Len(rs) \in Nat /\ Len(runs) \in Nat
  BY DEF RunSeq, TypeOK
<1> QED
  BY <1>1, <1>2, AppendProperties DEF RunSeq

(***************************************************************************)
(* What pump() leaves: well-typed slots, backlog and runs; no backlog      *)
(* unless the slots are full; a run for every slot it takes; the runs that *)
(* were there as they were; runs that begin for queued tickets, and answer *)
(* nothing; and every queued ticket of the backlog in it or begun.         *)
(***************************************************************************)
Waits(q, t) == \E i \in 1..Len(q) : q[i] = t

Pumped(R, q, rs) ==
  /\ running' \subseteq Tickets
  /\ queue' \in Seq(Tickets)
  /\ RunSeq(runs')
  /\ Len(runs') >= Len(rs)
  /\ \A r \in 1..Len(rs) : runs'[r] = rs[r]
  /\ \A t \in running' \ R :
       \E r \in 1..Len(runs') : runs'[r].id = t /\ runs'[r].pc = "validating"
  /\ queue' = <<>> \/ Cardinality(running') >= Concurrency
  /\ R \subseteq running'
  /\ \A t \in running' \ R : tickets[t].state = "queued" /\ Waits(q, t)
  /\ \A r \in 1..Len(runs') : r \notin 1..Len(rs) =>
       /\ runs'[r].pc = "validating" /\ runs'[r].answers = NoRun
       /\ runs'[r].id \in running' /\ Waits(q, runs'[r].id)
       /\ tickets[runs'[r].id].state = "queued"
  /\ \A t : Waits(queue', t) => Waits(q, t)
  /\ \A t : Waits(q, t) /\ tickets[t].state = "queued" =>
       \/ Waits(queue', t)
       \/ \E r \in 1..Len(runs') : runs'[r].id = t /\ runs'[r].pc = "validating"

LEMMA PumpType ==
  ASSUME TypeOK, NEW R \in SUBSET Tickets, NEW q \in Seq(Tickets), NEW rs, RunSeq(rs),
         Pump(R, q, rs)
  PROVE  Pumped(R, q, rs)
<1> DEFINE Startable(m) == {i \in 1..m : tickets[q[i]].state = "queued"}
           Held(m) == R \cup {q[i] : i \in Startable(m)}
<1>1. PICK n \in 0..Len(q) :
        /\ n = Len(q) \/ ~HasRoom(Held(n))
        /\ queue' = SubSeq(q, n + 1, Len(q))
        /\ running' = Held(n)
        /\ \E order \in [1..Cardinality(Startable(n)) -> Startable(n)] :
             /\ \A j, k \in DOMAIN order : j < k => order[j] < order[k]
             /\ \A i \in Startable(n) : \E k \in DOMAIN order : order[k] = i
             /\ runs' = rs \o [k \in DOMAIN order |->
                          NewRun(q[order[k]], "validating", Len(rs) + k, NoRun)]
  BY Zenon DEF Pump
<1>2. Len(q) \in Nat /\ n \in Nat /\ \A i \in 1..Len(q) : q[i] \in Tickets
  BY ElementOfSeq
<1>3. Startable(n) \subseteq 1..Len(q)
  BY <1>2
<1>4. Held(n) \subseteq Tickets
  BY <1>2, <1>3
<1>5. queue' \in Seq(Tickets)
  <2>1. Len(q) \in Int /\ n + 1 \in Int /\ \A i \in (n + 1)..Len(q) : q[i] \in Tickets
    BY <1>2
  <2> QED
    BY <1>1, <2>1, SubSeqProperties
<1>6. queue' = <<>> \/ Cardinality(running') >= Concurrency
  <2>1. CASE n = Len(q)
    <3>1. SubSeq(q, n + 1, Len(q)) = <<>>
      BY <1>2, <2>1, SubSeqEmpty
    <3> QED
      BY <1>1, <3>1
  <2>2. CASE ~HasRoom(Held(n))
    <3>1. IsFiniteSet(Held(n))
      BY <1>4, TicketsAssumption, FS_Subset
    <3>2. Cardinality(Held(n)) \in Nat
      BY <3>1, FS_CardinalityType
    <3> QED
      BY <1>1, <2>2, <3>2, ConcurrencyAssumption DEF HasRoom
  <2> QED
    BY <1>1, <2>1, <2>2
<1> DEFINE N == Cardinality(Startable(n))
<1>7. N \in Nat
  <2>1. IsFiniteSet(1..Len(q))
    BY <1>2, FS_Interval
  <2>2. IsFiniteSet(Startable(n))
    BY <1>3, <2>1, FS_Subset
  <2> QED
    BY <2>2, FS_CardinalityType
<1>8. PICK order \in [1..N -> Startable(n)] :
        /\ \A i \in Startable(n) : \E k \in DOMAIN order : order[k] = i
        /\ runs' = rs \o [k \in DOMAIN order |->
                     NewRun(q[order[k]], "validating", Len(rs) + k, NoRun)]
  BY <1>1
<1> DEFINE new == [k \in 1..N |-> NewRun(q[order[k]], "validating", Len(rs) + k, NoRun)]
<1>9. rs \in Seq(RunRecord) /\ Len(rs) \in Nat /\ Len(runs) \in Nat /\ Len(rs) >= Len(runs)
  BY DEF RunSeq, TypeOK
<1>10. runs' = rs \o new
  BY <1>8
<1>11. \A k \in 1..N : new[k] \in RunRecord
  <2> TAKE k \in 1..N
  <2>1. order[k] \in 1..Len(q)
    BY <1>3, <1>8
  <2>2. q[order[k]] \in Tickets /\ Len(rs) + k \in Nat
    BY <1>2, <1>7, <1>9, <2>1
  <2> QED
    BY <2>2 DEF NewRun, RunRecord, Phases, Working, NoRun
<1>12. new \in Seq(RunRecord) /\ Len(new) = N
  BY <1>7, <1>11, IsASeq, LenProperties
<1> HIDE DEF new, N
<1>13. /\ runs' \in Seq(RunRecord)
       /\ Len(runs') = Len(rs) + N
       /\ \A i \in 1..Len(rs) + N : runs'[i] = IF i <= Len(rs) THEN rs[i] ELSE new[i - Len(rs)]
  BY <1>9, <1>10, <1>12, ConcatProperties
<1>14. \A r \in 1..Len(rs) : runs'[r] = rs[r]
  BY <1>7, <1>9, <1>13
<1>15. ASSUME NEW t, NEW i \in Startable(n), t = q[i]
       PROVE  \E r \in 1..Len(runs') : runs'[r].id = t /\ runs'[r].pc = "validating"
  <2>2. PICK k \in 1..N : order[k] = i
    BY <1>8
  <2>3. new[k].id = t /\ new[k].pc = "validating"
    BY <1>15, <2>2 DEF new, NewRun
  <2>4. k \in Nat /\ 1 <= k /\ k <= N
    BY <1>7
  <2>5. Len(rs) + k \in 1..Len(rs) + N /\ ~(Len(rs) + k <= Len(rs))
    BY <1>7, <1>9, <2>4
  <2>6. runs'[Len(rs) + k] = new[Len(rs) + k - Len(rs)]
    BY <1>13, <2>5
  <2>7. Len(rs) + k - Len(rs) = k
    BY <1>9, <2>4
  <2> QED
    BY <1>13, <2>3, <2>5, <2>6, <2>7
<1>16. Len(runs') >= Len(rs) /\ RunSeq(runs')
  BY <1>7, <1>9, <1>13 DEF RunSeq
<1>17. running' \subseteq Tickets
  BY <1>1, <1>4
<1>18. \A t \in running' \ R : \E i \in Startable(n) : t = q[i]
  BY <1>1
<1>19. \A t \in running' \ R : tickets[t].state = "queued" /\ Waits(q, t)
  BY <1>2, <1>18 DEF Waits
<1>20. ASSUME NEW r \in 1..Len(runs'), r \notin 1..Len(rs)
       PROVE  /\ runs'[r].pc = "validating" /\ runs'[r].answers = NoRun
              /\ runs'[r].id \in running' /\ Waits(q, runs'[r].id)
              /\ tickets[runs'[r].id].state = "queued"
  <2>1. r - Len(rs) \in 1..N /\ ~(r <= Len(rs))
    BY <1>7, <1>9, <1>13, <1>20
  <2>2. runs'[r] = new[r - Len(rs)]
    BY <1>7, <1>9, <1>13, <1>20, <2>1
  <2> DEFINE k == r - Len(rs)
  <2>3. order[k] \in Startable(n)
    BY <1>8, <2>1
  <2>4. new[k].pc = "validating" /\ new[k].answers = NoRun /\ new[k].id = q[order[k]]
    BY <2>1 DEF new, NewRun
  <2>5. q[order[k]] \in running' /\ tickets[q[order[k]]].state = "queued"
    BY <1>1, <2>3
  <2>6. Waits(q, q[order[k]])
    BY <1>3, <2>3 DEF Waits
  <2> QED
    BY <2>2, <2>4, <2>5, <2>6
<1>21. ASSUME NEW i \in (n + 1)..Len(q) PROVE Waits(queue', q[i])
  <2>1. Len(queue') = Len(q) - n /\ \A j \in 1..(Len(q) - n) : queue'[j] = q[n + j]
    BY <1>1, <1>2, <1>21, SubSeqProperties
  <2>2. i - n \in 1..(Len(q) - n) /\ n + (i - n) = i
    BY <1>2
  <2> QED
    BY <2>1, <2>2 DEF Waits
<1>22. ASSUME NEW t, Waits(queue', t) PROVE Waits(q, t)
  <2>1. PICK j \in 1..Len(queue') : queue'[j] = t
    BY <1>22 DEF Waits
  <2>2. n + 1 <= Len(q)
    <3>1. CASE n + 1 > Len(q)
      <4>1. queue' = <<>>
        BY <1>1, <1>2, <3>1, SubSeqEmpty
      <4> QED
        BY <2>1, <4>1
    <3> QED
      BY <1>2, <3>1
  <2>3. Len(queue') = Len(q) - n /\ \A m \in 1..(Len(q) - n) : queue'[m] = q[n + m]
    BY <1>1, <1>2, <2>2, SubSeqProperties
  <2>4. n + j \in 1..Len(q) /\ q[n + j] = t
    BY <1>2, <2>1, <2>3
  <2> QED
    BY <2>4 DEF Waits
<1>23. ASSUME NEW t, Waits(q, t), tickets[t].state = "queued"
       PROVE  \/ Waits(queue', t)
              \/ \E r \in 1..Len(runs') : runs'[r].id = t /\ runs'[r].pc = "validating"
  <2>1. PICK i \in 1..Len(q) : q[i] = t
    BY <1>23 DEF Waits
  <2>2. i \in Startable(n) \/ i \in (n + 1)..Len(q)
    BY <1>2, <1>23, <2>1
  <2> QED
    BY <1>15, <1>21, <2>1, <2>2
<1>24. R \subseteq running'
  BY <1>1
<1>25. \A t \in running' \ R :
         \E r \in 1..Len(runs') : runs'[r].id = t /\ runs'[r].pc = "validating"
  BY <1>15, <1>18
<1> HIDE DEF Startable, Held
<1> QED
  BY <1>5, <1>6, <1>14, <1>16, <1>17, <1>19, <1>20, <1>22, <1>23, <1>24, <1>25 DEF Pumped

\* cancel's filter: what it leaves of a backlog is a backlog, none longer.
LEMMA WithoutType ==
  ASSUME NEW q \in Seq(Tickets), NEW t
  PROVE  Without(q, t) \in Seq(Tickets) /\ Len(Without(q, t)) <= Len(q)
<1> DEFINE i == CHOOSE j \in 1..Len(q) : q[j] = t
           before == SubSeq(q, 1, i - 1)
           after == SubSeq(q, i + 1, Len(q))
<1>1. CASE \E j \in 1..Len(q) : q[j] = t
  <2>1. i \in 1..Len(q)
    BY <1>1
  <2>2. Len(q) \in Nat /\ \A j \in 1..Len(q) : q[j] \in Tickets
    BY ElementOfSeq
  <2> HIDE DEF i
  <2>3. before \in Seq(Tickets) /\ Len(before) = i - 1
    <3>1. 1 \in Int /\ i - 1 \in Int /\ \A j \in 1..(i - 1) : q[j] \in Tickets
      BY <2>1, <2>2
    <3>2. Len(before) = IF 1 <= i - 1 THEN i - 1 - 1 + 1 ELSE 0
      BY <3>1, SubSeqProperties
    <3> QED
      BY <2>1, <2>2, <3>1, <3>2, SubSeqProperties
  <2>4. after \in Seq(Tickets) /\ Len(after) = Len(q) - i
    <3>1. i + 1 \in Int /\ Len(q) \in Int /\ \A j \in (i + 1)..Len(q) : q[j] \in Tickets
      BY <2>1, <2>2
    <3>2. Len(after) = IF i + 1 <= Len(q) THEN Len(q) - (i + 1) + 1 ELSE 0
      BY <3>1, SubSeqProperties
    <3> QED
      BY <2>1, <2>2, <3>1, <3>2, SubSeqProperties
  <2>5. before \o after \in Seq(Tickets) /\ Len(before \o after) = Len(before) + Len(after)
    BY <2>3, <2>4, ConcatProperties
  <2>6. Without(q, t) = before \o after
    BY <1>1 DEF Without, i
  <2>7. Len(before \o after) = Len(q) - 1
    <3> HIDE DEF before, after
    <3> QED
      BY <2>1, <2>2, <2>3, <2>4, <2>5
  <2> HIDE DEF before, after
  <2> QED
    BY <2>2, <2>5, <2>6, <2>7
<1>2. CASE ~\E j \in 1..Len(q) : q[j] = t
  <2>1. Without(q, t) = q
    BY <1>2 DEF Without
  <2> QED
    BY <2>1
<1> QED
  BY <1>1, <1>2

LEMMA Widen ==
  ASSUME TypeOK, RunSeq(runs')
  PROVE  /\ Runs \subseteq Runs'
         /\ Continuation \subseteq Continuation'
         /\ Seq(Continuation) \subseteq Seq(Continuation')
         /\ handles \in [Tickets -> {NoRun} \cup Runs']
         /\ timers \in [Tickets -> {NoRun} \cup Runs']
<1>1. Len(runs) \in Nat /\ Len(runs') \in Nat /\ Len(runs') >= Len(runs)
  BY DEF TypeOK, RunSeq
<1>2. Runs \subseteq Runs'
  BY <1>1 DEF Runs
<1>3. Continuation \subseteq Continuation'
  BY <1>2 DEF Continuation
<1>4. ASSUME NEW s \in Seq(Continuation) PROVE s \in Seq(Continuation')
  BY <1>3
<1>5. /\ handles \in [Tickets -> {NoRun} \cup Runs']
      /\ timers \in [Tickets -> {NoRun} \cup Runs']
  BY <1>2 DEF TypeOK
<1> QED
  BY <1>2, <1>3, <1>4, <1>5

LEMMA ReleaseType ==
  ASSUME TypeOK, NEW t \in Tickets, NEW rs, RunSeq(rs), Release(t, rs)
  PROVE  /\ running' \subseteq Tickets
         /\ queue' \in Seq(Tickets)
         /\ RunSeq(runs')
         /\ handles' \in [Tickets -> {NoRun} \cup Runs']
         /\ timers' \in [Tickets -> {NoRun} \cup Runs']
<1>1. RunSeq(Disarmed(t, rs))
  BY DisarmType
<1>2. running' \subseteq Tickets /\ queue' \in Seq(Tickets) /\ RunSeq(runs')
  <2>1. running \ {t} \in SUBSET Tickets /\ queue \in Seq(Tickets)
    BY DEF TypeOK
  <2>2. Pump(running \ {t}, queue, Disarmed(t, rs))
    BY DEF Release
  <2> QED
    BY <1>1, <2>1, <2>2, PumpType DEF Pumped
<1>3. /\ handles' = [handles EXCEPT ![t] = NoRun]
      /\ timers' = [timers EXCEPT ![t] = NoRun]
  BY DEF Release, Unregistered
<1> QED
  BY <1>2, <1>3, Widen

LEMMA StoreType ==
  ASSUME TypeOK, RunSeq(runs'), NEW t \in Tickets, NEW rec \in TicketRecord,
         NEW fq \in Seq(Continuation), NEW c \in Continuation', Store(t, rec, fq, c)
  PROVE  tickets' \in [Tickets -> TicketRecord] /\ flushq' \in Seq(Continuation')
<1>1. fq \in Seq(Continuation')
  BY Widen
<1>2. flushq' = Append(fq, c) /\ tickets' = [tickets EXCEPT ![t] = rec]
  BY DEF Store
<1>3. flushq' \in Seq(Continuation')
  BY <1>1, <1>2, AppendProperties
<1> QED
  BY <1>2, <1>3 DEF TypeOK

LEMMA SettleType ==
  ASSUME TypeOK, NEW t \in Tickets, NEW state \in States, NEW rs, RunSeq(rs),
         NEW fq \in Seq(Continuation), Settle(t, state, rs, fq), attempts' \in Nat
  PROVE  TypeOK'
<1>1. CASE /\ Store(t, [tickets[t] EXCEPT !.state = state], fq, ThenRelease(t))
           /\ runs' = rs
           /\ UNCHANGED <<running, queue, handles, timers>>
  <2>1. [tickets[t] EXCEPT !.state = state] \in TicketRecord
    BY DEF TypeOK, TicketRecord
  <2>2. ThenRelease(t) \in Continuation'
    BY DEF ThenRelease, Continuation, TicketKinds
  <2>3. RunSeq(runs')
    BY <1>1
  <2>4. tickets' \in [Tickets -> TicketRecord] /\ flushq' \in Seq(Continuation')
    BY <1>1, <2>1, <2>2, <2>3, StoreType
  <2> QED
    BY <1>1, <2>3, <2>4, Widen DEF TypeOK, RunSeq
<1>2. CASE Release(t, rs) /\ flushq' = fq /\ UNCHANGED tickets
  <2>1. /\ running' \subseteq Tickets /\ queue' \in Seq(Tickets) /\ RunSeq(runs')
        /\ handles' \in [Tickets -> {NoRun} \cup Runs']
        /\ timers' \in [Tickets -> {NoRun} \cup Runs']
    BY <1>2, ReleaseType
  <2>2. flushq' \in Seq(Continuation')
    BY <1>2, <2>1, Widen
  <2> QED
    BY <1>2, <2>1, <2>2 DEF TypeOK, RunSeq
<1> QED
  BY <1>1, <1>2 DEF Settle

LEMMA AnswerType ==
  ASSUME TypeOK, NEW t \in Tickets, NEW rs, RunSeq(rs),
         NEW fq \in Seq(Continuation), Answer(t, rs, fq), attempts' \in Nat
  PROVE  TypeOK'
<1>1. CASE /\ runs' = rs
           /\ flushq' = fq
           /\ UNCHANGED <<tickets, running, queue, handles, timers>>
  BY <1>1, Widen DEF TypeOK, RunSeq
<1>2. CASE Fail(t, rs, fq)
  <2>1. "failed" \in States
    BY DEF States, Terminal
  <2> QED
    BY <1>2, <2>1, SettleType DEF Fail
<1>3. CASE /\ running' = running \cup {t}
           /\ runs' = Append(rs, NewRun(t, "starting", tickets[t].session, tickets[t].question))
           /\ Store(t, Continued(tickets[t]), fq, [k |-> "starting", r |-> Len(rs) + 1])
           /\ UNCHANGED <<queue, handles, timers>>
  <2>1. /\ "starting" \in Phases
        /\ tickets[t].session \in Nat /\ tickets[t].question \in Nat
    BY DEF TypeOK, TicketRecord, Phases, Working
  <2>2. RunSeq(runs') /\ Len(runs') = Len(rs) + 1
    BY <1>3, <2>1, AddRun
  <2>3. [k |-> "starting", r |-> Len(rs) + 1] \in Continuation'
    <3>1. Len(rs) + 1 \in Runs'
      BY <2>2 DEF Runs, RunSeq
    <3> QED
      BY <3>1 DEF Continuation, RunKinds
  <2>4. Continued(tickets[t]) \in TicketRecord
    BY DEF TypeOK, TicketRecord, Continued, States, NoRun
  <2>5. tickets' \in [Tickets -> TicketRecord] /\ flushq' \in Seq(Continuation')
    BY <1>3, <2>2, <2>3, <2>4, StoreType
  <2> QED
    BY <1>3, <2>2, <2>5, Widen DEF TypeOK, RunSeq
<1> QED
  BY <1>1, <1>2, <1>3 DEF Answer

\* Resuming a continuation: whose it is, and what is left in the line.
LEMMA HeadType ==
  ASSUME TypeOK, flushq # <<>>
  PROVE  /\ Tail(flushq) \in Seq(Continuation)
         /\ Head(flushq).k \in RunKinds => Head(flushq).r \in Runs
         /\ Head(flushq).k \in TicketKinds => Head(flushq).t \in Tickets
<1>1. flushq \in Seq(Continuation)
  BY DEF TypeOK
<1>2. Head(flushq) \in Continuation /\ Tail(flushq) \in Seq(Continuation)
  BY <1>1, HeadTailProperties
<1> QED
  BY <1>2 DEF Continuation, RunKinds, TicketKinds

\* An update that moves no slot and no handle.
LEMMA StoredType ==
  ASSUME TypeOK, RunSeq(runs'), NEW t \in Tickets, NEW rec \in TicketRecord,
         NEW fq \in Seq(Continuation), NEW c \in Continuation', Store(t, rec, fq, c),
         UNCHANGED <<running, handles>>, queue' \in Seq(Tickets),
         timers' = timers \/ timers' = Unregistered(t), attempts' \in Nat
  PROVE  TypeOK'
<1>1. tickets' \in [Tickets -> TicketRecord] /\ flushq' \in Seq(Continuation')
  BY StoreType
<1>2. timers' \in [Tickets -> {NoRun} \cup Runs']
  BY Widen DEF Unregistered
<1> QED
  BY <1>1, <1>2, Widen DEF TypeOK, RunSeq

\* A release whose caller has nothing left to record.
LEMMA ReleasedType ==
  ASSUME TypeOK, NEW t \in Tickets, NEW rs, RunSeq(rs), Release(t, rs),
         NEW fq \in Seq(Continuation), flushq' = fq, UNCHANGED <<tickets, attempts>>
  PROVE  TypeOK'
<1>1. /\ running' \subseteq Tickets /\ queue' \in Seq(Tickets) /\ RunSeq(runs')
      /\ handles' \in [Tickets -> {NoRun} \cup Runs']
      /\ timers' \in [Tickets -> {NoRun} \cup Runs']
  BY ReleaseType
<1>2. flushq' \in Seq(Continuation')
  BY <1>1, Widen
<1> QED
  BY <1>1, <1>2 DEF TypeOK, RunSeq

\* A step of one run that touches neither the store nor the slots.
LEMMA PhasedType ==
  ASSUME TypeOK, RunSeq(runs'), NEW fq \in Seq(Continuation), flushq' = fq,
         UNCHANGED <<tickets, running, queue, handles, timers, attempts>>
  PROVE  TypeOK'
<1>1. flushq' \in Seq(Continuation')
  BY Widen
<1> QED
  BY <1>1, Widen DEF TypeOK, RunSeq

\* The continuations the actions queue are continuations.
LEMMA QueuedContinuations ==
  ASSUME NEW t \in Tickets
  PROVE  /\ [k |-> "noted", t |-> t] \in Continuation'
         /\ ThenRelease(t) \in Continuation'
         /\ ThenEnqueue(t) \in Continuation'
BY DEF Continuation, TicketKinds, ThenRelease, ThenEnqueue

LEMMA RunContinuations ==
  ASSUME TypeOK, RunSeq(runs'), NEW r \in Runs, NEW k \in RunKinds
  PROVE  [k |-> k, r |-> r] \in Continuation'
BY Widen DEF Continuation

\* What the run in question has on record.
LEMMA RunType ==
  ASSUME TypeOK, NEW r \in Runs
  PROVE  /\ runs[r] \in RunRecord
         /\ runs[r].id \in Tickets
         /\ runs[r].thread \in Nat
         /\ r \in Nat
<1>1. runs[r] \in RunRecord
  BY ElementOfSeq DEF TypeOK, Runs
<1> QED
  BY <1>1 DEF RunRecord, Runs

LEMMA SameRuns ==
  ASSUME TypeOK
  PROVE  RunSeq(runs) /\ flushq \in Seq(Continuation) /\ attempts \in Nat
BY DEF TypeOK, RunSeq

-----------------------------------------------------------------------------
(* One lemma for each group of actions: they preserve the types.           *)

LEMMA UserType ==
  ASSUME TypeOK, NEW t \in Tickets,
         Create(t) \/ Retry(t) \/ Reply(t) \/ Cancel(t) \/ Remove(t)
  PROVE  TypeOK'
<1> USE SameRuns, QueuedContinuations
<1>0. tickets[t] \in TicketRecord
  BY DEF TypeOK
<1>1. CASE Create(t)
  <2>1. [tickets[t] EXCEPT !.state = "queued"] \in TicketRecord
    BY <1>0 DEF TicketRecord, States
  <2>2. RunSeq(runs') /\ queue' \in Seq(Tickets) /\ attempts' \in Nat
    BY <1>1 DEF Create, Ask, TypeOK
  <2> QED
    BY <1>1, <2>1, <2>2, StoredType DEF Create
<1>2. CASE Retry(t)
  <2>1. Requeued(tickets[t]) \in TicketRecord
    BY <1>0 DEF TicketRecord, States, Stages, Requeued, NoRun
  <2>2. RunSeq(runs') /\ queue' \in Seq(Tickets) /\ attempts' \in Nat
    BY <1>2 DEF Retry, Ask, TypeOK
  <2> QED
    BY <1>2, <2>1, <2>2, StoredType DEF Retry
<1>3. CASE Reply(t)
  BY <1>3, AnswerType DEF Reply, Ask
<1>4. CASE Cancel(t)
  <2>1. [tickets[t] EXCEPT !.state = "failed"] \in TicketRecord
    BY <1>0 DEF TicketRecord, States, Terminal
  <2>2. RunSeq(runs')
    BY <1>4, KillType DEF Cancel
  <2>3. queue' \in Seq(Tickets)
    <3>1. Without(queue, t) \in Seq(Tickets)
      BY WithoutType DEF TypeOK
    <3> QED
      BY <1>4, <3>1 DEF Cancel
  <2> QED
    BY <1>4, <2>1, <2>2, <2>3, StoredType DEF Cancel
<1>5. CASE Remove(t)
  <2>1. [tickets[t] EXCEPT !.state = "removed"] \in TicketRecord
    BY <1>0 DEF TicketRecord, States, Absent
  <2>2. RunSeq(runs') /\ queue' \in Seq(Tickets) /\ attempts' \in Nat
    BY <1>5 DEF Remove, TypeOK
  <2> QED
    BY <1>5, <2>1, <2>2, StoredType DEF Remove
<1> QED
  BY <1>1, <1>2, <1>3, <1>4, <1>5

LEMMA ReportedType ==
  ASSUME TypeOK, NEW r \in Runs, NEW sid \in {NoRun, runs[r].thread}, NEW state \in States
  PROVE  Reported(r, sid, state) \in TicketRecord
<1>1. tickets[runs[r].id] \in TicketRecord /\ sid \in Nat
  BY RunType DEF TypeOK, NoRun
<1> QED
  BY <1>1 DEF Reported, TicketRecord

\* The agent's process: what it announces and how it ends.
LEMMA AgentType ==
  ASSUME TypeOK, NEW r \in Runs,
         \/ Announce(r) \/ AgentFails(r) \/ AgentAsks(r) \/ AgentReports(r) \/ AgentEndsLate(r)
  PROVE  TypeOK'
<1> DEFINE t == runs[r].id
<1> USE RunType, SameRuns, QueuedContinuations
<1>1. tickets[t] \in TicketRecord /\ queue \in Seq(Tickets)
  BY DEF TypeOK
<1>2. \A p \in Phases : RunSeq(Phase(r, p)) /\ RunSeq(Disarmed(t, Phase(r, p)))
  BY SetPhase, DisarmType
<1>3. {"over", "parking", "judging"} \subseteq Phases
  BY DEF Phases, Working
<1>4. {"failed", "decision", "verifying"} \subseteq States
  BY DEF States, Terminal
<1>5. CASE Announce(r)
  <2>1. [runs[r] EXCEPT !.told = TRUE] \in RunRecord
    BY DEF RunRecord
  <2>2. RunSeq(runs')
    <3>1. runs' = [runs EXCEPT ![r] = [runs[r] EXCEPT !.told = TRUE]]
      BY <1>5 DEF Announce
    <3> QED
      BY <2>1, <3>1, PutRecord DEF TypeOK, Runs, RunSeq
  <2>3. [tickets[t] EXCEPT !.session = runs[r].thread] \in TicketRecord
    BY <1>1 DEF TicketRecord
  <2> QED
    BY <1>1, <1>5, <2>2, <2>3, StoredType DEF Announce
<1>6. CASE AgentFails(r)
  <2>1. [tickets[t] EXCEPT !.state = "failed"] \in TicketRecord
    BY <1>1, <1>4 DEF TicketRecord
  <2>2. RunSeq(runs')
    BY <1>2, <1>3, <1>6 DEF AgentFails, Exited
  <2> QED
    BY <1>1, <1>6, <2>1, <2>2, StoredType DEF AgentFails
<1>7. CASE AgentAsks(r)
  <2>1. PICK sid \in {NoRun, runs[r].thread} :
          Store(t, [Reported(r, sid, "decision") EXCEPT
                      !.question = r,
                      !.stage = IF Advisors THEN "pending" ELSE "none",
                      !.about = IF Advisors THEN r ELSE NoRun],
                flushq, [k |-> "parked", r |-> r])
    BY <1>7 DEF AgentAsks
  <2> DEFINE rec == [Reported(r, sid, "decision") EXCEPT
                      !.question = r,
                      !.stage = IF Advisors THEN "pending" ELSE "none",
                      !.about = IF Advisors THEN r ELSE NoRun]
  <2>2. rec \in TicketRecord
    <3>1. Reported(r, sid, "decision") \in TicketRecord
      BY <1>4, ReportedType
    <3> QED
      BY <3>1 DEF TicketRecord, Stages, NoRun
  <2>3. RunSeq(runs')
    BY <1>2, <1>3, <1>7 DEF AgentAsks, Exited
  <2>4. [k |-> "parked", r |-> r] \in Continuation'
    BY <2>3, RunContinuations DEF RunKinds
  <2> QED
    BY <1>1, <1>7, <2>1, <2>2, <2>3, <2>4, StoredType DEF AgentAsks
<1>8. CASE AgentReports(r)
  <2>1. PICK sid \in {NoRun, runs[r].thread} :
          Store(t, Reported(r, sid, "verifying"), flushq, [k |-> "judge", r |-> r])
    BY <1>8 DEF AgentReports
  <2>2. Reported(r, sid, "verifying") \in TicketRecord
    BY <1>4, ReportedType
  <2>3. RunSeq(runs')
    BY <1>2, <1>3, <1>8 DEF AgentReports, Exited
  <2>4. [k |-> "judge", r |-> r] \in Continuation'
    BY <2>3, RunContinuations DEF RunKinds
  <2> QED
    BY <1>1, <1>8, <2>1, <2>2, <2>3, <2>4, StoredType DEF AgentReports
<1>9. CASE AgentEndsLate(r)
  BY <1>2, <1>3, <1>9, ReleasedType DEF AgentEndsLate, Exited
<1> QED
  BY <1>5, <1>6, <1>7, <1>8, <1>9

\* The cwd check, the verifier and the commit.
LEMMA GateType ==
  ASSUME TypeOK, NEW r \in Runs,
         \/ CwdRejected(r) \/ CwdAccepted(r) \/ VerifierPasses(r) \/ VerifierRejects(r)
         \/ VerifierThrows(r) \/ VerdictIsLate(r) \/ Committed(r)
  PROVE  TypeOK'
<1> DEFINE t == runs[r].id
<1> USE RunType, SameRuns
<1>1. tickets[t] \in TicketRecord /\ queue \in Seq(Tickets)
  BY DEF TypeOK
<1>2. \A p \in Phases : RunSeq(Phase(r, p))
  BY SetPhase
<1>3. {"over", "starting", "committing"} \subseteq Phases
  BY DEF Phases, Working
<1>4. {"failed", "running", "done"} \subseteq States
  BY DEF States, Terminal
<1>5. CASE CwdRejected(r)
  BY <1>2, <1>3, <1>4, <1>5, SettleType DEF CwdRejected, Fail
<1>6. CASE CwdAccepted(r)
  <2>1. CASE /\ Store(t, [tickets[t] EXCEPT !.state = "running"],
                      flushq, [k |-> "starting", r |-> r])
             /\ runs' = Phase(r, "starting")
             /\ UNCHANGED <<running, queue, handles, timers, attempts>>
    <3>1. [tickets[t] EXCEPT !.state = "running"] \in TicketRecord
      BY <1>1, <1>4 DEF TicketRecord
    <3>2. RunSeq(runs')
      BY <1>2, <1>3, <2>1
    <3>3. [k |-> "starting", r |-> r] \in Continuation'
      BY <3>2, RunContinuations DEF RunKinds
    <3> QED
      BY <1>1, <2>1, <3>1, <3>2, <3>3, StoredType
  <2>2. CASE Release(t, Phase(r, "over")) /\ UNCHANGED <<tickets, flushq, attempts>>
    BY <1>2, <1>3, <2>2, ReleasedType
  <2> QED
    BY <1>6, <2>1, <2>2 DEF CwdAccepted
<1>7. CASE VerifierPasses(r)
  BY <1>2, <1>3, <1>7, PhasedType DEF VerifierPasses
<1>8. CASE VerifierRejects(r)
  BY <1>2, <1>3, <1>4, <1>8, SettleType DEF VerifierRejects, Fail
<1>9. CASE VerifierThrows(r)
  <2>1. CASE Fail(t, Phase(r, "over"), flushq) /\ UNCHANGED attempts
    BY <1>2, <1>3, <1>4, <2>1, SettleType DEF Fail
  <2>2. CASE Release(t, Phase(r, "over")) /\ UNCHANGED <<tickets, flushq, attempts>>
    BY <1>2, <1>3, <2>2, ReleasedType
  <2> QED
    BY <1>9, <2>1, <2>2 DEF VerifierThrows
<1>10. CASE VerdictIsLate(r)
  BY <1>2, <1>3, <1>10, ReleasedType DEF VerdictIsLate
<1>11. CASE Committed(r)
  BY <1>2, <1>3, <1>4, <1>11, SettleType DEF Committed
<1> QED
  BY <1>5, <1>6, <1>7, <1>8, <1>9, <1>10, <1>11

\* The panel's verdict and the wallclock timer.
LEMMA PanelAndTimerType ==
  ASSUME TypeOK, NEW r \in Runs, PanelAnswers(r) \/ PanelIsLate(r) \/ Timeout(r)
  PROVE  TypeOK'
<1> DEFINE t == runs[r].id
<1> USE RunType, SameRuns
<1>1. tickets[t] \in TicketRecord /\ queue \in Seq(Tickets)
  BY DEF TypeOK
<1>2. \A p \in Phases : RunSeq(Phase(r, p))
  BY SetPhase
<1>3. {"over", "consulting"} \subseteq Phases
  BY DEF Phases
<1>4. CASE PanelAnswers(r)
  <2>1. RunSeq(runs') /\ attempts' \in Nat
    BY <1>2, <1>3, <1>4 DEF PanelAnswers, Ask
  <2>2. \A k \in RunKinds : [k |-> k, r |-> r] \in Continuation'
    BY <2>1, RunContinuations
  <2>3. \A stage \in Stages :
          [tickets[t] EXCEPT !.stage = stage, !.about = r] \in TicketRecord
    BY <1>1 DEF TicketRecord
  <2>4. CASE Store(t, [tickets[t] EXCEPT !.stage = "decided", !.about = r],
                   flushq, [k |-> "adopted", r |-> r])
    <3>1. "decided" \in Stages /\ "adopted" \in RunKinds
      BY DEF Stages, RunKinds
    <3> QED
      BY <1>1, <1>4, <2>1, <2>2, <2>3, <2>4, <3>1, StoredType DEF PanelAnswers
  <2>5. CASE Store(t, Escalation(tickets[t], r), flushq, [k |-> "escalated", r |-> r])
    <3>1. "failed" \in Stages /\ "escalated" \in RunKinds
      BY DEF Stages, RunKinds
    <3>2. Escalation(tickets[t], r) \in TicketRecord
      BY <2>3, <3>1 DEF Escalation
    <3> QED
      BY <1>1, <1>4, <2>1, <2>2, <2>5, <3>1, <3>2, StoredType DEF PanelAnswers
  <2> QED
    BY <1>4, <2>4, <2>5 DEF PanelAnswers
<1>5. CASE PanelIsLate(r)
  BY <1>2, <1>3, <1>5, PhasedType DEF PanelIsLate
<1>6. CASE Timeout(r)
  <2> DEFINE fired(rs) == [rs EXCEPT ![r].armed = FALSE]
  <2>2. RunSeq(fired(Kill(t))) /\ RunSeq(fired(runs))
    BY FiredType, KillType
  <2> HIDE DEF fired
  <2>3. CASE Fail(t, fired(Kill(t)), flushq) /\ UNCHANGED attempts
    <3>1. "failed" \in States
      BY DEF States, Terminal
    <3> QED
      BY <2>2, <2>3, <3>1, SettleType DEF Fail
  <2>4. CASE /\ runs' = fired(runs)
             /\ UNCHANGED <<tickets, running, queue, handles, timers, flushq, attempts>>
    BY <2>2, <2>4, PhasedType
  <2> QED
    BY <1>6, <2>3, <2>4 DEF Timeout, fired
<1> QED
  BY <1>4, <1>5, <1>6

\* What resumes when an update has been flushed.
LEMMA FlushType ==
  ASSUME TypeOK, Flush
  PROVE  TypeOK'
<1> DEFINE r == Head(flushq).r
           t == Head(flushq).t
           rest == Tail(flushq)
<1>1. flushq # <<>> => rest \in Seq(Continuation)
  BY HeadType
<1>2. ASSUME NEW k \in RunKinds, Resumes(k) PROVE r \in Runs
  BY <1>2, HeadType DEF Resumes
<1>3. ASSUME NEW k \in TicketKinds, Resumes(k) PROVE t \in Tickets
  BY <1>3, HeadType DEF Resumes
<1>4. ASSUME r \in Runs, NEW p \in Phases PROVE RunSeq(Phase(r, p))
  BY <1>4, SetPhase
<1>5. {"over", "consulting", "advising", "verifying", "live"} \subseteq Phases
  BY DEF Phases, Working, Alive
<1>6. "failed" \in States
  BY DEF States, Terminal
<1> USE SameRuns
<1> HIDE DEF rest
<1>7. CASE Spawned
  <2>1. r \in Runs
    BY <1>2, <1>7 DEF Spawned, RunKinds
  <2>2. runs[r] \in RunRecord /\ runs[r].id \in Tickets
    BY <2>1, RunType
  <2> DEFINE capped == "timeout" \in Operations
  <2>3. [runs[r] EXCEPT !.pc = "live", !.armed = capped] \in RunRecord
    <3>1. capped \in BOOLEAN
      OBVIOUS
    <3> HIDE DEF capped
    <3> QED
      BY <1>5, <2>2, <3>1 DEF RunRecord
  <2>4. RunSeq(runs')
    <3>1. runs' = [runs EXCEPT ![r] = [runs[r] EXCEPT !.pc = "live", !.armed = capped]]
      BY <1>7 DEF Spawned
    <3> QED
      BY <2>1, <2>3, <3>1, PutRecord DEF TypeOK, Runs, RunSeq
  <2>5. /\ handles' \in [Tickets -> {NoRun} \cup Runs']
        /\ timers' \in [Tickets -> {NoRun} \cup Runs']
    <3>1. r \in Runs'
      BY <2>1, <2>4, Widen
    <3> QED
      BY <1>7, <2>2, <2>4, <3>1, Widen DEF Spawned, Attached
  <2>6. flushq' \in Seq(Continuation')
    BY <1>1, <1>7, <2>4, Widen DEF Spawned, Resumes, rest
  <2> QED
    BY <1>7, <2>4, <2>5, <2>6 DEF Spawned, TypeOK, RunSeq
<1>8. CASE SpawnThrows
  <2>1. r \in Runs /\ flushq # <<>>
    BY <1>2, <1>8 DEF SpawnThrows, RunKinds, Resumes
  <2> QED
    BY <1>1, <1>4, <1>5, <1>6, <1>8, <2>1, RunType, SettleType DEF SpawnThrows, Fail, rest
<1>9. CASE Parked
  <2>1. r \in Runs /\ rest \in Seq(Continuation)
    BY <1>1, <1>2, <1>9 DEF Parked, RunKinds, Resumes
  <2> DEFINE id == runs[r].id
  <2>2. id \in Tickets /\ tickets[id] \in TicketRecord /\ r \in Nat
    BY <2>1, RunType DEF TypeOK
  <2>3. CASE /\ Release(id, Phase(r, "consulting"))
             /\ Store(id, [tickets[id] EXCEPT !.stage = "deciding", !.about = r],
                      rest, [k |-> "consult", r |-> r])
    <3>1. /\ running' \subseteq Tickets /\ queue' \in Seq(Tickets) /\ RunSeq(runs')
          /\ handles' \in [Tickets -> {NoRun} \cup Runs']
          /\ timers' \in [Tickets -> {NoRun} \cup Runs']
      BY <1>4, <1>5, <2>1, <2>2, <2>3, ReleaseType
    <3>2. [tickets[id] EXCEPT !.stage = "deciding", !.about = r] \in TicketRecord
      BY <2>2 DEF TicketRecord, Stages
    <3>3. [k |-> "consult", r |-> r] \in Continuation'
      BY <2>1, <3>1, RunContinuations DEF RunKinds
    <3>4. tickets' \in [Tickets -> TicketRecord] /\ flushq' \in Seq(Continuation')
      BY <2>1, <2>2, <2>3, <3>1, <3>2, <3>3, StoreType
    <3> QED
      BY <1>9, <3>1, <3>4 DEF Parked, TypeOK, RunSeq
  <2>4. CASE Release(id, Phase(r, "over")) /\ flushq' = rest /\ UNCHANGED <<tickets, attempts>>
    BY <1>4, <1>5, <2>1, <2>2, <2>4, ReleasedType
  <2> QED
    BY <1>9, <2>3, <2>4 DEF Parked, rest
<1>10. CASE Judging
  <2>1. r \in Runs /\ rest \in Seq(Continuation)
    BY <1>1, <1>2, <1>10 DEF Judging, RunKinds, Resumes
  <2> QED
    BY <1>4, <1>5, <1>10, <2>1, PhasedType DEF Judging, rest
<1>11. CASE Consulting
  <2>1. r \in Runs /\ rest \in Seq(Continuation)
    BY <1>1, <1>2, <1>11 DEF Consulting, RunKinds, Resumes
  <2> QED
    BY <1>4, <1>5, <1>11, <2>1, PhasedType DEF Consulting, rest
<1>12. CASE Escalated
  <2>1. r \in Runs /\ rest \in Seq(Continuation)
    BY <1>1, <1>2, <1>12 DEF Escalated, RunKinds, Resumes
  <2> QED
    BY <1>4, <1>5, <1>12, <2>1, PhasedType DEF Escalated, rest
<1>13. CASE Adopted
  <2>1. r \in Runs /\ rest \in Seq(Continuation)
    BY <1>1, <1>2, <1>13 DEF Adopted, RunKinds, Resumes
  <2> QED
    BY <1>4, <1>5, <1>13, <2>1, RunType, AnswerType DEF Adopted, rest
<1>14. CASE Enqueued
  <2>1. t \in Tickets /\ rest \in Seq(Continuation)
    BY <1>1, <1>3, <1>14 DEF Enqueued, TicketKinds, Resumes
  <2>2. running' \subseteq Tickets /\ queue' \in Seq(Tickets) /\ RunSeq(runs')
    <3>1. CASE UNCHANGED <<running, queue, runs>>
      BY <3>1 DEF TypeOK, RunSeq
    <3>2. CASE Pump(running, Append(queue, t), runs)
      <4>1. Append(queue, t) \in Seq(Tickets) /\ running \in SUBSET Tickets
        BY <2>1, AppendProperties DEF TypeOK
      <4> QED
        BY <3>2, <4>1, PumpType DEF Pumped
    <3> QED
      BY <1>14, <3>1, <3>2 DEF Enqueued
  <2> QED
    BY <1>14, <2>1, <2>2, Widen DEF Enqueued, TypeOK, RunSeq, rest
<1>15. CASE Released
  <2>1. t \in Tickets /\ rest \in Seq(Continuation)
    BY <1>1, <1>3, <1>15 DEF Released, TicketKinds, Resumes
  <2> QED
    BY <1>15, <2>1, ReleasedType DEF Released, rest
<1>16. CASE Noted
  <2>1. rest \in Seq(Continuation)
    BY <1>1, <1>16 DEF Noted, Resumes
  <2> QED
    BY <1>16, <2>1, PhasedType DEF Noted, rest
<1> QED
  BY <1>7, <1>8, <1>9, <1>10, <1>11, <1>12, <1>13, <1>14, <1>15, <1>16 DEF Flush

LEMMA InitType == Init => TypeOK
<1> SUFFICES ASSUME Init PROVE TypeOK
  OBVIOUS
<1>1. /\ queue \in Seq(Tickets) /\ runs \in Seq(RunRecord)
      /\ flushq \in Seq(Continuation) /\ attempts \in Nat
  BY DEF Init
<1>2. tickets \in [Tickets -> TicketRecord]
  BY DEF Init, TicketRecord, States, Absent, Stages, NoRun
<1> QED
  BY <1>1, <1>2 DEF Init, TypeOK

LEMMA NextType ==
  ASSUME TypeOK, [Next]_vars
  PROVE  TypeOK'
<1>1. CASE UNCHANGED vars
  BY <1>1, SameRuns, PhasedType DEF vars
<1>2. CASE User
  BY <1>2, UserType DEF User
<1>3. CASE Flush
  BY <1>3, FlushType
<1>4. ASSUME NEW r \in Runs, World(r) \/ Announce(r) \/ Timeout(r)
      PROVE  TypeOK'
  BY <1>4, AgentType, GateType, PanelAndTimerType DEF World
<1> QED
  BY <1>1, <1>2, <1>3, <1>4 DEF Next

(***************************************************************************)
(* Every variable keeps the shape the code gives it: in particular a       *)
(* handle, a timer and a continuation never name a run that does not exist.*)
(***************************************************************************)
THEOREM TypeCorrect == Spec => []TypeOK
<1>1. Init => TypeOK
  BY InitType
<1>2. TypeOK /\ [Next]_vars => TypeOK'
  BY NextType
<1> QED
  BY <1>1, <1>2, PTL DEF Spec

-----------------------------------------------------------------------------
(***************************************************************************)
(* No slot idles: what pump() guarantees, and what no other step undoes.   *)
(***************************************************************************)
LEMMA ReleaseConserves ==
  ASSUME TypeOK, NEW t \in Tickets, NEW rs, RunSeq(rs), Release(t, rs)
  PROVE  WorkConserving'
<1>1. RunSeq(Disarmed(t, rs))
  BY DisarmType
<1>2. running \ {t} \in SUBSET Tickets /\ queue \in Seq(Tickets)
  BY DEF TypeOK
<1>3. Pump(running \ {t}, queue, Disarmed(t, rs))
  BY DEF Release
<1> QED
  BY <1>1, <1>2, <1>3, PumpType DEF Pumped, WorkConserving

\* A step that frees no slot and adds no ticket to the backlog.
LEMMA OthersConserve ==
  ASSUME TypeOK, TypeOK', WorkConserving, running \subseteq running',
         queue' = queue \/ Len(queue') <= Len(queue)
  PROVE  WorkConserving'
<1>1. queue' # <<>> => queue # <<>>
  BY DEF TypeOK
<1>2. IsFiniteSet(running') /\ IsFiniteSet(running)
  BY TicketsAssumption, FS_Subset DEF TypeOK
<1>3. Cardinality(running) <= Cardinality(running')
  BY <1>2, FS_Subset
<1>4. Cardinality(running) \in Nat /\ Cardinality(running') \in Nat
  BY <1>2, FS_CardinalityType
<1> QED
  BY <1>1, <1>3, <1>4, ConcurrencyAssumption DEF WorkConserving

LEMMA SettleConserves ==
  ASSUME TypeOK, TypeOK', WorkConserving, NEW t \in Tickets, NEW state, NEW rs, RunSeq(rs),
         NEW fq, Settle(t, state, rs, fq)
  PROVE  WorkConserving'
BY ReleaseConserves, OthersConserve DEF Settle

LEMMA AnswerConserves ==
  ASSUME TypeOK, TypeOK', WorkConserving, NEW t \in Tickets, NEW rs, RunSeq(rs),
         NEW fq, Answer(t, rs, fq)
  PROVE  WorkConserving'
<1>1. CASE Fail(t, rs, fq)
  BY <1>1, SettleConserves DEF Fail
<1>2. CASE running \subseteq running' /\ queue' = queue
  BY <1>2, OthersConserve
<1> QED
  BY <1>1, <1>2 DEF Answer

LEMMA FlushConserves ==
  ASSUME TypeOK, TypeOK', WorkConserving, Flush
  PROVE  WorkConserving'
<1> DEFINE r == Head(flushq).r
           t == Head(flushq).t
<1>1. ASSUME NEW k \in RunKinds, Resumes(k)
      PROVE  r \in Runs /\ runs[r].id \in Tickets
  BY <1>1, HeadType, RunType DEF Resumes
<1>2. ASSUME NEW k \in TicketKinds, Resumes(k) PROVE t \in Tickets
  BY <1>2, HeadType DEF Resumes
<1>3. ASSUME r \in Runs, NEW p \in {"over", "consulting"} PROVE RunSeq(Phase(r, p))
  BY <1>3, SetPhase DEF Phases
<1>4. CASE Spawned \/ Judging \/ Consulting \/ Escalated \/ Noted
  BY <1>4, OthersConserve DEF Spawned, Judging, Consulting, Escalated, Noted
<1>5. CASE SpawnThrows
  BY <1>1, <1>3, <1>5, SettleConserves DEF SpawnThrows, Fail, RunKinds
<1>6. CASE Parked
  BY <1>1, <1>3, <1>6, ReleaseConserves DEF Parked, RunKinds
<1>7. CASE Adopted
  BY <1>1, <1>3, <1>7, AnswerConserves DEF Adopted, RunKinds
<1>8. CASE Enqueued
  <2>1. t \in Tickets
    BY <1>2, <1>8 DEF Enqueued, TicketKinds
  <2>2. CASE UNCHANGED <<running, queue, runs>>
    BY <2>2, OthersConserve
  <2>3. CASE Pump(running, Append(queue, t), runs)
    <3>1. Append(queue, t) \in Seq(Tickets) /\ running \in SUBSET Tickets
      BY <2>1, AppendProperties DEF TypeOK
    <3> QED
      BY <2>3, <3>1, SameRuns, PumpType DEF Pumped, WorkConserving
  <2> QED
    BY <1>8, <2>2, <2>3 DEF Enqueued
<1>9. CASE Released
  BY <1>2, <1>9, SameRuns, ReleaseConserves DEF Released, TicketKinds
<1> QED
  BY <1>4, <1>5, <1>6, <1>7, <1>8, <1>9 DEF Flush

LEMMA NextConserves ==
  ASSUME TypeOK, WorkConserving, [Next]_vars
  PROVE  WorkConserving'
<1>0. TypeOK'
  BY NextType
<1>1. CASE UNCHANGED vars
  BY <1>1 DEF vars, WorkConserving
<1>2. ASSUME NEW t \in Tickets,
             Create(t) \/ Retry(t) \/ Reply(t) \/ Cancel(t) \/ Remove(t)
      PROVE  WorkConserving'
  <2>1. CASE Create(t) \/ Retry(t) \/ Remove(t)
    BY <1>0, <2>1, OthersConserve DEF Create, Retry, Remove
  <2>2. CASE Reply(t)
    BY <1>0, <2>2, SameRuns, AnswerConserves DEF Reply
  <2>3. CASE Cancel(t)
    <3>1. Len(queue') <= Len(queue)
      BY <2>3, WithoutType DEF Cancel, TypeOK
    <3> QED
      BY <1>0, <2>3, <3>1, OthersConserve DEF Cancel
  <2> QED
    BY <1>2, <2>1, <2>2, <2>3
<1>3. CASE Flush
  BY <1>0, <1>3, FlushConserves
<1>4. ASSUME NEW r \in Runs, World(r) \/ Announce(r) \/ Timeout(r)
      PROVE  WorkConserving'
  <2>1. runs[r].id \in Tickets /\ RunSeq(Phase(r, "over"))
    BY RunType, SetPhase DEF Phases
  <2>2. CASE \/ Announce(r) \/ AgentFails(r) \/ AgentAsks(r) \/ AgentReports(r)
             \/ VerifierPasses(r) \/ PanelAnswers(r) \/ PanelIsLate(r)
    BY <1>0, <2>2, OthersConserve
       DEF Announce, AgentFails, AgentAsks, AgentReports, VerifierPasses, PanelAnswers,
           PanelIsLate
  <2>3. CASE CwdRejected(r) \/ VerifierRejects(r) \/ VerifierThrows(r) \/ Committed(r)
    BY <1>0, <2>1, <2>3, SettleConserves, ReleaseConserves
       DEF CwdRejected, VerifierRejects, VerifierThrows, Committed, Fail
  <2>4. CASE AgentEndsLate(r) \/ VerdictIsLate(r)
    BY <2>1, <2>4, ReleaseConserves DEF AgentEndsLate, VerdictIsLate, Exited
  <2>5. CASE CwdAccepted(r)
    BY <1>0, <2>1, <2>5, ReleaseConserves, OthersConserve DEF CwdAccepted
  <2>6. CASE Timeout(r)
    <3>1. CASE Fail(runs[r].id, [Kill(runs[r].id) EXCEPT ![r].armed = FALSE], flushq)
      BY <1>0, <2>1, <3>1, FiredType, KillType, SettleConserves DEF Fail
    <3>2. CASE UNCHANGED <<running, queue>>
      BY <1>0, <3>2, OthersConserve
    <3> QED
      BY <2>6, <3>1, <3>2 DEF Timeout
  <2> QED
    BY <1>4, <2>2, <2>3, <2>4, <2>5, <2>6 DEF World
<1> QED
  BY <1>1, <1>2, <1>3, <1>4 DEF Next, User

(***************************************************************************)
(* No slot is idle while tickets wait, however the handlers interleave and *)
(* whatever the limit, the tickets and the requests.                       *)
(***************************************************************************)
THEOREM NoIdleSlot == Spec => []WorkConserving
<1>1. Init => TypeOK /\ WorkConserving
  BY InitType DEF Init, WorkConserving
<1>2. TypeOK /\ WorkConserving /\ [Next]_vars => TypeOK' /\ WorkConserving'
  BY NextType, NextConserves
<1> QED
  BY <1>1, <1>2, PTL DEF Spec

-----------------------------------------------------------------------------
(***************************************************************************)
(* What a step does, as far as the line of flushes and the slots can tell: *)
(* it consumes at most the head of the line (what is left is fq), moves at *)
(* most the run r, queues at most one continuation, of r or of a new run,  *)
(* and touches no slot but t's, except to hand one to a run that begins.   *)
(***************************************************************************)
Consumes(fq, t) ==
  \/ fq = flushq
  \/ /\ flushq # <<>>
     /\ fq = Tail(flushq)
     /\ Head(flushq).k = "release" => Head(flushq).t = t

\* No continuation in fq is about r.
Free(r, fq) == \A i \in 1..Len(fq) : fq[i].k \in RunKinds => fq[i].r # r

\* Nothing but r changes phase, unless it is killed.
Moves(rs, r) ==
  /\ RunSeq(rs)
  /\ \A s \in Runs :
       /\ rs[s].id = runs[s].id
       /\ s # r => rs[s].pc = runs[s].pc \/ (runs[s].pc = "live" /\ rs[s].pc = "killed")

Queues(fq, r) ==
  \/ flushq' = fq
  \/ \E c \in Continuation' :
       /\ flushq' = Append(fq, c)
       /\ c.k \in RunKinds => /\ runs'[c.r].pc = ResumedPhase(c.k)
                              /\ c.r = r \/ c.r \notin Runs

\* Driven and a pending release, after the step.
WillDrive(t) == \E s \in Runs' : runs'[s].id = t /\ runs'[s].pc \in Working
WillRelease(t) == \E i \in 1..Len(flushq') : flushq'[i] = [k |-> "release", t |-> t]

\* The slot of t, if it has one, has a keeper; or nothing happened to it.
KeepsSlot(r, t, fq) ==
  t \in running' =>
    \/ WillRelease(t)
    \/ WillDrive(t)
    \/ /\ t \in running
       /\ fq = flushq \/ Head(flushq).k # "release"
       /\ r \in Runs /\ runs[r].pc \in Working => runs'[r].pc \in Working

Step(r, t, fq) ==
  /\ Consumes(fq, t)
  /\ Free(r, fq)
  /\ Moves(runs', r)
  /\ r \in Runs => runs[r].id = t
  /\ Queues(fq, r)
  /\ \A u \in running' \ {t} : u \in running \/ WillDrive(u)
  /\ KeepsSlot(r, t, fq)

\* The rest of the line is the line, moved up by d.
LEMMA RestOfLine ==
  ASSUME TypeOK, NEW t, NEW fq, Consumes(fq, t)
  PROVE  /\ fq \in Seq(Continuation)
         /\ \E d \in {0, 1} :
              /\ Len(fq) = Len(flushq) - d
              /\ \A i \in 1..Len(fq) : i + d \in 1..Len(flushq) /\ fq[i] = flushq[i + d]
              /\ d = 0 => fq = flushq
              /\ d = 1 => (Head(flushq).k = "release" => Head(flushq).t = t)
<1>1. flushq \in Seq(Continuation) /\ Len(flushq) \in Nat
  BY DEF TypeOK
<1>2. CASE fq = flushq
  <2>1. \A i \in 1..Len(fq) : i + 0 = i
    BY <1>1, <1>2
  <2> QED
    BY <1>1, <1>2, <2>1
<1>3. CASE /\ flushq # <<>>
           /\ fq = Tail(flushq)
           /\ Head(flushq).k = "release" => Head(flushq).t = t
  <2>1. /\ fq \in Seq(Continuation)
        /\ Len(fq) = Len(flushq) - 1
        /\ \A i \in 1..Len(fq) : fq[i] = flushq[i + 1]
    BY <1>1, <1>3, HeadTailProperties
  <2>2. \A i \in 1..Len(fq) : i + 1 \in 1..Len(flushq)
    BY <1>1, <2>1
  <2>3. /\ Len(fq) = Len(flushq) - 1
        /\ \A i \in 1..Len(fq) : i + 1 \in 1..Len(flushq) /\ fq[i] = flushq[i + 1]
        /\ 1 = 0 => fq = flushq
        /\ 1 = 1 => (Head(flushq).k = "release" => Head(flushq).t = t)
    BY <1>3, <2>1, <2>2
  <2>4. 1 \in {0, 1}
    OBVIOUS
  <2> QED
    BY <2>1, <2>3, <2>4
<1> QED
  BY <1>2, <1>3 DEF Consumes

\* A continuation of a run names a run.
LEMMA AwaitedRun ==
  ASSUME TypeOK, NEW i \in 1..Len(flushq), Awaits(i)
  PROVE  flushq[i].r \in Runs
<1>1. flushq[i] \in Continuation
  BY ElementOfSeq DEF TypeOK
<1> QED
  BY <1>1 DEF Awaits, Continuation, RunKinds, TicketKinds

LEMMA StepResumesOnce ==
  ASSUME TypeOK, TypeOK', ResumesOnce, NEW r, NEW t, NEW fq, Step(r, t, fq)
  PROVE  ResumesOnce'
<1>1. PICK d \in {0, 1} :
        /\ Len(fq) = Len(flushq) - d
        /\ \A i \in 1..Len(fq) : i + d \in 1..Len(flushq) /\ fq[i] = flushq[i + d]
  BY RestOfLine DEF Step
<1>2. fq \in Seq(Continuation) /\ Len(fq) \in Nat
  BY RestOfLine DEF Step
<1>3. ASSUME NEW i \in 1..Len(fq), fq[i].k \in RunKinds
      PROVE  /\ fq[i].r \in Runs
             /\ runs'[fq[i].r].pc = ResumedPhase(fq[i].k)
             /\ fq[i].r # r
             /\ \A j \in 1..Len(fq) : fq[j].k \in RunKinds /\ fq[j].r = fq[i].r => i = j
  <2>1. i + d \in 1..Len(flushq) /\ fq[i] = flushq[i + d] /\ Awaits(i + d)
    BY <1>1, <1>3 DEF Awaits
  <2>2. fq[i].r \in Runs
    BY <2>1, AwaitedRun
  <2>3. runs[fq[i].r].pc = ResumedPhase(fq[i].k)
    BY <2>1 DEF ResumesOnce
  <2>4. fq[i].r # r
    BY <1>3 DEF Step, Free
  <2>5. runs'[fq[i].r].pc = ResumedPhase(fq[i].k)
    <3>1. runs[fq[i].r].pc # "live"
      BY <2>3 DEF ResumedPhase
    <3> QED
      BY <2>2, <2>3, <2>4, <3>1 DEF Step, Moves
  <2>6. ASSUME NEW j \in 1..Len(fq), fq[j].k \in RunKinds, fq[j].r = fq[i].r
        PROVE  i = j
    <3>1. j + d \in 1..Len(flushq) /\ fq[j] = flushq[j + d] /\ Awaits(j + d)
      BY <1>1, <2>6 DEF Awaits
    <3>2. i + d = j + d
      BY <2>1, <2>6, <3>1 DEF ResumesOnce
    <3> QED
      BY <1>1, <3>2
  <2> QED
    BY <2>2, <2>4, <2>5, <2>6
<1>4. CASE flushq' = fq
  BY <1>3, <1>4 DEF ResumesOnce, Awaits
<1>5. ASSUME NEW c \in Continuation', flushq' = Append(fq, c),
             c.k \in RunKinds => /\ runs'[c.r].pc = ResumedPhase(c.k)
                                 /\ c.r = r \/ c.r \notin Runs
      PROVE  ResumesOnce'
  <2>1. fq \in Seq(Continuation') /\ RunSeq(runs')
    BY <1>2, Widen DEF Step, Moves
  <2>2. /\ Len(flushq') = Len(fq) + 1
        /\ \A i \in 1..Len(fq) : flushq'[i] = fq[i]
        /\ flushq'[Len(fq) + 1] = c
    BY <1>5, <2>1, AppendProperties
  <2>3. ASSUME NEW i \in 1..Len(flushq') PROVE i \in 1..Len(fq) \/ i = Len(fq) + 1
    BY <1>2, <2>2
  <2>4. ASSUME NEW i \in 1..Len(fq), fq[i].k \in RunKinds, c.k \in RunKinds
        PROVE  fq[i].r # c.r
    BY <1>3, <1>5, <2>4
  <2>5. ASSUME NEW i \in 1..Len(flushq'), flushq'[i].k \in RunKinds
        PROVE  /\ runs'[flushq'[i].r].pc = ResumedPhase(flushq'[i].k)
               /\ \A j \in 1..Len(flushq') :
                    flushq'[j].k \in RunKinds /\ flushq'[j].r = flushq'[i].r => i = j
    <3>1. CASE i \in 1..Len(fq)
      BY <1>3, <2>2, <2>3, <2>4, <2>5, <3>1
    <3>2. CASE i = Len(fq) + 1
      BY <1>5, <2>2, <2>3, <2>4, <2>5, <3>2
    <3> QED
      BY <2>3, <3>1, <3>2
  <2> QED
    BY <2>5 DEF ResumesOnce, Awaits
<1> QED
  BY <1>4, <1>5 DEF Step, Queues

\* What is pending stays pending, unless it was the head of the line.
LEMMA StaysPending ==
  ASSUME TypeOK, NEW r, NEW t, NEW fq, Step(r, t, fq),
         NEW u, Pending([k |-> "release", t |-> u]),
         u # t \/ fq = flushq \/ Head(flushq).k # "release"
  PROVE  WillRelease(u)
<1> DEFINE c == [k |-> "release", t |-> u]
<1>1. PICK d \in {0, 1} :
        /\ Len(fq) = Len(flushq) - d
        /\ \A i \in 1..Len(fq) : i + d \in 1..Len(flushq) /\ fq[i] = flushq[i + d]
        /\ d = 0 => fq = flushq
        /\ d = 1 => (Head(flushq).k = "release" => Head(flushq).t = t)
  BY RestOfLine DEF Step
<1>2. fq \in Seq(Continuation) /\ Len(fq) \in Nat /\ Len(flushq) \in Nat
  BY RestOfLine DEF Step, TypeOK
<1>3. PICK i \in 1..Len(flushq) : flushq[i] = c
  BY DEF Pending
<1>4. \E j \in 1..Len(fq) : fq[j] = c
  <2>1. CASE d = 0 \/ fq = flushq
    BY <1>1, <1>3, <2>1
  <2>2. CASE d = 1 /\ fq # flushq
    <3>1. i # 1
      <4>1. i = 1 => Head(flushq) = c
        BY <1>3 DEF TypeOK
      <4>2. Head(flushq) = c => Head(flushq).k = "release" /\ Head(flushq).t = u
        OBVIOUS
      <4> QED
        BY <1>1, <2>2, <4>1, <4>2
    <3>2. i - 1 \in 1..Len(fq) /\ i - 1 + d = i
      BY <1>1, <1>2, <2>2, <3>1
    <3> QED
      BY <1>1, <1>3, <3>2
  <2> QED
    BY <2>1, <2>2
<1>5. PICK j \in 1..Len(fq) : fq[j] = c
  BY <1>4
<1>6. CASE flushq' = fq
  BY <1>5, <1>6 DEF WillRelease
<1>7. ASSUME NEW e, e \in Continuation', flushq' = Append(fq, e)
      PROVE  WillRelease(u)
  <2>1. fq \in Seq(Continuation') /\ RunSeq(runs')
    BY <1>2, Widen DEF Step, Moves
  <2>2. Len(flushq') = Len(fq) + 1 /\ flushq'[j] = fq[j]
    BY <1>7, <2>1, AppendProperties
  <2>3. j \in 1..Len(flushq')
    BY <1>2, <2>2
  <2> QED
    BY <1>5, <2>2, <2>3 DEF WillRelease
<1> QED
  BY <1>6, <1>7 DEF Step, Queues

LEMMA StepKeepsSlots ==
  ASSUME TypeOK, TypeOK', SlotHasKeeper, NEW r, NEW t, NEW fq, Step(r, t, fq)
  PROVE  SlotHasKeeper'
<1>1. ASSUME NEW s \in Runs, NEW u, runs[s].id = u, runs[s].pc \in Working,
             s # r \/ runs'[s].pc \in Working
      PROVE  WillDrive(u)
  <2>1. runs'[s].id = u /\ runs'[s].pc \in Working
    BY <1>1 DEF Step, Moves, Working, Alive
  <2>2. s \in Runs'
    BY Widen DEF Step, Moves
  <2> QED
    BY <2>1, <2>2 DEF WillDrive
<1>2. ASSUME NEW u \in running', u # t
      PROVE  WillRelease(u) \/ WillDrive(u)
  <2>1. CASE WillDrive(u)
    BY <2>1
  <2>2. CASE u \in running /\ Pending([k |-> "release", t |-> u])
    BY <1>2, <2>2, StaysPending
  <2>3. CASE u \in running /\ Driven(u)
    <3>1. PICK s \in Runs : runs[s].id = u /\ runs[s].pc \in Working
      BY <2>3 DEF Driven
    <3>2. s # r
      BY <1>2, <3>1 DEF Step
    <3> QED
      BY <1>1, <3>1, <3>2
  <2> QED
    BY <1>2, <2>1, <2>2, <2>3 DEF Step, SlotHasKeeper
<1>3. ASSUME t \in running'
      PROVE  WillRelease(t) \/ WillDrive(t)
  <2>1. CASE /\ t \in running
             /\ fq = flushq \/ Head(flushq).k # "release"
             /\ r \in Runs /\ runs[r].pc \in Working => runs'[r].pc \in Working
    <3>1. CASE Pending([k |-> "release", t |-> t])
      BY <2>1, <3>1, StaysPending
    <3>2. CASE Driven(t)
      <4>1. PICK s \in Runs : runs[s].id = t /\ runs[s].pc \in Working
        BY <3>2 DEF Driven
      <4> QED
        BY <1>1, <2>1, <4>1
    <3> QED
      BY <2>1, <3>1, <3>2 DEF SlotHasKeeper
  <2> QED
    BY <1>3, <2>1 DEF Step, KeepsSlot
<1> QED
  BY <1>2, <1>3 DEF SlotHasKeeper, Driven, WillDrive, Pending, WillRelease

-----------------------------------------------------------------------------
(* The chokepoints are steps in this sense.                                *)

LEMMA FreeRun ==
  ASSUME TypeOK, ResumesOnce, NEW r \in Runs,
         runs[r].pc \notin {"starting", "parking", "judging", "consulting"}
  PROVE  Free(r, flushq)
BY DEF Free, ResumesOnce, Awaits, ResumedPhase

LEMMA FreeNobody ==
  ASSUME TypeOK, NEW t, NEW fq, Consumes(fq, t)
  PROVE  Free(NoRun, fq)
<1>1. fq \in Seq(Continuation)
  BY RestOfLine
<1>2. ASSUME NEW i \in 1..Len(fq), fq[i].k \in RunKinds PROVE fq[i].r # NoRun
  <2>1. fq[i] \in Continuation
    BY <1>1, ElementOfSeq
  <2> QED
    BY <1>2, <2>1 DEF Continuation, RunKinds, TicketKinds, Runs, NoRun
<1> QED
  BY <1>2 DEF Free

LEMMA FreeHead ==
  ASSUME TypeOK, ResumesOnce, flushq # <<>>, Head(flushq).k \in RunKinds
  PROVE  /\ Free(Head(flushq).r, Tail(flushq))
         /\ runs[Head(flushq).r].pc = ResumedPhase(Head(flushq).k)
<1>1. /\ flushq \in Seq(Continuation) /\ Len(flushq) \in Nat /\ Len(flushq) >= 1
      /\ Head(flushq) = flushq[1]
      /\ Len(Tail(flushq)) = Len(flushq) - 1
      /\ \A i \in 1..Len(Tail(flushq)) : Tail(flushq)[i] = flushq[i + 1]
  BY HeadTailProperties, EmptySeq DEF TypeOK
<1>2. 1 \in 1..Len(flushq) /\ Awaits(1)
  BY <1>1 DEF Awaits
<1>3. ASSUME NEW i \in 1..Len(Tail(flushq)), Tail(flushq)[i].k \in RunKinds
      PROVE  Tail(flushq)[i].r # Head(flushq).r
  <2>1. i + 1 \in 1..Len(flushq) /\ Awaits(i + 1) /\ 1 # i + 1
    BY <1>1, <1>3 DEF Awaits
  <2> QED
    BY <1>1, <1>2, <2>1 DEF ResumesOnce
<1> QED
  BY <1>1, <1>2, <1>3 DEF Free, ResumesOnce

LEMMA MovesPhase ==
  ASSUME TypeOK, NEW r \in Runs, NEW p \in Phases
  PROVE  Moves(Phase(r, p), r) /\ Phase(r, p)[r].pc = p
<1>1. runs \in Seq(RunRecord) /\ runs[r] \in RunRecord
  BY RunType DEF TypeOK
<1>2. RunSeq(Phase(r, p))
  BY SetPhase
<1>3. \A s \in Runs : Phase(r, p)[s] = IF s = r THEN [runs[r] EXCEPT !.pc = p] ELSE runs[s]
  BY <1>1 DEF Phase, Runs
<1> QED
  BY <1>1, <1>2, <1>3 DEF Moves, RunRecord

LEMMA MovesNothing ==
  ASSUME TypeOK, NEW r, NEW rs, RunSeq(rs),
         \A s \in Runs : rs[s].id = runs[s].id /\ rs[s].pc = runs[s].pc
  PROVE  Moves(rs, r)
BY DEF Moves

\* The same runs in the same phases.
Like(new, rs) ==
  /\ Len(new) = Len(rs)
  /\ \A s \in 1..Len(rs) : new[s].pc = rs[s].pc /\ new[s].id = rs[s].id

\* A timer's flag is not a phase.
LEMMA Flag ==
  ASSUME TypeOK, NEW rs, RunSeq(rs), NEW i \in 1..Len(rs)
  PROVE  RunSeq([rs EXCEPT ![i].armed = FALSE]) /\ Like([rs EXCEPT ![i].armed = FALSE], rs)
<1> DEFINE e == [rs[i] EXCEPT !.armed = FALSE]
           new == [rs EXCEPT ![i] = e]
<1>1. rs[i] \in RunRecord /\ rs \in Seq(RunRecord)
  BY ElementOfSeq DEF RunSeq
<1>2. e \in RunRecord /\ e.pc = rs[i].pc /\ e.id = rs[i].id
  BY <1>1 DEF RunRecord
<1>3. [rs EXCEPT ![i].armed = FALSE] = new
  OBVIOUS
<1> HIDE DEF e
<1>4. new \in Seq(RunRecord) /\ Len(new) = Len(rs)
  BY <1>1, <1>2, PutRecord
<1>5. \A j \in 1..Len(rs) : new[j] = IF j = i THEN e ELSE rs[j]
  BY <1>1, <1>2
<1> HIDE DEF new
<1>6. RunSeq(new) /\ Like(new, rs)
  BY <1>2, <1>4, <1>5 DEF RunSeq, Like
<1> QED
  BY <1>3, <1>6

LEMMA MovesDisarmed ==
  ASSUME TypeOK, NEW t \in Tickets, NEW r, NEW rs, Moves(rs, r)
  PROVE  Moves(Disarmed(t, rs), r) /\ Like(Disarmed(t, rs), rs)
<1>1. Len(runs) \in Nat /\ Len(rs) \in Nat /\ Len(rs) >= Len(runs) /\ RunSeq(rs)
  BY DEF TypeOK, Moves, RunSeq
<1>2. CASE timers[t] = NoRun
  BY <1>2 DEF Disarmed, Like
<1>3. CASE timers[t] # NoRun
  <2> DEFINE i == timers[t]
  <2>1. i \in 1..Len(rs)
    BY <1>1, <1>3 DEF TypeOK, Runs
  <2>2. Disarmed(t, rs) = [rs EXCEPT ![i].armed = FALSE]
    BY <1>3 DEF Disarmed
  <2>3. RunSeq(Disarmed(t, rs)) /\ Like(Disarmed(t, rs), rs)
    <3> HIDE DEF i
    <3>1. RunSeq([rs EXCEPT ![i].armed = FALSE]) /\ Like([rs EXCEPT ![i].armed = FALSE], rs)
      BY <1>1, <2>1, Flag
    <3> QED
      BY <2>2, <3>1
  <2>4. Runs \subseteq 1..Len(rs)
    BY <1>1 DEF Runs
  <2> QED
    BY <2>3, <2>4 DEF Moves, Like
<1> QED
  BY <1>2, <1>3

LEMMA MovesKill ==
  ASSUME TypeOK, NEW t \in Tickets
  PROVE  Moves(Kill(t), NoRun) /\ Len(Kill(t)) = Len(runs)
<1>1. CASE handles[t] # NoRun /\ runs[handles[t]].pc = "live"
  <2>1. handles[t] \in Runs /\ "killed" \in Phases
    BY <1>1 DEF TypeOK, Phases, Working, Alive
  <2>2. Kill(t) = Phase(handles[t], "killed")
    BY <1>1 DEF Kill
  <2>3. Moves(Kill(t), handles[t]) /\ Kill(t)[handles[t]].pc = "killed"
    BY <2>1, <2>2, MovesPhase
  <2>4. Len(Kill(t)) = Len(runs)
    BY KillType
  <2> QED
    BY <1>1, <2>3, <2>4 DEF Moves
<1>2. CASE ~(handles[t] # NoRun /\ runs[handles[t]].pc = "live")
  BY <1>2, SameRuns DEF Kill, Moves
<1> QED
  BY <1>1, <1>2

LEMMA StoreStep ==
  ASSUME TypeOK, NEW r, NEW t, NEW fq, Consumes(fq, t), Free(r, fq), Moves(runs', r),
         r \in Runs => runs[r].id = t, running' = running,
         NEW c \in Continuation', flushq' = Append(fq, c),
         c.k \in RunKinds => runs'[c.r].pc = ResumedPhase(c.k) /\ c.r = r,
         c = ThenRelease(t) \/ KeepsSlot(r, t, fq)
  PROVE  Step(r, t, fq)
<1>1. ASSUME c = ThenRelease(t) PROVE WillRelease(t)
  <2>1. fq \in Seq(Continuation')
    BY RestOfLine, Widen DEF Moves
  <2>2. Len(flushq') \in Nat /\ Len(flushq') >= 1 /\ flushq'[Len(flushq')] = c
    BY <2>1, AppendProperties
  <2> QED
    BY <1>1, <2>2 DEF WillRelease, ThenRelease
<1> QED
  BY <1>1 DEF Step, Queues, KeepsSlot

LEMMA ReleaseStep ==
  ASSUME TypeOK, NEW r, NEW t \in Tickets, NEW fq, Consumes(fq, t), Free(r, fq),
         NEW rs, Moves(rs, r), r \in Runs => runs[r].id = t, Release(t, rs),
         \/ flushq' = fq
         \/ \E c \in Continuation' :
              flushq' = Append(fq, c) /\ r \in Runs /\ c.r = r /\ rs[r].pc = ResumedPhase(c.k)
  PROVE  Step(r, t, fq)
<1> DEFINE left == Disarmed(t, rs)
<1>1. Moves(left, r) /\ Like(left, rs)
  BY MovesDisarmed
<1>2. Pump(running \ {t}, queue, left)
  BY DEF Release
<1> DEFINE R == running \ {t}
<1> HIDE DEF left
<1>3. Pumped(R, queue, left)
  <2>1. R \in SUBSET Tickets /\ queue \in Seq(Tickets) /\ RunSeq(left)
    BY <1>1 DEF TypeOK, Moves
  <2>2. Pump(R, queue, left)
    BY <1>2
  <2> HIDE DEF R
  <2> QED
    BY <2>1, <2>2, PumpType
<1>4. Runs \subseteq 1..Len(rs)
  BY DEF Runs, Moves, RunSeq, TypeOK
<1>5. Moves(runs', r) /\ (r \in Runs => runs'[r].pc = rs[r].pc)
  <2>1. \A s \in Runs : runs'[s] = left[s] /\ left[s].pc = rs[s].pc
    BY <1>1, <1>3, <1>4 DEF Like, Pumped
  <2> QED
    BY <1>1, <1>3, <2>1 DEF Moves, Pumped
<1>6. ASSUME NEW u \in running' \ (running \ {t}) PROVE WillDrive(u)
  BY <1>3 DEF WillDrive, Runs, Working, Pumped
<1>7. Queues(fq, r)
  BY <1>5 DEF Queues
<1> QED
  BY <1>5, <1>6, <1>7 DEF Step, KeepsSlot

LEMMA SettleStep ==
  ASSUME TypeOK, NEW r, NEW t \in Tickets, NEW fq, Consumes(fq, t), Free(r, fq),
         NEW rs, Moves(rs, r), r \in Runs => runs[r].id = t,
         NEW state, Settle(t, state, rs, fq)
  PROVE  Step(r, t, fq)
<1>1. CASE Store(t, [tickets[t] EXCEPT !.state = state], fq, ThenRelease(t))
           /\ runs' = rs /\ running' = running
  <2>1. ThenRelease(t) \in Continuation' /\ ThenRelease(t).k \notin RunKinds
    BY QueuedContinuations DEF ThenRelease, RunKinds
  <2>2. flushq' = Append(fq, ThenRelease(t))
    BY <1>1 DEF Store
  <2> QED
    BY <1>1, <2>1, <2>2, StoreStep
<1>2. CASE Release(t, rs) /\ flushq' = fq
  BY <1>2, ReleaseStep
<1> QED
  BY <1>1, <1>2 DEF Settle

\* A step of r that leaves the store and the slots alone.
LEMMA IdleStep ==
  ASSUME NEW r, NEW t, NEW fq, Consumes(fq, t), Free(r, fq), Moves(runs', r),
         r \in Runs => runs[r].id = t, running' = running, flushq' = fq,
         fq = flushq \/ Head(flushq).k # "release",
         r \in Runs /\ runs[r].pc \in Working => runs'[r].pc \in Working
  PROVE  Step(r, t, fq)
BY DEF Step, Queues, KeepsSlot

\* An update on nobody's behalf: of the user, or of an agent that goes on.
LEMMA NobodysStep ==
  ASSUME TypeOK, NEW t \in Tickets, running' = running, Moves(runs', NoRun),
         NEW c \in Continuation', c.k \notin RunKinds, flushq' = Append(flushq, c)
  PROVE  Step(NoRun, t, flushq)
<1>1. Consumes(flushq, t) /\ Free(NoRun, flushq)
  BY FreeNobody DEF Consumes
<1>2. NoRun \notin Runs
  BY DEF Runs, NoRun, TypeOK
<1> QED
  BY <1>1, <1>2, StoreStep DEF KeepsSlot

\* An update of a run that stays at work, or was not at work.
LEMMA WorkersStep ==
  ASSUME TypeOK, NEW r \in Runs, Free(r, flushq), Moves(runs', r), running' = running,
         runs[r].pc \in Working => runs'[r].pc \in Working,
         NEW k \in RunKinds, runs'[r].pc = ResumedPhase(k),
         flushq' = Append(flushq, [k |-> k, r |-> r])
  PROVE  Step(r, runs[r].id, flushq)
<1>1. [k |-> k, r |-> r] \in Continuation'
  BY RunContinuations DEF Moves
<1> QED
  BY <1>1, StoreStep DEF KeepsSlot, Consumes

LEMMA AnswerStep ==
  ASSUME TypeOK, NEW r, NEW t \in Tickets, NEW fq, Consumes(fq, t), Free(r, fq),
         fq = flushq \/ Head(flushq).k # "release",
         NEW rs, Moves(rs, r), r \in Runs => runs[r].id = t /\ runs[r].pc \notin Working,
         Answer(t, rs, fq)
  PROVE  Step(r, t, fq)
<1>1. CASE runs' = rs /\ flushq' = fq /\ running' = running
  BY <1>1, IdleStep
<1>2. CASE Fail(t, rs, fq)
  BY <1>2, SettleStep DEF Fail
<1>3. CASE /\ running' = running \cup {t}
           /\ runs' = Append(rs, NewRun(t, "starting", tickets[t].session, tickets[t].question))
           /\ Store(t, Continued(tickets[t]), fq, [k |-> "starting", r |-> Len(rs) + 1])
  <2> DEFINE e == NewRun(t, "starting", tickets[t].session, tickets[t].question)
             c == [k |-> "starting", r |-> Len(rs) + 1]
  <2>1. /\ rs \in Seq(RunRecord) /\ Len(rs) \in Nat /\ Len(runs) \in Nat
        /\ Len(rs) >= Len(runs)
    BY DEF Moves, RunSeq, TypeOK
  <2>2. e \in RunRecord /\ e.pc = "starting" /\ e.id = t
    BY DEF NewRun, RunRecord, TypeOK, TicketRecord, Phases, Working
  <2> HIDE DEF e
  <2>3. /\ runs' \in Seq(RunRecord)
        /\ Len(runs') = Len(rs) + 1
        /\ \A i \in 1..Len(rs) : runs'[i] = rs[i]
        /\ runs'[Len(rs) + 1] = e
    BY <1>3, <2>1, <2>2, AppendProperties DEF e
  <2>4. Moves(runs', r)
    BY <2>1, <2>3 DEF Moves, RunSeq, Runs
  <2>5. WillDrive(t)
    BY <2>1, <2>2, <2>3 DEF WillDrive, Runs, Working
  <2>6. c \in Continuation' /\ c.r \notin Runs /\ runs'[c.r].pc = ResumedPhase(c.k)
    BY <2>1, <2>2, <2>3 DEF Continuation, Runs, RunKinds, ResumedPhase
  <2>7. flushq' = Append(fq, c)
    BY <1>3 DEF Store
  <2> QED
    BY <1>3, <2>4, <2>5, <2>6, <2>7 DEF Step, Queues, KeepsSlot
<1> QED
  BY <1>1, <1>2, <1>3 DEF Answer

Steps == \E r, t, fq : Step(r, t, fq)

LEMMA StepsKeep ==
  ASSUME TypeOK, TypeOK', ResumesOnce, SlotHasKeeper, Steps
  PROVE  ResumesOnce' /\ SlotHasKeeper'
BY StepResumesOnce, StepKeepsSlots DEF Steps

-----------------------------------------------------------------------------
(* Every action is such a step.                                            *)

\* The step of nobody, before it starts.
LEMMA Nobody ==
  ASSUME TypeOK, NEW t
  PROVE  Moves(runs, NoRun) /\ Consumes(flushq, t) /\ Free(NoRun, flushq) /\ NoRun \notin Runs
<1>1. Consumes(flushq, t)
  BY DEF Consumes
<1>2. Free(NoRun, flushq)
  BY <1>1, FreeNobody
<1>3. Moves(runs, NoRun)
  BY SameRuns DEF Moves
<1>4. NoRun \notin Runs
  BY DEF Runs, NoRun, TypeOK
<1> QED
  BY <1>1, <1>2, <1>3, <1>4

LEMMA UserSteps ==
  ASSUME TypeOK, NEW t \in Tickets,
         Create(t) \/ Retry(t) \/ Reply(t) \/ Cancel(t) \/ Remove(t)
  PROVE  Steps
<1>1. /\ ThenEnqueue(t) \in Continuation' /\ ThenEnqueue(t).k \notin RunKinds
      /\ ThenRelease(t) \in Continuation' /\ ThenRelease(t).k \notin RunKinds
      /\ [k |-> "noted", t |-> t] \in Continuation' /\ "noted" \notin RunKinds
  BY QueuedContinuations DEF ThenEnqueue, ThenRelease, RunKinds
<1>2. Moves(runs, NoRun) /\ Consumes(flushq, t) /\ Free(NoRun, flushq) /\ NoRun \notin Runs
  BY Nobody
<1>3. CASE Create(t) \/ Retry(t)
  <2>1. flushq' = Append(flushq, ThenEnqueue(t)) /\ running' = running /\ runs' = runs
    BY <1>3 DEF Create, Retry, Store
  <2> QED
    BY <1>1, <1>2, <2>1, NobodysStep DEF Steps
<1>4. CASE Remove(t)
  <2> DEFINE c == [k |-> "noted", t |-> t]
  <2>1. flushq' = Append(flushq, c) /\ running' = running /\ runs' = runs
    BY <1>4 DEF Remove, Store
  <2>2. c \in Continuation' /\ c.k \notin RunKinds
    BY <1>1
  <2> HIDE DEF c
  <2> QED
    BY <1>2, <2>1, <2>2, NobodysStep DEF Steps
<1>5. CASE Cancel(t)
  <2>1. flushq' = Append(flushq, ThenRelease(t)) /\ running' = running /\ runs' = Kill(t)
    BY <1>5 DEF Cancel, Store
  <2> QED
    BY <1>1, <2>1, MovesKill, NobodysStep DEF Steps
<1>6. CASE Reply(t)
  <2>1. Answer(t, runs, flushq)
    BY <1>6 DEF Reply
  <2> QED
    BY <1>2, <2>1, AnswerStep DEF Steps
<1> QED
  BY <1>3, <1>4, <1>5, <1>6

LEMMA AgentSteps ==
  ASSUME TypeOK, ResumesOnce, NEW r \in Runs,
         \/ Announce(r) \/ AgentFails(r) \/ AgentAsks(r) \/ AgentReports(r) \/ AgentEndsLate(r)
  PROVE  Steps
<1> DEFINE t == runs[r].id
<1>1. t \in Tickets /\ runs[r] \in RunRecord
  BY RunType
<1>2. runs[r].pc \in Alive
  BY DEF Announce, AgentFails, AgentAsks, AgentReports, AgentEndsLate
<1>3. Free(r, flushq) /\ Consumes(flushq, t) /\ runs[r].pc \in Working
  BY <1>2, FreeRun DEF Alive, Consumes, Working
<1>4. ASSUME NEW p \in Phases
      PROVE  /\ Moves(Phase(r, p), r)
             /\ Moves(Disarmed(t, Phase(r, p)), r)
             /\ Disarmed(t, Phase(r, p))[r].pc = p
  <2>1. Moves(Phase(r, p), r) /\ Phase(r, p)[r].pc = p
    BY MovesPhase
  <2>2. r \in 1..Len(Phase(r, p))
    BY <2>1 DEF Moves, RunSeq, Runs, TypeOK
  <2>3. Moves(Disarmed(t, Phase(r, p)), r) /\ Like(Disarmed(t, Phase(r, p)), Phase(r, p))
    BY <1>1, <2>1, MovesDisarmed
  <2> QED
    BY <2>1, <2>2, <2>3 DEF Like
<1>5. {"over", "parking", "judging"} \subseteq Phases
  BY DEF Phases, Working
<1>6. CASE Announce(r)
  <2> DEFINE c == [k |-> "noted", t |-> t]
  <2>1. flushq' = Append(flushq, c) /\ running' = running
    BY <1>6 DEF Announce, Store
  <2>2. c \in Continuation' /\ c.k \notin RunKinds
    BY <1>1, QueuedContinuations DEF RunKinds
  <2>3. Moves(runs', NoRun)
    <3> DEFINE e == [runs[r] EXCEPT !.told = TRUE]
    <3>1. e \in RunRecord /\ e.pc = runs[r].pc /\ e.id = runs[r].id
      BY <1>1 DEF RunRecord
    <3>2. runs' = [runs EXCEPT ![r] = e]
      BY <1>6 DEF Announce
    <3> HIDE DEF e
    <3>3. runs' \in Seq(RunRecord) /\ Len(runs') = Len(runs)
      BY <3>1, <3>2, PutRecord DEF TypeOK, Runs
    <3>4. \A s \in Runs : runs'[s] = IF s = r THEN e ELSE runs[s]
      BY <3>2 DEF TypeOK, Runs
    <3> QED
      BY <3>1, <3>3, <3>4 DEF Moves, RunSeq, TypeOK
  <2> HIDE DEF c
  <2> QED
    BY <1>1, <2>1, <2>2, <2>3, NobodysStep DEF Steps
<1>7. CASE AgentFails(r)
  <2>1. /\ flushq' = Append(flushq, ThenRelease(t)) /\ running' = running
        /\ runs' = Disarmed(t, Phase(r, "over"))
    BY <1>7 DEF AgentFails, Store, Exited
  <2>2. ThenRelease(t) \in Continuation' /\ ThenRelease(t).k \notin RunKinds
    BY <1>1, QueuedContinuations DEF ThenRelease, RunKinds
  <2>3. Moves(runs', r)
    BY <1>4, <1>5, <2>1
  <2> QED
    BY <1>3, <2>1, <2>2, <2>3, StoreStep DEF Steps
<1>8. CASE AgentAsks(r)
  <2>1. /\ flushq' = Append(flushq, [k |-> "parked", r |-> r]) /\ running' = running
        /\ runs' = Disarmed(t, Phase(r, "parking"))
    BY <1>8 DEF AgentAsks, Store, Exited
  <2>2. /\ Moves(runs', r) /\ runs'[r].pc \in Working /\ runs'[r].pc = ResumedPhase("parked")
        /\ "parked" \in RunKinds
    BY <1>4, <1>5, <2>1 DEF ResumedPhase, Working, RunKinds
  <2> QED
    BY <1>3, <2>1, <2>2, WorkersStep DEF Steps
<1>9. CASE AgentReports(r)
  <2>1. /\ flushq' = Append(flushq, [k |-> "judge", r |-> r]) /\ running' = running
        /\ runs' = Disarmed(t, Phase(r, "judging"))
    BY <1>9 DEF AgentReports, Store, Exited
  <2>2. /\ Moves(runs', r) /\ runs'[r].pc \in Working /\ runs'[r].pc = ResumedPhase("judge")
        /\ "judge" \in RunKinds
    BY <1>4, <1>5, <2>1 DEF ResumedPhase, Working, RunKinds
  <2> QED
    BY <1>3, <2>1, <2>2, WorkersStep DEF Steps
<1>10. CASE AgentEndsLate(r)
  <2>1. Release(t, Phase(r, "over")) /\ flushq' = flushq
    BY <1>10 DEF AgentEndsLate, Exited
  <2>2. Moves(Phase(r, "over"), r)
    BY <1>4, <1>5
  <2> QED
    BY <1>1, <1>3, <2>1, <2>2, ReleaseStep DEF Steps
<1> QED
  BY <1>6, <1>7, <1>8, <1>9, <1>10

\* The cwd check, the verifier, the commit, the panel and the timer.
LEMMA AnswerSteps ==
  ASSUME TypeOK, ResumesOnce, NEW r \in Runs,
         \/ CwdRejected(r) \/ CwdAccepted(r) \/ VerifierPasses(r) \/ VerifierRejects(r)
         \/ VerifierThrows(r) \/ VerdictIsLate(r) \/ Committed(r)
         \/ PanelAnswers(r) \/ PanelIsLate(r)
  PROVE  Steps
<1> DEFINE t == runs[r].id
<1>1. t \in Tickets /\ Consumes(flushq, t)
  BY RunType DEF Consumes
<1>2. runs[r].pc \in {"validating", "verifying", "committing", "advising"}
  BY DEF CwdRejected, CwdAccepted, VerifierPasses, VerifierRejects, VerifierThrows,
         VerdictIsLate, Committed, PanelAnswers, PanelIsLate
<1>3. Free(r, flushq)
  BY <1>2, FreeRun
<1>4. \A p \in Phases : Moves(Phase(r, p), r) /\ Phase(r, p)[r].pc = p
  BY MovesPhase
<1>5. {"over", "starting", "committing", "consulting"} \subseteq Phases
  BY DEF Phases, Working
<1>6. ASSUME NEW state, Settle(t, state, Phase(r, "over"), flushq) PROVE Steps
  <2>1. Step(r, t, flushq)
    BY <1>1, <1>3, <1>4, <1>5, <1>6, SettleStep
  <2> QED
    BY <2>1 DEF Steps
<1>7. ASSUME Release(t, Phase(r, "over")), flushq' = flushq PROVE Steps
  <2>1. Step(r, t, flushq)
    BY <1>1, <1>3, <1>4, <1>5, <1>7, ReleaseStep
  <2> QED
    BY <2>1 DEF Steps
<1>8. CASE CwdRejected(r) \/ VerifierRejects(r) \/ VerifierThrows(r) \/ Committed(r)
  BY <1>6, <1>7, <1>8 DEF CwdRejected, VerifierRejects, VerifierThrows, Committed, Fail
<1>9. CASE VerdictIsLate(r)
  BY <1>7, <1>9 DEF VerdictIsLate
<1>10. CASE CwdAccepted(r)
  <2>1. CASE Release(t, Phase(r, "over")) /\ flushq' = flushq
    BY <1>7, <2>1
  <2>2. CASE /\ flushq' = Append(flushq, [k |-> "starting", r |-> r])
             /\ runs' = Phase(r, "starting") /\ running' = running
    <3>1. /\ Moves(runs', r) /\ runs'[r].pc \in Working /\ runs'[r].pc = ResumedPhase("starting")
          /\ "starting" \in RunKinds
      BY <1>4, <1>5, <2>2 DEF ResumedPhase, Working, RunKinds
    <3> QED
      BY <1>3, <2>2, <3>1, WorkersStep DEF Steps
  <2> QED
    BY <1>10, <2>1, <2>2 DEF CwdAccepted, Store
<1>11. CASE VerifierPasses(r)
  <2>1. /\ Moves(runs', r) /\ runs'[r].pc \in Working
        /\ running' = running /\ flushq' = flushq
    BY <1>4, <1>5, <1>11 DEF VerifierPasses, Working
  <2> QED
    BY <1>1, <1>3, <2>1, IdleStep DEF Steps
<1>12. CASE PanelAnswers(r)
  <2>1. Moves(runs', r) /\ runs'[r].pc = "consulting" /\ running' = running
    BY <1>4, <1>5, <1>12 DEF PanelAnswers
  <2>2. PICK k \in {"adopted", "escalated"} : flushq' = Append(flushq, [k |-> k, r |-> r])
    BY <1>12 DEF PanelAnswers, Store
  <2>3. k \in RunKinds /\ ResumedPhase(k) = "consulting"
    BY DEF RunKinds, ResumedPhase
  <2>4. runs[r].pc \notin Working
    BY <1>12 DEF PanelAnswers, Working, Alive
  <2> QED
    BY <1>3, <2>1, <2>2, <2>3, <2>4, WorkersStep DEF Steps
<1>13. CASE PanelIsLate(r)
  <2>1. Moves(runs', r) /\ running' = running /\ flushq' = flushq
    BY <1>4, <1>5, <1>13 DEF PanelIsLate
  <2>2. runs[r].pc \notin Working
    BY <1>13 DEF PanelIsLate, Working, Alive
  <2> QED
    BY <1>1, <1>3, <2>1, <2>2, IdleStep DEF Steps
<1> QED
  BY <1>8, <1>9, <1>10, <1>11, <1>12, <1>13

LEMMA TimerSteps ==
  ASSUME TypeOK, NEW r \in Runs, Timeout(r)
  PROVE  Steps
<1> DEFINE t == runs[r].id
           fired(rs) == [rs EXCEPT ![r].armed = FALSE]
<1>1. t \in Tickets
  BY RunType
<1>2. Consumes(flushq, t) /\ Free(NoRun, flushq) /\ NoRun \notin Runs
  BY Nobody
<1>3. ASSUME NEW rs, Moves(rs, NoRun) PROVE Moves(fired(rs), NoRun)
  <2>1. r \in 1..Len(rs) /\ RunSeq(rs) /\ Runs \subseteq 1..Len(rs)
    BY <1>3 DEF Moves, RunSeq, Runs, TypeOK
  <2>2. RunSeq(fired(rs)) /\ Like(fired(rs), rs)
    BY <2>1, Flag
  <2> HIDE DEF fired
  <2> QED
    BY <1>3, <2>1, <2>2 DEF Moves, Like
<1>4. Moves(Kill(t), NoRun) /\ Moves(runs, NoRun)
  BY <1>1, MovesKill, Nobody
<1>5. Moves(fired(Kill(t)), NoRun) /\ Moves(fired(runs), NoRun)
  BY <1>3, <1>4
<1> HIDE DEF fired
<1>6. CASE Fail(t, fired(Kill(t)), flushq)
  BY <1>1, <1>2, <1>5, <1>6, SettleStep DEF Steps, Fail
<1>7. CASE runs' = fired(runs) /\ UNCHANGED <<running, flushq>>
  BY <1>1, <1>2, <1>5, <1>7, IdleStep DEF Steps
<1> QED
  BY <1>6, <1>7 DEF Timeout, fired

LEMMA FlushSteps ==
  ASSUME TypeOK, ResumesOnce, Flush
  PROVE  Steps
<1> DEFINE r == Head(flushq).r
           t == Head(flushq).t
           rest == Tail(flushq)
<1>1. flushq # <<>>
  BY DEF Flush, Spawned, SpawnThrows, Parked, Judging, Consulting, Escalated, Adopted,
         Enqueued, Released, Noted, Resumes
<1>2. ASSUME Head(flushq).k \in RunKinds
      PROVE  /\ r \in Runs /\ runs[r].id \in Tickets
             /\ Free(r, rest) /\ runs[r].pc = ResumedPhase(Head(flushq).k)
             /\ Head(flushq).k # "release" /\ Consumes(rest, runs[r].id)
             /\ \A p \in Phases : Moves(Phase(r, p), r) /\ Phase(r, p)[r].pc = p
  <2>1. r \in Runs /\ Free(r, rest) /\ runs[r].pc = ResumedPhase(Head(flushq).k)
    BY <1>1, <1>2, HeadType, FreeHead
  <2>2. Head(flushq).k # "release"
    BY <1>2 DEF RunKinds
  <2>3. Consumes(rest, runs[r].id)
    BY <1>1, <2>2 DEF Consumes
  <2> QED
    BY <2>1, <2>2, <2>3, RunType, MovesPhase
<1>3. ASSUME Head(flushq).k \in TicketKinds
      PROVE  /\ t \in Tickets /\ Consumes(rest, t) /\ Free(NoRun, rest)
             /\ Moves(runs, NoRun) /\ NoRun \notin Runs
  <2>1. t \in Tickets /\ Consumes(rest, t)
    BY <1>1, <1>3, HeadType DEF Consumes
  <2>2. Free(NoRun, rest)
    BY <2>1, FreeNobody
  <2> QED
    BY <2>1, <2>2, Nobody
<1>4. {"over", "verifying", "consulting", "advising", "live"} \subseteq Phases
  BY DEF Phases, Working, Alive
<1> HIDE DEF r, t, rest
<1>5. CASE Spawned
  <2>1. Head(flushq).k = "starting"
    BY <1>5 DEF Spawned, Resumes
  <2>2. /\ r \in Runs /\ Free(r, rest) /\ Consumes(rest, runs[r].id)
        /\ runs[r].pc = "starting" /\ Head(flushq).k # "release"
    BY <1>2, <2>1 DEF RunKinds, ResumedPhase
  <2> DEFINE capped == "timeout" \in Operations
             e == [runs[r] EXCEPT !.pc = "live", !.armed = capped]
  <2>3. capped \in BOOLEAN
    OBVIOUS
  <2> HIDE DEF capped
  <2>4. e \in RunRecord /\ e.pc = "live" /\ e.id = runs[r].id
    BY <1>4, <2>2, <2>3, RunType DEF RunRecord
  <2>5. runs' = [runs EXCEPT ![r] = e]
    BY <1>5 DEF Spawned, r, capped
  <2> HIDE DEF e
  <2>6. runs' \in Seq(RunRecord) /\ Len(runs') = Len(runs)
    BY <2>2, <2>4, <2>5, PutRecord DEF TypeOK, Runs
  <2>7. \A s \in Runs : runs'[s] = IF s = r THEN e ELSE runs[s]
    BY <2>5 DEF TypeOK, Runs
  <2>8. Moves(runs', r) /\ runs'[r].pc \in Working
    BY <2>2, <2>4, <2>6, <2>7 DEF Moves, RunSeq, TypeOK, Working, Alive
  <2>9. running' = running /\ flushq' = rest
    BY <1>5 DEF Spawned, rest
  <2> QED
    BY <2>2, <2>8, <2>9, IdleStep DEF Steps
<1>6. CASE SpawnThrows
  <2>1. Head(flushq).k = "starting"
    BY <1>6 DEF SpawnThrows, Resumes
  <2>2. /\ r \in Runs /\ runs[r].id \in Tickets /\ Free(r, rest) /\ Consumes(rest, runs[r].id)
        /\ Moves(Phase(r, "over"), r)
    BY <1>2, <1>4, <2>1 DEF RunKinds
  <2>3. Settle(runs[r].id, "failed", Phase(r, "over"), rest)
    BY <1>6 DEF SpawnThrows, Fail, r, rest
  <2> QED
    BY <2>2, <2>3, SettleStep DEF Steps
<1>7. CASE Parked
  <2>1. Head(flushq).k = "parked"
    BY <1>7 DEF Parked, Resumes
  <2>2. /\ r \in Runs /\ runs[r].id \in Tickets /\ Free(r, rest) /\ Consumes(rest, runs[r].id)
        /\ Moves(Phase(r, "over"), r)
        /\ Moves(Phase(r, "consulting"), r) /\ Phase(r, "consulting")[r].pc = "consulting"
    BY <1>2, <1>4, <2>1 DEF RunKinds
  <2>3. CASE Release(runs[r].id, Phase(r, "over")) /\ flushq' = rest
    BY <2>2, <2>3, ReleaseStep DEF Steps
  <2>4. CASE /\ Release(runs[r].id, Phase(r, "consulting"))
             /\ flushq' = Append(rest, [k |-> "consult", r |-> r])
    <3> DEFINE c == [k |-> "consult", r |-> r]
    <3>1. RunSeq(runs')
      BY <2>2, <2>4, ReleaseType DEF Moves
    <3>2. c \in Continuation'
      BY <2>2, <3>1, RunContinuations DEF RunKinds
    <3>3. c.r = r /\ Phase(r, "consulting")[r].pc = ResumedPhase(c.k)
      BY <2>2 DEF ResumedPhase
    <3>4. flushq' = Append(rest, c)
      BY <2>4
    <3> HIDE DEF c
    <3> QED
      BY <2>2, <2>4, <3>2, <3>3, <3>4, ReleaseStep DEF Steps
  <2> QED
    BY <1>7, <2>3, <2>4 DEF Parked, Store, r, rest
<1>8. CASE Judging
  <2>1. Head(flushq).k = "judge"
    BY <1>8 DEF Judging, Resumes
  <2>2. /\ r \in Runs /\ Free(r, rest) /\ Consumes(rest, runs[r].id)
        /\ Head(flushq).k # "release"
        /\ Moves(Phase(r, "verifying"), r) /\ Phase(r, "verifying")[r].pc \in Working
    BY <1>2, <1>4, <2>1 DEF RunKinds, Working
  <2>3. runs' = Phase(r, "verifying") /\ running' = running /\ flushq' = rest
    BY <1>8 DEF Judging, r, rest
  <2> QED
    BY <2>2, <2>3, IdleStep DEF Steps
<1>9. CASE Consulting \/ Escalated
  <2>1. Head(flushq).k \in {"consult", "escalated"}
    BY <1>9 DEF Consulting, Escalated, Resumes
  <2>2. /\ r \in Runs /\ Free(r, rest) /\ Consumes(rest, runs[r].id)
        /\ Head(flushq).k # "release" /\ runs[r].pc \notin Working
        /\ Moves(Phase(r, "advising"), r) /\ Moves(Phase(r, "over"), r)
    BY <1>2, <1>4, <2>1 DEF RunKinds, ResumedPhase, Working, Alive
  <2>3. /\ runs' \in {Phase(r, "advising"), Phase(r, "over")}
        /\ running' = running /\ flushq' = rest
    BY <1>9 DEF Consulting, Escalated, r, rest
  <2> QED
    BY <2>2, <2>3, IdleStep DEF Steps
<1>10. CASE Adopted
  <2>1. Head(flushq).k = "adopted"
    BY <1>10 DEF Adopted, Resumes
  <2>2. /\ r \in Runs /\ runs[r].id \in Tickets /\ Free(r, rest) /\ Consumes(rest, runs[r].id)
        /\ Head(flushq).k # "release" /\ runs[r].pc \notin Working
        /\ Moves(Phase(r, "over"), r)
    BY <1>2, <1>4, <2>1 DEF RunKinds, ResumedPhase, Working, Alive
  <2>3. Answer(runs[r].id, Phase(r, "over"), rest)
    BY <1>10 DEF Adopted, r, rest
  <2> QED
    BY <2>2, <2>3, AnswerStep DEF Steps
<1>11. CASE Enqueued
  <2>1. Head(flushq).k = "enqueue"
    BY <1>11 DEF Enqueued, Resumes
  <2>2. /\ t \in Tickets /\ Consumes(rest, t) /\ Free(NoRun, rest) /\ Moves(runs, NoRun)
        /\ NoRun \notin Runs /\ Head(flushq).k # "release"
    BY <1>3, <2>1 DEF TicketKinds
  <2>3. flushq' = rest
    BY <1>11 DEF Enqueued, rest
  <2>4. CASE UNCHANGED <<running, runs>>
    BY <2>2, <2>3, <2>4, IdleStep DEF Steps
  <2>5. CASE Pump(running, Append(queue, t), runs)
    <3>1. Append(queue, t) \in Seq(Tickets) /\ running \in SUBSET Tickets
      BY <2>2, AppendProperties DEF TypeOK
    <3>2. Pumped(running, Append(queue, t), runs)
      BY <2>5, <3>1, SameRuns, PumpType
    <3>3. Moves(runs', NoRun)
      BY <2>2, <3>2 DEF Pumped, Moves, Runs
    <3>4. \A u \in running' \ running : WillDrive(u)
      BY <3>2 DEF Pumped, WillDrive, Runs, Working
    <3>5. Step(NoRun, t, rest)
      <4>1. KeepsSlot(NoRun, t, rest)
        <5>1. CASE t \in running
          BY <2>2, <5>1 DEF KeepsSlot
        <5>2. CASE t \notin running
          <6>1. t \in running' => WillDrive(t)
            BY <3>4, <5>2
          <6> QED
            BY <6>1 DEF KeepsSlot
        <5> QED
          BY <5>1, <5>2
      <4>2. Queues(rest, NoRun)
        BY <2>3 DEF Queues
      <4>3. \A u \in running' \ {t} : u \in running \/ WillDrive(u)
        BY <3>4
      <4> QED
        BY <2>2, <3>3, <4>1, <4>2, <4>3 DEF Step
    <3> QED
      BY <3>5 DEF Steps
  <2> QED
    BY <1>11, <2>4, <2>5 DEF Enqueued, t
<1>12. CASE Released
  <2>1. Head(flushq).k = "release"
    BY <1>12 DEF Released, Resumes
  <2>2. /\ t \in Tickets /\ Consumes(rest, t) /\ Free(NoRun, rest) /\ Moves(runs, NoRun)
        /\ NoRun \notin Runs
    BY <1>3, <2>1 DEF TicketKinds
  <2>3. Release(t, runs) /\ flushq' = rest
    BY <1>12 DEF Released, t, rest
  <2> QED
    BY <2>2, <2>3, ReleaseStep DEF Steps
<1>13. CASE Noted
  <2>1. Head(flushq).k = "noted"
    BY <1>13 DEF Noted, Resumes
  <2>2. /\ Consumes(rest, t) /\ Free(NoRun, rest) /\ Moves(runs, NoRun)
        /\ NoRun \notin Runs /\ Head(flushq).k # "release"
    BY <1>3, <2>1 DEF TicketKinds
  <2>3. UNCHANGED <<running, runs>> /\ flushq' = rest
    BY <1>13 DEF Noted, rest
  <2> QED
    BY <2>2, <2>3, IdleStep DEF Steps
<1> QED
  BY <1>5, <1>6, <1>7, <1>8, <1>9, <1>10, <1>11, <1>12, <1>13 DEF Flush

LEMMA NextKeeps ==
  ASSUME TypeOK, ResumesOnce, SlotHasKeeper, [Next]_vars
  PROVE  ResumesOnce' /\ SlotHasKeeper'
<1>1. TypeOK'
  BY NextType
<1>2. CASE UNCHANGED vars
  BY <1>2 DEF vars, ResumesOnce, SlotHasKeeper, Awaits, Driven, Pending, Runs
<1>3. CASE Next
  <2>1. Steps
    BY <1>3, UserSteps, AgentSteps, AnswerSteps, TimerSteps, FlushSteps DEF Next, User, World
  <2> QED
    BY <1>1, <2>1, StepsKeep
<1> QED
  BY <1>2, <1>3

LEMMA InitKeeps == Init => ResumesOnce /\ SlotHasKeeper
BY DEF Init, ResumesOnce, SlotHasKeeper

(***************************************************************************)
(* No flush resumes a run that has moved on, and no run is resumed twice:  *)
(* each process is completed once and each start spawns once.              *)
(***************************************************************************)
THEOREM EachRunResumesOnce == Spec => []ResumesOnce
<1>1. Init => TypeOK /\ ResumesOnce /\ SlotHasKeeper
  BY InitType, InitKeeps
<1>2. TypeOK /\ ResumesOnce /\ SlotHasKeeper /\ [Next]_vars
        => TypeOK' /\ ResumesOnce' /\ SlotHasKeeper'
  BY NextType, NextKeeps
<1> QED
  BY <1>1, <1>2, PTL DEF Spec

(***************************************************************************)
(* No slot is ever leaked: a ticket that holds one has a run at work, or a *)
(* release waiting for its flush.                                          *)
(***************************************************************************)
THEOREM NoLeakedSlot == Spec => []SlotHasKeeper
<1>1. Init => TypeOK /\ ResumesOnce /\ SlotHasKeeper
  BY InitType, InitKeeps
<1>2. TypeOK /\ ResumesOnce /\ SlotHasKeeper /\ [Next]_vars
        => TypeOK' /\ ResumesOnce' /\ SlotHasKeeper'
  BY NextType, NextKeeps
<1> QED
  BY <1>1, <1>2, PTL DEF Spec


-----------------------------------------------------------------------------
(***************************************************************************)
(* Work in flight: it has a run that carries it on, and no question is     *)
(* answered twice.                                                         *)
(***************************************************************************)

(***************************************************************************)
(* What a step does, as far as the tickets and the runs can tell: it moves *)
(* at most the run r and writes at most the ticket t, and the two moves go *)
(* together (Course).  The runs that begin answer nothing, but for the one *)
(* that continues a parked ticket.                                         *)
(***************************************************************************)
Early == {"starting"} \cup Alive
Late == {"judging", "verifying", "committing"}
Before == {"validating"} \cup Early  \* the agent of the run has not ended

NothingAnswered ==
  \A s \in Runs' \ Runs : runs'[s].answers = NoRun /\ runs'[s].pc = "validating"

\* The step leaves t and r where they were, as far as work on t can tell.
Stays(r, t) ==
  /\ tickets'[t].state = tickets[t].state
  /\ tickets'[t].question = tickets[t].question
  /\ r \in Runs /\ tickets[t].state = "running" /\ runs[r].pc \in Early
       => runs'[r].pc \in Early
  /\ r \in Runs /\ tickets[t].state = "verifying" /\ runs[r].pc \in Late
       => runs'[r].pc \in Late

Leaves(t) == tickets'[t].state \notin InFlight \cup {"decision"}

Begins(r, t) == r \in Runs /\ tickets'[t].state = "running" /\ runs'[r].pc = "starting"

Asks(r, t) ==
  /\ r \in Runs /\ runs[r].pc \in Alive /\ runs'[r].pc = "parking"
  /\ tickets'[t].state = "decision" /\ tickets'[t].question = r

Reports(r, t) == r \in Runs /\ tickets'[t].state = "verifying" /\ runs'[r].pc = "judging"

Continues(t) ==
  LET new == Len(runs) + 1 IN
  /\ tickets'[t].state = "running"
  /\ Len(runs') = new
  /\ runs'[new].id = t /\ runs'[new].pc = "starting"
  /\ \/ runs'[new].answers = NoRun
     \/ tickets[t].state = "decision" /\ runs'[new].answers = tickets[t].question

Course(r, t) ==
  \/ Continues(t)
  \/ NothingAnswered /\ (Stays(r, t) \/ Leaves(t) \/ Begins(r, t) \/ Asks(r, t) \/ Reports(r, t))

Change(r, t) ==
  /\ Moves(runs', r)
  /\ \A s \in Runs : runs'[s].answers = runs[s].answers
  /\ r \in Runs => runs[r].id = t /\ (runs'[r].pc \in Before => runs[r].pc \in Before)
  /\ t \in Tickets
  /\ \A u \in Tickets \ {t} : tickets'[u] = tickets[u]
  /\ Course(r, t)

Changes == \E r, t : Change(r, t)

-----------------------------------------------------------------------------
(* The runs before pump(): no run begins, and only r changes phase.        *)

Moved(rs, r) ==
  /\ Moves(rs, r) /\ Len(rs) = Len(runs)
  /\ \A s \in Runs : rs[s].answers = runs[s].answers

LEMMA MovedNothing ==
  ASSUME TypeOK
  PROVE  Moved(runs, NoRun) /\ NoRun \notin Runs
BY Nobody DEF Moved

LEMMA MovedPhase ==
  ASSUME TypeOK, NEW r \in Runs, NEW p \in Phases
  PROVE  Moved(Phase(r, p), r) /\ Phase(r, p)[r].pc = p
<1>1. runs[r] \in RunRecord /\ runs \in Seq(RunRecord)
  BY RunType DEF TypeOK
<1>2. \A s \in Runs : Phase(r, p)[s] = IF s = r THEN [runs[r] EXCEPT !.pc = p] ELSE runs[s]
  BY <1>1 DEF Phase, Runs
<1>3. [runs[r] EXCEPT !.pc = p].answers = runs[r].answers
  BY <1>1 DEF RunRecord
<1> QED
  BY <1>2, <1>3, MovesPhase, SetPhase DEF Moved

\* A flag set in one record.
LEMMA MovedFlag ==
  ASSUME TypeOK, NEW r, NEW rs, Moved(rs, r), NEW i \in Runs
  PROVE  /\ Moved([rs EXCEPT ![i].armed = FALSE], r)
         /\ \A s \in Runs : [rs EXCEPT ![i].armed = FALSE][s].pc = rs[s].pc
<1> DEFINE new == [rs EXCEPT ![i].armed = FALSE]
<1>1. RunSeq(rs) /\ Len(rs) = Len(runs) /\ i \in 1..Len(rs) /\ Runs = 1..Len(rs)
  BY DEF Moved, Moves, Runs
<1>2. RunSeq(new) /\ Like(new, rs)
  BY <1>1, Flag
<1>3. rs[i] \in RunRecord /\ rs \in Seq(RunRecord)
  BY <1>1, ElementOfSeq DEF RunSeq
<1>4. \A s \in Runs : new[s] = IF s = i THEN [rs[i] EXCEPT !.armed = FALSE] ELSE rs[s]
  BY <1>1, <1>3
<1>5. [rs[i] EXCEPT !.armed = FALSE].answers = rs[i].answers
  BY <1>3 DEF RunRecord
<1>6. \A s \in Runs : new[s].answers = rs[s].answers
  BY <1>4, <1>5
<1> HIDE DEF new
<1> QED
  BY <1>1, <1>2, <1>6 DEF Moved, Moves, Like, new

LEMMA MovedDisarmed ==
  ASSUME TypeOK, NEW t \in Tickets, NEW r, NEW rs, Moved(rs, r)
  PROVE  Moved(Disarmed(t, rs), r) /\ \A s \in Runs : Disarmed(t, rs)[s].pc = rs[s].pc
<1>1. CASE timers[t] = NoRun
  BY <1>1 DEF Disarmed
<1>2. CASE timers[t] # NoRun
  <2> DEFINE i == timers[t]
  <2>1. i \in Runs
    BY <1>2 DEF TypeOK
  <2>2. Disarmed(t, rs) = [rs EXCEPT ![i].armed = FALSE]
    BY <1>2 DEF Disarmed
  <2> HIDE DEF i
  <2>3. /\ Moved([rs EXCEPT ![i].armed = FALSE], r)
        /\ \A s \in Runs : [rs EXCEPT ![i].armed = FALSE][s].pc = rs[s].pc
    BY <2>1, MovedFlag
  <2> QED
    BY <2>2, <2>3
<1> QED
  BY <1>1, <1>2

LEMMA MovedKill ==
  ASSUME TypeOK, NEW t \in Tickets
  PROVE  Moved(Kill(t), NoRun)
<1>1. CASE handles[t] # NoRun /\ runs[handles[t]].pc = "live"
  <2>1. handles[t] \in Runs /\ "killed" \in Phases
    BY <1>1 DEF TypeOK, Phases, Working, Alive
  <2>2. Kill(t) = Phase(handles[t], "killed")
    BY <1>1 DEF Kill
  <2> QED
    BY <2>1, <2>2, MovedPhase, MovesKill DEF Moved
<1>2. CASE ~(handles[t] # NoRun /\ runs[handles[t]].pc = "live")
  BY <1>2, MovedNothing DEF Kill
<1> QED
  BY <1>1, <1>2

-----------------------------------------------------------------------------
(* The chokepoints, and then every action, are such a change.              *)

Mine(r, t, rs) ==
  r \in Runs => runs[r].id = t /\ (rs[r].pc \in Before => runs[r].pc \in Before)

LEMMA OneWritten ==
  ASSUME TypeOK, NEW t \in Tickets, NEW rec, NEW fq, NEW c, Store(t, rec, fq, c)
  PROVE  tickets'[t] = rec /\ \A u \in Tickets \ {t} : tickets'[u] = tickets[u]
BY DEF TypeOK, Store

\* A step that begins no run.
LEMMA PlainChange ==
  ASSUME TypeOK, NEW r, NEW t \in Tickets, Moved(runs', r), Mine(r, t, runs'),
         \A u \in Tickets \ {t} : tickets'[u] = tickets[u],
         Stays(r, t) \/ Leaves(t) \/ Begins(r, t) \/ Asks(r, t) \/ Reports(r, t)
  PROVE  Change(r, t)
<1>1. Runs' = Runs
  BY DEF Moved, Runs
<1> QED
  BY <1>1 DEF Change, Course, NothingAnswered, Moved, Mine

\* pump() moves no run that was there, and those it begins answer nothing.
LEMMA PumpChange ==
  ASSUME TypeOK, NEW r, NEW rs, Moved(rs, r), NEW R \in SUBSET Tickets,
         NEW q \in Seq(Tickets), Pump(R, q, rs)
  PROVE  /\ Moves(runs', r) /\ NothingAnswered
         /\ \A s \in Runs : runs'[s] = rs[s]
         /\ \A s \in Runs : runs'[s].answers = runs[s].answers
<1>1. RunSeq(rs) /\ Runs = 1..Len(rs)
  BY DEF Moved, Moves, Runs
<1>2. Pumped(R, q, rs)
  BY <1>1, PumpType
<1>3. RunSeq(runs') /\ Len(runs') >= Len(rs) /\ \A s \in Runs : runs'[s] = rs[s]
  BY <1>1, <1>2 DEF Pumped
<1>4. \A s \in 1..Len(runs') : s \notin Runs => runs'[s].pc = "validating" /\ runs'[s].answers = NoRun
  BY <1>1, <1>2 DEF Pumped
<1>5. NothingAnswered
  BY <1>4 DEF NothingAnswered, Runs
<1>6. Moves(runs', r) /\ \A s \in Runs : runs'[s].answers = runs[s].answers
  BY <1>3 DEF Moved, Moves
<1> QED
  BY <1>3, <1>5, <1>6

LEMMA ReleaseChange ==
  ASSUME TypeOK, NEW r, NEW t \in Tickets, NEW rs, Moved(rs, r), Mine(r, t, rs),
         Release(t, rs), \A u \in Tickets \ {t} : tickets'[u] = tickets[u],
         Leaves(t) \/ ( /\ tickets'[t].state = tickets[t].state
                        /\ tickets'[t].question = tickets[t].question
                        /\ r \in Runs /\ tickets[t].state = "running" => runs[r].pc \notin Early
                        /\ r \in Runs /\ tickets[t].state = "verifying" => runs[r].pc \notin Late )
  PROVE  Change(r, t)
<1> DEFINE left == Disarmed(t, rs)
           R == running \ {t}
<1>1. Moved(left, r) /\ \A s \in Runs : left[s].pc = rs[s].pc
  BY MovedDisarmed
<1>2. Pump(R, queue, left) /\ R \in SUBSET Tickets /\ queue \in Seq(Tickets)
  BY DEF Release, TypeOK
<1> HIDE DEF left, R
<1>3. /\ Moves(runs', r) /\ NothingAnswered
      /\ \A s \in Runs : runs'[s] = left[s]
      /\ \A s \in Runs : runs'[s].answers = runs[s].answers
  BY <1>1, <1>2, PumpChange
<1>4. Mine(r, t, runs')
  BY <1>1, <1>3 DEF Mine
<1>5. Leaves(t) \/ Stays(r, t)
  BY DEF Stays
<1> QED
  BY <1>3, <1>4, <1>5 DEF Change, Course, Mine

LEMMA SettleChange ==
  ASSUME TypeOK, NEW r, NEW t \in Tickets, NEW rs, Moved(rs, r), Mine(r, t, rs),
         NEW state \in Terminal, NEW fq, Settle(t, state, rs, fq)
  PROVE  Change(r, t)
<1>1. CASE /\ Store(t, [tickets[t] EXCEPT !.state = state], fq, ThenRelease(t))
           /\ runs' = rs
  <2>1. tickets[t] \in TicketRecord
    BY DEF TypeOK
  <2>2. tickets'[t].state = state /\ \A u \in Tickets \ {t} : tickets'[u] = tickets[u]
    BY <1>1, <2>1, OneWritten DEF TicketRecord
  <2>3. Leaves(t)
    BY <2>2 DEF Leaves, Terminal, InFlight
  <2> QED
    BY <1>1, <2>2, <2>3, PlainChange
<1>2. CASE ~Exists(t) /\ Release(t, rs) /\ UNCHANGED tickets
  <2>1. Leaves(t)
    BY <1>2 DEF Leaves, Exists, Absent, InFlight
  <2> QED
    BY <1>2, <2>1, ReleaseChange
<1> QED
  BY <1>1, <1>2 DEF Settle

LEMMA AnswerChange ==
  ASSUME TypeOK, NEW r, NEW t \in Tickets, NEW rs, Moved(rs, r), Mine(r, t, rs),
         r \in Runs => runs[r].pc \notin Early \cup Late,
         NEW fq, Answer(t, rs, fq)
  PROVE  Change(r, t)
<1>1. CASE runs' = rs /\ UNCHANGED tickets
  <2>1. Stays(r, t)
    BY <1>1 DEF Stays
  <2> QED
    BY <1>1, <2>1, PlainChange
<1>2. CASE Fail(t, rs, fq)
  BY <1>2, SettleChange DEF Fail, Terminal
<1>3. CASE /\ tickets[t].state = "decision"
           /\ runs' = Append(rs, NewRun(t, "starting", tickets[t].session, tickets[t].question))
           /\ Store(t, Continued(tickets[t]), fq, [k |-> "starting", r |-> Len(rs) + 1])
  <2> DEFINE e == NewRun(t, "starting", tickets[t].session, tickets[t].question)
  <2>1. e.pc = "starting" /\ e.id = t /\ e.answers = tickets[t].question
    BY DEF NewRun
  <2>2. RunSeq(rs) /\ rs \in Seq(RunRecord) /\ Len(rs) = Len(runs) /\ Len(runs) \in Nat
    BY DEF Moved, Moves, RunSeq, TypeOK
  <2>3. RunSeq(runs') /\ runs' = Append(rs, e)
    BY <1>3, <2>2, AddRun DEF TypeOK, TicketRecord, Phases, Working
  <2> HIDE DEF e
  <2>4. /\ Len(runs') = Len(rs) + 1
        /\ \A i \in 1..Len(rs) : runs'[i] = rs[i]
        /\ runs'[Len(rs) + 1] = e
    BY <2>2, <2>3, AppendProperties
  <2>5. \A s \in Runs : runs'[s] = rs[s]
    BY <2>2, <2>4 DEF Runs
  <2>6. Moves(runs', r) /\ Mine(r, t, runs')
    BY <2>3, <2>5 DEF Moved, Moves, Mine
  <2>7. tickets'[t].state = "running" /\ \A u \in Tickets \ {t} : tickets'[u] = tickets[u]
    <3>1. tickets'[t] = Continued(tickets[t]) /\ \A u \in Tickets \ {t} : tickets'[u] = tickets[u]
      BY <1>3, OneWritten
    <3>2. Continued(tickets[t]).state = "running"
      BY DEF Continued, TypeOK, TicketRecord
    <3> QED
      BY <3>1, <3>2
  <2>8. Continues(t)
    BY <1>3, <2>1, <2>2, <2>4, <2>7 DEF Continues
  <2> QED
    BY <2>5, <2>6, <2>7, <2>8 DEF Change, Course, Mine, Moved
<1> QED
  BY <1>1, <1>2, <1>3 DEF Answer

LEMMA UserChanges ==
  ASSUME TypeOK, NEW t \in Tickets,
         Create(t) \/ Retry(t) \/ Reply(t) \/ Cancel(t) \/ Remove(t)
  PROVE  Changes
<1>1. Moved(runs, NoRun) /\ Mine(NoRun, t, runs) /\ Mine(NoRun, t, runs') /\ NoRun \notin Runs
  BY MovedNothing DEF Mine
<1>2. tickets[t] \in TicketRecord
  BY DEF TypeOK
<1>3. ASSUME NEW rec, NEW fq, NEW c, Store(t, rec, fq, c), Moved(runs', NoRun),
             rec.state \in {"queued", "failed", "removed"}
      PROVE  Changes
  <2>1. tickets'[t] = rec /\ \A u \in Tickets \ {t} : tickets'[u] = tickets[u]
    BY <1>3, OneWritten
  <2>2. Leaves(t)
    BY <1>3, <2>1 DEF Leaves, InFlight
  <2>3. Change(NoRun, t)
    BY <1>1, <1>3, <2>1, <2>2, PlainChange
  <2> QED
    BY <2>3 DEF Changes
<1>4. CASE Create(t)
  <2>1. [tickets[t] EXCEPT !.state = "queued"].state = "queued"
    BY <1>2 DEF TicketRecord
  <2> QED
    BY <1>1, <1>3, <1>4, <2>1 DEF Create
<1>5. CASE Retry(t)
  <2>1. Requeued(tickets[t]).state = "queued"
    BY <1>2 DEF TicketRecord, Requeued
  <2> QED
    BY <1>1, <1>3, <1>5, <2>1 DEF Retry
<1>6. CASE Cancel(t)
  <2>1. [tickets[t] EXCEPT !.state = "failed"].state = "failed"
    BY <1>2 DEF TicketRecord
  <2> QED
    BY <1>3, <1>6, <2>1, MovedKill DEF Cancel
<1>7. CASE Remove(t)
  <2>1. [tickets[t] EXCEPT !.state = "removed"].state = "removed"
    BY <1>2 DEF TicketRecord
  <2> QED
    BY <1>1, <1>3, <1>7, <2>1 DEF Remove
<1>8. CASE Reply(t)
  <2>1. Answer(t, runs, flushq)
    BY <1>8 DEF Reply
  <2> QED
    BY <1>1, <2>1, AnswerChange DEF Changes
<1> QED
  BY <1>4, <1>5, <1>6, <1>7, <1>8

\* An announcement moves nobody.
LEMMA AnnounceMoves ==
  ASSUME TypeOK, NEW r \in Runs, Announce(r)
  PROVE  Moved(runs', r) /\ runs'[r].pc = runs[r].pc
<1> DEFINE e == [runs[r] EXCEPT !.told = TRUE]
<1>1. e \in RunRecord /\ e.pc = runs[r].pc /\ e.id = runs[r].id /\ e.answers = runs[r].answers
  BY RunType DEF RunRecord
<1>2. runs' = [runs EXCEPT ![r] = e]
  BY DEF Announce
<1> HIDE DEF e
<1>3. /\ RunSeq(runs') /\ Len(runs') = Len(runs)
      /\ \A s \in Runs : runs'[s] = IF s = r THEN e ELSE runs[s]
  BY <1>1, <1>2, PutRecord DEF TypeOK, Runs, RunSeq
<1> QED
  BY <1>1, <1>3 DEF Moved, Moves

\* What an agent that ended well leaves of its ticket.
LEMMA AskWrites ==
  ASSUME TypeOK, NEW r \in Runs, AgentAsks(r)
  PROVE  /\ tickets'[runs[r].id].state = "decision" /\ tickets'[runs[r].id].question = r
         /\ \A u \in Tickets \ {runs[r].id} : tickets'[u] = tickets[u]
<1> DEFINE t == runs[r].id
<1>1. t \in Tickets /\ tickets[t] \in TicketRecord
  BY RunType DEF TypeOK
<1>2. PICK sid \in {NoRun, runs[r].thread} :
        tickets'[t] = [Reported(r, sid, "decision") EXCEPT
                         !.question = r,
                         !.stage = IF Advisors THEN "pending" ELSE "none",
                         !.about = IF Advisors THEN r ELSE NoRun]
  BY <1>1, OneWritten DEF AgentAsks
<1>3. Reported(r, sid, "decision") \in TicketRecord
  BY ReportedType DEF States
<1>4. Reported(r, sid, "decision").state = "decision"
  BY <1>1 DEF Reported, TicketRecord
<1>5. \A u \in Tickets \ {t} : tickets'[u] = tickets[u]
  BY <1>1, OneWritten DEF AgentAsks
<1> HIDE DEF t
<1>6. tickets'[t].state = "decision" /\ tickets'[t].question = r
  BY <1>2, <1>3, <1>4 DEF TicketRecord
<1> QED
  BY <1>5, <1>6 DEF t

LEMMA ReportWrites ==
  ASSUME TypeOK, NEW r \in Runs, AgentReports(r)
  PROVE  /\ tickets'[runs[r].id].state = "verifying"
         /\ \A u \in Tickets \ {runs[r].id} : tickets'[u] = tickets[u]
<1> DEFINE t == runs[r].id
<1>1. t \in Tickets /\ tickets[t] \in TicketRecord
  BY RunType DEF TypeOK
<1>2. PICK sid \in {NoRun, runs[r].thread} : tickets'[t] = Reported(r, sid, "verifying")
  BY <1>1, OneWritten DEF AgentReports
<1>3. tickets'[t].state = "verifying"
  BY <1>1, <1>2 DEF Reported, TicketRecord
<1>4. \A u \in Tickets \ {t} : tickets'[u] = tickets[u]
  BY <1>1, OneWritten DEF AgentReports
<1> QED
  BY <1>3, <1>4

LEMMA AgentChanges ==
  ASSUME TypeOK, NEW r \in Runs,
         \/ Announce(r) \/ AgentFails(r) \/ AgentAsks(r) \/ AgentReports(r) \/ AgentEndsLate(r)
  PROVE  Changes
<1> DEFINE t == runs[r].id
<1>1. t \in Tickets /\ runs[r] \in RunRecord /\ tickets[t] \in TicketRecord
  BY RunType DEF TypeOK
<1>2. runs[r].pc \in Alive
  BY DEF Announce, AgentFails, AgentAsks, AgentReports, AgentEndsLate
<1>3. ASSUME NEW p \in Phases
      PROVE  /\ Moved(Phase(r, p), r)
             /\ Moved(Disarmed(t, Phase(r, p)), r)
             /\ Phase(r, p)[r].pc = p
             /\ Disarmed(t, Phase(r, p))[r].pc = p
  <2>1. Moved(Phase(r, p), r) /\ Phase(r, p)[r].pc = p
    BY MovedPhase
  <2>2. Moved(Disarmed(t, Phase(r, p)), r)
        /\ \A s \in Runs : Disarmed(t, Phase(r, p))[s].pc = Phase(r, p)[s].pc
    BY <1>1, <2>1, MovedDisarmed
  <2> QED
    BY <2>1, <2>2
<1>4. {"over", "parking", "judging"} \subseteq Phases \ Before
  BY DEF Phases, Working, Before, Early, Alive
<1>5. CASE Announce(r)
  <2> DEFINE rec == [tickets[t] EXCEPT !.session = runs[r].thread]
  <2>1. rec.state = tickets[t].state /\ rec.question = tickets[t].question
    BY <1>1 DEF TicketRecord
  <2>2. tickets'[t] = rec /\ \A u \in Tickets \ {t} : tickets'[u] = tickets[u]
    BY <1>1, <1>5, OneWritten DEF Announce
  <2>3. Moved(runs', r) /\ runs'[r].pc = runs[r].pc
    BY <1>5, AnnounceMoves
  <2> HIDE DEF rec
  <2>4. Mine(r, t, runs') /\ Stays(r, t)
    BY <2>1, <2>2, <2>3 DEF Mine, Stays
  <2>5. Change(r, t)
    BY <1>1, <2>2, <2>3, <2>4, PlainChange
  <2> QED
    BY <2>5 DEF Changes
<1>6. CASE AgentFails(r)
  <2>1. [tickets[t] EXCEPT !.state = "failed"].state = "failed"
    BY <1>1 DEF TicketRecord
  <2>2. tickets'[t].state = "failed" /\ \A u \in Tickets \ {t} : tickets'[u] = tickets[u]
    BY <1>1, <1>6, <2>1, OneWritten DEF AgentFails
  <2>3. runs' = Disarmed(t, Phase(r, "over"))
    BY <1>6 DEF AgentFails, Exited
  <2>4. Moved(runs', r) /\ runs'[r].pc = "over"
    BY <1>3, <1>4, <2>3
  <2>5. Mine(r, t, runs') /\ Leaves(t)
    BY <1>4, <2>2, <2>4 DEF Mine, Leaves, InFlight
  <2>6. Change(r, t)
    BY <1>1, <2>2, <2>4, <2>5, PlainChange
  <2> QED
    BY <2>6 DEF Changes
<1>7. CASE AgentAsks(r)
  <2>3. tickets'[t].state = "decision" /\ tickets'[t].question = r
    BY <1>7, AskWrites
  <2>4. \A u \in Tickets \ {t} : tickets'[u] = tickets[u]
    BY <1>7, AskWrites
  <2>5. runs' = Disarmed(t, Phase(r, "parking"))
    BY <1>7 DEF AgentAsks, Exited
  <2>6. Moved(runs', r) /\ runs'[r].pc = "parking"
    BY <1>3, <1>4, <2>5
  <2>7. Mine(r, t, runs') /\ Asks(r, t)
    BY <1>2, <1>4, <2>3, <2>6 DEF Mine, Asks
  <2>8. Change(r, t)
    BY <1>1, <2>4, <2>6, <2>7, PlainChange
  <2> QED
    BY <2>8 DEF Changes
<1>8. CASE AgentReports(r)
  <2>2. tickets'[t].state = "verifying"
    BY <1>8, ReportWrites
  <2>3. \A u \in Tickets \ {t} : tickets'[u] = tickets[u]
    BY <1>8, ReportWrites
  <2>4. runs' = Disarmed(t, Phase(r, "judging"))
    BY <1>8 DEF AgentReports, Exited
  <2>5. Moved(runs', r) /\ runs'[r].pc = "judging"
    BY <1>3, <1>4, <2>4
  <2>6. Mine(r, t, runs') /\ Reports(r, t)
    BY <1>4, <2>2, <2>5 DEF Mine, Reports
  <2>7. Change(r, t)
    BY <1>1, <2>3, <2>5, <2>6, PlainChange
  <2> QED
    BY <2>7 DEF Changes
<1>9. CASE AgentEndsLate(r)
  <2>1. Moved(Phase(r, "over"), r) /\ Mine(r, t, Phase(r, "over"))
    BY <1>3, <1>4 DEF Mine
  <2>2. Leaves(t) /\ UNCHANGED tickets
    BY <1>9 DEF AgentEndsLate, Leaves, IsTerminal, Exists, Terminal, Absent, InFlight
  <2>3. Release(t, Phase(r, "over"))
    BY <1>9 DEF AgentEndsLate, Exited
  <2>4. Change(r, t)
    BY <1>1, <2>1, <2>2, <2>3, ReleaseChange
  <2> QED
    BY <2>4 DEF Changes
<1> QED
  BY <1>5, <1>6, <1>7, <1>8, <1>9

LEMMA AnswerChanges ==
  ASSUME TypeOK, NEW r \in Runs,
         \/ CwdRejected(r) \/ CwdAccepted(r) \/ VerifierPasses(r) \/ VerifierRejects(r)
         \/ VerifierThrows(r) \/ VerdictIsLate(r) \/ Committed(r)
         \/ PanelAnswers(r) \/ PanelIsLate(r)
  PROVE  Changes
<1> DEFINE t == runs[r].id
<1>1. t \in Tickets /\ tickets[t] \in TicketRecord
  BY RunType DEF TypeOK
<1>2. \A p \in Phases : Moved(Phase(r, p), r) /\ Phase(r, p)[r].pc = p
  BY MovedPhase
<1>3. {"over", "starting", "committing", "consulting"} \subseteq Phases
  BY DEF Phases, Working
<1>4. Moved(Phase(r, "over"), r) /\ Mine(r, t, Phase(r, "over"))
  BY <1>2, <1>3 DEF Mine, Before, Early, Alive
<1>5. ASSUME NEW state \in Terminal, Settle(t, state, Phase(r, "over"), flushq) PROVE Changes
  <2>1. Change(r, t)
    BY <1>1, <1>4, <1>5, SettleChange
  <2> QED
    BY <2>1 DEF Changes
<1>6. "failed" \in Terminal /\ "done" \in Terminal
  BY DEF Terminal
<1>7. CASE CwdRejected(r) \/ VerifierRejects(r) \/ Committed(r)
  BY <1>5, <1>6, <1>7 DEF CwdRejected, VerifierRejects, Committed, Fail
<1>8. CASE VerifierThrows(r)
  <2>1. CASE Fail(t, Phase(r, "over"), flushq)
    BY <1>5, <1>6, <2>1 DEF Fail
  <2>2. CASE ~StillVerifying(t) /\ Release(t, Phase(r, "over")) /\ UNCHANGED tickets
    <3>1. runs[r].pc = "verifying"
      BY <1>8 DEF VerifierThrows
    <3>2. runs[r].pc \notin Early /\ tickets[t].state # "verifying"
      BY <2>2, <3>1 DEF Early, Alive, StillVerifying
    <3>3. Change(r, t)
      BY <1>1, <1>4, <2>2, <3>2, ReleaseChange
    <3> QED
      BY <3>3 DEF Changes
  <2> QED
    BY <1>8, <2>1, <2>2 DEF VerifierThrows
<1>9. CASE VerdictIsLate(r)
  <2>1. Leaves(t) /\ UNCHANGED tickets
    BY <1>9 DEF VerdictIsLate, Leaves, IsTerminal, Terminal, InFlight
  <2>2. Release(t, Phase(r, "over"))
    BY <1>9 DEF VerdictIsLate
  <2>3. Change(r, t)
    BY <1>1, <1>4, <2>1, <2>2, ReleaseChange
  <2> QED
    BY <2>3 DEF Changes
<1>10. CASE CwdAccepted(r)
  <2>1. CASE ~Exists(t) /\ Release(t, Phase(r, "over")) /\ UNCHANGED tickets
    <3>1. Leaves(t)
      BY <2>1 DEF Leaves, Exists, Absent, InFlight
    <3>2. Change(r, t)
      BY <1>1, <1>4, <2>1, <3>1, ReleaseChange
    <3> QED
      BY <3>2 DEF Changes
  <2>2. CASE /\ Store(t, [tickets[t] EXCEPT !.state = "running"],
                      flushq, [k |-> "starting", r |-> r])
             /\ runs' = Phase(r, "starting")
    <3>1. [tickets[t] EXCEPT !.state = "running"].state = "running"
      BY <1>1 DEF TicketRecord
    <3>2. tickets'[t].state = "running" /\ \A u \in Tickets \ {t} : tickets'[u] = tickets[u]
      BY <1>1, <2>2, <3>1, OneWritten
    <3>3. Moved(runs', r) /\ runs'[r].pc = "starting"
      BY <1>2, <1>3, <2>2
    <3>4. Mine(r, t, runs') /\ Begins(r, t)
      BY <1>10, <3>2, <3>3 DEF CwdAccepted, Mine, Before, Begins
    <3>5. Change(r, t)
      BY <1>1, <3>2, <3>3, <3>4, PlainChange
    <3> QED
      BY <3>5 DEF Changes
  <2> QED
    BY <1>10, <2>1, <2>2 DEF CwdAccepted
<1>11. CASE VerifierPasses(r)
  <2>1. Moved(runs', r) /\ runs'[r].pc = "committing" /\ UNCHANGED tickets
    BY <1>2, <1>3, <1>11 DEF VerifierPasses
  <2>2. runs[r].pc = "verifying"
    BY <1>11 DEF VerifierPasses
  <2>3. Mine(r, t, runs') /\ Stays(r, t)
    BY <2>1, <2>2 DEF Mine, Stays, Before, Early, Late, Alive
  <2>4. Change(r, t)
    BY <1>1, <2>1, <2>3, PlainChange
  <2> QED
    BY <2>4 DEF Changes
<1>12. CASE PanelAnswers(r)
  <2>1. Moved(runs', r) /\ runs'[r].pc = "consulting"
    BY <1>2, <1>3, <1>12 DEF PanelAnswers
  <2>2. PICK stage \in {"decided", "failed"} :
          \E c : Store(t, [tickets[t] EXCEPT !.stage = stage, !.about = r], flushq, c)
    BY <1>12 DEF PanelAnswers, Escalation
  <2> DEFINE rec == [tickets[t] EXCEPT !.stage = stage, !.about = r]
  <2>3. rec.state = tickets[t].state /\ rec.question = tickets[t].question
    BY <1>1 DEF TicketRecord
  <2>4. tickets'[t] = rec /\ \A u \in Tickets \ {t} : tickets'[u] = tickets[u]
    BY <1>1, <2>2, OneWritten
  <2>5. runs[r].pc = "advising"
    BY <1>12 DEF PanelAnswers
  <2> HIDE DEF rec
  <2>6. Mine(r, t, runs') /\ Stays(r, t)
    BY <2>1, <2>3, <2>4, <2>5 DEF Mine, Stays, Before, Early, Late, Alive
  <2>7. Change(r, t)
    BY <1>1, <2>1, <2>4, <2>6, PlainChange
  <2> QED
    BY <2>7 DEF Changes
<1>13. CASE PanelIsLate(r)
  <2>1. Moved(runs', r) /\ runs'[r].pc = "over" /\ runs[r].pc = "advising" /\ UNCHANGED tickets
    BY <1>2, <1>3, <1>13 DEF PanelIsLate
  <2>2. Mine(r, t, runs') /\ Stays(r, t)
    BY <2>1 DEF Mine, Stays, Before, Early, Late, Alive
  <2>3. Change(r, t)
    BY <1>1, <2>1, <2>2, PlainChange
  <2> QED
    BY <2>3 DEF Changes
<1> QED
  BY <1>7, <1>8, <1>9, <1>10, <1>11, <1>12, <1>13

LEMMA TimerChanges ==
  ASSUME TypeOK, NEW r \in Runs, Timeout(r)
  PROVE  Changes
<1> DEFINE t == runs[r].id
           fired(rs) == [rs EXCEPT ![r].armed = FALSE]
<1>1. t \in Tickets
  BY RunType
<1>2. Moved(Kill(t), NoRun) /\ Moved(runs, NoRun) /\ NoRun \notin Runs
  BY <1>1, MovedKill, MovedNothing
<1>3. Moved(fired(Kill(t)), NoRun) /\ Moved(fired(runs), NoRun)
  BY <1>2, MovedFlag
<1> HIDE DEF fired
<1>4. CASE Fail(t, fired(Kill(t)), flushq)
  <2>1. Mine(NoRun, t, fired(Kill(t)))
    BY <1>2 DEF Mine
  <2>2. Change(NoRun, t)
    BY <1>1, <1>3, <1>4, <2>1, SettleChange DEF Fail, Terminal
  <2> QED
    BY <2>2 DEF Changes
<1>5. CASE runs' = fired(runs) /\ UNCHANGED tickets
  <2>1. Mine(NoRun, t, runs') /\ Stays(NoRun, t)
    BY <1>2, <1>5 DEF Mine, Stays
  <2>2. Change(NoRun, t)
    BY <1>1, <1>3, <1>5, <2>1, PlainChange
  <2> QED
    BY <2>2 DEF Changes
<1> QED
  BY <1>4, <1>5 DEF Timeout, fired

LEMMA FlushChanges ==
  ASSUME TypeOK, ResumesOnce, Flush
  PROVE  Changes
<1> DEFINE r == Head(flushq).r
           t == Head(flushq).t
           rest == Tail(flushq)
<1>1. flushq # <<>>
  BY DEF Flush, Spawned, SpawnThrows, Parked, Judging, Consulting, Escalated, Adopted,
         Enqueued, Released, Noted, Resumes
<1>2. ASSUME Head(flushq).k \in RunKinds
      PROVE  /\ r \in Runs /\ runs[r].id \in Tickets
             /\ runs[r].pc = ResumedPhase(Head(flushq).k)
             /\ \A p \in Phases : Moved(Phase(r, p), r) /\ Phase(r, p)[r].pc = p
  BY <1>1, <1>2, HeadType, FreeHead, RunType, MovedPhase
<1>3. ASSUME Head(flushq).k \in TicketKinds PROVE t \in Tickets
  BY <1>1, <1>3, HeadType
<1>4. {"over", "verifying", "consulting", "advising"} \subseteq Phases \ Before
  BY DEF Phases, Working, Alive, Before, Early
<1>5. Moved(runs, NoRun) /\ NoRun \notin Runs /\ \A u : Stays(NoRun, u) \/ tickets' # tickets
  BY MovedNothing DEF Stays
<1>6. rest \in Seq(Continuation)
  BY <1>1, HeadType
<1> HIDE DEF r, t, rest
<1>7. CASE Spawned
  <2>1. Head(flushq).k = "starting"
    BY <1>7 DEF Spawned, Resumes
  <2>2. r \in Runs /\ runs[r].pc = "starting" /\ runs[r].id \in Tickets
    BY <1>2, <2>1 DEF RunKinds, ResumedPhase
  <2> DEFINE capped == "timeout" \in Operations
             e == [runs[r] EXCEPT !.pc = "live", !.armed = capped]
  <2>3. capped \in BOOLEAN
    OBVIOUS
  <2>4. runs' = [runs EXCEPT ![r] = e]
    BY <1>7 DEF Spawned, r
  <2> HIDE DEF capped
  <2>5. e \in RunRecord /\ e.pc = "live" /\ e.id = runs[r].id /\ e.answers = runs[r].answers
    BY <2>2, <2>3, RunType DEF RunRecord, Phases, Working, Alive
  <2> HIDE DEF e
  <2>6. RunSeq(runs') /\ Len(runs') = Len(runs)
    BY <2>2, <2>4, <2>5, PutRecord DEF TypeOK, Runs, RunSeq
  <2>7. \A s \in Runs : runs'[s] = IF s = r THEN e ELSE runs[s]
    BY <2>4 DEF TypeOK, Runs
  <2>8. Moved(runs', r) /\ runs'[r].pc = "live"
    BY <2>2, <2>5, <2>6, <2>7 DEF Moved, Moves
  <2>9. Mine(r, runs[r].id, runs') /\ Stays(r, runs[r].id) /\ UNCHANGED tickets
    BY <1>7, <2>2, <2>8 DEF Spawned, Mine, Stays, Before, Early, Late, Alive
  <2>10. Change(r, runs[r].id)
    BY <2>2, <2>8, <2>9, PlainChange
  <2> QED
    BY <2>10 DEF Changes
<1>8. CASE SpawnThrows
  <2>1. Head(flushq).k = "starting"
    BY <1>8 DEF SpawnThrows, Resumes
  <2>2. /\ r \in Runs /\ runs[r].id \in Tickets
        /\ Moved(Phase(r, "over"), r) /\ Mine(r, runs[r].id, Phase(r, "over"))
    BY <1>2, <1>4, <2>1 DEF RunKinds, Mine
  <2>3. Settle(runs[r].id, "failed", Phase(r, "over"), rest) /\ "failed" \in Terminal
    BY <1>8 DEF SpawnThrows, Fail, r, rest, Terminal
  <2>4. Change(r, runs[r].id)
    BY <2>2, <2>3, SettleChange
  <2> QED
    BY <2>4 DEF Changes
<1>9. CASE Parked
  <2>1. Head(flushq).k = "parked"
    BY <1>9 DEF Parked, Resumes
  <2>2. /\ r \in Runs /\ runs[r].id \in Tickets /\ runs[r].pc = "parking"
    BY <1>2, <2>1 DEF RunKinds, ResumedPhase
  <2> DEFINE id == runs[r].id
  <2>3. /\ Moved(Phase(r, "over"), r) /\ Moved(Phase(r, "consulting"), r)
        /\ Mine(r, id, Phase(r, "over")) /\ Mine(r, id, Phase(r, "consulting"))
    BY <1>2, <1>4, <2>1 DEF RunKinds, Mine
  <2>4. runs[r].pc \notin Early \cup Late
    BY <2>2 DEF Early, Late, Alive
  <2> HIDE DEF id
  <2>5. CASE Release(id, Phase(r, "over")) /\ UNCHANGED tickets
    <3>1. Change(r, id)
      BY <2>2, <2>3, <2>4, <2>5, ReleaseChange DEF id
    <3> QED
      BY <3>1 DEF Changes
  <2>6. CASE /\ Release(id, Phase(r, "consulting"))
             /\ Store(id, [tickets[id] EXCEPT !.stage = "deciding", !.about = r],
                      rest, [k |-> "consult", r |-> r])
    <3> DEFINE rec == [tickets[id] EXCEPT !.stage = "deciding", !.about = r]
    <3>1. rec.state = tickets[id].state /\ rec.question = tickets[id].question
      BY <2>2 DEF TypeOK, TicketRecord, id
    <3>2. tickets'[id] = rec /\ \A u \in Tickets \ {id} : tickets'[u] = tickets[u]
      BY <2>2, <2>6, OneWritten DEF id
    <3> HIDE DEF rec
    <3>3. Change(r, id)
      BY <2>2, <2>3, <2>4, <2>6, <3>1, <3>2, ReleaseChange DEF id
    <3> QED
      BY <3>3 DEF Changes
  <2> QED
    BY <1>9, <2>5, <2>6 DEF Parked, r, rest, id
<1>10. CASE Judging
  <2>1. Head(flushq).k = "judge"
    BY <1>10 DEF Judging, Resumes
  <2>2. /\ r \in Runs /\ runs[r].id \in Tickets /\ runs[r].pc = "judging"
        /\ Moved(runs', r) /\ runs'[r].pc = "verifying" /\ UNCHANGED tickets
    BY <1>2, <1>4, <1>10, <2>1 DEF RunKinds, ResumedPhase, Judging, r
  <2>3. Mine(r, runs[r].id, runs') /\ Stays(r, runs[r].id)
    BY <2>2 DEF Mine, Stays, Before, Early, Late, Alive
  <2>4. Change(r, runs[r].id)
    BY <2>2, <2>3, PlainChange
  <2> QED
    BY <2>4 DEF Changes
<1>11. CASE Consulting \/ Escalated
  <2>1. Head(flushq).k \in {"consult", "escalated"}
    BY <1>11 DEF Consulting, Escalated, Resumes
  <2>2. /\ r \in Runs /\ runs[r].id \in Tickets /\ runs[r].pc = "consulting"
        /\ Moved(runs', r) /\ runs'[r].pc \notin Before /\ UNCHANGED tickets
    BY <1>2, <1>4, <1>11, <2>1 DEF RunKinds, ResumedPhase, Consulting, Escalated, r
  <2>3. Mine(r, runs[r].id, runs') /\ Stays(r, runs[r].id)
    BY <2>2 DEF Mine, Stays, Early, Late, Alive
  <2>4. Change(r, runs[r].id)
    BY <2>2, <2>3, PlainChange
  <2> QED
    BY <2>4 DEF Changes
<1>12. CASE Adopted
  <2>1. Head(flushq).k = "adopted"
    BY <1>12 DEF Adopted, Resumes
  <2>2. /\ r \in Runs /\ runs[r].id \in Tickets /\ runs[r].pc = "consulting"
        /\ Moved(Phase(r, "over"), r) /\ Mine(r, runs[r].id, Phase(r, "over"))
    BY <1>2, <1>4, <2>1 DEF RunKinds, ResumedPhase, Mine
  <2>3. Answer(runs[r].id, Phase(r, "over"), rest)
    BY <1>12 DEF Adopted, r, rest
  <2>4. runs[r].pc \notin Early \cup Late
    BY <2>2 DEF Early, Late, Alive
  <2>5. Change(r, runs[r].id)
    BY <2>2, <2>3, <2>4, AnswerChange
  <2> QED
    BY <2>5 DEF Changes
<1>13. CASE Enqueued
  <2>1. t \in Tickets
    BY <1>3, <1>13 DEF Enqueued, Resumes, TicketKinds
  <2>2. UNCHANGED tickets
    BY <1>13 DEF Enqueued
  <2>3. CASE UNCHANGED runs
    <3>1. Change(NoRun, t)
      BY <1>5, <2>1, <2>2, <2>3, PlainChange DEF Mine
    <3> QED
      BY <3>1 DEF Changes
  <2>4. CASE Pump(running, Append(queue, t), runs)
    <3>1. Append(queue, t) \in Seq(Tickets) /\ running \in SUBSET Tickets
      BY <2>1, AppendProperties DEF TypeOK
    <3>2. /\ Moves(runs', NoRun) /\ NothingAnswered
          /\ \A s \in Runs : runs'[s].answers = runs[s].answers
      BY <1>5, <2>4, <3>1, PumpChange
    <3>3. Change(NoRun, t)
      BY <1>5, <2>1, <2>2, <3>2 DEF Change, Course
    <3> QED
      BY <3>3 DEF Changes
  <2> QED
    BY <1>13, <2>3, <2>4 DEF Enqueued, t
<1>14. CASE Released
  <2>1. t \in Tickets
    BY <1>3, <1>14 DEF Released, Resumes, TicketKinds
  <2>2. Release(t, runs) /\ UNCHANGED tickets
    BY <1>14 DEF Released, t
  <2>3. Change(NoRun, t)
    BY <1>5, <2>1, <2>2, ReleaseChange DEF Mine
  <2> QED
    BY <2>3 DEF Changes
<1>15. CASE Noted
  <2>1. t \in Tickets
    BY <1>3, <1>15 DEF Noted, Resumes, TicketKinds
  <2>2. UNCHANGED <<tickets, runs>>
    BY <1>15 DEF Noted
  <2>3. Change(NoRun, t)
    BY <1>5, <2>1, <2>2, PlainChange DEF Mine
  <2> QED
    BY <2>3 DEF Changes
<1> QED
  BY <1>7, <1>8, <1>9, <1>10, <1>11, <1>12, <1>13, <1>14, <1>15 DEF Flush

LEMMA NextChanges ==
  ASSUME TypeOK, ResumesOnce, Next
  PROVE  Changes
BY UserChanges, AgentChanges, AnswerChanges, TimerChanges, FlushChanges DEF Next, User, World

-----------------------------------------------------------------------------
(***************************************************************************)
(* Work in flight.  The phase of the run that drives a ticket follows the  *)
(* state it shows: this is what every handler keeps.                       *)
(***************************************************************************)
Carried(t) ==
  /\ tickets[t].state = "running" => \E r \in Runs : runs[r].id = t /\ runs[r].pc \in Early
  /\ tickets[t].state = "verifying" => \E r \in Runs : runs[r].id = t /\ runs[r].pc \in Late

WorkIsCarried == \A t \in Tickets : Carried(t)

\* A run's phases of work survive a step in which somebody else moves.
LEMMA StaysEarly ==
  ASSUME TypeOK, NEW r, NEW s \in Runs, Moves(runs', r), s # r
  PROVE  /\ s \in Runs' /\ runs'[s].id = runs[s].id
         /\ runs[s].pc \in Early => runs'[s].pc \in Early
         /\ runs[s].pc \in Late => runs'[s].pc \in Late
         /\ runs[s].pc \notin Before => runs'[s].pc \notin Before
<1>1. s \in Runs'
  BY Widen DEF Moves
<1>2. runs'[s].id = runs[s].id
  BY DEF Moves
<1>3. runs'[s].pc = runs[s].pc \/ (runs[s].pc = "live" /\ runs'[s].pc = "killed")
  BY DEF Moves
<1> QED
  BY <1>1, <1>2, <1>3 DEF Early, Late, Before, Alive

LEMMA ChangeCarries ==
  ASSUME TypeOK, NEW r, NEW t, Change(r, t), NEW u \in Tickets,
         Carried(u) \/ (u = t /\ (Continues(t) \/ Leaves(t)))
  PROVE  Carried(u)'
<1>1. Moves(runs', r) /\ (r \in Runs => runs[r].id = t) /\ t \in Tickets
  BY DEF Change
<1>2. ASSUME NEW s \in Runs, runs[s].id = u, s # r
      PROVE  /\ s \in Runs' /\ runs'[s].id = u
             /\ runs[s].pc \in Early => runs'[s].pc \in Early
             /\ runs[s].pc \in Late => runs'[s].pc \in Late
  BY <1>1, <1>2, StaysEarly
<1>3. CASE u # t
  <2>1. tickets'[u] = tickets[u]
    BY <1>3 DEF Change
  <2>2. \A s \in Runs : runs[s].id = u => s # r
    BY <1>1, <1>3
  <2> QED
    BY <1>2, <1>3, <2>1, <2>2 DEF Carried
<1>4. CASE u = t
  <2>1. ASSUME r \in Runs PROVE r \in Runs' /\ runs'[r].id = t
    BY <1>1, <2>1, Widen DEF Moves
  <2>2. CASE Continues(t)
    <3>1. Len(runs) + 1 \in Runs'
      BY <1>1, <2>2 DEF Continues, Runs, TypeOK
    <3> QED
      BY <1>4, <2>2, <3>1 DEF Continues, Carried, Early
  <2>3. CASE Leaves(t) \/ Asks(r, t)
    BY <1>4, <2>3 DEF Leaves, Asks, InFlight, Carried
  <2>4. CASE Begins(r, t) \/ Reports(r, t)
    BY <1>4, <2>1, <2>4 DEF Begins, Reports, Carried, Early, Late
  <2>5. CASE Stays(r, t) /\ Carried(u)
    <3>1. ASSUME tickets[t].state = "running"
          PROVE  \E s \in Runs' : runs'[s].id = t /\ runs'[s].pc \in Early
      <4>1. PICK s \in Runs : runs[s].id = t /\ runs[s].pc \in Early
        BY <1>4, <2>5, <3>1 DEF Carried
      <4>2. s \in Runs' /\ runs'[s].id = t /\ runs'[s].pc \in Early
        BY <1>2, <1>4, <2>1, <2>5, <3>1, <4>1 DEF Stays
      <4> QED
        BY <4>2
    <3>2. ASSUME tickets[t].state = "verifying"
          PROVE  \E s \in Runs' : runs'[s].id = t /\ runs'[s].pc \in Late
      <4>1. PICK s \in Runs : runs[s].id = t /\ runs[s].pc \in Late
        BY <1>4, <2>5, <3>2 DEF Carried
      <4>2. s \in Runs' /\ runs'[s].id = t /\ runs'[s].pc \in Late
        BY <1>2, <1>4, <2>1, <2>5, <3>2, <4>1 DEF Stays
      <4> QED
        BY <4>2
    <3> QED
      BY <1>4, <2>5, <3>1, <3>2 DEF Carried, Stays
  <2> QED
    BY <2>2, <2>3, <2>4, <2>5 DEF Change, Course
<1> QED
  BY <1>3, <1>4

LEMMA NextCarries ==
  ASSUME TypeOK, ResumesOnce, WorkIsCarried, [Next]_vars
  PROVE  WorkIsCarried'
<1>1. CASE UNCHANGED vars
  BY <1>1 DEF vars, WorkIsCarried, Carried, Runs
<1>2. CASE Next
  <2>1. PICK r, t : Change(r, t)
    BY <1>2, NextChanges DEF Changes
  <2> QED
    BY <2>1, ChangeCarries DEF WorkIsCarried
<1> QED
  BY <1>1, <1>2

LEMMA CarriedIsDriven == WorkIsCarried => WorkIsDriven
BY DEF WorkIsCarried, Carried, WorkIsDriven, InFlight, Driven, Early, Late, Working

(***************************************************************************)
(* A ticket that shows as running or verifying is driven by a run, in      *)
(* every interleaving of the requests, the exits, the verdicts, the timers *)
(* and the flushes: what onMainDone, start and replyInternal never leave.  *)
(***************************************************************************)
THEOREM NoStrandedWork == Spec => []WorkIsDriven
<1> DEFINE IInv == TypeOK /\ ResumesOnce /\ SlotHasKeeper /\ WorkIsCarried
<1>1. Init => IInv
  BY InitType, InitKeeps DEF Init, WorkIsCarried, Carried
<1>2. IInv /\ [Next]_vars => IInv'
  BY NextType, NextKeeps, NextCarries
<1>3. IInv => WorkIsDriven
  BY CarriedIsDriven
<1> QED
  BY <1>1, <1>2, <1>3, PTL DEF Spec

-----------------------------------------------------------------------------
(***************************************************************************)
(* Questions.  What a run answers was asked by a run whose agent has       *)
(* ended; and the question of a parked ticket is its own, and open.        *)
(***************************************************************************)
Past(q) == q \in Runs /\ runs[q].pc \notin Before

AnswersArePast == \A r \in Runs : runs[r].answers # NoRun => Past(runs[r].answers)

Open(t) ==
  LET q == tickets[t].question IN
  tickets[t].state = "decision" =>
    /\ Past(q)
    /\ runs[q].id = t
    /\ \A r \in Runs : runs[r].answers # q

Questions == AnsweredOnce /\ AnswersArePast /\ \A t \in Tickets : Open(t)

LEMMA ChangeKeepsPast ==
  ASSUME TypeOK, NEW r, NEW t, Change(r, t), NEW q, Past(q)
  PROVE  q \in Runs' /\ runs'[q].pc \notin Before /\ runs'[q].id = runs[q].id
<1>1. Moves(runs', r)
  BY DEF Change
<1>2. CASE q # r
  BY <1>1, <1>2, StaysEarly DEF Past
<1>3. CASE q = r
  <2>1. q \in Runs' /\ runs'[q].id = runs[q].id
    BY <1>1, Widen DEF Past, Moves
  <2> QED
    BY <1>3, <2>1 DEF Past, Change
<1> QED
  BY <1>2, <1>3

\* Whoever begins in the step answers nothing, or the question of t, which
\* is open until then.
LEMMA WhoAnswers ==
  ASSUME TypeOK, NEW r, NEW t, Change(r, t), NEW s \in Runs', runs'[s].answers # NoRun
  PROVE  \/ s \in Runs /\ runs[s].answers = runs'[s].answers
         \/ /\ s = Len(runs) + 1 /\ Continues(t) /\ tickets[t].state = "decision"
            /\ runs'[s].answers = tickets[t].question
<1>1. CASE s \in Runs
  BY <1>1 DEF Change
<1>2. CASE s \notin Runs
  <2>1. ~NothingAnswered
    BY <1>2 DEF NothingAnswered
  <2>2. Continues(t)
    BY <2>1 DEF Change, Course
  <2>3. s = Len(runs) + 1
    BY <1>2, <2>2 DEF Continues, Runs, TypeOK
  <2> QED
    BY <2>2, <2>3 DEF Continues
<1> QED
  BY <1>1, <1>2

LEMMA ChangeKeepsQuestions ==
  ASSUME TypeOK, NEW r, NEW t, Change(r, t), Questions
  PROVE  Questions'
<1>1. t \in Tickets /\ NoRun \notin Runs /\ Runs \subseteq Runs'
  BY Widen DEF Change, Moves, Runs, NoRun, TypeOK
<1>2. ASSUME NEW s \in Runs', runs'[s].answers # NoRun
      PROVE  /\ Past(runs'[s].answers)
             /\ s \notin Runs => \A v \in Runs : runs[v].answers # runs'[s].answers
             /\ s \notin Runs => s = Len(runs) + 1
             /\ s \notin Runs => Continues(t) /\ runs[runs'[s].answers].id = t
  <2>1. CASE s \in Runs /\ runs[s].answers = runs'[s].answers
    BY <1>2, <2>1 DEF Questions, AnswersArePast
  <2>2. CASE /\ s = Len(runs) + 1 /\ Continues(t) /\ tickets[t].state = "decision"
             /\ runs'[s].answers = tickets[t].question
    BY <1>1, <2>2 DEF Questions, Open
  <2> QED
    BY <1>2, <2>1, <2>2, WhoAnswers
<1>3. AnswersArePast'
  BY <1>2, ChangeKeepsPast DEF AnswersArePast, Past
<1>4. AnsweredOnce'
  <2> SUFFICES ASSUME NEW s \in Runs', NEW v \in Runs', s # v,
                      runs'[s].answers = runs'[v].answers, runs'[s].answers # NoRun
               PROVE  FALSE
    BY DEF AnsweredOnce
  <2>1. CASE s \in Runs /\ v \in Runs
    BY <2>1 DEF Questions, AnsweredOnce, Change
  <2>2. CASE s \notin Runs /\ v \notin Runs
    BY <1>2, <2>2
  <2>3. CASE s \in Runs /\ v \notin Runs
    BY <1>2, <2>3 DEF Change
  <2>4. CASE s \notin Runs /\ v \in Runs
    BY <1>2, <2>4 DEF Change
  <2> QED
    BY <2>1, <2>2, <2>3, <2>4
<1>5. ASSUME NEW u \in Tickets PROVE Open(u)'
  <2> DEFINE q == tickets[u].question
  <2>1. CASE tickets'[u].state = "decision" /\ tickets[u].state = "decision"
             /\ tickets'[u].question = q
    <3>1. Past(q) /\ runs[q].id = u /\ \A v \in Runs : runs[v].answers # q
      BY <2>1 DEF Questions, Open
    <3>2. q # NoRun
      BY <1>1, <3>1 DEF Past
    <3>3. q \in Runs' /\ runs'[q].pc \notin Before /\ runs'[q].id = u
      BY <3>1, ChangeKeepsPast
    <3>4. ASSUME NEW v \in Runs', runs'[v].answers = q PROVE FALSE
      <4>1. CASE v \in Runs
        BY <3>1, <3>4, <4>1 DEF Change
      <4>2. CASE v \notin Runs
        <5>1. Continues(t) /\ u = t
          BY <1>2, <3>1, <3>2, <3>4, <4>2
        <5> QED
          BY <2>1, <5>1 DEF Continues
      <4> QED
        BY <4>1, <4>2
    <3> QED
      BY <2>1, <3>3, <3>4 DEF Open, Past
  <2>2. CASE u = t /\ Asks(r, t) /\ NothingAnswered
    <3>1. /\ r \in Runs /\ runs[r].pc \in Before /\ runs'[r].pc = "parking"
          /\ tickets'[t].question = r
      BY <2>2 DEF Asks, Before, Early
    <3>2. r \in Runs' /\ runs'[r].pc \notin Before /\ runs'[r].id = t
      BY <1>1, <3>1 DEF Before, Early, Alive, Change, Moves
    <3>3. ASSUME NEW v \in Runs', runs'[v].answers = r PROVE FALSE
      <4>1. r # NoRun
        BY <1>1, <3>1
      <4>2. Past(r)
        BY <1>2, <3>3, <4>1
      <4> QED
        BY <3>1, <4>2 DEF Past
    <3> QED
      BY <2>2, <3>1, <3>2, <3>3 DEF Open, Past
  <2>3. CASE tickets'[u].state # "decision"
    BY <2>3 DEF Open
  <2>4. u # t => tickets'[u] = tickets[u]
    BY DEF Change
  <2>5. \/ Continues(t) \/ Stays(r, t) \/ Leaves(t) \/ Begins(r, t) \/ Reports(r, t)
        \/ Asks(r, t) /\ NothingAnswered
    BY DEF Change, Course
  <2> QED
    BY <2>1, <2>2, <2>3, <2>4, <2>5 DEF Continues, Stays, Leaves, Begins, Reports
<1> QED
  BY <1>3, <1>4, <1>5 DEF Questions

LEMMA NextKeepsQuestions ==
  ASSUME TypeOK, ResumesOnce, Questions, [Next]_vars
  PROVE  Questions'
<1>1. CASE UNCHANGED vars
  BY <1>1 DEF vars, Questions, AnsweredOnce, AnswersArePast, Open, Past, Runs
<1>2. CASE Next
  BY <1>2, NextChanges, ChangeKeepsQuestions DEF Changes
<1> QED
  BY <1>1, <1>2

(***************************************************************************)
(* No question is answered twice, although a human and the panel race to   *)
(* answer it and a parked ticket may be cancelled, retried and parked      *)
(* again meanwhile.                                                        *)
(***************************************************************************)
THEOREM NoSecondAnswer == Spec => []AnsweredOnce
<1> DEFINE IInv == TypeOK /\ ResumesOnce /\ SlotHasKeeper /\ Questions
<1>1. Init => IInv
  <2>1. Init => Questions
    BY DEF Init, Questions, AnsweredOnce, AnswersArePast, Open, Runs
  <2> QED
    BY <2>1, InitType, InitKeeps
<1>2. IInv /\ [Next]_vars => IInv'
  BY NextType, NextKeeps, NextKeepsQuestions
<1>3. IInv => AnsweredOnce
  BY DEF Questions
<1> QED
  BY <1>1, <1>2, <1>3, PTL DEF Spec

-----------------------------------------------------------------------------
(***************************************************************************)
(* The backlog.  enqueue() drops an id that holds a slot, so that a queued *)
(* ticket is kept only because the slot of its earlier attempt is released *)
(* before the retry is enqueued: the line of flushes keeps that order.     *)
(***************************************************************************)
Rested == Terminal \cup {"unborn"}

SettledReleases ==
  \A t \in running : tickets[t].state \in Rested => Pending([k |-> "release", t |-> t])

Slotless(t, j) ==
  t \in running => \E i \in 1..(j - 1) : flushq[i] = [k |-> "release", t |-> t]

Backed(t) ==
  \/ Waits(queue, t)
  \/ \E r \in Runs : runs[r].id = t /\ runs[r].pc = "validating"
  \/ \E j \in 1..Len(flushq) : flushq[j] = [k |-> "enqueue", t |-> t] /\ Slotless(t, j)

Backlog == SettledReleases /\ \A t \in Tickets : tickets[t].state = "queued" => Backed(t)

(***************************************************************************)
(* What a step does to the backlog, the slots and the line of flushes, of  *)
(* which it leaves fq.                                                     *)
(***************************************************************************)
Starts(t) == \E s \in Runs' : runs'[s].id = t /\ runs'[s].pc = "validating"

KeepsTicket(u, fq) ==
  /\ u \in running' =>
       \/ u \in running
       \/ Starts(u) /\ tickets'[u].state = "queued"
       \/ tickets'[u].state = "running"
  /\ tickets'[u].state = "queued" /\ tickets[u].state = "queued" /\ Waits(queue, u)
       => Waits(queue', u) \/ Starts(u)
  /\ tickets'[u].state = "queued" /\ tickets[u].state # "queued"
       => /\ tickets[u].state \in Rested
          /\ fq = flushq /\ flushq' = Append(flushq, [k |-> "enqueue", t |-> u])
  /\ tickets'[u].state \in Rested /\ tickets[u].state \notin Rested
       => WillRelease(u) \/ u \notin running'
  /\ fq # flushq /\ Head(flushq) = [k |-> "enqueue", t |-> u]
       => Waits(queue', u) \/ Starts(u) \/ u \in running \/ tickets'[u].state # "queued"
  /\ fq # flushq /\ Head(flushq) = [k |-> "release", t |-> u]
       => u \notin running' \/ (Starts(u) /\ tickets'[u].state = "queued")

Deciding(t) == tickets[t].state = "decision" /\ tickets[t].stage = "deciding"
WillDecide(t) == tickets'[t].state = "decision" /\ tickets'[t].stage = "deciding"

\* After the step a panel decides on t.
WillAttend(t) ==
  \E s \in Runs' :
    /\ runs'[s].id = t
    /\ \/ runs'[s].pc = "advising"
       \/ \E i \in 1..Len(flushq') : flushq'[i] = [k |-> "consult", r |-> s]

\* A ticket that shows its panel as deciding keeps the panel.
KeepsPanel(r, fq) ==
  /\ r \in Runs /\ runs[r].pc = "advising" => ~WillDecide(runs[r].id)
  /\ fq # flushq /\ Head(flushq).k = "consult" => runs'[Head(flushq).r].pc = "advising"
  /\ \A u \in Tickets : WillDecide(u) => Deciding(u) \/ WillAttend(u)

\* Of the line fq is left, and one continuation at most is added to it.
LeftOver(fq) == fq = flushq \/ (flushq # <<>> /\ fq = Tail(flushq))
Lengthens(fq) == flushq' = fq \/ \E c \in Continuation' : flushq' = Append(fq, c)

Keeping(r, fq) ==
  /\ Moves(runs', r)
  /\ r \in Runs /\ runs[r].pc = "validating" => tickets'[runs[r].id].state # "queued"
  /\ LeftOver(fq)
  /\ Lengthens(fq)
  /\ \A u \in Tickets : KeepsTicket(u, fq)
  /\ KeepsPanel(r, fq)

Keepings == \E r, fq : Keeping(r, fq)

\* Where a continuation of the line is after the step.
LEMMA InLine ==
  ASSUME TypeOK, RunSeq(runs'), NEW fq, LeftOver(fq), Lengthens(fq)
  PROVE  \E d \in {0, 1} :
           /\ d = 0 => fq = flushq
           /\ d = 1 => fq # flushq /\ flushq # <<>> /\ Head(flushq) = flushq[1]
           /\ \A i \in 1..Len(flushq) : i > d =>
                i - d \in 1..Len(flushq') /\ flushq'[i - d] = flushq[i]
<1>1. flushq \in Seq(Continuation) /\ Len(flushq) \in Nat
  BY DEF TypeOK
<1>2. fq \in Seq(Continuation') /\ Continuation \subseteq Continuation'
  <2>1. fq \in Seq(Continuation)
    BY <1>1, HeadTailProperties DEF LeftOver
  <2> QED
    BY <2>1, Widen
<1>3. \A i \in 1..Len(fq) : i \in 1..Len(flushq') /\ flushq'[i] = fq[i]
  <2>1. Len(fq) \in Nat
    BY <1>2
  <2>2. CASE flushq' = fq
    BY <2>2
  <2>3. ASSUME NEW c \in Continuation', flushq' = Append(fq, c)
        PROVE  \A i \in 1..Len(fq) : i \in 1..Len(flushq') /\ flushq'[i] = fq[i]
    <3>1. Len(flushq') = Len(fq) + 1 /\ \A i \in 1..Len(fq) : flushq'[i] = fq[i]
      BY <1>2, <2>3, AppendProperties
    <3> QED
      BY <2>1, <3>1
  <2> QED
    BY <2>2, <2>3 DEF Lengthens
<1>4. CASE fq = flushq
  <2>1. \A i \in 1..Len(flushq) : i > 0 => i - 0 \in 1..Len(flushq') /\ flushq'[i - 0] = flushq[i]
    BY <1>1, <1>3, <1>4
  <2> QED
    BY <1>4, <2>1
<1>5. CASE fq # flushq /\ flushq # <<>> /\ fq = Tail(flushq)
  <2>1. /\ Len(fq) = Len(flushq) - 1 /\ Head(flushq) = flushq[1]
        /\ \A i \in 1..Len(fq) : fq[i] = flushq[i + 1]
    BY <1>1, <1>5, HeadTailProperties
  <2>2. ASSUME NEW i \in 1..Len(flushq), i > 1
        PROVE  i - 1 \in 1..Len(flushq') /\ flushq'[i - 1] = flushq[i]
    <3>1. i - 1 \in 1..Len(fq) /\ (i - 1) + 1 = i
      BY <1>1, <2>1, <2>2
    <3> QED
      BY <1>3, <2>1, <3>1
  <2>3. /\ 1 = 0 => fq = flushq
        /\ 1 = 1 => fq # flushq /\ flushq # <<>> /\ Head(flushq) = flushq[1]
        /\ \A i \in 1..Len(flushq) : i > 1 =>
             i - 1 \in 1..Len(flushq') /\ flushq'[i - 1] = flushq[i]
    <3>1. 1 # 0
      OBVIOUS
    <3> QED
      BY <1>5, <2>1, <2>2, <3>1, Zenon
  <2>4. 1 \in {0, 1}
    OBVIOUS
  <2> QED
    BY <2>3, <2>4
<1> QED
  BY <1>4, <1>5 DEF LeftOver

LEMMA KeepingReleases ==
  ASSUME TypeOK, TypeOK', SettledReleases, NEW r, NEW fq, Keeping(r, fq)
  PROVE  SettledReleases'
<1>1. PICK d \in {0, 1} :
        /\ d = 0 => fq = flushq
        /\ d = 1 => fq # flushq /\ flushq # <<>> /\ Head(flushq) = flushq[1]
        /\ \A i \in 1..Len(flushq) : i > d =>
             i - d \in 1..Len(flushq') /\ flushq'[i - d] = flushq[i]
  BY InLine DEF Keeping, Moves
<1>2. Len(flushq) \in Nat /\ Len(flushq') \in Nat
  BY DEF TypeOK
<1>3. ASSUME NEW t \in running', tickets'[t].state \in Rested
      PROVE  WillRelease(t)
  <2>1. t \in Tickets /\ KeepsTicket(t, fq)
    BY <1>3 DEF TypeOK, Keeping
  <2>2. CASE tickets[t].state \in Rested /\ t \in running
    <3>1. PICK i \in 1..Len(flushq) : flushq[i] = [k |-> "release", t |-> t]
      BY <2>2 DEF SettledReleases, Pending
    <3>2. CASE i > d
      BY <1>1, <3>1, <3>2 DEF WillRelease
    <3>3. CASE ~(i > d)
      <4>1. i = 1 /\ d = 1
        BY <1>1, <3>3
      <4>2. fq # flushq /\ Head(flushq) = [k |-> "release", t |-> t]
        BY <1>1, <3>1, <4>1
      <4>3. tickets'[t].state # "queued"
        BY <1>3 DEF Rested, Terminal
      <4> QED
        BY <1>3, <2>1, <4>2, <4>3 DEF KeepsTicket
    <3> QED
      BY <3>2, <3>3
  <2>3. CASE tickets[t].state \notin Rested
    BY <1>3, <2>1, <2>3 DEF KeepsTicket
  <2>4. CASE tickets[t].state \in Rested /\ t \notin running
    BY <1>3, <2>1, <2>4 DEF KeepsTicket, Rested, Terminal
  <2> QED
    BY <2>2, <2>3, <2>4
<1> QED
  BY <1>3 DEF SettledReleases, WillRelease, Pending

LEMMA KeepingBacks ==
  ASSUME TypeOK, TypeOK', SettledReleases, NEW r, NEW fq, Keeping(r, fq),
         NEW t \in Tickets, tickets[t].state = "queued" => Backed(t),
         tickets'[t].state = "queued"
  PROVE  Backed(t)'
<1>1. PICK d \in {0, 1} :
        /\ d = 0 => fq = flushq
        /\ d = 1 => fq # flushq /\ flushq # <<>> /\ Head(flushq) = flushq[1]
        /\ \A i \in 1..Len(flushq) : i > d =>
             i - d \in 1..Len(flushq') /\ flushq'[i - d] = flushq[i]
  BY InLine DEF Keeping, Moves
<1>2. Len(flushq) \in Nat /\ Len(flushq') \in Nat
  BY DEF TypeOK
<1>3. \/ Waits(queue', t)
      \/ Starts(t)
      \/ \E j \in 1..Len(flushq') :
           /\ flushq'[j] = [k |-> "enqueue", t |-> t]
           /\ t \in running' =>
                \E i \in 1..(j - 1) : flushq'[i] = [k |-> "release", t |-> t]
  <2>1. KeepsTicket(t, fq)
    BY DEF Keeping
  <2>2. CASE tickets[t].state # "queued"
    <3>1. tickets[t].state \in Rested /\ fq = flushq
          /\ flushq' = Append(flushq, [k |-> "enqueue", t |-> t])
      BY <2>1, <2>2 DEF KeepsTicket
    <3>2. /\ Len(flushq') = Len(flushq) + 1
          /\ flushq'[Len(flushq) + 1] = [k |-> "enqueue", t |-> t]
          /\ \A i \in 1..Len(flushq) : flushq'[i] = flushq[i]
      BY <3>1 DEF TypeOK
    <3>3. ASSUME t \in running'
          PROVE  \/ \E i \in 1..Len(flushq) : flushq[i] = [k |-> "release", t |-> t]
                 \/ Starts(t)
      <4>1. t \in running \/ Starts(t)
        BY <2>1, <3>3 DEF KeepsTicket
      <4> QED
        BY <3>1, <4>1 DEF SettledReleases, Pending
    <3> DEFINE j == Len(flushq) + 1
    <3>4. j \in 1..Len(flushq') /\ 1..(j - 1) = 1..Len(flushq)
      BY <1>2, <3>2
    <3> QED
      BY <3>2, <3>3, <3>4
  <2>3. CASE tickets[t].state = "queued" /\ Waits(queue, t)
    BY <2>1, <2>3 DEF KeepsTicket
  <2>4. ASSUME NEW s \in Runs, runs[s].id = t, runs[s].pc = "validating" PROVE Starts(t)
    <3>1. s # r
      BY <2>4 DEF Keeping
    <3>2. runs'[s].pc = "validating" /\ runs'[s].id = t /\ s \in Runs'
      BY <2>4, <3>1, Widen DEF Keeping, Moves
    <3> QED
      BY <3>2 DEF Starts
  <2>5. ASSUME NEW j \in 1..Len(flushq), flushq[j] = [k |-> "enqueue", t |-> t],
               Slotless(t, j), ~Waits(queue', t), ~Starts(t)
        PROVE  \E m \in 1..Len(flushq') :
                  /\ flushq'[m] = [k |-> "enqueue", t |-> t]
                  /\ t \in running' =>
                       \E i \in 1..(m - 1) : flushq'[i] = [k |-> "release", t |-> t]
    <3>1. j > d
      <4>1. ASSUME ~(j > d) PROVE FALSE
        <5>1. j = 1 /\ d = 1
          BY <4>1
        <5>2. fq # flushq /\ Head(flushq) = [k |-> "enqueue", t |-> t]
          BY <1>1, <2>5, <5>1
        <5>3. t \in running
          BY <2>1, <2>5, <5>2 DEF KeepsTicket
        <5> QED
          BY <2>5, <5>1, <5>3 DEF Slotless
      <4> QED
        BY <4>1
    <3>2. j - d \in 1..Len(flushq') /\ flushq'[j - d] = [k |-> "enqueue", t |-> t]
      BY <1>1, <2>5, <3>1
    <3>3. ASSUME t \in running'
          PROVE  \E i \in 1..(j - d - 1) : flushq'[i] = [k |-> "release", t |-> t]
      <4>1. t \in running
        BY <2>1, <2>5, <3>3 DEF KeepsTicket
      <4>2. PICK i \in 1..(j - 1) : flushq[i] = [k |-> "release", t |-> t]
        BY <2>5, <4>1 DEF Slotless
      <4>3. i \in 1..Len(flushq)
        BY <1>2, <4>2
      <4>4. i > d
        <5>1. ASSUME ~(i > d) PROVE FALSE
          <6>1. i = 1 /\ d = 1
            BY <4>2, <5>1
          <6>2. fq # flushq /\ Head(flushq) = [k |-> "release", t |-> t]
            BY <1>1, <4>2, <6>1
          <6> QED
            BY <2>1, <2>5, <3>3, <6>2 DEF KeepsTicket
        <5> QED
          BY <5>1
      <4>5. i - d \in 1..(j - d - 1) /\ flushq'[i - d] = [k |-> "release", t |-> t]
        BY <1>1, <1>2, <4>2, <4>3, <4>4
      <4> QED
        BY <4>5
    <3> QED
      BY <3>2, <3>3
  <2> QED
    BY <2>2, <2>3, <2>4, <2>5 DEF Backed
<1> QED
  BY <1>3 DEF Backed, Starts, Slotless

LEMMA KeepingKeeps ==
  ASSUME TypeOK, TypeOK', Backlog, NEW r, NEW fq, Keeping(r, fq)
  PROVE  Backlog'
BY KeepingReleases, KeepingBacks DEF Backlog

-----------------------------------------------------------------------------
(* The chokepoints, and then every action, keep the backlog.               *)

\* What is left of the line once the continuation that resumed is gone.
Rests(fq, t) ==
  \/ fq = flushq
  \/ /\ flushq # <<>>
     /\ fq = Tail(flushq)
     /\ Head(flushq).k # "enqueue"
     /\ Head(flushq).k = "release" => Head(flushq).t = t
     /\ Head(flushq).k = "consult" => runs'[Head(flushq).r].pc = "advising"

LEMMA NoEnqueue ==
  ASSUME NEW fq, NEW t, Rests(fq, t), NEW u, fq # flushq
  PROVE  /\ Head(flushq) # [k |-> "enqueue", t |-> u]
         /\ Head(flushq) = [k |-> "release", t |-> u] => u = t
<1>1. [k |-> "enqueue", t |-> u].k = "enqueue"
  OBVIOUS
<1>2. [k |-> "release", t |-> u].k = "release" /\ [k |-> "release", t |-> u].t = u
  OBVIOUS
<1> QED
  BY <1>1, <1>2 DEF Rests

Belongs(r, t) ==
  r \in Runs =>
    /\ runs[r].id = t
    /\ runs[r].pc = "validating" => tickets'[t].state # "queued"
    /\ runs[r].pc = "advising" => ~WillDecide(t)

\* A release that was just queued is queued.
LEMMA ReleaseQueued ==
  ASSUME TypeOK, NEW t, NEW fq, Rests(fq, t), RunSeq(runs'), flushq' = Append(fq, ThenRelease(t))
  PROVE  WillRelease(t)
<1>1. fq \in Seq(Continuation)
  BY HeadTailProperties DEF Rests, TypeOK
<1>2. fq \in Seq(Continuation')
  BY <1>1, Widen
<1>3. Len(flushq') = Len(fq) + 1 /\ flushq'[Len(fq) + 1] = ThenRelease(t) /\ Len(fq) \in Nat
  BY <1>1
<1> QED
  BY <1>3 DEF WillRelease, ThenRelease

\* cancel's filter drops nobody else.
LEMMA WithoutKeeps ==
  ASSUME NEW q \in Seq(Tickets), NEW t, NEW u, u # t, Waits(q, u)
  PROVE  Waits(Without(q, t), u)
<1> DEFINE i == CHOOSE j \in 1..Len(q) : q[j] = t
           before == SubSeq(q, 1, i - 1)
           after == SubSeq(q, i + 1, Len(q))
<1>1. CASE \E j \in 1..Len(q) : q[j] = t
  <2>1. i \in 1..Len(q) /\ q[i] = t
    BY <1>1
  <2>2. Len(q) \in Nat /\ \A j \in 1..Len(q) : q[j] \in Tickets
    BY ElementOfSeq
  <2>3. Without(q, t) = before \o after
    BY <1>1 DEF Without
  <2> HIDE DEF i
  <2>4. /\ before \in Seq(Tickets) /\ Len(before) = i - 1
        /\ \A j \in 1..(i - 1) : before[j] = q[j]
    <3>1. \A j \in 1..(i - 1) : q[j] \in Tickets
      BY <2>1, <2>2
    <3>2. Len(before) = IF 1 <= i - 1 THEN i - 1 - 1 + 1 ELSE 0
      BY <2>1, <3>1, SubSeqProperties
    <3>3. \A j \in 1..(i - 1 - 1 + 1) : before[j] = q[1 + j - 1]
      BY <2>1, <3>1, SubSeqProperties
    <3> QED
      BY <2>1, <2>2, <3>1, <3>2, <3>3, SubSeqProperties
  <2>5. /\ after \in Seq(Tickets) /\ Len(after) = Len(q) - i
        /\ \A j \in 1..(Len(q) - i) : after[j] = q[i + j]
    <3>1. \A j \in (i + 1)..Len(q) : q[j] \in Tickets
      BY <2>1, <2>2
    <3>2. Len(after) = IF i + 1 <= Len(q) THEN Len(q) - (i + 1) + 1 ELSE 0
      BY <2>1, <2>2, <3>1, SubSeqProperties
    <3>3. \A j \in 1..(Len(q) - (i + 1) + 1) : after[j] = q[i + 1 + j - 1]
      BY <2>1, <2>2, <3>1, SubSeqProperties
    <3> QED
      BY <2>1, <2>2, <3>1, <3>2, <3>3, SubSeqProperties
  <2> HIDE DEF before, after
  <2>6. /\ Len(before \o after) = Len(q) - 1
        /\ \A j \in 1..(Len(q) - 1) : (before \o after)[j] = IF j <= i - 1 THEN before[j] ELSE after[j - (i - 1)]
    <3>1. /\ Len(before \o after) = Len(before) + Len(after)
          /\ \A j \in 1..(Len(before) + Len(after)) :
               (before \o after)[j] = IF j <= Len(before) THEN before[j] ELSE after[j - Len(before)]
      BY <2>4, <2>5, ConcatProperties
    <3>2. Len(before) + Len(after) = Len(q) - 1
      BY <2>1, <2>2, <2>4, <2>5
    <3> QED
      BY <2>4, <3>1, <3>2
  <2>7. PICK j \in 1..Len(q) : q[j] = u
    BY DEF Waits
  <2>8. CASE j < i
    <3>1. j \in 1..(Len(q) - 1) /\ j \in 1..(i - 1) /\ j <= i - 1
      BY <2>1, <2>2, <2>8
    <3> QED
      BY <2>3, <2>4, <2>6, <2>7, <3>1 DEF Waits
  <2>9. CASE j > i
    <3>1. /\ j - 1 \in 1..(Len(q) - 1) /\ ~(j - 1 <= i - 1) /\ j - 1 - (i - 1) = j - i
          /\ j - i \in 1..(Len(q) - i) /\ i + (j - i) = j
      BY <2>1, <2>2, <2>9
    <3>2. (before \o after)[j - 1] = u
      BY <2>5, <2>6, <2>7, <3>1
    <3> QED
      BY <2>3, <2>6, <3>1, <3>2 DEF Waits
  <2> QED
    BY <2>1, <2>2, <2>7, <2>8, <2>9
<1>2. CASE ~\E j \in 1..Len(q) : q[j] = t
  BY <1>2 DEF Without
<1> QED
  BY <1>1, <1>2

\* Where the update leaves t.
Written(t, fq) ==
  /\ \/ tickets'[t].state = tickets[t].state
     \/ tickets'[t].state \notin Rested \cup {"queued"}
     \/ tickets'[t].state # "queued" /\ WillRelease(t)
     \/ /\ tickets'[t].state = "queued" /\ tickets[t].state \in Rested
        /\ fq = flushq /\ flushq' = Append(flushq, [k |-> "enqueue", t |-> t])
  /\ WillDecide(t) => Deciding(t)

Concerns(r, t) ==
  /\ Moves(runs', r)
  /\ Belongs(r, t)
  /\ \/ running' = running
     \/ running' = running \cup {t} /\ tickets'[t].state = "running"
  /\ \/ queue' = queue
     \/ queue' = Without(queue, t) /\ tickets'[t].state # "queued"
  /\ \A u \in Tickets \ {t} : tickets'[u] = tickets[u]

\* A step that moves no slot but, where it continues t, takes one for it.
LEMMA StoredKeeping ==
  ASSUME TypeOK, NEW r, NEW t \in Tickets, NEW fq, Rests(fq, t),
         fq = flushq \/ Head(flushq).k # "release",
         Concerns(r, t), Lengthens(fq), Written(t, fq)
  PROVE  Keeping(r, fq)
<1>1. ASSUME NEW u \in Tickets PROVE KeepsTicket(u, fq)
  <2>1. u \in running' => u \in running \/ tickets'[u].state = "running"
    BY DEF Concerns
  <2>2. tickets'[u].state = "queued" /\ Waits(queue, u) => Waits(queue', u)
    <3>1. CASE queue' = queue
      BY <3>1
    <3>2. CASE queue' = Without(queue, t) /\ u # t
      BY <3>2, WithoutKeeps DEF TypeOK
    <3> QED
      BY <3>1, <3>2 DEF Concerns
  <2>3. fq # flushq => /\ Head(flushq) # [k |-> "enqueue", t |-> u]
                       /\ Head(flushq) # [k |-> "release", t |-> u]
    <3>1. [k |-> "release", t |-> u].k = "release"
      OBVIOUS
    <3> QED
      BY <3>1, NoEnqueue
  <2>4. CASE u = t
    <3>1. tickets'[u].state = "queued" /\ tickets[u].state # "queued"
            => /\ tickets[u].state \in Rested
               /\ fq = flushq /\ flushq' = Append(flushq, [k |-> "enqueue", t |-> u])
      BY <2>4 DEF Written
    <3>2. tickets'[u].state \in Rested /\ tickets[u].state \notin Rested => WillRelease(u)
      BY <2>4 DEF Written, Rested, Terminal
    <3> QED
      BY <2>1, <2>2, <2>3, <3>1, <3>2 DEF KeepsTicket
  <2>5. CASE u # t
    <3>1. tickets'[u] = tickets[u]
      BY <2>5 DEF Concerns
    <3> QED
      BY <2>1, <2>2, <2>3, <3>1 DEF KeepsTicket
  <2> QED
    BY <2>4, <2>5
<1>2. r \in Runs /\ runs[r].pc = "validating" => tickets'[runs[r].id].state # "queued"
  BY DEF Concerns, Belongs
<1>3. KeepsPanel(r, fq)
  <2>1. \A u \in Tickets : WillDecide(u) => Deciding(u)
    BY DEF Concerns, Written, WillDecide, Deciding
  <2>2. r \in Runs /\ runs[r].pc = "advising" => ~WillDecide(runs[r].id)
    BY DEF Concerns, Belongs
  <2> QED
    BY <2>1, <2>2 DEF KeepsPanel, Rests
<1> QED
  BY <1>1, <1>2, <1>3 DEF Concerns, Keeping, Rests, LeftOver

LEMMA SameDeciding ==
  ASSUME UNCHANGED tickets, NEW u
  PROVE  WillDecide(u) => Deciding(u)
BY DEF WillDecide, Deciding

\* A new question awaits its panel, if there are panels.
LEMMA AsksAnew ==
  ASSUME TypeOK, NEW r \in Runs, AgentAsks(r)
  PROVE  tickets'[runs[r].id].stage # "deciding"
<1> DEFINE t == runs[r].id
           rec(sid) == [Reported(r, sid, "decision") EXCEPT
                          !.question = r,
                          !.stage = IF Advisors THEN "pending" ELSE "none",
                          !.about = IF Advisors THEN r ELSE NoRun]
<1>1. t \in Tickets /\ tickets[t] \in TicketRecord
  BY RunType DEF TypeOK
<1>2. PICK sid \in {NoRun, runs[r].thread} : Store(t, rec(sid), flushq, [k |-> "parked", r |-> r])
  BY DEF AgentAsks
<1>3. rec(sid).stage = IF Advisors THEN "pending" ELSE "none"
  BY <1>1 DEF Reported, TicketRecord
<1>4. tickets'[t] = rec(sid)
  BY <1>1, <1>2, OneWritten
<1> HIDE DEF rec
<1> QED
  BY <1>3, <1>4

\* A release leaves the runs where rs has them, but for their timers.
LEMMA ReleaseRuns ==
  ASSUME TypeOK, NEW r, NEW t \in Tickets, NEW rs, Moves(rs, r), Release(t, rs)
  PROVE  Moves(runs', r) /\ Runs \subseteq Runs'
<1> DEFINE left == Disarmed(t, rs)
<1>1. Moves(left, r)
  BY MovesDisarmed
<1>2. Pump(running \ {t}, queue, left) /\ running \ {t} \in SUBSET Tickets
      /\ queue \in Seq(Tickets)
  BY DEF Release, TypeOK
<1> HIDE DEF left
<1>3. Pumped(running \ {t}, queue, left)
  BY <1>1, <1>2, PumpType DEF Moves
<1>4. Runs \subseteq 1..Len(left)
  BY <1>1 DEF Moves, RunSeq, Runs, TypeOK
<1>5. Moves(runs', r)
  <2>1. \A s \in Runs : runs'[s] = left[s]
    BY <1>3, <1>4 DEF Pumped
  <2> QED
    BY <1>1, <1>3, <2>1 DEF Moves, Pumped
<1> QED
  BY <1>5, Widen DEF Moves

LEMMA ReleaseKeeping ==
  ASSUME TypeOK, NEW r, NEW t \in Tickets, NEW fq, Rests(fq, t), NEW rs, Moves(rs, r),
         Belongs(r, t), Release(t, rs), \A u \in Tickets : tickets'[u].state = tickets[u].state,
         \A u \in Tickets : WillDecide(u) => Deciding(u) \/ WillAttend(u), Lengthens(fq)
  PROVE  Keeping(r, fq)
<1> DEFINE left == Disarmed(t, rs)
           R == running \ {t}
<1>1. Moves(left, r)
  BY MovesDisarmed
<1>2. Pump(R, queue, left) /\ R \in SUBSET Tickets /\ queue \in Seq(Tickets)
  BY DEF Release, TypeOK
<1>3. t \notin R /\ R \subseteq running
  OBVIOUS
<1> HIDE DEF left, R
<1>4. Pumped(R, queue, left)
  BY <1>1, <1>2, PumpType DEF Moves
<1>5. Moves(runs', r)
  BY ReleaseRuns
<1>6. ASSUME NEW u \in Tickets PROVE KeepsTicket(u, fq)
  <2>1. u \in running' => u \in R \/ (Starts(u) /\ tickets'[u].state = "queued")
    BY <1>4 DEF Pumped, Starts, Runs
  <2>2. tickets'[u].state = "queued" /\ Waits(queue, u) => Waits(queue', u) \/ Starts(u)
    BY <1>4 DEF Pumped, Starts, Runs
  <2>3. fq # flushq => /\ Head(flushq) # [k |-> "enqueue", t |-> u]
                       /\ Head(flushq) = [k |-> "release", t |-> u] => u = t
    BY NoEnqueue
  <2>4. tickets'[u].state = tickets[u].state
    OBVIOUS
  <2> QED
    BY <1>3, <2>1, <2>2, <2>3, <2>4 DEF KeepsTicket
<1>7. r \in Runs /\ runs[r].pc = "validating" => tickets'[runs[r].id].state # "queued"
  BY DEF Belongs
<1>8. KeepsPanel(r, fq)
  BY DEF KeepsPanel, Belongs, Rests
<1> QED
  BY <1>5, <1>6, <1>7, <1>8 DEF Keeping, Rests, LeftOver

LEMMA SettleKeeping ==
  ASSUME TypeOK, NEW r, NEW t \in Tickets, NEW fq, Rests(fq, t),
         fq = flushq \/ Head(flushq).k # "release",
         NEW rs, Moves(rs, r), r \in Runs => runs[r].id = t,
         NEW state \in Terminal, Settle(t, state, rs, fq)
  PROVE  Keeping(r, fq)
<1>1. CASE /\ Store(t, [tickets[t] EXCEPT !.state = state], fq, ThenRelease(t))
           /\ runs' = rs /\ running' = running /\ queue' = queue
  <2>1. tickets'[t] = [tickets[t] EXCEPT !.state = state]
        /\ \A u \in Tickets \ {t} : tickets'[u] = tickets[u]
    BY <1>1, OneWritten
  <2>2. tickets'[t].state = state /\ state # "queued"
    BY <2>1 DEF TypeOK, TicketRecord, Terminal
  <2>3. ThenRelease(t) \in Continuation' /\ flushq' = Append(fq, ThenRelease(t))
    BY <1>1, QueuedContinuations DEF ThenRelease, Store
  <2>4. WillRelease(t)
    BY <1>1, <2>3, ReleaseQueued DEF Rests, Moves
  <2>5. ~WillDecide(t) /\ Belongs(r, t)
    BY <2>2 DEF Belongs, WillDecide, Terminal
  <2>6. Lengthens(fq) /\ Written(t, fq)
    BY <2>2, <2>3, <2>4, <2>5 DEF Lengthens, Written
  <2>9. Concerns(r, t)
    BY <1>1, <2>1, <2>5, <2>6 DEF Concerns
  <2> QED
    BY <1>1, <2>1, <2>5, <2>6, <2>9, StoredKeeping
<1>2. CASE ~Exists(t) /\ Release(t, rs) /\ flushq' = fq /\ UNCHANGED tickets
  <2>1. Belongs(r, t)
    BY <1>2 DEF Belongs, Exists, Absent, WillDecide
  <2>2. Lengthens(fq) /\ \A u \in Tickets : tickets'[u].state = tickets[u].state
    BY <1>2 DEF Lengthens
  <2>3. \A u \in Tickets : WillDecide(u) => Deciding(u) \/ WillAttend(u)
    BY <1>2, SameDeciding
  <2> QED
    BY <1>2, <2>1, <2>2, <2>3, ReleaseKeeping
<1> QED
  BY <1>1, <1>2 DEF Settle

LEMMA AnswerKeeping ==
  ASSUME TypeOK, NEW r, NEW t \in Tickets, NEW fq, Rests(fq, t),
         fq = flushq \/ Head(flushq).k # "release",
         NEW rs, Moves(rs, r),
         r \in Runs => runs[r].id = t /\ runs[r].pc \notin {"validating", "advising"},
         Answer(t, rs, fq)
  PROVE  Keeping(r, fq)
<1>1. CASE runs' = rs /\ flushq' = fq /\ UNCHANGED <<tickets, running, queue>>
  <2>1. Belongs(r, t) /\ Moves(runs', r)
    BY <1>1 DEF Belongs
  <2>2. Lengthens(fq) /\ Written(t, fq)
    BY <1>1, SameDeciding DEF Lengthens, Written
  <2>9. Concerns(r, t)
    BY <1>1, <2>1, <2>2 DEF Concerns
  <2> QED
    BY <1>1, <2>1, <2>2, <2>9, StoredKeeping
<1>2. CASE Fail(t, rs, fq)
  BY <1>2, SettleKeeping DEF Fail, Terminal
<1>3. CASE /\ running' = running \cup {t} /\ queue' = queue
           /\ runs' = Append(rs, NewRun(t, "starting", tickets[t].session, tickets[t].question))
           /\ Store(t, Continued(tickets[t]), fq, [k |-> "starting", r |-> Len(rs) + 1])
  <2> DEFINE e == NewRun(t, "starting", tickets[t].session, tickets[t].question)
             c == [k |-> "starting", r |-> Len(rs) + 1]
  <2>1. RunSeq(rs) /\ rs \in Seq(RunRecord) /\ Len(rs) >= Len(runs) /\ Len(runs) \in Nat
    BY DEF Moves, RunSeq, TypeOK
  <2>2. RunSeq(runs') /\ Len(runs') = Len(rs) + 1
    BY <1>3, <2>1, AddRun DEF TypeOK, TicketRecord, Phases, Working
  <2>3. \A s \in Runs : runs'[s] = rs[s]
    BY <1>3, <2>1 DEF Runs
  <2>4. Moves(runs', r)
    BY <2>2, <2>3 DEF Moves
  <2>5. tickets'[t] = Continued(tickets[t]) /\ \A u \in Tickets \ {t} : tickets'[u] = tickets[u]
    BY <1>3, OneWritten
  <2>6. tickets'[t].state = "running"
    BY <2>5 DEF Continued, TypeOK, TicketRecord
  <2>7. c \in Continuation' /\ flushq' = Append(fq, c)
    BY <1>3, <2>1, <2>2 DEF Continuation, RunKinds, Runs, Store
  <2> HIDE DEF c
  <2>8. Belongs(r, t) /\ Written(t, fq) /\ Lengthens(fq)
    BY <2>6, <2>7 DEF Belongs, Written, Lengthens, Rested, Terminal, WillDecide
  <2>9. Concerns(r, t)
    BY <1>3, <2>4, <2>5, <2>6, <2>8 DEF Concerns
  <2> QED
    BY <1>3, <2>4, <2>5, <2>6, <2>8, <2>9, StoredKeeping
<1> QED
  BY <1>1, <1>2, <1>3 DEF Answer

LEMMA UserKeeping ==
  ASSUME TypeOK, NEW t \in Tickets,
         Create(t) \/ Retry(t) \/ Reply(t) \/ Cancel(t) \/ Remove(t)
  PROVE  Keepings
<1>1. Moves(runs, NoRun) /\ NoRun \notin Runs /\ Rests(flushq, t) /\ Belongs(NoRun, t)
  BY Nobody DEF Rests, Belongs
<1>2. tickets[t] \in TicketRecord
  BY DEF TypeOK
<1>3. /\ ThenEnqueue(t) \in Continuation' /\ ThenRelease(t) \in Continuation'
      /\ [k |-> "noted", t |-> t] \in Continuation'
  BY QueuedContinuations DEF ThenEnqueue, ThenRelease
<1>4. CASE Create(t) \/ Retry(t)
  <2>1. PICK rec : /\ Store(t, rec, flushq, ThenEnqueue(t)) /\ rec.state = "queued"
                   /\ tickets[t].state \in {"unborn", "failed"}
    <3>1. [tickets[t] EXCEPT !.state = "queued"].state = "queued"
          /\ Requeued(tickets[t]).state = "queued"
      BY <1>2 DEF TicketRecord, Requeued
    <3> QED
      BY <1>4, <3>1 DEF Create, Retry
  <2>2. tickets'[t] = rec /\ \A u \in Tickets \ {t} : tickets'[u] = tickets[u]
    BY <2>1, OneWritten
  <2>3. tickets[t].state \in Rested /\ rec.state \notin Rested
    BY <2>1 DEF Rested, Terminal
  <2>4. flushq' = Append(flushq, [k |-> "enqueue", t |-> t])
    BY <2>1 DEF Store, ThenEnqueue
  <2>5. Moves(runs', NoRun) /\ running' = running /\ queue' = queue
    BY <1>1, <1>4 DEF Create, Retry
  <2>6. [k |-> "enqueue", t |-> t] \in Continuation'
    BY <1>3 DEF ThenEnqueue
  <2>7. Written(t, flushq) /\ Lengthens(flushq)
    BY <2>1, <2>2, <2>3, <2>4, <2>6 DEF Written, Lengthens, WillDecide
  <2>8. Concerns(NoRun, t)
    BY <1>1, <2>2, <2>5, <2>7 DEF Concerns
  <2>9. Keeping(NoRun, flushq)
    BY <1>1, <2>2, <2>5, <2>7, <2>8, StoredKeeping
  <2> QED
    BY <2>9 DEF Keepings
<1>5. CASE Cancel(t)
  <2>1. [tickets[t] EXCEPT !.state = "failed"].state = "failed"
    BY <1>2 DEF TicketRecord
  <2>2. tickets'[t].state = "failed" /\ \A u \in Tickets \ {t} : tickets'[u] = tickets[u]
    BY <1>5, <2>1, OneWritten DEF Cancel
  <2>3. /\ Moves(runs', NoRun) /\ running' = running /\ queue' = Without(queue, t)
        /\ flushq' = Append(flushq, ThenRelease(t))
    BY <1>5, MovesKill DEF Cancel, Store
  <2>4. WillRelease(t)
    BY <1>1, <2>3, ReleaseQueued DEF Moves
  <2>5. Written(t, flushq) /\ Lengthens(flushq)
    BY <1>3, <2>2, <2>3, <2>4 DEF Written, Lengthens, WillDecide
  <2>6. Concerns(NoRun, t)
    BY <1>1, <2>2, <2>3, <2>5 DEF Concerns
  <2>7. Keeping(NoRun, flushq)
    BY <1>1, <2>2, <2>3, <2>5, <2>6, StoredKeeping
  <2> QED
    BY <2>7 DEF Keepings
<1>6. CASE Remove(t)
  <2>1. [tickets[t] EXCEPT !.state = "removed"].state = "removed"
    BY <1>2 DEF TicketRecord
  <2>2. tickets'[t].state = "removed" /\ \A u \in Tickets \ {t} : tickets'[u] = tickets[u]
    BY <1>6, <2>1, OneWritten DEF Remove
  <2>3. /\ Moves(runs', NoRun) /\ running' = running /\ queue' = queue
        /\ flushq' = Append(flushq, [k |-> "noted", t |-> t])
    BY <1>1, <1>6 DEF Remove, Store
  <2>4. Written(t, flushq) /\ Lengthens(flushq)
    BY <1>3, <2>2, <2>3 DEF Rested, Terminal, Written, Lengthens, WillDecide
  <2>5. Concerns(NoRun, t)
    BY <1>1, <2>2, <2>3, <2>4 DEF Concerns
  <2>6. Keeping(NoRun, flushq)
    BY <1>1, <2>2, <2>3, <2>4, <2>5, StoredKeeping
  <2> QED
    BY <2>6 DEF Keepings
<1>7. CASE Reply(t)
  <2>1. Answer(t, runs, flushq)
    BY <1>7 DEF Reply
  <2>2. Keeping(NoRun, flushq)
    BY <1>1, <2>1, AnswerKeeping
  <2> QED
    BY <2>2 DEF Keepings
<1> QED
  BY <1>4, <1>5, <1>6, <1>7

LEMMA AgentKeeping ==
  ASSUME TypeOK, NEW r \in Runs,
         \/ Announce(r) \/ AgentFails(r) \/ AgentAsks(r) \/ AgentReports(r) \/ AgentEndsLate(r)
  PROVE  Keepings
<1> DEFINE t == runs[r].id
<1>1. t \in Tickets /\ runs[r] \in RunRecord /\ tickets[t] \in TicketRecord
  BY RunType DEF TypeOK
<1>2. runs[r].pc \in Alive
  BY DEF Announce, AgentFails, AgentAsks, AgentReports, AgentEndsLate
<1>3. Belongs(r, t) /\ Rests(flushq, t)
  BY <1>2 DEF Belongs, Rests, Alive
<1>4. ASSUME NEW p \in Phases PROVE Moves(Disarmed(t, Phase(r, p)), r)
  BY <1>1, MovesPhase, MovesDisarmed
<1>5. {"over", "parking", "judging"} \subseteq Phases
  BY DEF Phases, Working
<1>6. /\ ThenRelease(t) \in Continuation' /\ [k |-> "noted", t |-> t] \in Continuation'
  BY <1>1, QueuedContinuations DEF ThenRelease
<1>7. CASE Announce(r)
  <2> DEFINE rec == [tickets[t] EXCEPT !.session = runs[r].thread]
  <2>1. rec.state = tickets[t].state /\ rec.stage = tickets[t].stage
    BY <1>1 DEF TicketRecord
  <2>2. /\ tickets'[t] = rec
        /\ \A u \in Tickets \ {t} : tickets'[u] = tickets[u]
    BY <1>1, <1>7, OneWritten DEF Announce
  <2> HIDE DEF rec
  <2>3. tickets'[t].state = tickets[t].state /\ tickets'[t].stage = tickets[t].stage
    BY <2>1, <2>2
  <2>4. Moves(runs', r)
    BY <1>7, AnnounceMoves DEF Moved
  <2>5. /\ running' = running /\ queue' = queue
        /\ flushq' = Append(flushq, [k |-> "noted", t |-> t])
    BY <1>7 DEF Announce, Store
  <2>6. Written(t, flushq) /\ Lengthens(flushq)
    BY <1>6, <2>3, <2>5 DEF Written, Lengthens, WillDecide, Deciding
  <2>7. Concerns(r, t)
    BY <1>1, <1>3, <2>2, <2>4, <2>5, <2>6 DEF Concerns
  <2>8. Keeping(r, flushq)
    BY <1>1, <1>3, <2>2, <2>4, <2>5, <2>6, <2>7, StoredKeeping
  <2> QED
    BY <2>8 DEF Keepings
<1>8. CASE AgentFails(r)
  <2>1. [tickets[t] EXCEPT !.state = "failed"].state = "failed"
    BY <1>1 DEF TicketRecord
  <2>2. tickets'[t].state = "failed" /\ \A u \in Tickets \ {t} : tickets'[u] = tickets[u]
    BY <1>1, <1>8, <2>1, OneWritten DEF AgentFails
  <2>3. /\ runs' = Disarmed(t, Phase(r, "over")) /\ running' = running /\ queue' = queue
        /\ flushq' = Append(flushq, ThenRelease(t))
    BY <1>8 DEF AgentFails, Exited, Store
  <2>4. Moves(runs', r)
    BY <1>4, <1>5, <2>3
  <2>5. WillRelease(t)
    BY <1>3, <2>3, <2>4, ReleaseQueued DEF Moves
  <2>6. Written(t, flushq) /\ Lengthens(flushq)
    BY <1>6, <2>2, <2>3, <2>5 DEF Written, Lengthens, WillDecide
  <2>7. Concerns(r, t)
    BY <1>1, <1>3, <2>2, <2>3, <2>4, <2>6 DEF Concerns
  <2>8. Keeping(r, flushq)
    BY <1>1, <1>3, <2>2, <2>3, <2>4, <2>6, <2>7, StoredKeeping
  <2> QED
    BY <2>8 DEF Keepings
<1>9. CASE AgentAsks(r) \/ AgentReports(r)
  <2>1. PICK k \in {"parked", "judge"} :
          /\ running' = running /\ queue' = queue
          /\ flushq' = Append(flushq, [k |-> k, r |-> r])
          /\ \/ runs' = Disarmed(t, Phase(r, "parking"))
             \/ runs' = Disarmed(t, Phase(r, "judging"))
    BY <1>9 DEF AgentAsks, AgentReports, Exited, Store
  <2>2. Moves(runs', r)
    BY <1>4, <1>5, <2>1
  <2>3. tickets'[t].state \in {"decision", "verifying"}
        /\ \A u \in Tickets \ {t} : tickets'[u] = tickets[u]
    BY <1>9, AskWrites, ReportWrites
  <2>9. ~WillDecide(t)
    BY <1>9, AsksAnew, ReportWrites DEF WillDecide
  <2>4. [k |-> k, r |-> r] \in Continuation'
    BY <2>1, <2>2, RunContinuations DEF RunKinds, Moves
  <2>5. Written(t, flushq) /\ Lengthens(flushq)
    BY <2>1, <2>3, <2>4, <2>9 DEF Rested, Terminal, Written, Lengthens
  <2>6. Concerns(r, t)
    BY <1>1, <1>3, <2>1, <2>2, <2>3, <2>5 DEF Concerns
  <2>7. Keeping(r, flushq)
    BY <1>1, <1>3, <2>1, <2>2, <2>3, <2>5, <2>6, StoredKeeping
  <2> QED
    BY <2>7 DEF Keepings
<1>10. CASE AgentEndsLate(r)
  <2>1. Release(t, Phase(r, "over")) /\ flushq' = flushq /\ UNCHANGED tickets
    BY <1>10 DEF AgentEndsLate, Exited
  <2>2. Moves(Phase(r, "over"), r)
    BY <1>5, MovesPhase
  <2>4. Lengthens(flushq) /\ \A u \in Tickets : tickets'[u].state = tickets[u].state
    BY <2>1 DEF Lengthens
  <2>5. \A u \in Tickets : WillDecide(u) => Deciding(u) \/ WillAttend(u)
    BY <2>1, SameDeciding
  <2>3. Keeping(r, flushq)
    BY <1>1, <1>3, <2>1, <2>2, <2>4, <2>5, ReleaseKeeping
  <2> QED
    BY <2>3 DEF Keepings
<1> QED
  BY <1>7, <1>8, <1>9, <1>10

LEMMA WorldKeeping ==
  ASSUME TypeOK, NEW r \in Runs,
         \/ CwdRejected(r) \/ CwdAccepted(r)
         \/ VerifierPasses(r) \/ VerifierRejects(r) \/ VerifierThrows(r) \/ VerdictIsLate(r)
         \/ Committed(r) \/ PanelAnswers(r) \/ PanelIsLate(r)
  PROVE  Keepings
<1> DEFINE t == runs[r].id
<1>1. t \in Tickets /\ tickets[t] \in TicketRecord
  BY RunType DEF TypeOK
<1>2. {"over", "starting", "committing", "consulting"} \subseteq Phases
  BY DEF Phases, Working
<1>3. \A p \in Phases : Moves(Phase(r, p), r)
  BY MovesPhase
<1>4. Rests(flushq, t)
  BY DEF Rests
<1>5. CASE \/ CwdRejected(r) \/ VerifierRejects(r) \/ Committed(r)
           \/ VerifierThrows(r) /\ StillVerifying(t)
  <2>1. PICK state \in Terminal : Settle(t, state, Phase(r, "over"), flushq)
    BY <1>5 DEF CwdRejected, VerifierRejects, VerifierThrows, Committed, Fail, Terminal
  <2>2. Keeping(r, flushq)
    BY <1>1, <1>2, <1>3, <1>4, <2>1, SettleKeeping
  <2> QED
    BY <2>2 DEF Keepings
<1>6. CASE \/ CwdAccepted(r) /\ ~Exists(t)
           \/ VerifierThrows(r) /\ ~StillVerifying(t)
           \/ VerdictIsLate(r)
  <2>1. Release(t, Phase(r, "over")) /\ flushq' = flushq /\ UNCHANGED tickets
    BY <1>6 DEF CwdAccepted, VerifierThrows, VerdictIsLate
  <2>2. /\ runs[r].pc = "validating" => tickets[t].state # "queued"
        /\ runs[r].pc # "advising"
    BY <1>6 DEF CwdAccepted, VerifierThrows, VerdictIsLate, Exists, Absent
  <2>3. Belongs(r, t) /\ Lengthens(flushq)
    BY <2>1, <2>2 DEF Belongs, Lengthens
  <2>5. \A u \in Tickets : WillDecide(u) => Deciding(u) \/ WillAttend(u)
    BY <2>1, SameDeciding
  <2>4. Keeping(r, flushq)
    BY <1>1, <1>2, <1>3, <1>4, <2>1, <2>3, <2>5, ReleaseKeeping
  <2> QED
    BY <2>4 DEF Keepings
<1>7. CASE CwdAccepted(r) /\ Exists(t)
  <2>1. /\ Store(t, [tickets[t] EXCEPT !.state = "running"],
                 flushq, [k |-> "starting", r |-> r])
        /\ runs' = Phase(r, "starting") /\ running' = running /\ queue' = queue
    BY <1>7 DEF CwdAccepted
  <2>2. [tickets[t] EXCEPT !.state = "running"].state = "running"
    BY <1>1 DEF TicketRecord
  <2>3. tickets'[t].state = "running" /\ \A u \in Tickets \ {t} : tickets'[u] = tickets[u]
    BY <1>1, <2>1, <2>2, OneWritten
  <2>4. Moves(runs', r)
    BY <1>2, <1>3, <2>1
  <2>5. [k |-> "starting", r |-> r] \in Continuation'
    BY <2>4, RunContinuations DEF RunKinds, Moves
  <2>6. flushq' = Append(flushq, [k |-> "starting", r |-> r])
    BY <2>1 DEF Store
  <2>7. Written(t, flushq) /\ Lengthens(flushq)
    BY <2>3, <2>5, <2>6 DEF Rested, Terminal, Written, Lengthens, WillDecide
  <2>8. Concerns(r, t)
    BY <1>1, <2>1, <2>3, <2>4 DEF Concerns, Belongs, WillDecide
  <2>9. Keeping(r, flushq)
    BY <1>1, <1>4, <2>7, <2>8, StoredKeeping
  <2> QED
    BY <2>9 DEF Keepings
<1>8. CASE VerifierPasses(r) \/ PanelIsLate(r)
  <2>1. PICK p \in Phases : runs' = Phase(r, p)
    BY <1>2, <1>8 DEF VerifierPasses, PanelIsLate
  <2>2. /\ running' = running /\ queue' = queue /\ flushq' = flushq /\ tickets' = tickets
        /\ runs[r].pc # "validating"
        /\ runs[r].pc = "advising" => tickets[t].state # "decision"
    BY <1>8 DEF VerifierPasses, PanelIsLate
  <2>3. Concerns(r, t)
    BY <1>3, <2>1, <2>2 DEF Concerns, Belongs, WillDecide
  <2>4. Written(t, flushq) /\ Lengthens(flushq)
    BY <2>2, SameDeciding DEF Written, Lengthens
  <2>5. Keeping(r, flushq)
    BY <1>1, <1>4, <2>3, <2>4, StoredKeeping
  <2> QED
    BY <2>5 DEF Keepings
<1>9. CASE PanelAnswers(r)
  <2>1. PICK stage \in {"decided", "failed"}, k \in {"adopted", "escalated"} :
          Store(t, [tickets[t] EXCEPT !.stage = stage, !.about = r],
                flushq, [k |-> k, r |-> r])
    BY <1>9 DEF PanelAnswers, Escalation
  <2> DEFINE rec == [tickets[t] EXCEPT !.stage = stage, !.about = r]
  <2>2. rec.state = tickets[t].state /\ rec.stage = stage
    BY <1>1 DEF TicketRecord
  <2>10. tickets'[t] = rec /\ \A u \in Tickets \ {t} : tickets'[u] = tickets[u]
    BY <1>1, <2>1, OneWritten
  <2> HIDE DEF rec
  <2>3. /\ tickets'[t].state = tickets[t].state /\ ~WillDecide(t)
        /\ \A u \in Tickets \ {t} : tickets'[u] = tickets[u]
    BY <2>1, <2>2, <2>10 DEF WillDecide
  <2>4. Moves(runs', r)
    BY <1>2, <1>3, <1>9 DEF PanelAnswers
  <2>5. [k |-> k, r |-> r] \in Continuation'
    BY <2>1, <2>4, RunContinuations DEF RunKinds, Moves
  <2>6. flushq' = Append(flushq, [k |-> k, r |-> r])
    BY <2>1 DEF Store
  <2>7. Written(t, flushq) /\ Lengthens(flushq)
    BY <2>3, <2>5, <2>6 DEF Written, Lengthens
  <2>8. Concerns(r, t)
    BY <1>1, <1>9, <2>3, <2>4 DEF PanelAnswers, Concerns, Belongs
  <2>9. Keeping(r, flushq)
    BY <1>1, <1>4, <2>7, <2>8, StoredKeeping
  <2> QED
    BY <2>9 DEF Keepings
<1> QED
  BY <1>5, <1>6, <1>7, <1>8, <1>9 DEF CwdAccepted, VerifierThrows

LEMMA TimerKeeping ==
  ASSUME TypeOK, NEW r \in Runs, Timeout(r)
  PROVE  Keepings
<1> DEFINE t == runs[r].id
           fired(rs) == [rs EXCEPT ![r].armed = FALSE]
<1>1. t \in Tickets /\ NoRun \notin Runs /\ Rests(flushq, t) /\ Belongs(NoRun, t)
  BY RunType, Nobody DEF Rests, Belongs
<1>2. Moves(fired(Kill(t)), NoRun) /\ Moves(fired(runs), NoRun)
  <2>1. Moved(Kill(t), NoRun) /\ Moved(runs, NoRun)
    BY <1>1, MovedKill, MovedNothing
  <2> QED
    BY <2>1, MovedFlag DEF Moved
<1> HIDE DEF fired
<1>3. CASE Fail(t, fired(Kill(t)), flushq)
  <2>1. Keeping(NoRun, flushq)
    BY <1>1, <1>2, <1>3, SettleKeeping DEF Fail, Terminal
  <2> QED
    BY <2>1 DEF Keepings
<1>4. CASE runs' = fired(runs) /\ UNCHANGED <<tickets, running, queue, flushq>>
  <2>1. Concerns(NoRun, t)
    BY <1>1, <1>2, <1>4 DEF Concerns
  <2>2. Written(t, flushq) /\ Lengthens(flushq)
    BY <1>4, SameDeciding DEF Written, Lengthens
  <2>3. Keeping(NoRun, flushq)
    BY <1>1, <2>1, <2>2, StoredKeeping
  <2> QED
    BY <2>3 DEF Keepings
<1> QED
  BY <1>3, <1>4 DEF Timeout, fired

LEMMA FlushKeeping ==
  ASSUME TypeOK, ResumesOnce, Flush
  PROVE  Keepings
<1> DEFINE r == Head(flushq).r
           t == Head(flushq).t
           rest == Tail(flushq)
<1>1. flushq # <<>>
  BY DEF Flush, Spawned, SpawnThrows, Parked, Judging, Consulting, Escalated, Adopted,
         Enqueued, Released, Noted, Resumes
<1>2. ASSUME Head(flushq).k \in RunKinds
      PROVE  /\ r \in Runs /\ runs[r].id \in Tickets
             /\ runs[r].pc = ResumedPhase(Head(flushq).k)
             /\ runs[r].pc \notin {"validating", "advising"}
             /\ \A p \in Phases : Moves(Phase(r, p), r)
             /\ Belongs(r, runs[r].id)
             /\ Head(flushq).k # "consult" => Rests(rest, runs[r].id)
             /\ Head(flushq).k # "release"
  <2>1. r \in Runs /\ runs[r].pc = ResumedPhase(Head(flushq).k)
    BY <1>1, <1>2, HeadType, FreeHead
  <2>2. runs[r].pc \notin {"validating", "advising"}
    BY <2>1 DEF ResumedPhase
  <2>3. Head(flushq).k # "enqueue" /\ Head(flushq).k # "release"
    BY <1>2 DEF RunKinds
  <2> QED
    BY <1>1, <2>1, <2>2, <2>3, RunType, MovesPhase DEF Belongs, Rests
<1>3. ASSUME Head(flushq).k \in TicketKinds PROVE t \in Tickets
  BY <1>1, <1>3, HeadType
<1>4. {"over", "verifying", "consulting", "advising"} \subseteq Phases
  BY DEF Phases, Working
<1>5. Moves(runs, NoRun) /\ NoRun \notin Runs /\ \A u : Belongs(NoRun, u)
  BY Nobody DEF Belongs
<1>6. rest \in Seq(Continuation)
  BY <1>1, HeadType
<1>7. \A u : UNCHANGED tickets /\ flushq' = rest => Written(u, rest) /\ Lengthens(rest)
  BY SameDeciding DEF Written, Lengthens
<1> HIDE DEF r, t, rest
<1>8. CASE Spawned
  <2>1. Head(flushq).k = "starting"
    BY <1>8 DEF Spawned, Resumes
  <2>2. r \in Runs /\ runs[r].pc = "starting" /\ runs[r].id \in Tickets
    BY <1>2, <2>1 DEF RunKinds, ResumedPhase
  <2> DEFINE capped == "timeout" \in Operations
             e == [runs[r] EXCEPT !.pc = "live", !.armed = capped]
  <2>3. capped \in BOOLEAN
    OBVIOUS
  <2>4. runs' = [runs EXCEPT ![r] = e]
    BY <1>8 DEF Spawned, r
  <2> HIDE DEF capped
  <2>5. e \in RunRecord /\ e.id = runs[r].id
    BY <2>2, <2>3, RunType DEF RunRecord, Phases, Working, Alive
  <2> HIDE DEF e
  <2>6. RunSeq(runs') /\ Len(runs') = Len(runs)
    BY <2>2, <2>4, <2>5, PutRecord DEF TypeOK, Runs, RunSeq
  <2>7. \A s \in Runs : runs'[s] = IF s = r THEN e ELSE runs[s]
    BY <2>4 DEF TypeOK, Runs
  <2>8. Moves(runs', r)
    BY <2>2, <2>5, <2>6, <2>7 DEF Moves
  <2>9. Concerns(r, runs[r].id)
    BY <1>2, <1>8, <2>1, <2>8 DEF Spawned, Concerns, RunKinds
  <2>10. Written(runs[r].id, rest) /\ Lengthens(rest)
    BY <1>7, <1>8 DEF Spawned, rest
  <2>11. Keeping(r, rest)
    BY <1>2, <2>1, <2>2, <2>9, <2>10, StoredKeeping DEF RunKinds
  <2> QED
    BY <2>11 DEF Keepings
<1>9. CASE SpawnThrows
  <2>1. Head(flushq).k = "starting"
    BY <1>9 DEF SpawnThrows, Resumes
  <2>2. Settle(runs[r].id, "failed", Phase(r, "over"), rest) /\ "failed" \in Terminal
    BY <1>9 DEF SpawnThrows, Fail, r, rest, Terminal
  <2>3. Keeping(r, rest)
    BY <1>2, <1>4, <2>1, <2>2, SettleKeeping DEF RunKinds
  <2> QED
    BY <2>3 DEF Keepings
<1>10. CASE Parked
  <2> DEFINE id == runs[r].id
  <2>1. Head(flushq).k = "parked"
    BY <1>10 DEF Parked, Resumes
  <2>2. r \in Runs /\ id \in Tickets
    BY <1>2, <2>1 DEF RunKinds
  <2>3. Rests(rest, id) /\ Belongs(r, id)
    BY <1>2, <2>1 DEF RunKinds
  <2>4. Moves(Phase(r, "over"), r) /\ Moves(Phase(r, "consulting"), r)
    BY <1>2, <1>4, <2>1 DEF RunKinds
  <2>5. CASE Release(id, Phase(r, "over")) /\ flushq' = rest /\ UNCHANGED tickets
    <3>2. Lengthens(rest) /\ \A u \in Tickets : tickets'[u].state = tickets[u].state
      BY <2>5 DEF Lengthens
    <3>3. \A u \in Tickets : WillDecide(u) => Deciding(u) \/ WillAttend(u)
      BY <2>5, SameDeciding
    <3>1. Keeping(r, rest)
      BY <2>2, <2>3, <2>4, <2>5, <3>2, <3>3, ReleaseKeeping
    <3> QED
      BY <3>1 DEF Keepings
  <2>6. CASE /\ Release(id, Phase(r, "consulting"))
             /\ Store(id, [tickets[id] EXCEPT !.stage = "deciding", !.about = r],
                      rest, [k |-> "consult", r |-> r])
    <3>1. tickets[id] \in TicketRecord
      BY <2>2 DEF TypeOK
    <3>2. [tickets[id] EXCEPT !.stage = "deciding", !.about = r].state = tickets[id].state
      BY <3>1 DEF TicketRecord
    <3>3. \A u \in Tickets : tickets'[u].state = tickets[u].state
      BY <2>2, <2>6, <3>2, OneWritten
    <3>9. RunSeq(runs')
      BY <2>2, <2>4, <2>6, ReleaseType DEF Moves
    <3>4. Runs \subseteq Runs'
      BY <3>9, Widen
    <3>5. [k |-> "consult", r |-> r] \in Continuation'
      BY <2>2, <3>4 DEF Continuation, RunKinds
    <3>6. Lengthens(rest)
      BY <2>6, <3>5 DEF Store, Lengthens
    <3>8. ASSUME NEW u \in Tickets, WillDecide(u) PROVE Deciding(u) \/ WillAttend(u)
      <4>1. CASE u = id
        <5>1. /\ flushq' = Append(rest, [k |-> "consult", r |-> r])
              /\ rest \in Seq(Continuation) /\ Len(rest) \in Nat
          BY <1>6, <2>6 DEF Store
        <5>2. rest \in Seq(Continuation')
          BY <3>9, <5>1, Widen
        <5>3. /\ Len(rest) + 1 \in 1..Len(flushq')
              /\ flushq'[Len(rest) + 1] = [k |-> "consult", r |-> r]
          BY <3>5, <5>1, <5>2, AppendProperties
        <5>4. r \in Runs' /\ runs'[r].id = id
          <6>1. Moves(runs', r)
            BY <2>2, <2>4, <2>6, ReleaseRuns
          <6> QED
            BY <2>2, <3>4, <6>1 DEF Moves
        <5> QED
          BY <4>1, <5>3, <5>4 DEF WillAttend
      <4>2. CASE u # id
        <5>1. tickets'[u] = tickets[u]
          BY <2>2, <2>6, <4>2, OneWritten
        <5> QED
          BY <3>8, <5>1 DEF WillDecide, Deciding
      <4> QED
        BY <4>1, <4>2
    <3>7. Keeping(r, rest)
      BY <2>2, <2>3, <2>4, <2>6, <3>3, <3>6, <3>8, ReleaseKeeping
    <3> QED
      BY <3>7 DEF Keepings
  <2> QED
    BY <1>10, <2>5, <2>6 DEF Parked, r, rest
<1>11. CASE Judging \/ Consulting \/ Escalated
  <2>1. Head(flushq).k \in {"judge", "consult", "escalated"}
    BY <1>11 DEF Judging, Consulting, Escalated, Resumes
  <2>2. PICK p \in Phases : runs' = Phase(r, p)
    BY <1>4, <1>11 DEF Judging, Consulting, Escalated, r
  <2>3. running' = running /\ queue' = queue /\ flushq' = rest /\ tickets' = tickets
    BY <1>11 DEF Judging, Consulting, Escalated, rest
  <2>4. /\ r \in Runs /\ runs[r].id \in Tickets /\ Moves(runs', r)
        /\ Head(flushq).k \notin {"release", "enqueue"}
        /\ Belongs(r, runs[r].id)
    BY <1>2, <2>1, <2>2 DEF RunKinds
  <2>7. Head(flushq).k = "consult" => runs'[r].pc = "advising"
    <3>1. Head(flushq).k = "consult" => runs' = Phase(r, "advising")
      BY <1>11 DEF Judging, Consulting, Escalated, Resumes, r
    <3> QED
      BY <1>4, <2>4, <3>1, MovedPhase
  <2>8. Rests(rest, runs[r].id)
    BY <1>1, <2>4, <2>7 DEF Rests, rest, r
  <2>5. Concerns(r, runs[r].id)
    BY <2>3, <2>4 DEF Concerns
  <2>6. Keeping(r, rest)
    BY <1>7, <2>3, <2>4, <2>5, <2>8, StoredKeeping
  <2> QED
    BY <2>6 DEF Keepings
<1>12. CASE Adopted
  <2>1. Head(flushq).k = "adopted"
    BY <1>12 DEF Adopted, Resumes
  <2>2. Answer(runs[r].id, Phase(r, "over"), rest)
    BY <1>12 DEF Adopted, r, rest
  <2>3. Keeping(r, rest)
    BY <1>2, <1>4, <2>1, <2>2, AnswerKeeping DEF RunKinds
  <2> QED
    BY <2>3 DEF Keepings
<1>13. CASE Enqueued
  <2>1. t \in Tickets /\ Head(flushq).k = "enqueue"
    BY <1>3, <1>13 DEF Enqueued, Resumes, TicketKinds
  <2>2. UNCHANGED tickets /\ flushq' = rest
    BY <1>13 DEF Enqueued, rest
  <2>3. \A u : /\ Head(flushq) # [k |-> "release", t |-> u]
               /\ Head(flushq) = [k |-> "enqueue", t |-> u] => u = t
    BY <2>1 DEF t
  <2>6. KeepsPanel(NoRun, rest) /\ LeftOver(rest) /\ Lengthens(rest)
    BY <1>1, <1>5, <2>1, <2>2, SameDeciding DEF KeepsPanel, LeftOver, Lengthens, rest
  <2>4. CASE Known(t) /\ UNCHANGED <<running, queue, runs>>
    <3>1. ASSUME NEW u \in Tickets PROVE KeepsTicket(u, rest)
      <4>1. Head(flushq) = [k |-> "enqueue", t |-> u] => Waits(queue', u) \/ u \in running
        BY <2>3, <2>4 DEF Known, Waits
      <4>2. tickets'[u].state = tickets[u].state /\ running' = running /\ queue' = queue
        BY <2>2, <2>4
      <4> QED
        BY <2>3, <4>1, <4>2 DEF KeepsTicket
    <3>2. Moves(runs', NoRun)
      BY <1>5, <2>4
    <3>3. Keeping(NoRun, rest)
      BY <1>5, <2>6, <3>1, <3>2 DEF Keeping
    <3> QED
      BY <3>3 DEF Keepings
  <2>5. CASE ~Known(t) /\ Pump(running, Append(queue, t), runs)
    <3>1. Append(queue, t) \in Seq(Tickets) /\ running \in SUBSET Tickets
      BY <2>1, AppendProperties DEF TypeOK
    <3>2. Pumped(running, Append(queue, t), runs)
      BY <1>5, <2>5, <3>1, PumpType DEF Moves
    <3>3. Waits(Append(queue, t), t) /\ \A u : Waits(queue, u) => Waits(Append(queue, t), u)
      <4>1. /\ Len(Append(queue, t)) = Len(queue) + 1 /\ Len(queue) \in Nat
            /\ Append(queue, t)[Len(queue) + 1] = t
            /\ \A i \in 1..Len(queue) : Append(queue, t)[i] = queue[i]
        BY <2>1, AppendProperties DEF TypeOK
      <4> QED
        BY <4>1 DEF Waits
    <3>4. Moves(runs', NoRun)
      <4>1. \A s \in Runs : runs'[s] = runs[s]
        BY <3>2 DEF Pumped, Runs
      <4> QED
        BY <3>2, <4>1 DEF Moves, Pumped
    <3>5. ASSUME NEW u \in Tickets PROVE KeepsTicket(u, rest)
      <4>1. u \in running' => u \in running \/ (Starts(u) /\ tickets'[u].state = "queued")
        BY <2>2, <3>2 DEF Pumped, Starts, Runs
      <4>2. tickets'[u].state = "queued" /\ Waits(Append(queue, t), u)
              => Waits(queue', u) \/ Starts(u)
        BY <2>2, <3>2 DEF Pumped, Starts, Runs
      <4>3. tickets'[u].state = tickets[u].state
        BY <2>2
      <4>4. Head(flushq) = [k |-> "enqueue", t |-> u] => Waits(Append(queue, t), u)
        BY <2>3, <3>3
      <4> QED
        BY <2>3, <3>3, <4>1, <4>2, <4>3, <4>4 DEF KeepsTicket
    <3>6. Keeping(NoRun, rest)
      BY <1>5, <2>6, <3>4, <3>5 DEF Keeping
    <3> QED
      BY <3>6 DEF Keepings
  <2> QED
    BY <1>13, <2>4, <2>5 DEF Enqueued, t
<1>14. CASE Released
  <2>1. t \in Tickets /\ Head(flushq).k = "release"
    BY <1>3, <1>14 DEF Released, Resumes, TicketKinds
  <2>2. Release(t, runs) /\ UNCHANGED tickets /\ flushq' = rest
    BY <1>14 DEF Released, t, rest
  <2>3. Rests(rest, t)
    BY <1>1, <2>1 DEF Rests, rest, t
  <2>5. Lengthens(rest) /\ \A u \in Tickets : tickets'[u].state = tickets[u].state
    BY <2>2 DEF Lengthens
  <2>6. \A u \in Tickets : WillDecide(u) => Deciding(u) \/ WillAttend(u)
    BY <2>2, SameDeciding
  <2>4. Keeping(NoRun, rest)
    BY <1>5, <2>1, <2>2, <2>3, <2>5, <2>6, ReleaseKeeping
  <2> QED
    BY <2>4 DEF Keepings
<1>15. CASE Noted
  <2>1. t \in Tickets /\ Head(flushq).k = "noted"
    BY <1>3, <1>15 DEF Noted, Resumes, TicketKinds
  <2>2. UNCHANGED <<tickets, runs, running, queue>> /\ flushq' = rest
    BY <1>15 DEF Noted, rest
  <2>3. Rests(rest, t)
    BY <1>1, <2>1 DEF Rests, rest
  <2>4. Concerns(NoRun, t)
    BY <1>5, <2>2 DEF Concerns
  <2>5. Keeping(NoRun, rest)
    BY <1>7, <2>1, <2>2, <2>3, <2>4, StoredKeeping
  <2> QED
    BY <2>5 DEF Keepings
<1> QED
  BY <1>8, <1>9, <1>10, <1>11, <1>12, <1>13, <1>14, <1>15 DEF Flush

LEMMA NextKeepsBacklog ==
  ASSUME TypeOK, ResumesOnce, Backlog, [Next]_vars
  PROVE  Backlog'
<1>1. CASE UNCHANGED vars
  BY <1>1 DEF vars, Backlog, SettledReleases, Pending, Backed, Waits, Slotless, Runs
<1>2. CASE Next
  <2>1. Keepings
    BY <1>2, UserKeeping, AgentKeeping, WorldKeeping, TimerKeeping, FlushKeeping
       DEF Next, User, World
  <2>2. TypeOK'
    BY <1>2, NextType
  <2> QED
    BY <2>1, <2>2, KeepingKeeps DEF Keepings
<1> QED
  BY <1>1, <1>2

LEMMA BacklogIsKept == Backlog => QueuedIsKept
BY DEF Backlog, Backed, QueuedIsKept, Kept, Pending, Waits

(***************************************************************************)
(* A queued ticket is never forgotten: whatever runs between a settled     *)
(* attempt and its release, the retry's enqueue finds the slot given back  *)
(* (enqueue, releaseSlot, pump, cancel, retry).                            *)
(***************************************************************************)
THEOREM NoForgottenTicket == Spec => []QueuedIsKept
<1> DEFINE IInv == TypeOK /\ ResumesOnce /\ SlotHasKeeper /\ Backlog
<1>1. Init => IInv
  <2>1. Init => Backlog
    BY DEF Init, Backlog, SettledReleases
  <2> QED
    BY <2>1, InitType, InitKeeps
<1>2. IInv /\ [Next]_vars => IInv'
  BY NextType, NextKeeps, NextKeepsBacklog
<1>3. IInv => QueuedIsKept
  BY BacklogIsKept
<1> QED
  BY <1>1, <1>2, <1>3, PTL DEF Spec

-----------------------------------------------------------------------------
(***************************************************************************)
(* The calm system: tickets are created, worked on, consulted about and    *)
(* retried, but nobody cancels, answers or removes one and no wallclock    *)
(* fires.  A ticket then lives one life at a time, and the slots, the      *)
(* backlog, the runs and the line of flushes agree on where in it it is.   *)
(* Sit says how, in five situations: idle, settled, asked for, waiting,    *)
(* and at work; u is the ticket, s its state, R the slots, q the backlog,  *)
(* rs the runs and line the flushes.                                       *)
(***************************************************************************)
Names(c, u) == c = ThenEnqueue(u) \/ c = ThenRelease(u)

Quiet(line, u) == \A i \in 1..Len(line) : ~Names(line[i], u)

Closing(line, u) ==
  \A i \in 1..Len(line) : Names(line[i], u) => line[i] = ThenRelease(u)

Opening(line, u) ==
  \E j \in 1..Len(line) :
    /\ line[j] = ThenEnqueue(u)
    /\ \A i \in 1..Len(line) :
         Names(line[i], u) => i = j \/ (i < j /\ line[i] = ThenRelease(u))

Releasing(line, u) == \E i \in 1..Len(line) : line[i] = ThenRelease(u)

Finished(u, rs) == \A r \in 1..Len(rs) : rs[r].id = u => rs[r].pc = "over"

Sole(u, r, rs) ==
  /\ r \in 1..Len(rs)
  /\ rs[r].id = u
  /\ \A s \in 1..Len(rs) : rs[s].id = u /\ s # r => rs[s].pc = "over"

\* The state a ticket shows while its run is in phase p.
Shown(p) == IF p = "validating" THEN "queued"
            ELSE IF p \in {"starting", "live"} THEN "running"
            ELSE IF p \in {"judging", "verifying", "committing"} THEN "verifying"
            ELSE "decision"

Works(u, r, s, R, rs) ==
  /\ Sole(u, r, rs)
  /\ rs[r].pc \notin {"over", "killed"}
  /\ s = Shown(rs[r].pc)
  /\ u \in R <=> rs[r].pc \in Working
  /\ rs[r].pc \in {"consulting", "advising"} => Advisors

Resting(u, s, R, q, rs, line) ==
  s \in {"unborn", "decision"} /\ Finished(u, rs) /\ u \notin R /\ ~Waits(q, u) /\ Quiet(line, u)

Settled(u, s, R, q, rs, line) ==
  /\ s \in Terminal /\ Finished(u, rs) /\ ~Waits(q, u) /\ Closing(line, u)
  /\ u \in R => Releasing(line, u)

AskedFor(u, s, R, q, rs, line) ==
  /\ s = "queued" /\ Finished(u, rs) /\ ~Waits(q, u) /\ Opening(line, u)
  /\ u \in R => Releasing(line, u)

InBacklog(u, s, R, q, rs, line) ==
  s = "queued" /\ Finished(u, rs) /\ Waits(q, u) /\ u \notin R /\ Quiet(line, u)

AtWork(u, s, R, q, rs, line) ==
  (\E r \in 1..Len(rs) : Works(u, r, s, R, rs)) /\ ~Waits(q, u) /\ Quiet(line, u)

Sit(u, s, R, q, rs, line) ==
  \/ Resting(u, s, R, q, rs, line)
  \/ Settled(u, s, R, q, rs, line)
  \/ AskedFor(u, s, R, q, rs, line)
  \/ InBacklog(u, s, R, q, rs, line)
  \/ AtWork(u, s, R, q, rs, line)

Once(q) == \A i, j \in 1..Len(q) : q[i] = q[j] => i = j

Within(R) == Advisors \/ Cardinality(R) <= Concurrency

Calm ==
  /\ Once(queue)
  /\ \A t \in Tickets : Sit(t, tickets[t].state, running, queue, runs, flushq)
  /\ AgentsAreReachable
  /\ \A r \in Runs : ~runs[r].armed
  /\ \A t \in Tickets : timers[t] = NoRun
  /\ Within(running)

(***************************************************************************)
(* The line, as the tickets not named by the entry taken from its head or  *)
(* by the one put at its end see it.                                       *)
(***************************************************************************)
SameLine(u, line, new) ==
  /\ Quiet(line, u) => Quiet(new, u)
  /\ Closing(line, u) => Closing(new, u)
  /\ Opening(line, u) => Opening(new, u)
  /\ Releasing(line, u) => Releasing(new, u)

Unnamed(u, fq) == fq # flushq => ~Names(Head(flushq), u)

LEMMA Tailed ==
  ASSUME TypeOK, flushq # <<>>
  PROVE  /\ Tail(flushq) \in Seq(Continuation)
         /\ Head(flushq) = flushq[1] /\ 1 \in 1..Len(flushq)
         /\ Len(flushq) \in Nat /\ Len(Tail(flushq)) \in Nat
         /\ Len(Tail(flushq)) = Len(flushq) - 1
         /\ \A i \in 1..Len(Tail(flushq)) :
              Tail(flushq)[i] = flushq[i + 1] /\ i + 1 \in 1..Len(flushq)
         /\ \A i \in 1..Len(flushq) : i # 1 =>
              i - 1 \in 1..Len(Tail(flushq)) /\ Tail(flushq)[i - 1] = flushq[i]
<1> DEFINE C == Continuation
           line == flushq
<1>1. line \in Seq(C) /\ line # <<>>
  BY DEF TypeOK
<1> HIDE DEF C, line
<1>2. /\ Tail(line) \in Seq(C) /\ Head(line) = line[1]
      /\ Len(line) \in Nat /\ Len(Tail(line)) = Len(line) - 1 /\ Len(line) > 0
  BY <1>1
<1>3. \A i \in 1..Len(Tail(line)) : Tail(line)[i] = line[i + 1]
  BY <1>1
<1> QED
  BY <1>2, <1>3 DEF C, line

LEMMA LineLeft ==
  ASSUME TypeOK, NEW fq, LeftOver(fq), NEW u, Unnamed(u, fq)
  PROVE  SameLine(u, flushq, fq)
<1>1. CASE fq = flushq
  BY <1>1 DEF SameLine
<1>2. CASE fq # flushq
  <2>1. /\ flushq # <<>> /\ fq = Tail(flushq) /\ ~Names(flushq[1], u)
        /\ Len(fq) = Len(flushq) - 1 /\ Len(fq) \in Nat
        /\ \A i \in 1..Len(fq) : fq[i] = flushq[i + 1] /\ i + 1 \in 1..Len(flushq)
    BY <1>2, Tailed DEF LeftOver, Unnamed
  <2>2. \A i \in 1..Len(flushq) : Names(flushq[i], u) =>
          i - 1 \in 1..Len(fq) /\ fq[i - 1] = flushq[i]
    BY <2>1
  <2>3. Quiet(flushq, u) => Quiet(fq, u)
    BY <2>1 DEF Quiet
  <2>4. Closing(flushq, u) => Closing(fq, u)
    BY <2>1 DEF Closing
  <2>5. Releasing(flushq, u) => Releasing(fq, u)
    BY <2>2 DEF Releasing, Names
  <2>6. ASSUME Opening(flushq, u) PROVE Opening(fq, u)
    <3>1. PICK j \in 1..Len(flushq) :
            /\ flushq[j] = ThenEnqueue(u)
            /\ \A i \in 1..Len(flushq) :
                 Names(flushq[i], u) => i = j \/ (i < j /\ flushq[i] = ThenRelease(u))
      BY <2>6 DEF Opening
    <3>2. j - 1 \in 1..Len(fq) /\ fq[j - 1] = ThenEnqueue(u)
      BY <2>2, <3>1 DEF Names
    <3>3. ASSUME NEW i \in 1..Len(fq), Names(fq[i], u)
          PROVE  i = j - 1 \/ (i < j - 1 /\ fq[i] = ThenRelease(u))
      BY <2>1, <3>1, <3>3
    <3> QED
      BY <3>2, <3>3 DEF Opening
  <2> QED
    BY <2>3, <2>4, <2>5, <2>6 DEF SameLine
<1> QED
  BY <1>1, <1>2

LEMMA Appended ==
  ASSUME TypeOK, NEW fq, LeftOver(fq), NEW c
  PROVE  /\ Len(fq) \in Nat
         /\ Len(Append(fq, c)) = Len(fq) + 1
         /\ \A i \in 1..Len(fq) : Append(fq, c)[i] = fq[i]
         /\ Append(fq, c)[Len(fq) + 1] = c
<1> DEFINE C == Continuation
<1>1. fq \in Seq(C)
  BY Tailed DEF LeftOver, TypeOK
<1> HIDE DEF C
<1> QED
  BY <1>1

LEMMA LineGrown ==
  ASSUME TypeOK, NEW fq, LeftOver(fq), NEW u, Unnamed(u, fq), NEW c, ~Names(c, u)
  PROVE  SameLine(u, flushq, Append(fq, c))
<1> DEFINE line == Append(fq, c)
<1>1. SameLine(u, flushq, fq)
  BY LineLeft
<1>2. /\ Len(fq) \in Nat /\ Len(line) = Len(fq) + 1
      /\ \A i \in 1..Len(fq) : line[i] = fq[i]
      /\ \A i \in 1..Len(line) : Names(line[i], u) => i \in 1..Len(fq)
  BY Appended
<1> HIDE DEF line
<1>3. Quiet(fq, u) => Quiet(line, u)
  BY <1>2 DEF Quiet
<1>4. Closing(fq, u) => Closing(line, u)
  BY <1>2 DEF Closing
<1>5. Releasing(fq, u) => Releasing(line, u)
  BY <1>2 DEF Releasing
<1>6. ASSUME Opening(fq, u) PROVE Opening(line, u)
  <2>1. PICK j \in 1..Len(fq) :
          /\ fq[j] = ThenEnqueue(u)
          /\ \A i \in 1..Len(fq) :
               Names(fq[i], u) => i = j \/ (i < j /\ fq[i] = ThenRelease(u))
    BY <1>6 DEF Opening
  <2>2. j \in 1..Len(line) /\ line[j] = ThenEnqueue(u)
    BY <1>2, <2>1
  <2>3. ASSUME NEW i \in 1..Len(line), Names(line[i], u)
        PROVE  i = j \/ (i < j /\ line[i] = ThenRelease(u))
    BY <1>2, <2>1, <2>3
  <2> QED
    BY <2>2, <2>3 DEF Opening
<1> QED
  BY <1>1, <1>3, <1>4, <1>5, <1>6 DEF SameLine, line

(***************************************************************************)
(* A settled update closes a quiet line; asking for a run opens a closed   *)
(* one; and what the runner takes from the head.                           *)
(***************************************************************************)
LEMMA Distinct ==
  ASSUME NEW t, NEW u
  PROVE  /\ ThenEnqueue(t) # ThenRelease(u)
         /\ ThenEnqueue(t) = ThenEnqueue(u) => t = u
         /\ ThenRelease(t) = ThenRelease(u) => t = u
         /\ \A k \in RunKinds : \A r : ~Names([k |-> k, r |-> r], u)
         /\ ~Names([k |-> "noted", t |-> t], u)
         /\ \A c : Names(c, u) => c.k \in {"enqueue", "release"} /\ c.t = u
<1>1. ASSUME NEW c, Names(c, u)
      PROVE  c.k \in {"enqueue", "release"} /\ c.t = u
  BY <1>1 DEF Names, ThenEnqueue, ThenRelease
<1>2. \A k \in RunKinds : \A r : ~Names([k |-> k, r |-> r], u)
  BY <1>1 DEF RunKinds
<1>3. ~Names([k |-> "noted", t |-> t], u)
  BY <1>1
<1> QED
  BY <1>1, <1>2, <1>3 DEF ThenEnqueue, ThenRelease

LEMMA Closes ==
  ASSUME TypeOK, NEW fq, LeftOver(fq), NEW u, Quiet(fq, u)
  PROVE  Closing(Append(fq, ThenRelease(u)), u) /\ Releasing(Append(fq, ThenRelease(u)), u)
  BY Appended DEF Quiet, Closing, Releasing

LEMMA Opens ==
  ASSUME TypeOK, NEW u, Closing(flushq, u)
  PROVE  /\ Opening(Append(flushq, ThenEnqueue(u)), u)
         /\ Releasing(flushq, u) => Releasing(Append(flushq, ThenEnqueue(u)), u)
<1> DEFINE line == Append(flushq, ThenEnqueue(u))
           j == Len(flushq) + 1
<1>1. /\ Len(flushq) \in Nat /\ Len(line) = j
      /\ \A i \in 1..Len(flushq) : line[i] = flushq[i]
      /\ line[j] = ThenEnqueue(u)
  BY Appended DEF LeftOver
<1>2. j \in 1..Len(line) /\ \A i \in 1..Len(line) : i = j \/ (i \in 1..Len(flushq) /\ i < j)
  BY <1>1
<1> HIDE DEF line, j
<1>3. Opening(line, u)
  BY <1>1, <1>2 DEF Opening, Closing
<1>4. Releasing(flushq, u) => Releasing(line, u)
  BY <1>1, <1>2 DEF Releasing, j
<1> QED
  BY <1>3, <1>4 DEF line

LEMMA TakesEnqueue ==
  ASSUME TypeOK, NEW u, flushq # <<>>, Head(flushq) = ThenEnqueue(u), Opening(flushq, u)
  PROVE  Quiet(Tail(flushq), u) /\ ~Releasing(flushq, u)
<1>1. /\ flushq[1] = ThenEnqueue(u) /\ 1 \in 1..Len(flushq)
      /\ Len(Tail(flushq)) = Len(flushq) - 1 /\ Len(flushq) \in Nat
      /\ \A i \in 1..Len(Tail(flushq)) :
           Tail(flushq)[i] = flushq[i + 1] /\ i + 1 \in 1..Len(flushq)
  BY Tailed
<1>2. \A i \in 1..Len(flushq) : Names(flushq[i], u) => i = 1
  <2>1. PICK j \in 1..Len(flushq) :
          /\ flushq[j] = ThenEnqueue(u)
          /\ \A i \in 1..Len(flushq) :
               Names(flushq[i], u) => i = j \/ (i < j /\ flushq[i] = ThenRelease(u))
    BY DEF Opening
  <2>2. j = 1
    BY <1>1, <2>1, Distinct DEF Names
  <2> QED
    BY <2>1, <2>2
<1>3. ~Releasing(flushq, u)
  BY <1>1, <1>2, Distinct DEF Releasing, Names
<1>4. Quiet(Tail(flushq), u)
  BY <1>1, <1>2 DEF Quiet
<1> QED
  BY <1>3, <1>4

LEMMA TakesRelease ==
  ASSUME TypeOK, NEW u, flushq # <<>>, Head(flushq) = ThenRelease(u)
  PROVE  /\ ~Quiet(flushq, u)
         /\ Closing(flushq, u) => Closing(Tail(flushq), u)
         /\ Opening(flushq, u) => Opening(Tail(flushq), u)
<1> DEFINE fq == Tail(flushq)
<1>1. /\ flushq[1] = ThenRelease(u) /\ 1 \in 1..Len(flushq)
      /\ Len(fq) = Len(flushq) - 1 /\ Len(flushq) \in Nat
      /\ \A i \in 1..Len(fq) : fq[i] = flushq[i + 1] /\ i + 1 \in 1..Len(flushq)
      /\ \A i \in 1..Len(flushq) : i # 1 => i - 1 \in 1..Len(fq) /\ fq[i - 1] = flushq[i]
  BY Tailed
<1> HIDE DEF fq
<1>2. ~Quiet(flushq, u)
  BY <1>1 DEF Quiet, Names
<1>3. Closing(flushq, u) => Closing(fq, u)
  BY <1>1 DEF Closing
<1>4. ASSUME Opening(flushq, u) PROVE Opening(fq, u)
  <2>1. PICK j \in 1..Len(flushq) :
          /\ flushq[j] = ThenEnqueue(u)
          /\ \A i \in 1..Len(flushq) :
               Names(flushq[i], u) => i = j \/ (i < j /\ flushq[i] = ThenRelease(u))
    BY <1>4 DEF Opening
  <2>2. j # 1
    BY <1>1, <2>1, Distinct
  <2>3. j - 1 \in 1..Len(fq) /\ fq[j - 1] = ThenEnqueue(u)
    BY <1>1, <2>1, <2>2
  <2>4. ASSUME NEW i \in 1..Len(fq), Names(fq[i], u)
        PROVE  i = j - 1 \/ (i < j - 1 /\ fq[i] = ThenRelease(u))
    BY <1>1, <2>1, <2>4
  <2> QED
    BY <2>3, <2>4 DEF Opening
<1> QED
  BY <1>2, <1>3, <1>4 DEF fq

(***************************************************************************)
(* pump(), when no id is twice in the backlog and none in it holds a slot. *)
(***************************************************************************)
LEMMA PumpShape ==
  ASSUME TypeOK, NEW R \in SUBSET Tickets, NEW q \in Seq(Tickets), NEW rs, RunSeq(rs),
         Pump(R, q, rs)
  PROVE  \E n \in 0..Len(q), N \in Nat :
           /\ Len(queue') = Len(q) - n
           /\ \A i \in 1..Len(queue') : queue'[i] = q[n + i]
           /\ running' \subseteq R \cup {q[i] : i \in 1..n}
           /\ Cardinality(R) <= Concurrency => Cardinality(running') <= Concurrency
           /\ Len(runs') = Len(rs) + N
           /\ \E order \in [1..N -> 1..n] :
                /\ \A j, k \in 1..N : j < k => order[j] < order[k]
                /\ \A k \in 1..N : /\ runs'[Len(rs) + k].id = q[order[k]]
                                   /\ ~runs'[Len(rs) + k].armed
<1> DEFINE Startable(m) == {i \in 1..m : tickets[q[i]].state = "queued"}
           Held(m) == R \cup {q[i] : i \in Startable(m)}
<1>1. PICK n \in 0..Len(q) :
        /\ \A m \in 0..(n-1) : HasRoom(Held(m))
        /\ queue' = SubSeq(q, n + 1, Len(q))
        /\ running' = Held(n)
        /\ \E order \in [1..Cardinality(Startable(n)) -> Startable(n)] :
             /\ \A j, k \in DOMAIN order : j < k => order[j] < order[k]
             /\ runs' = rs \o [k \in DOMAIN order |->
                          NewRun(q[order[k]], "validating", Len(rs) + k, NoRun)]
  BY Zenon DEF Pump
<1>2. Len(q) \in Nat /\ n \in Nat /\ n <= Len(q) /\ \A i \in 1..Len(q) : q[i] \in Tickets
  BY ElementOfSeq
<1>3. Len(queue') = Len(q) - n /\ \A i \in 1..Len(queue') : queue'[i] = q[n + i]
  <2>1. CASE n = Len(q)
    <3>1. SubSeq(q, n + 1, Len(q)) = <<>>
      BY <1>2, <2>1, SubSeqEmpty
    <3>2. Len(queue') = 0
      BY <1>1, <3>1, EmptySeq
    <3> QED
      BY <1>2, <2>1, <3>2
  <2>2. CASE n # Len(q)
    <3>1. /\ n + 1 <= Len(q) /\ n + 1 \in Int /\ Len(q) \in Int
          /\ \A i \in (n + 1)..Len(q) : q[i] \in Tickets
      BY <1>2, <2>2
    <3>2. /\ Len(SubSeq(q, n + 1, Len(q))) = Len(q) - n
          /\ \A i \in 1..(Len(q) - n) : SubSeq(q, n + 1, Len(q))[i] = q[n + i]
      BY <1>2, <3>1, SubSeqProperties
    <3> QED
      BY <1>1, <3>2
  <2> QED
    BY <2>1, <2>2
<1>4. running' \subseteq R \cup {q[i] : i \in 1..n}
  BY <1>1
<1>5. ASSUME Cardinality(R) <= Concurrency PROVE Cardinality(running') <= Concurrency
  <2>1. CASE n = 0
    <3>1. Startable(n) = {}
      BY <2>1
    <3> QED
      BY <1>1, <1>5, <3>1
  <2>2. CASE n # 0
    <3> DEFINE m == n - 1
    <3>1. m \in 0..(n - 1) /\ m \in Nat /\ n = m + 1 /\ n \in 1..Len(q)
      BY <1>2, <2>2
    <3>2. Held(m) \subseteq Tickets /\ q[n] \in Tickets
      BY <1>2, <3>1
    <3>3. IsFiniteSet(Held(m))
      BY <3>2, TicketsAssumption, FS_Subset
    <3>4. Held(n) \subseteq Held(m) \cup {q[n]}
      BY <3>1
    <3>5. /\ IsFiniteSet(Held(m) \cup {q[n]})
          /\ Cardinality(Held(m) \cup {q[n]}) <= Cardinality(Held(m)) + 1
          /\ Cardinality(Held(m)) \in Nat
      <4> DEFINE H == Held(m)
                 x == q[n]
      <4> HIDE DEF H, x
      <4>1. IsFiniteSet(H)
        BY <3>3 DEF H
      <4>2. Cardinality(H) \in Nat
        BY <4>1, FS_CardinalityType
      <4>3. /\ IsFiniteSet(H \cup {x})
            /\ Cardinality(H \cup {x}) = IF x \in H THEN Cardinality(H) ELSE Cardinality(H) + 1
        BY <4>1, FS_AddElement
      <4>4. Cardinality(H \cup {x}) <= Cardinality(H) + 1
        BY <4>2, <4>3
      <4> QED
        BY <4>2, <4>3, <4>4 DEF H, x
    <3>6. Cardinality(Held(n)) <= Cardinality(Held(m) \cup {q[n]})
          /\ Cardinality(Held(n)) \in Nat /\ Cardinality(Held(m) \cup {q[n]}) \in Nat
      BY <3>4, <3>5, FS_Subset, FS_CardinalityType
    <3>7. Cardinality(Held(m)) < Concurrency
      BY <1>1, <3>1 DEF HasRoom
    <3> HIDE DEF Held, m
    <3> QED
      BY <1>1, <3>5, <3>6, <3>7, ConcurrencyAssumption
  <2> QED
    BY <2>1, <2>2
<1> DEFINE N == Cardinality(Startable(n))
<1>6. N \in Nat
  <2>1. IsFiniteSet(1..n) /\ Startable(n) \subseteq 1..n
    BY <1>2, FS_Interval
  <2> QED
    BY <2>1, FS_Subset, FS_CardinalityType
<1>7. PICK order \in [1..N -> Startable(n)] :
        /\ \A j, k \in DOMAIN order : j < k => order[j] < order[k]
        /\ runs' = rs \o [k \in DOMAIN order |->
                     NewRun(q[order[k]], "validating", Len(rs) + k, NoRun)]
  BY <1>1
<1> DEFINE new == [k \in 1..N |-> NewRun(q[order[k]], "validating", Len(rs) + k, NoRun)]
<1>8. rs \in Seq(RunRecord) /\ Len(rs) \in Nat
  BY DEF RunSeq
<1>9. \A k \in 1..N : new[k] \in RunRecord
  <2> TAKE k \in 1..N
  <2>1. q[order[k]] \in Tickets /\ Len(rs) + k \in Nat
    BY <1>2, <1>6, <1>7, <1>8
  <2> QED
    BY <2>1 DEF NewRun, RunRecord, Phases, Working, NoRun
<1>10. new \in Seq(RunRecord) /\ Len(new) = N
  BY <1>6, <1>9, IsASeq, LenProperties
<1>11. \A k \in 1..N : new[k].id = q[order[k]] /\ ~new[k].armed
  BY DEF NewRun
<1>12. runs' = rs \o new
  BY <1>7
<1>13. order \in [1..N -> 1..n] /\ \A j, k \in 1..N : j < k => order[j] < order[k]
  BY <1>7
<1> HIDE DEF new, N
<1>14. /\ Len(runs') = Len(rs) + N
       /\ \A i \in 1..Len(rs) + N : runs'[i] = IF i <= Len(rs) THEN rs[i] ELSE new[i - Len(rs)]
  BY <1>8, <1>10, <1>12, ConcatProperties
<1>15. \A k \in 1..N : runs'[Len(rs) + k] = new[k]
  BY <1>6, <1>8, <1>14
<1>16. \A k \in 1..N : runs'[Len(rs) + k].id = q[order[k]] /\ ~runs'[Len(rs) + k].armed
  BY <1>11, <1>15
<1> QED
  BY <1>3, <1>4, <1>5, <1>6, <1>13, <1>14, <1>16

LEMMA PumpStarts ==
  ASSUME TypeOK, NEW R \in SUBSET Tickets, NEW q \in Seq(Tickets), NEW rs, RunSeq(rs),
         Pump(R, q, rs), Once(q), \A u : Waits(q, u) => u \notin R
  PROVE  /\ Once(queue')
         /\ \A u : Waits(queue', u) => u \notin running'
         /\ \A r, s \in 1..Len(runs') :
              r > Len(rs) /\ s > Len(rs) /\ runs'[r].id = runs'[s].id => r = s
         /\ \A r \in 1..Len(runs') : r > Len(rs) => ~runs'[r].armed
         /\ Cardinality(R) <= Concurrency => Cardinality(running') <= Concurrency
<1>1. PICK n \in 0..Len(q), N \in Nat :
        /\ Len(queue') = Len(q) - n
        /\ \A i \in 1..Len(queue') : queue'[i] = q[n + i]
        /\ running' \subseteq R \cup {q[i] : i \in 1..n}
        /\ Cardinality(R) <= Concurrency => Cardinality(running') <= Concurrency
        /\ Len(runs') = Len(rs) + N
        /\ \E order \in [1..N -> 1..n] :
             /\ \A j, k \in 1..N : j < k => order[j] < order[k]
             /\ \A k \in 1..N : /\ runs'[Len(rs) + k].id = q[order[k]]
                                /\ ~runs'[Len(rs) + k].armed
  BY PumpShape
<1>2. Len(q) \in Nat /\ n \in Nat /\ n <= Len(q) /\ Len(rs) \in Nat
  BY DEF RunSeq
<1>3. PICK order \in [1..N -> 1..n] :
        /\ \A j, k \in 1..N : j < k => order[j] < order[k]
        /\ \A k \in 1..N : /\ runs'[Len(rs) + k].id = q[order[k]]
                           /\ ~runs'[Len(rs) + k].armed
  BY <1>1
<1>4. \A i \in 1..Len(queue') : n + i \in 1..Len(q) /\ queue'[i] = q[n + i]
  BY <1>1, <1>2
<1>5. Once(queue')
  <2> SUFFICES ASSUME NEW i \in 1..Len(queue'), NEW j \in 1..Len(queue'), queue'[i] = queue'[j]
               PROVE  i = j
    BY DEF Once
  <2>1. n + i = n + j
    BY <1>4 DEF Once
  <2>2. i \in Int /\ j \in Int
    OBVIOUS
  <2> QED
    BY <1>2, <2>1, <2>2
<1>6. ASSUME NEW u, Waits(queue', u) PROVE u \notin running'
  <2>1. PICK i \in 1..Len(queue') : queue'[i] = u
    BY <1>6 DEF Waits
  <2>2. n + i \in 1..Len(q) /\ q[n + i] = u /\ n + i > n
    BY <1>2, <1>4, <2>1
  <2>3. u \notin R
    BY <2>2 DEF Waits
  <2>4. \A m \in 1..n : m \in 1..Len(q) /\ m # n + i
    BY <1>2, <2>2
  <2>5. u \notin {q[m] : m \in 1..n}
    BY <2>2, <2>4 DEF Once
  <2> QED
    BY <1>1, <2>3, <2>5
<1>7. \A r \in 1..Len(runs') : r > Len(rs) => r - Len(rs) \in 1..N /\ Len(rs) + (r - Len(rs)) = r
  BY <1>1, <1>2
<1>8. ASSUME NEW r \in 1..Len(runs'), NEW s \in 1..Len(runs'),
             r > Len(rs), s > Len(rs), runs'[r].id = runs'[s].id
      PROVE  r = s
  <2> DEFINE j == r - Len(rs)
             k == s - Len(rs)
  <2>1. j \in 1..N /\ k \in 1..N /\ r = Len(rs) + j /\ s = Len(rs) + k
    BY <1>7, <1>8
  <2>2. q[order[j]] = q[order[k]]
    BY <1>3, <1>8, <2>1
  <2>3. order[j] \in 1..Len(q) /\ order[k] \in 1..Len(q)
    BY <1>2, <1>3, <2>1
  <2>4. order[j] = order[k]
    BY <2>2, <2>3 DEF Once
  <2> HIDE DEF j, k
  <2>5. ~(j < k) /\ ~(k < j)
    BY <1>3, <2>1, <2>3, <2>4
  <2> QED
    BY <2>1, <2>5
<1>9. \A r \in 1..Len(runs') : r > Len(rs) => ~runs'[r].armed
  BY <1>3, <1>7
<1> QED
  BY <1>1, <1>5, <1>6, <1>8, <1>9

(***************************************************************************)
(* A ticket that a step does not concern keeps its situation.              *)
(***************************************************************************)
OwnRuns(u, rs, new) ==
  /\ Len(rs) \in Nat /\ Len(new) \in Nat /\ Len(rs) <= Len(new)
  /\ \A s \in 1..Len(rs) : rs[s].id = u => new[s].id = u /\ new[s].pc = rs[s].pc
  /\ \A s \in 1..Len(new) : new[s].id = u => s \in 1..Len(rs) /\ rs[s].id = u

LEMMA SameSit ==
  ASSUME NEW u, NEW s, NEW R, NEW q, NEW rs, NEW line, Sit(u, s, R, q, rs, line),
         NEW R2, NEW q2, NEW rs2, NEW line2,
         u \in R2 <=> u \in R, Waits(q2, u) <=> Waits(q, u),
         OwnRuns(u, rs, rs2), SameLine(u, line, line2)
  PROVE  Sit(u, s, R2, q2, rs2, line2)
<1>1. Finished(u, rs) => Finished(u, rs2)
  BY DEF Finished, OwnRuns
<1>2. Resting(u, s, R, q, rs, line) => Resting(u, s, R2, q2, rs2, line2)
  BY <1>1 DEF Resting, SameLine
<1>3. Settled(u, s, R, q, rs, line) => Settled(u, s, R2, q2, rs2, line2)
  BY <1>1 DEF Settled, SameLine
<1>4. AskedFor(u, s, R, q, rs, line) => AskedFor(u, s, R2, q2, rs2, line2)
  BY <1>1 DEF AskedFor, SameLine
<1>5. InBacklog(u, s, R, q, rs, line) => InBacklog(u, s, R2, q2, rs2, line2)
  BY <1>1 DEF InBacklog, SameLine
<1>6. ASSUME NEW r \in 1..Len(rs), Works(u, r, s, R, rs)
      PROVE  r \in 1..Len(rs2) /\ Works(u, r, s, R2, rs2)
  <2>1. Sole(u, r, rs2) /\ rs2[r].pc = rs[r].pc
    BY <1>6 DEF Works, Sole, OwnRuns
  <2> QED
    BY <1>6, <2>1 DEF Works, Sole
<1>7. AtWork(u, s, R, q, rs, line) => AtWork(u, s, R2, q2, rs2, line2)
  BY <1>6 DEF AtWork, SameLine
<1> QED
  BY <1>2, <1>3, <1>4, <1>5, <1>7 DEF Sit

(***************************************************************************)
(* What a handler leaves when it comes to pump(), or to its end: the calm  *)
(* situations, with the slots, the backlog and the runs it has made.       *)
(***************************************************************************)
Ready(R, q, rs) ==
  /\ R \in SUBSET Tickets /\ q \in Seq(Tickets) /\ RunSeq(rs)
  /\ Once(q)
  /\ \A u \in Tickets : Sit(u, tickets'[u].state, R, q, rs, flushq')
  /\ \A r \in 1..Len(rs) : rs[r].pc = "live" => handles'[rs[r].id] = r
  /\ \A r \in 1..Len(rs) : ~rs[r].armed
  /\ \A t \in Tickets : timers'[t] = NoRun
  /\ Within(R)

Served(R, q, rs) ==
  \/ running' = R /\ queue' = q /\ runs' = rs
  \/ Pump(R, q, rs) /\ \A u \in Tickets : tickets'[u].state = tickets[u].state

LEMMA WaitingIsSlotless ==
  ASSUME NEW R, NEW q \in Seq(Tickets), NEW rs, NEW line,
         \A u \in Tickets : Sit(u, tickets'[u].state, R, q, rs, line),
         NEW u, Waits(q, u)
  PROVE  u \in Tickets /\ InBacklog(u, tickets'[u].state, R, q, rs, line)
<1>1. u \in Tickets
  BY ElementOfSeq DEF Waits
<1> QED
  BY <1>1 DEF Sit, Resting, Settled, AskedFor, AtWork

LEMMA PumpSit ==
  ASSUME TypeOK, NEW R, NEW q, NEW rs, Ready(R, q, rs), Pump(R, q, rs),
         NEW u \in Tickets, tickets'[u].state = tickets[u].state
  PROVE  Sit(u, tickets'[u].state, running', queue', runs', flushq')
<1> DEFINE s == tickets'[u].state
<1>1. /\ R \in SUBSET Tickets /\ q \in Seq(Tickets) /\ RunSeq(rs) /\ Once(q)
      /\ Sit(u, s, R, q, rs, flushq')
      /\ \A v : Waits(q, v) => v \notin R
  BY WaitingIsSlotless DEF Ready, InBacklog
<1>2. Pumped(R, q, rs)
  BY <1>1, PumpType
<1>3. /\ \A v : Waits(queue', v) => v \notin running'
      /\ \A r, t \in 1..Len(runs') :
           r > Len(rs) /\ t > Len(rs) /\ runs'[r].id = runs'[t].id => r = t
  BY <1>1, PumpStarts
<1>4. /\ Len(rs) \in Nat /\ Len(runs') \in Nat /\ Len(rs) <= Len(runs')
      /\ \A r \in 1..Len(rs) : r \in 1..Len(runs') /\ runs'[r] = rs[r]
      /\ \A r \in 1..Len(runs') : r > Len(rs) \/ r \in 1..Len(rs)
  BY <1>1, <1>2 DEF Pumped, RunSeq
<1>5. \A r \in 1..Len(runs') : r > Len(rs) =>
        runs'[r].pc = "validating" /\ runs'[r].id \in running' /\ Waits(q, runs'[r].id)
  BY <1>2, <1>4 DEF Pumped
<1>6. CASE ~Waits(q, u)
  <2>1. OwnRuns(u, rs, runs')
    BY <1>4, <1>5, <1>6 DEF OwnRuns
  <2>2. u \in running' <=> u \in R
    BY <1>2, <1>6 DEF Pumped
  <2>3. ~Waits(queue', u)
    BY <1>2, <1>6 DEF Pumped
  <2>4. SameLine(u, flushq', flushq')
    BY DEF SameLine
  <2> HIDE DEF s
  <2>5. Sit(u, s, running', queue', runs', flushq')
    BY <1>1, <1>6, <2>1, <2>2, <2>3, <2>4, SameSit
  <2> QED
    BY <2>5 DEF s
<1>7. CASE Waits(q, u)
  <2>1. s = "queued" /\ Finished(u, rs) /\ Quiet(flushq', u) /\ tickets[u].state = "queued"
    <3>1. InBacklog(u, s, R, q, rs, flushq')
      BY <1>1, <1>7 DEF Sit, Resting, Settled, AskedFor, AtWork
    <3> QED
      BY <3>1 DEF InBacklog
  <2>2. CASE Waits(queue', u)
    <3>1. u \notin running'
      BY <1>3, <2>2
    <3>2. Finished(u, runs')
      BY <1>4, <1>5, <2>1, <3>1 DEF Finished
    <3> QED
      BY <2>1, <2>2, <3>1, <3>2 DEF Sit, InBacklog
  <2>3. CASE ~Waits(queue', u)
    <3>1. PICK r \in 1..Len(runs') : runs'[r].id = u /\ runs'[r].pc = "validating"
      BY <1>2, <1>7, <2>1, <2>3 DEF Pumped
    <3>2. r > Len(rs)
      BY <1>4, <2>1, <3>1 DEF Finished
    <3>3. u \in running'
      BY <1>5, <3>1, <3>2
    <3>4. Sole(u, r, runs')
      BY <1>3, <1>4, <2>1, <3>1, <3>2 DEF Sole, Finished
    <3>5. Works(u, r, s, running', runs')
      BY <2>1, <3>1, <3>3, <3>4 DEF Works, Shown, Working
    <3> QED
      BY <2>1, <2>3, <3>5 DEF Sit, AtWork
  <2> QED
    BY <2>2, <2>3
<1> QED
  BY <1>6, <1>7

LEMMA ServedCalm ==
  ASSUME TypeOK, NEW R, NEW q, NEW rs, Ready(R, q, rs), Served(R, q, rs)
  PROVE  Calm'
<1>1. CASE running' = R /\ queue' = q /\ runs' = rs
  BY <1>1 DEF Ready, Calm, AgentsAreReachable, Runs
<1>2. CASE Pump(R, q, rs) /\ \A u \in Tickets : tickets'[u].state = tickets[u].state
  <2>1. /\ R \in SUBSET Tickets /\ q \in Seq(Tickets) /\ RunSeq(rs) /\ Once(q)
        /\ \A v : Waits(q, v) => v \notin R
    BY WaitingIsSlotless DEF Ready, InBacklog
  <2>2. /\ Once(queue')
        /\ \A r \in 1..Len(runs') : r > Len(rs) => ~runs'[r].armed
        /\ Cardinality(R) <= Concurrency => Cardinality(running') <= Concurrency
    BY <1>2, <2>1, PumpStarts
  <2>3. Pumped(R, q, rs)
    BY <1>2, <2>1, PumpType
  <2>4. /\ Len(rs) \in Nat /\ Len(runs') \in Nat
        /\ \A r \in 1..Len(runs') : r > Len(rs) \/ (r \in 1..Len(rs) /\ runs'[r] = rs[r])
        /\ \A r \in 1..Len(runs') : r > Len(rs) => runs'[r].pc = "validating"
    BY <2>1, <2>3 DEF Pumped, RunSeq
  <2>5. \A r \in 1..Len(runs') : ~runs'[r].armed
    BY <2>2, <2>4 DEF Ready
  <2>6. \A r \in 1..Len(runs') : runs'[r].pc = "live" => handles'[runs'[r].id] = r
    BY <2>4 DEF Ready
  <2>7. \A u \in Tickets : Sit(u, tickets'[u].state, running', queue', runs', flushq')
    BY <1>2, PumpSit
  <2>8. Within(running') /\ \A t \in Tickets : timers'[t] = NoRun
    BY <2>2 DEF Ready, Within
  <2> QED
    BY <2>2, <2>5, <2>6, <2>7, <2>8 DEF Calm, AgentsAreReachable, Runs
<1> QED
  BY <1>1, <1>2 DEF Served

(***************************************************************************)
(* The run at work: it is the only one of its ticket, so that moving it is *)
(* all that happens to its ticket, and nothing to the others.              *)
(***************************************************************************)
Alone(rs, r, p) ==
  /\ RunSeq(rs) /\ Len(rs) = Len(runs)
  /\ \A s \in Runs : /\ rs[s].id = runs[s].id /\ ~rs[s].armed
                     /\ s # r => rs[s].pc = runs[s].pc
  /\ rs[r].pc = p

\* The other tickets, their slots and agents are left alone.
Beyond(t, R) ==
  /\ \A u \in Tickets \ {t} :
       /\ u \in R <=> u \in running
       /\ tickets'[u].state = tickets[u].state
       /\ handles'[u] = handles[u]
       /\ SameLine(u, flushq, flushq')
  /\ \A u \in Tickets : timers'[u] = NoRun
  /\ R \in SUBSET Tickets /\ Within(R)

LEMMA AlonePhase ==
  ASSUME TypeOK, Calm, NEW r \in Runs, NEW p \in Phases
  PROVE  Alone(Phase(r, p), r, p)
<1>1. RunSeq(Phase(r, p)) /\ Len(Phase(r, p)) = Len(runs) /\ Phase(r, p)[r].pc = p
  BY SetPhase, MovesPhase
<1>2. \A s \in Runs : /\ Phase(r, p)[s].id = runs[s].id
                      /\ Phase(r, p)[s].armed = runs[s].armed
                      /\ s # r => Phase(r, p)[s].pc = runs[s].pc
  BY RunType DEF Phase, RunRecord, TypeOK, Runs
<1> QED
  BY <1>1, <1>2 DEF Alone, Calm

LEMMA NothingToDisarm ==
  ASSUME Calm, NEW t \in Tickets, NEW rs
  PROVE  Disarmed(t, rs) = rs
  BY DEF Calm, Disarmed

LEMMA WorkerSits ==
  ASSUME TypeOK, Calm, NEW r \in Runs, runs[r].pc # "over"
  PROVE  /\ runs[r].id \in Tickets
         /\ Works(runs[r].id, r, tickets[runs[r].id].state, running, runs)
         /\ ~Waits(queue, runs[r].id) /\ Quiet(flushq, runs[r].id)
<1> DEFINE t == runs[r].id
           s == tickets[t].state
<1>1. t \in Tickets /\ r \in 1..Len(runs)
  BY RunType DEF Runs
<1>2. ~Finished(t, runs)
  BY <1>1 DEF Finished
<1>3. AtWork(t, s, running, queue, runs, flushq)
  BY <1>1, <1>2 DEF Calm, Sit, Resting, Settled, AskedFor, InBacklog
<1>4. PICK q \in 1..Len(runs) : Works(t, q, s, running, runs)
  BY <1>3 DEF AtWork
<1>5. q = r
  BY <1>1, <1>4 DEF Works, Sole
<1> QED
  BY <1>1, <1>3, <1>4, <1>5 DEF AtWork

LEMMA OthersSit ==
  ASSUME TypeOK, Calm, NEW r \in Runs, NEW rs, NEW p, Alone(rs, r, p),
         NEW R, Beyond(runs[r].id, R), NEW u \in Tickets \ {runs[r].id}
  PROVE  Sit(u, tickets'[u].state, R, queue, rs, flushq')
<1>1. Sit(u, tickets[u].state, running, queue, runs, flushq)
  BY DEF Calm
<1>2. OwnRuns(u, runs, rs)
  BY DEF Alone, OwnRuns, Runs, TypeOK
<1>3. /\ u \in R <=> u \in running
      /\ SameLine(u, flushq, flushq') /\ tickets'[u].state = tickets[u].state
  BY DEF Beyond
<1> QED
  BY <1>1, <1>2, <1>3, SameSit

LEMMA MoveReady ==
  ASSUME TypeOK, Calm, NEW r \in Runs, runs[r].pc # "over",
         NEW rs, NEW p, Alone(rs, r, p), p = "live" => handles'[runs[r].id] = r,
         NEW R, Beyond(runs[r].id, R),
         Sit(runs[r].id, tickets'[runs[r].id].state, R, queue, rs, flushq')
  PROVE  Ready(R, queue, rs)
<1> DEFINE t == runs[r].id
<1>1. t \in Tickets /\ \A s \in Runs : runs[s].id = t /\ s # r => runs[s].pc = "over"
  BY WorkerSits DEF Works, Sole, Runs
<1>2. \A s \in 1..Len(rs) : s \in Runs /\ rs[s].id = runs[s].id /\ ~rs[s].armed
  BY DEF Alone, Runs
<1>3. ASSUME NEW s \in 1..Len(rs), rs[s].pc = "live" PROVE handles'[rs[s].id] = s
  <2>1. CASE s = r
    BY <1>2, <1>3, <2>1 DEF Alone
  <2>2. CASE s # r
    <3>1. s \in Runs /\ runs[s].pc = "live" /\ rs[s].id = runs[s].id
      BY <1>2, <1>3, <2>2 DEF Alone
    <3>2. runs[s].id \in Tickets \ {t}
      BY <1>1, <2>2, <3>1, RunType
    <3>3. handles'[runs[s].id] = handles[runs[s].id]
      BY <3>2 DEF Beyond
    <3>4. handles[runs[s].id] = s
      BY <3>1 DEF Calm, AgentsAreReachable
    <3> QED
      BY <3>1, <3>3, <3>4
  <2> QED
    BY <2>1, <2>2
<1>4. \A u \in Tickets : Sit(u, tickets'[u].state, R, queue, rs, flushq')
  BY <1>1, OthersSit
<1>5. queue \in Seq(Tickets) /\ Once(queue) /\ RunSeq(rs)
  BY DEF TypeOK, Calm, Alone
<1> QED
  BY <1>2, <1>3, <1>4, <1>5 DEF Ready, Beyond

\* The run goes on: its ticket shows what its new phase shows.
LEMMA OnwardReady ==
  ASSUME TypeOK, Calm, NEW r \in Runs, runs[r].pc # "over",
         NEW rs, NEW p, Alone(rs, r, p), p = "live" => handles'[runs[r].id] = r,
         NEW R, Beyond(runs[r].id, R),
         p \notin {"over", "killed"}, tickets'[runs[r].id].state = Shown(p),
         runs[r].id \in R <=> p \in Working, p \in {"consulting", "advising"} => Advisors,
         SameLine(runs[r].id, flushq, flushq')
  PROVE  Ready(R, queue, rs)
<1> DEFINE t == runs[r].id
<1>1. ~Waits(queue, t) /\ Quiet(flushq', t)
  BY WorkerSits DEF SameLine
<1>2. Sole(t, r, runs)
  BY WorkerSits DEF Works
<1>3. Sole(t, r, rs) /\ r \in 1..Len(rs)
  BY <1>2 DEF Sole, Alone, Runs
<1>4. Works(t, r, tickets'[t].state, R, rs)
  BY <1>3 DEF Works, Alone
<1>5. Sit(t, tickets'[t].state, R, queue, rs, flushq')
  BY <1>1, <1>3, <1>4 DEF Sit, AtWork
<1> QED
  BY <1>5, MoveReady

\* The run is over: its ticket is settled, or parked without a slot.
LEMMA EndReady ==
  ASSUME TypeOK, Calm, NEW r \in Runs, runs[r].pc # "over",
         NEW rs, Alone(rs, r, "over"), NEW R, Beyond(runs[r].id, R),
         \/ /\ tickets'[runs[r].id].state \in Terminal
            /\ Closing(flushq', runs[r].id) /\ Releasing(flushq', runs[r].id)
         \/ /\ tickets'[runs[r].id].state = "decision" /\ runs[r].id \notin R
            /\ SameLine(runs[r].id, flushq, flushq')
  PROVE  Ready(R, queue, rs)
<1> DEFINE t == runs[r].id
<1>1. ~Waits(queue, t) /\ Quiet(flushq, t)
  BY WorkerSits
<1>2. Sole(t, r, runs)
  BY WorkerSits DEF Works
<1>3. Finished(t, rs)
  BY <1>2 DEF Sole, Finished, Alone, Runs
<1>4. CASE /\ tickets'[t].state \in Terminal
           /\ Closing(flushq', t) /\ Releasing(flushq', t)
  <2>1. Settled(t, tickets'[t].state, R, queue, rs, flushq')
    BY <1>1, <1>3, <1>4 DEF Settled
  <2>2. Sit(t, tickets'[t].state, R, queue, rs, flushq')
    BY <2>1 DEF Sit
  <2> QED
    BY <2>2, MoveReady
<1>5. CASE tickets'[t].state = "decision" /\ t \notin R /\ SameLine(t, flushq, flushq')
  <2>1. Resting(t, tickets'[t].state, R, queue, rs, flushq')
    BY <1>1, <1>3, <1>5 DEF Resting, SameLine
  <2>2. Sit(t, tickets'[t].state, R, queue, rs, flushq')
    BY <2>1 DEF Sit
  <2> QED
    BY <2>2, MoveReady
<1> QED
  BY <1>4, <1>5

(***************************************************************************)
(* What the handlers do to the line, to the records and to the timers.     *)
(***************************************************************************)
Naming == {"enqueue", "release"}

Passes(fq) == LeftOver(fq) /\ (fq # flushq => Head(flushq).k \notin Naming)

Wrote(t, state) ==
  /\ tickets'[t].state = state
  /\ \A u \in Tickets \ {t} : tickets'[u].state = tickets[u].state

LEMMA LinePasses ==
  ASSUME TypeOK, NEW fq, Passes(fq),
         flushq' = fq \/ \E c : flushq' = Append(fq, c) /\ c.k \notin Naming
  PROVE  \A u : SameLine(u, flushq, flushq')
<1> SUFFICES ASSUME NEW u PROVE SameLine(u, flushq, flushq')
  OBVIOUS
<1>1. LeftOver(fq) /\ Unnamed(u, fq)
  BY Distinct DEF Passes, Unnamed, Naming
<1>2. CASE flushq' = fq
  BY <1>1, <1>2, LineLeft
<1>3. CASE \E c : flushq' = Append(fq, c) /\ c.k \notin Naming
  <2>1. PICK c : flushq' = Append(fq, c) /\ c.k \notin Naming
    BY <1>3
  <2>2. ~Names(c, u)
    BY <2>1, Distinct DEF Naming
  <2> QED
    BY <1>1, <2>1, <2>2, LineGrown
<1> QED
  BY <1>2, <1>3

LEMMA LineCloses ==
  ASSUME TypeOK, NEW fq, Passes(fq), NEW t, flushq' = Append(fq, ThenRelease(t))
  PROVE  /\ \A u : u # t => SameLine(u, flushq, flushq')
         /\ Quiet(flushq, t) => Closing(flushq', t) /\ Releasing(flushq', t)
<1>1. \A u : LeftOver(fq) /\ Unnamed(u, fq)
  BY Distinct DEF Passes, Unnamed, Naming
<1>2. ASSUME NEW u, u # t PROVE SameLine(u, flushq, flushq')
  <2>1. ~Names(ThenRelease(t), u)
    BY <1>2, Distinct DEF Names
  <2> QED
    BY <1>1, <2>1, LineGrown
<1>3. Quiet(flushq, t) => Quiet(fq, t)
  BY <1>1, LineLeft DEF SameLine
<1> QED
  BY <1>1, <1>2, <1>3, Closes

LEMMA TimersOff ==
  ASSUME TypeOK, Calm, NEW t \in Tickets, timers' = timers \/ timers' = Unregistered(t)
  PROVE  \A u \in Tickets : timers'[u] = NoRun
  BY DEF Calm, Unregistered, TypeOK

LEMMA StoreWrites ==
  ASSUME TypeOK, NEW t \in Tickets, NEW rec, NEW fq, NEW c, Store(t, rec, fq, c)
  PROVE  Wrote(t, rec.state) /\ flushq' = Append(fq, c)
  BY OneWritten DEF Wrote, Store

LEMMA SlotsWithin ==
  ASSUME TypeOK, Calm, NEW t
  PROVE  /\ running \in SUBSET Tickets /\ Within(running)
         /\ running \ {t} \in SUBSET Tickets /\ Within(running \ {t})
<1>1. IsFiniteSet(running)
  BY TicketsAssumption, FS_Subset DEF TypeOK
<1>2. Cardinality(running \ {t}) <= Cardinality(running)
      /\ Cardinality(running) \in Nat /\ Cardinality(running \ {t}) \in Nat
  BY <1>1, FS_Subset, FS_CardinalityType
<1> QED
  BY <1>2, ConcurrencyAssumption DEF Calm, Within, TypeOK

LEMMA GoesOn ==
  ASSUME TypeOK, Calm, NEW r \in Runs, runs[r].pc # "over",
         NEW p, Alone(runs', r, p), p \notin {"over", "killed"},
         running' = running, queue' = queue, \A u : SameLine(u, flushq, flushq'),
         Wrote(runs[r].id, Shown(p)), \A u \in Tickets : timers'[u] = NoRun,
         \A u \in Tickets \ {runs[r].id} : handles'[u] = handles[u],
         p = "live" => handles'[runs[r].id] = r,
         runs[r].pc \in Working <=> p \in Working, p \in {"consulting", "advising"} => Advisors
  PROVE  Calm'
<1>1. Beyond(runs[r].id, running)
  BY SlotsWithin DEF Beyond, Wrote
<1>2. runs[r].id \in running <=> p \in Working
  BY WorkerSits DEF Works
<1>3. Ready(running, queue, runs')
  BY <1>1, <1>2, OnwardReady DEF Wrote
<1> QED
  BY <1>3, ServedCalm DEF Served

LEMMA Ends ==
  ASSUME TypeOK, Calm, NEW r \in Runs, runs[r].pc # "over", Alone(runs', r, "over"),
         running' = running, queue' = queue, NEW fq, Passes(fq),
         flushq' = Append(fq, ThenRelease(runs[r].id)),
         NEW state \in Terminal, Wrote(runs[r].id, state),
         \A u \in Tickets : timers'[u] = NoRun, handles' = handles
  PROVE  Calm'
<1> DEFINE t == runs[r].id
<1>1. Quiet(flushq, t)
  BY WorkerSits
<1>2. /\ \A u : u # t => SameLine(u, flushq, flushq')
      /\ Closing(flushq', t) /\ Releasing(flushq', t)
  BY <1>1, LineCloses
<1>3. Beyond(t, running)
  BY <1>2, SlotsWithin DEF Beyond, Wrote
<1>4. Ready(running, queue, runs')
  BY <1>2, <1>3, EndReady DEF Wrote
<1> QED
  BY <1>4, ServedCalm DEF Served

LEMMA SettleCalm ==
  ASSUME TypeOK, Calm, NEW r \in Runs, runs[r].pc # "over", NEW fq, Passes(fq),
         NEW state \in Terminal, Settle(runs[r].id, state, Phase(r, "over"), fq)
  PROVE  Calm'
<1> DEFINE t == runs[r].id
           rec == [tickets[t] EXCEPT !.state = state]
<1>1. t \in Tickets /\ tickets[t].state = Shown(runs[r].pc)
  BY WorkerSits DEF Works
<1>2. Exists(t)
  BY <1>1 DEF Exists, Shown, Absent
<1>3. /\ Store(t, rec, fq, ThenRelease(t)) /\ runs' = Phase(r, "over")
      /\ running' = running /\ queue' = queue /\ handles' = handles /\ timers' = timers
  BY <1>2 DEF Settle
<1>4. rec.state = state
  BY <1>1 DEF TypeOK, TicketRecord
<1>5. Wrote(t, state) /\ flushq' = Append(fq, ThenRelease(t))
  BY <1>1, <1>3, <1>4, StoreWrites
<1>6. Alone(runs', r, "over")
  BY <1>3, AlonePhase DEF Phases
<1>7. \A u \in Tickets : timers'[u] = NoRun
  BY <1>1, <1>3, TimersOff
<1> QED
  BY <1>3, <1>5, <1>6, <1>7, Ends

(***************************************************************************)
(* Steps that move no run: they concern a ticket with no run at work.      *)
(***************************************************************************)
LEMMA FinishedReady ==
  ASSUME TypeOK, Calm, NEW t \in Tickets, Finished(t, runs), NEW R, Beyond(t, R),
         NEW q \in Seq(Tickets), Once(q), \A u : u # t => (Waits(q, u) <=> Waits(queue, u)),
         Sit(t, tickets'[t].state, R, q, runs, flushq')
  PROVE  Ready(R, q, runs)
<1>1. ASSUME NEW u \in Tickets \ {t} PROVE Sit(u, tickets'[u].state, R, q, runs, flushq')
  <2>1. Sit(u, tickets[u].state, running, queue, runs, flushq)
    BY DEF Calm
  <2>2. OwnRuns(u, runs, runs)
    BY DEF OwnRuns, TypeOK
  <2>3. /\ u \in R <=> u \in running
        /\ SameLine(u, flushq, flushq') /\ tickets'[u].state = tickets[u].state
        /\ Waits(q, u) <=> Waits(queue, u)
    BY DEF Beyond
  <2> QED
    BY <2>1, <2>2, <2>3, SameSit
<1>2. ASSUME NEW r \in 1..Len(runs), runs[r].pc = "live" PROVE handles'[runs[r].id] = r
  <2>1. r \in Runs /\ handles[runs[r].id] = r
    BY <1>2 DEF Calm, AgentsAreReachable, Runs
  <2>2. runs[r].id \in Tickets \ {t}
    BY <1>2, <2>1, RunType DEF Finished
  <2> QED
    BY <2>1, <2>2 DEF Beyond
<1>3. RunSeq(runs) /\ \A r \in 1..Len(runs) : ~runs[r].armed
  BY SameRuns DEF Calm, Runs
<1> QED
  BY <1>1, <1>2, <1>3 DEF Ready, Beyond

LEMMA AskCalm ==
  ASSUME TypeOK, Calm, NEW t \in Tickets, tickets[t].state \in {"unborn", "failed"},
         NEW rec, rec.state = "queued", Store(t, rec, flushq, ThenEnqueue(t)),
         UNCHANGED <<running, queue, handles, timers, runs>>
  PROVE  Calm'
<1>1. Wrote(t, "queued") /\ flushq' = Append(flushq, ThenEnqueue(t))
  BY StoreWrites
<1>2. \A p : Shown(p) \notin {"unborn", "failed"}
  BY DEF Shown
<1>3. /\ Finished(t, runs) /\ ~Waits(queue, t) /\ Closing(flushq, t)
      /\ t \in running => Releasing(flushq, t)
  <2>1. Sit(t, tickets[t].state, running, queue, runs, flushq)
    BY DEF Calm
  <2>2. ~AtWork(t, tickets[t].state, running, queue, runs, flushq)
    BY <1>2 DEF AtWork, Works
  <2>3. \/ Resting(t, tickets[t].state, running, queue, runs, flushq)
        \/ Settled(t, tickets[t].state, running, queue, runs, flushq)
    BY <2>1, <2>2 DEF Sit, AskedFor, InBacklog
  <2> QED
    BY <2>3 DEF Resting, Settled, Quiet, Closing
<1>4. Opening(flushq', t) /\ (Releasing(flushq, t) => Releasing(flushq', t))
  BY <1>1, <1>3, Opens
<1>5. \A u : u # t => SameLine(u, flushq, flushq')
  <2> SUFFICES ASSUME NEW u, u # t PROVE SameLine(u, flushq, flushq')
    OBVIOUS
  <2>1. ~Names(ThenEnqueue(t), u)
    BY Distinct DEF Names
  <2>2. LeftOver(flushq) /\ Unnamed(u, flushq)
    BY DEF LeftOver, Unnamed
  <2> QED
    BY <1>1, <2>1, <2>2, LineGrown
<1>6. \A u \in Tickets : timers'[u] = NoRun
  BY TimersOff
<1>7. Beyond(t, running)
  BY <1>1, <1>5, <1>6, SlotsWithin DEF Beyond, Wrote
<1>8. AskedFor(t, tickets'[t].state, running, queue, runs, flushq')
  BY <1>1, <1>3, <1>4 DEF AskedFor, Wrote
<1>9. queue \in Seq(Tickets) /\ Once(queue)
  BY DEF TypeOK, Calm
<1>10. Ready(running, queue, runs)
  BY <1>3, <1>7, <1>8, <1>9, FinishedReady DEF Sit
<1> QED
  BY <1>10, ServedCalm DEF Served

(***************************************************************************)
(* The steps, one by one.                                                  *)
(***************************************************************************)
LEMMA UserCalm ==
  ASSUME TypeOK, Calm, Operations \subseteq {"retry"}, NEW t \in Tickets,
         Create(t) \/ Retry(t) \/ Reply(t) \/ Cancel(t) \/ Remove(t)
  PROVE  Calm'
<1>1. tickets[t] \in TicketRecord
  BY DEF TypeOK
<1>2. CASE Create(t)
  <2> DEFINE rec == [tickets[t] EXCEPT !.state = "queued"]
  <2>1. rec.state = "queued"
    BY <1>1 DEF TicketRecord
  <2>2. /\ Store(t, rec, flushq, ThenEnqueue(t)) /\ tickets[t].state = "unborn"
        /\ UNCHANGED <<running, queue, handles, timers, runs>>
    BY <1>2 DEF Create
  <2> QED
    BY <2>1, <2>2, AskCalm
<1>3. CASE Retry(t)
  <2>1. Requeued(tickets[t]).state = "queued"
    BY <1>1 DEF TicketRecord, Requeued
  <2>2. /\ Store(t, Requeued(tickets[t]), flushq, ThenEnqueue(t))
        /\ tickets[t].state = "failed"
        /\ UNCHANGED <<running, queue, handles, timers, runs>>
    BY <1>3 DEF Retry
  <2> QED
    BY <2>1, <2>2, AskCalm
<1>4. CASE Reply(t) \/ Cancel(t) \/ Remove(t)
  BY <1>4 DEF Reply, Cancel, Remove
<1> QED
  BY <1>2, <1>3, <1>4

\* A run in phase p: what its ticket shows, and whether it holds a slot.
LEMMA WorkerShows ==
  ASSUME TypeOK, Calm, NEW r \in Runs, runs[r].pc # "over"
  PROVE  /\ runs[r].id \in Tickets /\ tickets[runs[r].id] \in TicketRecord
         /\ runs[r].pc # "killed"
         /\ tickets[runs[r].id].state = Shown(runs[r].pc)
         /\ runs[r].pc \in {"consulting", "advising"} => Advisors
         /\ Passes(flushq)
  BY WorkerSits DEF Works, TypeOK, Passes, LeftOver

LEMMA AgentCalm ==
  ASSUME TypeOK, Calm, NEW r \in Runs,
         \/ Announce(r) \/ AgentFails(r) \/ AgentAsks(r) \/ AgentReports(r) \/ AgentEndsLate(r)
  PROVE  Calm'
<1> DEFINE t == runs[r].id
<1>1. runs[r].pc \in Alive
  BY DEF Announce, AgentFails, AgentAsks, AgentReports, AgentEndsLate
<1>2. runs[r].pc # "over"
  BY <1>1 DEF Alive
<1>3. /\ t \in Tickets /\ tickets[t] \in TicketRecord /\ runs[r].pc = "live"
      /\ tickets[t].state = "running" /\ Passes(flushq)
  BY <1>1, <1>2, WorkerShows DEF Alive, Shown
<1>4. \A p : Disarmed(t, Phase(r, p)) = Phase(r, p)
  BY <1>3, NothingToDisarm
<1>5. CASE Announce(r)
  <2> DEFINE rec == [tickets[t] EXCEPT !.session = runs[r].thread]
  <2>1. /\ runs' = [runs EXCEPT ![r].told = TRUE]
        /\ Store(t, rec, flushq, [k |-> "noted", t |-> t])
        /\ UNCHANGED <<running, queue, handles, timers>>
    BY <1>5 DEF Announce
  <2>2. rec.state = Shown("live")
    BY <1>3 DEF TicketRecord, Shown
  <2> HIDE DEF rec
  <2>3. Wrote(t, Shown("live")) /\ flushq' = Append(flushq, [k |-> "noted", t |-> t])
    BY <1>3, <2>1, <2>2, StoreWrites
  <2>4. \A u : SameLine(u, flushq, flushq')
    BY <1>3, <2>3, LinePasses DEF Naming
  <2>5. Alone(runs', r, "live")
    <3> DEFINE new == [runs[r] EXCEPT !.told = TRUE]
    <3>1. new.id = runs[r].id /\ new.pc = runs[r].pc /\ new.armed = runs[r].armed
          /\ new \in RunRecord
      BY RunType DEF RunRecord
    <3>2. runs' = [runs EXCEPT ![r] = new] /\ runs \in Seq(RunRecord) /\ r \in 1..Len(runs)
      BY <2>1 DEF TypeOK, Runs
    <3> HIDE DEF new
    <3>3. /\ Len(runs') = Len(runs)
          /\ \A s \in Runs : /\ runs'[s].id = runs[s].id /\ runs'[s].pc = runs[s].pc
                             /\ runs'[s].armed = runs[s].armed
      BY <3>1, <3>2, PutRecord DEF Runs
    <3>4. TypeOK'
      BY AgentType
    <3>5. RunSeq(runs')
      BY <3>3, <3>4 DEF RunSeq, TypeOK
    <3> QED
      BY <1>3, <3>3, <3>5 DEF Alone, Calm
  <2>6. \A u \in Tickets : timers'[u] = NoRun
    BY <1>3, <2>1, TimersOff
  <2>7. handles'[t] = r
    BY <1>3, <2>1 DEF Calm, AgentsAreReachable
  <2> QED
    BY <1>2, <1>3, <2>1, <2>3, <2>4, <2>5, <2>6, <2>7, GoesOn
<1>6. CASE AgentFails(r)
  <2> DEFINE rec == [tickets[t] EXCEPT !.state = "failed"]
  <2>1. /\ runs' = Phase(r, "over") /\ timers' = Unregistered(t)
        /\ Store(t, rec, flushq, ThenRelease(t)) /\ UNCHANGED <<running, queue, handles>>
    BY <1>4, <1>6 DEF AgentFails, Exited
  <2>2. rec.state = "failed"
    BY <1>3 DEF TicketRecord
  <2>3. Wrote(t, "failed") /\ flushq' = Append(flushq, ThenRelease(t))
    BY <1>3, <2>1, <2>2, StoreWrites
  <2>4. Alone(runs', r, "over")
    BY <2>1, AlonePhase DEF Phases
  <2>5. \A u \in Tickets : timers'[u] = NoRun
    BY <1>3, <2>1, TimersOff
  <2>6. "failed" \in Terminal
    BY DEF Terminal
  <2> QED
    BY <1>2, <1>3, <2>1, <2>3, <2>4, <2>5, <2>6, Ends
<1>7. CASE AgentAsks(r)
  <2>1. /\ runs' = Phase(r, "parking") /\ timers' = Unregistered(t)
        /\ UNCHANGED <<running, queue, handles>>
    BY <1>4, <1>7 DEF AgentAsks, Exited
  <2>2. PICK sid \in {NoRun, runs[r].thread} :
          Store(t, [Reported(r, sid, "decision") EXCEPT
                      !.question = r,
                      !.stage = IF Advisors THEN "pending" ELSE "none",
                      !.about = IF Advisors THEN r ELSE NoRun],
                flushq, [k |-> "parked", r |-> r])
    BY <1>7 DEF AgentAsks
  <2> DEFINE rec == [Reported(r, sid, "decision") EXCEPT
                       !.question = r,
                       !.stage = IF Advisors THEN "pending" ELSE "none",
                       !.about = IF Advisors THEN r ELSE NoRun]
  <2>3. Reported(r, sid, "decision") \in TicketRecord /\ Reported(r, sid, "decision").state = "decision"
    <3>1. "decision" \in States
      BY DEF States
    <3>2. Reported(r, sid, "decision") \in TicketRecord
      BY <3>1, ReportedType
    <3>3. Reported(r, sid, "decision").state = "decision"
      BY <1>3 DEF Reported, TicketRecord
    <3> QED
      BY <3>2, <3>3
  <2>4. rec.state = Shown("parking")
    BY <2>3 DEF TicketRecord, Shown
  <2>5. Store(t, rec, flushq, [k |-> "parked", r |-> r])
    BY <2>2
  <2> HIDE DEF rec
  <2>6. Wrote(t, Shown("parking")) /\ flushq' = Append(flushq, [k |-> "parked", r |-> r])
    BY <1>3, <2>4, <2>5, StoreWrites
  <2>7. \A u : SameLine(u, flushq, flushq')
    BY <1>3, <2>6, LinePasses DEF Naming
  <2>8. Alone(runs', r, "parking") /\ "live" \in Working /\ "parking" \in Working
    BY <2>1, AlonePhase DEF Phases, Working, Alive
  <2>9. \A u \in Tickets : timers'[u] = NoRun
    BY <1>3, <2>1, TimersOff
  <2> QED
    BY <1>2, <1>3, <2>1, <2>6, <2>7, <2>8, <2>9, GoesOn
<1>8. CASE AgentReports(r)
  <2>1. /\ runs' = Phase(r, "judging") /\ timers' = Unregistered(t)
        /\ UNCHANGED <<running, queue, handles>>
    BY <1>4, <1>8 DEF AgentReports, Exited
  <2>2. PICK sid \in {NoRun, runs[r].thread} :
          Store(t, Reported(r, sid, "verifying"), flushq, [k |-> "judge", r |-> r])
    BY <1>8 DEF AgentReports
  <2>3. Reported(r, sid, "verifying").state = Shown("judging")
    BY <1>3 DEF Reported, TicketRecord, Shown
  <2>4. Wrote(t, Shown("judging")) /\ flushq' = Append(flushq, [k |-> "judge", r |-> r])
    BY <1>3, <2>2, <2>3, StoreWrites
  <2>5. \A u : SameLine(u, flushq, flushq')
    BY <1>3, <2>4, LinePasses DEF Naming
  <2>6. Alone(runs', r, "judging") /\ "live" \in Working /\ "judging" \in Working
    BY <2>1, AlonePhase DEF Phases, Working, Alive
  <2>7. \A u \in Tickets : timers'[u] = NoRun
    BY <1>3, <2>1, TimersOff
  <2> QED
    BY <1>2, <1>3, <2>1, <2>4, <2>5, <2>6, <2>7, GoesOn
<1>9. CASE AgentEndsLate(r)
  BY <1>3, <1>9 DEF AgentEndsLate, IsTerminal, Exists, Terminal, Absent
<1> QED
  BY <1>5, <1>6, <1>7, <1>8, <1>9

LEMMA WorldCalm ==
  ASSUME TypeOK, Calm, NEW r \in Runs,
         \/ CwdRejected(r) \/ CwdAccepted(r)
         \/ VerifierPasses(r) \/ VerifierRejects(r) \/ VerifierThrows(r) \/ VerdictIsLate(r)
         \/ Committed(r) \/ PanelAnswers(r) \/ PanelIsLate(r)
  PROVE  Calm'
<1> DEFINE t == runs[r].id
<1>1. runs[r].pc \in {"validating", "verifying", "committing", "advising"}
  BY DEF CwdRejected, CwdAccepted, VerifierPasses, VerifierRejects, VerifierThrows,
         VerdictIsLate, Committed, PanelAnswers, PanelIsLate
<1>2. runs[r].pc # "over"
  BY <1>1
<1>3. /\ t \in Tickets /\ tickets[t] \in TicketRecord
      /\ tickets[t].state = Shown(runs[r].pc) /\ Passes(flushq)
      /\ runs[r].pc \in {"consulting", "advising"} => Advisors
  BY <1>2, WorkerShows
<1>4. Shown(runs[r].pc) \in {"queued", "verifying", "decision"}
  BY <1>1 DEF Shown
<1>5. Exists(t) /\ ~IsTerminal(t)
  BY <1>3, <1>4 DEF Exists, IsTerminal, Absent, Terminal
<1>6. {"failed", "done"} \subseteq Terminal
  BY DEF Terminal
<1>7. \A u : SameLine(u, flushq, flushq)
  BY DEF SameLine
<1>8. \A u \in Tickets : timers[u] = NoRun
  BY DEF Calm
<1>9. CASE CwdRejected(r)
  BY <1>2, <1>3, <1>6, <1>9, SettleCalm DEF CwdRejected, Fail
<1>10. CASE CwdAccepted(r)
  <2> DEFINE rec == [tickets[t] EXCEPT !.state = "running"]
  <2>1. /\ runs' = Phase(r, "starting") /\ runs[r].pc = "validating"
        /\ Store(t, rec, flushq, [k |-> "starting", r |-> r])
        /\ UNCHANGED <<running, queue, handles, timers>>
    BY <1>5, <1>10 DEF CwdAccepted
  <2>2. rec.state = Shown("starting")
    BY <1>3 DEF TicketRecord, Shown
  <2>3. Wrote(t, Shown("starting")) /\ flushq' = Append(flushq, [k |-> "starting", r |-> r])
    BY <1>3, <2>1, <2>2, StoreWrites
  <2>4. \A u : SameLine(u, flushq, flushq')
    BY <1>3, <2>3, LinePasses DEF Naming
  <2>5. Alone(runs', r, "starting") /\ "validating" \in Working /\ "starting" \in Working
    BY <2>1, AlonePhase DEF Phases, Working
  <2> QED
    BY <1>2, <1>8, <2>1, <2>3, <2>4, <2>5, GoesOn
<1>11. CASE VerifierPasses(r)
  <2>1. /\ runs' = Phase(r, "committing") /\ runs[r].pc = "verifying"
        /\ UNCHANGED <<tickets, running, queue, handles, timers, flushq>>
    BY <1>11 DEF VerifierPasses
  <2>2. Wrote(t, Shown("committing"))
    BY <1>3, <2>1 DEF Wrote, Shown
  <2>3. Alone(runs', r, "committing") /\ "verifying" \in Working /\ "committing" \in Working
    BY <2>1, AlonePhase DEF Phases, Working
  <2> QED
    BY <1>2, <1>7, <1>8, <2>1, <2>2, <2>3, GoesOn
<1>12. CASE VerifierRejects(r)
  BY <1>2, <1>3, <1>6, <1>12, SettleCalm DEF VerifierRejects, Fail
<1>13. CASE VerifierThrows(r)
  <2>1. StillVerifying(t)
    BY <1>3, <1>13 DEF VerifierThrows, StillVerifying, Shown
  <2>2. Settle(t, "failed", Phase(r, "over"), flushq)
    BY <1>13, <2>1 DEF VerifierThrows, Fail
  <2> QED
    BY <1>2, <1>3, <1>6, <2>2, SettleCalm
<1>14. CASE VerdictIsLate(r)
  BY <1>5, <1>14 DEF VerdictIsLate
<1>15. CASE Committed(r)
  BY <1>2, <1>3, <1>6, <1>15, SettleCalm DEF Committed
<1>16. CASE PanelAnswers(r)
  <2>1. /\ runs' = Phase(r, "consulting") /\ runs[r].pc = "advising"
        /\ UNCHANGED <<running, queue, handles, timers>> /\ tickets[t].state = "decision"
    BY <1>16 DEF PanelAnswers
  <2>2. PICK stage \in {"decided", "failed"} : \E k \in {"adopted", "escalated"} :
          Store(t, [tickets[t] EXCEPT !.stage = stage, !.about = r], flushq, [k |-> k, r |-> r])
    BY <1>16 DEF PanelAnswers, Escalation
  <2> DEFINE rec == [tickets[t] EXCEPT !.stage = stage, !.about = r]
  <2>3. PICK k \in {"adopted", "escalated"} : Store(t, rec, flushq, [k |-> k, r |-> r])
    BY <2>2
  <2>4. rec.state = Shown("consulting")
    BY <1>3, <2>1 DEF TicketRecord, Shown
  <2> HIDE DEF rec
  <2>5. Wrote(t, Shown("consulting")) /\ flushq' = Append(flushq, [k |-> k, r |-> r])
    BY <1>3, <2>3, <2>4, StoreWrites
  <2>6. \A u : SameLine(u, flushq, flushq')
    <3>1. [k |-> k, r |-> r].k \notin Naming
      BY DEF Naming
    <3> QED
      BY <1>3, <2>5, <3>1, LinePasses
  <2>7. /\ Alone(runs', r, "consulting")
        /\ "advising" \notin Working /\ "consulting" \notin Working
    BY <2>1, AlonePhase DEF Phases, Working, Alive
  <2> QED
    BY <1>2, <1>3, <1>8, <2>1, <2>5, <2>6, <2>7, GoesOn
<1>17. CASE PanelIsLate(r)
  BY <1>3, <1>17 DEF PanelIsLate, Shown
<1> QED
  BY <1>9, <1>10, <1>11, <1>12, <1>13, <1>14, <1>15, <1>16, <1>17

LEMMA HeadNames ==
  ASSUME TypeOK, NEW k \in Naming, Resumes(k)
  PROVE  /\ flushq # <<>> /\ Head(flushq).t \in Tickets
         /\ Head(flushq) = [k |-> k, t |-> Head(flushq).t]
         /\ LeftOver(Tail(flushq))
         /\ \A u : u # Head(flushq).t => SameLine(u, flushq, Tail(flushq))
<1> DEFINE c == Head(flushq)
<1>1. flushq # <<>> /\ c.k = k /\ LeftOver(Tail(flushq))
  BY DEF Resumes, LeftOver
<1>2. c \in Continuation
  BY <1>1 DEF TypeOK
<1>3. c \notin [k : RunKinds, r : Runs]
  BY <1>1 DEF Naming, RunKinds
<1>4. c \in [k : TicketKinds, t : Tickets]
  BY <1>2, <1>3 DEF Continuation
<1>5. c.t \in Tickets /\ c = [k |-> k, t |-> c.t]
  BY <1>1, <1>4
<1>6. ASSUME NEW u, u # c.t PROVE SameLine(u, flushq, Tail(flushq))
  <2>1. Unnamed(u, Tail(flushq))
    BY <1>6, Distinct DEF Unnamed
  <2> QED
    BY <1>1, <2>1, LineLeft
<1> QED
  BY <1>1, <1>5, <1>6

LEMMA EnqueuedCalm ==
  ASSUME TypeOK, Calm, Enqueued
  PROVE  Calm'
<1> DEFINE t == Head(flushq).t
           q == Append(queue, t)
<1>1. /\ flushq # <<>> /\ t \in Tickets /\ Head(flushq) = ThenEnqueue(t)
      /\ \A u : u # t => SameLine(u, flushq, Tail(flushq))
  BY HeadNames DEF Enqueued, Naming, ThenEnqueue
<1>2. /\ flushq' = Tail(flushq) /\ UNCHANGED <<tickets, handles, timers>>
      /\ ~Known(t) => Pump(running, q, runs)
  BY DEF Enqueued
<1>3. ~Quiet(flushq, t) /\ ~Closing(flushq, t)
  BY <1>1, Tailed, Distinct DEF Quiet, Closing, Names
<1>4. AskedFor(t, tickets[t].state, running, queue, runs, flushq)
  BY <1>1, <1>3 DEF Calm, Sit, Resting, Settled, InBacklog, AtWork
<1>5. Quiet(flushq', t) /\ ~Releasing(flushq, t)
  BY <1>1, <1>2, <1>4, TakesEnqueue DEF AskedFor
<1>6. t \notin running /\ ~Waits(queue, t) /\ Finished(t, runs) /\ tickets'[t].state = "queued"
  BY <1>2, <1>4, <1>5 DEF AskedFor
<1>7. ~Known(t)
  BY <1>6 DEF Known, Waits
<1>8. /\ queue \in Seq(Tickets) /\ Len(queue) \in Nat /\ q \in Seq(Tickets)
      /\ Len(q) = Len(queue) + 1
      /\ \A i \in 1..Len(queue) : q[i] = queue[i]
      /\ q[Len(queue) + 1] = t
  BY <1>1 DEF TypeOK
<1>9. \A i \in 1..Len(q) : i = Len(queue) + 1 \/ (i \in 1..Len(queue) /\ q[i] = queue[i])
  BY <1>8
<1> HIDE DEF q
<1>10. \A i \in 1..Len(queue) : queue[i] # t
  BY <1>6 DEF Waits
<1>11. Once(q)
  <2> SUFFICES ASSUME NEW i \in 1..Len(q), NEW j \in 1..Len(q), q[i] = q[j]
               PROVE  i = j
    BY DEF Once
  <2>1. CASE i \in 1..Len(queue) /\ j \in 1..Len(queue)
    BY <1>8, <2>1 DEF Calm, Once
  <2>2. CASE i = Len(queue) + 1 \/ j = Len(queue) + 1
    BY <1>8, <1>9, <1>10, <2>2
  <2> QED
    BY <1>9, <2>1, <2>2
<1>12. \A u : u # t => (Waits(q, u) <=> Waits(queue, u))
  BY <1>8, <1>9 DEF Waits
<1>13. Waits(q, t)
  BY <1>8 DEF Waits
<1>14. Beyond(t, running)
  BY <1>1, <1>2, SlotsWithin, TimersOff DEF Beyond
<1>15. Sit(t, tickets'[t].state, running, q, runs, flushq')
  BY <1>5, <1>6, <1>13 DEF Sit, InBacklog
<1>16. Ready(running, q, runs)
  BY <1>1, <1>6, <1>8, <1>11, <1>12, <1>14, <1>15, FinishedReady
<1> QED
  BY <1>2, <1>7, <1>16, ServedCalm DEF Served, q

\* Giving a slot back leaves everybody else as they were.
LEMMA ReleaseServes ==
  ASSUME TypeOK, Calm, NEW t \in Tickets, NEW rs, Release(t, rs),
         \A u \in Tickets : tickets'[u].state = tickets[u].state,
         \A u : u # t => SameLine(u, flushq, flushq')
  PROVE  Beyond(t, running \ {t}) /\ Served(running \ {t}, queue, rs)
<1>1. handles' = [handles EXCEPT ![t] = NoRun] /\ timers' = Unregistered(t)
      /\ Pump(running \ {t}, queue, rs)
  BY NothingToDisarm DEF Release
<1>2. \A u \in Tickets \ {t} : handles'[u] = handles[u]
  BY <1>1 DEF TypeOK
<1>3. \A u \in Tickets : timers'[u] = NoRun
  BY <1>1, TimersOff
<1> QED
  BY <1>1, <1>2, <1>3, SlotsWithin DEF Beyond, Served

LEMMA ReleasedCalm ==
  ASSUME TypeOK, Calm, Released
  PROVE  Calm'
<1> DEFINE t == Head(flushq).t
           R == running \ {t}
<1>1. /\ flushq # <<>> /\ t \in Tickets /\ Head(flushq) = ThenRelease(t)
      /\ \A u : u # t => SameLine(u, flushq, Tail(flushq))
  BY HeadNames DEF Released, Naming, ThenRelease
<1>2. flushq' = Tail(flushq) /\ UNCHANGED tickets /\ Release(t, runs)
  BY DEF Released
<1>3. /\ ~Quiet(flushq, t)
      /\ Closing(flushq, t) => Closing(flushq', t)
      /\ Opening(flushq, t) => Opening(flushq', t)
  BY <1>1, <1>2, TakesRelease
<1>4. Beyond(t, R) /\ Served(R, queue, runs)
  BY <1>1, <1>2, ReleaseServes
<1>5. \/ Settled(t, tickets[t].state, running, queue, runs, flushq)
      \/ AskedFor(t, tickets[t].state, running, queue, runs, flushq)
  BY <1>1, <1>3 DEF Calm, Sit, Resting, InBacklog, AtWork
<1>6. /\ Finished(t, runs)
      /\ Sit(t, tickets'[t].state, R, queue, runs, flushq')
  BY <1>2, <1>3, <1>5 DEF Sit, Settled, AskedFor
<1>7. queue \in Seq(Tickets) /\ Once(queue)
  BY DEF TypeOK, Calm
<1>8. Ready(R, queue, runs)
  BY <1>1, <1>4, <1>6, <1>7, FinishedReady
<1> QED
  BY <1>4, <1>8, ServedCalm

LEMMA NotedCalm ==
  ASSUME TypeOK, Calm, Noted
  PROVE  Calm'
<1>1. Passes(Tail(flushq)) /\ flushq' = Tail(flushq)
      /\ UNCHANGED <<tickets, running, queue, handles, timers, runs>>
  BY DEF Noted, Resumes, Passes, LeftOver, Naming
<1>2. \A u : SameLine(u, flushq, flushq')
  BY <1>1, LinePasses
<1>3. ASSUME NEW u \in Tickets
      PROVE  Sit(u, tickets'[u].state, running, queue, runs, flushq')
  <2>1. Sit(u, tickets[u].state, running, queue, runs, flushq)
    BY DEF Calm
  <2>2. OwnRuns(u, runs, runs)
    BY DEF OwnRuns, TypeOK
  <2> QED
    BY <1>1, <1>2, <2>1, <2>2, SameSit
<1> QED
  BY <1>1, <1>3 DEF Calm, AgentsAreReachable, Runs

LEMMA ResumesWorker ==
  ASSUME TypeOK, Calm, ResumesOnce, NEW k \in RunKinds, Resumes(k)
  PROVE  /\ Head(flushq).r \in Runs
         /\ runs[Head(flushq).r].pc = ResumedPhase(k)
         /\ runs[Head(flushq).r].pc # "over"
         /\ Passes(Tail(flushq))
<1>1. flushq # <<>> /\ Head(flushq).k = k
  BY DEF Resumes
<1>2. Head(flushq).r \in Runs /\ runs[Head(flushq).r].pc = ResumedPhase(k)
  BY <1>1, HeadType, FreeHead
<1>3. Passes(Tail(flushq))
  BY <1>1 DEF Passes, LeftOver, Naming, RunKinds
<1> QED
  BY <1>2, <1>3 DEF ResumedPhase

LEMMA SpawnedCalm ==
  ASSUME TypeOK, Calm, ResumesOnce, Operations \subseteq {"retry"}, Spawned
  PROVE  Calm'
<1> DEFINE r == Head(flushq).r
           t == runs[r].id
           capped == "timeout" \in Operations
           new == [runs[r] EXCEPT !.pc = "live", !.armed = capped]
<1>1. Resumes("starting") /\ "timeout" \notin Operations
  BY DEF Spawned
<1>2. r \in Runs /\ runs[r].pc = "starting" /\ Passes(Tail(flushq))
  BY <1>1, ResumesWorker DEF RunKinds, ResumedPhase
<1>3. t \in Tickets /\ tickets[t].state = Shown("live")
  BY <1>2, WorkerShows DEF Shown
<1>4. /\ handles' = [handles EXCEPT ![t] = r] /\ flushq' = Tail(flushq)
      /\ runs' = [runs EXCEPT ![r].pc = "live", ![r].armed = capped]
      /\ UNCHANGED <<tickets, running, queue, timers>>
  BY <1>1 DEF Spawned, Attached
<1>5. new \in RunRecord /\ new.id = runs[r].id /\ new.pc = "live" /\ ~new.armed
  <2>1. runs[r] \in RunRecord /\ "live" \in Phases /\ capped \in BOOLEAN /\ ~capped
    BY <1>1, <1>2, RunType DEF Phases, Working, Alive
  <2> HIDE DEF capped
  <2> QED
    BY <2>1 DEF RunRecord
<1>6. runs' = [runs EXCEPT ![r] = new] /\ runs \in Seq(RunRecord) /\ r \in 1..Len(runs)
  BY <1>2, <1>4 DEF TypeOK, Runs
<1> HIDE DEF new, capped
<1>7. /\ runs' \in Seq(RunRecord) /\ Len(runs') = Len(runs) /\ runs'[r] = new
      /\ \A s \in Runs : s # r => runs'[s] = runs[s]
  BY <1>5, <1>6, PutRecord DEF Runs
<1>8. Alone(runs', r, "live")
  <2>1. RunSeq(runs')
    BY <1>7 DEF RunSeq, TypeOK
  <2>2. \A s \in Runs : ~runs[s].armed
    BY DEF Calm
  <2> QED
    BY <1>5, <1>7, <2>1, <2>2 DEF Alone
<1>9. \A u : SameLine(u, flushq, flushq')
  BY <1>2, <1>4, LinePasses
<1>10. Wrote(t, Shown("live")) /\ \A u \in Tickets : timers'[u] = NoRun
  BY <1>3, <1>4, TimersOff DEF Wrote
<1>11. handles'[t] = r /\ \A u \in Tickets \ {t} : handles'[u] = handles[u]
  BY <1>3, <1>4 DEF TypeOK
<1>12. "starting" \in Working /\ "live" \in Working
  BY DEF Working, Alive
<1> HIDE DEF r, t
<1>13. runs[r].pc # "over" /\ running' = running /\ queue' = queue
  BY <1>2, <1>4
<1> QED
  BY <1>2, <1>8, <1>9, <1>10, <1>11, <1>12, <1>13, GoesOn DEF t

LEMMA ParkedCalm ==
  ASSUME TypeOK, Calm, ResumesOnce, Parked
  PROVE  Calm'
<1> DEFINE r == Head(flushq).r
           t == runs[r].id
           R == running \ {t}
<1>1. r \in Runs /\ runs[r].pc = "parking" /\ Passes(Tail(flushq))
  BY ResumesWorker DEF Parked, RunKinds, ResumedPhase
<1>2. /\ t \in Tickets /\ tickets[t].state = "decision" /\ tickets[t] \in TicketRecord
      /\ runs[r].pc # "over"
  BY <1>1, WorkerShows DEF Shown
<1>3. CASE Advisors
  <2> DEFINE rec == [tickets[t] EXCEPT !.stage = "deciding", !.about = r]
             rs == Phase(r, "consulting")
  <2>1. /\ Release(t, rs)
        /\ Store(t, rec, Tail(flushq), [k |-> "consult", r |-> r])
    BY <1>2, <1>3 DEF Parked
  <2>2. rec.state = "decision"
    BY <1>2 DEF TicketRecord
  <2> HIDE DEF rec
  <2>3. Wrote(t, "decision") /\ flushq' = Append(Tail(flushq), [k |-> "consult", r |-> r])
    BY <1>2, <2>1, <2>2, StoreWrites
  <2>4. \A u : SameLine(u, flushq, flushq')
    <3>1. [k |-> "consult", r |-> r].k \notin Naming
      BY DEF Naming
    <3> QED
      BY <1>1, <2>3, <3>1, LinePasses
  <2>5. \A u \in Tickets : tickets'[u].state = tickets[u].state
    BY <1>2, <2>3 DEF Wrote
  <2>6. Beyond(t, R) /\ Served(R, queue, rs)
    BY <1>2, <2>1, <2>4, <2>5, ReleaseServes
  <2>7. Alone(rs, r, "consulting") /\ "consulting" \notin Working
    BY <1>1, AlonePhase DEF Phases, Working, Alive
  <2>8. tickets'[t].state = Shown("consulting") /\ t \notin R
    BY <2>3 DEF Wrote, Shown
  <2> HIDE DEF rs, R
  <2>9. Ready(R, queue, rs)
    BY <1>1, <1>2, <1>3, <2>4, <2>6, <2>7, <2>8, OnwardReady
  <2> QED
    BY <2>6, <2>9, ServedCalm
<1>4. CASE ~Advisors
  <2> DEFINE rs == Phase(r, "over")
  <2>1. Release(t, rs) /\ flushq' = Tail(flushq) /\ UNCHANGED tickets
    BY <1>2, <1>4 DEF Parked
  <2>2. \A u : SameLine(u, flushq, flushq')
    BY <1>1, <2>1, LinePasses
  <2>3. Beyond(t, R) /\ Served(R, queue, rs)
    BY <1>2, <2>1, <2>2, ReleaseServes
  <2>4. Alone(rs, r, "over")
    BY <1>1, AlonePhase DEF Phases
  <2>5. tickets'[t].state = "decision" /\ t \notin R
    BY <1>2, <2>1
  <2> HIDE DEF rs, R
  <2>6. Ready(R, queue, rs)
    BY <1>1, <1>2, <2>2, <2>3, <2>4, <2>5, EndReady
  <2> QED
    BY <2>3, <2>6, ServedCalm
<1> QED
  BY <1>3, <1>4

LEMMA StaysCalm ==  \* the run moves on at its flush, and nothing else does
  ASSUME TypeOK, Calm, ResumesOnce, Judging \/ Consulting \/ Escalated
  PROVE  Calm'
<1> DEFINE r == Head(flushq).r
           t == runs[r].id
<1>1. flushq' = Tail(flushq) /\ UNCHANGED <<tickets, running, queue, handles, timers>>
  BY DEF Judging, Consulting, Escalated
<1>2. /\ r \in Runs /\ runs[r].pc # "over" /\ Passes(Tail(flushq))
      /\ Judging => runs[r].pc = "judging"
      /\ Consulting \/ Escalated => runs[r].pc = "consulting"
  BY ResumesWorker DEF Judging, Consulting, Escalated, RunKinds, ResumedPhase
<1>3. \A u : SameLine(u, flushq, flushq')
  BY <1>1, <1>2, LinePasses
<1>4. \A u \in Tickets : timers'[u] = NoRun
  BY <1>1 DEF Calm
<1>5. /\ t \in Tickets /\ tickets[t].state = Shown(runs[r].pc)
      /\ runs[r].pc \in {"consulting", "advising"} => Advisors
  BY <1>2, WorkerShows
<1>6. {"judging", "verifying"} \subseteq Working /\ {"consulting", "advising"} \cap Working = {}
  BY DEF Working, Alive
<1>7. CASE Judging
  <2>1. runs' = Phase(r, "verifying")
    BY <1>7 DEF Judging
  <2>2. Alone(runs', r, "verifying") /\ Wrote(t, Shown("verifying"))
    BY <1>1, <1>2, <1>5, <1>7, <2>1, AlonePhase DEF Phases, Working, Wrote, Shown
  <2> QED
    BY <1>1, <1>2, <1>3, <1>4, <1>6, <1>7, <2>2, GoesOn
<1>8. CASE Consulting
  <2>1. runs' = Phase(r, "advising")
    BY <1>8 DEF Consulting
  <2>2. Alone(runs', r, "advising") /\ Wrote(t, Shown("advising"))
    BY <1>1, <1>2, <1>5, <1>8, <2>1, AlonePhase DEF Phases, Wrote, Shown
  <2> QED
    BY <1>1, <1>2, <1>3, <1>4, <1>5, <1>6, <1>8, <2>2, GoesOn
<1>9. CASE Escalated
  <2>1. runs' = Phase(r, "over")
    BY <1>9 DEF Escalated
  <2>2. Alone(runs', r, "over")
    BY <1>2, <2>1, AlonePhase DEF Phases
  <2>3. tickets'[t].state = "decision" /\ t \notin running
    BY <1>1, <1>2, <1>5, <1>6, <1>9, WorkerSits DEF Works, Shown
  <2>4. Beyond(t, running)
    BY <1>1, <1>3, <1>4, SlotsWithin DEF Beyond
  <2>5. Ready(running, queue, runs')
    BY <1>2, <1>3, <2>2, <2>3, <2>4, EndReady
  <2> QED
    BY <1>1, <2>5, ServedCalm DEF Served
<1> QED
  BY <1>7, <1>8, <1>9

\* The panel's answer continues the ticket it is about, in a slot beyond the
\* limit and with a run of its own.
LEMMA AdoptedCalm ==
  ASSUME TypeOK, Calm, ResumesOnce, Adopted
  PROVE  Calm'
<1> DEFINE r == Head(flushq).r
           t == runs[r].id
           rs == Phase(r, "over")
           n == Len(runs) + 1
<1>1. r \in Runs /\ runs[r].pc = "consulting" /\ Passes(Tail(flushq))
  BY ResumesWorker DEF Adopted, RunKinds, ResumedPhase
<1>2. /\ t \in Tickets /\ tickets[t].state = "decision" /\ tickets[t] \in TicketRecord
      /\ runs[r].pc # "over" /\ Advisors
  BY <1>1, WorkerShows DEF Shown
<1>3. Answer(t, rs, Tail(flushq))
  BY DEF Adopted
<1>4. CASE tickets[t].session = NoRun
  <2>1. Settle(t, "failed", rs, Tail(flushq))
    BY <1>2, <1>3, <1>4 DEF Answer, Fail
  <2>2. "failed" \in Terminal
    BY DEF Terminal
  <2> QED
    BY <1>1, <1>2, <2>1, <2>2, SettleCalm
<1>5. CASE tickets[t].session # NoRun
  <2> DEFINE new == NewRun(t, "starting", tickets[t].session, tickets[t].question)
             rec == Continued(tickets[t])
  <2>1. Alone(rs, r, "over")
    BY <1>1, AlonePhase DEF Phases
  <2>2. RunSeq(rs) /\ Len(rs) = Len(runs) /\ Len(runs) \in Nat /\ n \in Nat
    BY <2>1 DEF Alone, TypeOK
  <2>3. /\ running' = running \cup {t} /\ runs' = Append(rs, new)
        /\ Store(t, rec, Tail(flushq), [k |-> "starting", r |-> n])
        /\ UNCHANGED <<queue, handles, timers>>
    BY <1>2, <1>3, <1>5, <2>2 DEF Answer
  <2>4. rec.state = "running"
    BY <1>2 DEF TicketRecord, Continued
  <2> HIDE DEF rec
  <2>5. Wrote(t, "running") /\ flushq' = Append(Tail(flushq), [k |-> "starting", r |-> n])
    BY <1>2, <2>3, <2>4, StoreWrites
  <2>6. \A u : SameLine(u, flushq, flushq')
    <3>1. [k |-> "starting", r |-> n].k \notin Naming
      BY DEF Naming
    <3> QED
      BY <1>1, <2>5, <3>1, LinePasses
  <2>7. /\ RunSeq(runs') /\ Len(runs') = n
        /\ \A s \in Runs : runs'[s] = rs[s]
        /\ runs'[n].id = t /\ runs'[n].pc = "starting" /\ ~runs'[n].armed
    <3>1. "starting" \in Phases /\ tickets[t].session \in Nat /\ tickets[t].question \in Nat
      BY <1>2 DEF Phases, Working, TicketRecord
    <3>2. RunSeq(runs') /\ Len(runs') = n
      BY <1>2, <2>2, <2>3, <3>1, AddRun
    <3>3. rs \in Seq(RunRecord)
      BY <2>2 DEF RunSeq
    <3>4. new.id = t /\ new.pc = "starting" /\ ~new.armed
      BY DEF NewRun
    <3> HIDE DEF new, rs
    <3>5. runs'[n] = new /\ \A s \in Runs : runs'[s] = rs[s]
      BY <2>2, <2>3, <3>3 DEF Runs
    <3> QED
      BY <3>2, <3>4, <3>5
  <2>8. \A s \in 1..Len(runs') : s = n \/ (s \in Runs /\ runs'[s] = rs[s])
    BY <2>2, <2>7 DEF Runs
  <2>9. \A s \in Runs : runs[s].id = t => rs[s].pc = "over"
    BY <1>1, <1>2, <2>1, WorkerSits DEF Alone, Works, Sole, Runs
  <2>10. \A s \in Runs : /\ rs[s].id = runs[s].id /\ ~rs[s].armed
                         /\ runs[s].id # t => rs[s].pc = runs[s].pc
    BY <2>1 DEF Alone
  <2>11. Sole(t, n, runs')
    BY <2>2, <2>7, <2>8, <2>9, <2>10 DEF Sole
  <2>12. Sit(t, tickets'[t].state, running', queue', runs', flushq')
    <3>1. Works(t, n, "running", running', runs')
      BY <2>3, <2>7, <2>11 DEF Works, Shown, Working
    <3>2. ~Waits(queue', t) /\ Quiet(flushq', t)
      BY <1>1, <1>2, <2>3, <2>6, WorkerSits DEF SameLine
    <3>3. n \in 1..Len(runs') /\ tickets'[t].state = "running"
      BY <2>2, <2>5, <2>7 DEF Wrote
    <3> QED
      BY <3>1, <3>2, <3>3 DEF Sit, AtWork
  <2>13. ASSUME NEW u \in Tickets \ {t}
         PROVE  Sit(u, tickets'[u].state, running', queue', runs', flushq')
    <3>1. Sit(u, tickets[u].state, running, queue, runs, flushq)
      BY DEF Calm
    <3>2. OwnRuns(u, runs, runs')
      BY <2>2, <2>7, <2>8, <2>10 DEF OwnRuns, Runs
    <3>3. tickets'[u].state = tickets[u].state /\ (u \in running' <=> u \in running)
      BY <2>3, <2>5 DEF Wrote
    <3> QED
      BY <2>3, <2>6, <3>1, <3>2, <3>3, SameSit
  <2>14. ASSUME NEW s \in Runs', runs'[s].pc = "live" PROVE handles'[runs'[s].id] = s
    <3>1. s \in Runs /\ runs'[s] = rs[s]
      BY <2>7, <2>8, <2>14 DEF Runs
    <3>2. runs[s].id # t /\ runs[s].pc = "live" /\ runs'[s].id = runs[s].id
      BY <2>9, <2>10, <2>14, <3>1
    <3> QED
      BY <2>3, <3>1, <3>2 DEF Calm, AgentsAreReachable
  <2>15. \A s \in Runs' : ~runs'[s].armed
    BY <2>7, <2>8, <2>10 DEF Runs
  <2>16. Within(running') /\ Once(queue') /\ \A u \in Tickets : timers'[u] = NoRun
    BY <1>2, <2>3 DEF Within, Calm
  <2> QED
    BY <2>12, <2>13, <2>14, <2>15, <2>16 DEF Calm, AgentsAreReachable
<1> QED
  BY <1>4, <1>5

LEMMA FlushCalm ==
  ASSUME TypeOK, Calm, ResumesOnce, Operations \subseteq {"retry"}, Flush
  PROVE  Calm'
<1>1. CASE SpawnThrows
  <2> DEFINE r == Head(flushq).r
  <2>1. r \in Runs /\ runs[r].pc # "over" /\ Passes(Tail(flushq))
    BY <1>1, ResumesWorker DEF SpawnThrows, RunKinds
  <2>2. Settle(runs[r].id, "failed", Phase(r, "over"), Tail(flushq)) /\ "failed" \in Terminal
    BY <1>1 DEF SpawnThrows, Fail, Terminal
  <2> QED
    BY <2>1, <2>2, SettleCalm
<1> QED
  BY <1>1, SpawnedCalm, ParkedCalm, StaysCalm, AdoptedCalm, EnqueuedCalm, ReleasedCalm,
     NotedCalm DEF Flush

LEMMA NextCalm ==
  ASSUME TypeOK, Calm, ResumesOnce, Operations \subseteq {"retry"}, [Next]_vars
  PROVE  Calm'
<1>1. CASE User
  BY <1>1, UserCalm DEF User
<1>2. CASE Flush
  BY <1>2, FlushCalm
<1>3. ASSUME NEW r \in Runs, World(r) \/ Announce(r) \/ Timeout(r) PROVE Calm'
  <2>1. CASE Timeout(r)
    BY <2>1 DEF Timeout, Calm
  <2>2. CASE World(r) \/ Announce(r)
    BY <2>2, AgentCalm, WorldCalm DEF World
  <2> QED
    BY <1>3, <2>1, <2>2
<1>4. CASE UNCHANGED vars
  BY <1>4 DEF vars, Calm, AgentsAreReachable, Runs
<1> QED
  BY <1>1, <1>2, <1>3, <1>4 DEF Next

LEMMA InitCalm ==
  ASSUME Init
  PROVE  Calm
<1>1. Len(runs) = 0 /\ Len(queue) = 0 /\ Len(flushq) = 0 /\ Cardinality(running) = 0
      /\ running = {}
  BY EmptySeq, FS_EmptySet DEF Init
<1>2. ASSUME NEW t \in Tickets
      PROVE  Sit(t, tickets[t].state, running, queue, runs, flushq)
  <2>1. tickets[t].state = "unborn"
    BY DEF Init
  <2> QED
    BY <1>1, <2>1 DEF Sit, Resting, Finished, Waits, Quiet
<1>3. Within(running) /\ Once(queue)
  BY <1>1, ConcurrencyAssumption DEF Within, Once
<1>4. \A t \in Tickets : timers[t] = NoRun
  BY DEF Init
<1> QED
  BY <1>1, <1>2, <1>3, <1>4 DEF Calm, AgentsAreReachable, Runs

(***************************************************************************)
(* The calm system keeps the order of a ticket's life: the slots, the      *)
(* backlog, the runs and the line of flushes always agree on where in it a *)
(* ticket is.                                                              *)
(***************************************************************************)
THEOREM OneLifeAtATime ==
  ASSUME Operations \subseteq {"retry"}
  PROVE  Spec => []Calm
<1> DEFINE Inv == TypeOK /\ ResumesOnce /\ SlotHasKeeper /\ Calm
<1>1. Init => Inv
  BY InitType, InitKeeps, InitCalm
<1>2. Inv /\ [Next]_vars => Inv'
  BY NextType, NextKeeps, NextCalm
<1>3. Inv => Calm
  OBVIOUS
<1> QED
  BY <1>1, <1>2, <1>3, PTL DEF Spec

(***************************************************************************)
(* As long as nobody cancels, answers or removes a ticket, a ticket that   *)
(* shows as running or verifying holds a slot (start, replyInternal,       *)
(* onMainDone): it is worked on by its only run, which is still Working.   *)
(***************************************************************************)
THEOREM WorkKeepsItsSlot ==
  ASSUME Operations \subseteq {"retry"}
  PROVE  Spec => []WorkHoldsSlot
<1>1. ASSUME Calm, NEW t \in Tickets, tickets[t].state \in InFlight PROVE t \in running
  <2>1. AtWork(t, tickets[t].state, running, queue, runs, flushq)
    BY <1>1 DEF Calm, Sit, Resting, Settled, AskedFor, InBacklog, Terminal, InFlight
  <2>2. PICK r \in 1..Len(runs) : Works(t, r, tickets[t].state, running, runs)
    BY <2>1 DEF AtWork
  <2>3. Shown(runs[r].pc) \in InFlight
    BY <1>1, <2>2 DEF Works
  <2>4. runs[r].pc \in Working
    BY <2>3 DEF Shown, InFlight, Working, Alive
  <2> QED
    BY <2>2, <2>4 DEF Works
<1>2. Calm => WorkHoldsSlot
  BY <1>1 DEF WorkHoldsSlot
<1> QED
  BY <1>2, OneLifeAtATime, PTL

(***************************************************************************)
(* As long as nobody cancels, answers or removes a ticket, every agent     *)
(* that runs is the one cancel would kill (attach): a retry never starts a *)
(* second agent while the first one lives.                                 *)
(***************************************************************************)
THEOREM EveryAgentIsReachable ==
  ASSUME Operations \subseteq {"retry"}
  PROVE  Spec => []AgentsAreReachable
<1>1. Calm => AgentsAreReachable
  BY DEF Calm
<1> QED
  BY <1>1, OneLifeAtATime, PTL

-----------------------------------------------------------------------------
(***************************************************************************)
(* The refinement of TicketPool: seen through the states of the tickets,   *)
(* every step is a step of the pool or none, and a ticket starts only      *)
(* while fewer than Concurrency are worked on.                             *)
(***************************************************************************)
Seen == [t \in Tickets |-> tickets[t].state]

LEMMA SeenMove ==
  ASSUME TypeOK, NEW t \in Tickets, NEW rec, NEW fq, NEW c, Store(t, rec, fq, c)
  PROVE  Seen' = [Seen EXCEPT ![t] = rec.state]
  BY DEF Seen, Store, TypeOK

LEMMA PoolCardinality == \A S : Pool!Cardinality(S) = Cardinality(S)
  BY DEF Pool!Cardinality, Cardinality

LEMMA PoolMoves ==
  ASSUME NEW t \in Tickets, NEW to, Seen' = [Seen EXCEPT ![t] = to],
         \/ Seen[t] \in {"unborn", "failed"} /\ to = "queued"
         \/ /\ Seen[t] = "queued" /\ to = "running"
            /\ Cardinality(Pool!Busy) < Concurrency /\ ~Advisors /\ "reply" \notin Operations
         \/ Seen[t] = "running" /\ to \in {"decision", "verifying"}
         \/ Seen[t] = "verifying" /\ to = "done"
         \/ Seen[t] \in {"queued", "running", "verifying", "decision"} /\ to = "failed"
  PROVE  Pool!PNext
<1>1. ASSUME NEW from, Seen[t] \in from PROVE Pool!Move(t, from, to)
  BY <1>1 DEF Pool!Move, Seen
<1>2. CASE Seen[t] \in {"unborn", "failed"} /\ to = "queued"
  <2>1. Pool!Submit(t) \/ Pool!Requeue(t)
    BY <1>1, <1>2 DEF Pool!Submit, Pool!Requeue
  <2> QED
    BY <2>1 DEF Pool!PNext
<1>3. CASE /\ Seen[t] = "queued" /\ to = "running"
           /\ Cardinality(Pool!Busy) < Concurrency /\ ~Advisors /\ "reply" \notin Operations
  <2>1. Pool!Start(t)
    BY <1>1, <1>3, PoolCardinality DEF Pool!Start
  <2> QED
    BY <2>1 DEF Pool!PNext
<1>4. CASE \/ Seen[t] = "running" /\ to \in {"decision", "verifying"}
           \/ Seen[t] = "verifying" /\ to = "done"
  <2>1. Pool!Park(t) \/ Pool!Verify(t) \/ Pool!Complete(t)
    BY <1>1, <1>4 DEF Pool!Park, Pool!Verify, Pool!Complete
  <2>2. t \in Pool!Busy
    BY <1>4 DEF Pool!Busy, Seen
  <2>3. Pool!Advance(t)
    BY <2>1, <2>2 DEF Pool!Advance
  <2> QED
    BY <2>3 DEF Pool!PNext
<1>5. CASE Seen[t] \in {"queued", "running", "verifying", "decision"} /\ to = "failed"
  <2>1. Pool!GiveUp(t)
    BY <1>1, <1>5 DEF Pool!GiveUp
  <2> QED
    BY <2>1 DEF Pool!PNext
<1> QED
  BY <1>2, <1>3, <1>4, <1>5

LEMMA SettleSteps ==
  ASSUME TypeOK, Calm, NEW r \in Runs, runs[r].pc # "over", NEW rs, NEW fq,
         NEW state \in Terminal, Settle(runs[r].id, state, rs, fq),
         state = "done" => tickets[runs[r].id].state = "verifying"
  PROVE  Pool!PNext
<1> DEFINE t == runs[r].id
           rec == [tickets[t] EXCEPT !.state = state]
<1>1. /\ t \in Tickets /\ tickets[t].state = Shown(runs[r].pc)
      /\ tickets[t] \in TicketRecord
  BY WorkerShows
<1>2. Exists(t)
  BY <1>1 DEF Exists, Shown, Absent
<1>3. Store(t, rec, fq, ThenRelease(t))
  BY <1>2 DEF Settle
<1>4. rec.state = state
  BY <1>1 DEF TicketRecord
<1> HIDE DEF rec
<1>5. Seen' = [Seen EXCEPT ![t] = state]
  BY <1>1, <1>3, <1>4, SeenMove
<1>6. \/ state = "failed" /\ Seen[t] \in {"queued", "running", "verifying", "decision"}
      \/ state = "done" /\ Seen[t] = "verifying"
  BY <1>1 DEF Seen, Shown, Terminal
<1> QED
  BY <1>1, <1>5, <1>6, PoolMoves

LEMMA StartHasRoom ==
  ASSUME TypeOK, Calm, ~Advisors, Operations \subseteq {"retry"},
         NEW t \in running, tickets[t].state = "queued"
  PROVE  Cardinality(Pool!Busy) < Concurrency
<1>1. \A u \in Tickets : tickets[u].state \in InFlight => u \in running
  <2> SUFFICES ASSUME NEW u \in Tickets, tickets[u].state \in InFlight PROVE u \in running
    OBVIOUS
  <2>1. PICK r \in 1..Len(runs) : Works(u, r, tickets[u].state, running, runs)
    BY DEF Calm, Sit, Resting, Settled, AskedFor, InBacklog, AtWork, Terminal, InFlight
  <2>2. runs[r].pc \in Working
    BY <2>1 DEF Works, Shown, InFlight, Working, Alive
  <2> QED
    BY <2>1, <2>2 DEF Works
<1>2. Pool!Busy \subseteq running \ {t}
  BY <1>1 DEF Pool!Busy, InFlight
<1>3. IsFiniteSet(running)
  BY TicketsAssumption, FS_Subset DEF TypeOK
<1>4. /\ IsFiniteSet(running \ {t})
      /\ Cardinality(running \ {t}) = Cardinality(running) - 1
      /\ Cardinality(running) \in Nat
  BY <1>3, FS_RemoveElement, FS_CardinalityType
<1>5. Cardinality(Pool!Busy) <= Cardinality(running \ {t}) /\ Cardinality(Pool!Busy) \in Nat
  BY <1>2, <1>4, FS_Subset, FS_CardinalityType
<1>6. Cardinality(running) <= Concurrency
  BY DEF Calm, Within
<1> QED
  BY <1>4, <1>5, <1>6, ConcurrencyAssumption

LEMMA WorldSteps ==
  ASSUME TypeOK, Calm, ~Advisors, Operations \subseteq {"retry"}, NEW r \in Runs,
         World(r) \/ Announce(r)
  PROVE  Pool!PNext \/ UNCHANGED Seen
<1> DEFINE t == runs[r].id
<1>1. runs[r].pc # "over"
  BY DEF World, Announce, CwdRejected, CwdAccepted, VerifierPasses, VerifierRejects,
         VerifierThrows, VerdictIsLate, Committed, PanelAnswers, PanelIsLate,
         AgentFails, AgentAsks, AgentReports, AgentEndsLate, Alive
<1>2. /\ t \in Tickets /\ tickets[t] \in TicketRecord
      /\ tickets[t].state = Shown(runs[r].pc) /\ Seen[t] = Shown(runs[r].pc)
      /\ runs[r].pc \notin {"killed", "consulting", "advising"}
  BY <1>1, WorkerShows DEF Seen
<1>3. {"failed", "done"} \subseteq Terminal /\ Alive \ {"killed"} = {"live"}
  BY DEF Terminal, Alive
<1>4. CASE CwdRejected(r) \/ VerifierRejects(r) \/ VerifierThrows(r) \/ VerdictIsLate(r) \/ Committed(r)
  <2>1. runs[r].pc = "validating" \/ tickets[t].state = "verifying"
    BY <1>2, <1>4 DEF CwdRejected, VerifierRejects, VerifierThrows, VerdictIsLate, Committed, Shown
  <2>2. CASE CwdRejected(r) \/ VerifierRejects(r)
    <3>1. Settle(t, "failed", Phase(r, "over"), flushq)
      BY <2>2 DEF CwdRejected, VerifierRejects, Fail
    <3> QED
      BY <1>1, <1>3, <3>1, SettleSteps
  <2>3. CASE VerifierThrows(r)
    <3>1. runs[r].pc = "verifying" /\ tickets[t].state = "verifying"
      BY <1>2, <2>3 DEF VerifierThrows, Shown
    <3>2. Settle(t, "failed", Phase(r, "over"), flushq)
      BY <2>3, <3>1 DEF VerifierThrows, StillVerifying, Fail
    <3> QED
      BY <1>1, <1>3, <3>2, SettleSteps
  <2>4. CASE VerdictIsLate(r)
    BY <1>2, <2>4 DEF VerdictIsLate, IsTerminal, Terminal, Shown
  <2>5. CASE Committed(r)
    <3>1. Settle(t, "done", Phase(r, "over"), flushq) /\ runs[r].pc = "committing"
      BY <2>5 DEF Committed
    <3>2. tickets[t].state = "verifying"
      BY <1>2, <3>1 DEF Shown
    <3> QED
      BY <1>1, <1>3, <3>1, <3>2, SettleSteps
  <2> QED
    BY <1>4, <2>2, <2>3, <2>4, <2>5
<1>5. CASE CwdAccepted(r)
  <2> DEFINE rec == [tickets[t] EXCEPT !.state = "running"]
  <2>1. runs[r].pc = "validating" /\ tickets[t].state = "queued"
    BY <1>2, <1>5 DEF CwdAccepted, Shown
  <2>2. Store(t, rec, flushq, [k |-> "starting", r |-> r])
    BY <1>5, <2>1 DEF CwdAccepted, Exists, Absent
  <2>3. rec.state = "running"
    BY <1>2 DEF TicketRecord
  <2> HIDE DEF rec
  <2>4. Seen' = [Seen EXCEPT ![t] = "running"]
    BY <1>2, <2>2, <2>3, SeenMove
  <2>5. t \in running
    BY <1>1, <2>1, WorkerSits DEF Works, Working
  <2>6. Cardinality(Pool!Busy) < Concurrency
    BY <2>1, <2>5, StartHasRoom
  <2>7. Seen[t] = "queued" /\ "reply" \notin Operations
    BY <1>2, <2>1
  <2> QED
    BY <1>2, <2>4, <2>6, <2>7, PoolMoves
<1>6. CASE AgentAsks(r) \/ AgentReports(r) \/ AgentFails(r)
  <2>1. runs[r].pc = "live" /\ Seen[t] = "running"
    BY <1>2, <1>3, <1>6 DEF AgentAsks, AgentReports, AgentFails, Shown
  <2>2. PICK state \in {"decision", "verifying", "failed"} :
          \E rec, c : Store(t, rec, flushq, c) /\ rec.state = state
    <3>1. CASE AgentAsks(r)
      <4>1. PICK sid \in {NoRun, runs[r].thread} :
              Store(t, [Reported(r, sid, "decision") EXCEPT
                          !.question = r,
                          !.stage = IF Advisors THEN "pending" ELSE "none",
                          !.about = IF Advisors THEN r ELSE NoRun],
                    flushq, [k |-> "parked", r |-> r])
        BY <3>1 DEF AgentAsks
      <4>2. Reported(r, sid, "decision") \in TicketRecord
            /\ Reported(r, sid, "decision").state = "decision"
        <5>1. Reported(r, sid, "decision") \in TicketRecord
          BY ReportedType DEF States
        <5>2. Reported(r, sid, "decision").state = "decision"
          BY <1>2 DEF Reported, TicketRecord
        <5> QED
          BY <5>1, <5>2
      <4>3. [Reported(r, sid, "decision") EXCEPT
               !.question = r,
               !.stage = IF Advisors THEN "pending" ELSE "none",
               !.about = IF Advisors THEN r ELSE NoRun].state = "decision"
        BY <4>2 DEF TicketRecord
      <4> QED
        BY <4>1, <4>3
    <3>2. CASE AgentReports(r)
      <4>1. PICK sid \in {NoRun, runs[r].thread} :
              Store(t, Reported(r, sid, "verifying"), flushq, [k |-> "judge", r |-> r])
        BY <3>2 DEF AgentReports
      <4>2. Reported(r, sid, "verifying").state = "verifying"
        BY <1>2 DEF Reported, TicketRecord
      <4> QED
        BY <4>1, <4>2
    <3>3. CASE AgentFails(r)
      <4>1. Store(t, [tickets[t] EXCEPT !.state = "failed"], flushq, ThenRelease(t))
        BY <3>3 DEF AgentFails
      <4>2. [tickets[t] EXCEPT !.state = "failed"].state = "failed"
        BY <1>2 DEF TicketRecord
      <4> QED
        BY <4>1, <4>2
    <3> QED
      BY <1>6, <3>1, <3>2, <3>3
  <2>3. Seen' = [Seen EXCEPT ![t] = state]
    BY <1>2, <2>2, SeenMove
  <2> QED
    BY <1>2, <2>1, <2>3, PoolMoves
<1>7. CASE Announce(r)
  <2> DEFINE rec == [tickets[t] EXCEPT !.session = runs[r].thread]
  <2>1. Store(t, rec, flushq, [k |-> "noted", t |-> t])
    BY <1>7 DEF Announce
  <2>2. rec.state = Seen[t]
    BY <1>2 DEF TicketRecord
  <2> HIDE DEF rec
  <2>3. Seen' = [Seen EXCEPT ![t] = Seen[t]]
    BY <1>2, <2>1, <2>2, SeenMove
  <2> QED
    BY <2>3 DEF Seen
<1>8. CASE AgentEndsLate(r) \/ VerifierPasses(r)
  BY <1>8 DEF AgentEndsLate, VerifierPasses, Seen
<1>9. CASE PanelAnswers(r) \/ PanelIsLate(r)
  BY <1>2, <1>9 DEF PanelAnswers, PanelIsLate
<1> QED
  BY <1>4, <1>5, <1>6, <1>7, <1>8, <1>9 DEF World

LEMMA FlushSeen ==
  ASSUME TypeOK, Calm, ResumesOnce, ~Advisors, Flush
  PROVE  Pool!PNext \/ UNCHANGED Seen
<1> DEFINE r == Head(flushq).r
<1>1. CASE SpawnThrows
  <2>1. r \in Runs /\ runs[r].pc # "over"
    BY <1>1, ResumesWorker DEF SpawnThrows, RunKinds
  <2>2. Settle(runs[r].id, "failed", Phase(r, "over"), Tail(flushq)) /\ "failed" \in Terminal
    BY <1>1 DEF SpawnThrows, Fail, Terminal
  <2> QED
    BY <2>1, <2>2, SettleSteps
<1>2. CASE Adopted
  <2>1. r \in Runs /\ runs[r].pc = "consulting"
    BY <1>2, ResumesWorker DEF Adopted, RunKinds, ResumedPhase
  <2> QED
    BY <2>1, WorkerShows
<1>3. CASE Spawned \/ Parked \/ Judging \/ Consulting \/ Escalated \/ Enqueued \/ Released \/ Noted
  BY <1>3 DEF Spawned, Parked, Judging, Consulting, Escalated, Enqueued, Released, Noted, Seen
<1> QED
  BY <1>1, <1>2, <1>3 DEF Flush

LEMMA UserSeen ==
  ASSUME TypeOK, Operations \subseteq {"retry"}, User
  PROVE  Pool!PNext
<1>1. PICK t \in Tickets : Create(t) \/ Retry(t)
  BY DEF User, Reply, Cancel, Remove
<1>2. tickets[t] \in TicketRecord /\ Seen[t] = tickets[t].state
  BY DEF TypeOK, Seen
<1>3. CASE Create(t)
  <2> DEFINE rec == [tickets[t] EXCEPT !.state = "queued"]
  <2>1. tickets[t].state = "unborn" /\ Store(t, rec, flushq, ThenEnqueue(t))
    BY <1>3 DEF Create
  <2>2. rec.state = "queued"
    BY <1>2 DEF TicketRecord
  <2> HIDE DEF rec
  <2>3. Seen' = [Seen EXCEPT ![t] = "queued"]
    BY <2>1, <2>2, SeenMove
  <2> QED
    BY <1>2, <2>1, <2>3, PoolMoves
<1>4. CASE Retry(t)
  <2>1. tickets[t].state = "failed" /\ Store(t, Requeued(tickets[t]), flushq, ThenEnqueue(t))
    BY <1>4 DEF Retry
  <2>2. Requeued(tickets[t]).state = "queued"
    BY <1>2 DEF TicketRecord, Requeued
  <2>3. Seen' = [Seen EXCEPT ![t] = "queued"]
    BY <2>1, <2>2, SeenMove
  <2> QED
    BY <1>2, <2>1, <2>3, PoolMoves
<1> QED
  BY <1>1, <1>3, <1>4

(***************************************************************************)
(* The runner implements TicketPool, but for its fairness, as long as      *)
(* nobody cancels, answers or removes a ticket and no panel is asked: no   *)
(* ticket leaves the order queued, running, verifying, settled (or parked) *)
(* of ticketRunner's states, and start() never has more than Concurrency   *)
(* of them worked on.                                                      *)
(***************************************************************************)
THEOREM RunnerImplementsPool ==
  ASSUME Operations \subseteq {"retry"}, ~Advisors
  PROVE  Spec => Pool!PSafe
<1> DEFINE Inv == TypeOK /\ ResumesOnce /\ SlotHasKeeper /\ Calm
<1>1. Init => Inv /\ Pool!PInit
  <2>1. Init => Pool!PInit
    BY DEF Init, Pool!PInit
  <2> QED
    BY <2>1, InitType, InitKeeps, InitCalm
<1>2. Inv /\ [Next]_vars => Inv'
  BY NextType, NextKeeps, NextCalm
<1>3. Inv /\ [Next]_vars => [Pool!PNext]_Seen
  <2> SUFFICES ASSUME Inv, [Next]_vars PROVE Pool!PNext \/ UNCHANGED Seen
    OBVIOUS
  <2>1. CASE User
    BY <2>1, UserSeen
  <2>2. CASE Flush
    BY <2>2, FlushSeen
  <2>3. ASSUME NEW r \in Runs, World(r) \/ Announce(r) \/ Timeout(r)
        PROVE  Pool!PNext \/ UNCHANGED Seen
    <3>1. ~Timeout(r)
      BY DEF Timeout, Calm
    <3> QED
      BY <2>3, <3>1, WorldSteps
  <2>4. CASE UNCHANGED vars
    BY <2>4 DEF vars, Seen
  <2> QED
    BY <2>1, <2>2, <2>3, <2>4 DEF Next
<1> QED
  BY <1>1, <1>2, <1>3, PTL DEF Spec, Pool!PSafe, Seen

-----------------------------------------------------------------------------
(***************************************************************************)
(* Theorems about TicketRestart, for all constants: what the runner keeps  *)
(* of its promises when the server stops at any moment and recover() runs  *)
(* while requests are served; and what the file holds.                     *)
(***************************************************************************)
Files == [Tickets -> TicketRecord]

(***************************************************************************)
(* The types of what a restart leaves.                                     *)
(***************************************************************************)
Copies == [t : Tickets, was : TicketRecord]

RestartOK ==
  /\ disk \in Files
  /\ writing \in Files
  /\ recovery \in [phase : Recovering \cup {"over"}, todo : SUBSET Copies]
  /\ crashes \in Nat

RTypeOK == TypeOK /\ RestartOK

\* The steps of the runner in TicketRestart are the runner's own.
RunnersStep == FlushStep \/ UserStep \/ \E r \in Runs : WorldStep(r) \/ EarlyStep(r)

LEMMA RunnersNext ==
  ASSUME RunnersStep
  PROVE  Next /\ UNCHANGED <<recovery, crashes>>
BY DEF RunnersStep, FlushStep, UserStep, WorldStep, EarlyStep, Next

LEMMA ListedType ==
  ASSUME NEW map \in Files
  PROVE  /\ Listed(map, CutOff) \in SUBSET Copies
         /\ Listed(map, PanelCutOff) \in SUBSET Copies
         /\ Listed(map, Waiting) \in SUBSET Copies
BY DEF Listed, Copies, Files

\* A restart ends every run that was there.
Stopped == [r \in Runs |-> [runs[r] EXCEPT !.pc = "over", !.armed = FALSE]]

LEMMA StoppedType ==
  ASSUME TypeOK
  PROVE  /\ Stopped \in Seq(RunRecord) /\ Len(Stopped) = Len(runs)
         /\ \A r \in Runs : Stopped[r].pc = "over"
<1>1. \A r \in Runs : Stopped[r] \in RunRecord /\ Stopped[r].pc = "over"
  <2> TAKE r \in Runs
  <2>1. runs[r] \in RunRecord /\ "over" \in Phases
    BY RunType DEF Phases
  <2>2. Stopped[r] = [runs[r] EXCEPT !.pc = "over", !.armed = FALSE]
    BY DEF Stopped
  <2> QED
    BY <2>1, <2>2 DEF RunRecord
<1>2. Len(runs) \in Nat
  BY DEF TypeOK
<1>3. Stopped = [r \in 1..Len(runs) |-> Stopped[r]]
  BY DEF Stopped, Runs
<1>4. \A r \in 1..Len(runs) : Stopped[r] \in RunRecord
  BY <1>1 DEF Runs
<1> DEFINE f(r) == Stopped[r]
<1> HIDE DEF f
<1>5. [r \in 1..Len(runs) |-> f(r)] \in Seq(RunRecord) /\ Len([r \in 1..Len(runs) |-> f(r)]) = Len(runs)
  BY <1>2, <1>4, IsASeq, LenProperties DEF f
<1> QED
  BY <1>1, <1>3, <1>5 DEF f

\* What the next server finds.
LEMMA CrashLeaves ==
  ASSUME Crash
  PROVE  \E file \in {disk} \cup {writing, Lost} :
           /\ tickets' = file /\ disk' = file /\ writing' = file
           /\ recovery' = [phase |-> "boot", todo |-> Listed(file, CutOff)]
BY DEF Crash

LEMMA CrashType ==
  ASSUME RTypeOK, Crash
  PROVE  RTypeOK'
<1>1. PICK file \in {disk} \cup {writing, Lost} :
        /\ tickets' = file /\ disk' = file /\ writing' = file
        /\ recovery' = [phase |-> "boot", todo |-> Listed(file, CutOff)]
  BY CrashLeaves
<1>2. Lost \in Files
  <2>1. \A t \in Tickets : [tickets[t] EXCEPT !.state = "removed"] \in TicketRecord
    BY DEF RTypeOK, TypeOK, TicketRecord, States, Absent
  <2> QED
    BY <2>1 DEF Lost, Files
<1>3. file \in Files
  BY <1>2 DEF RTypeOK, RestartOK
<1>4. recovery' \in [phase : Recovering \cup {"over"}, todo : SUBSET Copies]
  BY <1>1, <1>3, ListedType DEF Recovering
<1>5. runs' = Stopped /\ runs' \in Seq(RunRecord)
  BY StoppedType DEF Crash, Stopped, RTypeOK
<1>6. running' = {} /\ queue' = <<>> /\ flushq' = <<>> /\ attempts' = attempts
      /\ handles' = [t \in Tickets |-> NoRun] /\ timers' = [t \in Tickets |-> NoRun]
      /\ crashes' = crashes + 1
  BY DEF Crash
<1>7. /\ queue' \in Seq(Tickets) /\ flushq' \in Seq(Continuation')
      /\ handles' \in [Tickets -> {NoRun} \cup Runs']
      /\ timers' \in [Tickets -> {NoRun} \cup Runs']
  BY <1>6
<1>8. attempts' \in Nat /\ crashes' \in Nat
  BY <1>6 DEF RTypeOK, RestartOK, TypeOK
<1> QED
  BY <1>1, <1>3, <1>4, <1>5, <1>6, <1>7, <1>8 DEF RTypeOK, RestartOK, TypeOK, Files

\* What an iteration of recover() acts on.
LEMMA CopyType ==
  ASSUME RTypeOK, NEW x \in recovery.todo
  PROVE  x.t \in Tickets /\ x.was \in TicketRecord /\ x.was.session \in Nat
         /\ tickets[x.t] \in TicketRecord
<1>1. x \in Copies
  BY DEF RTypeOK, RestartOK
<1> QED
  BY <1>1 DEF Copies, TicketRecord, RTypeOK, TypeOK

LEMMA RecoverType ==
  ASSUME RTypeOK, Recover
  PROVE  TypeOK'
<1>1. TypeOK /\ RunSeq(runs) /\ flushq \in Seq(Continuation) /\ attempts \in Nat
  BY SameRuns DEF RTypeOK
<1>2. \A t \in Tickets : [k |-> "recovered", t |-> t] \in Continuation'
  BY DEF Continuation, TicketKinds
<1>3. CASE ResumeInterrupted
  <2>1. PICK x \in recovery.todo :
          /\ running' = running \cup {x.t}
          /\ runs' = Append(runs, NewRun(x.t, "starting", x.was.session, NoRun))
          /\ Store(x.t, [tickets[x.t] EXCEPT !.state = "running"],
                   flushq, [k |-> "starting", r |-> Len(runs) + 1])
          /\ UNCHANGED <<queue, handles, timers, attempts>>
    BY <1>3 DEF ResumeInterrupted
  <2>2. x.t \in Tickets /\ x.was.session \in Nat /\ tickets[x.t] \in TicketRecord
    BY CopyType
  <2>3. RunSeq(runs') /\ Len(runs') = Len(runs) + 1
    <3>1. "starting" \in Phases /\ NoRun \in Nat
      BY DEF Phases, Working, NoRun
    <3> QED
      BY <1>1, <2>1, <2>2, <3>1, AddRun
  <2>4. [k |-> "starting", r |-> Len(runs) + 1] \in Continuation'
    <3>1. Len(runs) + 1 \in Runs'
      BY <1>1, <2>3 DEF Runs, TypeOK
    <3> QED
      BY <3>1 DEF Continuation, RunKinds
  <2>5. [tickets[x.t] EXCEPT !.state = "running"] \in TicketRecord
    BY <2>2 DEF TicketRecord, States
  <2>6. tickets' \in [Tickets -> TicketRecord] /\ flushq' \in Seq(Continuation')
    BY <1>1, <2>1, <2>2, <2>3, <2>4, <2>5, StoreType
  <2> QED
    BY <1>1, <2>1, <2>2, <2>3, <2>6, Widen DEF TypeOK, RunSeq
<1>4. CASE ResumeNothing
  <2>1. PICK x \in recovery.todo :
          Release(x.t, runs) /\ UNCHANGED <<tickets, flushq, attempts>>
    BY <1>4 DEF ResumeNothing
  <2> QED
    BY <1>1, <2>1, CopyType, ReleasedType
<1>5. CASE FailInterrupted \/ FailPanel
  <2>1. PICK x \in recovery.todo, rec \in TicketRecord :
          /\ \/ Store(x.t, rec, flushq, [k |-> "recovered", t |-> x.t])
             \/ UNCHANGED <<tickets, flushq>>
          /\ UNCHANGED <<running, queue, handles, timers, runs, attempts>>
    <3>1. CASE FailInterrupted
      <4>1. PICK x \in recovery.todo :
              /\ \/ Store(x.t, Interrupted(tickets[x.t]), flushq, [k |-> "recovered", t |-> x.t])
                 \/ UNCHANGED <<tickets, flushq>>
              /\ UNCHANGED <<running, queue, handles, timers, runs, attempts>>
        BY <3>1 DEF FailInterrupted
      <4>2. Interrupted(tickets[x.t]) \in TicketRecord
        BY CopyType DEF Interrupted, TicketRecord, States, Terminal
      <4> QED
        BY <4>1, <4>2
    <3>2. CASE FailPanel
      <4>1. PICK x \in recovery.todo :
              /\ \/ Store(x.t, [tickets[x.t] EXCEPT !.stage = "failed", !.about = x.was.about],
                          flushq, [k |-> "recovered", t |-> x.t])
                 \/ UNCHANGED <<tickets, flushq>>
              /\ UNCHANGED <<running, queue, handles, timers, runs, attempts>>
        BY <3>2 DEF FailPanel
      <4>2. [tickets[x.t] EXCEPT !.stage = "failed", !.about = x.was.about] \in TicketRecord
        BY CopyType DEF TicketRecord, Stages
      <4> QED
        BY <4>1, <4>2
    <3> QED
      BY <1>5, <3>1, <3>2
  <2>2. RunSeq(runs') /\ queue' \in Seq(Tickets) /\ attempts' \in Nat /\ x.t \in Tickets
    BY <1>1, <2>1, CopyType DEF RTypeOK, TypeOK, RunSeq
  <2>3. CASE Store(x.t, rec, flushq, [k |-> "recovered", t |-> x.t])
    BY <1>1, <1>2, <2>1, <2>2, <2>3, StoredType
  <2>4. CASE UNCHANGED <<tickets, flushq>>
    BY <1>1, <2>1, <2>2, <2>4, PhasedType
  <2> QED
    BY <2>1, <2>3, <2>4
<1>6. CASE ListPanels \/ ListBacklog \/ RecoveryOver
  <2>1. UNCHANGED vars
    BY <1>6 DEF ListPanels, ListBacklog, RecoveryOver
  <2> QED
    BY <1>1, <2>1, NextType
<1>7. CASE Reenqueue
  <2>1. PICK x \in recovery.todo :
          /\ \/ UNCHANGED <<running, queue, runs>>
             \/ Pump(running, Append(queue, x.t), runs)
          /\ UNCHANGED <<tickets, handles, timers, flushq, attempts>>
    BY <1>7 DEF Reenqueue
  <2>2. running' \subseteq Tickets /\ queue' \in Seq(Tickets) /\ RunSeq(runs')
    <3>1. CASE UNCHANGED <<running, queue, runs>>
      BY <3>1, <1>1 DEF TypeOK, RunSeq
    <3>2. CASE Pump(running, Append(queue, x.t), runs)
      <4>1. Append(queue, x.t) \in Seq(Tickets) /\ running \in SUBSET Tickets
        BY <1>1, CopyType, AppendProperties DEF TypeOK
      <4> QED
        BY <1>1, <3>2, <4>1, PumpType DEF Pumped
    <3> QED
      BY <2>1, <3>1, <3>2
  <2> QED
    BY <1>1, <2>1, <2>2, Widen DEF TypeOK, RunSeq
<1>8. CASE Recovered
  <2>1. Tail(flushq) \in Seq(Continuation)
    BY <1>1, <1>8, HeadType DEF Recovered, Resumes
  <2> QED
    BY <1>1, <1>8, <2>1, PhasedType DEF Recovered
<1> QED
  BY <1>3, <1>4, <1>5, <1>6, <1>7, <1>8 DEF Recover

LEMMA RecoveryType ==
  ASSUME RTypeOK, Recover
  PROVE  RestartOK'
<1>1. crashes' = crashes
  BY DEF Recover, ResumeInterrupted, ResumeNothing, FailInterrupted, ListPanels, FailPanel,
         ListBacklog, Reenqueue, RecoveryOver, Recovered
<1>2. disk' \in Files /\ writing' \in Files
  <2>1. tickets' \in Files /\ tickets \in Files
    BY RecoverType DEF RTypeOK, TypeOK, Files
  <2>2. disk' \in {disk, writing} /\ writing' \in {writing, tickets, tickets'}
    BY DEF Recover, ResumeInterrupted, ResumeNothing, FailInterrupted, ListPanels, FailPanel,
           ListBacklog, Reenqueue, RecoveryOver, Recovered, FlushBegins, FlushEnds, Snapshot
  <2> QED
    BY <2>1, <2>2 DEF RTypeOK, RestartOK
<1>3. recovery' \in [phase : Recovering \cup {"over"}, todo : SUBSET Copies]
  <2>1. \A x, phase : phase \in Recovering /\ Done(x, phase)
          => recovery' \in [phase : Recovering \cup {"over"}, todo : SUBSET Copies]
    BY DEF Done, RTypeOK, RestartOK
  <2>2. \E todo \in SUBSET Copies, phase \in Recovering \cup {"over"} :
          \/ recovery' = [phase |-> phase, todo |-> todo]
          \/ recovery' = recovery
          \/ \E x : Done(x, phase) /\ phase \in Recovering
    <3>1. /\ Listed(tickets, PanelCutOff) \in SUBSET Copies
          /\ Listed(tickets, Waiting) \in SUBSET Copies
      BY ListedType DEF RTypeOK, TypeOK, Files
    <3>2. {} \in SUBSET Copies /\ {"resume", "panels", "backlog"} \subseteq Recovering
      BY DEF Recovering
    <3>3. CASE ListPanels \/ ListBacklog \/ RecoveryOver \/ Recovered
      BY <3>1, <3>2, <3>3 DEF ListPanels, ListBacklog, RecoveryOver, Recovered, Idle
    <3>4. CASE ResumeInterrupted \/ ResumeNothing \/ FailInterrupted \/ FailPanel \/ Reenqueue
      <4>1. \E x : Done(x, "resume") \/ Done(x, "panels") \/ Done(x, "backlog")
        BY <3>4 DEF ResumeInterrupted, ResumeNothing, FailInterrupted, FailPanel, Reenqueue
      <4> QED
        BY <3>2, <4>1
    <3> QED
      BY <3>3, <3>4 DEF Recover
  <2> QED
    BY <2>1, <2>2 DEF RTypeOK, RestartOK
<1> QED
  BY <1>1, <1>2, <1>3 DEF RestartOK, RTypeOK

LEMMA RunnersType ==
  ASSUME RTypeOK, RunnersStep
  PROVE  RTypeOK'
<1>1. TypeOK'
  BY RunnersNext, NextType DEF RTypeOK
<1>2. disk' \in {disk, writing} /\ writing' \in {writing, tickets, tickets'}
  BY DEF RunnersStep, FlushStep, UserStep, WorldStep, EarlyStep, FlushBegins, FlushEnds, Snapshot
<1>3. UNCHANGED <<recovery, crashes>>
  BY RunnersNext
<1> QED
  BY <1>1, <1>2, <1>3 DEF RTypeOK, RestartOK, TypeOK, Files

LEMMA RNextType ==
  ASSUME RTypeOK, [RNext]_allVars
  PROVE  RTypeOK'
<1>1. CASE UNCHANGED allVars
  <2>1. TypeOK'
    BY <1>1, NextType DEF allVars, RTypeOK
  <2> QED
    BY <1>1, <2>1 DEF allVars, restartVars, RTypeOK, RestartOK
<1>2. CASE RunnersStep
  BY <1>2, RunnersType
<1>3. CASE Recover
  BY <1>3, RecoverType, RecoveryType DEF RTypeOK
<1>4. CASE Crash
  BY <1>4, CrashType
<1> QED
  BY <1>1, <1>2, <1>3, <1>4 DEF RNext, RunnersStep

LEMMA RInitType == RInit => RTypeOK
<1> SUFFICES ASSUME RInit PROVE RTypeOK
  OBVIOUS
<1>1. TypeOK
  BY InitType DEF RInit
<1> QED
  BY <1>1 DEF RInit, RTypeOK, RestartOK, TypeOK, Files, Idle, Recovering

(***************************************************************************)
(* Every variable of the runner and of the file keeps its shape across     *)
(* restarts (load, recover).                                               *)
(***************************************************************************)
THEOREM RestartTypeCorrect == RSpec => []TypeOK
<1>1. RInit => RTypeOK
  BY RInitType
<1>2. RTypeOK /\ [RNext]_allVars => RTypeOK'
  BY RNextType
<1>3. RTypeOK => TypeOK
  BY DEF RTypeOK
<1> QED
  BY <1>1, <1>2, <1>3, PTL DEF RSpec

-----------------------------------------------------------------------------
(***************************************************************************)
(* The file.  The snapshot being written is the map unless another update  *)
(* waits behind it, which then has a flush of its own.                     *)
(***************************************************************************)
FileFollows ==
  /\ flushq = <<>> => disk = tickets
  /\ Len(flushq) = 1 => writing = tickets

\* Of the line of flushes fq is left; whoever writes the map queues a flush.
Saves(fq) ==
  \/ flushq' = fq /\ tickets' = tickets
  \/ \E c : flushq' = Append(fq, c)

LEMMA SettleSaves ==
  ASSUME NEW t, NEW state, NEW rs, NEW fq, Settle(t, state, rs, fq)
  PROVE  Saves(fq)
BY DEF Settle, Store, Saves

LEMMA AnswerSaves ==
  ASSUME NEW t, NEW rs, NEW fq, Answer(t, rs, fq)
  PROVE  Saves(fq)
BY SettleSaves DEF Answer, Fail, Store, Saves

LEMMA UserSaves ==
  ASSUME User
  PROVE  Saves(flushq)
BY AnswerSaves DEF User, Create, Retry, Reply, Cancel, Remove, Store, Saves

LEMMA WorldSaves ==
  ASSUME NEW r, World(r) \/ Announce(r) \/ Timeout(r)
  PROVE  Saves(flushq)
<1>1. CASE CwdRejected(r) \/ VerifierRejects(r) \/ VerifierThrows(r) \/ Committed(r) \/ Timeout(r)
  BY <1>1, SettleSaves
     DEF CwdRejected, VerifierRejects, VerifierThrows, Committed, Timeout, Fail, Saves
<1>2. CASE CwdAccepted(r) \/ AgentFails(r) \/ AgentAsks(r) \/ AgentReports(r) \/ AgentEndsLate(r)
  BY <1>2 DEF CwdAccepted, AgentFails, AgentAsks, AgentReports, AgentEndsLate, Store, Saves
<1>3. CASE \/ VerifierPasses(r) \/ VerdictIsLate(r) \/ PanelAnswers(r) \/ PanelIsLate(r)
           \/ Announce(r)
  BY <1>3 DEF VerifierPasses, VerdictIsLate, PanelAnswers, PanelIsLate, Announce, Store, Saves
<1> QED
  BY <1>1, <1>2, <1>3 DEF World

LEMMA FlushSaves ==
  ASSUME Flush
  PROVE  flushq # <<>> /\ Saves(Tail(flushq))
<1>1. flushq # <<>>
  BY DEF Flush, Spawned, SpawnThrows, Parked, Judging, Consulting, Escalated, Adopted,
         Enqueued, Released, Noted, Resumes
<1>2. CASE SpawnThrows \/ Adopted
  BY <1>1, <1>2, SettleSaves, AnswerSaves DEF SpawnThrows, Adopted, Fail
<1>3. CASE Spawned \/ Parked \/ Judging \/ Consulting \/ Escalated
  BY <1>1, <1>3 DEF Spawned, Parked, Judging, Consulting, Escalated, Store, Saves
<1>4. CASE Enqueued \/ Released \/ Noted
  BY <1>1, <1>4 DEF Enqueued, Released, Noted, Saves
<1> QED
  BY <1>1, <1>2, <1>3, <1>4 DEF Flush

LEMMA SavedLength ==
  ASSUME NEW fq, fq \in Seq(Continuation), Saves(fq)
  PROVE  \/ flushq' = fq /\ tickets' = tickets
         \/ Len(flushq') = Len(fq) + 1
<1>1. ASSUME NEW c, flushq' = Append(fq, c) PROVE Len(flushq') = Len(fq) + 1
  <2>1. fq \in Seq(Continuation \cup {c}) /\ c \in Continuation \cup {c}
    OBVIOUS
  <2> QED
    BY <1>1, <2>1, AppendProperties
<1> QED
  BY <1>1 DEF Saves

\* An update between two flushes.
LEMMA UpdateFollows ==
  ASSUME TypeOK, FileFollows, Saves(flushq), FlushBegins
  PROVE  FileFollows'
<1>1. flushq \in Seq(Continuation) /\ Len(flushq) \in Nat
  BY DEF TypeOK
<1>2. CASE flushq' = flushq /\ tickets' = tickets
  BY <1>2 DEF FileFollows, FlushBegins
<1>3. CASE Len(flushq') = Len(flushq) + 1
  <2>1. flushq' # <<>>
    BY <1>1, <1>3
  <2>2. CASE flushq = <<>>
    BY <2>1, <2>2 DEF FileFollows, FlushBegins
  <2>3. CASE flushq # <<>>
    <3>1. Len(flushq) # 0
      BY <1>1, <2>3, EmptySeq
    <3> QED
      BY <1>1, <1>3, <2>1, <3>1 DEF FileFollows
  <2> QED
    BY <2>2, <2>3
<1> QED
  BY <1>1, <1>2, <1>3, SavedLength

\* The end of a flush, and what its caller goes on to write.
LEMMA FlushFollows ==
  ASSUME TypeOK, FileFollows, flushq # <<>>, Saves(Tail(flushq)), FlushEnds
  PROVE  FileFollows'
<1>1. /\ flushq \in Seq(Continuation) /\ Len(flushq) \in Nat /\ Len(flushq) # 0
      /\ Tail(flushq) \in Seq(Continuation) /\ Len(Tail(flushq)) = Len(flushq) - 1
  BY HeadTailProperties, EmptySeq DEF TypeOK
<1>2. CASE flushq' = Tail(flushq) /\ tickets' = tickets
  <2>1. CASE Len(flushq) = 1
    <3>1. flushq' = <<>> /\ Len(flushq') = 0
      BY <1>1, <1>2, <2>1, EmptySeq
    <3> QED
      BY <1>2, <2>1, <3>1 DEF FileFollows, FlushEnds
  <2>2. CASE Len(flushq) > 1
    <3>1. writing' = tickets
      BY <2>2 DEF FlushEnds, Snapshot
    <3>2. Len(flushq') # 0
      BY <1>1, <1>2, <2>2
    <3>3. flushq' # <<>>
      BY <3>2, EmptySeq
    <3> QED
      BY <1>2, <3>1, <3>3 DEF FileFollows
  <2> QED
    BY <1>1, <2>1, <2>2
<1>3. CASE Len(flushq') = Len(Tail(flushq)) + 1
  <2>1. Len(flushq') = Len(flushq) /\ flushq' # <<>>
    BY <1>1, <1>3
  <2>2. CASE Len(flushq) = 1
    BY <2>1, <2>2 DEF FileFollows, FlushEnds
  <2> QED
    BY <2>1, <2>2 DEF FileFollows
<1> QED
  BY <1>1, <1>2, <1>3, SavedLength

LEMMA RNextFollows ==
  ASSUME TypeOK, FileFollows, [RNext]_allVars
  PROVE  FileFollows'
<1>1. CASE UNCHANGED allVars
  BY <1>1 DEF allVars, vars, restartVars, FileFollows
<1>2. CASE FlushStep
  BY <1>2, FlushSaves, FlushFollows DEF FlushStep
<1>3. CASE UserStep \/ \E r \in Runs : WorldStep(r) \/ EarlyStep(r)
  BY <1>3, UserSaves, WorldSaves, UpdateFollows DEF UserStep, WorldStep, EarlyStep
<1>4. CASE ResumeInterrupted \/ FailInterrupted \/ FailPanel
  <2>1. Saves(flushq) /\ FlushBegins
    BY <1>4 DEF ResumeInterrupted, FailInterrupted, FailPanel, Store, Saves
  <2> QED
    BY <2>1, UpdateFollows
<1>5. CASE ResumeNothing \/ ListPanels \/ ListBacklog \/ Reenqueue \/ RecoveryOver
  <2>1. UNCHANGED <<tickets, flushq, disk, writing>>
    BY <1>5 DEF ResumeNothing, ListPanels, ListBacklog, Reenqueue, RecoveryOver, vars
  <2> QED
    BY <2>1 DEF FileFollows
<1>6. CASE Recovered
  <2>1. flushq # <<>> /\ Saves(Tail(flushq)) /\ FlushEnds
    BY <1>6 DEF Recovered, Resumes, Saves
  <2> QED
    BY <2>1, FlushFollows
<1>7. CASE Crash
  <2>1. flushq' = <<>> /\ disk' = tickets' /\ Len(flushq') = 0
    <3>1. flushq' = <<>>
      BY <1>7 DEF Crash
    <3>2. disk' = tickets'
      BY <1>7, CrashLeaves
    <3> QED
      BY <3>1, <3>2, EmptySeq
  <2> QED
    BY <2>1 DEF FileFollows
<1> QED
  BY <1>1, <1>2, <1>3, <1>4, <1>5, <1>6, <1>7 DEF RNext, Recover

(***************************************************************************)
(* Whatever update, flush, crash or recovery comes when, a server with no  *)
(* flush pending has its tickets on file (serializedFlush, flush, load).   *)
(***************************************************************************)
THEOREM NothingStaysInMemory == RSpec => []FileCatchesUp
<1> DEFINE IInv == RTypeOK /\ FileFollows
<1>1. RInit => IInv
  <2>1. RInit => FileFollows
    BY DEF RInit, FileFollows
  <2> QED
    BY <2>1, RInitType
<1>2. IInv /\ [RNext]_allVars => IInv'
  BY RNextType, RNextFollows DEF RTypeOK
<1>3. IInv => FileCatchesUp
  BY DEF FileFollows, FileCatchesUp
<1> QED
  BY <1>1, <1>2, <1>3, PTL DEF RSpec

-----------------------------------------------------------------------------
(***************************************************************************)
(* The slots and the line of flushes: recover() is one more caller of the  *)
(* runner's chokepoints.                                                   *)
(***************************************************************************)

\* recover() takes a slot for a ticket it resumes.
Resumed(x) ==
  /\ x.was.session # NoRun
  /\ running' = running \cup {x.t}
  /\ runs' = Append(runs, NewRun(x.t, "starting", x.was.session, NoRun))
  /\ Store(x.t, [tickets[x.t] EXCEPT !.state = "running"],
           flushq, [k |-> "starting", r |-> Len(runs) + 1])
  /\ UNCHANGED <<queue, handles, timers, attempts>>

LEMMA ResumedRun ==
  ASSUME RTypeOK, NEW x \in recovery.todo, Resumed(x)
  PROVE  /\ Moves(runs', NoRun)
         /\ Len(runs') = Len(runs) + 1
         /\ \A s \in Runs : runs'[s] = runs[s]
         /\ runs'[Len(runs) + 1].id = x.t
         /\ runs'[Len(runs) + 1].pc = "starting"
         /\ runs'[Len(runs) + 1].answers = NoRun
<1> DEFINE e == NewRun(x.t, "starting", x.was.session, NoRun)
<1>1. TypeOK /\ RunSeq(runs) /\ runs \in Seq(RunRecord) /\ Len(runs) \in Nat
  BY SameRuns DEF RTypeOK, TypeOK
<1>2. x.t \in Tickets /\ x.was.session \in Nat
  BY CopyType
<1>3. "starting" \in Phases /\ NoRun \in Nat
  BY DEF Phases, Working, NoRun
<1>4. RunSeq(runs')
  BY <1>1, <1>2, <1>3, AddRun DEF Resumed
<1>5. e \in RunRecord /\ e.pc = "starting" /\ e.id = x.t /\ e.answers = NoRun
  BY <1>2, <1>3 DEF NewRun, RunRecord
<1>6. runs' = Append(runs, e)
  BY DEF Resumed
<1> HIDE DEF e
<1>7. /\ Len(runs') = Len(runs) + 1
      /\ \A i \in 1..Len(runs) : runs'[i] = runs[i]
      /\ runs'[Len(runs) + 1] = e
  BY <1>1, <1>5, <1>6, AppendProperties
<1>8. Moves(runs', NoRun)
  BY <1>4, <1>7 DEF Moves, Runs
<1> QED
  BY <1>5, <1>7, <1>8 DEF Runs

LEMMA ResumedStep ==
  ASSUME RTypeOK, NEW x \in recovery.todo, Resumed(x)
  PROVE  Step(NoRun, x.t, flushq)
<1> DEFINE new == Len(runs) + 1
           c == [k |-> "starting", r |-> new]
<1>1. Len(runs) \in Nat /\ Consumes(flushq, x.t) /\ Free(NoRun, flushq) /\ NoRun \notin Runs
  BY Nobody DEF RTypeOK, TypeOK
<1>2. new \in Runs' /\ new \notin Runs
  BY <1>1, ResumedRun DEF Runs
<1>3. c \in Continuation' /\ c.r = new /\ c.k = "starting" /\ runs'[new].pc = ResumedPhase("starting")
  BY <1>2, ResumedRun DEF Continuation, RunKinds, ResumedPhase
<1>4. flushq' = Append(flushq, c)
  BY DEF Resumed, Store
<1>5. Queues(flushq, NoRun)
  BY <1>2, <1>3, <1>4 DEF Queues
<1>6. WillDrive(x.t)
  BY <1>2, ResumedRun DEF WillDrive, Working
<1>7. Moves(runs', NoRun)
  BY ResumedRun
<1>8. running' = running \cup {x.t}
  BY DEF Resumed
<1> QED
  BY <1>1, <1>5, <1>6, <1>7, <1>8 DEF Step, KeepsSlot

\* recover() enqueues what is queued.
Requeues(t) ==
  /\ \/ UNCHANGED <<running, queue, runs>> /\ Known(t)
     \/ Pump(running, Append(queue, t), runs)
  /\ UNCHANGED <<tickets, handles, timers, flushq, attempts>>

LEMMA RequeuedRuns ==
  ASSUME TypeOK, NEW t \in Tickets, Pump(running, Append(queue, t), runs)
  PROVE  Pumped(running, Append(queue, t), runs) /\ Moves(runs', NoRun)
<1>1. Append(queue, t) \in Seq(Tickets) /\ running \in SUBSET Tickets
  BY AppendProperties DEF TypeOK
<1>2. Pumped(running, Append(queue, t), runs)
  BY <1>1, SameRuns, PumpType
<1>3. \A s \in Runs : runs'[s] = runs[s]
  BY <1>2 DEF Pumped, Runs
<1> QED
  BY <1>2, <1>3 DEF Moves, Pumped

LEMMA RequeuesStep ==
  ASSUME TypeOK, NEW t \in Tickets, Requeues(t)
  PROVE  Step(NoRun, t, flushq)
<1>1. /\ Consumes(flushq, t) /\ Free(NoRun, flushq) /\ NoRun \notin Runs /\ Moves(runs, NoRun)
      /\ Queues(flushq, NoRun)
  BY Nobody DEF Queues, Requeues
<1>2. CASE UNCHANGED <<running, runs>>
  BY <1>1, <1>2 DEF Step, KeepsSlot
<1>3. CASE Pump(running, Append(queue, t), runs)
  <2>1. Moves(runs', NoRun)
    BY <1>3, RequeuedRuns
  <2>2. \A u \in running' : u \in running \/ WillDrive(u)
    BY <1>3, RequeuedRuns DEF Pumped, WillDrive, Runs, Working
  <2> QED
    BY <1>1, <2>1, <2>2 DEF Step, KeepsSlot
<1> QED
  BY <1>2, <1>3 DEF Requeues

\* What recover() does, by what it does to the runner.
Writes(x, rec) ==
  /\ Store(x.t, rec, flushq, [k |-> "recovered", t |-> x.t])
  /\ UNCHANGED <<running, queue, handles, timers, runs, attempts>>

LEMMA Recoveries ==
  ASSUME Recover
  PROVE  \/ \E x \in recovery.todo : Exists(x.t) /\ Resumed(x)
         \/ \E x \in recovery.todo :
              ~Exists(x.t) /\ Release(x.t, runs) /\ UNCHANGED <<tickets, flushq>>
         \/ \E x \in recovery.todo : Exists(x.t) /\ Writes(x, Interrupted(tickets[x.t]))
         \/ \E x \in recovery.todo :
              Writes(x, [tickets[x.t] EXCEPT !.stage = "failed", !.about = x.was.about])
         \/ \E x \in recovery.todo : Requeues(x.t)
         \/ UNCHANGED vars
         \/ Recovered
<1>1. CASE ResumeInterrupted
  BY <1>1 DEF ResumeInterrupted, Resumed
<1>2. CASE ResumeNothing
  BY <1>2 DEF ResumeNothing
<1>3. CASE FailInterrupted
  BY <1>3 DEF FailInterrupted, Writes, vars
<1>4. CASE FailPanel
  BY <1>4 DEF FailPanel, Writes, vars
<1>5. CASE Reenqueue
  BY <1>5 DEF Reenqueue, Requeues
<1>6. CASE ListPanels \/ ListBacklog \/ RecoveryOver
  BY <1>6 DEF ListPanels, ListBacklog, RecoveryOver
<1> QED
  BY <1>1, <1>2, <1>3, <1>4, <1>5, <1>6 DEF Recover

LEMMA RecoveredType ==
  ASSUME TypeOK, Recovered
  PROVE  /\ flushq # <<>> /\ flushq' = Tail(flushq)
         /\ Head(flushq).k = "recovered" /\ Head(flushq).t \in Tickets
         /\ UNCHANGED <<tickets, running, queue, runs>>
BY HeadType DEF Recovered, Resumes, TicketKinds

LEMMA RecoverSteps ==
  ASSUME RTypeOK, Recover
  PROVE  Steps \/ UNCHANGED vars
<1>1. TypeOK /\ Moves(runs, NoRun)
  BY Nobody DEF RTypeOK
<1>2. \A x \in recovery.todo : x.t \in Tickets
  BY CopyType
<1>3. ASSUME NEW x \in recovery.todo, Release(x.t, runs), flushq' = flushq
      PROVE  Step(NoRun, x.t, flushq)
  BY <1>1, <1>2, <1>3, Nobody, ReleaseStep
<1>4. ASSUME NEW x \in recovery.todo, NEW rec, Writes(x, rec)
      PROVE  Step(NoRun, x.t, flushq)
  <2> DEFINE c == [k |-> "recovered", t |-> x.t]
  <2>1. c \in Continuation' /\ c.k \notin RunKinds
    BY <1>2 DEF Continuation, TicketKinds, RunKinds
  <2>2. running' = running /\ runs' = runs /\ flushq' = Append(flushq, c)
    BY <1>4 DEF Writes, Store
  <2> HIDE DEF c
  <2>3. Moves(runs', NoRun)
    BY <1>1, <2>2
  <2> QED
    BY <1>1, <1>2, <2>1, <2>2, <2>3, NobodysStep
<1>5. ASSUME Recovered
      PROVE  Step(NoRun, Head(flushq).t, Tail(flushq))
  <2> DEFINE t == Head(flushq).t
             fq == Tail(flushq)
  <2>1. /\ flushq # <<>> /\ flushq' = fq /\ Head(flushq).k = "recovered"
        /\ running' = running /\ runs' = runs
    BY <1>1, <1>5, RecoveredType
  <2>2. Consumes(fq, t)
    BY <2>1 DEF Consumes
  <2> HIDE DEF t, fq
  <2>3. Free(NoRun, fq) /\ NoRun \notin Runs /\ Moves(runs', NoRun)
    BY <1>1, <2>1, <2>2, FreeNobody, Nobody
  <2>4. Step(NoRun, t, fq)
    BY <2>1, <2>2, <2>3, IdleStep
  <2> QED
    BY <2>4 DEF t, fq
<1>6. \A x \in recovery.todo : Resumed(x) => Step(NoRun, x.t, flushq)
  BY ResumedStep
<1>7. \A x \in recovery.todo : Requeues(x.t) => Step(NoRun, x.t, flushq)
  BY <1>1, <1>2, RequeuesStep
<1> QED
  BY <1>3, <1>4, <1>5, <1>6, <1>7, Recoveries DEF Steps

LEMMA RNextKeeps ==
  ASSUME RTypeOK, ResumesOnce, SlotHasKeeper, [RNext]_allVars
  PROVE  ResumesOnce' /\ SlotHasKeeper'
<1>1. TypeOK /\ TypeOK'
  BY RNextType DEF RTypeOK
<1>2. CASE UNCHANGED allVars \/ RunnersStep
  <2>1. [Next]_vars
    BY <1>2, RunnersNext DEF allVars
  <2> QED
    BY <1>1, <2>1, NextKeeps
<1>3. CASE Recover
  <2>1. CASE UNCHANGED vars
    BY <1>1, <2>1, NextKeeps
  <2> QED
    BY <1>1, <1>3, <2>1, RecoverSteps, StepsKeep
<1>4. CASE Crash
  <2>1. flushq' = <<>> /\ running' = {} /\ Len(<<>>) = 0
    BY <1>4, EmptySeq DEF Crash
  <2> QED
    BY <2>1 DEF ResumesOnce, SlotHasKeeper
<1> QED
  BY <1>2, <1>3, <1>4 DEF RNext, RunnersStep

-----------------------------------------------------------------------------
(***************************************************************************)
(* Work in flight.  Before its turn a cut-off ticket is on recover()'s     *)
(* list; its turn resumes it, fails it, or finds it gone.                  *)
(***************************************************************************)
Cutting == recovery.phase \in {"boot", "resume"}

WorkIsRecovered ==
  \A t \in Tickets : Carried(t) \/ (Cutting /\ StillListed(t))

LEMMA ResumedChange ==
  ASSUME RTypeOK, NEW x \in recovery.todo, Resumed(x)
  PROVE  Change(NoRun, x.t) /\ Continues(x.t)
<1>1. x.t \in Tickets /\ TypeOK /\ NoRun \notin Runs
  BY CopyType, Nobody DEF RTypeOK
<1>2. [tickets[x.t] EXCEPT !.state = "running"].state = "running"
  BY CopyType DEF TicketRecord
<1>3. /\ tickets'[x.t].state = "running"
      /\ \A u \in Tickets \ {x.t} : tickets'[u] = tickets[u]
  BY <1>1, <1>2, OneWritten DEF Resumed
<1>4. Continues(x.t)
  BY <1>3, ResumedRun DEF Continues
<1> QED
  BY <1>1, <1>3, <1>4, ResumedRun DEF Change, Course

LEMMA WritesChange ==
  ASSUME RTypeOK, NEW x \in recovery.todo, NEW rec, Writes(x, rec),
         \/ rec.state \in Rested
         \/ rec.state = tickets[x.t].state /\ rec.question = tickets[x.t].question
  PROVE  Change(NoRun, x.t) /\ (rec.state \in Rested => Leaves(x.t))
<1>1. x.t \in Tickets /\ TypeOK /\ Moved(runs, NoRun) /\ NoRun \notin Runs
  BY CopyType, MovedNothing DEF RTypeOK
<1>2. tickets'[x.t] = rec /\ \A u \in Tickets \ {x.t} : tickets'[u] = tickets[u]
  BY <1>1, OneWritten DEF Writes
<1>3. runs' = runs
  BY DEF Writes
<1>4. rec.state \in Rested => Leaves(x.t)
  BY <1>2 DEF Leaves, Rested, Terminal, InFlight
<1>5. Leaves(x.t) \/ Stays(NoRun, x.t)
  BY <1>1, <1>2, <1>4 DEF Stays
<1>6. Mine(NoRun, x.t, runs')
  BY <1>1 DEF Mine
<1>7. Moved(runs', NoRun)
  BY <1>1, <1>3
<1> QED
  BY <1>1, <1>2, <1>4, <1>5, <1>6, <1>7, PlainChange

LEMMA RequeuesChange ==
  ASSUME TypeOK, NEW t \in Tickets, Requeues(t)
  PROVE  Change(NoRun, t)
<1>1. Moved(runs, NoRun) /\ NoRun \notin Runs /\ tickets' = tickets
  BY MovedNothing DEF Requeues
<1>2. Stays(NoRun, t) /\ Mine(NoRun, t, runs')
  BY <1>1 DEF Stays, Mine
<1>3. CASE UNCHANGED runs
  BY <1>1, <1>2, <1>3, PlainChange
<1>4. CASE Pump(running, Append(queue, t), runs)
  <2>1. Append(queue, t) \in Seq(Tickets) /\ running \in SUBSET Tickets
    BY AppendProperties DEF TypeOK
  <2>2. /\ Moves(runs', NoRun) /\ NothingAnswered
        /\ \A s \in Runs : runs'[s].answers = runs[s].answers
    BY <1>1, <1>4, <2>1, PumpChange
  <2> QED
    BY <1>1, <1>2, <2>2 DEF Change, Course
<1> QED
  BY <1>3, <1>4 DEF Requeues

LEMMA GoneChange ==
  ASSUME TypeOK, NEW t \in Tickets, ~Exists(t), Release(t, runs), UNCHANGED tickets
  PROVE  Change(NoRun, t) /\ Leaves(t)
<1>1. Moved(runs, NoRun) /\ Mine(NoRun, t, runs)
  BY MovedNothing DEF Mine
<1>2. Leaves(t)
  BY DEF Leaves, Exists, Absent, InFlight
<1> QED
  BY <1>1, <1>2, ReleaseChange

\* The first loop settles the ticket of its iteration.
LEMMA TurnOver ==
  ASSUME RTypeOK, ResumeInterrupted \/ ResumeNothing \/ FailInterrupted
  PROVE  \E x \in recovery.todo :
           /\ recovery' = [phase |-> "resume", todo |-> recovery.todo \ {x}]
           /\ \/ Change(NoRun, x.t) /\ (Continues(x.t) \/ Leaves(x.t))
              \/ ~Exists(x.t) /\ UNCHANGED vars
<1>1. TypeOK /\ \A x \in recovery.todo : x.t \in Tickets
  BY CopyType DEF RTypeOK
<1>2. CASE ResumeInterrupted
  <2>1. PICK x \in recovery.todo : Resumed(x) /\ Done(x, "resume")
    BY <1>2 DEF ResumeInterrupted, Resumed
  <2> QED
    BY <2>1, ResumedChange DEF Done
<1>3. CASE ResumeNothing
  <2>1. PICK x \in recovery.todo :
          ~Exists(x.t) /\ Release(x.t, runs) /\ UNCHANGED tickets /\ Done(x, "resume")
    BY <1>3 DEF ResumeNothing
  <2> QED
    BY <1>1, <2>1, GoneChange DEF Done
<1>4. CASE FailInterrupted
  <2>1. PICK x \in recovery.todo :
          /\ Done(x, "resume")
          /\ \/ Writes(x, Interrupted(tickets[x.t]))
             \/ ~Exists(x.t) /\ UNCHANGED vars
    BY <1>4 DEF FailInterrupted, Writes, vars
  <2>2. Interrupted(tickets[x.t]).state \in Rested
    BY CopyType DEF Interrupted, TicketRecord, Rested, Terminal
  <2> QED
    BY <2>1, <2>2, WritesChange DEF Done
<1> QED
  BY <1>2, <1>3, <1>4

LEMMA RecoverChanges ==
  ASSUME RTypeOK, Recover
  PROVE  Changes \/ UNCHANGED vars
<1>1. TypeOK /\ \A x \in recovery.todo : x.t \in Tickets
  BY CopyType DEF RTypeOK
<1>2. CASE ResumeInterrupted \/ ResumeNothing \/ FailInterrupted
  BY <1>2, TurnOver DEF Changes
<1>3. CASE FailPanel
  <2>1. PICK x \in recovery.todo :
          \/ Writes(x, [tickets[x.t] EXCEPT !.stage = "failed", !.about = x.was.about])
          \/ UNCHANGED vars
    BY <1>3 DEF FailPanel, Writes, vars
  <2> DEFINE rec == [tickets[x.t] EXCEPT !.stage = "failed", !.about = x.was.about]
  <2>2. rec.state = tickets[x.t].state /\ rec.question = tickets[x.t].question
    BY CopyType DEF TicketRecord
  <2>3. Writes(x, rec) \/ UNCHANGED vars
    BY <2>1
  <2> HIDE DEF rec
  <2> QED
    BY <2>2, <2>3, WritesChange DEF Changes
<1>4. CASE Reenqueue
  <2>1. PICK x \in recovery.todo : Requeues(x.t)
    BY <1>4 DEF Reenqueue, Requeues
  <2> QED
    BY <1>1, <2>1, RequeuesChange DEF Changes
<1>5. CASE Recovered
  <2>1. Head(flushq).t \in Tickets /\ tickets' = tickets /\ runs' = runs
    BY <1>1, <1>5, RecoveredType
  <2>2. Moved(runs', NoRun) /\ NoRun \notin Runs
    BY <1>1, <2>1, MovedNothing
  <2>3. Change(NoRun, Head(flushq).t)
    BY <1>1, <2>1, <2>2, PlainChange DEF Mine, Stays
  <2> QED
    BY <2>3 DEF Changes
<1>6. CASE ListPanels \/ ListBacklog \/ RecoveryOver
  BY <1>6 DEF ListPanels, ListBacklog, RecoveryOver
<1> QED
  BY <1>2, <1>3, <1>4, <1>5, <1>6 DEF Recover

LEMMA KeepsCarrying ==
  ASSUME TypeOK, Changes \/ UNCHANGED vars, NEW u \in Tickets, Carried(u)
  PROVE  Carried(u)'
<1>1. CASE UNCHANGED vars
  BY <1>1 DEF vars, Carried, Runs
<1> QED
  BY <1>1, ChangeCarries DEF Changes

LEMMA RNextRecovers ==
  ASSUME RTypeOK, ResumesOnce, WorkIsRecovered, [RNext]_allVars
  PROVE  WorkIsRecovered'
<1>1. TypeOK
  BY DEF RTypeOK
<1>2. ASSUME Changes \/ UNCHANGED vars, recovery' = recovery \/ ~Cutting
      PROVE  WorkIsRecovered'
  <2>1. ASSUME NEW u \in Tickets PROVE Carried(u)' \/ (Cutting' /\ StillListed(u)')
    <3>1. CASE Carried(u)
      BY <1>1, <1>2, <3>1, KeepsCarrying
    <3>2. CASE Cutting /\ StillListed(u)
      BY <1>2, <3>2 DEF Cutting, StillListed
    <3> QED
      BY <3>1, <3>2 DEF WorkIsRecovered
  <2> QED
    BY <2>1 DEF WorkIsRecovered
<1>3. CASE UNCHANGED allVars \/ RunnersStep
  <2>1. [Next]_vars /\ recovery' = recovery
    BY <1>3, RunnersNext DEF allVars, restartVars
  <2>2. Changes \/ UNCHANGED vars
    BY <1>1, <2>1, NextChanges
  <2> QED
    BY <1>2, <2>1, <2>2
<1>4. CASE ResumeInterrupted \/ ResumeNothing \/ FailInterrupted
  <2>1. PICK x \in recovery.todo :
          /\ recovery' = [phase |-> "resume", todo |-> recovery.todo \ {x}]
          /\ \/ Change(NoRun, x.t) /\ (Continues(x.t) \/ Leaves(x.t))
             \/ ~Exists(x.t) /\ UNCHANGED vars
    BY <1>4, TurnOver
  <2>2. Cutting' /\ recovery'.todo = recovery.todo \ {x}
    BY <2>1 DEF Cutting
  <2>3. ASSUME NEW u \in Tickets PROVE Carried(u)' \/ StillListed(u)'
    <3>1. CASE Carried(u)
      BY <1>1, <2>1, <3>1, KeepsCarrying DEF Changes
    <3>2. CASE u = x.t
      <4>1. CASE Change(NoRun, x.t) /\ (Continues(x.t) \/ Leaves(x.t))
        BY <1>1, <3>2, <4>1, ChangeCarries
      <4>2. CASE ~Exists(x.t) /\ UNCHANGED vars
        <5>1. Carried(u)
          BY <3>2, <4>2 DEF Carried, Exists, Absent
        <5> QED
          BY <1>1, <4>2, <5>1, KeepsCarrying
      <4> QED
        BY <2>1, <4>1, <4>2
    <3>3. CASE u # x.t /\ StillListed(u)
      BY <2>2, <3>3 DEF StillListed
    <3> QED
      BY <3>1, <3>2, <3>3 DEF WorkIsRecovered
  <2> QED
    BY <2>2, <2>3 DEF WorkIsRecovered
<1>5. CASE ListPanels
  <2>1. ~\E u \in Tickets : StillListed(u)
    BY <1>5 DEF ListPanels, StillListed
  <2>2. \A u \in Tickets : Carried(u)'
    <3>1. UNCHANGED vars
      BY <1>5 DEF ListPanels
    <3> QED
      BY <1>1, <2>1, <3>1, KeepsCarrying DEF WorkIsRecovered
  <2> QED
    BY <2>2 DEF WorkIsRecovered
<1>6. CASE FailPanel \/ ListBacklog \/ Reenqueue \/ RecoveryOver
  <2>1. ~Cutting
    BY <1>6 DEF FailPanel, ListBacklog, Reenqueue, RecoveryOver, Cutting
  <2>2. Changes \/ UNCHANGED vars
    BY <1>6, RecoverChanges DEF Recover
  <2> QED
    BY <1>2, <2>1, <2>2
<1>7. CASE Recovered
  <2>1. recovery' = recovery
    BY <1>7 DEF Recovered
  <2> QED
    BY <1>2, <1>7, <2>1, RecoverChanges DEF Recover
<1>8. CASE Crash
  <2>1. PICK file : /\ tickets' = file
                    /\ recovery' = [phase |-> "boot", todo |-> Listed(file, CutOff)]
    BY <1>8, CrashLeaves
  <2>2. ASSUME NEW u \in Tickets, tickets'[u].state \in InFlight PROVE StillListed(u)'
    <3>1. [t |-> u, was |-> file[u]] \in Listed(file, CutOff)
      BY <2>1, <2>2 DEF Listed, CutOff
    <3> QED
      BY <2>1, <3>1 DEF StillListed
  <2>3. Cutting'
    BY <2>1 DEF Cutting
  <2>4. \A u \in Tickets : tickets'[u].state \notin InFlight => Carried(u)'
    BY DEF Carried, InFlight
  <2> QED
    BY <2>2, <2>3, <2>4 DEF WorkIsRecovered
<1> QED
  BY <1>3, <1>4, <1>5, <1>6, <1>7, <1>8 DEF RNext, Recover, RunnersStep

LEMMA RInitKeeps == RInit => ResumesOnce /\ SlotHasKeeper
BY InitKeeps DEF RInit

(***************************************************************************)
(* However often the server stops, no ticket stays in flight with nobody   *)
(* to drive it (recover, resumeInterrupted, onMainDone).                   *)
(***************************************************************************)
THEOREM RestartStrandsNobody == RSpec => []InFlightIsRecovered
<1> DEFINE IInv == RTypeOK /\ ResumesOnce /\ SlotHasKeeper /\ WorkIsRecovered
<1>1. RInit => IInv
  <2>1. RInit => WorkIsRecovered
    BY DEF RInit, Init, WorkIsRecovered, Carried
  <2> QED
    BY <2>1, RInitType, RInitKeeps
<1>2. IInv /\ [RNext]_allVars => IInv'
  BY RNextType, RNextKeeps, RNextRecovers
<1>3. IInv => InFlightIsRecovered
  BY DEF WorkIsRecovered, InFlightIsRecovered, Cutting, Carried, InFlight, Driven,
         Early, Late, Working
<1> QED
  BY <1>1, <1>2, <1>3, PTL DEF RSpec
-----------------------------------------------------------------------------
(***************************************************************************)
(* Panels.  A ticket that shows its panel as deciding has the run of that  *)
(* panel, or the continuation that starts it; after a restart the second   *)
(* loop of recover() hands the ticket to the human.                        *)
(***************************************************************************)
Consults(r) ==
  \/ runs[r].pc = "advising"
  \/ \E i \in 1..Len(flushq) : flushq[i] = [k |-> "consult", r |-> r]

Attended(t) == \E r \in Runs : runs[r].id = t /\ Consults(r)

Escorted(t) == Deciding(t) => Attended(t)

PanelIsRecovered ==
  \A t \in Tickets :
    Escorted(t) \/ Cutting \/ (recovery.phase = "panels" /\ StillListed(t))

LEMMA KeepingEscorts ==
  ASSUME TypeOK, NEW r, NEW fq, Moves(runs', r), LeftOver(fq), Lengthens(fq),
         KeepsPanel(r, fq), NEW u \in Tickets, Escorted(u)
  PROVE  Escorted(u)'
<1>1. PICK d \in {0, 1} :
        /\ d = 0 => fq = flushq
        /\ d = 1 => fq # flushq /\ flushq # <<>> /\ Head(flushq) = flushq[1]
        /\ \A i \in 1..Len(flushq) : i > d =>
             i - d \in 1..Len(flushq') /\ flushq'[i - d] = flushq[i]
  BY InLine DEF Moves
<1>2. Runs \subseteq Runs' /\ Len(flushq) \in Nat
  BY Widen DEF Moves, TypeOK
<1>3. SUFFICES ASSUME WillDecide(u) PROVE WillAttend(u)
  BY DEF Escorted, Deciding, WillDecide, Attended, Consults, WillAttend
<1>5. ASSUME NEW s \in Runs, runs[s].id = u, runs[s].pc = "advising" PROVE WillAttend(u)
  <2>1. s # r
    BY <1>3, <1>5 DEF KeepsPanel
  <2>2. runs'[s].pc = "advising" /\ runs'[s].id = u
    BY <1>5, <2>1 DEF Moves
  <2> QED
    BY <1>2, <2>2 DEF WillAttend
<1>6. ASSUME NEW s \in Runs, runs[s].id = u,
             NEW i \in 1..Len(flushq), flushq[i] = [k |-> "consult", r |-> s]
      PROVE  WillAttend(u)
  <2>1. runs'[s].id = u /\ s \in Runs'
    BY <1>2, <1>6 DEF Moves
  <2>2. CASE i > d
    <3>1. i - d \in 1..Len(flushq') /\ flushq'[i - d] = [k |-> "consult", r |-> s]
      BY <1>1, <1>6, <2>2
    <3> QED
      BY <2>1, <3>1 DEF WillAttend
  <2>3. CASE ~(i > d)
    <3>1. i = 1 /\ d = 1
      BY <2>3
    <3>2. fq # flushq /\ Head(flushq) = [k |-> "consult", r |-> s]
      BY <1>1, <1>6, <3>1
    <3>3. Head(flushq).k = "consult" /\ Head(flushq).r = s
      BY <3>2
    <3>4. runs'[s].pc = "advising"
      BY <3>2, <3>3 DEF KeepsPanel
    <3> QED
      BY <2>1, <3>4 DEF WillAttend
  <2> QED
    BY <2>2, <2>3
<1>7. CASE Deciding(u)
  <2>1. PICK s \in Runs : runs[s].id = u /\ Consults(s)
    BY <1>7 DEF Escorted, Attended
  <2> QED
    BY <1>5, <1>6, <2>1 DEF Consults
<1>8. CASE ~Deciding(u)
  BY <1>3, <1>8 DEF KeepsPanel
<1> QED
  BY <1>7, <1>8

LEMMA NextEscorts ==
  ASSUME TypeOK, ResumesOnce, [Next]_vars, NEW u \in Tickets, Escorted(u)
  PROVE  Escorted(u)'
<1>1. CASE UNCHANGED vars
  BY <1>1 DEF vars, Escorted, Deciding, Attended, Consults, Runs
<1>2. CASE Next
  <2>1. Keepings
    BY <1>2, UserKeeping, AgentKeeping, WorldKeeping, TimerKeeping, FlushKeeping
       DEF Next, User, World
  <2> QED
    BY <2>1, KeepingEscorts DEF Keepings, Keeping
<1> QED
  BY <1>1, <1>2

\* What a step of recover() does to the panels.
Escorts == \E r, fq : Moves(runs', r) /\ LeftOver(fq) /\ Lengthens(fq) /\ KeepsPanel(r, fq)

LEMMA RecoverEscorts ==
  ASSUME RTypeOK, Recover
  PROVE  Escorts \/ UNCHANGED vars
<1>1. TypeOK /\ NoRun \notin Runs /\ Moves(runs, NoRun)
  BY Nobody DEF RTypeOK
<1>2. \A x \in recovery.todo : x.t \in Tickets /\ tickets[x.t] \in TicketRecord
  BY CopyType
<1>3. ASSUME Moves(runs', NoRun), Lengthens(flushq),
             \A u \in Tickets : WillDecide(u) => Deciding(u)
      PROVE  Escorts
  <2>1. KeepsPanel(NoRun, flushq) /\ LeftOver(flushq)
    BY <1>1, <1>3 DEF KeepsPanel, LeftOver
  <2> QED
    BY <1>3, <2>1 DEF Escorts
<1>4. ASSUME NEW x \in recovery.todo, Exists(x.t), Resumed(x)
      PROVE  Escorts
  <2>1. [tickets[x.t] EXCEPT !.state = "running"].state = "running"
    BY <1>2 DEF TicketRecord
  <2>2. /\ tickets'[x.t].state = "running"
        /\ \A u \in Tickets \ {x.t} : tickets'[u] = tickets[u]
    BY <1>1, <1>2, <1>4, <2>1, OneWritten DEF Resumed
  <2>3. \A u \in Tickets : WillDecide(u) => Deciding(u)
    BY <2>2 DEF WillDecide, Deciding
  <2> DEFINE c == [k |-> "starting", r |-> Len(runs) + 1]
  <2>4. Moves(runs', NoRun) /\ Len(runs') = Len(runs) + 1 /\ Len(runs) \in Nat
    BY <1>1, <1>4, ResumedRun DEF TypeOK
  <2>5. c \in Continuation' /\ flushq' = Append(flushq, c)
    BY <1>4, <2>4 DEF Resumed, Store, Continuation, RunKinds, Runs
  <2> HIDE DEF c
  <2> QED
    BY <1>3, <2>3, <2>4, <2>5 DEF Lengthens
<1>5. ASSUME NEW x \in recovery.todo, ~Exists(x.t), Release(x.t, runs), UNCHANGED <<tickets, flushq>>
      PROVE  Escorts
  <2>1. Moves(runs', NoRun)
    BY <1>1, <1>2, <1>5, ReleaseRuns
  <2> QED
    BY <1>3, <1>5, <2>1, SameDeciding DEF Lengthens
<1>6. ASSUME NEW x \in recovery.todo, NEW rec, Writes(x, rec),
             ~(rec.state = "decision" /\ rec.stage = "deciding")
      PROVE  Escorts
  <2>1. tickets'[x.t] = rec /\ \A u \in Tickets \ {x.t} : tickets'[u] = tickets[u]
    BY <1>1, <1>2, <1>6, OneWritten DEF Writes
  <2>2. \A u \in Tickets : WillDecide(u) => Deciding(u)
    BY <1>6, <2>1 DEF WillDecide, Deciding
  <2> DEFINE c == [k |-> "recovered", t |-> x.t]
  <2>3. c \in Continuation' /\ flushq' = Append(flushq, c)
    BY <1>2, <1>6 DEF Writes, Store, Continuation, TicketKinds
  <2> HIDE DEF c
  <2>4. Moves(runs', NoRun)
    BY <1>1, <1>6 DEF Writes
  <2> QED
    BY <1>3, <2>2, <2>3, <2>4 DEF Lengthens
<1>7. ASSUME NEW x \in recovery.todo PROVE Interrupted(tickets[x.t]).state # "decision"
  BY <1>2 DEF Interrupted, TicketRecord
<1>8. ASSUME NEW x \in recovery.todo
      PROVE  [tickets[x.t] EXCEPT !.stage = "failed", !.about = x.was.about].stage # "deciding"
  BY <1>2 DEF TicketRecord
<1>9. ASSUME NEW x \in recovery.todo, Requeues(x.t) PROVE Escorts
  <2>1. Moves(runs', NoRun)
    BY <1>1, <1>2, <1>9, RequeuedRuns DEF Requeues
  <2> QED
    BY <1>3, <1>9, <2>1, SameDeciding DEF Requeues, Lengthens
<1>10. ASSUME Recovered PROVE Escorts
  <2>1. /\ flushq # <<>> /\ flushq' = Tail(flushq) /\ Head(flushq).k = "recovered"
        /\ UNCHANGED <<tickets, runs>>
    BY <1>1, <1>10, RecoveredType
  <2>2. Moves(runs', NoRun) /\ KeepsPanel(NoRun, flushq')
    BY <1>1, <2>1, SameDeciding DEF KeepsPanel
  <2>3. LeftOver(flushq') /\ Lengthens(flushq')
    BY <2>1 DEF LeftOver, Lengthens
  <2> QED
    BY <2>2, <2>3 DEF Escorts
<1> QED
  BY <1>4, <1>5, <1>6, <1>7, <1>8, <1>9, <1>10, Recoveries

\* The second loop ends the panel of the ticket it comes to.
LEMMA PanelEnds ==
  ASSUME RTypeOK, FailPanel
  PROVE  \E x \in recovery.todo :
           /\ recovery' = [phase |-> "panels", todo |-> recovery.todo \ {x}]
           /\ ~WillDecide(x.t)
<1>1. PICK x \in recovery.todo :
        /\ Done(x, "panels")
        /\ \/ Store(x.t, [tickets[x.t] EXCEPT !.stage = "failed", !.about = x.was.about],
                    flushq, [k |-> "recovered", t |-> x.t])
           \/ ~Exists(x.t) /\ UNCHANGED tickets
  BY DEF FailPanel
<1>2. x.t \in Tickets /\ TypeOK /\ tickets[x.t] \in TicketRecord
  BY CopyType DEF RTypeOK
<1> DEFINE rec == [tickets[x.t] EXCEPT !.stage = "failed", !.about = x.was.about]
<1>3. rec.stage = "failed"
  BY <1>2 DEF TicketRecord
<1>4. ASSUME Store(x.t, rec, flushq, [k |-> "recovered", t |-> x.t])
      PROVE  ~WillDecide(x.t)
  <2>1. tickets'[x.t] = rec
    BY <1>2, <1>4, OneWritten
  <2> HIDE DEF rec
  <2> QED
    BY <1>3, <2>1 DEF WillDecide
<1>5. ASSUME ~Exists(x.t) /\ UNCHANGED tickets PROVE ~WillDecide(x.t)
  BY <1>5 DEF WillDecide, Exists, Absent
<1> QED
  BY <1>1, <1>4, <1>5 DEF Done

LEMMA StillEscorted ==
  ASSUME RTypeOK, ResumesOnce, [Next]_vars \/ Recover, NEW u \in Tickets, Escorted(u)
  PROVE  Escorted(u)'
<1>1. TypeOK
  BY DEF RTypeOK
<1>2. CASE [Next]_vars
  BY <1>1, <1>2, NextEscorts
<1>3. CASE Recover
  <2>1. CASE Escorts
    BY <1>1, <2>1, KeepingEscorts DEF Escorts
  <2>2. CASE UNCHANGED vars
    BY <1>1, <2>2, NextEscorts
  <2> QED
    BY <1>3, <2>1, <2>2, RecoverEscorts
<1> QED
  BY <1>2, <1>3

LEMMA RNextEscorts ==
  ASSUME RTypeOK, ResumesOnce, PanelIsRecovered, [RNext]_allVars
  PROVE  PanelIsRecovered'
<1>1. CASE UNCHANGED allVars \/ RunnersStep \/ Recovered
  <2>1. recovery' = recovery /\ ([Next]_vars \/ Recover)
    BY <1>1, RunnersNext DEF allVars, restartVars, Recover, Recovered
  <2>2. ASSUME NEW u \in Tickets
        PROVE  Escorted(u)' \/ Cutting' \/ (recovery'.phase = "panels" /\ StillListed(u)')
    BY <2>1, StillEscorted DEF PanelIsRecovered, Cutting, StillListed
  <2> QED
    BY <2>2 DEF PanelIsRecovered
<1>2. CASE ResumeInterrupted \/ ResumeNothing \/ FailInterrupted
  <2>1. Cutting'
    BY <1>2, TurnOver DEF Cutting
  <2> QED
    BY <2>1 DEF PanelIsRecovered
<1>3. CASE ListPanels
  <2>1. recovery' = [phase |-> "panels", todo |-> Listed(tickets, PanelCutOff)] /\ UNCHANGED vars
    BY <1>3 DEF ListPanels
  <2>2. ASSUME NEW u \in Tickets
        PROVE  Escorted(u)' \/ (recovery'.phase = "panels" /\ StillListed(u)')
    <3>1. CASE Deciding(u)
      <4>1. [t |-> u, was |-> tickets[u]] \in Listed(tickets, PanelCutOff)
        BY <3>1 DEF Listed, PanelCutOff, Deciding
      <4> QED
        BY <2>1, <4>1 DEF StillListed
    <3>2. CASE ~Deciding(u)
      <4>1. ~Deciding(u)'
        BY <2>1, <3>2 DEF Deciding, vars
      <4> QED
        BY <4>1 DEF Escorted
    <3> QED
      BY <3>1, <3>2
  <2> QED
    BY <2>2 DEF PanelIsRecovered
<1>4. CASE FailPanel
  <2>1. PICK x \in recovery.todo :
          /\ recovery' = [phase |-> "panels", todo |-> recovery.todo \ {x}]
          /\ ~WillDecide(x.t)
    BY <1>4, PanelEnds
  <2>2. ASSUME NEW u \in Tickets
        PROVE  Escorted(u)' \/ (recovery'.phase = "panels" /\ StillListed(u)')
    <3>1. CASE Escorted(u)
      BY <1>4, <3>1, StillEscorted DEF Recover
    <3>2. CASE u = x.t
      BY <2>1, <3>2 DEF Escorted, Deciding, WillDecide
    <3>3. CASE ~Escorted(u) /\ u # x.t
      <4>1. recovery.phase = "panels" /\ StillListed(u)
        BY <1>4, <3>3 DEF PanelIsRecovered, FailPanel, Cutting
      <4> QED
        BY <2>1, <3>3, <4>1 DEF StillListed
    <3> QED
      BY <3>1, <3>2, <3>3
  <2> QED
    BY <2>2 DEF PanelIsRecovered
<1>5. CASE ListBacklog \/ Reenqueue \/ RecoveryOver
  <2>1. ~Cutting /\ ~(recovery.phase = "panels" /\ \E x \in recovery.todo : TRUE)
    BY <1>5 DEF ListBacklog, Reenqueue, RecoveryOver, Cutting
  <2>2. \A u \in Tickets : Escorted(u)
    BY <2>1 DEF PanelIsRecovered, StillListed
  <2>3. \A u \in Tickets : Escorted(u)'
    BY <1>5, <2>2, StillEscorted DEF Recover
  <2> QED
    BY <2>3 DEF PanelIsRecovered
<1>6. CASE Crash
  <2>1. Cutting'
    BY <1>6, CrashLeaves DEF Cutting
  <2> QED
    BY <2>1 DEF PanelIsRecovered
<1> QED
  BY <1>1, <1>2, <1>3, <1>4, <1>5, <1>6 DEF RNext, Recover, RunnersStep

(***************************************************************************)
(* However often the server stops, a question that shows a panel as        *)
(* deciding has that panel, or recover() will hand it to the human         *)
(* (consultPanel, recover).                                                *)
(***************************************************************************)
THEOREM NoPanelIsForgotten == RSpec => []DecidingIsAttended
<1> DEFINE IInv == RTypeOK /\ ResumesOnce /\ SlotHasKeeper /\ PanelIsRecovered
<1>1. RInit => IInv
  <2>1. RInit => PanelIsRecovered
    BY DEF RInit, Init, PanelIsRecovered, Escorted, Deciding
  <2> QED
    BY <2>1, RInitType, RInitKeeps
<1>2. IInv /\ [RNext]_allVars => IInv'
  BY RNextType, RNextKeeps, RNextEscorts
<1>3. IInv => DecidingIsAttended
  <2> SUFFICES ASSUME IInv, NEW t \in Tickets, Deciding(t)
               PROVE  \/ \E r \in Runs : runs[r].id = t /\ runs[r].pc \in {"consulting", "advising"}
                      \/ recovery.phase \in {"boot", "resume"}
                      \/ recovery.phase = "panels" /\ StillListed(t)
    BY DEF DecidingIsAttended, Deciding
  <2>1. CASE Escorted(t)
    <3>1. PICK r \in Runs : runs[r].id = t /\ Consults(r)
      BY <2>1 DEF Escorted, Attended
    <3>2. ASSUME NEW i \in 1..Len(flushq), flushq[i] = [k |-> "consult", r |-> r]
          PROVE  runs[r].pc = "consulting"
      <4>1. flushq[i].k = "consult" /\ flushq[i].r = r
        BY <3>2
      <4> QED
        BY <4>1 DEF ResumesOnce, Awaits, RunKinds, ResumedPhase
    <3> QED
      BY <3>1, <3>2 DEF Consults
  <2> QED
    BY <2>1 DEF PanelIsRecovered, Cutting
<1> QED
  BY <1>1, <1>2, <1>3, PTL DEF RSpec
-----------------------------------------------------------------------------
(***************************************************************************)
(* The backlog after a restart.  A run that is over and has no timer left  *)
(* is asleep for good, and a ticket whose runs all sleep is moved by a     *)
(* request only.                                                           *)
(***************************************************************************)
Asleep(r) == runs[r].pc = "over" /\ ~runs[r].armed

Called(u) == tickets[u].state \in {"queued", "decision"}

Request(u) ==
  \/ tickets[u].state \in {"unborn", "decision"}
  \/ tickets[u].state = "failed" /\ "retry" \in Operations
  \/ tickets'[u].state = "failed" /\ "cancel" \in Operations
  \/ tickets'[u].state = "removed"

Of(r, u) == r \in Runs /\ runs[r].id = u

Authored(r) ==
  \A u \in Tickets : tickets'[u].state # tickets[u].state => Of(r, u) \/ Request(u)

\* The runs rs are those of now, but that r may have moved.
Dozes(rs, r) ==
  /\ RunSeq(rs)
  /\ \A s \in Runs : rs[s].id = runs[s].id
  /\ \A s \in Runs \ {r} : Asleep(s) => rs[s].pc = "over" /\ ~rs[s].armed

\* The step is one of the run r, which is awake, or of nobody.
Rouses(r) ==
  /\ r \in Runs => ~Asleep(r)
  /\ Dozes(runs', r)
  /\ \A s \in Runs' \ Runs : Called(runs'[s].id)
  /\ \A u \in running' \ running : Called(u)
  /\ Authored(r)

LEMMA DozesNothing ==
  ASSUME TypeOK, NEW r
  PROVE  Dozes(runs, r)
BY SameRuns DEF Dozes, Asleep

LEMMA DozesPhase ==
  ASSUME TypeOK, NEW r \in Runs, NEW p \in Phases
  PROVE  Dozes(Phase(r, p), r) /\ Len(Phase(r, p)) = Len(runs)
<1>1. runs \in Seq(RunRecord) /\ runs[r] \in RunRecord
  BY RunType DEF TypeOK
<1>2. \A s \in Runs : Phase(r, p)[s] = IF s = r THEN [runs[r] EXCEPT !.pc = p] ELSE runs[s]
  BY <1>1 DEF Phase, Runs
<1>3. [runs[r] EXCEPT !.pc = p].id = runs[r].id
  BY <1>1 DEF RunRecord
<1> QED
  BY <1>2, <1>3, SetPhase DEF Dozes, Asleep

LEMMA DozesFlag ==
  ASSUME TypeOK, NEW r, NEW rs, Dozes(rs, r), Len(rs) = Len(runs), NEW i \in Runs
  PROVE  Dozes([rs EXCEPT ![i].armed = FALSE], r) /\ Len([rs EXCEPT ![i].armed = FALSE]) = Len(runs)
<1> DEFINE e == [rs[i] EXCEPT !.armed = FALSE]
           new == [rs EXCEPT ![i] = e]
<1>1. rs \in Seq(RunRecord) /\ i \in 1..Len(rs) /\ rs[i] \in RunRecord /\ Runs = 1..Len(rs)
  BY ElementOfSeq DEF Dozes, RunSeq, Runs
<1>2. e \in RunRecord /\ e.pc = rs[i].pc /\ e.id = rs[i].id /\ ~e.armed
  BY <1>1 DEF RunRecord
<1>3. [rs EXCEPT ![i].armed = FALSE] = new
  OBVIOUS
<1> HIDE DEF e
<1>4. new \in Seq(RunRecord) /\ Len(new) = Len(rs) /\ new[i] = e
      /\ \A j \in 1..Len(rs) : j # i => new[j] = rs[j]
  BY <1>1, <1>2, PutRecord
<1> HIDE DEF new
<1>5. RunSeq(new)
  BY <1>4 DEF Dozes, RunSeq
<1>6. \A s \in Runs : new[s].id = rs[s].id /\ new[s].pc = rs[s].pc /\ (~rs[s].armed => ~new[s].armed)
  BY <1>1, <1>2, <1>4
<1> QED
  BY <1>3, <1>4, <1>5, <1>6 DEF Dozes

LEMMA DozesDisarmed ==
  ASSUME TypeOK, NEW t \in Tickets, NEW r, NEW rs, Dozes(rs, r), Len(rs) = Len(runs)
  PROVE  Dozes(Disarmed(t, rs), r) /\ Len(Disarmed(t, rs)) = Len(runs)
<1>1. CASE timers[t] = NoRun
  BY <1>1 DEF Disarmed
<1>2. CASE timers[t] # NoRun
  <2> DEFINE i == timers[t]
  <2>1. i \in Runs
    BY <1>2 DEF TypeOK
  <2>2. Disarmed(t, rs) = [rs EXCEPT ![i].armed = FALSE]
    BY <1>2 DEF Disarmed
  <2> HIDE DEF i
  <2>3. /\ Dozes([rs EXCEPT ![i].armed = FALSE], r)
        /\ Len([rs EXCEPT ![i].armed = FALSE]) = Len(runs)
    BY <2>1, DozesFlag
  <2> QED
    BY <2>2, <2>3
<1> QED
  BY <1>1, <1>2

LEMMA DozesKill ==
  ASSUME TypeOK, NEW r, NEW t \in Tickets
  PROVE  Dozes(Kill(t), r) /\ Len(Kill(t)) = Len(runs)
<1>1. CASE handles[t] # NoRun /\ runs[handles[t]].pc = "live"
  <2> DEFINE h == handles[t]
  <2>1. h \in Runs /\ "killed" \in Phases /\ ~Asleep(h)
    BY <1>1 DEF TypeOK, Phases, Working, Alive, Asleep
  <2>2. Kill(t) = Phase(h, "killed")
    BY <1>1 DEF Kill
  <2> HIDE DEF h
  <2>3. Dozes(Phase(h, "killed"), h) /\ Len(Phase(h, "killed")) = Len(runs)
    BY <2>1, DozesPhase
  <2> QED
    BY <2>1, <2>2, <2>3 DEF Dozes
<1>2. CASE ~(handles[t] # NoRun /\ runs[handles[t]].pc = "live")
  BY <1>2, DozesNothing DEF Kill
<1> QED
  BY <1>1, <1>2

-----------------------------------------------------------------------------
(* The chokepoints, and then every action, rouse one run at most.          *)

LEMMA StoreAuthored ==
  ASSUME TypeOK, NEW r, NEW t \in Tickets, NEW rec, NEW fq, NEW c, Store(t, rec, fq, c),
         Of(r, t) \/ rec.state = tickets[t].state \/ Request(t)
  PROVE  Authored(r)
BY OneWritten DEF Authored

LEMMA PlainRouses ==
  ASSUME TypeOK, NEW r, r \in Runs => ~Asleep(r), Dozes(runs', r), Len(runs') = Len(runs),
         running' \subseteq running, Authored(r)
  PROVE  Rouses(r)
<1>1. Runs' = Runs
  BY DEF Runs
<1> QED
  BY <1>1 DEF Rouses

LEMMA PumpRouses ==
  ASSUME TypeOK, NEW r, r \in Runs => ~Asleep(r), NEW rs, Dozes(rs, r), Len(rs) = Len(runs),
         NEW R \in SUBSET Tickets, R \subseteq running, NEW q \in Seq(Tickets), Pump(R, q, rs),
         Authored(r)
  PROVE  Rouses(r)
<1>1. RunSeq(rs) /\ Runs = 1..Len(rs)
  BY DEF Dozes, Runs
<1>2. Pumped(R, q, rs)
  BY <1>1, PumpType
<1>3. \A s \in Runs : runs'[s] = rs[s]
  BY <1>1, <1>2 DEF Pumped
<1>4. Dozes(runs', r)
  BY <1>2, <1>3 DEF Dozes, Pumped
<1>5. \A s \in Runs' \ Runs : Called(runs'[s].id)
  BY <1>1, <1>2 DEF Pumped, Called, Runs
<1>6. \A u \in running' \ running : Called(u)
  BY <1>2 DEF Pumped, Called
<1> QED
  BY <1>4, <1>5, <1>6 DEF Rouses

LEMMA ReleaseRouses ==
  ASSUME TypeOK, NEW r, r \in Runs => ~Asleep(r), NEW t \in Tickets, NEW rs, Dozes(rs, r),
         Len(rs) = Len(runs), Release(t, rs), Authored(r)
  PROVE  Rouses(r)
<1> DEFINE R == running \ {t}
           left == Disarmed(t, rs)
<1>1. Dozes(left, r) /\ Len(left) = Len(runs)
  BY DozesDisarmed
<1>2. Pump(R, queue, left) /\ R \in SUBSET Tickets /\ R \subseteq running /\ queue \in Seq(Tickets)
  BY DEF Release, TypeOK
<1> HIDE DEF R, left
<1> QED
  BY <1>1, <1>2, PumpRouses

LEMMA SettleRouses ==
  ASSUME TypeOK, NEW r, r \in Runs => ~Asleep(r), NEW t \in Tickets, NEW rs, Dozes(rs, r),
         Len(rs) = Len(runs), NEW state, NEW fq, Settle(t, state, rs, fq), Of(r, t) \/ Request(t)
  PROVE  Rouses(r)
<1>1. CASE /\ Store(t, [tickets[t] EXCEPT !.state = state], fq, ThenRelease(t))
           /\ runs' = rs /\ running' = running
  <2>1. Authored(r)
    BY <1>1, StoreAuthored
  <2> QED
    BY <1>1, <2>1, PlainRouses
<1>2. CASE Release(t, rs) /\ tickets' = tickets
  <2>1. Authored(r)
    BY <1>2 DEF Authored
  <2> QED
    BY <1>2, <2>1, ReleaseRouses
<1> QED
  BY <1>1, <1>2 DEF Settle

LEMMA AnswerRouses ==
  ASSUME TypeOK, NEW r, r \in Runs => ~Asleep(r), NEW t \in Tickets, NEW rs, Dozes(rs, r),
         Len(rs) = Len(runs), NEW fq, Answer(t, rs, fq)
  PROVE  Rouses(r)
<1>1. CASE runs' = rs /\ UNCHANGED <<tickets, running>>
  <2>1. Authored(r)
    BY <1>1 DEF Authored
  <2> QED
    BY <1>1, <2>1, PlainRouses
<1>2. CASE tickets[t].state = "decision" /\ Fail(t, rs, fq)
  BY <1>2, SettleRouses DEF Fail, Request
<1>3. CASE /\ tickets[t].state = "decision"
           /\ running' = running \cup {t}
           /\ runs' = Append(rs, NewRun(t, "starting", tickets[t].session, tickets[t].question))
           /\ Store(t, Continued(tickets[t]), fq, [k |-> "starting", r |-> Len(rs) + 1])
  <2> DEFINE e == NewRun(t, "starting", tickets[t].session, tickets[t].question)
  <2>1. e.id = t
    BY DEF NewRun
  <2>2. RunSeq(rs) /\ rs \in Seq(RunRecord) /\ Len(runs) \in Nat
    BY DEF Dozes, RunSeq, TypeOK
  <2>3. RunSeq(runs') /\ runs' = Append(rs, e)
    BY <1>3, <2>2, AddRun DEF TypeOK, TicketRecord, Phases, Working
  <2> HIDE DEF e
  <2>4. /\ Len(runs') = Len(rs) + 1
        /\ \A i \in 1..Len(rs) : runs'[i] = rs[i]
        /\ runs'[Len(rs) + 1] = e
    BY <2>2, <2>3, AppendProperties
  <2>5. Dozes(runs', r)
    BY <2>3, <2>4 DEF Dozes, Runs
  <2>6. Called(t)
    BY <1>3 DEF Called
  <2>7. \A s \in Runs' \ Runs : Called(runs'[s].id)
    BY <2>1, <2>2, <2>4, <2>6 DEF Runs
  <2>8. Authored(r)
    BY <1>3, StoreAuthored DEF Request
  <2> QED
    BY <1>3, <2>5, <2>6, <2>7, <2>8 DEF Rouses
<1> QED
  BY <1>1, <1>2, <1>3 DEF Answer

LEMMA UserRouses ==
  ASSUME TypeOK, User
  PROVE  Rouses(NoRun)
<1>1. NoRun \notin Runs /\ Dozes(runs, NoRun)
  BY Nobody, DozesNothing
<1>2. PICK t \in Tickets : Create(t) \/ Retry(t) \/ Reply(t) \/ Cancel(t) \/ Remove(t)
  BY DEF User
<1>3. tickets[t] \in TicketRecord
  BY DEF TypeOK
<1>4. ASSUME NEW rec, NEW c, Store(t, rec, flushq, c), running' = running,
             Dozes(runs', NoRun), Len(runs') = Len(runs), Request(t)
      PROVE  Rouses(NoRun)
  <2>1. Authored(NoRun)
    BY <1>4, StoreAuthored
  <2> QED
    BY <1>1, <1>4, <2>1, PlainRouses
<1>5. CASE Create(t)
  BY <1>1, <1>4, <1>5 DEF Create, Request
<1>6. CASE Retry(t)
  BY <1>1, <1>4, <1>6 DEF Retry, Request
<1>7. CASE Reply(t)
  BY <1>1, <1>7, AnswerRouses DEF Reply
<1>8. CASE Cancel(t)
  <2> DEFINE rec == [tickets[t] EXCEPT !.state = "failed"]
  <2>1. rec.state = "failed"
    BY <1>3 DEF TicketRecord
  <2>2. Store(t, rec, flushq, ThenRelease(t)) /\ running' = running /\ runs' = Kill(t)
        /\ "cancel" \in Operations
    BY <1>8 DEF Cancel
  <2> HIDE DEF rec
  <2>3. tickets'[t].state = "failed"
    BY <2>1, <2>2, OneWritten
  <2> QED
    BY <1>4, <2>2, <2>3, DozesKill DEF Request
<1>9. CASE Remove(t)
  <2> DEFINE rec == [tickets[t] EXCEPT !.state = "removed"]
  <2>1. rec.state = "removed"
    BY <1>3 DEF TicketRecord
  <2>2. Store(t, rec, flushq, [k |-> "noted", t |-> t]) /\ running' = running /\ runs' = runs
    BY <1>9 DEF Remove
  <2> HIDE DEF rec
  <2>3. tickets'[t].state = "removed"
    BY <2>1, <2>2, OneWritten
  <2> QED
    BY <1>1, <1>4, <2>2, <2>3 DEF Request
<1> QED
  BY <1>2, <1>5, <1>6, <1>7, <1>8, <1>9

LEMMA WorldRouses ==
  ASSUME TypeOK, NEW r \in Runs, World(r) \/ Announce(r)
  PROVE  Rouses(r)
<1> DEFINE t == runs[r].id
<1>1. t \in Tickets /\ Of(r, t) /\ tickets[t] \in TicketRecord
  BY RunType DEF TypeOK, Of
<1>2. r \in Runs => ~Asleep(r)
  BY DEF World, Asleep, Alive, Announce, CwdRejected, CwdAccepted, AgentFails, AgentAsks,
         AgentReports, AgentEndsLate, VerifierPasses, VerifierRejects, VerifierThrows,
         VerdictIsLate, Committed, PanelAnswers, PanelIsLate
<1>3. {"over", "starting", "parking", "judging", "committing", "consulting"} \subseteq Phases
  BY DEF Phases, Working
<1>4. \A p \in Phases : /\ Dozes(Phase(r, p), r) /\ Len(Phase(r, p)) = Len(runs)
                        /\ Dozes(Disarmed(t, Phase(r, p)), r)
                        /\ Len(Disarmed(t, Phase(r, p))) = Len(runs)
  BY <1>1, DozesPhase, DozesDisarmed
<1> HIDE DEF t
<1>5. ASSUME NEW state, Settle(t, state, Phase(r, "over"), flushq) PROVE Rouses(r)
  BY <1>1, <1>2, <1>3, <1>4, <1>5, SettleRouses
<1>6. ASSUME Release(t, Phase(r, "over")), tickets' = tickets PROVE Rouses(r)
  <2>1. Authored(r)
    BY <1>6 DEF Authored
  <2> QED
    BY <1>1, <1>2, <1>3, <1>4, <1>6, <2>1, ReleaseRouses
<1>7. ASSUME NEW rec, NEW c, Store(t, rec, flushq, c), running' = running,
             Dozes(runs', r), Len(runs') = Len(runs)
      PROVE  Rouses(r)
  <2>1. Authored(r)
    BY <1>1, <1>7, StoreAuthored
  <2> QED
    BY <1>2, <1>7, <2>1, PlainRouses
<1>8. ASSUME tickets' = tickets, running' = running, Dozes(runs', r), Len(runs') = Len(runs)
      PROVE  Rouses(r)
  <2>1. Authored(r)
    BY <1>8 DEF Authored
  <2> QED
    BY <1>2, <1>8, <2>1, PlainRouses
<1>9. CASE CwdRejected(r) \/ VerifierRejects(r) \/ Committed(r)
  BY <1>5, <1>9 DEF CwdRejected, VerifierRejects, Committed, Fail, t
<1>10. CASE VerifierThrows(r)
  BY <1>5, <1>6, <1>10 DEF VerifierThrows, Fail, t
<1>11. CASE VerdictIsLate(r)
  BY <1>6, <1>11 DEF VerdictIsLate, t
<1>12. CASE AgentEndsLate(r)
  BY <1>6, <1>12 DEF AgentEndsLate, Exited, t
<1>13. CASE CwdAccepted(r)
  BY <1>3, <1>4, <1>6, <1>7, <1>13 DEF CwdAccepted, t
<1>14. CASE AgentFails(r)
  BY <1>3, <1>4, <1>7, <1>14 DEF AgentFails, Exited, t
<1>15. CASE AgentAsks(r)
  <2>1. runs' = Disarmed(t, Phase(r, "parking")) /\ running' = running
    BY <1>15 DEF AgentAsks, Exited, t
  <2>2. \E rec, c : Store(t, rec, flushq, c)
    BY <1>15 DEF AgentAsks, t
  <2> QED
    BY <1>3, <1>4, <1>7, <2>1, <2>2
<1>16. CASE AgentReports(r)
  <2>1. runs' = Disarmed(t, Phase(r, "judging")) /\ running' = running
    BY <1>16 DEF AgentReports, Exited, t
  <2>2. \E rec, c : Store(t, rec, flushq, c)
    BY <1>16 DEF AgentReports, t
  <2> QED
    BY <1>3, <1>4, <1>7, <2>1, <2>2
<1>17. CASE VerifierPasses(r) \/ PanelIsLate(r)
  BY <1>3, <1>4, <1>8, <1>17 DEF VerifierPasses, PanelIsLate
<1>18. CASE PanelAnswers(r)
  <2>1. runs' = Phase(r, "consulting") /\ running' = running
    BY <1>18 DEF PanelAnswers
  <2>2. \E rec, c : Store(t, rec, flushq, c)
    BY <1>18 DEF PanelAnswers, t
  <2> QED
    BY <1>3, <1>4, <1>7, <2>1, <2>2
<1>19. CASE Announce(r)
  <2> DEFINE e == [runs[r] EXCEPT !.told = TRUE]
  <2>1. e \in RunRecord /\ e.id = runs[r].id
    BY RunType DEF RunRecord
  <2>2. runs' = [runs EXCEPT ![r] = e] /\ running' = running
    BY <1>19 DEF Announce
  <2> HIDE DEF e
  <2>3. /\ RunSeq(runs') /\ Len(runs') = Len(runs)
        /\ \A s \in Runs : runs'[s] = IF s = r THEN e ELSE runs[s]
    BY <2>1, <2>2, PutRecord DEF TypeOK, Runs, RunSeq
  <2>4. Dozes(runs', r)
    BY <2>1, <2>3 DEF Dozes, Asleep
  <2>5. \E rec, c : Store(t, rec, flushq, c)
    BY <1>19 DEF Announce, t
  <2> QED
    BY <1>7, <2>2, <2>3, <2>4, <2>5
<1> QED
  BY <1>9, <1>10, <1>11, <1>12, <1>13, <1>14, <1>15, <1>16, <1>17, <1>18, <1>19 DEF World

LEMMA TimerRouses ==
  ASSUME TypeOK, NEW r \in Runs, Timeout(r)
  PROVE  Rouses(r)
<1> DEFINE t == runs[r].id
           fired(rs) == [rs EXCEPT ![r].armed = FALSE]
<1>1. t \in Tickets /\ Of(r, t) /\ (r \in Runs => ~Asleep(r))
  BY RunType DEF Of, Asleep, Timeout
<1>2. /\ Dozes(Kill(t), r) /\ Len(Kill(t)) = Len(runs)
      /\ Dozes(runs, r)
  BY <1>1, DozesKill, DozesNothing
<1>3. /\ Dozes(fired(Kill(t)), r) /\ Len(fired(Kill(t))) = Len(runs)
      /\ Dozes(fired(runs), r) /\ Len(fired(runs)) = Len(runs)
  BY <1>2, DozesFlag
<1> HIDE DEF fired
<1>4. CASE Fail(t, fired(Kill(t)), flushq)
  BY <1>1, <1>3, <1>4, SettleRouses DEF Fail
<1>5. CASE runs' = fired(runs) /\ UNCHANGED <<tickets, running>>
  <2>1. Authored(r)
    BY <1>5 DEF Authored
  <2> QED
    BY <1>1, <1>3, <1>5, <2>1, PlainRouses
<1> QED
  BY <1>4, <1>5 DEF Timeout, fired

LEMMA FlushRouses ==
  ASSUME TypeOK, ResumesOnce, Flush
  PROVE  \E r : Rouses(r)
<1> DEFINE r == Head(flushq).r
           t == Head(flushq).t
           id == runs[r].id
           rest == Tail(flushq)
<1>1. flushq # <<>>
  BY DEF Flush, Spawned, SpawnThrows, Parked, Judging, Consulting, Escalated, Adopted,
         Enqueued, Released, Noted, Resumes
<1>2. ASSUME Head(flushq).k \in RunKinds
      PROVE  /\ r \in Runs /\ id \in Tickets /\ Of(r, id) /\ ~Asleep(r)
             /\ \A p \in Phases : Dozes(Phase(r, p), r) /\ Len(Phase(r, p)) = Len(runs)
  <2>1. r \in Runs /\ runs[r].pc = ResumedPhase(Head(flushq).k)
    BY <1>1, <1>2, HeadType, FreeHead
  <2>2. ~Asleep(r)
    BY <2>1 DEF Asleep, ResumedPhase
  <2> QED
    BY <2>1, <2>2, RunType, DozesPhase DEF Of
<1>3. ASSUME Head(flushq).k \in TicketKinds PROVE t \in Tickets
  BY <1>1, <1>3, HeadType
<1>4. {"over", "live", "verifying", "consulting", "advising"} \subseteq Phases
  BY DEF Phases, Working, Alive
<1>5. NoRun \notin Runs /\ Dozes(runs, NoRun)
  BY Nobody, DozesNothing
<1> HIDE DEF r, t, rest, id
<1>6. CASE Spawned
  <2>1. r \in Runs /\ ~Asleep(r)
    BY <1>2, <1>6 DEF Spawned, Resumes, RunKinds
  <2> DEFINE capped == "timeout" \in Operations
             e == [runs[r] EXCEPT !.pc = "live", !.armed = capped]
  <2>2. capped \in BOOLEAN
    OBVIOUS
  <2>3. runs' = [runs EXCEPT ![r] = e] /\ tickets' = tickets /\ running' = running
    BY <1>6 DEF Spawned, r
  <2> HIDE DEF capped
  <2>4. e \in RunRecord /\ e.id = runs[r].id
    BY <1>4, <2>1, <2>2, RunType DEF RunRecord
  <2> HIDE DEF e
  <2>5. /\ RunSeq(runs') /\ Len(runs') = Len(runs)
        /\ \A s \in Runs : runs'[s] = IF s = r THEN e ELSE runs[s]
    BY <2>1, <2>3, <2>4, PutRecord DEF TypeOK, Runs, RunSeq
  <2>6. Dozes(runs', r) /\ Authored(r)
    BY <2>3, <2>4, <2>5 DEF Dozes, Asleep, Authored
  <2>7. Rouses(r)
    BY <2>1, <2>3, <2>5, <2>6, PlainRouses
  <2> QED
    BY <2>7
<1>7. CASE SpawnThrows
  <2>1. /\ r \in Runs /\ id \in Tickets /\ Of(r, id) /\ ~Asleep(r)
        /\ Dozes(Phase(r, "over"), r) /\ Len(Phase(r, "over")) = Len(runs)
    BY <1>2, <1>4, <1>7 DEF SpawnThrows, Resumes, RunKinds
  <2>2. Settle(id, "failed", Phase(r, "over"), rest)
    BY <1>7 DEF SpawnThrows, Fail, r, rest, id
  <2>3. Rouses(r)
    BY <2>1, <2>2, SettleRouses
  <2> QED
    BY <2>3
<1>8. CASE Parked
  <2>1. /\ r \in Runs /\ id \in Tickets /\ Of(r, id) /\ ~Asleep(r)
        /\ Dozes(Phase(r, "over"), r) /\ Len(Phase(r, "over")) = Len(runs)
        /\ Dozes(Phase(r, "consulting"), r) /\ Len(Phase(r, "consulting")) = Len(runs)
    BY <1>2, <1>4, <1>8 DEF Parked, Resumes, RunKinds
  <2>2. CASE Release(id, Phase(r, "over")) /\ UNCHANGED tickets
    <3>1. Authored(r)
      BY <2>2 DEF Authored
    <3>2. Rouses(r)
      BY <2>1, <2>2, <3>1, ReleaseRouses
    <3> QED
      BY <3>2
  <2>3. CASE /\ Release(id, Phase(r, "consulting"))
             /\ \E rec, c : Store(id, rec, rest, c)
    <3>1. Authored(r)
      BY <2>1, <2>3, StoreAuthored
    <3>2. Rouses(r)
      BY <2>1, <2>3, <3>1, ReleaseRouses
    <3> QED
      BY <3>2
  <2> QED
    BY <1>8, <2>2, <2>3 DEF Parked, r, rest, id
<1>9. CASE Judging \/ Consulting \/ Escalated
  <2>1. Head(flushq).k \in RunKinds
    BY <1>9 DEF Judging, Consulting, Escalated, Resumes, RunKinds
  <2>2. PICK p \in Phases : runs' = Phase(r, p)
    BY <1>4, <1>9 DEF Judging, Consulting, Escalated, r
  <2>3. tickets' = tickets /\ running' = running
    BY <1>9 DEF Judging, Consulting, Escalated
  <2>4. Authored(r)
    BY <2>3 DEF Authored
  <2>5. Rouses(r)
    BY <1>2, <2>1, <2>2, <2>3, <2>4, PlainRouses
  <2> QED
    BY <2>5
<1>10. CASE Adopted
  <2>1. /\ id \in Tickets /\ ~Asleep(r)
        /\ Dozes(Phase(r, "over"), r) /\ Len(Phase(r, "over")) = Len(runs)
    BY <1>2, <1>4, <1>10 DEF Adopted, Resumes, RunKinds
  <2>2. Answer(id, Phase(r, "over"), rest)
    BY <1>10 DEF Adopted, r, rest, id
  <2>3. Rouses(r)
    BY <2>1, <2>2, AnswerRouses
  <2> QED
    BY <2>3
<1>11. CASE Enqueued
  <2>1. t \in Tickets
    BY <1>3, <1>11 DEF Enqueued, Resumes, TicketKinds
  <2>2. Authored(NoRun)
    BY <1>11 DEF Enqueued, Authored
  <2>3. CASE UNCHANGED <<running, runs>>
    <3>1. Rouses(NoRun)
      BY <1>5, <2>2, <2>3, PlainRouses
    <3> QED
      BY <3>1
  <2>4. CASE Pump(running, Append(queue, t), runs)
    <3>1. Append(queue, t) \in Seq(Tickets) /\ running \in SUBSET Tickets
      BY <2>1, AppendProperties DEF TypeOK
    <3>2. Rouses(NoRun)
      BY <1>5, <2>2, <2>4, <3>1, PumpRouses
    <3> QED
      BY <3>2
  <2> QED
    BY <1>11, <2>3, <2>4 DEF Enqueued, t
<1>12. CASE Released
  <2>1. t \in Tickets
    BY <1>3, <1>12 DEF Released, Resumes, TicketKinds
  <2>2. Release(t, runs) /\ UNCHANGED tickets
    BY <1>12 DEF Released, t
  <2>3. Authored(NoRun)
    BY <2>2 DEF Authored
  <2>4. Rouses(NoRun)
    BY <1>5, <2>1, <2>2, <2>3, ReleaseRouses
  <2> QED
    BY <2>4
<1>13. CASE Noted
  <2>1. UNCHANGED <<tickets, running, runs>>
    BY <1>13 DEF Noted
  <2>2. Authored(NoRun)
    BY <2>1 DEF Authored
  <2>3. Rouses(NoRun)
    BY <1>5, <2>1, <2>2, PlainRouses
  <2> QED
    BY <2>3
<1> QED
  BY <1>6, <1>7, <1>8, <1>9, <1>10, <1>11, <1>12, <1>13 DEF Flush

LEMMA NextRouses ==
  ASSUME TypeOK, ResumesOnce, Next
  PROVE  \E r : Rouses(r)
BY UserRouses, WorldRouses, TimerRouses, FlushRouses DEF Next

-----------------------------------------------------------------------------
(***************************************************************************)
(* A ticket recover() has listed as cut off is dormant until its turn.     *)
(***************************************************************************)
CutState(state) ==
  state \in InFlight \cup {"removed"} \/ (state = "failed" /\ "retry" \notin Operations)

Dormant(u) ==
  /\ u \notin running
  /\ CutState(tickets[u].state)
  /\ \A r \in Runs : runs[r].id = u => Asleep(r)

NoRerun == ~({"cancel", "retry"} \subseteq Operations)

LEMMA StaysDormant ==
  ASSUME TypeOK, NoRerun, NEW r, Rouses(r), NEW u \in Tickets, Dormant(u)
  PROVE  Dormant(u)'
<1>1. ~Called(u) /\ ~Of(r, u)
  BY DEF Dormant, Called, CutState, InFlight, Of, Rouses
<1>2. u \notin running'
  BY <1>1 DEF Rouses, Dormant
<1>3. CutState(tickets'[u].state)
  <2>1. CASE tickets'[u].state = tickets[u].state
    BY <2>1 DEF Dormant
  <2>2. CASE Request(u)
    BY <2>2 DEF Request, Dormant, CutState, InFlight, NoRerun
  <2> QED
    BY <1>1, <2>1, <2>2 DEF Rouses, Authored
<1>4. ASSUME NEW s \in Runs', runs'[s].id = u PROVE runs'[s].pc = "over" /\ ~runs'[s].armed
  <2>1. s \in Runs
    BY <1>1, <1>4 DEF Rouses
  <2>2. runs[s].id = u
    BY <1>4, <2>1 DEF Rouses, Dozes
  <2>3. s # r
    BY <1>1, <2>1, <2>2 DEF Of
  <2> QED
    BY <2>1, <2>2, <2>3 DEF Dormant, Rouses, Dozes
<1> QED
  BY <1>2, <1>3, <1>4 DEF Dormant, Asleep

ListIsDormant ==
  Cutting => /\ \A x, y \in recovery.todo : x.t = y.t => x = y
             /\ \A x \in recovery.todo : Dormant(x.t)

\* What a turn of the first loop does to the others on the list.
LEMMA OthersDoze ==
  ASSUME RTypeOK, NoRerun, NEW x \in recovery.todo, NEW u \in Tickets, u # x.t, Dormant(u),
         \/ Exists(x.t) /\ Resumed(x)
         \/ ~Exists(x.t) /\ Release(x.t, runs) /\ UNCHANGED <<tickets, flushq>>
         \/ /\ UNCHANGED <<running, runs>>
            /\ \A v \in Tickets \ {x.t} : tickets'[v] = tickets[v]
  PROVE  Dormant(u)'
<1>1. TypeOK /\ x.t \in Tickets /\ NoRun \notin Runs /\ Dozes(runs, NoRun)
  BY CopyType, Nobody, DozesNothing DEF RTypeOK
<1>2. CASE Exists(x.t) /\ Resumed(x)
  <2>1. tickets'[u] = tickets[u]
    BY <1>1, <1>2, OneWritten DEF Resumed
  <2>2. running' = running \cup {x.t}
    BY <1>2 DEF Resumed
  <2>3. /\ Len(runs') = Len(runs) + 1 /\ Len(runs) \in Nat
        /\ \A s \in Runs : runs'[s] = runs[s]
        /\ runs'[Len(runs) + 1].id = x.t
    BY <1>1, <1>2, ResumedRun DEF TypeOK
  <2>4. ASSUME NEW s \in Runs', runs'[s].id = u PROVE runs'[s].pc = "over" /\ ~runs'[s].armed
    <3>1. s \in Runs
      BY <2>3, <2>4 DEF Runs
    <3> QED
      BY <2>3, <2>4, <3>1 DEF Dormant, Asleep
  <2> QED
    BY <2>1, <2>2, <2>4 DEF Dormant, Asleep
<1>3. CASE ~Exists(x.t) /\ Release(x.t, runs) /\ UNCHANGED <<tickets, flushq>>
  <2>1. Authored(NoRun)
    BY <1>3 DEF Authored
  <2>2. Rouses(NoRun)
    BY <1>1, <1>3, <2>1, ReleaseRouses
  <2> QED
    BY <1>1, <2>2, StaysDormant
<1>4. CASE /\ UNCHANGED <<running, runs>>
           /\ \A v \in Tickets \ {x.t} : tickets'[v] = tickets[v]
  <2>1. tickets'[u] = tickets[u]
    BY <1>4
  <2> QED
    BY <1>4, <2>1 DEF Dormant, Asleep, Runs
<1> QED
  BY <1>2, <1>3, <1>4

LEMMA RNextDozes ==
  ASSUME RTypeOK, ResumesOnce, NoRerun, ListIsDormant, [RNext]_allVars
  PROVE  ListIsDormant'
<1>1. TypeOK /\ \A x \in recovery.todo : x.t \in Tickets
  BY CopyType DEF RTypeOK
<1>2. ASSUME recovery' = recovery, \A u \in Tickets : Dormant(u) => Dormant(u)'
      PROVE  ListIsDormant'
  BY <1>1, <1>2 DEF ListIsDormant, Cutting
<1>3. CASE UNCHANGED allVars \/ Recovered
  <2>1. UNCHANGED <<tickets, running, runs, recovery>>
    BY <1>3 DEF allVars, vars, restartVars, Recovered
  <2>2. \A u \in Tickets : Dormant(u) => Dormant(u)'
    BY <2>1 DEF Dormant, Asleep, Runs
  <2> QED
    BY <1>2, <2>1, <2>2
<1>4. CASE RunnersStep
  <2>1. PICK r : Rouses(r)
    BY <1>1, <1>4, RunnersNext, NextRouses
  <2>2. \A u \in Tickets : Dormant(u) => Dormant(u)'
    BY <1>1, <2>1, StaysDormant
  <2> QED
    BY <1>2, <1>4, <2>2, RunnersNext
<1>5. CASE ResumeInterrupted \/ ResumeNothing \/ FailInterrupted
  <2>1. PICK x \in recovery.todo :
          /\ Done(x, "resume")
          /\ \/ Exists(x.t) /\ Resumed(x)
             \/ ~Exists(x.t) /\ Release(x.t, runs) /\ UNCHANGED <<tickets, flushq>>
             \/ /\ UNCHANGED <<running, runs>>
                /\ \/ Store(x.t, Interrupted(tickets[x.t]), flushq, [k |-> "recovered", t |-> x.t])
                   \/ UNCHANGED tickets
    <3>1. CASE ResumeInterrupted
      BY <3>1 DEF ResumeInterrupted, Resumed
    <3>2. CASE ResumeNothing
      BY <3>2 DEF ResumeNothing
    <3>3. CASE FailInterrupted
      BY <3>3 DEF FailInterrupted
    <3> QED
      BY <1>5, <3>1, <3>2, <3>3
  <2>2. \/ Exists(x.t) /\ Resumed(x)
        \/ ~Exists(x.t) /\ Release(x.t, runs) /\ UNCHANGED <<tickets, flushq>>
        \/ /\ UNCHANGED <<running, runs>>
           /\ \A v \in Tickets \ {x.t} : tickets'[v] = tickets[v]
    BY <1>1, <2>1, OneWritten
  <2>3. Cutting
    BY <1>5 DEF ResumeInterrupted, ResumeNothing, FailInterrupted, Cutting
  <2>4. recovery' = [phase |-> "resume", todo |-> recovery.todo \ {x}]
    BY <2>1 DEF Done
  <2>5. ASSUME NEW y \in recovery.todo \ {x} PROVE Dormant(y.t)'
    <3>1. y.t \in Tickets /\ y.t # x.t /\ Dormant(y.t)
      BY <1>1, <2>3, <2>5 DEF ListIsDormant
    <3> QED
      BY <2>2, <3>1, OthersDoze
  <2> QED
    BY <2>3, <2>4, <2>5 DEF ListIsDormant
<1>6. CASE ListPanels \/ FailPanel \/ ListBacklog \/ Reenqueue \/ RecoveryOver
  <2>1. \E todo : \E phase \in {"panels", "backlog", "over"} :
          recovery' = [phase |-> phase, todo |-> todo]
    BY <1>6, Zenon DEF ListPanels, FailPanel, ListBacklog, Reenqueue, RecoveryOver, Done, Idle
  <2>2. ~Cutting'
    BY <2>1 DEF Cutting
  <2> QED
    BY <2>2 DEF ListIsDormant
<1>7. CASE Crash
  <2>1. PICK file : tickets' = file /\ recovery' = [phase |-> "boot", todo |-> Listed(file, CutOff)]
    BY <1>7, CrashLeaves
  <2>2. running' = {} /\ runs' = Stopped
    BY <1>7 DEF Crash, Stopped
  <2>3. \A x \in recovery'.todo : x.t \in Tickets /\ x = [t |-> x.t, was |-> file[x.t]]
                                  /\ file[x.t].state \in InFlight
    BY <2>1 DEF Listed, CutOff
  <2>4. \A s \in Runs' : runs'[s].pc = "over" /\ ~runs'[s].armed
    <3>1. Len(Stopped) = Len(runs)
      BY <1>1, StoppedType
    <3>2. Runs' = Runs
      BY <2>2, <3>1 DEF Runs
    <3>3. ASSUME NEW s \in Runs PROVE Stopped[s].pc = "over" /\ ~Stopped[s].armed
      <4>1. runs[s] \in RunRecord
        BY <1>1, RunType
      <4> QED
        BY <4>1 DEF Stopped, RunRecord
    <3> QED
      BY <2>2, <3>2, <3>3
  <2>5. \A x \in recovery'.todo : Dormant(x.t)'
    BY <2>1, <2>2, <2>3, <2>4 DEF Dormant, CutState, Asleep
  <2>6. \A x, y \in recovery'.todo : x.t = y.t => x = y
    BY <2>3
  <2> QED
    BY <2>5, <2>6 DEF ListIsDormant
<1> QED
  BY <1>3, <1>4, <1>5, <1>6, <1>7 DEF RNext, Recover, RunnersStep

-----------------------------------------------------------------------------
(***************************************************************************)
(* What recover() does to the backlog: it keeps it, since the ticket it    *)
(* writes as failed is dormant and holds no slot.                          *)
(***************************************************************************)
LEMMA RequeuesKeeping ==
  ASSUME TypeOK, NEW t \in Tickets, Requeues(t)
  PROVE  /\ Keeping(NoRun, flushq)
         /\ tickets[t].state = "queued" /\ t \notin running => Waits(queue', t) \/ Starts(t)
<1>1. NoRun \notin Runs /\ Moves(runs, NoRun)
  BY Nobody
<1>2. KeepsPanel(NoRun, flushq) /\ LeftOver(flushq) /\ Lengthens(flushq)
  BY <1>1, SameDeciding DEF Requeues, KeepsPanel, LeftOver, Lengthens
<1>3. CASE Known(t) /\ UNCHANGED <<running, queue, runs>>
  <2>1. ASSUME NEW u \in Tickets PROVE KeepsTicket(u, flushq)
    BY <1>3 DEF Requeues, KeepsTicket
  <2>2. t \notin running => Waits(queue', t)
    BY <1>3 DEF Known, Waits
  <2> QED
    BY <1>1, <1>2, <1>3, <2>1, <2>2 DEF Keeping
<1>4. CASE Pump(running, Append(queue, t), runs)
  <2>1. Pumped(running, Append(queue, t), runs) /\ Moves(runs', NoRun)
    BY <1>4, RequeuedRuns
  <2>2. Waits(Append(queue, t), t) /\ \A u : Waits(queue, u) => Waits(Append(queue, t), u)
    <3>1. /\ Len(Append(queue, t)) = Len(queue) + 1 /\ Len(queue) \in Nat
          /\ Append(queue, t)[Len(queue) + 1] = t
          /\ \A i \in 1..Len(queue) : Append(queue, t)[i] = queue[i]
      BY AppendProperties DEF TypeOK
    <3> QED
      BY <3>1 DEF Waits
  <2>3. tickets' = tickets
    BY DEF Requeues
  <2>4. ASSUME NEW u \in Tickets, tickets[u].state = "queued", Waits(Append(queue, t), u)
        PROVE  Waits(queue', u) \/ Starts(u)
    BY <2>1, <2>4 DEF Pumped, Starts, Runs
  <2>5. ASSUME NEW u \in Tickets PROVE KeepsTicket(u, flushq)
    <3>1. u \in running' => u \in running \/ (Starts(u) /\ tickets'[u].state = "queued")
      BY <2>1, <2>3 DEF Pumped, Starts, Runs
    <3> QED
      BY <2>2, <2>3, <2>4, <3>1 DEF KeepsTicket
  <2>6. Keeping(NoRun, flushq)
    BY <1>1, <1>2, <2>1, <2>5 DEF Keeping
  <2> QED
    BY <2>2, <2>4, <2>6
<1> QED
  BY <1>3, <1>4 DEF Requeues

LEMMA ResumedKeeping ==
  ASSUME RTypeOK, NEW x \in recovery.todo, Resumed(x)
  PROVE  Keeping(NoRun, flushq)
<1> DEFINE c == [k |-> "starting", r |-> Len(runs) + 1]
<1>1. TypeOK /\ NoRun \notin Runs /\ x.t \in Tickets /\ tickets[x.t] \in TicketRecord
  BY Nobody, CopyType DEF RTypeOK
<1>2. [tickets[x.t] EXCEPT !.state = "running"].state = "running"
  BY <1>1 DEF TicketRecord
<1>3. /\ tickets'[x.t].state = "running"
      /\ \A u \in Tickets \ {x.t} : tickets'[u] = tickets[u]
  BY <1>1, <1>2, OneWritten DEF Resumed
<1>4. Moves(runs', NoRun) /\ Len(runs') = Len(runs) + 1 /\ Len(runs) \in Nat
  BY <1>1, ResumedRun DEF TypeOK
<1>5. c \in Continuation' /\ flushq' = Append(flushq, c)
  BY <1>4 DEF Resumed, Store, Continuation, RunKinds, Runs
<1> HIDE DEF c
<1>6. Lengthens(flushq) /\ Rests(flushq, x.t)
  BY <1>5 DEF Lengthens, Rests
<1>7. Written(x.t, flushq)
  BY <1>3 DEF Written, Rested, Terminal, WillDecide
<1>8. Concerns(NoRun, x.t)
  BY <1>1, <1>3, <1>4 DEF Concerns, Belongs, Resumed
<1> QED
  BY <1>1, <1>6, <1>7, <1>8, StoredKeeping

LEMMA FailedKeeping ==
  ASSUME RTypeOK, NEW x \in recovery.todo, x.t \notin running,
         Writes(x, Interrupted(tickets[x.t]))
  PROVE  Keeping(NoRun, flushq)
<1> DEFINE rec == Interrupted(tickets[x.t])
           c == [k |-> "recovered", t |-> x.t]
<1>1. TypeOK /\ NoRun \notin Runs /\ Moves(runs, NoRun) /\ x.t \in Tickets
      /\ tickets[x.t] \in TicketRecord
  BY Nobody, CopyType DEF RTypeOK
<1>2. rec.state = "failed"
  BY <1>1 DEF Interrupted, TicketRecord
<1>3. c \in Continuation' /\ Store(x.t, rec, flushq, c)
  BY <1>1 DEF Writes, Continuation, TicketKinds
<1>4. UNCHANGED <<running, queue, runs>>
  BY DEF Writes
<1> HIDE DEF rec, c
<1>5. tickets'[x.t].state = "failed" /\ \A u \in Tickets \ {x.t} : tickets'[u] = tickets[u]
  BY <1>1, <1>2, <1>3, OneWritten
<1>6. ASSUME NEW u \in Tickets PROVE KeepsTicket(u, flushq)
  BY <1>4, <1>5 DEF KeepsTicket
<1>7. \A u \in Tickets : WillDecide(u) => Deciding(u)
  BY <1>5 DEF WillDecide, Deciding
<1>8. KeepsPanel(NoRun, flushq) /\ LeftOver(flushq) /\ Lengthens(flushq)
  BY <1>1, <1>3, <1>7 DEF KeepsPanel, LeftOver, Lengthens, Store
<1> QED
  BY <1>1, <1>4, <1>6, <1>8 DEF Keeping

LEMMA PanelKeeping ==
  ASSUME RTypeOK, NEW x \in recovery.todo,
         Writes(x, [tickets[x.t] EXCEPT !.stage = "failed", !.about = x.was.about])
  PROVE  Keeping(NoRun, flushq)
<1> DEFINE rec == [tickets[x.t] EXCEPT !.stage = "failed", !.about = x.was.about]
           c == [k |-> "recovered", t |-> x.t]
<1>1. TypeOK /\ NoRun \notin Runs /\ Moves(runs, NoRun) /\ x.t \in Tickets
      /\ tickets[x.t] \in TicketRecord
  BY Nobody, CopyType DEF RTypeOK
<1>2. rec.state = tickets[x.t].state /\ rec.stage = "failed"
  BY <1>1 DEF TicketRecord
<1>3. c \in Continuation' /\ Store(x.t, rec, flushq, c)
  BY <1>1 DEF Writes, Continuation, TicketKinds
<1>4. UNCHANGED <<running, queue, runs>>
  BY DEF Writes
<1> HIDE DEF rec, c
<1>5. tickets'[x.t] = rec /\ \A u \in Tickets \ {x.t} : tickets'[u] = tickets[u]
  BY <1>1, <1>3, OneWritten
<1>6. Written(x.t, flushq)
  BY <1>2, <1>5 DEF Written, WillDecide
<1>7. Lengthens(flushq) /\ Rests(flushq, x.t)
  BY <1>3 DEF Lengthens, Rests, Store
<1>8. Concerns(NoRun, x.t)
  BY <1>1, <1>4, <1>5 DEF Concerns, Belongs
<1> QED
  BY <1>1, <1>6, <1>7, <1>8, StoredKeeping

LEMMA RecoveredKeeping ==
  ASSUME TypeOK, Recovered
  PROVE  Keeping(NoRun, Tail(flushq))
<1> DEFINE t == Head(flushq).t
<1>1. /\ flushq # <<>> /\ flushq' = Tail(flushq)
      /\ Head(flushq).k = "recovered" /\ t \in Tickets
      /\ UNCHANGED <<tickets, running, queue, runs>>
  BY RecoveredType
<1>2. NoRun \notin Runs /\ Moves(runs', NoRun)
  BY <1>1, Nobody
<1> HIDE DEF t
<1>3. Rests(Tail(flushq), t) /\ Lengthens(Tail(flushq))
  BY <1>1 DEF Rests, Lengthens
<1>4. Concerns(NoRun, t) /\ Written(t, Tail(flushq))
  BY <1>1, <1>2, SameDeciding DEF Concerns, Belongs, Written
<1> QED
  BY <1>1, <1>3, <1>4, StoredKeeping

LEMMA RecoverKeeping ==
  ASSUME RTypeOK, ListIsDormant, Recover
  PROVE  Keepings \/ UNCHANGED vars
<1>1. TypeOK /\ NoRun \notin Runs /\ Moves(runs, NoRun)
  BY Nobody DEF RTypeOK
<1>2. \A x \in recovery.todo : x.t \in Tickets
  BY CopyType
<1>3. CASE ResumeInterrupted
  <2>1. \E x \in recovery.todo : Resumed(x)
    BY <1>3 DEF ResumeInterrupted, Resumed
  <2> QED
    BY <2>1, ResumedKeeping DEF Keepings
<1>4. CASE ResumeNothing
  <2>1. PICK x \in recovery.todo : Release(x.t, runs) /\ UNCHANGED <<tickets, flushq>>
    BY <1>4 DEF ResumeNothing
  <2>2. Rests(flushq, x.t) /\ Lengthens(flushq) /\ Belongs(NoRun, x.t)
    BY <1>1, <2>1 DEF Rests, Lengthens, Belongs
  <2>3. Keeping(NoRun, flushq)
    BY <1>1, <1>2, <2>1, <2>2, SameDeciding, ReleaseKeeping
  <2> QED
    BY <2>3 DEF Keepings
<1>5. CASE FailInterrupted
  <2>1. PICK x \in recovery.todo :
          Writes(x, Interrupted(tickets[x.t])) \/ UNCHANGED vars
    BY <1>5 DEF FailInterrupted, Writes, vars
  <2>2. x.t \notin running
    BY <1>5 DEF FailInterrupted, ListIsDormant, Cutting, Dormant
  <2> QED
    BY <2>1, <2>2, FailedKeeping DEF Keepings
<1>6. CASE FailPanel
  <2>1. PICK x \in recovery.todo :
          \/ Writes(x, [tickets[x.t] EXCEPT !.stage = "failed", !.about = x.was.about])
          \/ UNCHANGED vars
    BY <1>6 DEF FailPanel, Writes, vars
  <2> QED
    BY <2>1, PanelKeeping DEF Keepings
<1>7. CASE Reenqueue
  <2>1. \E x \in recovery.todo : Requeues(x.t)
    BY <1>7 DEF Reenqueue, Requeues
  <2> QED
    BY <1>1, <1>2, <2>1, RequeuesKeeping DEF Keepings
<1>8. CASE Recovered
  BY <1>1, <1>8, RecoveredKeeping DEF Keepings
<1>9. CASE ListPanels \/ ListBacklog \/ RecoveryOver
  BY <1>9 DEF ListPanels, ListBacklog, RecoveryOver
<1> QED
  BY <1>3, <1>4, <1>5, <1>6, <1>7, <1>8, <1>9 DEF Recover

-----------------------------------------------------------------------------
(***************************************************************************)
(* Until recover() has come to it, a queued ticket that nothing backs      *)
(* holds no slot, so that its enqueue is not dropped.                      *)
(***************************************************************************)
Awaited(u) ==
  \/ Cutting
  \/ recovery.phase = "panels"
  \/ recovery.phase = "backlog" /\ StillListed(u)

QueuedBacked(u) == tickets[u].state = "queued" => Backed(u)
QueuedFree(u) == tickets[u].state = "queued" => Backed(u) \/ u \notin running

QueuedIsAwaited ==
  \A u \in Tickets : QueuedBacked(u) \/ (QueuedFree(u) /\ Awaited(u))

\* The same after the step.
WillBack(u) == QueuedBacked(u)'
WillFree(u) == QueuedFree(u)'
WillAwait(u) == Awaited(u)'

LEMMA AwaitsAfter ==
  ASSUME \A u \in Tickets : WillBack(u) \/ (WillFree(u) /\ WillAwait(u))
  PROVE  QueuedIsAwaited'
BY DEF QueuedIsAwaited, WillBack, WillFree, WillAwait, QueuedBacked, QueuedFree, Awaited,
       Backed, Waits, Slotless, Cutting, StillListed, Runs

LEMMA KeepingAwaits ==
  ASSUME TypeOK, TypeOK', SettledReleases, NEW r, NEW fq, Keeping(r, fq), NEW u \in Tickets
  PROVE  /\ QueuedBacked(u) => WillBack(u)
         /\ QueuedFree(u) => WillFree(u)
<1>1. QueuedBacked(u) => WillBack(u)
  BY KeepingBacks DEF QueuedBacked, WillBack
<1>2. ASSUME QueuedFree(u), ~QueuedBacked(u), tickets'[u].state = "queued", u \in running'
      PROVE  Backed(u)'
  <2>1. u \notin running /\ KeepsTicket(u, fq)
    BY <1>2 DEF QueuedFree, QueuedBacked, Keeping
  <2>2. Starts(u)
    BY <1>2, <2>1 DEF KeepsTicket
  <2> QED
    BY <2>2 DEF Starts, Backed
<1> QED
  BY <1>1, <1>2 DEF QueuedFree, QueuedBacked, WillBack, WillFree

LEMMA StepAwaits ==
  ASSUME RTypeOK, RTypeOK', ResumesOnce, SettledReleases, ListIsDormant, [Next]_vars \/ Recover
  PROVE  /\ SettledReleases'
         /\ \A u \in Tickets : QueuedBacked(u) => WillBack(u)
         /\ \A u \in Tickets : QueuedFree(u) => WillFree(u)
<1>1. TypeOK /\ TypeOK'
  BY DEF RTypeOK
<1>2. CASE UNCHANGED vars
  BY <1>2 DEF vars, SettledReleases, Pending, WillBack, WillFree, QueuedBacked, QueuedFree, Backed, Waits, Slotless, Runs
<1>3. CASE Keepings
  <2>1. PICK r, fq : Keeping(r, fq)
    BY <1>3 DEF Keepings
  <2> QED
    BY <1>1, <2>1, KeepingReleases, KeepingAwaits
<1>4. CASE Next
  <2>1. Keepings
    BY <1>1, <1>4, UserKeeping, AgentKeeping, WorldKeeping, TimerKeeping, FlushKeeping
       DEF Next, User, World
  <2> QED
    BY <1>3, <2>1
<1>5. CASE Recover
  BY <1>2, <1>3, <1>5, RecoverKeeping
<1> QED
  BY <1>2, <1>4, <1>5

LEMMA RNextAwaits ==
  ASSUME RTypeOK, RTypeOK', ResumesOnce, SettledReleases, QueuedIsAwaited, ListIsDormant,
         [RNext]_allVars
  PROVE  SettledReleases' /\ QueuedIsAwaited'
<1>1. CASE UNCHANGED allVars \/ RunnersStep \/ Recovered
  <2>1. recovery' = recovery /\ ([Next]_vars \/ Recover)
    BY <1>1, RunnersNext DEF allVars, restartVars, Recover, Recovered
  <2>2. \A u \in Tickets : Awaited(u) => WillAwait(u)
    BY <2>1 DEF WillAwait, Awaited, Cutting, StillListed
  <2>3. /\ SettledReleases'
        /\ \A u \in Tickets : QueuedBacked(u) => WillBack(u)
        /\ \A u \in Tickets : QueuedFree(u) => WillFree(u)
    BY <2>1, StepAwaits
  <2> QED
    BY <2>2, <2>3, AwaitsAfter DEF QueuedIsAwaited
<1>2. CASE Recover
  <2>1. /\ SettledReleases'
        /\ \A u \in Tickets : QueuedBacked(u) => WillBack(u)
        /\ \A u \in Tickets : QueuedFree(u) => WillFree(u)
    BY <1>2, StepAwaits
  <2>2. \A u \in Tickets : WillFree(u)
    BY <2>1 DEF QueuedIsAwaited, QueuedBacked, QueuedFree, WillBack, WillFree
  <2>3. CASE Recovered
    BY <1>1, <2>3
  <2>4. CASE ResumeInterrupted \/ ResumeNothing \/ FailInterrupted \/ ListPanels \/ FailPanel
    <3>1. \E phase \in {"resume", "panels"} : \E todo : recovery' = [phase |-> phase, todo |-> todo]
      BY <2>4, Zenon DEF ResumeInterrupted, ResumeNothing, FailInterrupted, ListPanels, FailPanel, Done
    <3>2. \A u \in Tickets : WillAwait(u)
      BY <3>1 DEF WillAwait, Awaited, Cutting
    <3> QED
      BY <2>1, <2>2, <3>2, AwaitsAfter
  <2>5. CASE ListBacklog
    <3>1. recovery' = [phase |-> "backlog", todo |-> Listed(tickets, Waiting)] /\ UNCHANGED vars
      BY <2>5 DEF ListBacklog
    <3>2. ASSUME NEW u \in Tickets PROVE WillBack(u) \/ WillAwait(u)
      <4>1. CASE tickets[u].state = "queued"
        <5>1. [t |-> u, was |-> tickets[u]] \in Listed(tickets, Waiting)
          BY <4>1 DEF Listed, Waiting
        <5> QED
          BY <3>1, <5>1 DEF WillAwait, Awaited, StillListed
      <4>2. CASE tickets[u].state # "queued"
        BY <3>1, <4>2 DEF WillBack, QueuedBacked, vars
      <4> QED
        BY <4>1, <4>2
    <3> QED
      BY <2>1, <2>2, <3>2, AwaitsAfter
  <2>6. CASE Reenqueue
    <3>1. PICK x \in recovery.todo :
            /\ recovery' = [phase |-> "backlog", todo |-> recovery.todo \ {x}]
            /\ Requeues(x.t)
      BY <2>6 DEF Reenqueue, Requeues, Done
    <3>2. TypeOK /\ x.t \in Tickets /\ ~Cutting /\ recovery.phase = "backlog"
      BY <2>6, CopyType DEF RTypeOK, Reenqueue, Cutting
    <3>3. ASSUME NEW u \in Tickets PROVE WillBack(u) \/ WillAwait(u)
      <4>1. CASE QueuedBacked(u)
        BY <2>1, <4>1
      <4>2. CASE ~QueuedBacked(u) /\ u = x.t
        <5>1. tickets[u].state = "queued" /\ u \notin running
          BY <4>2 DEF QueuedBacked, QueuedFree, QueuedIsAwaited
        <5>2. Waits(queue', u) \/ Starts(u)
          BY <3>1, <3>2, <4>2, <5>1, RequeuesKeeping
        <5> QED
          BY <5>2 DEF Starts, WillBack, QueuedBacked, Backed, Waits
      <4>3. CASE ~QueuedBacked(u) /\ u # x.t
        <5>1. StillListed(u)
          BY <3>2, <4>3 DEF QueuedIsAwaited, Awaited
        <5> QED
          BY <3>1, <4>3, <5>1 DEF StillListed, Awaited, WillAwait
      <4> QED
        BY <4>1, <4>2, <4>3
    <3> QED
      BY <2>1, <2>2, <3>3, AwaitsAfter
  <2>7. CASE RecoveryOver
    <3>1. \A u \in Tickets : ~Awaited(u)
      BY <2>7 DEF RecoveryOver, Awaited, Cutting, StillListed
    <3> QED
      BY <2>1, <3>1, AwaitsAfter DEF QueuedIsAwaited
  <2> QED
    BY <1>2, <2>3, <2>4, <2>5, <2>6, <2>7 DEF Recover
<1>3. CASE Crash
  <2>1. running' = {}
    BY <1>3 DEF Crash
  <2>2. Cutting'
    BY <1>3, CrashLeaves DEF Cutting
  <2> QED
    BY <2>1, <2>2, AwaitsAfter DEF SettledReleases, WillFree, QueuedFree, WillAwait, Awaited
<1> QED
  BY <1>1, <1>2, <1>3 DEF RNext, RunnersStep

(***************************************************************************)
(* However often the server stops, a queued ticket is in the backlog, or   *)
(* recover() has yet to enqueue it (recover, enqueue).  The third loop     *)
(* relies on a ticket cut off by the restart not being queued and running  *)
(* again before its turn in the first: that takes a cancel and a retry.    *)
(***************************************************************************)
THEOREM BacklogComesBack ==
  ASSUME NoRerun
  PROVE  RSpec => []BacklogIsRecovered
<1> DEFINE IInv == /\ RTypeOK /\ ResumesOnce /\ SlotHasKeeper /\ SettledReleases
                   /\ QueuedIsAwaited /\ ListIsDormant
<1>1. RInit => IInv
  <2>1. RInit => SettledReleases /\ QueuedIsAwaited /\ ListIsDormant
    BY DEF RInit, Init, Idle, SettledReleases, QueuedIsAwaited, QueuedBacked, ListIsDormant, Cutting
  <2> QED
    BY <2>1, RInitType, RInitKeeps
<1>2. IInv /\ [RNext]_allVars => IInv'
  BY NoRerun, RNextType, RNextKeeps, RNextDozes, RNextAwaits
<1>3. IInv => BacklogIsRecovered
  BY DEF QueuedIsAwaited, QueuedBacked, Awaited, Cutting, BacklogIsRecovered,
         Backed, Kept, Pending, Waits
<1> QED
  BY <1>1, <1>2, <1>3, PTL DEF RSpec

=============================================================================
