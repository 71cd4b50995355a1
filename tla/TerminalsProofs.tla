-------------------------- MODULE TerminalsProofs --------------------------
(***************************************************************************)
(* Theorems about Terminals, for any tabs, windows and bounds: every       *)
(* window knows what can be resumed, and a tab that looks alive is, as     *)
(* long as a window without a socket is left alone.                        *)
(***************************************************************************)
EXTENDS Terminals, FiniteSetTheorems, SequenceTheorems, TLAPS

\* What is needed of the constants.
ConstantsOK == IsFiniteSet(Tabs) /\ Null \notin Entry

(***************************************************************************)
(* The types.  A window without a socket has nothing in flight.            *)
(***************************************************************************)
Asks == {"spawn", "attach", "close"} \X Tabs
News == {"restore", "dormant", "missing", "left", "killed"} \X Tabs
Lists == {"list"} \X SUBSET Tabs
Msgs == News \cup Lists
Dying == [tab : Tabs, subs : SUBSET Windows]

TypeOK ==
  /\ entries \in [Tabs -> Entry \cup {Null}]
  /\ dying \in SUBSET Dying
  /\ records \in SUBSET Tabs /\ file \in SUBSET Tabs
  /\ conn \in SUBSET Windows
  /\ toServer \in [Windows -> Seq(Asks)]
  /\ toWindow \in [Windows -> Seq(Msgs)]
  /\ tab \in [Windows -> [Tabs -> Shown \cup {"unseen", "closed"}]]
  /\ attached \in [Windows -> SUBSET Tabs]
  /\ listed \in [Windows -> SUBSET Tabs]

Silent == \A w \in Windows \ conn : toServer[w] = <<>> /\ toWindow[w] = <<>>

TInv == TypeOK /\ Silent

-----------------------------------------------------------------------------
(* The messages.                                                           *)

LEMMA Joined ==
  ASSUME NEW S, NEW p \in Seq(S), NEW q \in Seq(S)
  PROVE  /\ p \o q \in Seq(S)
         /\ Len(p) \in Nat /\ Len(q) \in Nat /\ Len(p \o q) = Len(p) + Len(q)
         /\ \A i \in 1..Len(p) : i \in 1..Len(p \o q) /\ (p \o q)[i] = p[i]
         /\ \A i \in 1..Len(q) : Len(p) + i \in 1..Len(p \o q) /\ (p \o q)[Len(p) + i] = q[i]
         /\ \A i \in 1..Len(p \o q) : i > Len(p) =>
              i - Len(p) \in 1..Len(q) /\ (p \o q)[i] = q[i - Len(p)]
         /\ \A m : Contains(p, m) \/ Contains(q, m) => Contains(p \o q, m)
<1>1. Len(p) \in Nat /\ Len(q) \in Nat
  OBVIOUS
<1>2. /\ p \o q \in Seq(S)
      /\ Len(p \o q) = Len(p) + Len(q)
      /\ \A i \in 1..Len(p) + Len(q) : (p \o q)[i] = IF i <= Len(p) THEN p[i] ELSE q[i - Len(p)]
  BY ConcatProperties
<1>3. \A i \in 1..Len(q) : Len(p) + i \in 1..Len(p) + Len(q) /\ ~(Len(p) + i <= Len(p))
                           /\ Len(p) + i - Len(p) = i
  BY <1>1
<1>4. \A i \in 1..Len(p) + Len(q) : i > Len(p) => ~(i <= Len(p)) /\ i - Len(p) \in 1..Len(q)
  BY <1>1
<1>5. \A i \in 1..Len(p) : i \in 1..Len(p) + Len(q) /\ i <= Len(p)
  BY <1>1
<1>6. \A i \in 1..Len(q) : (p \o q)[Len(p) + i] = q[i]
  BY <1>2, <1>3
<1>7. \A i \in 1..Len(p) : i \in 1..Len(p \o q) /\ (p \o q)[i] = p[i]
  BY <1>2, <1>5
<1>8. \A i \in 1..Len(q) : Len(p) + i \in 1..Len(p \o q)
  BY <1>2, <1>3
<1>9. \A m : Contains(p, m) \/ Contains(q, m) => Contains(p \o q, m)
  BY <1>6, <1>7, <1>8 DEF Contains
<1> QED
  BY <1>1, <1>2, <1>4, <1>6, <1>7, <1>8, <1>9

LEMMA Shortened ==
  ASSUME NEW S, NEW q \in Seq(S), q # <<>>
  PROVE  /\ Tail(q) \in Seq(S) /\ Head(q) \in S /\ Head(q) = q[1] /\ 1 \in 1..Len(q)
         /\ \A i \in 1..Len(Tail(q)) : i + 1 \in 1..Len(q) /\ Tail(q)[i] = q[i + 1]
         /\ \A i \in 1..Len(q) : i # 1 => i - 1 \in 1..Len(Tail(q)) /\ Tail(q)[i - 1] = q[i]
         /\ \A m : Contains(q, m) => m = Head(q) \/ Contains(Tail(q), m)
<1>1. /\ Tail(q) \in Seq(S) /\ Head(q) \in S
      /\ Len(Tail(q)) = Len(q) - 1
      /\ \A i \in 1..Len(Tail(q)) : Tail(q)[i] = q[i + 1]
  BY HeadTailProperties
<1>2. Len(q) \in Nat /\ Len(q) # 0 /\ Head(q) = q[1]
  BY EmptySeq
<1>3. \A i \in 1..Len(Tail(q)) : i + 1 \in 1..Len(q)
  BY <1>1, <1>2
<1>4. \A i \in 1..Len(q) : i # 1 => i - 1 \in 1..Len(Tail(q)) /\ (i - 1) + 1 = i
  BY <1>1, <1>2
<1>5. \A i \in 1..Len(q) : i # 1 => Tail(q)[i - 1] = q[i]
  BY <1>1, <1>4
<1>6. \A m : Contains(q, m) => m = Head(q) \/ Contains(Tail(q), m)
  BY <1>2, <1>4, <1>5 DEF Contains
<1> QED
  BY <1>1, <1>2, <1>3, <1>4, <1>5, <1>6

LEMMA Enumerated ==
  ASSUME NEW S, IsFiniteSet(S)
  PROVE  /\ Cardinality(S) \in Nat
         /\ SetToSeq(S) \in [1..Cardinality(S) -> S]
         /\ \A x \in S : \E i \in 1..Cardinality(S) : SetToSeq(S)[i] = x
<1>1. Cardinality(S) \in Nat /\ ExistsBijection(1..Cardinality(S), S)
  BY FS_CardinalityType
<1>2. PICK f \in [1..Cardinality(S) -> S] : IsInjective(f)
  BY <1>1 DEF ExistsBijection, Bijection, Injection, IsInjective
<1>3. SetToSeq(S) \in [1..Cardinality(S) -> S] /\ IsInjective(SetToSeq(S))
  BY <1>2 DEF SetToSeq
<1>4. SetToSeq(S) \in Injection(1..Cardinality(S), S)
  BY <1>3 DEF Injection, IsInjective
<1>5. Cardinality(1..Cardinality(S)) = Cardinality(S)
  BY <1>1, FS_Interval
<1>6. SetToSeq(S) \in Surjection(1..Cardinality(S), S)
  BY <1>4, <1>5, FS_Injection
<1> QED
  BY <1>1, <1>3, <1>6 DEF Surjection

\* What a window says reaches the server after what it said before; nothing
\* is said while the socket is down.
LEMMA SaysAll ==
  ASSUME ConstantsOK, TypeOK, NEW w \in Windows, NEW kind \in {"spawn", "attach", "close"},
         NEW ts \in SUBSET Tabs, Says(w, kind, ts)
  PROVE  /\ toServer' \in [Windows -> Seq(Asks)]
         /\ \A v \in Windows : v # w \/ w \notin conn' => toServer'[v] = toServer[v]
         /\ \A v \in Windows : \A m : Contains(toServer[v], m) => Contains(toServer'[v], m)
         /\ w \in conn' => \A t \in ts : Contains(toServer'[w], <<kind, t>>)
<1>1. IsFiniteSet(ts)
  BY FS_Subset DEF ConstantsOK
<1> DEFINE n == Cardinality(ts)
           messages == [i \in 1..n |-> <<kind, SetToSeq(ts)[i]>>]
<1>2. n \in Nat /\ \A i \in 1..n : SetToSeq(ts)[i] \in ts
  BY <1>1, Enumerated
<1>3. messages \in Seq(Asks) /\ Len(messages) = n
  <2>1. \A i \in 1..n : messages[i] \in Asks
    BY <1>2 DEF Asks
  <2>2. messages \in [1..n -> Asks]
    BY <2>1
  <2>3. n \in Nat
    BY <1>2
  <2> HIDE DEF messages, n
  <2> QED
    BY <2>2, <2>3
<1>4. CASE w \notin conn'
  BY <1>4 DEF Says, TypeOK
<1>5. CASE w \in conn'
  <2>1. DOMAIN SetToSeq(ts) = 1..n
    BY <1>1, Enumerated
  <2>2. toServer' = [toServer EXCEPT ![w] = @ \o messages]
    BY <1>5, <2>1 DEF Says
  <2>3. ASSUME NEW t \in ts PROVE Contains(messages, <<kind, t>>)
    <3>1. PICK i \in 1..n : SetToSeq(ts)[i] = t
      BY <1>1, Enumerated
    <3>2. messages[i] = <<kind, t>>
      BY <3>1
    <3> QED
      BY <3>2, <1>3 DEF Contains
  <2> HIDE DEF messages, n
  <2>4. /\ toServer[w] \in Seq(Asks)
        /\ toServer'[w] = toServer[w] \o messages
        /\ \A v \in Windows : v # w => toServer'[v] = toServer[v]
    BY <2>2 DEF TypeOK
  <2>5. messages \in Seq(Asks)
    BY <1>3
  <2>6. /\ toServer[w] \o messages \in Seq(Asks)
        /\ \A m : Contains(toServer[w], m) \/ Contains(messages, m) => Contains(toServer[w] \o messages, m)
    BY <2>4, <2>5, Joined
  <2>7. toServer' \in [Windows -> Seq(Asks)]
    BY <2>2, <2>6 DEF TypeOK
  <2> QED
    BY <1>5, <2>3, <2>4, <2>6, <2>7
<1> QED
  BY <1>4, <1>5

\* The server takes the first message of a window.
LEMMA TakesFirst ==
  ASSUME TypeOK, NEW w \in Windows, NEW kind, NEW t, Takes(w, kind, t)
  PROVE  /\ toServer' \in [Windows -> Seq(Asks)]
         /\ \A v \in Windows : v # w => toServer'[v] = toServer[v]
         /\ toServer[w] # <<>>
         /\ \A m : Contains(toServer[w], m) => m = <<kind, t>> \/ Contains(toServer'[w], m)
<1>1. toServer[w] \in Seq(Asks) /\ toServer[w] # <<>> /\ toServer'[w] = Tail(toServer[w])
  BY DEF Takes, TypeOK
<1>2. /\ Tail(toServer[w]) \in Seq(Asks)
      /\ \A m : Contains(toServer[w], m) => m = Head(toServer[w]) \/ Contains(Tail(toServer[w]), m)
  BY <1>1, Shortened
<1>3. toServer' \in [Windows -> Seq(Asks)] /\ \A v \in Windows : v # w => toServer'[v] = toServer[v]
  BY <1>1, <1>2 DEF Takes, TypeOK
<1> QED
  BY <1>1, <1>2, <1>3 DEF Takes

\* A window reads the first message.
LEMMA HearsFirst ==
  ASSUME TypeOK, NEW w \in Windows, NEW sort, Hears(w, sort)
  PROVE  /\ toWindow' \in [Windows -> Seq(Msgs)]
         /\ \A v \in Windows : v # w => toWindow'[v] = toWindow[v]
         /\ toWindow[w] \in Seq(Msgs) /\ toWindow[w] # <<>> /\ toWindow'[w] = Tail(toWindow[w])
         /\ Head(toWindow[w]) \in Msgs
         /\ Head(toWindow[w])[1] = sort
         /\ \A m : Contains(toWindow[w], m) => m = Head(toWindow[w]) \/ Contains(toWindow'[w], m)
<1>1. toWindow[w] \in Seq(Msgs) /\ toWindow[w] # <<>> /\ toWindow'[w] = Tail(toWindow[w])
  BY DEF Hears, TypeOK
<1>2. /\ Tail(toWindow[w]) \in Seq(Msgs) /\ Head(toWindow[w]) \in Msgs
      /\ \A m : Contains(toWindow[w], m) => m = Head(toWindow[w]) \/ Contains(Tail(toWindow[w]), m)
  BY <1>1, Shortened
<1>3. toWindow' \in [Windows -> Seq(Msgs)] /\ \A v \in Windows : v # w => toWindow'[v] = toWindow[v]
  BY <1>1, <1>2 DEF Hears, TypeOK
<1> QED
  BY <1>1, <1>2, <1>3 DEF Hears

\* The last list a window with the messages q will have read, of which it
\* shows x, is R.
Latest(q, x, R) ==
  \/ x = R /\ \A i \in 1..Len(q) : q[i] \notin Lists
  \/ \E i \in 1..Len(q) : q[i] = <<"list", R>> /\ \A j \in 1..Len(q) : j > i => q[j] \notin Lists

LEMMA NoNewsIsAList == ASSUME NEW m \in News PROVE m \notin Lists
BY DEF News, Lists

LEMMA LatestKept ==
  ASSUME NEW q \in Seq(Msgs), NEW m \in Seq(News), NEW x, NEW R, Latest(q, x, R)
  PROVE  Latest(q \o m, x, R)
<1>1. m \in Seq(Msgs)
  BY SeqMonotonic DEF Msgs
<1>2. /\ Len(q) \in Nat
      /\ \A i \in 1..Len(q) : i \in 1..Len(q \o m) /\ (q \o m)[i] = q[i]
      /\ \A i \in 1..Len(q \o m) : i > Len(q) =>
              i - Len(q) \in 1..Len(m) /\ (q \o m)[i] = m[i - Len(q)]
  BY <1>1, Joined
<1>3. \A i \in 1..Len(q \o m) : i > Len(q) => (q \o m)[i] \notin Lists
  BY <1>2, NoNewsIsAList
<1>4. \A i \in 1..Len(q \o m) : ~(i > Len(q)) => i \in 1..Len(q) /\ (q \o m)[i] = q[i]
  BY <1>1, <1>2, Joined
<1>5. CASE x = R /\ \A i \in 1..Len(q) : q[i] \notin Lists
  BY <1>3, <1>4, <1>5 DEF Latest
<1>6. ASSUME NEW i \in 1..Len(q), q[i] = <<"list", R>>, \A j \in 1..Len(q) : j > i => q[j] \notin Lists
      PROVE  Latest(q \o m, x, R)
  BY <1>2, <1>3, <1>4, <1>6 DEF Latest
<1> QED
  BY <1>5, <1>6 DEF Latest

LEMMA LatestNew ==
  ASSUME NEW q \in Seq(Msgs), NEW x, NEW R \in SUBSET Tabs
  PROVE  Latest(q \o << <<"list", R>> >>, x, R)
<1> DEFINE m == << <<"list", R>> >>
<1>1. m \in Seq(Msgs) /\ Len(m) = 1 /\ m[1] = <<"list", R>>
  BY DEF Msgs, Lists
<1> HIDE DEF m
<1>2. /\ Len(q) \in Nat /\ Len(q \o m) = Len(q) + Len(m)
      /\ \A i \in 1..Len(m) : Len(q) + i \in 1..Len(q \o m) /\ (q \o m)[Len(q) + i] = m[i]
  <2>1. m \in Seq(Msgs)
    BY <1>1
  <2> QED
    BY <2>1, Joined
<1>3. Len(q) + 1 \in 1..Len(q \o m) /\ (q \o m)[Len(q) + 1] = <<"list", R>>
  BY <1>1, <1>2
<1>4. \A j \in 1..Len(q \o m) : ~(j > Len(q) + 1)
  BY <1>1, <1>2
<1>5. Latest(q \o m, x, R)
  BY <1>3, <1>4 DEF Latest
<1> QED
  BY <1>5 DEF m

LEMMA LatestRead ==
  ASSUME NEW q \in Seq(Msgs), q # <<>>, NEW x, NEW R, Latest(q, x, R)
  PROVE  /\ Head(q) \notin Lists => Latest(Tail(q), x, R)
         /\ Head(q) \in Lists => Latest(Tail(q), Head(q)[2], R)
<1>1. /\ Head(q) = q[1] /\ 1 \in 1..Len(q)
      /\ \A i \in 1..Len(Tail(q)) : i + 1 \in 1..Len(q) /\ Tail(q)[i] = q[i + 1]
      /\ \A i \in 1..Len(q) : i # 1 => i - 1 \in 1..Len(Tail(q)) /\ Tail(q)[i - 1] = q[i]
  BY Shortened
<1>2. CASE x = R /\ \A i \in 1..Len(q) : q[i] \notin Lists
  BY <1>1, <1>2 DEF Latest
<1>3. ASSUME NEW i \in 1..Len(q), q[i] = <<"list", R>>, \A j \in 1..Len(q) : j > i => q[j] \notin Lists
      PROVE  /\ Head(q) \notin Lists => Latest(Tail(q), x, R)
             /\ Head(q) \in Lists => Latest(Tail(q), Head(q)[2], R)
  <2>1. Len(q) \in Nat /\ i \in Nat
    OBVIOUS
  <2>2. CASE i = 1
    <3>1. Head(q) = <<"list", R>> /\ Head(q)[2] = R
      BY <1>1, <1>3, <2>2
    <3>2. \A j \in 1..Len(Tail(q)) : j + 1 \in 1..Len(q) /\ j + 1 > i /\ Tail(q)[j] = q[j + 1]
      BY <1>1, <2>2
    <3>3. \A j \in 1..Len(Tail(q)) : Tail(q)[j] \notin Lists
      BY <1>3, <3>2
    <3>4. CASE R \in SUBSET Tabs
      <4>1. Head(q) \in Lists
        BY <3>1, <3>4 DEF Lists
      <4>2. Latest(Tail(q), R, R)
        BY <3>3 DEF Latest
      <4> QED
        BY <3>1, <4>1, <4>2
    <3>5. CASE R \notin SUBSET Tabs
      <4>1. <<"list", R>> \in Msgs
        BY <1>3
      <4> QED
        BY <4>1, <3>5 DEF Msgs, News, Lists
    <3> QED
      BY <3>4, <3>5
  <2>3. CASE i # 1
    <3>1. i - 1 \in 1..Len(Tail(q)) /\ Tail(q)[i - 1] = <<"list", R>>
      BY <1>1, <1>3, <2>3
    <3>2. \A j \in 1..Len(Tail(q)) : j > i - 1 => j + 1 > i /\ j + 1 \in 1..Len(q) /\ Tail(q)[j] = q[j + 1]
      BY <1>1, <2>1
    <3>3. \A j \in 1..Len(Tail(q)) : j > i - 1 => Tail(q)[j] \notin Lists
      BY <1>3, <3>2
    <3> QED
      BY <3>1, <3>3 DEF Latest
  <2> QED
    BY <2>2, <2>3
<1> QED
  BY <1>2, <1>3 DEF Latest

\* What every window with a socket is told reaches it, after what is on its
\* way already.
Reaches(told) ==
  /\ toWindow' \in [Windows -> Seq(Msgs)]
  /\ \A v \in Windows \ conn : toWindow'[v] = toWindow[v]
  /\ \A v \in Windows : \A m : Contains(toWindow[v], m) => Contains(toWindow'[v], m)
  /\ \A v \in conn : \A m : Contains(told[v], m) => Contains(toWindow'[v], m)

LEMMA OnlyNews ==
  ASSUME NEW ws, NEW msgs \in Seq(News)
  PROVE  /\ Only(ws, msgs) \in [Windows -> Seq(News)]
         /\ \A v \in Windows : v \in ws => Only(ws, msgs)[v] = msgs
BY DEF Only

LEMMA SentNews ==
  ASSUME TypeOK, NEW told \in [Windows -> Seq(News)], Sent(<<>>, told)
  PROVE  /\ Reaches(told)
         /\ \A v \in conn : \A x, R : Latest(toWindow[v], x, R) => Latest(toWindow'[v], x, R)
<1>1. ASSUME NEW v \in conn
      PROVE  /\ toWindow[v] \in Seq(Msgs) /\ told[v] \in Seq(News) /\ told[v] \in Seq(Msgs)
             /\ toWindow'[v] = toWindow[v] \o told[v]
  <2>1. toWindow[v] \in Seq(Msgs) /\ v \in Windows
    BY DEF TypeOK
  <2>2. toWindow'[v] = toWindow[v] \o <<>> \o told[v]
    BY <2>1 DEF Sent
  <2>3. toWindow[v] \o <<>> = toWindow[v]
    BY <2>1, ConcatEmptySeq
  <2>4. told[v] \in Seq(Msgs)
    BY <2>1, SeqMonotonic DEF Msgs
  <2> QED
    BY <2>1, <2>2, <2>3, <2>4
<1>2. \A v \in Windows \ conn : toWindow'[v] = toWindow[v]
  BY DEF Sent
<1>3. ASSUME NEW v \in conn
      PROVE  /\ toWindow'[v] \in Seq(Msgs)
             /\ \A m : Contains(toWindow[v], m) \/ Contains(told[v], m) => Contains(toWindow'[v], m)
  <2>1. /\ toWindow[v] \o told[v] \in Seq(Msgs)
        /\ \A m : Contains(toWindow[v], m) \/ Contains(told[v], m) => Contains(toWindow[v] \o told[v], m)
    BY <1>1, Joined
  <2> QED
    BY <1>1, <2>1
<1>4. toWindow' \in [Windows -> Seq(Msgs)]
  <2>1. DOMAIN toWindow' = Windows /\ toWindow' = [v \in Windows |-> toWindow'[v]]
    BY DEF Sent
  <2>2. \A v \in Windows : toWindow'[v] \in Seq(Msgs)
    BY <1>2, <1>3 DEF TypeOK
  <2> QED
    BY <2>1, <2>2
<1>5. \A v \in conn : \A x, R : Latest(toWindow[v], x, R) => Latest(toWindow'[v], x, R)
  BY <1>1, LatestKept
<1> QED
  BY <1>2, <1>3, <1>4, <1>5 DEF Reaches

LEMMA SentList ==
  ASSUME TypeOK, NEW told \in [Windows -> Seq(News)], NEW R \in SUBSET Tabs, Sent(<< <<"list", R>> >>, told)
  PROVE  /\ Reaches(told)
         /\ \A v \in conn : \A x : Latest(toWindow'[v], x, R)
<1> DEFINE first(v) == toWindow[v] \o << <<"list", R>> >>
<1>0. << <<"list", R>> >> \in Seq(Msgs)
  BY DEF Msgs, Lists
<1>1. ASSUME NEW v \in conn
      PROVE  /\ toWindow[v] \in Seq(Msgs) /\ told[v] \in Seq(News) /\ told[v] \in Seq(Msgs)
             /\ toWindow'[v] = first(v) \o told[v]
             /\ first(v) \in Seq(Msgs)
             /\ \A m : Contains(toWindow[v], m) => Contains(first(v), m)
  <2>1. toWindow[v] \in Seq(Msgs) /\ v \in Windows
    BY DEF TypeOK
  <2>2. toWindow'[v] = first(v) \o told[v]
    BY <2>1 DEF Sent
  <2>3. first(v) \in Seq(Msgs) /\ \A m : Contains(toWindow[v], m) => Contains(first(v), m)
    BY <1>0, <2>1, Joined
  <2>4. told[v] \in Seq(Msgs)
    BY <2>1, SeqMonotonic DEF Msgs
  <2> QED
    BY <2>1, <2>2, <2>3, <2>4
<1>2. \A v \in Windows \ conn : toWindow'[v] = toWindow[v]
  BY DEF Sent
<1>5. ASSUME NEW v \in conn, NEW x PROVE Latest(toWindow'[v], x, R)
  <2>1. Latest(first(v), x, R)
    BY <1>1, LatestNew
  <2> HIDE DEF first
  <2> QED
    BY <1>1, <2>1, LatestKept
<1> HIDE DEF first
<1>3. ASSUME NEW v \in conn
      PROVE  /\ toWindow'[v] \in Seq(Msgs)
             /\ \A m : Contains(toWindow[v], m) \/ Contains(told[v], m) => Contains(toWindow'[v], m)
  <2>1. /\ first(v) \o told[v] \in Seq(Msgs)
        /\ \A m : Contains(first(v), m) \/ Contains(told[v], m) => Contains(first(v) \o told[v], m)
    BY <1>1, Joined
  <2> QED
    BY <1>1, <2>1
<1>4. toWindow' \in [Windows -> Seq(Msgs)]
  <2>1. DOMAIN toWindow' = Windows /\ toWindow' = [v \in Windows |-> toWindow'[v]]
    BY DEF Sent
  <2>2. \A v \in Windows : toWindow'[v] \in Seq(Msgs)
    BY <1>2, <1>3 DEF TypeOK
  <2> QED
    BY <2>1, <2>2
<1> QED
  BY <1>2, <1>3, <1>4, <1>5 DEF Reaches

-----------------------------------------------------------------------------
(* The entries.                                                            *)

Frame(t) == entries[t] \in Entry

LEMMA FrameOrNull ==
  ASSUME ConstantsOK, TypeOK, NEW t \in Tabs
  PROVE  /\ entries[t] # Null <=> Frame(t)
         /\ IsLive(t) <=> Frame(t) /\ entries[t].pty = "live"
BY DEF ConstantsOK, TypeOK, Frame, IsLive

LEMMA ResumableTabs ==
  ASSUME NEW recs \in SUBSET Tabs, NEW es
  PROVE  Resumable(recs, es) \in SUBSET Tabs
BY DEF Resumable

SameLive == \A t \in Tabs : (IsLive(t))' <=> IsLive(t)

LEMMA SameResumable ==
  ASSUME TypeOK, SameLive, records' = records
  PROVE  Resumable(records', entries') = Resumable(records, entries)
BY DEF TypeOK, SameLive, IsLive, Resumable

\* The window w joins those that watch t.
Joins(w, t) ==
  /\ entries' \in [Tabs -> Entry \cup {Null}]
  /\ SameLive
  /\ \A u \in Tabs, v \in Windows : IsLive(u) /\ v \in entries[u].subs => v \in entries'[u].subs
  /\ w \in entries'[t].subs

LEMMA SubscribedJoins ==
  ASSUME ConstantsOK, TypeOK, NEW w \in Windows, NEW t \in Tabs, Frame(t), Subscribed(w, t)
  PROVE  Joins(w, t)
<1> DEFINE new == [entries[t] EXCEPT !.subs = @ \cup {w}]
<1>1. /\ new \in Entry /\ new.pty = entries[t].pty /\ new.subs = entries[t].subs \cup {w}
  BY DEF Frame, Entry
<1>2. /\ entries' = [entries EXCEPT ![t] = new] /\ entries \in [Tabs -> Entry \cup {Null}]
  BY DEF Subscribed, TypeOK
<1> HIDE DEF new
<1>3. entries'[t] = new /\ \A u \in Tabs : u # t => entries'[u] = entries[u]
  BY <1>2
<1>4. entries' \in [Tabs -> Entry \cup {Null}]
  BY <1>1, <1>2
<1>5. new # Null /\ entries[t] # Null
  BY <1>1 DEF ConstantsOK, Frame
<1>6. SameLive
  BY <1>1, <1>3, <1>5 DEF SameLive, IsLive
<1>7. \A u \in Tabs, v \in Windows : IsLive(u) /\ v \in entries[u].subs => v \in entries'[u].subs
  BY <1>1, <1>3
<1> QED
  BY <1>1, <1>3, <1>4, <1>6, <1>7 DEF Joins

\* One entry becomes e.
Becomes(t, e) == /\ entries'[t] = e
                 /\ \A u \in Tabs : u # t => entries'[u] = entries[u]
                 /\ entries' \in [Tabs -> Entry \cup {Null}]

LEMMA OneBecomes ==
  ASSUME TypeOK, NEW t \in Tabs, NEW e \in Entry \cup {Null}, entries' = [entries EXCEPT ![t] = e]
  PROVE  Becomes(t, e)
BY DEF TypeOK, Becomes

LEMMA ExitBecomes ==
  ASSUME ConstantsOK, TypeOK, NEW t \in Tabs, NEW how \in Exits, IsLive(t),
         entries' = [entries EXCEPT ![t].pty = how]
  PROVE  \E e \in Entry : e.pty = how /\ e.subs = entries[t].subs /\ Becomes(t, e)
<1> DEFINE e == [entries[t] EXCEPT !.pty = how]
<1>1. entries[t] \in Entry
  BY FrameOrNull DEF Frame
<1>2. e \in Entry /\ e.pty = how /\ e.subs = entries[t].subs
  BY <1>1 DEF Entry
<1>3. entries' = [entries EXCEPT ![t] = e]
  BY DEF TypeOK
<1> HIDE DEF e
<1> QED
  BY <1>2, <1>3, OneBecomes

\* The window w leaves; what it was subscribed to is left as it was.
LEMMA DropsOne ==
  ASSUME ConstantsOK, TypeOK, NEW w \in Windows, Drops(w)
  PROVE  /\ entries' \in [Tabs -> Entry \cup {Null}]
         /\ SameLive
         /\ \A u \in Tabs, v \in Windows \ {w} : IsLive(u) /\ v \in entries[u].subs => v \in entries'[u].subs
         /\ dying' \in SUBSET Dying
         /\ \A v \in Windows \ {w} : \A d \in dying : v \in d.subs =>
              \E e \in dying' : e.tab = d.tab /\ v \in e.subs
         /\ conn' = conn \ {w}
         /\ toServer' \in [Windows -> Seq(Asks)] /\ toServer'[w] = <<>>
         /\ toWindow' \in [Windows -> Seq(Msgs)] /\ toWindow'[w] = <<>>
         /\ attached' \in [Windows -> SUBSET Tabs] /\ attached'[w] = {}
         /\ \A v \in Windows \ {w} : /\ toServer'[v] = toServer[v] /\ toWindow'[v] = toWindow[v]
                                    /\ attached'[v] = attached[v]
<1>1. ASSUME NEW u \in Tabs, entries[u] # Null
      PROVE  /\ entries'[u] \in Entry /\ entries'[u].pty = entries[u].pty
             /\ entries'[u].subs = entries[u].subs \ {w}
             /\ entries'[u] # Null
  <2>1. entries[u] \in Entry /\ entries'[u] = [entries[u] EXCEPT !.subs = @ \ {w}]
    BY <1>1 DEF TypeOK, Drops
  <2>2. entries'[u] \in Entry /\ entries'[u].pty = entries[u].pty /\ entries'[u].subs = entries[u].subs \ {w}
    BY <2>1 DEF Entry
  <2> QED
    BY <2>2 DEF ConstantsOK
<1>2. \A u \in Tabs : entries[u] = Null => entries'[u] = Null
  BY DEF Drops
<1>3. entries' \in [Tabs -> Entry \cup {Null}]
  <2>1. entries' = [u \in Tabs |-> entries'[u]]
    BY DEF Drops
  <2> QED
    BY <1>1, <1>2, <2>1
<1>4. SameLive
  BY <1>1, <1>2 DEF SameLive, IsLive
<1>5. \A u \in Tabs, v \in Windows \ {w} : IsLive(u) /\ v \in entries[u].subs => v \in entries'[u].subs
  BY <1>1 DEF IsLive
<1>6. ASSUME NEW d \in dying
      PROVE  /\ [d EXCEPT !.subs = @ \ {w}] \in dying' /\ [d EXCEPT !.subs = @ \ {w}] \in Dying
             /\ [d EXCEPT !.subs = @ \ {w}].tab = d.tab
             /\ [d EXCEPT !.subs = @ \ {w}].subs = d.subs \ {w}
  <2>1. d \in Dying
    BY DEF TypeOK
  <2> QED
    BY <2>1 DEF Drops, Dying
<1>7. dying' \in SUBSET Dying
  BY <1>6 DEF Drops
<1>8. \A v \in Windows \ {w} : \A d \in dying : v \in d.subs =>
        \E e \in dying' : e.tab = d.tab /\ v \in e.subs
  BY <1>6
<1>9. <<>> \in Seq(Asks) /\ <<>> \in Seq(Msgs)
  OBVIOUS
<1>10. /\ toServer' \in [Windows -> Seq(Asks)] /\ toServer'[w] = <<>>
       /\ toWindow' \in [Windows -> Seq(Msgs)] /\ toWindow'[w] = <<>>
       /\ attached' \in [Windows -> SUBSET Tabs] /\ attached'[w] = {}
       /\ \A v \in Windows \ {w} : /\ toServer'[v] = toServer[v] /\ toWindow'[v] = toWindow[v]
                                  /\ attached'[v] = attached[v]
  BY <1>9 DEF Drops, TypeOK
<1> QED
  BY <1>3, <1>4, <1>5, <1>7, <1>8, <1>10 DEF Drops

-----------------------------------------------------------------------------
(* The invariants.  What a window will have read last is what can be       *)
(* resumed ...                                                             *)

ListInv == \A w \in conn : Latest(toWindow[w], listed[w], Resumable(records, entries))

(***************************************************************************)
(* ... and whoever shows a tab as running is watching it, or will hear     *)
(* that it ended, or has asked for it, or will learn of an answer.  This   *)
(* is so as long as a window without a socket has nothing attached.        *)
(***************************************************************************)
Watched(w, t) == IsLive(t) /\ w \in entries[t].subs
Ending(w, t) == \E d \in dying : d.tab = t /\ w \in d.subs
Asked(w, t) == Contains(toServer[w], <<"spawn", t>>) \/ Contains(toServer[w], <<"attach", t>>)
Answers == {"dormant", "missing", "left", "killed"}
Answered(w, t) == \E kind \in Answers : Contains(toWindow[w], <<kind, t>>)

Attended(w, t) == Watched(w, t) \/ Ending(w, t) \/ Asked(w, t) \/ Answered(w, t)

RunningInv == \A w \in conn, t \in Tabs : tab[w][t] = "running" => Attended(w, t)
DownInv == \A w \in Windows \ conn : attached[w] = {}
WatchInv == RunningInv /\ DownInv

Keeps == TInv' /\ (ListInv => ListInv') /\ (~Offline /\ WatchInv => WatchInv')

LEMMA NewsTyped ==
  ASSUME NEW t \in Tabs, NEW kind \in {"restore"} \cup Answers
  PROVE  /\ << <<kind, t>> >> \in Seq(News) /\ <<>> \in Seq(News)
         /\ Contains(<< <<kind, t>> >>, <<kind, t>>)
<1>1. <<kind, t>> \in News
  BY DEF News, Answers
<1>2. << <<kind, t>> >> \in Seq(News) /\ Len(<< <<kind, t>> >>) = 1 /\ << <<kind, t>> >>[1] = <<kind, t>>
  BY <1>1
<1> QED
  BY <1>2 DEF Contains

\* What a message to the server leaves of the rest.
LEMMA ServedWatch ==
  ASSUME TypeOK, RunningInv, NEW w \in Windows, NEW t \in Tabs, NEW kind, Takes(w, kind, t),
         conn' = conn, tab' = tab,
         \A v \in Windows : \A m : Contains(toWindow[v], m) => Contains(toWindow'[v], m),
         \A u \in Tabs, v \in Windows : Watched(v, u) => (Attended(v, u))',
         \A u \in Tabs, v \in Windows : Ending(v, u) => (Ending(v, u))',
         kind \in {"spawn", "attach"} => (Attended(w, t))'
  PROVE  RunningInv'
<1> SUFFICES ASSUME NEW v \in conn, NEW u \in Tabs, tab[v][u] = "running"
             PROVE  (Attended(v, u))'
  BY DEF RunningInv
<1>1. Attended(v, u) /\ v \in Windows
  BY DEF RunningInv, TypeOK
<1>2. CASE Asked(v, u)
  <2>1. PICK k \in {"spawn", "attach"} : Contains(toServer[v], <<k, u>>)
    BY <1>2 DEF Asked
  <2>2. CASE v = w /\ <<k, u>> = <<kind, t>>
    <3>1. k = kind /\ u = t
      BY <2>2
    <3> QED
      BY <2>2, <3>1
  <2>3. CASE v # w \/ <<k, u>> # <<kind, t>>
    <3>1. Contains(toServer'[v], <<k, u>>)
      BY <1>1, <2>1, <2>3, TakesFirst
    <3> QED
      BY <3>1 DEF Attended, Asked
  <2> QED
    BY <2>2, <2>3
<1>3. CASE Answered(v, u)
  BY <1>1, <1>3 DEF Attended, Answered
<1> QED
  BY <1>1, <1>2, <1>3 DEF Attended

LEMMA ServeReattachKeeps ==
  ASSUME ConstantsOK, TInv, NEW w \in Windows, NEW t \in Tabs, ServeReattach(w, t)
  PROVE  Keeps
<1> DEFINE told == Only({w}, << <<"restore", t>> >>)
<1> USE DEF TInv
<1>1. /\ Takes(w, "spawn", t) /\ IsLive(t) /\ Subscribed(w, t) /\ Sent(<<>>, told)
      /\ UNCHANGED <<dying, records, file, conn, tab, attached, listed>>
  BY DEF ServeReattach, page
<1>2. told \in [Windows -> Seq(News)]
  BY NewsTyped, OnlyNews
<1> HIDE DEF told
<1>3. /\ Reaches(told)
      /\ \A v \in conn : \A x, R : Latest(toWindow[v], x, R) => Latest(toWindow'[v], x, R)
  BY <1>1, <1>2, SentNews
<1>4. Joins(w, t)
  BY <1>1, SubscribedJoins, FrameOrNull
<1>5. /\ toServer' \in [Windows -> Seq(Asks)]
      /\ \A v \in Windows : v # w => toServer'[v] = toServer[v]
      /\ w \in conn
  BY <1>1, TakesFirst DEF Silent
<1>6. TInv'
  BY <1>1, <1>3, <1>4, <1>5 DEF TypeOK, Silent, Reaches, Joins
<1>7. ListInv => ListInv'
  BY <1>1, <1>3, <1>4, SameResumable DEF ListInv, Joins
<1>8. ASSUME ~Offline, WatchInv PROVE WatchInv'
  <2>1. \A u \in Tabs, v \in Windows : Watched(v, u) => (Watched(v, u))'
    BY <1>4 DEF Joins, Watched, SameLive
  <2>2. (Watched(w, t))'
    BY <1>1, <1>4 DEF Joins, Watched, SameLive
  <2>3. RunningInv'
    BY <1>1, <1>3, <1>8, <2>1, <2>2, ServedWatch DEF WatchInv, Reaches, Ending, Attended
  <2> QED
    BY <1>1, <1>8, <2>3 DEF WatchInv, DownInv
<1> QED
  BY <1>6, <1>7, <1>8 DEF Keeps

LEMMA ServeSpawnKeeps ==
  ASSUME ConstantsOK, TInv, NEW w \in Windows, NEW t \in Tabs, ServeSpawn(w, t)
  PROVE  Keeps
<1> DEFINE told == Only({}, <<>>)
           R == Resumable(records', entries')
           e == [pty |-> "live", subs |-> {w}]
<1> USE DEF TInv
<1>1. /\ Takes(w, "spawn", t) /\ ~IsLive(t) /\ Sent(<< <<"list", R>> >>, told)
      /\ entries' = [entries EXCEPT ![t] = e]
      /\ records' = records \cup {t}
      /\ UNCHANGED <<dying, file, conn, tab, attached, listed>>
  BY DEF ServeSpawn, page, List
<1>2. told \in [Windows -> Seq(News)]
  BY NewsTyped, OnlyNews
<1>3. e \in Entry /\ e # Null
  BY DEF Entry, ConstantsOK
<1>4. Becomes(t, e)
  BY <1>1, <1>3, OneBecomes
<1>5. records' \in SUBSET Tabs
  BY <1>1 DEF TypeOK
<1>6. R \in SUBSET Tabs
  BY <1>5, ResumableTabs
<1>7. entries'[t].pty = "live" /\ entries'[t].subs = {w} /\ entries'[t] # Null
  BY <1>3, <1>4 DEF Becomes
<1> HIDE DEF told, R, e
<1>8. Reaches(told) /\ \A v \in conn : \A x : Latest(toWindow'[v], x, R)
  BY <1>1, <1>2, <1>6, SentList
<1>9. /\ toServer' \in [Windows -> Seq(Asks)]
      /\ \A v \in Windows : v # w => toServer'[v] = toServer[v]
      /\ w \in conn
  BY <1>1, TakesFirst DEF Silent
<1>10. TInv'
  BY <1>1, <1>4, <1>5, <1>8, <1>9 DEF TypeOK, Silent, Reaches, Becomes
<1>11. ListInv'
  BY <1>1, <1>8 DEF ListInv, R
<1>12. ASSUME ~Offline, WatchInv PROVE WatchInv'
  <2>1. \A u \in Tabs, v \in Windows : Watched(v, u) => (Watched(v, u))'
    BY <1>1, <1>4 DEF Becomes, Watched, IsLive
  <2>2. (Watched(w, t))'
    BY <1>7 DEF Watched, IsLive
  <2>3. RunningInv'
    BY <1>1, <1>8, <1>12, <2>1, <2>2, ServedWatch DEF WatchInv, Reaches, Ending, Attended
  <2> QED
    BY <1>1, <1>12, <2>3 DEF WatchInv, DownInv
<1> QED
  BY <1>10, <1>11, <1>12 DEF Keeps

LEMMA OneAfterOne ==
  ASSUME NEW S, NEW a \in S, NEW b \in S
  PROVE  <<a>> \in Seq(S) /\ <<b>> \in Seq(S) /\ <<a, b>> = <<a>> \o <<b>>
<1>1. /\ <<a>> \in Seq(S) /\ <<b>> \in Seq(S) /\ <<a, b>> \in Seq(S)
      /\ Len(<<a>>) = 1 /\ Len(<<b>>) = 1 /\ Len(<<a, b>>) = 2
  OBVIOUS
<1>2. /\ <<a>> \o <<b>> \in Seq(S)
      /\ Len(<<a>> \o <<b>>) = 2
      /\ (<<a>> \o <<b>>)[1] = a /\ (<<a>> \o <<b>>)[2] = b
  BY <1>1, ConcatProperties
<1>3. \A i \in 1..2 : <<a, b>>[i] = (<<a>> \o <<b>>)[i]
  BY <1>2
<1> QED
  BY <1>1, <1>2, <1>3, SeqEqual

LEMMA SpawnFailsKeeps ==
  ASSUME ConstantsOK, TInv, NEW w \in Windows, NEW t \in Tabs, SpawnFails(w, t)
  PROVE  Keeps
<1> DEFINE before == Resumable(records, entries')
           R == Resumable(records', entries')
           told(v) == IF v = w THEN << <<"left", t>> >> ELSE <<>>
           lists == << <<"list", before>>, <<"list", R>> >>
<1> USE DEF TInv
<1>1. /\ Takes(w, "spawn", t) /\ ~IsLive(t)
      /\ entries' = [entries EXCEPT ![t] = Null]
      /\ records' = records \cup {t}
      /\ toWindow' = [v \in Windows |-> IF v \in conn THEN toWindow[v] \o told(v) \o lists ELSE toWindow[v]]
      /\ UNCHANGED <<dying, file, conn, tab, attached, listed>>
  BY DEF SpawnFails, page, List
<1>2. records' \in SUBSET Tabs /\ records \in SUBSET Tabs
  BY <1>1 DEF TypeOK
<1>3. R \in SUBSET Tabs /\ before \in SUBSET Tabs
  BY <1>2, ResumableTabs
<1> HIDE DEF R, before
<1>4. /\ << <<"list", before>> >> \in Seq(Msgs) /\ << <<"list", R>> >> \in Seq(Msgs)
      /\ lists = << <<"list", before>> >> \o << <<"list", R>> >>
  <2> DEFINE a == <<"list", before>>
             b == <<"list", R>>
  <2>1. a \in Msgs /\ b \in Msgs
    BY <1>3 DEF Msgs, Lists
  <2>2. lists = <<a, b>>
    OBVIOUS
  <2> HIDE DEF a, b, lists
  <2>3. <<a>> \in Seq(Msgs) /\ <<b>> \in Seq(Msgs) /\ <<a, b>> = <<a>> \o <<b>>
    BY <2>1, OneAfterOne
  <2>4. <<a>> \in Seq(Msgs) /\ <<b>> \in Seq(Msgs) /\ lists = <<a>> \o <<b>>
    BY <2>2, <2>3
  <2> QED
    BY <2>4 DEF a, b
<1>5. \A v \in Windows : told(v) \in Seq(News)
  BY NewsTyped DEF Answers
<1>6. Contains(told(w), <<"left", t>>)
  BY NewsTyped DEF Answers
<1> HIDE DEF lists, told
<1> DEFINE first(v) == toWindow[v] \o told(v)
           second(v) == first(v) \o << <<"list", before>> >>
<1>7. ASSUME NEW v \in conn
      PROVE  /\ toWindow'[v] \in Seq(Msgs)
             /\ \A m : Contains(toWindow[v], m) \/ Contains(told(v), m) => Contains(toWindow'[v], m)
             /\ \A x : Latest(toWindow'[v], x, R)
  <2>1. v \in Windows /\ toWindow[v] \in Seq(Msgs) /\ told(v) \in Seq(Msgs)
    BY <1>5, SeqMonotonic DEF TypeOK, Msgs
  <2>2. /\ first(v) \in Seq(Msgs)
        /\ \A m : Contains(toWindow[v], m) \/ Contains(told(v), m) => Contains(first(v), m)
    BY <2>1, Joined
  <2>3. toWindow'[v] = first(v) \o lists
    BY <1>1, <2>1
  <2> HIDE DEF first
  <2>4. /\ second(v) \in Seq(Msgs)
        /\ \A m : Contains(first(v), m) => Contains(second(v), m)
    BY <1>4, <2>2, Joined
  <2>5. toWindow'[v] = second(v) \o << <<"list", R>> >>
    <3>1. first(v) \o lists = (first(v) \o << <<"list", before>> >>) \o << <<"list", R>> >>
      BY <1>4, <2>2, ConcatAssociative
    <3> QED
      BY <2>3, <3>1
  <2> HIDE DEF second
  <2>6. /\ second(v) \o << <<"list", R>> >> \in Seq(Msgs)
        /\ \A m : Contains(second(v), m) => Contains(second(v) \o << <<"list", R>> >>, m)
    BY <1>4, <2>4, Joined
  <2>7. \A x : Latest(second(v) \o << <<"list", R>> >>, x, R)
    BY <1>3, <2>4, LatestNew
  <2> QED
    BY <2>2, <2>4, <2>5, <2>6, <2>7
<1>8. \A v \in Windows \ conn : toWindow'[v] = toWindow[v]
  BY <1>1
<1>9. /\ toWindow' \in [Windows -> Seq(Msgs)]
      /\ \A v \in Windows : \A m : Contains(toWindow[v], m) => Contains(toWindow'[v], m)
  <2>1. DOMAIN toWindow' = Windows /\ toWindow' = [v \in Windows |-> toWindow'[v]]
    BY <1>1
  <2>2. \A v \in Windows : toWindow'[v] \in Seq(Msgs)
    BY <1>7, <1>8 DEF TypeOK
  <2> QED
    BY <1>7, <1>8, <2>1, <2>2
<1>10. Becomes(t, Null)
  BY <1>1, OneBecomes
<1>11. /\ toServer' \in [Windows -> Seq(Asks)]
       /\ \A v \in Windows : v # w => toServer'[v] = toServer[v]
       /\ w \in conn
  BY <1>1, TakesFirst DEF Silent
<1>12. TInv'
  BY <1>1, <1>2, <1>8, <1>9, <1>10, <1>11 DEF TypeOK, Silent, Becomes
<1>13. ListInv'
  BY <1>1, <1>7 DEF ListInv, R
<1>14. ASSUME ~Offline, WatchInv PROVE WatchInv'
  <2>1. \A u \in Tabs, v \in Windows : Watched(v, u) => (Watched(v, u))'
    BY <1>1, <1>10 DEF Becomes, Watched, IsLive
  <2>2. (Attended(w, t))'
    BY <1>6, <1>7, <1>11 DEF Attended, Answered, Answers
  <2>3. \A u \in Tabs, v \in Windows : Watched(v, u) => (Attended(v, u))'
    BY <2>1 DEF Attended
  <2>4. \A u \in Tabs, v \in Windows : Ending(v, u) => (Ending(v, u))'
    BY <1>1 DEF Ending
  <2>5. RunningInv'
    BY <1>1, <1>9, <1>14, <2>2, <2>3, <2>4, ServedWatch DEF WatchInv
  <2> QED
    BY <1>1, <1>14, <2>5 DEF WatchInv, DownInv
<1> QED
  BY <1>12, <1>13, <1>14 DEF Keeps

LEMMA ServeAttachKeeps ==
  ASSUME ConstantsOK, TInv, NEW w \in Windows, NEW t \in Tabs, ServeAttach(w, t)
  PROVE  Keeps
<1> USE DEF TInv
<1>1. /\ Takes(w, "attach", t)
      /\ UNCHANGED <<dying, records, file, conn, tab, attached, listed>>
  BY DEF ServeAttach, page
<1>2. /\ toServer' \in [Windows -> Seq(Asks)]
      /\ \A v \in Windows : v # w => toServer'[v] = toServer[v]
      /\ w \in conn
  BY <1>1, TakesFirst DEF Silent
<1>3. \E told \in [Windows -> Seq(News)] :
        /\ Sent(<<>>, told)
        /\ \/ UNCHANGED entries /\ \E kind \in Answers : Contains(told[w], <<kind, t>>)
           \/ Joins(w, t) /\ (IsLive(t) \/ \E kind \in Answers : Contains(told[w], <<kind, t>>))
  <2>1. CASE ~HasFrame(t)
    <3> DEFINE kind == IF t \in records THEN "dormant" ELSE "missing"
               told == Only({w}, << <<kind, t>> >>)
    <3>1. Sent(<<>>, told) /\ UNCHANGED entries
      BY <2>1 DEF ServeAttach
    <3>2. kind \in Answers
      BY DEF Answers
    <3> HIDE DEF kind
    <3>3. << <<kind, t>> >> \in Seq(News) /\ Contains(<< <<kind, t>> >>, <<kind, t>>)
      BY <3>2, NewsTyped
    <3>4. told \in [Windows -> Seq(News)] /\ told[w] = << <<kind, t>> >>
      BY <3>3, OnlyNews
    <3> QED
      BY <3>1, <3>2, <3>3, <3>4
  <2>2. CASE HasFrame(t)
    <3> DEFINE msgs == << <<"restore", t>> >> \o IF IsLive(t) THEN <<>> ELSE << <<"left", t>> >>
               told == Only({w}, msgs)
    <3>1. Sent(<<>>, told) /\ Subscribed(w, t)
      BY <2>2 DEF ServeAttach
    <3>2. Joins(w, t)
      BY <2>2, <3>1, SubscribedJoins, FrameOrNull DEF HasFrame
    <3>3. msgs \in Seq(News) /\ (~IsLive(t) => Contains(msgs, <<"left", t>>))
      <4>1. << <<"restore", t>> >> \in Seq(News) /\ << <<"left", t>> >> \in Seq(News) /\ <<>> \in Seq(News)
            /\ Contains(<< <<"left", t>> >>, <<"left", t>>)
        BY NewsTyped DEF Answers
      <4>2. CASE IsLive(t)
        <5>1. msgs = << <<"restore", t>> >> \o <<>>
          BY <4>2
        <5> QED
          BY <4>1, <4>2, <5>1, Joined
      <4>3. CASE ~IsLive(t)
        <5>1. msgs = << <<"restore", t>> >> \o << <<"left", t>> >>
          BY <4>3
        <5>2. /\ << <<"restore", t>> >> \o << <<"left", t>> >> \in Seq(News)
              /\ Contains(<< <<"restore", t>> >> \o << <<"left", t>> >>, <<"left", t>>)
          BY <4>1, Joined
        <5> QED
          BY <5>1, <5>2
      <4> QED
        BY <4>2, <4>3
    <3> HIDE DEF msgs
    <3>4. told \in [Windows -> Seq(News)] /\ told[w] = msgs
      BY <3>3, OnlyNews
    <3> QED
      BY <3>1, <3>2, <3>3, <3>4 DEF Answers
  <2> QED
    BY <2>1, <2>2
<1>4. PICK told \in [Windows -> Seq(News)] :
        /\ Sent(<<>>, told)
        /\ \/ UNCHANGED entries /\ \E kind \in Answers : Contains(told[w], <<kind, t>>)
           \/ Joins(w, t) /\ (IsLive(t) \/ \E kind \in Answers : Contains(told[w], <<kind, t>>))
  BY <1>3
<1>5. /\ Reaches(told)
      /\ \A v \in conn : \A x, R : Latest(toWindow[v], x, R) => Latest(toWindow'[v], x, R)
  BY <1>4, SentNews
<1>6. /\ entries' \in [Tabs -> Entry \cup {Null}] /\ SameLive
      /\ \A u \in Tabs, v \in Windows : Watched(v, u) => (Watched(v, u))'
  BY <1>4 DEF Joins, SameLive, Watched, IsLive, TypeOK
<1>7. TInv'
  BY <1>1, <1>2, <1>5, <1>6 DEF TypeOK, Silent, Reaches
<1>8. ListInv => ListInv'
  BY <1>1, <1>5, <1>6, SameResumable DEF ListInv
<1>9. ASSUME ~Offline, WatchInv PROVE WatchInv'
  <2>1. (Attended(w, t))'
    BY <1>2, <1>4, <1>5, <1>6 DEF Reaches, Attended, Answered, Joins, Watched, SameLive
  <2>2. RunningInv'
    BY <1>1, <1>5, <1>6, <1>9, <2>1, ServedWatch DEF WatchInv, Reaches, Ending, Attended
  <2> QED
    BY <1>1, <1>9, <2>2 DEF WatchInv, DownInv
<1> QED
  BY <1>7, <1>8, <1>9 DEF Keeps

LEMMA ServeCloseKeeps ==
  ASSUME ConstantsOK, TInv, NEW w \in Windows, NEW t \in Tabs, ServeClose(w, t)
  PROVE  Keeps
<1> DEFINE told == Only({}, <<>>)
           R == Resumable(records', entries')
           ended == [tab |-> t, subs |-> entries[t].subs]
<1> USE DEF TInv
<1>1. /\ Takes(w, "close", t) /\ Sent(<< <<"list", R>> >>, told)
      /\ entries' = [entries EXCEPT ![t] = Null]
      /\ dying' = IF IsLive(t) THEN dying \cup {ended} ELSE dying
      /\ records' = records \ {t}
      /\ UNCHANGED <<file, conn, tab, attached, listed>>
  BY DEF ServeClose, page, List
<1>2. told \in [Windows -> Seq(News)]
  BY NewsTyped, OnlyNews
<1>3. IsLive(t) => ended \in Dying /\ ended.tab = t /\ ended.subs = entries[t].subs
  BY FrameOrNull DEF Frame, Entry, Dying
<1>4. Becomes(t, Null)
  BY <1>1, OneBecomes
<1>5. records' \in SUBSET Tabs
  BY <1>1 DEF TypeOK
<1>6. R \in SUBSET Tabs
  BY <1>5, ResumableTabs
<1> HIDE DEF told, R, ended
<1>7. dying' \in SUBSET Dying /\ dying \subseteq dying' /\ (IsLive(t) => ended \in dying')
  BY <1>1, <1>3 DEF TypeOK
<1>8. Reaches(told) /\ \A v \in conn : \A x : Latest(toWindow'[v], x, R)
  BY <1>1, <1>2, <1>6, SentList
<1>9. /\ toServer' \in [Windows -> Seq(Asks)]
      /\ \A v \in Windows : v # w => toServer'[v] = toServer[v]
      /\ w \in conn
  BY <1>1, TakesFirst DEF Silent
<1>10. TInv'
  BY <1>1, <1>4, <1>5, <1>7, <1>8, <1>9 DEF TypeOK, Silent, Reaches, Becomes
<1>11. ListInv'
  BY <1>1, <1>8 DEF ListInv, R
<1>12. ASSUME ~Offline, WatchInv PROVE WatchInv'
  <2>1. \A u \in Tabs, v \in Windows : Watched(v, u) => (Watched(v, u))' \/ (Ending(v, u))'
    BY <1>3, <1>4, <1>7 DEF Becomes, Watched, Ending, IsLive
  <2>2. \A u \in Tabs, v \in Windows : Watched(v, u) => (Attended(v, u))'
    BY <2>1 DEF Attended
  <2>3. \A u \in Tabs, v \in Windows : Ending(v, u) => (Ending(v, u))'
    BY <1>7 DEF Ending
  <2>4. RunningInv'
    BY <1>1, <1>8, <1>12, <2>2, <2>3, ServedWatch DEF WatchInv, Reaches
  <2> QED
    BY <1>1, <1>12, <2>4 DEF WatchInv, DownInv
<1> QED
  BY <1>10, <1>11, <1>12 DEF Keeps

LEMMA PtyExitsKeeps ==
  ASSUME ConstantsOK, TInv, NEW t \in Tabs, NEW how \in Exits, PtyExits(t, how)
  PROVE  Keeps
<1> DEFINE told == Only(entries[t].subs, << <<how, t>> >>)
           R == Resumable(records', entries')
<1> USE DEF TInv
<1>1. /\ IsLive(t) /\ Sent(<< <<"list", R>> >>, told)
      /\ entries' = [entries EXCEPT ![t].pty = how]
      /\ UNCHANGED <<dying, records, file, conn, toServer, tab, attached, listed>>
  BY DEF PtyExits, page, List
<1>2. how \in Answers
  BY DEF Answers, Exits
<1>3. << <<how, t>> >> \in Seq(News) /\ Contains(<< <<how, t>> >>, <<how, t>>)
  BY <1>2, NewsTyped
<1>4. /\ told \in [Windows -> Seq(News)]
      /\ \A v \in Windows : v \in entries[t].subs => Contains(told[v], <<how, t>>)
  BY <1>3, OnlyNews
<1>5. PICK e \in Entry : e.pty = how /\ e.subs = entries[t].subs /\ Becomes(t, e)
  BY <1>1, ExitBecomes
<1>6. R \in SUBSET Tabs
  BY <1>1, ResumableTabs DEF TypeOK
<1> HIDE DEF told, R
<1>7. Reaches(told) /\ \A v \in conn : \A x : Latest(toWindow'[v], x, R)
  BY <1>1, <1>4, <1>6, SentList
<1>8. TInv'
  BY <1>1, <1>5, <1>7 DEF TypeOK, Silent, Reaches, Becomes
<1>9. ListInv'
  BY <1>1, <1>7 DEF ListInv, R
<1>10. ASSUME ~Offline, WatchInv PROVE WatchInv'
  <2>1. ASSUME NEW v \in conn, NEW u \in Tabs, Attended(v, u) PROVE (Attended(v, u))'
    <3>0. v \in Windows
      BY DEF TypeOK
    <3>1. CASE Watched(v, u) /\ u = t
      BY <1>2, <1>4, <1>7, <3>0, <3>1 DEF Watched, Reaches, Attended, Answered
    <3>2. CASE Watched(v, u) /\ u # t
      BY <1>5, <3>2 DEF Watched, IsLive, Becomes, Attended
    <3>3. CASE Ending(v, u) \/ Asked(v, u)
      BY <1>1, <3>3 DEF Attended, Ending, Asked
    <3>4. CASE Answered(v, u)
      BY <1>7, <3>0, <3>4 DEF Attended, Answered, Reaches
    <3> QED
      BY <2>1, <3>1, <3>2, <3>3, <3>4 DEF Attended
  <2> QED
    BY <1>1, <1>10, <2>1 DEF WatchInv, RunningInv, DownInv
<1> QED
  BY <1>8, <1>9, <1>10 DEF Keeps

LEMMA LateExitKeeps ==
  ASSUME ConstantsOK, TInv, NEW d \in dying, LateExit(d)
  PROVE  Keeps
<1> DEFINE told == Only(d.subs, << <<"killed", d.tab>> >>)
           R == Resumable(records', entries')
<1> USE DEF TInv
<1>1. /\ Sent(<< <<"list", R>> >>, told)
      /\ dying' = dying \ {d}
      /\ UNCHANGED <<entries, records, file, conn, toServer, tab, attached, listed>>
  BY DEF LateExit, page, List
<1>2. d.tab \in Tabs
  BY DEF TypeOK, Dying
<1>3. << <<"killed", d.tab>> >> \in Seq(News) /\ Contains(<< <<"killed", d.tab>> >>, <<"killed", d.tab>>)
  BY <1>2, NewsTyped DEF Answers
<1>4. /\ told \in [Windows -> Seq(News)]
      /\ \A v \in Windows : v \in d.subs => Contains(told[v], <<"killed", d.tab>>)
  BY <1>3, OnlyNews
<1>5. R \in SUBSET Tabs
  BY <1>1, ResumableTabs DEF TypeOK
<1> HIDE DEF told, R
<1>6. Reaches(told) /\ \A v \in conn : \A x : Latest(toWindow'[v], x, R)
  BY <1>1, <1>4, <1>5, SentList
<1>7. TInv'
  BY <1>1, <1>6 DEF TypeOK, Silent, Reaches
<1>8. ListInv'
  BY <1>1, <1>6 DEF ListInv, R
<1>9. ASSUME ~Offline, WatchInv PROVE WatchInv'
  <2>1. ASSUME NEW v \in conn, NEW u \in Tabs, Attended(v, u) PROVE (Attended(v, u))'
    <3>0. v \in Windows
      BY DEF TypeOK
    <3>1. CASE Watched(v, u) \/ Asked(v, u)
      BY <1>1, <3>1 DEF Watched, IsLive, Asked, Attended
    <3>2. CASE Ending(v, u)
      <4>1. PICK f \in dying : f.tab = u /\ v \in f.subs
        BY <3>2 DEF Ending
      <4>2. CASE f = d
        BY <1>4, <1>6, <3>0, <4>1, <4>2 DEF Reaches, Attended, Answered, Answers
      <4>3. CASE f # d
        BY <1>1, <4>1, <4>3 DEF Attended, Ending
      <4> QED
        BY <4>2, <4>3
    <3>3. CASE Answered(v, u)
      BY <1>6, <3>0, <3>3 DEF Attended, Answered, Reaches
    <3> QED
      BY <2>1, <3>1, <3>2, <3>3 DEF Attended
  <2> QED
    BY <1>1, <1>9, <2>1 DEF WatchInv, RunningInv, DownInv
<1> QED
  BY <1>7, <1>8, <1>9 DEF Keeps

LEMMA FlushKeeps ==
  ASSUME TInv, Flush
  PROVE  Keeps
<1>1. /\ file' = records
      /\ UNCHANGED <<entries, dying, records, conn, toServer, toWindow, tab, attached, listed>>
  BY DEF Flush, page
<1>2. TInv'
  BY <1>1 DEF TInv, TypeOK, Silent
<1>3. ListInv => ListInv'
  BY <1>1 DEF ListInv
<1>4. WatchInv => WatchInv'
  BY <1>1 DEF WatchInv, RunningInv, DownInv, Attended, Watched, IsLive, Ending, Asked, Answered
<1> QED
  BY <1>2, <1>3, <1>4 DEF Keeps

LEMMA RestartKeeps ==
  ASSUME TInv, Restart
  PROVE  Keeps
<1> USE DEF TInv
<1>1. /\ entries' = [t \in Tabs |-> Null]
      /\ dying' = {} /\ records' \in SUBSET file /\ conn' = {}
      /\ toServer' = [w \in Windows |-> <<>>] /\ toWindow' = [w \in Windows |-> <<>>]
      /\ attached' = [w \in Windows |-> {}]
      /\ UNCHANGED <<file, tab, listed>>
  BY DEF Restart
<1>2. <<>> \in Seq(Asks) /\ <<>> \in Seq(Msgs)
  OBVIOUS
<1>3. toServer' \in [Windows -> Seq(Asks)] /\ toWindow' \in [Windows -> Seq(Msgs)]
  BY <1>1, <1>2
<1>4. TInv'
  BY <1>1, <1>3 DEF TypeOK, Silent
<1>5. ListInv'
  BY <1>1 DEF ListInv
<1>6. WatchInv'
  BY <1>1 DEF WatchInv, RunningInv, DownInv
<1> QED
  BY <1>4, <1>5, <1>6 DEF Keeps

-----------------------------------------------------------------------------
(* The windows.                                                            *)

LEMMA ShowsOne ==
  ASSUME TypeOK, NEW w \in Windows, NEW t \in Tabs,
         NEW state \in Shown \cup {"unseen", "closed"}, Shows(w, t, state)
  PROVE  /\ tab' \in [Windows -> [Tabs -> Shown \cup {"unseen", "closed"}]]
         /\ tab'[w][t] = state
         /\ \A v \in Windows, u \in Tabs : v # w \/ u # t => tab'[v][u] = tab[v][u]
<1> DEFINE shown == [tab[w] EXCEPT ![t] = state]
<1>1. tab[w] \in [Tabs -> Shown \cup {"unseen", "closed"}]
  BY DEF TypeOK
<1>2. /\ shown \in [Tabs -> Shown \cup {"unseen", "closed"}]
      /\ shown[t] = state /\ \A u \in Tabs : u # t => shown[u] = tab[w][u]
  BY <1>1
<1>3. tab' = [tab EXCEPT ![w] = shown]
  BY DEF Shows
<1> HIDE DEF shown
<1> QED
  BY <1>2, <1>3 DEF TypeOK

LEMMA AttachesMore ==
  ASSUME TypeOK, NEW w \in Windows, NEW ts \in SUBSET Tabs, Attaches(w, ts)
  PROVE  /\ attached' \in [Windows -> SUBSET Tabs]
         /\ \A v \in Windows : v # w => attached'[v] = attached[v]
         /\ ts = {} => attached' = attached
BY DEF TypeOK, Attaches

LEMMA AskingKeeps ==
  ASSUME UNCHANGED <<entries, dying>>,
         \A v \in Windows : \A m : Contains(toServer[v], m) => Contains(toServer'[v], m),
         \A v \in Windows : \A m : Contains(toWindow[v], m) => Contains(toWindow'[v], m)
  PROVE  \A v \in Windows, u \in Tabs : Attended(v, u) => (Attended(v, u))'
BY DEF Attended, Watched, IsLive, Ending, Asked, Answered

\* A window that asks for a tab it now shows as running.
LEMMA AskedKeeps ==
  ASSUME ConstantsOK, TInv, NEW w \in Windows, NEW t \in Tabs, NEW kind \in {"spawn", "attach"},
         Says(w, kind, {t}), Shows(w, t, "running"),
         \/ Attaches(w, {t}) /\ InUse(w)
         \/ Attaches(w, IF w \in conn THEN {t} ELSE {}),
         UNCHANGED <<server, conn, toWindow, listed>>
  PROVE  Keeps
<1> USE DEF TInv
<1>1. /\ toServer' \in [Windows -> Seq(Asks)]
      /\ \A v \in Windows : v # w \/ w \notin conn' => toServer'[v] = toServer[v]
      /\ \A v \in Windows : \A m : Contains(toServer[v], m) => Contains(toServer'[v], m)
      /\ w \in conn' => Contains(toServer'[w], <<kind, t>>)
  BY SaysAll
<1>2. /\ tab' \in [Windows -> [Tabs -> Shown \cup {"unseen", "closed"}]]
      /\ \A v \in Windows, u \in Tabs : v # w \/ u # t => tab'[v][u] = tab[v][u]
  BY ShowsOne DEF Shown
<1>3. UNCHANGED <<entries, dying, records, file, conn, toWindow, listed>>
  BY DEF server
<1>4. /\ attached' \in [Windows -> SUBSET Tabs]
      /\ ~Offline => \A v \in Windows \ conn : attached'[v] = attached[v]
  BY AttachesMore DEF InUse
<1>5. TInv'
  BY <1>1, <1>2, <1>3, <1>4 DEF TypeOK, Silent
<1>6. ListInv => ListInv'
  BY <1>3 DEF ListInv
<1>7. ASSUME ~Offline, WatchInv PROVE WatchInv'
  <2>1. \A v \in Windows, u \in Tabs : Attended(v, u) => (Attended(v, u))'
    BY <1>1, <1>3, AskingKeeps
  <2>2. w \in conn' => (Attended(w, t))'
    BY <1>1 DEF Attended, Asked
  <2>3. RunningInv'
    BY <1>2, <1>3, <1>7, <2>1, <2>2 DEF WatchInv, RunningInv, TypeOK
  <2>4. DownInv'
    BY <1>3, <1>4, <1>7 DEF WatchInv, DownInv
  <2> QED
    BY <2>3, <2>4 DEF WatchInv
<1> QED
  BY <1>5, <1>6, <1>7 DEF Keeps

LEMMA OpenKeeps ==
  ASSUME ConstantsOK, TInv, NEW w \in Windows, NEW t \in Tabs, Open(w, t)
  PROVE  Keeps
BY AskedKeeps DEF Open

LEMMA AdoptKeeps ==
  ASSUME ConstantsOK, TInv, NEW w \in Windows, NEW t \in Tabs, Adopt(w, t)
  PROVE  Keeps
BY AskedKeeps DEF Adopt

LEMMA ResumeKeeps ==
  ASSUME ConstantsOK, TInv, NEW w \in Windows, NEW t \in Tabs, Resume(w, t)
  PROVE  Keeps
BY AskedKeeps DEF Resume

LEMMA CloseKeeps ==
  ASSUME ConstantsOK, TInv, NEW w \in Windows, NEW t \in Tabs, Close(w, t)
  PROVE  Keeps
<1> USE DEF TInv
<1>1. /\ Shows(w, t, "closed") /\ Says(w, "close", {t})
      /\ UNCHANGED <<entries, dying, records, file, conn, toWindow, attached, listed>>
  BY DEF Close, server
<1>2. /\ toServer' \in [Windows -> Seq(Asks)]
      /\ \A v \in Windows : v # w \/ w \notin conn' => toServer'[v] = toServer[v]
      /\ \A v \in Windows : \A m : Contains(toServer[v], m) => Contains(toServer'[v], m)
  BY <1>1, SaysAll
<1>3. /\ tab' \in [Windows -> [Tabs -> Shown \cup {"unseen", "closed"}]]
      /\ tab'[w][t] = "closed"
      /\ \A v \in Windows, u \in Tabs : v # w \/ u # t => tab'[v][u] = tab[v][u]
  BY <1>1, ShowsOne
<1>4. TInv'
  BY <1>1, <1>2, <1>3 DEF TypeOK, Silent
<1>5. ListInv => ListInv'
  BY <1>1 DEF ListInv
<1>6. ASSUME WatchInv PROVE WatchInv'
  <2>1. \A v \in Windows, u \in Tabs : Attended(v, u) => (Attended(v, u))'
    BY <1>1, <1>2, AskingKeeps
  <2>2. RunningInv'
    BY <1>1, <1>3, <1>6, <2>1 DEF WatchInv, RunningInv, TypeOK
  <2> QED
    BY <1>1, <1>6, <2>2 DEF WatchInv, DownInv
<1> QED
  BY <1>4, <1>5, <1>6 DEF Keeps

LEMMA ConnectKeeps ==
  ASSUME ConstantsOK, TInv, NEW w \in Windows, Connect(w)
  PROVE  Keeps
<1> DEFINE mounted == {t \in Tabs : tab[w][t] \in {"running", "killed"}}
           R == Resumable(records, entries)
<1> USE DEF TInv
<1>1. /\ w \notin conn /\ conn' = conn \cup {w}
      /\ toWindow' = [toWindow EXCEPT ![w] = << <<"list", R>> >>]
      /\ Attaches(w, mounted) /\ Says(w, "attach", mounted \ attached[w])
      /\ UNCHANGED <<entries, dying, records, file, tab, listed>>
  BY DEF Connect, server
<1>2. /\ toServer' \in [Windows -> Seq(Asks)]
      /\ \A v \in Windows : v # w => toServer'[v] = toServer[v]
      /\ \A v \in Windows : \A m : Contains(toServer[v], m) => Contains(toServer'[v], m)
      /\ \A t \in mounted \ attached[w] : Contains(toServer'[w], <<"attach", t>>)
  BY <1>1, SaysAll
<1>3. /\ attached' \in [Windows -> SUBSET Tabs]
      /\ \A v \in Windows : v # w => attached'[v] = attached[v]
  BY <1>1, AttachesMore
<1>4. R \in SUBSET Tabs
  BY ResumableTabs DEF TypeOK
<1>5. \A x : Latest(<<>> \o << <<"list", R>> >>, x, R)
  <2>1. <<>> \in Seq(Msgs)
    OBVIOUS
  <2> HIDE DEF R
  <2> QED
    BY <1>4, <2>1, LatestNew
<1>6. << <<"list", R>> >> \in Seq(Msgs)
  BY <1>4 DEF Msgs, Lists
<1>7. \A x : Latest(<< <<"list", R>> >>, x, R)
  <2>1. <<>> \o << <<"list", R>> >> = << <<"list", R>> >>
    BY <1>6, ConcatEmptySeq
  <2> QED
    BY <1>5, <2>1
<1> HIDE DEF R, mounted
<1>8. /\ toWindow' \in [Windows -> Seq(Msgs)]
      /\ toWindow'[w] = << <<"list", R>> >> /\ toWindow[w] = <<>>
      /\ \A v \in Windows : v # w => toWindow'[v] = toWindow[v]
  BY <1>1, <1>6 DEF TypeOK, Silent
<1>9. TInv'
  BY <1>1, <1>2, <1>3, <1>8 DEF TypeOK, Silent
<1>10. ListInv => ListInv'
  BY <1>1, <1>7, <1>8 DEF ListInv, TypeOK, R
<1>11. ASSUME ~Offline, WatchInv PROVE WatchInv'
  <2>1. \A v \in Windows : \A m : Contains(toWindow[v], m) => Contains(toWindow'[v], m)
    BY <1>8 DEF Contains
  <2>2. \A v \in Windows, u \in Tabs : Attended(v, u) => (Attended(v, u))'
    BY <1>1, <1>2, <2>1, AskingKeeps
  <2>3. \A u \in Tabs : tab[w][u] = "running" => (Attended(w, u))'
    BY <1>1, <1>2, <1>11 DEF WatchInv, DownInv, mounted, Attended, Asked
  <2>4. RunningInv'
    BY <1>1, <1>11, <2>2, <2>3 DEF WatchInv, RunningInv, TypeOK
  <2>5. DownInv'
    BY <1>1, <1>3, <1>11 DEF WatchInv, DownInv
  <2> QED
    BY <2>4, <2>5 DEF WatchInv
<1> QED
  BY <1>9, <1>10, <1>11 DEF Keeps

\* A window whose socket is gone.
LEMMA DroppedKeeps ==
  ASSUME ConstantsOK, TInv, NEW w \in Windows, Drops(w), UNCHANGED <<records, file>>,
         tab' \in [Windows -> [Tabs -> Shown \cup {"unseen", "closed"}]],
         listed' \in [Windows -> SUBSET Tabs],
         \A v \in Windows : v # w => tab'[v] = tab[v] /\ listed'[v] = listed[v]
  PROVE  Keeps
<1> USE DEF TInv
<1>1. /\ entries' \in [Tabs -> Entry \cup {Null}]
      /\ SameLive
      /\ \A u \in Tabs, v \in Windows \ {w} : IsLive(u) /\ v \in entries[u].subs => v \in entries'[u].subs
      /\ dying' \in SUBSET Dying
      /\ \A v \in Windows \ {w} : \A d \in dying : v \in d.subs =>
           \E e \in dying' : e.tab = d.tab /\ v \in e.subs
      /\ conn' = conn \ {w}
      /\ toServer' \in [Windows -> Seq(Asks)] /\ toServer'[w] = <<>>
      /\ toWindow' \in [Windows -> Seq(Msgs)] /\ toWindow'[w] = <<>>
      /\ attached' \in [Windows -> SUBSET Tabs] /\ attached'[w] = {}
      /\ \A v \in Windows \ {w} : /\ toServer'[v] = toServer[v] /\ toWindow'[v] = toWindow[v]
                                 /\ attached'[v] = attached[v]
  BY DropsOne
<1>2. TInv'
  BY <1>1 DEF TypeOK, Silent
<1>3. ListInv => ListInv'
  BY <1>1, SameResumable DEF ListInv, TypeOK
<1>4. ASSUME WatchInv PROVE WatchInv'
  <2>1. ASSUME NEW v \in conn \ {w}, NEW u \in Tabs, Attended(v, u) PROVE (Attended(v, u))'
    <3>0. v \in Windows \ {w}
      BY DEF TypeOK
    <3>1. CASE Watched(v, u)
      BY <1>1, <3>0, <3>1 DEF Watched, SameLive, Attended
    <3>2. CASE Ending(v, u)
      <4>1. PICK d \in dying : d.tab = u /\ v \in d.subs
        BY <3>2 DEF Ending
      <4>2. \E e \in dying' : e.tab = u /\ v \in e.subs
        BY <1>1, <3>0, <4>1
      <4> QED
        BY <4>2 DEF Ending, Attended
    <3>3. CASE Asked(v, u) \/ Answered(v, u)
      BY <1>1, <3>0, <3>3 DEF Asked, Answered, Attended
    <3> QED
      BY <2>1, <3>1, <3>2, <3>3 DEF Attended
  <2> QED
    BY <1>1, <1>4, <2>1 DEF WatchInv, RunningInv, DownInv, TypeOK
<1> QED
  BY <1>2, <1>3, <1>4 DEF Keeps

LEMMA BreakKeeps ==
  ASSUME ConstantsOK, TInv, NEW w \in Windows, Break(w)
  PROVE  Keeps
BY DroppedKeeps DEF Break, TInv, TypeOK

LEMMA ReloadKeeps ==
  ASSUME ConstantsOK, TInv, NEW w \in Windows, NEW v \in Windows, Reload(w, v)
  PROVE  Keeps
<1> DEFINE saved == [t \in Tabs |-> IF tab[v][t] \in {"running", "killed"} THEN "running" ELSE "unseen"]
<1>1. /\ Drops(w) /\ UNCHANGED <<records, file>>
      /\ tab' = [tab EXCEPT ![w] = saved] /\ listed' = [listed EXCEPT ![w] = {}]
  BY DEF Reload
<1>2. saved \in [Tabs -> Shown \cup {"unseen", "closed"}]
  BY DEF Shown
<1> HIDE DEF saved
<1>3. /\ tab' \in [Windows -> [Tabs -> Shown \cup {"unseen", "closed"}]]
      /\ listed' \in [Windows -> SUBSET Tabs]
      /\ \A u \in Windows : u # w => tab'[u] = tab[u] /\ listed'[u] = listed[u]
  BY <1>1, <1>2 DEF TInv, TypeOK
<1> QED
  BY <1>1, <1>3, DroppedKeeps

-----------------------------------------------------------------------------
(* What a window hears.                                                    *)

LEMMA ListOrNews ==
  ASSUME NEW m \in Msgs
  PROVE  /\ m \in Lists <=> m[1] = "list"
         /\ m \in Lists => m[2] \in SUBSET Tabs
         /\ m \notin Lists => m[2] \in Tabs /\ m = <<m[1], m[2]>>
BY DEF Msgs, News, Lists

LEMMA HearingKeepsLists ==
  ASSUME TypeOK, ListInv, NEW w \in Windows, NEW sort, Hears(w, sort),
         UNCHANGED <<entries, records, conn>>,
         \A v \in Windows : v # w => listed'[v] = listed[v],
         listed'[w] = IF sort = "list" THEN Head(toWindow[w])[2] ELSE listed[w]
  PROVE  ListInv'
<1> DEFINE R == Resumable(records, entries)
<1>1. /\ toWindow[w] \in Seq(Msgs) /\ toWindow[w] # <<>> /\ toWindow'[w] = Tail(toWindow[w])
      /\ Head(toWindow[w]) \in Msgs /\ Head(toWindow[w])[1] = sort
      /\ \A v \in Windows : v # w => toWindow'[v] = toWindow[v]
  BY HearsFirst
<1>2. Head(toWindow[w]) \in Lists <=> sort = "list"
  BY <1>1, ListOrNews
<1>3. ASSUME w \in conn PROVE Latest(toWindow'[w], listed'[w], R)
  <2>1. Latest(toWindow[w], listed[w], R)
    BY <1>3 DEF ListInv
  <2> HIDE DEF R
  <2>2. /\ Head(toWindow[w]) \notin Lists => Latest(Tail(toWindow[w]), listed[w], R)
        /\ Head(toWindow[w]) \in Lists => Latest(Tail(toWindow[w]), Head(toWindow[w])[2], R)
    BY <1>1, <2>1, LatestRead
  <2> QED
    BY <1>1, <1>2, <2>2
<1>4. ASSUME NEW v \in conn, v # w PROVE Latest(toWindow'[v], listed'[v], R)
  BY <1>1, <1>4 DEF ListInv, TypeOK
<1> QED
  BY <1>3, <1>4 DEF ListInv

LEMMA HearingKeepsWatch ==
  ASSUME TypeOK, NEW w \in Windows, NEW sort, Hears(w, sort), UNCHANGED <<entries, dying>>,
         \A v \in Windows : \A m : Contains(toServer[v], m) => Contains(toServer'[v], m),
         NEW v \in Windows, NEW u \in Tabs, Attended(v, u)
  PROVE  \/ (Attended(v, u))'
         \/ v = w /\ sort \in Answers /\ Head(toWindow[w]) = <<sort, u>>
<1>1. CASE Watched(v, u) \/ Ending(v, u) \/ Asked(v, u)
  BY <1>1 DEF Watched, IsLive, Ending, Asked, Attended
<1>2. CASE Answered(v, u)
  <2>1. PICK kind \in Answers : Contains(toWindow[v], <<kind, u>>)
    BY <1>2 DEF Answered
  <2>2. CASE Contains(toWindow'[v], <<kind, u>>)
    BY <2>2 DEF Attended, Answered
  <2>3. CASE ~Contains(toWindow'[v], <<kind, u>>)
    <3>1. v = w /\ <<kind, u>> = Head(toWindow[w]) /\ Head(toWindow[w])[1] = sort
      BY <2>1, <2>3, HearsFirst
    <3> QED
      BY <3>1
  <2> QED
    BY <2>2, <2>3
<1> QED
  BY <1>1, <1>2 DEF Attended

LEMMA HearsListKeeps ==
  ASSUME ConstantsOK, TInv, NEW w \in Windows, HearsList(w)
  PROVE  Keeps
<1> USE DEF TInv
<1>1. /\ Hears(w, "list") /\ listed' = [listed EXCEPT ![w] = Head(toWindow[w])[2]]
      /\ UNCHANGED <<entries, dying, records, file, conn, toServer, tab, attached>>
  BY DEF HearsList, server
<1>2. /\ toWindow' \in [Windows -> Seq(Msgs)]
      /\ \A v \in Windows : v # w => toWindow'[v] = toWindow[v]
      /\ toWindow[w] # <<>> /\ Head(toWindow[w]) \in Msgs /\ Head(toWindow[w])[1] = "list"
  BY <1>1, HearsFirst
<1>3. Head(toWindow[w])[2] \in SUBSET Tabs
  BY <1>2, ListOrNews
<1>4. /\ listed' \in [Windows -> SUBSET Tabs]
      /\ listed'[w] = Head(toWindow[w])[2]
      /\ \A v \in Windows : v # w => listed'[v] = listed[v]
  BY <1>1, <1>3 DEF TypeOK
<1>5. TInv'
  BY <1>1, <1>2, <1>4 DEF TypeOK, Silent
<1>6. ListInv => ListInv'
  BY <1>1, <1>4, HearingKeepsLists
<1>7. \A v \in Windows, u \in Tabs : Attended(v, u) => (Attended(v, u))'
  BY <1>1, HearingKeepsWatch DEF Answers
<1>8. WatchInv => WatchInv'
  BY <1>1, <1>7 DEF WatchInv, RunningInv, DownInv, TypeOK
<1> QED
  BY <1>5, <1>6, <1>8 DEF Keeps

LEMMA HearsRestoreKeeps ==
  ASSUME ConstantsOK, TInv, NEW w \in Windows, HearsRestore(w)
  PROVE  Keeps
<1> USE DEF TInv
<1>1. /\ Hears(w, "restore")
      /\ UNCHANGED <<entries, dying, records, file, conn, toServer, tab, attached, listed>>
  BY DEF HearsRestore, server, page
<1>2. /\ toWindow' \in [Windows -> Seq(Msgs)]
      /\ \A v \in Windows : v # w => toWindow'[v] = toWindow[v]
      /\ toWindow[w] # <<>>
  BY <1>1, HearsFirst
<1>3. TInv'
  BY <1>1, <1>2 DEF TypeOK, Silent
<1>4. ListInv => ListInv'
  BY <1>1, HearingKeepsLists
<1>5. \A v \in Windows, u \in Tabs : Attended(v, u) => (Attended(v, u))'
  BY <1>1, HearingKeepsWatch DEF Answers
<1>6. WatchInv => WatchInv'
  BY <1>1, <1>5 DEF WatchInv, RunningInv, DownInv, TypeOK
<1> QED
  BY <1>3, <1>4, <1>6 DEF Keeps

\* The tab of the message shows a new state: it is not running, or has been
\* asked for.
LEMMA ToldKeeps ==
  ASSUME TypeOK, RunningInv, NEW w \in Windows, NEW sort, Hears(w, sort), sort # "list",
         UNCHANGED <<entries, dying, conn>>,
         \A v \in Windows : \A m : Contains(toServer[v], m) => Contains(toServer'[v], m),
         NEW t, t = Head(toWindow[w])[2],
         \A v \in Windows, u \in Tabs : v # w \/ u # t => tab'[v][u] = tab[v][u],
         w \in conn' => tab'[w][t] # "running" \/ (Asked(w, t))'
  PROVE  RunningInv'
<1> SUFFICES ASSUME NEW v \in conn, NEW u \in Tabs, tab'[v][u] = "running"
             PROVE  (Attended(v, u))'
  BY DEF RunningInv
<1>0. v \in Windows
  BY DEF TypeOK
<1>1. CASE v = w /\ u = t
  BY <1>1 DEF Attended
<1>2. CASE v # w \/ u # t
  <2>1. Attended(v, u)
    BY <1>0, <1>2 DEF RunningInv
  <2>2. ~(v = w /\ Head(toWindow[w]) = <<sort, u>>)
    BY <1>2
  <2> QED
    BY <1>0, <2>1, <2>2, HearingKeepsWatch
<1> QED
  BY <1>1, <1>2

LEMMA HearsNoPtyKeeps ==
  ASSUME ConstantsOK, TInv, NEW w \in Windows, HearsNoPty(w)
  PROVE  Keeps
<1> DEFINE t == Head(toWindow[w])[2]
<1> USE DEF TInv
<1>1. PICK kind \in {"dormant", "missing"} :
        /\ Hears(w, kind)
        /\ \/ /\ kind = "dormant" \/ tab[w][t] \in Shown
              /\ conn' = conn
              /\ Says(w, "spawn", {t}) /\ Attaches(w, {t})
              /\ tab' = [tab EXCEPT ![w][t] = IF @ \in Shown THEN "running" ELSE @]
           \/ /\ ~(kind = "dormant" \/ tab[w][t] \in Shown)
              /\ UNCHANGED <<conn, toServer, attached, tab>>
        /\ UNCHANGED <<entries, dying, records, file, listed>>
  BY DEF HearsNoPty, server
<1>2. /\ toWindow' \in [Windows -> Seq(Msgs)]
      /\ \A v \in Windows : v # w => toWindow'[v] = toWindow[v]
      /\ toWindow[w] # <<>> /\ Head(toWindow[w]) \in Msgs /\ Head(toWindow[w])[1] = kind
      /\ w \in conn /\ conn' = conn
  BY <1>1, HearsFirst DEF Silent
<1>3. t \in Tabs
  BY <1>2, ListOrNews
<1> HIDE DEF t
<1>4. /\ toServer' \in [Windows -> Seq(Asks)]
      /\ \A v \in Windows : v # w => toServer'[v] = toServer[v]
      /\ \A v \in Windows : \A m : Contains(toServer[v], m) => Contains(toServer'[v], m)
      /\ attached' \in [Windows -> SUBSET Tabs]
      /\ \A v \in Windows : v # w => attached'[v] = attached[v]
      /\ tab' \in [Windows -> [Tabs -> Shown \cup {"unseen", "closed"}]]
      /\ \A v \in Windows, u \in Tabs : v # w \/ u # t => tab'[v][u] = tab[v][u]
      /\ tab'[w][t] # "running" \/ Contains(toServer'[w], <<"spawn", t>>)
  <2>1. CASE Says(w, "spawn", {t}) /\ Attaches(w, {t}) /\
             tab' = [tab EXCEPT ![w][t] = IF @ \in Shown THEN "running" ELSE @]
    <3>1. /\ toServer' \in [Windows -> Seq(Asks)]
          /\ \A v \in Windows : v # w => toServer'[v] = toServer[v]
          /\ \A v \in Windows : \A m : Contains(toServer[v], m) => Contains(toServer'[v], m)
          /\ Contains(toServer'[w], <<"spawn", t>>)
      <4>1. TypeOK /\ w \in conn' /\ {t} \in SUBSET Tabs /\ Says(w, "spawn", {t})
        BY <1>2, <1>3, <2>1
      <4>2. /\ toServer' \in [Windows -> Seq(Asks)]
            /\ \A v \in Windows : v # w \/ w \notin conn' => toServer'[v] = toServer[v]
            /\ \A v \in Windows : \A m : Contains(toServer[v], m) => Contains(toServer'[v], m)
            /\ w \in conn' => \A u \in {t} : Contains(toServer'[w], <<"spawn", u>>)
        BY <4>1, SaysAll
      <4> QED
        BY <4>1, <4>2
    <3>2. /\ attached' \in [Windows -> SUBSET Tabs]
          /\ \A v \in Windows : v # w => attached'[v] = attached[v]
      BY <1>3, <2>1, AttachesMore
    <3> DEFINE state == IF tab[w][t] \in Shown THEN "running" ELSE tab[w][t]
    <3>3. state \in Shown \cup {"unseen", "closed"} /\ Shows(w, t, state)
      BY <1>3, <2>1 DEF TypeOK, Shown, Shows
    <3> HIDE DEF state
    <3>4. /\ tab' \in [Windows -> [Tabs -> Shown \cup {"unseen", "closed"}]]
          /\ \A v \in Windows, u \in Tabs : v # w \/ u # t => tab'[v][u] = tab[v][u]
      BY <1>3, <3>3, ShowsOne
    <3> QED
      BY <3>1, <3>2, <3>4
  <2>2. CASE UNCHANGED <<conn, toServer, attached, tab>> /\ tab[w][t] \notin Shown
    BY <2>2 DEF TypeOK, Shown
  <2> QED
    BY <1>1, <2>1, <2>2
<1>5. TInv'
  BY <1>1, <1>2, <1>4 DEF TypeOK, Silent
<1>6. ListInv => ListInv'
  BY <1>1, <1>2, HearingKeepsLists
<1>7. ASSUME WatchInv PROVE WatchInv'
  <2>1. RunningInv'
    BY <1>1, <1>2, <1>4, <1>7, ToldKeeps DEF WatchInv, Asked, t
  <2> QED
    BY <1>2, <1>4, <1>7, <2>1 DEF WatchInv, DownInv
<1> QED
  BY <1>5, <1>6, <1>7 DEF Keeps

LEMMA HearsExitKeeps ==
  ASSUME ConstantsOK, TInv, NEW w \in Windows, HearsExit(w)
  PROVE  Keeps
<1> DEFINE t == Head(toWindow[w])[2]
<1> USE DEF TInv
<1>1. PICK how \in Exits :
        /\ Hears(w, how)
        /\ tab' = [tab EXCEPT ![w][t] = IF @ \in Shown THEN how ELSE @]
        /\ UNCHANGED <<entries, dying, records, file, conn, toServer, attached, listed>>
  BY DEF HearsExit, server
<1>2. /\ toWindow' \in [Windows -> Seq(Msgs)]
      /\ \A v \in Windows : v # w => toWindow'[v] = toWindow[v]
      /\ toWindow[w] # <<>> /\ Head(toWindow[w]) \in Msgs /\ Head(toWindow[w])[1] = how
      /\ how # "list"
  BY <1>1, HearsFirst DEF Exits
<1>3. t \in Tabs
  BY <1>2, ListOrNews
<1> DEFINE state == IF tab[w][t] \in Shown THEN how ELSE tab[w][t]
<1>4. state \in Shown \cup {"unseen", "closed"} /\ Shows(w, t, state) /\ state # "running"
  BY <1>1, <1>3 DEF TypeOK, Shown, Shows, Exits
<1> HIDE DEF state
<1>5. /\ tab' \in [Windows -> [Tabs -> Shown \cup {"unseen", "closed"}]]
      /\ tab'[w][t] # "running"
      /\ \A v \in Windows, u \in Tabs : v # w \/ u # t => tab'[v][u] = tab[v][u]
  BY <1>3, <1>4, ShowsOne
<1> HIDE DEF t
<1>6. TInv'
  BY <1>1, <1>2, <1>5 DEF TypeOK, Silent
<1>7. ListInv => ListInv'
  BY <1>1, <1>2, HearingKeepsLists
<1>8. ASSUME WatchInv PROVE WatchInv'
  <2>1. RunningInv'
    BY <1>1, <1>2, <1>5, <1>8, ToldKeeps DEF WatchInv, t
  <2> QED
    BY <1>1, <1>8, <2>1 DEF WatchInv, DownInv
<1> QED
  BY <1>6, <1>7, <1>8 DEF Keeps

-----------------------------------------------------------------------------
(* The theorems.                                                           *)

LEMMA InitInv == Init => TInv /\ ListInv /\ WatchInv
<1> SUFFICES ASSUME Init PROVE TInv /\ ListInv /\ WatchInv
  OBVIOUS
<1>1. <<>> \in Seq(Asks) /\ <<>> \in Seq(Msgs)
  OBVIOUS
<1>2. toServer \in [Windows -> Seq(Asks)] /\ toWindow \in [Windows -> Seq(Msgs)]
  BY <1>1 DEF Init
<1>3. TInv
  BY <1>2 DEF Init, TInv, TypeOK, Silent
<1> QED
  BY <1>3 DEF Init, ListInv, WatchInv, RunningInv, DownInv

LEMMA NextKeeps == ConstantsOK /\ TInv /\ [Next]_vars => Keeps
<1> SUFFICES ASSUME ConstantsOK, TInv, [Next]_vars PROVE Keeps
  OBVIOUS
<1>1. CASE UNCHANGED vars
  <2>1. UNCHANGED <<entries, dying, records, file, conn, toServer, toWindow, tab, attached, listed>>
    BY <1>1 DEF vars
  <2> QED
    BY <2>1 DEF Keeps, TInv, TypeOK, Silent, ListInv, WatchInv, RunningInv, DownInv,
                Attended, Watched, IsLive, Ending, Asked, Answered
<1>2. ASSUME NEW w \in Windows, NEW t \in Tabs,
             \/ ServeReattach(w, t) \/ ServeSpawn(w, t) \/ SpawnFails(w, t)
             \/ ServeAttach(w, t) \/ ServeClose(w, t)
      PROVE  Keeps
  BY <1>2, ServeReattachKeeps, ServeSpawnKeeps, SpawnFailsKeeps, ServeAttachKeeps, ServeCloseKeeps
<1>3. ASSUME NEW w \in Windows, NEW t \in Tabs, Open(w, t) \/ Adopt(w, t) \/ Close(w, t) \/ Resume(w, t)
      PROVE  Keeps
  BY <1>3, OpenKeeps, AdoptKeeps, CloseKeeps, ResumeKeeps
<1>4. ASSUME NEW w \in Windows, Connect(w) \/ Break(w) \/ \E v \in Windows : Reload(w, v)
      PROVE  Keeps
  BY <1>4, ConnectKeeps, BreakKeeps, ReloadKeeps
<1>5. ASSUME NEW w \in Windows, HearsList(w) \/ HearsRestore(w) \/ HearsNoPty(w) \/ HearsExit(w)
      PROVE  Keeps
  BY <1>5, HearsListKeeps, HearsRestoreKeeps, HearsNoPtyKeeps, HearsExitKeeps
<1>6. ASSUME NEW t \in Tabs, NEW how \in Exits, PtyExits(t, how) PROVE Keeps
  BY <1>6, PtyExitsKeeps
<1>7. ASSUME NEW d \in dying, LateExit(d) PROVE Keeps
  BY <1>7, LateExitKeeps
<1>8. CASE Flush \/ Restart
  BY <1>8, FlushKeeps, RestartKeeps
<1> QED
  BY <1>1, <1>2, <1>3, <1>4, <1>5, <1>6, <1>7, <1>8 DEF Next

(***************************************************************************)
(* Server, windows and messages keep the shapes the code relies on, and a  *)
(* window without a socket has nothing in flight (wsServer.ts).            *)
(***************************************************************************)
THEOREM TerminalTypeCorrect ==
  ASSUME ConstantsOK
  PROVE  Spec => []TypeOK
<1>1. TInv /\ [Next]_vars => TInv'
  BY NextKeeps DEF Keeps
<1>2. TInv => TypeOK
  BY DEF TInv
<1> QED
  BY InitInv, <1>1, <1>2, PTL DEF Spec

(***************************************************************************)
(* A window that has read everything knows what can be resumed, after any  *)
(* exits, closes, failing spawns, reloads and restarts of the server: all  *)
(* that change it tell every window (broadcastResumable in index.ts).      *)
(***************************************************************************)
THEOREM EveryWindowKnows ==
  ASSUME ConstantsOK
  PROVE  Spec => []ResumableIsListed
<1> DEFINE IInv == TInv /\ ListInv
<1>1. Init => IInv
  BY InitInv
<1>2. IInv /\ [Next]_vars => IInv'
  BY NextKeeps DEF Keeps
<1>3. IInv => ResumableIsListed
  BY DEF ListInv, Latest, ResumableIsListed, Settled
<1> QED
  BY <1>1, <1>2, <1>3, PTL DEF Spec

(***************************************************************************)
(* As long as a window is left alone while its socket is down, a tab that  *)
(* it shows as running is one it watches, or whose end it is about to hear *)
(* of: no exit, close, resumption, reload or restart in between leaves a   *)
(* dead tab that looks alive (ChatOverlay.tsx, terminalManager.ts).        *)
(***************************************************************************)
THEOREM NoTabLooksAlive ==
  ASSUME ConstantsOK, ~Offline
  PROVE  Spec => []RunningIsWatched
<1> DEFINE IInv == TInv /\ WatchInv
<1>1. Init => IInv
  BY InitInv
<1>2. IInv /\ [Next]_vars => IInv'
  BY NextKeeps DEF Keeps
<1>3. IInv => RunningIsWatched
  <2> SUFFICES ASSUME IInv, NEW w \in Windows, NEW t \in Tabs, Settled(w), tab[w][t] = "running"
               PROVE  \/ IsLive(t) /\ w \in entries[t].subs
                      \/ \E d \in dying : d.tab = t /\ w \in d.subs
    BY DEF RunningIsWatched
  <2>1. Attended(w, t)
    BY DEF Settled, WatchInv, RunningInv
  <2>2. ~Asked(w, t) /\ ~Answered(w, t)
    BY DEF Settled, Asked, Answered, Contains
  <2> QED
    BY <2>1, <2>2 DEF Attended, Watched, Ending
<1> QED
  BY <1>1, <1>2, <1>3, PTL DEF Spec

=============================================================================
