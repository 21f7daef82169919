--------------------------- MODULE DiscoveryProofs ---------------------------
(***************************************************************************)
(* Theorems about a Discovery under any caller, for all sets of sources    *)
(* and names, every configuration and every length of history.             *)
(*                                                                         *)
(* Accepted is a recursive function of the history; AcceptedOfAppend says  *)
(* what one datagram adds to it, and is all that the invariants use.       *)
(***************************************************************************)
EXTENDS Discovery, SequenceTheorems, WellFoundedInduction, TLAPS

-----------------------------------------------------------------------------
(* What one datagram adds to Accepted. *)

\* A set of naturals that holds 0 and every successor of its members is Nat.
LEMMA SetInduction ==
  ASSUME NEW T \in SUBSET Nat, 0 \in T, \A n \in T : n + 1 \in T
  PROVE  T = Nat
<1>1. SUFFICES ASSUME Nat \ T # {} PROVE FALSE
  OBVIOUS
<1>2. PICK m \in Nat \ T : \A y \in Nat \ T : ~ (<<y, m>> \in OpToRel(<, Nat))
  <2>1. Nat \ T \subseteq Nat
    OBVIOUS
  <2> QED
    BY <1>1, <2>1, WFMin, NatLessThanWellFounded
<1>3. m \in Nat /\ m # 0 /\ m - 1 \in Nat /\ m - 1 < m
  OBVIOUS
<1>4. <<m - 1, m>> \in OpToRel(<, Nat)
  BY <1>3, Zenon DEF OpToRel
<1>5. m - 1 \in T
  BY <1>2, <1>3, <1>4, Zenon
<1>6. (m - 1) + 1 \in T /\ (m - 1) + 1 = m
  BY <1>3, <1>5
<1> QED
  BY <1>6

First(got, i) == \A j \in 1 .. i - 1 : got[j].src # got[i].src

Taken(filter, got, i) ==
  First(got, i) /\ Keeps([filter |-> filter], got[i].reply)

FoundIn(got, i) == [name |-> got[i].reply, addr |-> got[i].src]

\* f lists what is accepted of the first n datagrams, for each n up to last.
Lists(f, filter, got, last) ==
  f = [n \in 0 .. last |->
         IF n = 0 THEN <<>>
         ELSE IF Taken(filter, got, n) THEN Append(f[n-1], FoundIn(got, n))
         ELSE f[n-1]]

LEMMA ListsExtends ==
  ASSUME NEW filter, NEW got, NEW m \in Nat, NEW f, Lists(f, filter, got, m)
  PROVE  \E g : /\ Lists(g, filter, got, m + 1)
                /\ \A n \in 0 .. m : g[n] = f[n]
<1> DEFINE NextList(v, n) ==
             IF Taken(filter, got, n) THEN Append(v, FoundIn(got, n)) ELSE v
           g == [n \in 0 .. m + 1 |-> IF n = m + 1 THEN NextList(f[m], n) ELSE f[n]]
           h == [n \in 0 .. m + 1 |-> IF n = 0 THEN <<>> ELSE NextList(g[n-1], n)]
<1>1. \A n \in 0 .. m : f[n] = IF n = 0 THEN <<>> ELSE NextList(f[n-1], n)
  BY Zenon DEF Lists
<1> HIDE DEF NextList
<1>2. \A n \in 0 .. m : g[n] = f[n]
  OBVIOUS
<1>3. ASSUME NEW n \in 0 .. m + 1 PROVE g[n] = h[n]
  <2>1. CASE n = m + 1
    <3>1. n - 1 = m /\ n # 0
      BY <2>1
    <3>2. g[n] = NextList(f[m], n) /\ g[n-1] = f[m] /\ h[n] = NextList(g[n-1], n)
      BY <1>2, <2>1, <3>1
    <3> QED
      BY <3>2
  <2>2. CASE n # m + 1
    <3>1. n \in 0 .. m /\ (n # 0 => n - 1 \in 0 .. m)
      BY <2>2
    <3>2. g[n] = f[n] /\ (n # 0 => g[n-1] = f[n-1])
      BY <1>2, <3>1
    <3>3. h[n] = IF n = 0 THEN <<>> ELSE NextList(g[n-1], n)
      BY Zenon
    <3> HIDE DEF g, h
    <3> QED
      BY <1>1, <3>1, <3>2, <3>3
  <2> QED
    BY <2>1, <2>2
<1>4. g = h
  <2> HIDE <1>3
  <2>1. \A n \in 0 .. m + 1 : g[n] = h[n]
    BY <1>3
  <2> HIDE DEF NextList
  <2> QED
    BY <2>1, Zenon
<1>5. Lists(g, filter, got, m + 1)
  BY <1>4, Zenon DEF Lists, NextList
<1> HIDE DEF g
<1> QED
  BY <1>2, <1>5

\* The recursive definition of Accepted is satisfied by a function.
LEMMA ListsExists ==
  ASSUME NEW filter, NEW got, NEW last \in Nat
  PROVE  \E f : Lists(f, filter, got, last)
<1> DEFINE T == {m \in Nat : \E f : Lists(f, filter, got, m)}
<1>1. 0 \in T
  <2> DEFINE f == [n \in 0 .. 0 |-> <<>>]
  <2>1. Lists(f, filter, got, 0)
    BY DEF Lists
  <2> QED
    BY <2>1
<1>2. ASSUME NEW m \in T PROVE m + 1 \in T
  BY ListsExtends
<1>3. T = Nat
  <2>1. T \in SUBSET Nat
    OBVIOUS
  <2> HIDE DEF T
  <2> QED
    BY <1>1, <1>2, <2>1, SetInduction
<1> QED
  BY <1>3

\* Two histories that agree on their first m datagrams accept the same there.
LEMMA ListsAgree ==
  ASSUME NEW filter, NEW s, NEW t, NEW m \in Nat, NEW k \in Nat, m <= k,
         NEW f, NEW g, Lists(f, filter, s, m), Lists(g, filter, t, k),
         \A i \in 1 .. m : s[i] = t[i]
  PROVE  f[m] = g[m]
<1> DEFINE T == {n \in Nat : n <= m => f[n] = g[n]}
<1>1. /\ \A n \in 0 .. m :
           f[n] = IF n = 0 THEN <<>>
                  ELSE IF Taken(filter, s, n) THEN Append(f[n-1], FoundIn(s, n)) ELSE f[n-1]
      /\ \A n \in 0 .. k :
           g[n] = IF n = 0 THEN <<>>
                  ELSE IF Taken(filter, t, n) THEN Append(g[n-1], FoundIn(t, n)) ELSE g[n-1]
  BY Zenon DEF Lists
<1>2. \A n \in 1 .. m : /\ Taken(filter, s, n) <=> Taken(filter, t, n)
                        /\ FoundIn(s, n) = FoundIn(t, n)
  BY DEF Taken, First, FoundIn
<1>3. 0 \in T
  <2>1. 0 \in 0 .. m /\ 0 \in 0 .. k
    OBVIOUS
  <2>2. f[0] = <<>> /\ g[0] = <<>>
    BY <1>1, <2>1, Zenon
  <2> QED
    BY <2>2
<1>4. ASSUME NEW n \in T PROVE n + 1 \in T
  <2>1. SUFFICES ASSUME n + 1 <= m PROVE f[n+1] = g[n+1]
    OBVIOUS
  <2>2. f[n] = g[n] /\ n + 1 \in 1 .. m /\ n + 1 \in 0 .. k /\ n + 1 # 0 /\ (n + 1) - 1 = n
    BY <2>1
  <2> QED
    BY <1>1, <1>2, <2>2
<1>5. T = Nat
  <2>1. T \in SUBSET Nat
    OBVIOUS
  <2> HIDE DEF T
  <2> QED
    BY <1>3, <1>4, <2>1, SetInduction
<1> QED
  BY <1>5

LEMMA AcceptedIsLast ==
  ASSUME NEW filter, NEW got, Len(got) \in Nat
  PROVE  \E f : /\ Lists(f, filter, got, Len(got))
                /\ Accepted(filter, got) = f[Len(got)]
<1> DEFINE f == CHOOSE f : Lists(f, filter, got, Len(got))
<1>1. Lists(f, filter, got, Len(got))
  BY ListsExists, Zenon
<1>2. Accepted(filter, got) = f[Len(got)]
  BY Zenon DEF Accepted, Lists, Taken, First, FoundIn
<1> QED
  BY <1>1, <1>2

LEMMA AcceptedOfNothing ==
  ASSUME NEW filter
  PROVE  Accepted(filter, <<>>) = <<>>
<1>1. Len(<<>>) = 0
  OBVIOUS
<1>2. PICK f : Lists(f, filter, <<>>, 0) /\ Accepted(filter, <<>>) = f[0]
  BY <1>1, AcceptedIsLast
<1>3. 0 \in 0 .. 0
  OBVIOUS
<1>4. f[0] = <<>>
  BY <1>2, <1>3, Zenon DEF Lists
<1> QED
  BY <1>2, <1>4

\* A datagram from a source not heard before is accepted if it is kept; any
\* other adds nothing.
LEMMA AcceptedOfAppend ==
  ASSUME NEW filter, NEW s \in Seq(Datagram), NEW dg \in Datagram
  PROVE  Accepted(filter, Append(s, dg)) =
           IF /\ \A j \in 1 .. Len(s) : s[j].src # dg.src
              /\ Keeps([filter |-> filter], dg.reply)
           THEN Append(Accepted(filter, s), [name |-> dg.reply, addr |-> dg.src])
           ELSE Accepted(filter, s)
<1> DEFINE m == Len(s)
           t == Append(s, dg)
<1>1. /\ m \in Nat /\ Len(t) = m + 1 /\ t[m+1] = dg
      /\ \A i \in 1 .. m : t[i] = s[i]
  BY AppendProperties
<1> HIDE DEF m, t
<1>2. PICK f : Lists(f, filter, s, m) /\ Accepted(filter, s) = f[m]
  BY <1>1, AcceptedIsLast DEF m
<1>3. PICK g : Lists(g, filter, t, m + 1) /\ Accepted(filter, t) = g[m+1]
  <2>1. Len(t) \in Nat
    BY <1>1
  <2>2. \E g : Lists(g, filter, t, Len(t)) /\ Accepted(filter, t) = g[Len(t)]
    BY <2>1, AcceptedIsLast
  <2> QED
    BY <1>1, <2>2
<1>4. f[m] = g[m]
  <2>1. m <= m + 1 /\ m + 1 \in Nat /\ \A i \in 1 .. m : s[i] = t[i]
    BY <1>1
  <2> QED
    BY <1>1, <1>2, <1>3, <2>1, ListsAgree
<1>5. g[m+1] = IF Taken(filter, t, m + 1) THEN Append(g[m], FoundIn(t, m + 1)) ELSE g[m]
  <2>1. m + 1 \in 0 .. m + 1 /\ m + 1 # 0 /\ (m + 1) - 1 = m
    BY <1>1
  <2>2. \A n \in 0 .. m + 1 :
          g[n] = IF n = 0 THEN <<>>
                 ELSE IF Taken(filter, t, n) THEN Append(g[n-1], FoundIn(t, n)) ELSE g[n-1]
    BY <1>3, Zenon DEF Lists
  <2> QED
    BY <2>1, <2>2
<1>6. /\ Taken(filter, t, m + 1) <=>
           /\ \A j \in 1 .. m : s[j].src # dg.src
           /\ Keeps([filter |-> filter], dg.reply)
      /\ FoundIn(t, m + 1) = [name |-> dg.reply, addr |-> dg.src]
  <2>1. (m + 1) - 1 = m
    BY <1>1
  <2> QED
    BY <1>1, <2>1 DEF Taken, First, FoundIn
<1> QED
  BY <1>2, <1>3, <1>4, <1>5, <1>6 DEF m, t
-----------------------------------------------------------------------------
(* Types. *)

TypeOK ==
  /\ machine \in Machine
  /\ now \in Nat
  /\ handed \in Seq(Datagram)
  /\ sends \in Seq(Nat)
  /\ yielded \in Seq(Found)
  /\ dones \in Nat

\* What is seen is who was heard.
SeenIsHeard == machine.seen = {handed[i].src : i \in 1 .. Len(handed)}

\* A send is planned as long as one is left, an Interval after the last.
PlanKept ==
  /\ machine.nextSend # NoSend <=> machine.sendsLeft > 0
  /\ Len(sends) > 0 /\ machine.nextSend # NoSend =>
       machine.nextSend = sends[Len(sends)] + Interval

DiscoveryInv == TypeOK /\ SeenIsHeard /\ AcceptedOnce /\ PlanKept /\ SendsSpaced

LEMMA TakeDiscoveredType ==
  ASSUME NEW d \in Machine
  PROVE  /\ TakeDiscovered(d) \in Machine
         /\ TakeDiscovered(d) = [d EXCEPT !.discovered = <<>>]
BY EmptySeq DEF TakeDiscovered, Machine

LEMMA CountSendType ==
  ASSUME NEW d \in Machine, NEW t \in Nat, SendDue(d, t), d.sendsLeft > 0
  PROVE  /\ CountSend(d, t) \in Machine
         /\ CountSend(d, t).sendsLeft = d.sendsLeft - 1
         /\ CountSend(d, t).nextSend = IF d.sendsLeft > 1 THEN t + Interval ELSE NoSend
         /\ CountSend(d, t).seen = d.seen /\ CountSend(d, t).discovered = d.discovered
         /\ CountSend(d, t).filter = d.filter
<1> DEFINE left == d.sendsLeft - 1
           next == IF d.sendsLeft > 1 THEN t + Interval ELSE NoSend
<1>1. left \in Nat /\ next \in Nat \cup {NoSend}
  BY ConfigAssumption DEF Machine
<1>2. CountSend(d, t) = [d EXCEPT !.sendsLeft = left, !.nextSend = next]
  BY DEF CountSend, Machine
<1> HIDE DEF left, next
<1>3. /\ CountSend(d, t) \in Machine
      /\ CountSend(d, t).sendsLeft = left /\ CountSend(d, t).nextSend = next
      /\ CountSend(d, t).seen = d.seen /\ CountSend(d, t).discovered = d.discovered
      /\ CountSend(d, t).filter = d.filter
  BY <1>1, <1>2 DEF Machine
<1> QED
  BY <1>3 DEF left, next

LEMMA HandleInboundType ==
  ASSUME NEW d \in Machine, NEW dg \in Datagram
  PROVE  /\ HandleInbound(d, dg) \in Machine
         /\ HandleInbound(d, dg).seen = d.seen \cup {dg.src}
         /\ HandleInbound(d, dg).discovered =
              IF dg.src \notin d.seen /\ Keeps([filter |-> d.filter], dg.reply)
              THEN Append(d.discovered, [name |-> dg.reply, addr |-> dg.src])
              ELSE d.discovered
         /\ HandleInbound(d, dg).sendsLeft = d.sendsLeft
         /\ HandleInbound(d, dg).nextSend = d.nextSend
         /\ HandleInbound(d, dg).filter = d.filter
<1> DEFINE found == [name |-> dg.reply, addr |-> dg.src]
<1>1. Keeps(d, dg.reply) <=> Keeps([filter |-> d.filter], dg.reply)
  BY DEF Keeps
<1>2. dg.src \in Source /\ (Keeps(d, dg.reply) => found \in Found)
  BY DEF Datagram, Reply, Found, Keeps
<1>3. d.discovered \in Seq(Found) /\ d.seen \in SUBSET Source
  BY DEF Machine
<1>4. Keeps(d, dg.reply) => Append(d.discovered, found) \in Seq(Found)
  BY <1>2, <1>3, AppendProperties
<1> HIDE DEF found
<1>5. CASE dg.src \in d.seen
  BY <1>5 DEF HandleInbound
<1>6. CASE dg.src \notin d.seen /\ ~ Keeps(d, dg.reply)
  BY <1>1, <1>2, <1>3, <1>6 DEF HandleInbound, Machine
<1>7. CASE dg.src \notin d.seen /\ Keeps(d, dg.reply)
  <2> DEFINE x == [d EXCEPT !.seen = @ \cup {dg.src},
                            !.completed = @ \/ d.filter = "StopOnName",
                            !.discovered = Append(@, found)]
  <2>1. HandleInbound(d, dg) = x
    BY <1>7 DEF HandleInbound, found
  <2>2. (d.completed \/ d.filter = "StopOnName") \in BOOLEAN
    OBVIOUS
  <2>3. x \in Machine
    BY <1>2, <1>3, <1>4, <1>7, <2>2 DEF Machine
  <2>4. /\ x.seen = d.seen \cup {dg.src} /\ x.discovered = Append(d.discovered, found)
        /\ x.sendsLeft = d.sendsLeft /\ x.nextSend = d.nextSend /\ x.filter = d.filter
    BY DEF Machine
  <2> HIDE DEF x
  <2> QED
    BY <1>1, <1>7, <2>1, <2>3, <2>4 DEF found
<1> QED
  BY <1>5, <1>6, <1>7

-----------------------------------------------------------------------------
(* The invariant. *)

LEMMA InitInv == Init => DiscoveryInv
<1> SUFFICES ASSUME Init PROVE DiscoveryInv
  OBVIOUS
<1>1. PICK filter \in Filter : machine = NewDiscovery(filter)
  BY DEF Init
<1>2. /\ machine \in Machine /\ machine.seen = {} /\ machine.discovered = <<>>
      /\ machine.sendsLeft = Retransmits + 1 /\ machine.nextSend = 0
      /\ machine.filter = filter /\ Retransmits + 1 \in Nat
  <2>1. Retransmits + 1 \in Nat /\ <<>> \in Seq(Found) /\ {} \in SUBSET Source
    BY ConfigAssumption
  <2> QED
    BY <1>1, <2>1 DEF NewDiscovery, Machine
<1>3. /\ now = 0 /\ handed = <<>> /\ sends = <<>> /\ yielded = <<>> /\ dones = 0
  BY DEF Init
<1>4. Len(handed) = 0 /\ Len(sends) = 0 /\ 1 .. Len(handed) = {} /\ 1 .. Len(sends) = {}
  BY <1>3
<1>5. TypeOK
  BY <1>2, <1>3 DEF TypeOK
<1>6. SeenIsHeard
  BY <1>2, <1>4 DEF SeenIsHeard
<1>7. AcceptedOnce
  <2>1. yielded \o machine.discovered = <<>>
    BY <1>2, <1>3
  <2> QED
    BY <1>3, <2>1, AcceptedOfNothing DEF AcceptedOnce
<1>8. PlanKept /\ SendsSpaced
  BY <1>2, <1>4, ConfigAssumption DEF PlanKept, SendsSpaced, NoSend
<1> QED
  BY <1>5, <1>6, <1>7, <1>8 DEF DiscoveryInv

LEMMA StepInv == DiscoveryInv /\ [Next]_vars => DiscoveryInv'
<1> SUFFICES ASSUME DiscoveryInv, [Next]_vars PROVE DiscoveryInv'
  OBVIOUS
<1>0. /\ TypeOK /\ SeenIsHeard /\ AcceptedOnce /\ PlanKept /\ SendsSpaced
      /\ machine \in Machine /\ now \in Nat /\ handed \in Seq(Datagram)
      /\ sends \in Seq(Nat) /\ yielded \in Seq(Found) /\ dones \in Nat
      /\ machine.discovered \in Seq(Found) /\ machine.sendsLeft \in Nat
      /\ Len(sends) \in Nat
  BY DEF DiscoveryInv, TypeOK, Machine
<1>1. CASE PollDone
  <2>1. /\ machine' \in Machine /\ machine' = [machine EXCEPT !.discovered = <<>>]
        /\ yielded' = yielded \o machine.discovered /\ dones' = dones + 1
        /\ UNCHANGED <<now, handed, sends>>
    BY <1>0, <1>1, TakeDiscoveredType DEF PollDone
  <2>2. /\ machine'.discovered = <<>> /\ machine'.seen = machine.seen
        /\ machine'.sendsLeft = machine.sendsLeft /\ machine'.nextSend = machine.nextSend
        /\ machine'.filter = machine.filter
    BY <1>0, <2>1 DEF Machine
  <2>3. yielded' \in Seq(Found)
    BY <1>0, <2>1, ConcatProperties
  <2>4. AcceptedOnce'
    <3>1. yielded' \o machine'.discovered = yielded'
      BY <2>2, <2>3, ConcatEmptySeq
    <3> QED
      BY <1>0, <2>1, <2>2, <3>1 DEF AcceptedOnce
  <2>5. TypeOK' /\ SeenIsHeard'
    BY <1>0, <2>1, <2>2, <2>3 DEF TypeOK, SeenIsHeard
  <2>6. PlanKept' /\ SendsSpaced'
    BY <1>0, <2>1, <2>2 DEF PlanKept, SendsSpaced
  <2> QED
    BY <2>4, <2>5, <2>6 DEF DiscoveryInv
<1>2. CASE PollSend
  <2>1. /\ ~ Finished(machine, now) /\ SendDue(machine, now)
        /\ machine' = CountSend(machine, now) /\ sends' = Append(sends, now)
        /\ UNCHANGED <<now, handed, yielded, dones>>
    BY <1>2 DEF PollSend
  <2>2. now < ListenFor /\ machine.nextSend <= now /\ machine.nextSend # NoSend
    BY <1>0, <2>1, ConfigAssumption DEF Finished, SendDue
  <2>3. machine.sendsLeft > 0
    BY <1>0, <2>2 DEF PlanKept
  <2>4. /\ machine' \in Machine /\ machine'.sendsLeft = machine.sendsLeft - 1
        /\ machine'.nextSend = IF machine.sendsLeft > 1 THEN now + Interval ELSE NoSend
        /\ machine'.seen = machine.seen /\ machine'.discovered = machine.discovered
        /\ machine'.filter = machine.filter
    BY <1>0, <2>1, <2>3, CountSendType
  <2>5. /\ sends' \in Seq(Nat) /\ Len(sends') = Len(sends) + 1
        /\ \A i \in 1 .. Len(sends) : sends'[i] = sends[i]
        /\ sends'[Len(sends) + 1] = now
    BY <1>0, <2>1, AppendProperties
  <2>6. PlanKept'
    BY <1>0, <2>1, <2>3, <2>4, <2>5, ConfigAssumption DEF PlanKept, NoSend
  <2>7. SendsSpaced'
    <3>1. Len(sends') + machine'.sendsLeft = Retransmits + 1
      BY <1>0, <2>4, <2>5, ConfigAssumption DEF SendsSpaced
    <3>2. ASSUME NEW i \in 1 .. Len(sends')
          PROVE  /\ sends'[i] < ListenFor
                 /\ i > 1 => sends'[i] >= sends'[i-1] + Interval
      <4>1. CASE i \in 1 .. Len(sends)
        <5>1. i > 1 => i - 1 \in 1 .. Len(sends)
          BY <1>0, <4>1
        <5> QED
          BY <1>0, <2>5, <4>1, <5>1 DEF SendsSpaced
      <4>2. CASE i = Len(sends) + 1
        <5>1. sends'[i] = now
          BY <2>5, <4>2
        <5>2. i > 1 => /\ i - 1 \in 1 .. Len(sends) /\ i - 1 = Len(sends)
                       /\ Len(sends) > 0
          BY <1>0, <4>2
        <5>3. i > 1 => machine.nextSend = sends[Len(sends)] + Interval
          BY <1>0, <2>2, <5>2 DEF PlanKept
        <5>4. i > 1 => sends'[i-1] = sends[Len(sends)]
          BY <2>5, <5>2
        <5> QED
          BY <2>2, <5>1, <5>3, <5>4
      <4> QED
        BY <1>0, <2>5, <4>1, <4>2
    <3> QED
      BY <2>1, <3>1, <3>2 DEF SendsSpaced
  <2>8. TypeOK' /\ SeenIsHeard' /\ AcceptedOnce'
    BY <1>0, <2>1, <2>4, <2>5 DEF TypeOK, SeenIsHeard, AcceptedOnce
  <2> QED
    BY <2>6, <2>7, <2>8 DEF DiscoveryInv
<1>3. CASE Inbound
  <2>1. PICK dg \in Datagram :
          /\ machine' = HandleInbound(machine, dg) /\ handed' = Append(handed, dg)
          /\ UNCHANGED <<now, sends, yielded, dones>>
    BY <1>3 DEF Inbound
  <2> DEFINE found == [name |-> dg.reply, addr |-> dg.src]
  <2>2. /\ machine' \in Machine /\ machine'.seen = machine.seen \cup {dg.src}
        /\ machine'.discovered =
             IF dg.src \notin machine.seen /\ Keeps([filter |-> machine.filter], dg.reply)
             THEN Append(machine.discovered, found) ELSE machine.discovered
        /\ machine'.sendsLeft = machine.sendsLeft /\ machine'.nextSend = machine.nextSend
        /\ machine'.filter = machine.filter
    BY <1>0, <2>1, HandleInboundType
  <2>3. /\ handed' \in Seq(Datagram) /\ Len(handed') = Len(handed) + 1 /\ Len(handed) \in Nat
        /\ \A i \in 1 .. Len(handed) : handed'[i] = handed[i]
        /\ handed'[Len(handed) + 1] = dg
    BY <1>0, <2>1, AppendProperties
  <2>4. SeenIsHeard'
    <3>1. \A i \in 1 .. Len(handed') : i \in 1 .. Len(handed) \/ i = Len(handed) + 1
      BY <2>3
    <3>2. 1 .. Len(handed) \subseteq 1 .. Len(handed') /\ Len(handed) + 1 \in 1 .. Len(handed')
      BY <2>3
    <3>3. {handed'[i].src : i \in 1 .. Len(handed')} =
            {handed[i].src : i \in 1 .. Len(handed)} \cup {dg.src}
      BY <2>3, <3>1, <3>2
    <3> QED
      BY <1>0, <2>2, <3>3 DEF SeenIsHeard
  <2>5. AcceptedOnce'
    <3>1. dg.src \notin machine.seen <=> \A j \in 1 .. Len(handed) : handed[j].src # dg.src
      BY <1>0 DEF SeenIsHeard
    <3>2. Accepted(machine.filter, handed') =
            IF dg.src \notin machine.seen /\ Keeps([filter |-> machine.filter], dg.reply)
            THEN Append(Accepted(machine.filter, handed), found)
            ELSE Accepted(machine.filter, handed)
      BY <1>0, <2>1, <3>1, AcceptedOfAppend
    <3>3. Keeps([filter |-> machine.filter], dg.reply) =>
            yielded \o Append(machine.discovered, found) =
              Append(yielded \o machine.discovered, found)
      <4>1. SUFFICES ASSUME Keeps([filter |-> machine.filter], dg.reply)
                     PROVE  yielded \o Append(machine.discovered, found) =
                              Append(yielded \o machine.discovered, found)
        OBVIOUS
      <4>2. found \in Found
        BY <4>1 DEF Keeps, Datagram, Reply, Found
      <4> HIDE DEF found
      <4>3. <<found>> \in Seq(Found) /\ yielded \o machine.discovered \in Seq(Found)
        BY <1>0, <4>2, ConcatProperties
      <4> QED
        BY <1>0, <4>2, <4>3, ConcatAssociative, AppendIsConcat
    <3> HIDE DEF found
    <3> QED
      BY <1>0, <2>1, <2>2, <3>2, <3>3 DEF AcceptedOnce
  <2>6. TypeOK' /\ PlanKept' /\ SendsSpaced'
    BY <1>0, <2>1, <2>2, <2>3 DEF TypeOK, PlanKept, SendsSpaced
  <2> QED
    BY <2>4, <2>5, <2>6 DEF DiscoveryInv
<1>4. CASE Tick
  BY <1>0, <1>4 DEF Tick, DiscoveryInv, TypeOK, SeenIsHeard, AcceptedOnce, PlanKept, SendsSpaced
<1>5. CASE UNCHANGED vars
  BY <1>0, <1>5 DEF vars, DiscoveryInv, TypeOK, SeenIsHeard, AcceptedOnce, PlanKept, SendsSpaced
<1> QED
  BY <1>1, <1>2, <1>3, <1>4, <1>5 DEF Next

LEMMA Invariance == Spec => []DiscoveryInv
<1>1. Init => DiscoveryInv
  BY InitInv
<1>2. DiscoveryInv /\ [Next]_vars => DiscoveryInv'
  BY StepInv
<1> QED
  BY <1>1, <1>2, PTL DEF Spec

\* Whatever datagrams are handed in, when, and however often Done is taken,
\* what was returned and what is held are the accepted first words of the
\* sources heard, in order (handle_inbound and poll, discovery/engine.rs).
THEOREM NothingLostOrRepeated == Spec => []AcceptedOnce
<1>1. DiscoveryInv => AcceptedOnce
  BY DEF DiscoveryInv
<1> QED
  BY <1>1, Invariance, PTL

\* However late or often poll is called, the sends keep to their budget, to
\* the interval and to the deadline (poll, discovery/engine.rs).
THEOREM BudgetKept == Spec => []SendsSpaced
<1>1. DiscoveryInv => SendsSpaced
  BY DEF DiscoveryInv
<1> QED
  BY <1>1, Invariance, PTL
=============================================================================
