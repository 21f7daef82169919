---------------------------- MODULE HandleProofs ----------------------------
(***************************************************************************)
(* Theorems about one client shared by threads, for every set of threads,  *)
(* whatever each of them calls, and any number of calls.                   *)
(***************************************************************************)
EXTENDS Handle, TLAPS

Stages == {"idle", "returned", "waiting", "inside", "reading", "building"}
Called == {"waiting", "inside", "reading"}
Inside == {"inside", "reading"}
Givens == {"", "good", "unknown kind", "empty", "quote", "line break"}

Callers == [at : Stages, method : (DOMAIN Entry) \cup {""}, given : Givens, since : Nat]
RawBuilders ==
  [open : BOOLEAN, line : Seq(Nat), appended : Seq(Nat), finished : BOOLEAN]

TypeOK ==
  /\ caller \in [Thread -> Callers]
  /\ builder \in [Thread -> RawBuilders]
  /\ holder \in SUBSET Thread
  /\ link \in {"up", "down"}
  /\ clock \in 0 .. LastClock

\* The mutex: who is between the line and its answer holds it, and alone.
OneInside ==
  /\ \A t \in Thread : t \in holder <=> caller[t].at \in Inside
  /\ \A t, u \in holder : t = u

\* Whoever has called asked for an entry point there is, with a text it has.
CallIsKnown ==
  \A t \in Thread : caller[t].at \in Called =>
    /\ caller[t].method \in DOMAIN Entry
    /\ caller[t].given \in Texts(caller[t].method)
    /\ caller[t].since <= clock

\* As long as the builder is there, and in the line it gives out, nothing is
\* missing; only a builder that is gone misses arguments.
LinesKept ==
  \A t \in Thread : builder[t].open \/ builder[t].finished => builder[t].line = builder[t].appended

HandleInv == TypeOK /\ OneInside /\ CallIsKnown /\ OneExchange /\ LinesKept

-----------------------------------------------------------------------------
(* A text that reaches the wire has no line break in it. *)

LEMMA OneLineEach ==
  ASSUME NEW method, NEW given \in Texts(method), Builds(Entry[method].command, given)
  PROVE  Lines(given) = 1
<1>1. CASE given # "line break"
  BY <1>1 DEF Lines
<1>2. CASE given = "line break"
  <2>1. Entry[method].command.arg \in {"name", "text"}
    BY <1>2 DEF Texts
  <2>2. ~ Quotable(given)
    BY <1>2 DEF Quotable
  <2> QED
    BY <2>1, <2>2 DEF Builds
<1> QED
  BY <1>1, <1>2

LEMMA TextsAreGivens ==
  ASSUME NEW method PROVE Texts(method) \subseteq Givens
<1> QED
  BY DEF Texts, Givens

\* One entry of a function is changed.
LEMMA OneChanges ==
  ASSUME NEW D, NEW C, NEW f \in [D -> C], NEW t \in D, NEW v \in C
  PROVE  /\ [f EXCEPT ![t] = v] \in [D -> C]
         /\ [f EXCEPT ![t] = v][t] = v
         /\ \A u \in D \ {t} : [f EXCEPT ![t] = v][u] = f[u]
OBVIOUS

LEMMA InitInv == Init => HandleInv
<1> SUFFICES ASSUME Init PROVE HandleInv
  OBVIOUS
<1>1. TypeOK
  <2>1. Idle \in Callers
    BY DEF Idle, Callers, Stages, Givens
  <2>2. NewBuilder \in RawBuilders
    BY DEF NewBuilder, RawBuilders
  <2> QED
    BY <2>1, <2>2, HandleAssumption DEF Init, TypeOK
<1>2. OneInside
  BY DEF Init, OneInside, Idle, Inside
<1>3. CallIsKnown
  BY DEF Init, CallIsKnown, Idle, Called
<1>4. OneExchange
  BY DEF Init, OneExchange, Idle
<1>5. LinesKept
  BY DEF Init, LinesKept, NewBuilder
<1> QED
  BY <1>1, <1>2, <1>3, <1>4, <1>5 DEF HandleInv

-----------------------------------------------------------------------------
(* What is under way. *)

\* As long as the same threads read, for the same calls.
LEMMA ExchangeKept ==
  ASSUME OneExchange, UNCHANGED <<toConsole, toClient, link, clock>>,
         \A u \in Thread : caller[u].at = "reading" \/ caller'[u].at = "reading"
                             => caller'[u] = caller[u]
  PROVE  OneExchange'
BY DEF OneExchange, During

\* Nothing is, when nobody reads.
LEMMA NothingUnderWay ==
  ASSUME OneExchange, \A u \in Thread : caller[u].at # "reading"
  PROVE  toConsole = <<>> /\ toClient = <<>>
BY DEF OneExchange

\* A thread that is not inside becomes one that is not inside either.
LEMMA OutsideStep ==
  ASSUME HandleInv,
         NEW t \in Thread, caller[t].at \notin Inside,
         NEW v \in Callers, v.at \notin Inside,
         v.at \in Called =>
           v.method \in DOMAIN Entry /\ v.given \in Texts(v.method) /\ v.since <= clock,
         caller' = [caller EXCEPT ![t] = v],
         UNCHANGED <<holder, toConsole, toClient, link, clock>>
  PROVE  OneInside' /\ CallIsKnown' /\ OneExchange' /\ caller' \in [Thread -> Callers]
<1>0. TypeOK /\ OneInside /\ CallIsKnown /\ OneExchange
  BY DEF HandleInv
<1>1. /\ caller' \in [Thread -> Callers] /\ caller'[t] = v
      /\ \A u \in Thread \ {t} : caller'[u] = caller[u]
  BY <1>0, OneChanges DEF TypeOK
<1>2. OneInside'
  BY <1>0, <1>1 DEF OneInside
<1>3. CallIsKnown'
  BY <1>0, <1>1 DEF CallIsKnown
<1>4. OneExchange'
  BY <1>0, <1>1, ExchangeKept DEF Inside
<1> QED
  BY <1>1, <1>2, <1>3, <1>4

LEMMA CallInv ==
  ASSUME HandleInv, NEW t \in Thread, NEW method \in MayCall[t], NEW given \in Texts(method),
         Call(t, method, given)
  PROVE  HandleInv'
<1>0. TypeOK /\ OneInside /\ CallIsKnown /\ OneExchange /\ LinesKept
  BY DEF HandleInv
<1> DEFINE v == IF RefusedAtOnce(method, given) THEN [Idle EXCEPT !.at = "returned"]
                ELSE [at |-> "waiting", method |-> method, given |-> given, since |-> clock]
<1>1. /\ caller[t].at \notin Inside /\ caller' = [caller EXCEPT ![t] = v]
      /\ builder' = [builder EXCEPT ![t] = NewBuilder]
      /\ UNCHANGED <<holder, toConsole, toClient, link, clock>>
  BY DEF Call, Inside
<1>2. method \in DOMAIN Entry /\ given \in Givens /\ clock \in Nat
  BY <1>0, HandleAssumption, TextsAreGivens DEF TypeOK
<1>3. /\ v \in Callers /\ v.at \notin Inside
      /\ v.at \in Called => v.method = method /\ v.given = given /\ v.since = clock
  BY <1>2 DEF Callers, Stages, Called, Inside, Idle, Givens
<1> HIDE DEF v
<1>4. OneInside' /\ CallIsKnown' /\ OneExchange' /\ caller' \in [Thread -> Callers]
  <2>1. v.at \in Called =>
          v.method \in DOMAIN Entry /\ v.given \in Texts(v.method) /\ v.since <= clock
    BY <1>2, <1>3
  <2> QED
    BY <1>1, <1>3, <2>1, OutsideStep
<1>5. /\ builder' \in [Thread -> RawBuilders] /\ builder'[t] = NewBuilder
      /\ \A u \in Thread \ {t} : builder'[u] = builder[u]
  <2>1. NewBuilder \in RawBuilders
    BY DEF NewBuilder, RawBuilders
  <2> QED
    BY <1>0, <1>1, <2>1, OneChanges DEF TypeOK
<1>6. LinesKept'
  BY <1>0, <1>5 DEF LinesKept, NewBuilder
<1>7. TypeOK'
  BY <1>0, <1>1, <1>4, <1>5 DEF TypeOK
<1> QED
  BY <1>4, <1>6, <1>7 DEF HandleInv

LEMMA EnterInv ==
  ASSUME HandleInv, NEW t \in Thread, Enter(t)
  PROVE  HandleInv'
<1>0. TypeOK /\ OneInside /\ CallIsKnown /\ OneExchange /\ LinesKept
  BY DEF HandleInv
<1> DEFINE v == [caller[t] EXCEPT !.at = "inside"]
<1>1. /\ caller[t].at = "waiting" /\ holder = {} /\ holder' = {t}
      /\ caller' = [caller EXCEPT ![t] = v]
      /\ UNCHANGED <<builder, toConsole, toClient, link, clock>>
  BY DEF Enter
<1>2. /\ v \in Callers /\ v.at = "inside" /\ v.method = caller[t].method
      /\ v.given = caller[t].given /\ v.since = caller[t].since
  BY <1>0 DEF TypeOK, Callers, Stages
<1> HIDE DEF v
<1>3. /\ caller' \in [Thread -> Callers] /\ caller'[t] = v
      /\ \A u \in Thread \ {t} : caller'[u] = caller[u]
  BY <1>0, <1>1, <1>2, OneChanges DEF TypeOK
<1>4. OneInside'
  BY <1>0, <1>1, <1>2, <1>3 DEF OneInside, Inside
<1>5. CallIsKnown'
  BY <1>0, <1>1, <1>2, <1>3 DEF CallIsKnown, Called
<1>6. OneExchange'
  BY <1>0, <1>1, <1>2, <1>3, ExchangeKept
<1>7. TypeOK' /\ LinesKept'
  BY <1>0, <1>1, <1>3 DEF TypeOK, LinesKept
<1> QED
  BY <1>4, <1>5, <1>6, <1>7 DEF HandleInv

\* The thread that is inside is the only one.
LEMMA Alone ==
  ASSUME OneInside, NEW t \in Thread, caller[t].at \in Inside
  PROVE  /\ holder = {t}
         /\ \A u \in Thread \ {t} : caller[u].at \notin Inside
BY DEF OneInside

\* It leaves with nothing under way.
LEMMA LeaveInv ==
  ASSUME HandleInv, NEW t \in Thread, caller[t].at \in Inside, Return(t),
         toConsole' = <<>>, toClient' = <<>>, UNCHANGED <<builder, link, clock>>
  PROVE  HandleInv'
<1>0. TypeOK /\ OneInside /\ CallIsKnown /\ OneExchange /\ LinesKept
  BY DEF HandleInv
<1> DEFINE v == [Idle EXCEPT !.at = "returned"]
<1>1. v \in Callers /\ v.at = "returned"
  BY DEF Callers, Stages, Idle, Givens
<1>2. caller' = [caller EXCEPT ![t] = v] /\ holder' = holder \ {t}
  BY DEF Return
<1> HIDE DEF v
<1>3. /\ caller' \in [Thread -> Callers] /\ caller'[t] = v
      /\ \A u \in Thread \ {t} : caller'[u] = caller[u]
  BY <1>0, <1>1, <1>2, OneChanges DEF TypeOK
<1>4. holder' = {} /\ \A u \in Thread : caller'[u].at \notin Inside
  BY <1>0, <1>1, <1>2, <1>3, Alone DEF Inside
<1>5. OneInside'
  BY <1>4 DEF OneInside
<1>6. CallIsKnown'
  BY <1>0, <1>1, <1>3 DEF CallIsKnown, Called
<1>7. OneExchange'
  BY <1>4 DEF OneExchange, Inside
<1>8. TypeOK' /\ LinesKept'
  BY <1>0, <1>3, <1>4 DEF TypeOK, LinesKept
<1> QED
  BY <1>5, <1>6, <1>7, <1>8 DEF HandleInv

LEMMA SubmitInv ==
  ASSUME HandleInv, NEW t \in Thread, Submit(t)
  PROVE  HandleInv'
<1>0. TypeOK /\ OneInside /\ CallIsKnown /\ OneExchange /\ LinesKept
  BY DEF HandleInv
<1>1. caller[t].at = "inside" /\ UNCHANGED <<builder, toClient, link, clock>>
  BY DEF Submit
<1>2. \A u \in Thread \ {t} : caller[u].at \notin Inside
  BY <1>0, <1>1, Alone DEF Inside
<1>3. toConsole = <<>> /\ toClient = <<>>
  BY <1>0, <1>1, <1>2, NothingUnderWay DEF Inside
<1> DEFINE method == caller[t].method
           given == caller[t].given
<1>4. CASE link = "up" /\ Builds(Entry[method].command, given)
  <2> DEFINE v == [caller[t] EXCEPT !.at = "reading"]
  <2>1. /\ caller' = [caller EXCEPT ![t] = v] /\ UNCHANGED holder
        /\ toConsole' = toConsole \o [i \in 1 .. Lines(given) |-> method]
    BY <1>4 DEF Submit
  <2>2. /\ v \in Callers /\ v.at = "reading" /\ v.method = method
        /\ v.given = given /\ v.since = caller[t].since
    BY <1>0 DEF TypeOK, Callers, Stages
  <2> HIDE DEF v
  <2>3. /\ caller' \in [Thread -> Callers] /\ caller'[t] = v
        /\ \A u \in Thread \ {t} : caller'[u] = caller[u]
    BY <1>0, <2>1, <2>2, OneChanges DEF TypeOK
  <2>4. Lines(given) = 1
    <3>1. given \in Texts(method)
      BY <1>0, <1>1 DEF CallIsKnown, Called
    <3> QED
      BY <1>4, <3>1, OneLineEach
  <2>5. toConsole' = <<method>>
    BY <1>3, <2>1, <2>4
  <2>6. OneInside'
    BY <1>0, <1>1, <2>1, <2>2, <2>3 DEF OneInside, Inside
  <2>7. CallIsKnown'
    BY <1>0, <1>1, <2>2, <2>3 DEF CallIsKnown, Called
  <2>8. OneExchange'
    <3>1. \A u \in Thread \ {t} : caller'[u].at # "reading"
      BY <1>2, <2>3 DEF Inside
    <3>2. caller'[t].at = "reading" /\ caller'[t].method = method
      BY <2>2, <2>3
    <3>3. toClient' = <<>> /\ link' = "up"
      BY <1>1, <1>3, <1>4
    <3> QED
      BY <2>5, <3>1, <3>2, <3>3 DEF OneExchange
  <2>9. TypeOK' /\ LinesKept'
    BY <1>0, <1>1, <2>1, <2>3 DEF TypeOK, LinesKept
  <2> QED
    BY <2>6, <2>7, <2>8, <2>9 DEF HandleInv
<1>5. CASE ~ (link = "up" /\ Builds(Entry[method].command, given))
  <2>1. Return(t) /\ UNCHANGED toConsole
    BY <1>5 DEF Submit
  <2> QED
    BY <1>1, <1>3, <2>1, LeaveInv DEF Inside
<1> QED
  BY <1>4, <1>5

LEMMA ReceiveInv ==
  ASSUME HandleInv, NEW t \in Thread, Receive(t) \/ ReceiveEnd(t)
  PROVE  HandleInv'
<1>0. OneExchange
  BY DEF HandleInv
<1>1. caller[t].at = "reading" /\ Return(t) /\ UNCHANGED <<builder, toConsole, link, clock>>
  BY DEF Receive, ReceiveEnd
<1>2. CASE Receive(t)
  <2>1. toClient # <<>> /\ toClient' = Tail(toClient)
    BY <1>2 DEF Receive
  <2>2. toConsole = <<>> /\ \E reply : toClient = <<reply>>
    BY <1>0, <1>1, <2>1 DEF OneExchange
  <2>3. toClient' = <<>>
    BY <2>1, <2>2
  <2> QED
    BY <1>1, <2>2, <2>3, LeaveInv DEF Inside
<1>3. CASE ReceiveEnd(t)
  <2>1. toClient = <<>> /\ link = "down" /\ UNCHANGED toClient
    BY <1>3 DEF ReceiveEnd
  <2>2. toConsole = <<>>
    BY <1>0, <1>1, <2>1 DEF OneExchange
  <2> QED
    BY <1>1, <2>1, <2>2, LeaveInv DEF Inside
<1> QED
  BY <1>2, <1>3

-----------------------------------------------------------------------------
(* The raw builder. *)

LEMMA StartBuildingInv ==
  ASSUME HandleInv, NEW t \in Thread, StartBuilding(t)
  PROVE  HandleInv'
<1>0. TypeOK /\ OneInside /\ CallIsKnown /\ OneExchange /\ LinesKept
  BY DEF HandleInv
<1> DEFINE v == [caller[t] EXCEPT !.at = "building"]
<1>1. /\ caller[t].at = "idle" /\ caller' = [caller EXCEPT ![t] = v]
      /\ UNCHANGED <<builder, holder, toConsole, toClient, link, clock>>
  BY DEF StartBuilding
<1>2. v \in Callers /\ v.at = "building"
  BY <1>0 DEF TypeOK, Callers, Stages
<1> HIDE DEF v
<1>3. OneInside' /\ CallIsKnown' /\ OneExchange' /\ caller' \in [Thread -> Callers]
  BY <1>1, <1>2, OutsideStep DEF Inside, Called
<1>4. TypeOK' /\ LinesKept'
  BY <1>0, <1>1, <1>3 DEF TypeOK, LinesKept
<1> QED
  BY <1>3, <1>4 DEF HandleInv

\* A builder whose line misses nothing takes the place of another.
LEMMA BuildingInv ==
  ASSUME HandleInv, NEW t \in Thread, NEW b \in RawBuilders, Building(t, b),
         b.open \/ b.finished => b.line = b.appended
  PROVE  HandleInv'
<1>0. TypeOK /\ OneInside /\ CallIsKnown /\ OneExchange /\ LinesKept
  BY DEF HandleInv
<1>1. /\ builder' = [builder EXCEPT ![t] = b]
      /\ UNCHANGED <<caller, holder, toConsole, toClient, link, clock>>
  BY DEF Building
<1>2. /\ builder' \in [Thread -> RawBuilders] /\ builder'[t] = b
      /\ \A u \in Thread \ {t} : builder'[u] = builder[u]
  BY <1>0, <1>1, OneChanges DEF TypeOK
<1>3. LinesKept'
  BY <1>0, <1>2 DEF LinesKept
<1>4. TypeOK'
  BY <1>0, <1>1, <1>2 DEF TypeOK
<1>5. OneInside' /\ CallIsKnown' /\ OneExchange'
  BY <1>0, <1>1, ExchangeKept DEF OneInside, CallIsKnown
<1> QED
  BY <1>3, <1>4, <1>5 DEF HandleInv

LEMMA LenIsNat == ASSUME NEW seq \in Seq(Nat) PROVE Len(seq) \in Nat
OBVIOUS

\* What the changes of a builder do to its fields.
LEMMA BuilderFields ==
  ASSUME NEW b \in RawBuilders, NEW argument \in Nat
  PROVE  LET more == With(b, argument)
             longer == [more EXCEPT !.line = Append(@, argument)]
         IN /\ more \in RawBuilders /\ more.open = b.open /\ more.finished = b.finished
            /\ more.line = b.line /\ more.appended = Append(b.appended, argument)
            /\ longer \in RawBuilders /\ longer.open = b.open /\ longer.finished = b.finished
            /\ longer.line = Append(b.line, argument) /\ longer.appended = more.appended
<1>1. \A seq \in Seq(Nat) : Append(seq, argument) \in Seq(Nat)
  OBVIOUS
<1>2. Append(b.line, argument) \in Seq(Nat) /\ Append(b.appended, argument) \in Seq(Nat)
  BY <1>1 DEF RawBuilders
<1> DEFINE more == With(b, argument)
           longer == [more EXCEPT !.line = Append(@, argument)]
<1>3. DOMAIN b = {"open", "line", "appended", "finished"}
  BY DEF RawBuilders
<1>4. /\ more.open = b.open /\ more.line = b.line /\ more.finished = b.finished
      /\ more.appended = Append(b.appended, argument)
  BY <1>3 DEF With
<1>5. more \in RawBuilders
  BY <1>2 DEF With, RawBuilders
<1>6. DOMAIN more = {"open", "line", "appended", "finished"}
  BY <1>5 DEF RawBuilders
<1> HIDE DEF more
<1>7. /\ longer.open = more.open /\ longer.finished = more.finished
      /\ longer.line = Append(more.line, argument) /\ longer.appended = more.appended
  BY <1>6
<1>8. longer \in RawBuilders
  BY <1>2, <1>4, <1>5 DEF RawBuilders
<1> QED
  BY <1>4, <1>5, <1>7, <1>8 DEF more

LEMMA RawBuilderInv ==
  ASSUME HandleInv, NEW t \in Thread,
         Mutate(t) \/ Finish(t) \/ \E given \in {"good", "quote", "line break"} : Quoted(t, given)
  PROVE  HandleInv'
<1> DEFINE b == builder[t]
<1>a. b \in RawBuilders
  BY DEF HandleInv, TypeOK
<1>b. b.open \/ b.finished => b.line = b.appended
  BY DEF HandleInv, LinesKept
<1> DEFINE argument == Len(b.appended)
<1>c. argument \in Nat
  <2>1. b.appended \in Seq(Nat)
    BY <1>a DEF RawBuilders
  <2> QED
    BY <2>1, LenIsNat
<1>0. /\ b \in RawBuilders /\ argument \in Nat
      /\ b.open \/ b.finished => b.line = b.appended
  BY <1>a, <1>b, <1>c
<1> DEFINE more == With(b, argument)
           longer == [more EXCEPT !.line = Append(@, argument)]
           gone == [more EXCEPT !.open = FALSE]
           done == [b EXCEPT !.open = FALSE, !.finished = b.open]
<1>1. /\ more \in RawBuilders /\ more.open = b.open /\ more.finished = b.finished
      /\ more.line = b.line /\ more.appended = Append(b.appended, argument)
  BY <1>a, <1>c, BuilderFields
<1>2. /\ longer \in RawBuilders /\ longer.appended = more.appended
      /\ longer.line = Append(b.line, argument)
  BY <1>a, <1>c, BuilderFields
<1>3. /\ gone \in RawBuilders /\ ~ gone.open /\ gone.finished = b.finished
  BY <1>1 DEF RawBuilders
<1>4. /\ done \in RawBuilders /\ ~ done.open /\ done.finished = b.open
      /\ done.line = b.line /\ done.appended = b.appended
  BY <1>0 DEF RawBuilders
<1>5. b.open => longer.line = longer.appended
  BY <1>0, <1>1, <1>2
<1> HIDE DEF b, more, longer, gone, done
<1>6. ASSUME Building(t, IF b.open THEN longer ELSE more) PROVE HandleInv'
  <2>0. ~ b.finished
    BY <1>6 DEF Building, b
  <2>1. CASE b.open
    <3>1. Building(t, longer)
      BY <1>6, <2>1
    <3> QED
      BY <1>2, <1>5, <2>1, <3>1, BuildingInv
  <2>2. CASE ~ b.open
    <3>1. Building(t, more)
      BY <1>6, <2>2
    <3> QED
      BY <1>1, <2>0, <2>2, <3>1, BuildingInv
  <2> QED
    BY <2>1, <2>2
<1>7. CASE Mutate(t)
  <2>1. Building(t, IF b.open THEN longer ELSE more)
    BY <1>7 DEF Mutate, b, longer, more
  <2> QED
    BY <1>6, <2>1
<1>8. CASE Finish(t)
  <2>1. Building(t, done)
    BY <1>8 DEF Finish, done, b
  <2> QED
    BY <1>0, <1>4, <2>1, BuildingInv
<1>9. ASSUME NEW given, Quoted(t, given) PROVE HandleInv'
  <2>1. Building(t, IF ~ b.open THEN more ELSE IF Quotable(given) THEN longer ELSE gone)
    BY <1>9 DEF Quoted, b, longer, more, gone
  <2>2. CASE b.open /\ ~ Quotable(given)
    <3>1. Building(t, gone) /\ ~ b.finished
      BY <2>1, <2>2 DEF Building, b
    <3> QED
      BY <1>3, <3>1, BuildingInv
  <2>3. CASE ~ (b.open /\ ~ Quotable(given))
    <3>1. Building(t, IF b.open THEN longer ELSE more)
      BY <2>1, <2>3
    <3> QED
      BY <1>6, <3>1
  <2> QED
    BY <2>2, <2>3
<1> QED
  BY <1>7, <1>8, <1>9

-----------------------------------------------------------------------------
(* The console and the connection. *)

LEMMA ConsoleInv ==
  ASSUME HandleInv, ConsoleAnswers \/ LinkBreaks \/ Tick
  PROVE  HandleInv'
<1>0. TypeOK /\ OneInside /\ CallIsKnown /\ OneExchange /\ LinesKept
  BY DEF HandleInv
<1>1. UNCHANGED <<caller, builder, holder>>
  BY DEF ConsoleAnswers, LinkBreaks, Tick
<1>2. link' \in {"up", "down"} /\ clock' \in 0 .. LastClock /\ clock <= clock'
  BY <1>0, HandleAssumption DEF ConsoleAnswers, LinkBreaks, Tick, TypeOK, W
<1>3. TypeOK' /\ OneInside' /\ LinesKept'
  BY <1>0, <1>1, <1>2 DEF TypeOK, OneInside, LinesKept
<1>4. \A u \in Thread : caller[u].since \in Nat
  BY <1>0 DEF TypeOK, Callers
<1>5. CallIsKnown'
  BY <1>0, <1>1, <1>2, <1>4, HandleAssumption DEF CallIsKnown, TypeOK, W
<1>6. \A u \in Thread : During(u) \subseteq During(u)'
  BY <1>0, <1>1, <1>2, <1>4, HandleAssumption DEF During, TypeOK, W
<1>7. CASE ConsoleAnswers
  <2>1. toConsole # <<>> /\ toConsole' = Tail(toConsole) /\ UNCHANGED <<link, clock>>
    BY <1>7 DEF ConsoleAnswers
  <2>2. PICK reply \in Spellings(Head(toConsole), clock) \cup Refusals :
          toClient' = Append(toClient, reply)
    BY <1>7 DEF ConsoleAnswers, Spellings
  <2>3. ASSUME NEW u \in Thread, caller[u].at = "reading"
        PROVE  /\ toConsole' = <<>>
               /\ \E c \in During(u)' :
                    \E r \in Spellings(caller[u].method, c) \cup Refusals : toClient' = <<r>>
    <3>1. toConsole = <<caller[u].method>> /\ toClient = <<>>
      BY <1>0, <2>1, <2>3 DEF OneExchange
    <3>2. clock \in During(u)'
      BY <1>0, <1>1, <1>4, <2>1, <2>3, HandleAssumption
         DEF During, CallIsKnown, Called, TypeOK, W
    <3>3. reply \in Spellings(caller[u].method, clock) \cup Refusals /\ toClient' = <<reply>>
      BY <2>2, <3>1
    <3>4. toConsole' = <<>>
      BY <2>1, <3>1
    <3> QED
      BY <3>2, <3>3, <3>4
  <2>4. \E u \in Thread : caller[u].at = "reading"
    BY <1>0, <2>1 DEF OneExchange
  <2>5. OneExchange'
    BY <1>1, <2>3, <2>4 DEF OneExchange
  <2> QED
    BY <1>3, <1>5, <2>5 DEF HandleInv
<1>8. CASE LinkBreaks
  <2>1. OneExchange'
    BY <1>0, <1>1, <1>6, <1>8 DEF OneExchange, LinkBreaks
  <2> QED
    BY <1>3, <1>5, <2>1 DEF HandleInv
<1>9. CASE Tick
  <2>1. OneExchange'
    BY <1>0, <1>1, <1>6, <1>9 DEF OneExchange, Tick
  <2> QED
    BY <1>3, <1>5, <2>1 DEF HandleInv
<1> QED
  BY <1>7, <1>8, <1>9

LEMMA StepInv == HandleInv /\ [Next]_vars => HandleInv'
<1> SUFFICES ASSUME HandleInv, [Next]_vars PROVE HandleInv'
  OBVIOUS
<1>1. CASE UNCHANGED vars
  <2>1. TypeOK /\ OneInside /\ CallIsKnown /\ OneExchange /\ LinesKept
    BY DEF HandleInv
  <2>2. /\ UNCHANGED <<caller, builder, holder>>
        /\ UNCHANGED <<toConsole, toClient, link, clock>>
    BY <1>1 DEF vars
  <2>3. OneExchange'
    BY <2>1, <2>2, ExchangeKept
  <2> QED
    BY <2>1, <2>2, <2>3 DEF HandleInv, TypeOK, OneInside, CallIsKnown, LinesKept
<1>2. CASE Next
  <2>1. \/ \E t \in Thread : \E method \in MayCall[t] : \E given \in Texts(method) :
             Call(t, method, given)
        \/ \E t \in Thread : Enter(t)
        \/ \E t \in Thread : Submit(t)
        \/ \E t \in Thread : Receive(t) \/ ReceiveEnd(t)
        \/ \E t \in Thread : StartBuilding(t)
        \/ \E t \in Thread :
             Mutate(t) \/ Finish(t) \/ \E given \in {"good", "quote", "line break"} : Quoted(t, given)
        \/ ConsoleAnswers \/ LinkBreaks \/ Tick
    BY <1>2 DEF Next, Works
  <2> QED
    BY <2>1, CallInv, EnterInv, SubmitInv, ReceiveInv, StartBuildingInv, RawBuilderInv, ConsoleInv
<1> QED
  BY <1>1, <1>2

\* The mutex holds, the calls are known and nothing but the reader's own line
\* or answer is under way, in every state.
THEOREM HandleCorrect == Spec => []HandleInv
<1> QED
  BY InitInv, StepInv, PTL DEF Spec

-----------------------------------------------------------------------------

\* What is under way between the client and the console belongs to the one
\* thread that reads: no call finds, or leaves, anything of another's
\* (Inner::run holds the mutex from wire_line to parse).
THEOREM NothingOfAnother == Spec => []OneExchange
<1>1. HandleInv => OneExchange
  BY DEF HandleInv
<1> QED
  BY <1>1, HandleCorrect, PTL

\* A line the raw builder returns holds every argument that was appended to
\* it (XeedeeCommand::quoted takes the builder out when it refuses).
THEOREM NoArgumentDropped == Spec => []NothingDropped
<1>1. HandleInv => NothingDropped
  BY DEF HandleInv, LinesKept, NothingDropped
<1> QED
  BY <1>1, HandleCorrect, PTL

LEMMA RefusalsFail ==
  ASSUME NEW method, NEW reply \in Refusals
  PROVE  ~ AnswerTo(method, reply).ok
<1>1. reply.status \in {201, 400}
  BY DEF Refusals
<1>2. Parse(Entry[method].command, reply) = Failed
  BY <1>1 DEF Parse
<1> QED
  BY <1>2 DEF AnswerTo, Failed

\* If each answer by itself is read back as what the console held, whatever
\* threads call what at the same time, each reads what the console held
\* during its own call.  (Misread has no parameter: TLC finds it empty for all
\* entry points, moments and spellings there are.)
THEOREM ReadersAreCurrent == Spec /\ []ParsingIsExact => AnswersAreCurrent
<1>1. ASSUME HandleInv, ParsingIsExact, NEW t \in Thread, Receives(t), Answer(t).ok
      PROVE  \E c \in During(t) :
               ButForBreakpoints(Answer(t).rows) = ButForBreakpoints(Meant(caller[t].method, c))
  <2> DEFINE method == caller[t].method
  <2>1. caller[t].at = "reading" /\ toClient # <<>>
    BY <1>1 DEF Receives
  <2>2. PICK c \in During(t) : \E r \in Spellings(method, c) \cup Refusals : toClient = <<r>>
    BY <1>1, <2>1 DEF HandleInv, OneExchange
  <2>3. PICK reply \in Spellings(method, c) \cup Refusals : toClient = <<reply>>
    BY <2>2
  <2>4. Answer(t) = AnswerTo(method, reply)
    BY <2>3 DEF Answer
  <2>5. reply \in Spellings(method, c)
    BY <1>1, <2>4, RefusalsFail
  <2>6. method \in DOMAIN Entry
    BY <1>1, <2>1 DEF HandleInv, CallIsKnown, Called
  <2>7. c \in 0 .. W - 1
    <3>1. caller[t].since \in Nat /\ clock \in 0 .. LastClock
      BY <1>1 DEF HandleInv, TypeOK, Callers
    <3> QED
      BY <3>1, HandleAssumption DEF During, W
  <2>8. ButForBreakpoints(AnswerTo(method, reply).rows) = ButForBreakpoints(Meant(method, c))
    <3>1. method \notin Misread
      BY <1>1, <2>1 DEF ParsingIsExact
    <3>2. AnswerTo(method, reply).ok
      BY <1>1, <2>4
    <3> HIDE DEF method
    <3> QED
      BY <2>5, <2>6, <2>7, <3>1, <3>2 DEF Misread
  <2> QED
    BY <2>4, <2>8
<1> DEFINE Current(t) ==
      (Receives(t) /\ Answer(t).ok) =>
        \E c \in During(t) :
          ButForBreakpoints(Answer(t).rows) = ButForBreakpoints(Meant(caller[t].method, c))
<1>2. HandleInv /\ ParsingIsExact => \A t \in Thread : Current(t)
  BY <1>1
<1>3. HandleInv /\ ParsingIsExact /\ [Next]_vars => [\A t \in Thread : Current(t)]_vars
  BY <1>2
<1> QED
  BY <1>3, HandleCorrect, PTL DEF Spec, AnswersAreCurrent

=============================================================================
