------------------------- MODULE DiscoveryRunProofs -------------------------
(***************************************************************************)
(* Theorems about drive, for all sets of sources and names, every          *)
(* configuration and every network.                                        *)
(*                                                                         *)
(* drive is one of the callers of Discovery, so what is proved of those    *)
(* (DiscoveryProofs) holds of it; what a lookup returns needs the order in *)
(* which drive polls and receives on top of that.                          *)
(***************************************************************************)
EXTENDS DiscoveryRun, SequenceTheorems, TLAPS

P == INSTANCE DiscoveryProofs WITH
         handed <- heard, yielded <- result,
         dones <- IF runner = "returned" THEN 1 ELSE 0,
         MaxHanded <- MaxHeard, MaxDones <- 1

LEMMA CallerAssumptions == P!ConfigAssumption /\ P!BoundAssumption
BY ConfigAssumption, RunAssumption DEF P!ConfigAssumption, P!BoundAssumption

\* The two instances of Discovery say the same.
LEMMA SameCaller ==
  /\ P!Init <=> Caller!Init
  /\ P!Next <=> Caller!Next
  /\ P!vars = Caller!vars
<1>1. P!vars = Caller!vars
  BY DEF P!vars, Caller!vars
<1>2. P!Init <=> Caller!Init
  BY DEF P!Init, Caller!Init, P!NewDiscovery, Caller!NewDiscovery, P!Filter, Caller!Filter
<1>3. P!PollDone <=> Caller!PollDone
  BY DEF P!PollDone, Caller!PollDone, P!Finished, Caller!Finished, P!TakeDiscovered,
         Caller!TakeDiscovered
<1>4. P!PollSend <=> Caller!PollSend
  BY DEF P!PollSend, Caller!PollSend, P!Finished, Caller!Finished, P!SendDue,
         Caller!SendDue, P!CountSend, Caller!CountSend, P!NoSend, Caller!NoSend
<1>5. P!Inbound <=> Caller!Inbound
  BY DEF P!Inbound, Caller!Inbound, P!HandleInbound, Caller!HandleInbound, P!Keeps,
         Caller!Keeps, P!Datagram, Caller!Datagram, P!Reply, Caller!Reply
<1>6. P!Tick <=> Caller!Tick
  BY DEF P!Tick, Caller!Tick
<1> QED
  BY <1>1, <1>2, <1>3, <1>4, <1>5, <1>6 DEF P!Next, Caller!Next

-----------------------------------------------------------------------------
(* drive is a caller of Discovery. *)

NetInv ==
  /\ net \subseteq Datagram
  /\ runner \in {"polling", "waiting", "returned"}
  /\ runner # "returned" => result = <<>>
  /\ runner = "returned" => machine.discovered = <<>>

\* A lookup polls after every datagram, so it waits only with nothing found.
LookupInv ==
  machine.filter = "StopOnName" /\ runner # "returned" =>
    /\ \A i \in 1 .. Len(machine.discovered) : machine.discovered[i].name = WantedName
    /\ IF machine.completed THEN Len(machine.discovered) = 1
       ELSE Len(machine.discovered) = 0
    /\ runner = "waiting" => Len(machine.discovered) = 0

RunInv == P!DiscoveryInv /\ NetInv /\ LookupInv /\ LookupIsExact

LEMMA Types ==
  ASSUME P!DiscoveryInv
  PROVE  /\ machine \in Machine /\ now \in Nat
         /\ heard \in Seq(Datagram) /\ sends \in Seq(Nat) /\ result \in Seq(Found)
         /\ machine.discovered \in Seq(Found) /\ Len(machine.discovered) \in Nat
<1>1. /\ machine \in Machine /\ now \in Nat
      /\ heard \in Seq(Datagram) /\ sends \in Seq(Nat) /\ result \in Seq(Found)
  BY DEF P!DiscoveryInv, P!TypeOK, P!Machine, Machine, P!Found, Found, P!Datagram, Datagram,
         P!Reply, Reply, P!Filter, Filter, P!NoSend, NoSend
<1>2. machine.discovered \in Seq(Found)
  BY <1>1 DEF Machine
<1> QED
  BY <1>1, <1>2

LEMMA InitMaps == Init => P!Init
<1> SUFFICES ASSUME Init PROVE P!Init
  OBVIOUS
<1>1. PICK filter \in Filter : machine = NewDiscovery(filter)
  BY DEF Init
<1>2. runner # "returned"
  BY DEF Init
<1> QED
  BY <1>1, <1>2 DEF Init, P!Init, NewDiscovery, P!NewDiscovery, Filter, P!Filter

\* Every step of drive, of the network and of the clock is a step the caller
\* of a Discovery may take, or none at all.
LEMMA StepMaps == P!DiscoveryInv /\ NetInv /\ [Next]_vars => [P!Next]_(P!vars)
<1> SUFFICES ASSUME P!DiscoveryInv, NetInv, [Next]_vars PROVE [P!Next]_(P!vars)
  OBVIOUS
<1>0. result \in Seq(Found) /\ machine.discovered \in Seq(Found) /\ heard \in Seq(Datagram)
  BY Types
<1>1. CASE Return
  <2>1. result = <<>> /\ result' = result \o machine.discovered
    BY <1>0, <1>1 DEF Return, NetInv
  <2>2. runner # "returned" /\ runner' = "returned"
    BY <1>1 DEF Return
  <2>3. P!PollDone
    BY <1>1, <2>1, <2>2 DEF Return, P!PollDone, P!Finished, Finished, P!TakeDiscovered,
       TakeDiscovered
  <2> QED
    BY <2>3 DEF P!Next
<1>2. CASE SendRequest
  <2>1. P!PollSend
    BY <1>2 DEF SendRequest, P!PollSend, P!Finished, Finished, P!SendDue, SendDue,
       P!CountSend, CountSend, P!NoSend, NoSend
  <2> QED
    BY <2>1 DEF P!Next
<1>3. CASE Wait \/ TimerFires \/ ReceiveFails
  BY <1>3 DEF Wait, TimerFires, ReceiveFails, P!vars
<1>4. CASE Receive
  <2>1. PICK dg \in net : machine' = HandleInbound(machine, dg) /\ heard' = Append(heard, dg)
    BY <1>4 DEF Receive
  <2>2. dg \in P!Datagram
    BY <2>1 DEF NetInv, P!Datagram, Datagram, P!Reply, Reply
  <2>3. machine' = P!HandleInbound(machine, dg)
    BY <2>1 DEF HandleInbound, P!HandleInbound, Keeps, P!Keeps
  <2>4. runner # "returned" /\ runner' # "returned" /\ Len(heard) < MaxHeard
        /\ UNCHANGED <<now, sends, result>>
    BY <1>4 DEF Receive
  <2>5. P!Inbound
    BY <2>1, <2>2, <2>3, <2>4, Zenon DEF P!Inbound
  <2> QED
    BY <2>5 DEF P!Next
<1>5. CASE StrayArrives \/ Lose
  BY <1>5 DEF StrayArrives, Lose, P!vars
<1>6. CASE Tick
  BY <1>6 DEF Tick, P!Tick, P!Next
<1>7. CASE UNCHANGED vars
  BY <1>7 DEF vars, P!vars
<1> QED
  BY <1>1, <1>2, <1>3, <1>4, <1>5, <1>6, <1>7 DEF Next, RunnerStep

LEMMA NetStep == NetInv /\ [Next]_vars => NetInv'
<1> SUFFICES ASSUME NetInv, [Next]_vars PROVE NetInv'
  OBVIOUS
<1> USE DEF NetInv
<1>1. CASE Return
  BY <1>1 DEF Return, TakeDiscovered
<1>2. CASE SendRequest
  <2>1. PICK reached \in SUBSET Source :
          net' = net \cup {[src |-> s, reply |-> NameOf[s]] : s \in reached}
    BY <1>2 DEF SendRequest
  <2>2. \A s \in reached : [src |-> s, reply |-> NameOf[s]] \in Datagram
    BY <2>1, RunAssumption DEF Datagram, Reply
  <2> QED
    BY <1>2, <2>1, <2>2 DEF SendRequest
<1>3. CASE Wait \/ TimerFires \/ ReceiveFails \/ Receive
  BY <1>3 DEF Wait, TimerFires, ReceiveFails, Receive
<1>4. CASE StrayArrives \/ Lose \/ Tick
  BY <1>4, RunAssumption DEF StrayArrives, Lose, Tick
<1>5. CASE UNCHANGED vars
  BY <1>5 DEF vars
<1> QED
  BY <1>1, <1>2, <1>3, <1>4, <1>5 DEF Next, RunnerStep

LEMMA LookupStep ==
  P!DiscoveryInv /\ NetInv /\ LookupInv /\ LookupIsExact /\ [Next]_vars =>
    LookupInv' /\ LookupIsExact'
<1> SUFFICES ASSUME P!DiscoveryInv, NetInv, LookupInv, LookupIsExact, [Next]_vars
             PROVE  LookupInv' /\ LookupIsExact'
  OBVIOUS
<1>0. machine \in Machine /\ now \in Nat /\ machine.discovered \in Seq(Found)
      /\ Len(machine.discovered) \in Nat
  BY Types
<1>1. CASE Return
  <2>1. runner = "polling" /\ Finished(machine, now) /\ result' = machine.discovered
        /\ runner' = "returned" /\ UNCHANGED now /\ machine' = TakeDiscovered(machine)
    BY <1>1 DEF Return
  <2>2. machine'.filter = machine.filter
    BY <1>0, <2>1 DEF TakeDiscovered, Machine
  <2>3. now < ListenFor => machine.completed
    BY <1>0, <2>1, RunAssumption, ConfigAssumption DEF Finished
  <2> QED
    BY <1>0, <2>1, <2>2, <2>3 DEF LookupInv, LookupIsExact
<1>2. CASE SendRequest
  <2>1. machine'.filter = machine.filter /\ machine'.discovered = machine.discovered
        /\ machine'.completed = machine.completed
    BY <1>0, <1>2 DEF SendRequest, CountSend, Machine
  <2> QED
    BY <1>2, <2>1 DEF SendRequest, LookupInv, LookupIsExact
<1>3. CASE Wait
  <2>1. ~ machine.completed
    BY <1>3 DEF Wait, Finished
  <2> QED
    BY <1>0, <1>3, <2>1 DEF Wait, LookupInv, LookupIsExact
<1>4. CASE Receive
  <2>1. PICK dg \in net : machine' = HandleInbound(machine, dg)
    BY <1>4 DEF Receive
  <2>2. runner = "waiting" /\ runner' = "polling"
    BY <1>4 DEF Receive
  <2>3. machine'.filter = machine.filter
    BY <1>0, <2>1 DEF HandleInbound, Machine
  <2>4. SUFFICES ASSUME machine.filter = "StopOnName" PROVE LookupInv'
    BY <2>2, <2>3 DEF LookupInv, LookupIsExact
  <2>5. Len(machine.discovered) = 0 /\ ~ machine.completed
    <3>1. Len(machine.discovered) = 0 /\ 0 # 1
      BY <2>2, <2>4 DEF LookupInv
    <3>2. IF machine.completed THEN Len(machine.discovered) = 1
          ELSE Len(machine.discovered) = 0
      BY <2>2, <2>4, Zenon DEF LookupInv
    <3> QED
      BY <3>1, <3>2, Zenon
  <2>6. CASE dg.src \in machine.seen \/ ~ Keeps(machine, dg.reply)
    <3>1. machine'.discovered = machine.discovered /\ machine'.completed = machine.completed
      BY <1>0, <2>1, <2>6 DEF HandleInbound, Machine
    <3> QED
      BY <2>2, <2>5, <3>1 DEF LookupInv
  <2>7. CASE dg.src \notin machine.seen /\ Keeps(machine, dg.reply)
    <3> DEFINE found == [name |-> dg.reply, addr |-> dg.src]
    <3>1. dg.reply = WantedName
      BY <2>4, <2>7 DEF Keeps
    <3>2. machine'.discovered = Append(machine.discovered, found) /\ machine'.completed = TRUE
      BY <1>0, <2>1, <2>4, <2>7 DEF HandleInbound, Machine
    <3>3. found.name = WantedName /\ found \in Found
      BY <2>1, <3>1, ConfigAssumption DEF Found, NetInv, Datagram
    <3> HIDE DEF found
    <3>4. Len(machine'.discovered) = 1 /\ machine'.discovered[1] = found
      BY <1>0, <2>5, <3>2, <3>3, AppendProperties
    <3> QED
      BY <2>2, <3>2, <3>3, <3>4 DEF LookupInv
  <2> QED
    BY <2>6, <2>7
<1>5. CASE TimerFires \/ ReceiveFails
  BY <1>5 DEF TimerFires, ReceiveFails, LookupInv, LookupIsExact
<1>6. CASE StrayArrives \/ Lose
  BY <1>6 DEF StrayArrives, Lose, LookupInv, LookupIsExact
<1>7. CASE Tick
  BY <1>0, <1>7, ConfigAssumption DEF Tick, LookupInv, LookupIsExact
<1>8. CASE UNCHANGED vars
  BY <1>8 DEF vars, LookupInv, LookupIsExact
<1> QED
  BY <1>1, <1>2, <1>3, <1>4, <1>5, <1>6, <1>7, <1>8 DEF Next, RunnerStep

-----------------------------------------------------------------------------

LEMMA Invariance == Spec => []RunInv
<1>1. Init => RunInv
  <2>1. Init => P!DiscoveryInv
    BY InitMaps, CallerAssumptions, P!InitInv
  <2>2. Init => NetInv /\ LookupInv /\ LookupIsExact
    BY DEF Init, NetInv, LookupInv, LookupIsExact, NewDiscovery
  <2> QED
    BY <2>1, <2>2 DEF RunInv
<1>2. RunInv /\ [Next]_vars => RunInv'
  <2>1. RunInv /\ [Next]_vars => P!DiscoveryInv'
    BY StepMaps, CallerAssumptions, P!StepInv DEF RunInv
  <2> QED
    BY <2>1, NetStep, LookupStep DEF RunInv
<1> QED
  BY <1>1, <1>2, PTL DEF Spec

\* drive uses a Discovery as callers may (discovery/runner.rs): whatever is
\* proved of those, NothingLostOrRepeated and BudgetKept, holds of drive.
THEOREM DriveIsACaller == Spec => ImplementsDiscovery
<1>1. Init => Caller!Init
  BY InitMaps, SameCaller
<1>2. RunInv /\ [Next]_vars => [Caller!Next]_(Caller!vars)
  <2>1. RunInv /\ [Next]_vars => P!Next \/ P!vars' = P!vars
    BY StepMaps DEF RunInv
  <2>2. P!vars' = P!vars <=> Caller!vars' = Caller!vars
    BY DEF P!vars, Caller!vars
  <2> QED
    BY <2>1, <2>2, SameCaller
<1> QED
  BY <1>1, <1>2, Invariance, PTL DEF Spec, ImplementsDiscovery, Caller!Spec

\* What drive returns is what came in, whatever UDP repeated or reordered
\* (discovery/runner.rs).
THEOREM DriveIsExact == Spec => []ReturnsWhatItHeard
<1>1. RunInv => ReturnsWhatItHeard
  <2> SUFFICES ASSUME RunInv, runner = "returned" PROVE result = Accepted(machine.filter, heard)
    BY DEF ReturnsWhatItHeard
  <2>1. result \in Seq(Found) /\ machine.discovered = <<>>
    BY Types DEF RunInv, NetInv
  <2>2. result \o machine.discovered = P!Accepted(machine.filter, heard)
    BY DEF RunInv, P!DiscoveryInv, P!AcceptedOnce
  <2>3. P!Accepted(machine.filter, heard) = Accepted(machine.filter, heard)
    BY DEF P!Accepted, Accepted, P!Keeps, Keeps
  <2> QED
    BY <2>1, <2>2, <2>3, ConcatEmptySeq
<1> QED
  BY <1>1, Invariance, PTL

\* A lookup returns one console at most, of the wanted name, and nothing only
\* when time is up (StopOnName, discovery/engine.rs, and the loop of drive).
THEOREM LookupReturnsOne == Spec => []LookupIsExact
<1>1. RunInv => LookupIsExact
  BY DEF RunInv
<1> QED
  BY <1>1, Invariance, PTL

\* drive never goes to sleep on a timer that is past (poll orders its send
\* branch before its wait branch for that, discovery/engine.rs).
THEOREM SleepIsAhead == Spec => SleepsAhead
<1>1. RunInv /\ [Next]_vars =>
        [runner = "polling" /\ runner' = "waiting" => until' > now /\ until' <= ListenFor]_vars
  <2> SUFFICES ASSUME RunInv, [Next]_vars, runner = "polling", runner' = "waiting"
               PROVE  until' > now /\ until' <= ListenFor
    OBVIOUS
  <2>1. machine \in Machine /\ now \in Nat
    BY Types DEF RunInv
  <2>2. Wait
    BY DEF Next, RunnerStep, Return, SendRequest, Receive, TimerFires, ReceiveFails,
       StrayArrives, Lose, Tick, vars
  <2>3. machine.nextSend \in Nat \cup {NoSend}
    BY <2>1 DEF Machine
  <2> QED
    BY <2>1, <2>2, <2>3, ConfigAssumption DEF Wait, Finished, SendDue, Until, NoSend
<1> QED
  BY <1>1, Invariance, PTL DEF Spec, SleepsAhead
=============================================================================
