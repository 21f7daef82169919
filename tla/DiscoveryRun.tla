---------------------------- MODULE DiscoveryRun ----------------------------
(***************************************************************************)
(* discovery/runner.rs: drive polls a Discovery, sends what it asks for    *)
(* and waits for a datagram or a timer, until it is Done.  UDP may lose,   *)
(* duplicate, reorder and delay datagrams, a console may answer any number *)
(* of the requests it hears, and time passes between any two steps: a poll *)
(* may come long after the timer it waited for.                            *)
(***************************************************************************)
EXTENDS DiscoveryCore, FiniteSets

CONSTANTS
  NameOf,      \* the name of the console at each source
  Stray,       \* datagrams that may turn up though nobody asked
  MaxNow,      \* bound on the clock
  MaxHeard     \* bound on the datagrams received

ASSUME RunAssumption ==
  /\ NameOf \in [Source -> Name] /\ Stray \subseteq Datagram
  /\ MaxNow \in Nat /\ MaxNow >= ListenFor /\ MaxHeard \in Nat

VARIABLES
  machine,
  now,
  runner,    \* "polling", "waiting" (recv_from under timeout_at), "returned"
  until,     \* when the timer of the wait fires
  net,       \* datagrams on their way to the socket
  heard,     \* history: datagrams received, in order
  sends,     \* history: when a request was sent
  result     \* what drive returned

vars == <<machine, now, runner, until, net, heard, sends, result>>

Init ==
  /\ \E filter \in Filter : machine = NewDiscovery(filter)
  /\ now = 0
  /\ runner = "polling"
  /\ until = 0
  /\ net = {}
  /\ heard = <<>>
  /\ sends = <<>>
  /\ result = <<>>

-----------------------------------------------------------------------------
(* The three arms of the loop. *)

Return ==
  /\ runner = "polling" /\ Finished(machine, now)
  /\ result' = machine.discovered
  /\ machine' = TakeDiscovered(machine)
  /\ runner' = "returned"
  /\ UNCHANGED <<now, until, net, heard, sends>>

\* Mutant: the request is sent before it is asked whether time is up.
SendRequestLate ==
  /\ runner = "polling" /\ ~ machine.completed /\ SendDue(machine, now)
  /\ machine' = CountSend(machine, now)
  /\ sends' = Append(sends, now)
  /\ \E reached \in SUBSET Source :
       net' = net \cup {[src |-> s, reply |-> NameOf[s]] : s \in reached}
  /\ UNCHANGED <<now, runner, until, heard, result>>

\* A send that fails is logged and forgotten: nobody hears it.
SendRequest ==
  /\ runner = "polling" /\ ~ Finished(machine, now) /\ SendDue(machine, now)
  /\ machine' = CountSend(machine, now)
  /\ sends' = Append(sends, now)
  /\ \E reached \in SUBSET Source :
       net' = net \cup {[src |-> s, reply |-> NameOf[s]] : s \in reached}
  /\ UNCHANGED <<now, runner, until, heard, result>>

Wait ==
  /\ runner = "polling" /\ ~ Finished(machine, now) /\ ~ SendDue(machine, now)
  /\ runner' = "waiting"
  /\ until' = Until(machine)
  /\ UNCHANGED <<machine, now, net, heard, sends, result>>

\* A datagram is taken even when the timer has fired as well: timeout_at
\* polls recv_from first.
Receive ==
  /\ runner = "waiting" /\ Len(heard) < MaxHeard
  /\ \E dg \in net :
       /\ machine' = HandleInbound(machine, dg)
       /\ heard' = Append(heard, dg)
       /\ \/ net' = net \ {dg}
          \/ UNCHANGED net
  /\ runner' = "polling"
  /\ UNCHANGED <<now, until, sends, result>>

TimerFires ==
  /\ runner = "waiting" /\ now >= until
  /\ runner' = "polling"
  /\ UNCHANGED <<machine, now, until, net, heard, sends, result>>

\* recv_from may fail (an ICMP error, say): drive goes round the loop.
ReceiveFails ==
  /\ runner = "waiting"
  /\ runner' = "polling"
  /\ UNCHANGED <<machine, now, until, net, heard, sends, result>>

-----------------------------------------------------------------------------
(* The network and the clock (external). *)

StrayArrives ==
  /\ \E dg \in Stray : net' = net \cup {dg}
  /\ UNCHANGED <<machine, now, runner, until, heard, sends, result>>

Lose ==
  /\ \E dg \in net : net' = net \ {dg}
  /\ UNCHANGED <<machine, now, runner, until, heard, sends, result>>

Tick ==
  /\ now < MaxNow
  /\ now' = now + 1
  /\ UNCHANGED <<machine, runner, until, net, heard, sends, result>>

RunnerStep == Return \/ SendRequest \/ Wait \/ TimerFires

Next ==
  \/ RunnerStep \/ Receive \/ ReceiveFails
  \/ StrayArrives \/ Lose \/ Tick

Spec == Init /\ [][Next]_vars

\* The executor polls a ready task and time passes; datagrams owe nothing.
FairSpec == Spec /\ WF_vars(RunnerStep) /\ WF_vars(Tick)

-----------------------------------------------------------------------------

\* What drive returns is exactly what came in: the accepted first words of
\* the sources heard, in order, none twice however often UDP repeated it.
ReturnsWhatItHeard ==
  runner = "returned" => result = Accepted(machine.filter, heard)

\* A lookup returns one console at most and it has the name: drive polls
\* after every datagram, so no second match can get in.  It returns before
\* the deadline only with a match in hand.
LookupIsExact ==
  runner = "returned" /\ machine.filter = "StopOnName" =>
    /\ Len(result) <= 1
    /\ \A i \in 1 .. Len(result) : result[i].name = WantedName
    /\ now < ListenFor => Len(result) = 1

\* "Send branch fires first so a tied now == next_send_at ... doesn't
\* accidentally schedule a Wait that's already past" (poll): when drive goes
\* to sleep, it is on a timer that lies ahead, and not past the deadline.
SleepsAhead ==
  [][runner = "polling" /\ runner' = "waiting" =>
       until' > now /\ until' <= ListenFor]_vars

\* drive is one of the callers Discovery allows, each Done taken once: what is
\* promised to those, the budget and the spacing of the sends among it, holds
\* of drive, whatever its timers and the network do.
Caller == INSTANCE Discovery WITH
              handed <- heard, yielded <- result,
              dones <- IF runner = "returned" THEN 1 ELSE 0,
              MaxHanded <- MaxHeard, MaxDones <- 1

ImplementsDiscovery == Caller!Spec

\* drive returns, whatever is lost, repeated or late, and even if every
\* receive fails.
DriveReturns == <>(runner = "returned")
=============================================================================
