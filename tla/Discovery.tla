------------------------------ MODULE Discovery ------------------------------
(***************************************************************************)
(* A Discovery in the hands of an arbitrary caller: poll and               *)
(* handle_inbound in any order, at any time, also after Done.  The type is *)
(* public and the module documentation invites callers to bring their own  *)
(* socket, so nothing here assumes the discipline of the tokio runner.     *)
(***************************************************************************)
EXTENDS DiscoveryCore

CONSTANTS
  MaxNow,      \* bound on the clock
  MaxHanded,   \* bound on the datagrams handed in
  MaxDones     \* bound on the number of Done results

ASSUME BoundAssumption == MaxNow \in Nat /\ MaxHanded \in Nat /\ MaxDones \in Nat

VARIABLES
  machine,
  now,
  handed,    \* history: the datagrams handed to handle_inbound
  sends,     \* history: when SendDatagram was returned
  yielded,   \* history: what Done has returned, in one list
  dones      \* history: how often it was returned

vars == <<machine, now, handed, sends, yielded, dones>>

Init ==
  /\ \E filter \in Filter : machine = NewDiscovery(filter)
  /\ now = 0
  /\ handed = <<>>
  /\ sends = <<>>
  /\ yielded = <<>>
  /\ dones = 0

PollDone ==
  /\ Finished(machine, now)
  /\ dones < MaxDones
  /\ dones' = dones + 1
  /\ yielded' = yielded \o machine.discovered
  /\ machine' = TakeDiscovered(machine)
  /\ UNCHANGED <<now, handed, sends>>

\* A poll that returns Wait changes nothing.
PollSend ==
  /\ ~ Finished(machine, now) /\ SendDue(machine, now)
  /\ machine' = CountSend(machine, now)
  /\ sends' = Append(sends, now)
  /\ UNCHANGED <<now, handed, yielded, dones>>

Inbound ==
  \E dg \in Datagram :
    /\ Len(handed) < MaxHanded
    /\ machine' = HandleInbound(machine, dg)
    /\ handed' = Append(handed, dg)
    /\ UNCHANGED <<now, sends, yielded, dones>>

Tick ==
  /\ now < MaxNow
  /\ now' = now + 1
  /\ UNCHANGED <<machine, handed, sends, yielded, dones>>

Next == PollDone \/ PollSend \/ Inbound \/ Tick

Spec == Init /\ [][Next]_vars

-----------------------------------------------------------------------------

\* Nothing accepted is lost, repeated or reordered, whenever and however
\* often Done is taken: what was yielded and what is still held are together
\* the accepted first words of the sources heard.
AcceptedOnce == yielded \o machine.discovered = Accepted(machine.filter, handed)

\* Retransmits are budgeted and spaced: at most one send and Retransmits
\* more, each an Interval after the one before, none at or past the deadline,
\* however late or often poll is called.
SendsSpaced ==
  /\ Len(sends) + machine.sendsLeft = Retransmits + 1
  /\ \A i \in 1 .. Len(sends) :
       /\ sends[i] < ListenFor
       /\ i > 1 => sends[i] >= sends[i-1] + Interval

=============================================================================
