---------------------------- MODULE DiscoveryCore ----------------------------
(***************************************************************************)
(* The value held by a Discovery (discovery/engine.rs) and what poll and   *)
(* handle_inbound do to it: the clock-free state machine that sends NAP    *)
(* requests over UDP, retransmits them and collects the replies.           *)
(*                                                                         *)
(* Time is counted in ticks from the construction of the machine.          *)
(***************************************************************************)
EXTENDS Integers, Sequences

CONSTANTS
  Source,        \* addresses a datagram may come from
  Name,          \* names a console may answer with
  WantedName,    \* the name a lookup asks for
  ListenFor,     \* DiscoveryConfig.listen_for
  Retransmits,   \* DiscoveryConfig.retransmits
  Interval       \* DiscoveryConfig.retransmit_interval

ASSUME ConfigAssumption ==
  /\ WantedName \in Name /\ "malformed" \notin Name
  /\ ListenFor \in Nat /\ Retransmits \in Nat /\ Interval \in Nat

\* What a datagram parses to.
Reply    == Name \cup {"malformed"}
Datagram == [src : Source, reply : Reply]
Found    == [name : Name, addr : Source]

Filter == {"All", "StopOnName"}

NoSend == -1

Machine == [nextSend : Nat \cup {NoSend}, sendsLeft : Nat, seen : SUBSET Source,
            discovered : Seq(Found), filter : Filter, completed : BOOLEAN]

NewDiscovery(filter) ==
  [nextSend |-> 0, sendsLeft |-> Retransmits + 1, seen |-> {},
   discovered |-> <<>>, filter |-> filter, completed |-> FALSE]

-----------------------------------------------------------------------------
(* poll: what the caller is told to do, and what that does to the machine. *)

\* Mutant: the deadline is forgotten.
FinishedByMatchOnly(d, now) == d.completed

Finished(d, now) == d.completed \/ now >= ListenFor

\* Mutant: a send due right now has to wait.
SendDueStrictly(d, now) == d.nextSend # NoSend /\ d.nextSend < now

SendDue(d, now) == d.nextSend # NoSend /\ d.nextSend <= now

Until(d) ==
  IF d.nextSend # NoSend /\ d.nextSend < ListenFor THEN d.nextSend ELSE ListenFor

TakeDiscovered(d) == [d EXCEPT !.discovered = <<>>]

\* Mutant: spacing counts from the planned time, not from the send.
CountSendCatchesUp(d, now) ==
  [d EXCEPT !.sendsLeft = @ - 1,
            !.nextSend  = IF d.sendsLeft > 1 THEN @ + Interval ELSE NoSend]

CountSend(d, now) ==
  [d EXCEPT !.sendsLeft = @ - 1,
            !.nextSend  = IF d.sendsLeft > 1 THEN now + Interval ELSE NoSend]

-----------------------------------------------------------------------------
(* handle_inbound. *)

\* Mutant: a lookup keeps any name.
KeepsAnyName(d, reply) == reply # "malformed"

Keeps(d, reply) ==
  /\ reply # "malformed"
  /\ d.filter = "StopOnName" => reply = WantedName

\* Mutant: only a reply that is kept marks its source as seen.
HandleInboundMarksKept(d, dg) ==
  IF dg.src \in d.seen \/ ~ Keeps(d, dg.reply) THEN d
  ELSE [d EXCEPT !.seen = @ \cup {dg.src},
                 !.completed = @ \/ d.filter = "StopOnName",
                 !.discovered = Append(@, [name |-> dg.reply, addr |-> dg.src])]

\* The source is marked as seen before its datagram is looked at.
HandleInbound(d, dg) ==
  IF dg.src \in d.seen THEN d
  ELSE IF ~ Keeps(d, dg.reply) THEN [d EXCEPT !.seen = @ \cup {dg.src}]
  ELSE [d EXCEPT !.seen = @ \cup {dg.src},
                 !.completed = @ \/ d.filter = "StopOnName",
                 !.discovered = Append(@, [name |-> dg.reply, addr |-> dg.src])]

-----------------------------------------------------------------------------
(* Reference: what a machine that was handed these datagrams has accepted. *)

\* The first datagram of each source, in order of arrival, if it is kept.
Accepted(filter, handed) ==
  LET First(i) == \A j \in 1 .. i - 1 : handed[j].src # handed[i].src
      upTo[n \in 0 .. Len(handed)] ==
        IF n = 0 THEN <<>>
        ELSE IF First(n) /\ Keeps([filter |-> filter], handed[n].reply)
             THEN Append(upTo[n-1], [name |-> handed[n].reply, addr |-> handed[n].src])
             ELSE upTo[n-1]
  IN upTo[Len(handed)]
=============================================================================
