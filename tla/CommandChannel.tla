--------------------------- MODULE CommandChannel ---------------------------
(***************************************************************************)
(* What a ClientEngine promises its caller, without bytes, lines or        *)
(* buffers: a channel that opens once, carries one command at a time,      *)
(* answers each at most once, lends itself out while a body is streamed,   *)
(* and may die at any moment, for good.                                    *)
(***************************************************************************)
EXTENDS Integers

VARIABLES
  phase,      \* what the channel can be used for
  asked,      \* commands accepted
  answered    \* answers given

channelVars == <<phase, asked, answered>>

Phase == {"opening", "ready", "busy", "lent", "dead"}

Init == phase = "opening" /\ asked = 0 /\ answered = 0

Open ==
  /\ phase = "opening"
  /\ phase' = "ready"
  /\ UNCHANGED <<asked, answered>>

Ask ==
  /\ phase = "ready"
  /\ phase' = "busy"
  /\ asked' = asked + 1
  /\ UNCHANGED answered

\* The answer to the command in flight; a body that follows is lent out.
Answer ==
  /\ phase = "busy"
  /\ phase' \in {"ready", "lent"}
  /\ answered' = answered + 1
  /\ UNCHANGED asked

Return ==
  /\ phase = "lent"
  /\ phase' = "ready"
  /\ UNCHANGED <<asked, answered>>

Die ==
  /\ phase # "dead"
  /\ phase' = "dead"
  /\ UNCHANGED <<asked, answered>>

Next == Open \/ Ask \/ Answer \/ Return \/ Die

Spec == Init /\ [][Next]_channelVars
=============================================================================
