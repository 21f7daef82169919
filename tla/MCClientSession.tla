-------------------------- MODULE MCClientSession --------------------------
(***************************************************************************)
(* Instances of ClientSession for TLC.                                     *)
(***************************************************************************)
EXTENDS ClientSession

\* The empty payload, and payloads that look like a response line.
TrickyBodies == { <<>>, <<"200", "LF">>, <<"text", "4xx">> }
=============================================================================
