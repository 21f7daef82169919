--------------------------- MODULE MCClientEngine ---------------------------
(***************************************************************************)
(* Instances of ClientEngine for TLC: what the peer may send in one piece. *)
(***************************************************************************)
EXTENDS ClientEngine

\* Whole answers of every status, answers cut in a line or a body, two
\* answers in one piece, and lines no head parser accepts.
AnswerChunks ==
  { <<"201", "LF">>, <<"200", "CR", "LF">>, <<"4xx", "LF", "200", "LF">>,
    <<"202", "LF">>, <<"LF", "dot", "LF">>,
    <<"203", "LF", "200", "LF">>, <<"text">>,
    <<"204", "LF">>, <<"unknown", "LF">>, <<"nonutf8", "LF">> }

=============================================================================
