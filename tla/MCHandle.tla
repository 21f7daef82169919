------------------------------ MODULE MCHandle ------------------------------
(***************************************************************************)
(* Who calls what, for TLC.                                                *)
(***************************************************************************)
EXTENDS Handle

\* One thread tries every entry point while the other asks for a few.
AllAndFew == [t \in Thread |->
  IF t = "t1" THEN DOMAIN Entry ELSE {"systime"}]

\* Only what tells why a thread is stopped.
StopsOnly == [t \in Thread |-> {"isstopped"}]
=============================================================================
