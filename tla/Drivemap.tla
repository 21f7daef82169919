------------------------------ MODULE Drivemap ------------------------------
(***************************************************************************)
(* enable (commands/dangerous/drivemap.rs): patch a console's running xbdm *)
(* so that a harmless command runs the drive-mapping routine, invoke it,   *)
(* and put everything back, over a connection the invocation wedges and a  *)
(* second one.  Several runs follow one another, or overlap when several   *)
(* tools target the console; any step may fail or be the last one a tool   *)
(* takes before it is killed.                                              *)
(*                                                                         *)
(* The console's memory is external: one handler pointer, one flag word,   *)
(* and how often the routine has run since boot.                           *)
(***************************************************************************)
EXTENDS DrivemapState

vars == <<handler, flag, registered, pc, saw, runs, trouble, overlapped>>
console == <<handler, flag, registered>>
history == <<runs, overlapped>>

Init ==
  /\ handler = "altaddr"
  /\ flag = 0
  /\ registered = 0
  /\ pc = [t \in Tool |-> "idle"]
  /\ saw = [t \in Tool |-> "altaddr"]
  /\ runs = 0
  /\ trouble = FALSE
  /\ overlapped = FALSE

-----------------------------------------------------------------------------

Advances(t, step) == pc' = [pc EXCEPT ![t] = step]

\* The ? operator: any failed await makes enable return.
Fails(t, kind) == kind \in Faults /\ trouble' = TRUE /\ Advances(t, "failed")

\* write_u32_be: setmem reports how many bytes it wrote and nobody looks, so
\* a write can be lost and still look done; it can also be done and look lost.
Write(t, done, step) ==
  \/ done /\ Advances(t, step) /\ UNCHANGED trouble
  \/ "write" \in Faults /\ UNCHANGED console /\ Advances(t, step) /\ trouble' = TRUE
  \/ done /\ Fails(t, "write")
  \/ UNCHANGED console /\ Fails(t, "write")

\* discover reads the entry and finds it only if the pointer is in .text.
Discover(t) ==
  /\ pc[t] \in Over /\ runs < MaxRuns
  /\ runs' = runs + 1
  /\ overlapped' = (overlapped \/ ~ Quiet)
  /\ saw' = [saw EXCEPT ![t] = handler]
  /\ Advances(t, "discovered")
  /\ UNCHANGED <<console, trouble>>

\* Mutant: the flag is read and not used.
CheckFlagIgnored(t) ==
  /\ pc[t] = "discovered"
  /\ Advances(t, "checked")
  /\ UNCHANGED <<console, saw, history, trouble>>

\* A set flag ends the call; so would a handler outside .text, which discover
\* never returns.
CheckFlag(t) ==
  /\ pc[t] = "discovered"
  /\ \/ Advances(t, IF flag # 0 THEN "skipped" ELSE "checked") /\ UNCHANGED trouble
     \/ Fails(t, "read")
  /\ UNCHANGED <<console, saw, history>>

Hijack(t) ==
  /\ pc[t] = "checked"
  /\ Write(t, handler' = "drivemap_fn" /\ UNCHANGED <<flag, registered>>, "hijacked")
  /\ UNCHANGED <<saw, history>>

\* Mutant: a wedged invocation ends the call.
InvokeMayFail(t) ==
  /\ pc[t] = "hijacked"
  /\ registered' = registered + (IF handler = "drivemap_fn" THEN 1 ELSE 0)
  /\ Advances(t, "failed")
  /\ UNCHANGED <<handler, flag, saw, history, trouble>>

\* The outcome of the invocation is ignored: it answers, wedges until the
\* timeout, or never reaches the console.
Invoke(t) ==
  /\ pc[t] = "hijacked"
  /\ \/ registered' = registered + (IF handler = "drivemap_fn" THEN 1 ELSE 0)
     \/ UNCHANGED registered
  /\ Advances(t, "invoked")
  /\ UNCHANGED <<handler, flag, saw, history, trouble>>

Reconnect(t) ==
  /\ pc[t] = "invoked"
  /\ \/ Advances(t, "reconnected") /\ UNCHANGED trouble
     \/ Fails(t, "connect")
  /\ UNCHANGED <<console, saw, history>>

Restore(t) ==
  /\ pc[t] = "reconnected"
  /\ Write(t, handler' = saw[t] /\ UNCHANGED <<flag, registered>>, "restored")
  /\ UNCHANGED <<saw, history>>

\* Mutant: what is read back is not compared.
VerifyNothing(t) ==
  /\ pc[t] = "restored"
  /\ Advances(t, "verified")
  /\ UNCHANGED <<console, saw, history, trouble>>

\* Mutant: the comparison is repeated until it holds.
VerifyUntilEqual(t) ==
  /\ pc[t] = "restored" /\ handler = saw[t]
  /\ Advances(t, "verified")
  /\ UNCHANGED <<console, saw, history, trouble>>

\* Read back, or RestoreMismatch.
Verify(t) ==
  /\ pc[t] = "restored"
  /\ \/ handler = saw[t] /\ Advances(t, "verified") /\ UNCHANGED trouble
     \/ handler # saw[t] /\ Advances(t, "failed") /\ UNCHANGED trouble
     \/ Fails(t, "read")
  /\ UNCHANGED <<console, saw, history>>

\* Mutant: the flag is set as soon as there is a connection.
SetFlagFirst(t) ==
  /\ pc[t] = "reconnected" /\ flag = 0
  /\ flag' = 1
  /\ UNCHANGED <<handler, registered, pc, saw, history, trouble>>

SetFlag(t) ==
  /\ pc[t] = "verified"
  /\ Write(t, flag' = 1 /\ UNCHANGED <<handler, registered>>, "enabled")
  /\ UNCHANGED <<saw, history>>

\* The process ends, or the future is dropped.
Killed(t) ==
  /\ pc[t] \notin Over
  /\ Fails(t, "kill")
  /\ UNCHANGED <<console, saw, history>>

Proceed(t) ==
  \/ CheckFlag(t) \/ Hijack(t) \/ Invoke(t) \/ Reconnect(t)
  \/ Restore(t) \/ Verify(t) \/ SetFlag(t)

Next == \E t \in Tool : Discover(t) \/ Proceed(t) \/ Killed(t)

\* Calls may overlap: nothing in the code keeps two tools apart.
Spec == Init /\ [][Next]_vars

\* A call that was started is polled; nothing makes a tool start one.
FairSpec == Spec /\ \A t \in Tool : WF_vars(Proceed(t))

-----------------------------------------------------------------------------
\* Every call ends, also one whose restore did not take.
CallsEnd == \A t \in Tool : pc[t] \notin Over ~> pc[t] \in Over

-----------------------------------------------------------------------------
(* What the documentation claims beyond that. *)

\* "the patch is reversed even on error" (drivemap.rs, module documentation),
\* at the latest by the next call that reports success: false of an error
\* between the patch and its repair.  The next call takes what it finds for the
\* original, since drivemap_fn lies in .text like any handler, and restores that.
PatchReversed ==
  Quiet /\ (\E t \in Tool : pc[t] = "enabled") => handler = "altaddr"
=============================================================================
