--------------------------- MODULE DrivemapState ---------------------------
(***************************************************************************)
(* A console whose drive is being mapped: its memory, how far the calls of *)
(* enable (commands/dangerous/drivemap.rs) have come, and what enable      *)
(* promises of the two.                                                    *)
(***************************************************************************)
EXTENDS Integers

CONSTANTS
  Tool,      \* processes that may call enable on this console
  MaxRuns,   \* bound on the calls of enable
  Faults     \* the kinds of steps that may fail

ASSUME DrivemapAssumption ==
  MaxRuns \in Nat /\ Faults \subseteq {"read", "write", "connect", "kill"}

VARIABLES
  handler,     \* what the altaddr entry points at: "altaddr" or "drivemap_fn"
  flag,        \* the "drivemap internal" word
  registered,  \* how often the drive-mapping routine has run
  pc,          \* how far each tool's call of enable has come
  saw,         \* current_handler, as the tool's discover read it
  runs,        \* history: calls of enable
  trouble,     \* history: has a step failed, or a tool been killed?
  overlapped   \* history: has a call begun while another was under way?

\* pc names the step of the call done last, or "idle".
Over == {"idle", "skipped", "enabled", "failed"}

Quiet == \A t \in Tool : pc[t] \in Over

-----------------------------------------------------------------------------
(* What enable promises. *)

\* "a hung invoke can't strand the console with altaddr pointing at
\* drivemap_fn" (enable): as long as every step but the invocation succeeds,
\* the handler is back whenever no call is under way, unless calls overlapped
\* and one read the hijack of another as the original.
HungInvokeCannotStrand ==
  Quiet /\ ~ trouble =>
    handler = "altaddr" \/ (overlapped /\ \E t \in Tool : saw[t] = "drivemap_fn")

\* The flag is the last thing touched: of calls that follow one another it is
\* never up while the handler is still hijacked.
FlagAfterRestore == flag = 1 /\ ~ trouble /\ ~ overlapped => handler = "altaddr"

\* "make double-invocation a no-op" (enable): with nothing failing, no
\* number of calls that follow one another runs the routine twice.
RegisteredOnce == ~ trouble /\ ~ overlapped => registered <= 1

\* A call that none overlaps reports success only with the handler it found
\* back in place, even when writes are lost: the read-back is not for show.
SuccessMeansRestored ==
  [][\A t \in Tool : pc[t] # "enabled" /\ pc'[t] = "enabled" /\ ~ overlapped =>
       handler' = saw[t]]_pc
=============================================================================
