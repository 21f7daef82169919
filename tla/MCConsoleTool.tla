--------------------------- MODULE MCConsoleTool ---------------------------
(***************************************************************************)
(* Command lines and file systems for TLC.                                 *)
(***************************************************************************)
EXTENDS ConsoleTool

Plain(command) ==
  [command |-> command, path |-> << >>, recursive |-> FALSE, range |-> "none",
   depth |-> 0, files |-> TRUE, timed |-> FALSE, capture |-> FALSE]

\* Every subcommand; tree and get with each of their options.
EveryCommand ==
  {Plain(command) : command \in Commands \ (Uploads \cup {"get"})}
    \cup {[Plain(command) EXCEPT !.path = <<1, 2>>] : command \in Uploads}
    \cup {[Plain("tree") EXCEPT !.path = <<1>>, !.depth = d, !.files = f] :
            d \in {0, 1, 2}, f \in BOOLEAN}
    \cup {[Plain("get") EXCEPT !.path = <<1>>, !.recursive = r, !.range = g] :
            r \in BOOLEAN, g \in {"none", "one"}}
    \cup {[Plain("get") EXCEPT !.path = <<1, 1>>, !.range = g] : g \in {"none", "one", "both"}}
    \cup {[Plain("pix-notify") EXCEPT !.timed = TRUE]}
    \cup {[Plain(command) EXCEPT !.capture = TRUE] : command \in {"ping", "reboot"}}

\* A drive with a file, an empty directory, and a directory with a file and a
\* directory that has one too; and two drives, one of them the flash.
TwoFileSystems ==
  { (<<1>> :> Dir) @@ (<<1, 1>> :> Dir) @@ (<<1, 2>> :> 1) @@ (<<1, 3>> :> Dir)
      @@ (<<1, 1, 1>> :> 1) @@ (<<1, 1, 2>> :> Dir) @@ (<<1, 1, 2, 1>> :> 1),
    (<<0>> :> Dir) @@ (<<1>> :> Dir) @@ (<<1, 1>> :> 1) }
=============================================================================
