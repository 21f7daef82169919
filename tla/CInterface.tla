----------------------------- MODULE CInterface -----------------------------
(***************************************************************************)
(* The C interface (xeedee-ffi/src/lib.rs): what each entry point runs on  *)
(* the client and what its caller can read of the answer.  An answer is    *)
(* handed out as an opaque value; getters copy one field each, those of a  *)
(* list take an index and refuse one that is out of range.                 *)
(***************************************************************************)
EXTENDS TypedCommands

Min2(a, b) == IF a < b THEN a ELSE b

Nothing == [many |-> FALSE, getters |-> {}]
One(getters) == [many |-> FALSE, getters |-> getters]
Many(getters) == [many |-> TRUE, getters |-> getters]

XeedeeFileTime == One({"file_time"})
XeedeeStringList(of) == Many({of})
XeedeeNetAddrs == One({"name", "debug", "title"})
XeedeeDriveSpace == One({"free_to_caller", "total", "total_free"})
XeedeeDirEntries == Many({"name", "size", "create_time", "change_time", "directory"})
XeedeeFileAttributes == One({"size", "create_time", "change_time", "directory"})
XeedeeStopState == One({"reason", "address", "access", "code"})
XeedeeNotifyReply == One({"has_reconnect_port", "reconnect_port"})
XeedeeModules == Many({"name", "base", "size", "checksum", "timestamp", "pdata",
                       "psize", "thread", "osize", "dll", "tls", "xbe"})
XeedeeModuleSections == Many({"name", "base", "size", "index", "flags"})
XeedeeThreadIds == Many({"thread"})
XeedeeThreadDetail ==
  One({"suspend", "priority", "tls_base", "start", "base", "limit", "slack",
       "create_time", "name_address", "name_length", "processor", "last_error"})
XeedeeXbeInfo == One({"timestamp", "checksum", "name"})
XeedeePerfCounters == Many({"name", "kind"})
XeedeePerfCounterSample == One({"kind", "value", "rate"})
XeedeeSockets ==
  Many({"handle", "owner_type", "flags", "addr_family", "socket_type", "protocol",
        "local_addr", "remote_addr", "local_port", "remote_port", "tcp_state"})
XeedeeMemorySnapshot == Many({"data", "unmapped"})
XeedeeVirtualRegions == Many({"base", "size", "protect"})

\* What a C caller reads who asks for every field of every entry.
Read(container, rows) ==
  LET last == IF container = Nothing THEN 0 ELSE IF container.many THEN Len(rows) ELSE 1
  IN [i \in 1 .. Min2(last, Len(rows)) |->
        [name \in container.getters |-> rows[i][name]]]

Runs(command, container) == [command |-> command, container |-> container]

InfoCalls ==
  [dbgname |-> Runs(DbgNameGet, One({"name"})),
   set_dbgname |-> Runs(DbgNameSet, Nothing),
   systime |-> Runs(SysTime, XeedeeFileTime),
   dmversion |-> Runs(DmVersion, One({"version"})),
   consoletype |-> Runs(GetConsoleType, One({"type"})),
   consolefeatures |-> Runs(GetConsoleFeatures, XeedeeStringList("feature")),
   altaddr |-> Runs(AltAddr, One({"addr"})),
   getpid |-> Runs(GetPid, One({"pid"})),
   consolemem |-> Runs(GetConsoleMem, One({"class"})),
   getnetaddrs |-> Runs(GetNetAddrs, XeedeeNetAddrs),
   drivelist |-> Runs(DriveList, XeedeeStringList("drive"))]

FileCalls ==
  [drivefreespace |-> Runs(DriveFreeSpace, XeedeeDriveSpace),
   dirlist |-> Runs(DirList, XeedeeDirEntries),
   getfileattributes |-> Runs(GetFileAttributes, XeedeeFileAttributes),
   mkdir |-> Runs(MakeDirectory, Nothing),
   delete |-> Runs(Delete, Nothing),
   rename |-> Runs(Rename, Nothing),
   fileeof |-> Runs(FileEof, Nothing)]

DebugCalls ==
  [stop |-> Runs(Stop, Nothing),
   go |-> Runs(Go, Nothing),
   halt |-> Runs(Halt, Nothing),
   continue_thread |-> Runs(Continue, Nothing),
   suspend |-> Runs(Suspend, Nothing),
   resume |-> Runs(Resume, Nothing),
   isstopped |-> Runs(IsStopped, XeedeeStopState),
   isbreak |-> Runs(IsBreak, One({"kind"})),
   set_breakpoint |-> Runs(Breakpoint, Nothing),
   set_initial_breakpoint |-> Runs(SetInitialBreakpoint, Nothing),
   set_data_breakpoint |-> Runs(DataBreakpoint, Nothing),
   clear_all_breakpoints |-> Runs(ClearAllBreakpoints, Nothing)]

SystemCalls ==
  [reboot |-> Runs(Reboot, Nothing),
   set_title |-> Runs(TitleSet, Nothing),
   clear_title |-> Runs(TitleNoPersist, Nothing),
   stopon |-> Runs(StopOn, Nothing),
   nostopon |-> Runs(NoStopOn, Nothing),
   notify |-> Runs(Notify, XeedeeNotifyReply)]

ProcessCalls ==
  [modules |-> Runs(Modules, XeedeeModules),
   module_sections |-> Runs(ModuleSections, XeedeeModuleSections),
   threads |-> Runs(Threads, XeedeeThreadIds),
   thread_info |-> Runs(ThreadInfo, XeedeeThreadDetail),
   xbeinfo_running |-> Runs(XbeInfoRunning, XeedeeXbeInfo),
   xbeinfo_named |-> Runs(XbeInfoNamed, XeedeeXbeInfo),
   perf_counter_list |-> Runs(PerfCounterList, XeedeePerfCounters),
   query_perf_counter |-> Runs(QueryPerfCounter, XeedeePerfCounterSample),
   get_socket_info |-> Runs(GetSocketInfo, XeedeeSockets)]

MemoryCalls ==
  [getmem |-> Runs(GetMem, XeedeeMemorySnapshot),
   setmem |-> Runs(SetMem, One({"written"})),
   walkmem |-> Runs(WalkMem, XeedeeVirtualRegions)]

XeedeeClient ==
  InfoCalls @@ FileCalls @@ DebugCalls @@ SystemCalls @@ ProcessCalls @@ MemoryCalls

\* set_data_breakpoint alone refuses an argument, an unknown kind, before it
\* takes the lock.
RefusedAtOnce(method, given) == method = "set_data_breakpoint" /\ given = "unknown kind"
=============================================================================
