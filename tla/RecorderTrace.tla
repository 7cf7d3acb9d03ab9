--------------------------- MODULE RecorderTrace ---------------------------
(***************************************************************************)
(* The trace a recording leaves behind: RecorderSched with the records its *)
(* steps append collected in order, as Scheduler::append hands them to the *)
(* TraceWriter.                                                            *)
(***************************************************************************)
EXTENDS RecorderSched

CONSTANT MaxTrace   \* bound on the records of one recording

ASSUME MaxTraceAssumption == MaxTrace \in Nat

VARIABLE trace

traceVars == <<vars, trace>>

TraceInit == Init /\ trace = <<>>

Mutant_SchedSwitchesDropped ==
    IF out' = None \/ out'.kind = "SchedSwitch" THEN trace ELSE Append(trace, out')
Mutant_SpawnsDropped ==
    IF out' = None \/ out'.kind = "ThreadSpawn" THEN trace ELSE Append(trace, out')
Mutant_ExitsDropped ==
    IF out' = None \/ out'.kind = "ThreadExit" THEN trace ELSE Append(trace, out')

\* Scheduler::append
Appended == IF out' = None THEN trace ELSE Append(trace, out')

TraceStep == Step /\ trace' = Appended /\ Len(trace') <= MaxTrace

TraceNext == TraceStep \/ (Terminated /\ UNCHANGED trace)

TraceSpec == TraceInit /\ [][TraceNext]_traceVars

-----------------------------------------------------------------------------
Lifecycle == {"SchedSwitch", "ThreadSpawn", "ThreadExit"}

Spawned(t, i) ==
    \E j \in 1..(i - 1) : trace[j].kind = "ThreadSpawn" /\ trace[j].child = t

\* Replay can only bind a recorded tid once its ThreadSpawn has been consumed
\* (mt.rs live_for), so the recorder must write the spawn before any record of
\* the child, in whichever order the two first stops were waited for.  Replay
\* takes a trace for multi-threaded by its lifecycle records: the first of them is
\* a ThreadSpawn, and a recording that never spawned has none (sched.rs:26-33).
SpawnBeforeUse ==
    \A i \in DOMAIN trace :
        /\ trace[i].tid = Leader \/ Spawned(trace[i].tid, i)
        /\ trace[i].kind \in Lifecycle => \E j \in 1..i : trace[j].kind = "ThreadSpawn"

\* The thread the schedule says is running when record i is written.
ScheduledAt(i) ==
    LET S == {j \in 1..(i - 1) : trace[j].kind = "SchedSwitch"}
    IN  IF S = {} THEN Leader
        ELSE trace[CHOOSE j \in S : \A k \in S : k <= j].tid

\* Every syscall, signal and spawn is tagged with the thread the last SchedSwitch
\* handed the CPU to: the switches explain the interleaving completely.  Thread
\* exits are left out: after an exit_group they are written in the order the deaths
\* are waited for, whoever was scheduled (on_exit), although mt.rs:415-418 says that
\* "a SchedSwitch is the only way the expected tid changes".
SwitchesExplain ==
    \A i \in DOMAIN trace :
        trace[i].kind \notin {"SchedSwitch", "ThreadExit"} => trace[i].tid = ScheduledAt(i)

Is(i, kind, t) == trace[i].kind = kind /\ trace[i].tid = t

\* Before record i, the trace has thread t inside a syscall.
InSyscall(t, i) ==
    \E j \in 1..(i - 1) :
        Is(j, "SyscallEnter", t) /\ \A k \in (j + 1)..(i - 1) : ~Is(k, "SyscallExit", t)

\* What the trace tells of one thread is a whole history, across preemptions and
\* the interleaving with others: entries and exits of syscalls alternate, entry
\* first (on_syscall), a ThreadExit is the thread's last record, and in a finished
\* recording of several threads each has one (on_exit), so that replay knows when
\* to stop waiting for it.
HistoriesWhole ==
    /\ \A i \in DOMAIN trace :
          trace[i].kind \in {"SyscallEnter", "SyscallExit"} =>
              (trace[i].kind = "SyscallExit" <=> InSyscall(trace[i].tid, i))
    /\ \A i, j \in DOMAIN trace :
          i < j /\ trace[i].kind = "ThreadExit" => trace[j].tid # trace[i].tid
    /\ pc = "done" /\ threads_followed > 1 => \A i \in DOMAIN trace :
          \E j \in DOMAIN trace : j >= i /\ Is(j, "ThreadExit", trace[i].tid)
=============================================================================
