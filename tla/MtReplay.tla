------------------------------ MODULE MtReplay ------------------------------
(***************************************************************************)
(* Replay of a multi-threaded trace (crates/replay/src/mt.rs) with the      *)
(* session's calls around it (session.rs): the records are walked in order *)
(* and each one directs one live thread to its next stop, while all others *)
(* stay stopped.                                                           *)
(*                                                                         *)
(* A traced program is given by what each recorded thread does: prog[t] is *)
(* the sequence of its stops, unrecorded execs and writes to the watched   *)
(* range included.  A stop that `blocks' is the exit of a syscall which in  *)
(* the recording only returned because the recorder's timer interrupted    *)
(* it; a death that `kills' takes the whole process with it.               *)
(***************************************************************************)
EXTENDS CheckpointSelect, TidMap, FiniteSets

CONSTANTS
    Tid,        \* recorded thread ids
    Pid,        \* live pids, handed out lowest first and again once reaped
    Leader,     \* the recorded leader
    Injected,   \* the syscalls whose result is fed from the trace
    Target,     \* sequence numbers clients ask for
    Scenarios,  \* traces with the programs they are replayed against
    Faithful,   \* the scenarios whose program does what the trace says
    Ops         \* which of run_to, step_to, run_to_end, watch, clear_watch, drop are used

ASSUME PidAssumption ==
    /\ Pid \in SUBSET Nat /\ Pid # {} /\ IsFiniteSet(Pid) /\ None \notin Pid
    /\ Leader \in Tid /\ IsFiniteSet(Tid) /\ None \notin Tid

VARIABLES
    records, prog,      \* the trace, and the program it is replayed against
    live,               \* the kernel's tasks
    strayed,            \* a resumed thread's stop was not the recorded one
    leader_pid,         \* session.pid
    cursor, current_seq, finished,
    mt,                 \* session.mt: Absent or the MtState
    watchpoint, unwinder, hit,
    ctl,                \* "idle", "drive", "hung" in a waitpid, or "dropped"
    stop_at, result

seat == <<strayed, leader_pid, cursor, current_seq, finished>>
watchVars == <<watchpoint, unwinder, hit>>
replayVars == <<live, seat, mt, watchVars, ctl, stop_at, result>>

Dead == {"exited", "signaled"}
SpawnStops == {"clone", "fork", "vfork"}
Lifecycle == {"SchedSwitch", "ThreadSpawn", "ThreadExit"}
Errors == {"ScheduleDiverged", "Diverged", "UnexpectedRecord", "TraceExhausted", "Ptrace", "Memory"}

Free == [st |-> "free", who |-> None, pos |-> 0, grp |-> None, armed |-> FALSE,
         owed |-> None, missed |-> FALSE]
Born(t, g) == [Free EXCEPT !.st = "stopped", !.who = t, !.grp = g]

FreshPid(P) == CHOOSE p \in Pid : P[p].st = "free" /\ \A q \in Pid : q < p => P[q].st # "free"

Others(P, p) == {q \in Pid \ {p} : P[q].st # "free" /\ P[q].grp = P[p].grp}

\* schedule.rs: only a trace with one of the lifecycle kinds is driven by mt.rs.
trace_is_multithreaded(recs) == \E i \in DOMAIN recs : recs[i].kind \in Lifecycle

\* session.mt before the first turn of a run.
Absent == <<>>

ThreadRt == [pending |-> None, resume_signal |-> None]

\* ensure_state
MtState(p) ==
    [leader |-> p, threads |-> [q \in {p} |-> ThreadRt], tidmap |-> new,
     vfork_suspended |-> <<>>, expected_tid |-> None]

SpawnLeader(P) == [P EXCEPT ![FreshPid(P)] = Born(Leader, FreshPid(P))]
Nobody == [p \in Pid |-> Free]

ReplayInit ==
    /\ live = SpawnLeader(Nobody)
    /\ leader_pid = FreshPid(Nobody)
    /\ cursor = 0 /\ current_seq = None /\ finished = None
    /\ mt = Absent /\ strayed = FALSE
    /\ watchpoint = FALSE /\ unwinder = None /\ hit = None
    /\ ctl = "idle" /\ stop_at = None /\ result = "ok"

-----------------------------------------------------------------------------
(* The kernel: what resuming live thread l leads to.                       *)

Step(l, i) == prog[live[l].who][i]
Last(l) == Len(prog[live[l].who])

\* step_thread resumes over execs and watch hits; an armed write the session does
\* not remember asking for is an ordinary SIGTRAP stop.
Swallowed(l, i) ==
    \/ Step(l, i).stop = "exec"
    \/ Step(l, i).stop = "write" /\ (live[l].armed => watchpoint)

StopAt(l) ==
    CHOOSE i \in (live[l].pos + 1)..(Last(l) + 1) :
        /\ i <= Last(l) => ~Swallowed(l, i)
        /\ \A j \in (live[l].pos + 1)..(i - 1) : Swallowed(l, j)

\* The WaitStatus; a thread that outlives what was recorded of it makes some
\* syscall no record is about.
Status(l) ==
    IF StopAt(l) > Last(l) THEN [stop |-> "syscall", nr |-> None, blocks |-> FALSE]
    ELSE Step(l, StopAt(l))

Hits(l) ==
    {i \in (live[l].pos + 1)..(StopAt(l) - 1) :
        Step(l, i).stop = "write" /\ live[l].armed /\ watchpoint}

\* waitpid(l) does not return: the syscall blocks and nobody else runs, or l is
\* the first thread of a process whose other threads have not been reaped.
WaitsForEver(l) ==
    \/ Status(l).stop = "syscall" /\ Status(l).blocks
    \/ Status(l).stop \in Dead /\ live[l].grp = l /\ Others(live, l) # {}

\* Resumed with signal sig, l has run to its i-th step.
Ran(l, sig, i) ==
    [live[l] EXCEPT !.pos = IF i > Last(l) THEN @ ELSE i,
                    !.missed = @ \/ sig # live[l].owed,
                    !.owed = IF i <= Last(l) /\ Step(l, i).stop = "signal" THEN Step(l, i).nr ELSE None]

\* The tasks after l was resumed with signal sig and waited for.
Stepped(l, sig) ==
    LET s == Status(l)
        moved == [live EXCEPT ![l] = Ran(l, sig, StopAt(l))]
        child == FreshPid(live)
    IN  CASE s.stop \in SpawnStops ->
               [moved EXCEPT ![child] = Born(s.child, IF s.stop = "clone" THEN live[l].grp ELSE child)]
          [] s.stop \in Dead ->
               [p \in Pid |-> IF p = l THEN Free
                              ELSE IF s.kills /\ p \in Others(live, l)
                                THEN [live[p] EXCEPT !.st = "zombie"] ELSE live[p]]
          [] OTHER -> moved

-----------------------------------------------------------------------------
(* drive                                                                   *)

AtTarget == stop_at # None /\ current_seq # None /\ current_seq >= stop_at

Return(r) == ctl' = "idle" /\ result' = r /\ stop_at' = None

AlreadyFinished ==
    /\ ctl = "drive" /\ finished # None
    /\ Return(finished)
    /\ UNCHANGED <<live, seat, mt, watchVars>>

Turn == ctl = "drive" /\ finished = None

EnsureState ==
    /\ Turn /\ mt = Absent
    /\ mt' = MtState(leader_pid)
    /\ UNCHANGED <<live, seat, watchVars, ctl, stop_at, result>>

Arrive ==
    /\ Turn /\ mt # Absent /\ AtTarget
    /\ Return("running")
    /\ UNCHANGED <<live, seat, mt, watchVars>>

NoRecordLeft ==
    /\ Turn /\ mt # Absent /\ ~AtTarget /\ cursor = Len(records)
    /\ Return("TraceExhausted")
    /\ UNCHANGED <<live, seat, mt, watchVars>>

Rec == records[cursor + 1]
Next1(kinds) == Turn /\ mt # Absent /\ ~AtTarget /\ cursor < Len(records) /\ Rec.kind \in kinds

OnCheckpoint ==
    /\ Next1({"Checkpoint"})
    /\ cursor' = cursor + 1
    /\ UNCHANGED <<live, strayed, leader_pid, current_seq, finished, mt, watchVars, ctl, stop_at, result>>

Unexpected ==
    /\ Next1({"Other"})
    /\ Return("UnexpectedRecord")
    /\ UNCHANGED <<live, seat, mt, watchVars>>

advance == cursor' = cursor + 1 /\ current_seq' = Rec.seq

OnSchedSwitch ==
    /\ Next1({"SchedSwitch"})
    /\ mt' = [mt EXCEPT !.expected_tid = Rec.tid]
    /\ advance
    /\ UNCHANGED <<live, strayed, leader_pid, finished, watchVars, ctl, stop_at, result>>

Mutant_AnyTid == TRUE

\* enforce_tid
ExpectedTid == mt.expected_tid \in {None, Rec.tid}

\* live_for: the leader is bound on first sight, any other tid must be bound.
KnownTid == bound(mt.tidmap, Rec.tid) \/ is_empty(mt.tidmap)
Bound ==
    [mt EXCEPT !.expected_tid = Rec.tid,
               !.tidmap = IF bound(@, Rec.tid) THEN @ ELSE bind(@, Rec.tid, mt.leader)]
Live == live_of(Bound.tidmap, Rec.tid)

Concrete == {"SyscallEnter", "SyscallExit", "ThreadSpawn", "ThreadExit", "Signal"}

\* Records name the thread they are about, and a trace begins with the leader: the
\* recorder writes no other first (SpawnBeforeUse and SwitchesExplain of RecorderTrace).
ASSUME TraceAssumption ==
    \A s \in Scenarios :
        /\ s.records \in Seq(Range(s.records))
        /\ \A i \in DOMAIN s.records :
              s.records[i].kind \in Concrete \cup {"SchedSwitch"} => s.records[i].tid \in Tid
        /\ \A i \in DOMAIN s.records :
              /\ s.records[i].kind \in Concrete
              /\ \A j \in 1..(i - 1) : s.records[j].kind \notin Concrete \cup {"SchedSwitch"}
              => s.records[i].tid = Leader

\* enforce_tid or live_for refuses the record: nobody is resumed.
Refuse ==
    /\ Next1(Concrete)
    /\ ~(ExpectedTid /\ KnownTid)
    /\ Return("ScheduleDiverged")
    /\ UNCHANGED <<live, seat, mt, watchVars>>

Directs(kinds) == Next1(kinds) /\ ExpectedTid /\ KnownTid

\* take_resume_signal; on_syscall_exit resumes without one.
TakeSignal(m, l) == [m EXCEPT !.threads[l].resume_signal = None]
Mutant_SignalLost == None
Signal == IF Rec.kind = "SyscallExit" THEN None ELSE Bound.threads[Live].resume_signal
Directed == IF Rec.kind = "SyscallExit" THEN Bound ELSE TakeSignal(Bound, Live)

\* The directed thread died earlier (killed by a sibling, or in a turn that ended
\* in an error): PTRACE_SYSCALL fails.
ResumeFails ==
    /\ Directs(Concrete) /\ live[Live].st # "stopped"
    /\ mt' = Directed
    /\ Return("Ptrace")
    /\ UNCHANGED <<live, seat, watchVars>>

\* on_watch_hit: the registers are read through the cached unwinder, which is
\* built for the thread of the first hit and kept until a restore or respawn.
Observe(l) ==
    IF Hits(l) = {} THEN UNCHANGED <<unwinder, hit>>
    ELSE LET via == IF unwinder = None THEN l ELSE unwinder
         IN  unwinder' = via /\ hit' = [by |-> live[l].who, seen |-> live[via].who]

\* capture_backtrace fails when the cached unwinder's thread is gone; the cache
\* was taken and is not put back.
HitFails(l) == Hits(l) # {} /\ unwinder # None /\ live[unwinder].st # "stopped"

BadHit ==
    LET l == Live
        first == CHOOSE i \in Hits(l) : \A j \in Hits(l) : i <= j
    IN  /\ Directs(Concrete) /\ live[Live].st = "stopped" /\ HitFails(l)
        /\ live' = [live EXCEPT ![l] = Ran(l, Signal, first)]
        /\ mt' = Directed
        /\ unwinder' = None
        /\ strayed' = TRUE
        /\ Return("Ptrace")
        /\ UNCHANGED <<leader_pid, cursor, current_seq, finished, watchpoint, hit>>

\* Pid also bounds the children nobody follows, of a spawn no record is about.
RoomForChild(l) == Status(l).stop \in SpawnStops => \E p \in Pid : live[p].st = "free"

CanStep(kinds) ==
    Directs(kinds) /\ live[Live].st = "stopped" /\ ~HitFails(Live) /\ RoomForChild(Live)

Hang ==
    /\ CanStep(Concrete) /\ WaitsForEver(Live)
    /\ ctl' = "hung"
    /\ mt' = Bound
    /\ UNCHANGED <<live, seat, watchVars, stop_at, result>>

\* One turn that resumes a thread: its stop is the one the record describes, or
\* the call returns the error and the record is not consumed.
Resumed(kinds) ==
    /\ CanStep(kinds) /\ ~WaitsForEver(Live)
    /\ Observe(Live)
    /\ UNCHANGED <<leader_pid, watchpoint>>

Diverges(e, m) ==
    /\ mt' = m
    /\ strayed' = TRUE
    /\ Return(e)
    /\ UNCHANGED <<cursor, current_seq, finished>>

Consumes(m) ==
    /\ mt' = m
    /\ advance
    /\ UNCHANGED <<strayed, finished, ctl, stop_at, result>>

OnSyscallEnter ==
    LET l == Live
        s == Status(l)
        m == Directed
    IN  /\ Resumed({"SyscallEnter"}) /\ live' = Stepped(l, Signal)
        /\ \/ s.stop # "syscall" /\ Diverges("ScheduleDiverged", m)
           \/ s.stop = "syscall" /\ s.nr # Rec.nr /\ Diverges("Diverged", m)
           \/ /\ s.stop = "syscall" /\ s.nr = Rec.nr
              /\ Consumes([m EXCEPT !.threads[l].pending = IF s.nr \in Injected THEN "inject" ELSE "real"])

Mutant_PendingLeft(m, l) == m

\* take_pending
TakePending(m, l) == [m EXCEPT !.threads[l].pending = None]

OnSyscallExit ==
    LET l == Live
        s == Status(l)
        taken == TakePending(Bound, l)
    IN  /\ Resumed({"SyscallExit"}) /\ live' = Stepped(l, Signal)
        /\ \/ s.stop # "syscall" /\ Diverges("ScheduleDiverged", Bound)
           \/ s.stop = "syscall" /\ Bound.threads[l].pending = None /\ Diverges("ScheduleDiverged", taken)
           \/ s.stop = "syscall" /\ Bound.threads[l].pending # None /\ Consumes(taken)

Mutant_ChildUnarmed(P, c) == P

\* register_child, bind_child, then the child's debug registers.
ArmChild(P, c) == [P EXCEPT ![c].armed = watchpoint]

OnThreadSpawn ==
    LET l == Live
        s == Status(l)
        m == Directed
        c == FreshPid(live)
        with == [m EXCEPT !.tidmap = bind(@, Rec.child, c),
                          !.threads = With(@, c, ThreadRt),
                          !.vfork_suspended = IF s.stop = "vfork" THEN With(@, c, l) ELSE @]
    IN  /\ Resumed({"ThreadSpawn"})
        /\ \/ /\ s.stop \notin SpawnStops
              /\ live' = Stepped(l, Signal) /\ Diverges("ScheduleDiverged", m)
           \/ /\ s.stop \in SpawnStops /\ Conflicts(m.tidmap, Rec.child, c)
              /\ live' = Stepped(l, Signal) /\ Diverges("ScheduleDiverged", m)
           \/ /\ s.stop \in SpawnStops /\ ~Conflicts(m.tidmap, Rec.child, c)
              /\ live' = ArmChild(Stepped(l, Signal), c) /\ Consumes(with)

Mutant_StillBound(m, l) ==
    [m EXCEPT !.threads = Without(@, l), !.vfork_suspended = Without(@, l)]

\* remove_thread
Removed(m, l) ==
    [m EXCEPT !.threads = Without(@, l), !.tidmap = unbind_recorded(@, Rec.tid),
              !.vfork_suspended = Without(@, l)]

OnThreadExit ==
    LET l == Live
        s == Status(l)
        m == Directed
    IN  /\ Resumed({"ThreadExit"}) /\ live' = Stepped(l, Signal)
        /\ \/ s.stop \notin Dead /\ Diverges("ScheduleDiverged", m)
           \/ /\ s.stop \in Dead /\ l # mt.leader /\ Consumes(Removed(m, l))
           \/ /\ s.stop \in Dead /\ l = mt.leader
              /\ mt' = Removed(m, l)
              /\ advance
              /\ finished' = s.stop /\ Return(s.stop) /\ UNCHANGED strayed

OnSignal ==
    LET l == Live
        s == Status(l)
        m == Directed
    IN  /\ Resumed({"Signal"}) /\ live' = Stepped(l, Signal)
        /\ \/ s.stop \notin {"signal", "write"} /\ Diverges("ScheduleDiverged", m)
           \/ s.stop \in {"signal", "write"} /\ s.nr # Rec.nr /\ Diverges("ScheduleDiverged", m)
           \/ s.stop = "signal" /\ s.nr = Rec.nr /\ Consumes([m EXCEPT !.threads[l].resume_signal = s.nr])

Drive ==
    \/ AlreadyFinished \/ EnsureState \/ Arrive \/ NoRecordLeft \/ OnCheckpoint
    \/ Unexpected \/ OnSchedSwitch \/ Refuse \/ ResumeFails \/ BadHit \/ Hang
    \/ OnSyscallEnter \/ OnSyscallExit \/ OnThreadSpawn \/ OnThreadExit \/ OnSignal
-----------------------------------------------------------------------------
(* The client's calls.  A multi-threaded session takes no checkpoints, so a  *)
(* call that goes backward respawns.                                       *)

Call(t) ==
    /\ ctl = "idle"
    /\ ctl' = "drive" /\ stop_at' = t
    /\ UNCHANGED <<result, watchpoint, hit>>

Forward == UNCHANGED <<live, seat, mt, unwinder>>

\* kill_active kills the leader's process and waits for the leader alone, which
\* does not return while other threads of the process are unreaped.  Then a new
\* leader is spawned and the MtState dropped with all it knew.
KillHangs == finished = None /\ Others(live, leader_pid) # {}
Killed == IF finished = None THEN [live EXCEPT ![leader_pid] = Free] ELSE live

\* Tasks nobody reaps accumulate over respawns; Pid bounds them.
RoomForRun == Cardinality({p \in Pid : Killed[p].st = "free"}) >= Cardinality(Tid)

Respawn ==
    /\ RoomForRun
    /\ live' = [SpawnLeader(Killed) EXCEPT ![FreshPid(Killed)].armed = watchpoint]
    /\ leader_pid' = FreshPid(Killed)
    /\ cursor' = 0 /\ current_seq' = None /\ finished' = None
    /\ mt' = Absent /\ unwinder' = None /\ strayed' = FALSE

RunTo(t) ==
    /\ "run_to" \in Ops
    /\ \/ ~should_restart(current_seq, 0, t) /\ Call(t) /\ Forward
       \/ should_restart(current_seq, 0, t) /\ ~KillHangs /\ Call(t) /\ Respawn
       \/ /\ should_restart(current_seq, 0, t) /\ KillHangs
          /\ ctl = "idle" /\ ctl' = "hung"
          /\ UNCHANGED <<live, seat, mt, watchVars, stop_at, result>>

StepTo(t) == "step_to" \in Ops /\ Call(t) /\ Forward

RunToEnd == "run_to_end" \in Ops /\ Call(None) /\ Forward

LiveThreads == IF mt = Absent THEN {leader_pid} ELSE DOMAIN mt.threads
\* The debug registers of a thread that died in an erring turn cannot be written:
\* the loop over the live threads stops there.
Armable == \A p \in LiveThreads : live[p].st = "stopped"
Reached == {p \in LiveThreads : \A q \in LiveThreads : q <= p => live[q].st = "stopped"}
Arm(on) == [p \in Pid |-> IF p \in Reached THEN [live[p] EXCEPT !.armed = on] ELSE live[p]]

\* Once the leader has exited its memory cannot be read.
Watch ==
    /\ "watch" \in Ops /\ ctl = "idle"
    /\ live' = Arm(TRUE)
    /\ \/ Armable /\ finished = None /\ watchpoint' = TRUE /\ result' = "ok"
       \/ Armable /\ finished # None /\ UNCHANGED watchpoint /\ result' = "Memory"
       \/ ~Armable /\ UNCHANGED watchpoint /\ result' = "Ptrace"
    /\ UNCHANGED <<seat, mt, unwinder, hit, ctl, stop_at>>

ClearWatch ==
    /\ "clear_watch" \in Ops /\ ctl = "idle"
    /\ watchpoint' = FALSE
    /\ \/ /\ watchpoint /\ finished = None /\ live' = Arm(FALSE)
          /\ result' = IF Armable THEN "ok" ELSE "Ptrace"
       \/ ~(watchpoint /\ finished = None) /\ UNCHANGED live /\ result' = "ok"
    /\ UNCHANGED <<seat, mt, unwinder, hit, ctl, stop_at>>

Owned == (IF mt = Absent THEN {} ELSE DOMAIN mt.threads)
         \cup (IF finished = None THEN {leader_pid} ELSE {})

\* The order in which Drop waits: ascending pids, the leader last.
ReapedBefore(q, p) == q \in Owned /\ (p = leader_pid \/ (q # leader_pid /\ q < p))

DropHangs ==
    \E p \in Owned : live[p].grp = p /\ \E q \in Others(live, p) : ~ReapedBefore(q, p)

Drop ==
    /\ "drop" \in Ops /\ ctl = "idle"
    /\ \/ DropHangs /\ ctl' = "hung" /\ UNCHANGED live
       \/ /\ ~DropHangs /\ ctl' = "dropped"
          /\ live' = [p \in Pid |-> IF p \in Owned THEN Free ELSE live[p]]
    /\ UNCHANGED <<seat, mt, watchVars, stop_at, result>>

Calls ==
    \/ \E t \in Target : RunTo(t) \/ StepTo(t)
    \/ RunToEnd \/ Watch \/ ClearWatch \/ Drop

Init ==
    /\ \E s \in Scenarios : records = s.records /\ prog = s.prog
    /\ ReplayInit

replay == <<records, prog, replayVars>>

Next == (Drive \/ Calls) /\ UNCHANGED <<records, prog>>

\* drive keeps taking turns; a client need never call.
Spec == Init /\ [][Next]_replay /\ WF_replay(Drive /\ UNCHANGED <<records, prog>>)

-----------------------------------------------------------------------------
\* The tid map is one-to-one and covers exactly the followed threads, through every
\* spawn, exit, reuse of a pid and error.
TablesAgree ==
    mt # Absent =>
        /\ Inverse2(mt.tidmap)
        /\ Range(mt.tidmap.to_live) \ {mt.leader} = DOMAIN mt.threads \ {mt.leader}
        /\ DOMAIN mt.vfork_suspended \subseteq DOMAIN mt.threads

\* The records consumed of thread t, and the recorded stops its live thread made.
ConsumedOf(t) == {i \in 1..cursor : records[i].kind \in Concrete /\ records[i].tid = t}
MadeBy(p) == {i \in 1..live[p].pos : prog[live[p].who][i].stop \notin {"exec", "write"}}

\* While no thread has strayed from its records, each recorded thread is routed to
\* the live thread that plays it, which has made exactly the stops consumed of it
\* and is inside a syscall exactly when the session awaits that syscall's exit.
MtInStep ==
    mt # Absent /\ ~strayed /\ ctl # "dropped" =>
        \A t \in DOMAIN mt.tidmap.to_live :
            LET p == live_of(mt.tidmap, t)
            IN  /\ live[p].who = t
                /\ Cardinality(MadeBy(p)) = Cardinality(ConsumedOf(t))
                /\ mt.threads[p].pending # None <=>
                     \E i \in ConsumedOf(t) :
                        /\ records[i].kind = "SyscallEnter"
                        /\ \A j \in ConsumedOf(t) : j > i => records[j].kind = "ThreadSpawn"

\* The thread the recorded schedule has running at record i.
ScheduledAt(i) ==
    LET S == {j \in 1..(i - 1) : records[j].kind = "SchedSwitch"}
    IN  IF S = {} THEN Leader ELSE records[CHOOSE j \in S : \A k \in S : k <= j].tid

\* No record is ever consumed against the recorded schedule: each one is tagged
\* with the thread the last SchedSwitch handed the CPU to, edited traces included.
FollowsSwitches ==
    \A i \in 1..cursor : records[i].kind \in Concrete => records[i].tid = ScheduledAt(i)

IsFaithful == [records |-> records, prog |-> prog] \in Faithful

\* A faithful program is never reported as diverged, whatever the client did
\* before: going back and forth, watching, running to the end twice.
MtNoFalseAlarm ==
    IsFaithful => result \notin {"ScheduleDiverged", "Diverged", "UnexpectedRecord", "TraceExhausted"}

\* A signal taken from a thread at one record is given back when the thread is next
\* resumed, with records of other threads in between.
SignalsReach == IsFaithful => \A p \in Pid : ~live[p].missed

\* Every followed thread is watched while a watchpoint is set: those alive when it
\* was set, those born later, and the leader of a respawn.
MtWatchFollows ==
    watchpoint /\ finished = None =>
        \A p \in LiveThreads : live[p].st = "stopped" => live[p].armed

\* "Backward navigation still works — it respawns from entry and re-drives"
\* (session.rs:340-341).
BackwardWorks == ctl # "hung"

\* A hit shows the registers and the stack of the thread that wrote.
HitsByWriter == hit # None => hit.by = hit.seen
=============================================================================
