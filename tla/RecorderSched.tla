--------------------------- MODULE RecorderSched ---------------------------
(***************************************************************************)
(* The single-core serialization scheduler of the ptrace recorder          *)
(* (crates/recorder/src/capture/sched.rs) together with the kernel it      *)
(* drives.  The recorder resumes one tracee, blocks in waitpid, records    *)
(* what it is told and picks the next thread.                              *)
(*                                                                         *)
(* The kernel half (the Tracee* actions and the variables of kernelVars)   *)
(* is external code: it is modelled from the ptrace requests and the wait  *)
(* statuses sched.rs issues and matches.  A thread reports one stop at a   *)
(* time, so the state of a thread that has stopped but has not been waited *)
(* for is the stop itself.                                                 *)
(*                                                                         *)
(* Every recorder step appends at most one record to the trace.  It is     *)
(* left in `out'; RecorderTrace collects the records into a trace.         *)
(***************************************************************************)
EXTENDS Naturals, Sequences, FiniteSets, Functions

CONSTANTS
    Tid,        \* thread ids the kernel can hand out, the leader's included
    Leader,     \* the tid of the process record_command spawned
    None,       \* Rust's Option::None
    Env         \* which of EnvActs the tracee and the tracer's host may do

\* exit_group: a thread ends its whole process while siblings are alive
\*             (exit_group(2) or a fatal signal);
\* leader_exit: a process's first thread ends alone, before its siblings;
\* late_wait:  the tracer is descheduled for a whole quantum between arming
\*             the timer and calling waitpid.
EnvActs == {"exit_group", "leader_exit", "late_wait"}

VARIABLES
    \* kernel
    kern,       \* each thread's ptrace state
    phase,      \* "user", "call" (inside a syscall), or "ret": inside a syscall
                \* whose spawn or exec event has been raised, so it only returns
    grp,        \* thread -> first thread of its process
    msg,        \* thread -> child named by its PTRACE_GETEVENTMSG
    susp,       \* vfork parent -> the child it is suspended for, or None
    stops,      \* processes with an undelivered SIGSTOP
    owed,       \* threads whose intercepted signal has not been re-injected
    alarm,      \* the preemption timer: "off", "armed", "missed"
    \* Scheduler
    pc,         \* where Scheduler::run is
    status,     \* the WaitStatus being handled, or None
    threads,    \* keys of Scheduler.threads
    pending,    \* threads with pending_enter = Some(_)
    resig,      \* threads with resume_signal = Some(_)
    ready,
    running,
    last_scheduled,
    leader_exit,
    threads_followed,
    vfork_pending,  \* child -> parent, or None
    out         \* the record this step appended, or None

kernelVars == <<kern, phase, grp, msg, susp, stops, owed>>
schedVars == <<threads, pending, resig, ready, running, last_scheduled,
               leader_exit, threads_followed, vfork_pending>>
vars == <<kernelVars, alarm, pc, status, schedVars, out>>

Dead == {"exited", "signaled"}
SpawnStops == {"clone", "fork", "vfork"}
Stops == {"syscall", "exec", "signal", "sigstop"} \cup SpawnStops
KState == {"absent", "run", "held", "gone"} \cup Dead \cup Stops

Record ==
    [kind : {"SyscallEnter", "SyscallExit", "Signal", "SchedSwitch",
             "ThreadExit"}, tid : Tid]
    \cup [kind : {"ThreadSpawn"}, tid : Tid, child : Tid]

WaitStatus == [tid : Tid, what : Stops \cup Dead]

Queue == Seq(Tid)

ASSUME ConstantsAssumption ==
    /\ Leader \in Tid
    /\ None \notin Tid \cup WaitStatus \cup Record
    /\ Env \subseteq EnvActs

\* Threads of t's process that still occupy a place in it.  A thread stays in
\* its process until its death has been waited for.
Siblings(t) == {u \in Tid \ {t} : grp[u] = grp[t] /\ kern[u] \notin {"absent", "gone"}}

\* What waitpid can report: a stop, or a death; the death of a process's first
\* thread only once every other thread of the process has been waited for.
Reportable(t) ==
    \/ kern[t] \in Stops
    \/ kern[t] \in Dead /\ (grp[t] = t => Siblings(t) = {})

CanAct(t) == kern[t] = "run" /\ susp[t] = None

-----------------------------------------------------------------------------
(* Scheduler::new: the leader is stopped after its exec, registered, queued *)
(* and seeded as the thread last scheduled.                                *)
Init ==
    /\ kern = [t \in Tid |-> IF t = Leader THEN "held" ELSE "absent"]
    /\ phase = [t \in Tid |-> "user"]
    /\ grp = [t \in Tid |-> t]
    /\ msg = [t \in Tid |-> None]
    /\ susp = [t \in Tid |-> None]
    /\ stops = {}
    /\ owed = {}
    /\ alarm = "off"
    /\ pc = "loop"
    /\ status = None
    /\ threads = {Leader}
    /\ pending = {}
    /\ resig = {}
    /\ ready = <<Leader>>
    /\ running = None
    /\ last_scheduled = Leader
    /\ leader_exit = None
    /\ threads_followed = 1
    /\ vfork_pending = [t \in Tid |-> None]
    /\ out = None

-----------------------------------------------------------------------------
(* The kernel and the traced program.                                      *)

TraceeStep == UNCHANGED <<alarm, pc, status, schedVars>> /\ out' = None

TraceeEnter(t) ==
    /\ CanAct(t) /\ phase[t] = "user"
    /\ kern' = [kern EXCEPT ![t] = "syscall"]
    /\ phase' = [phase EXCEPT ![t] = "call"]
    /\ UNCHANGED <<grp, msg, susp, stops, owed>>
    /\ TraceeStep

\* Also how a pending SIGSTOP interrupts a blocking syscall: the exit stop
\* comes first and the SIGSTOP stays undelivered.
TraceeLeave(t) ==
    /\ CanAct(t) /\ phase[t] # "user"
    /\ kern' = [kern EXCEPT ![t] = "syscall"]
    /\ phase' = [phase EXCEPT ![t] = "user"]
    /\ UNCHANGED <<grp, msg, susp, stops, owed>>
    /\ TraceeStep

\* clone, fork or vfork inside the syscall: the parent stops with the event
\* and the child is born with its initial SIGSTOP.
TraceeSpawn(t, c, how) ==
    /\ CanAct(t) /\ phase[t] = "call" /\ kern[c] = "absent"
    /\ kern' = [kern EXCEPT ![t] = how, ![c] = "sigstop"]
    /\ grp' = [grp EXCEPT ![c] = IF how = "clone" THEN grp[t] ELSE c]
    /\ msg' = [msg EXCEPT ![t] = c]
    /\ susp' = IF how = "vfork" THEN [susp EXCEPT ![t] = c] ELSE susp
    /\ phase' = [phase EXCEPT ![t] = "ret"]
    /\ UNCHANGED <<stops, owed>>
    /\ TraceeStep

\* execve of a process with one thread; it releases a vfork parent.
TraceeExec(t) ==
    /\ CanAct(t) /\ phase[t] = "call" /\ Siblings(t) = {} /\ grp[t] = t
    /\ kern' = [kern EXCEPT ![t] = "exec"]
    /\ susp' = [p \in Tid |-> IF susp[p] = t THEN None ELSE susp[p]]
    /\ phase' = [phase EXCEPT ![t] = "ret"]
    /\ UNCHANGED <<grp, msg, stops, owed>>
    /\ TraceeStep

\* A signal other than SIGSTOP is about to be delivered.
TraceeSignal(t) ==
    /\ CanAct(t) /\ phase[t] = "user"
    /\ kern' = [kern EXCEPT ![t] = "signal"]
    /\ owed' = owed \cup {t}
    /\ UNCHANGED <<phase, grp, msg, susp, stops>>
    /\ TraceeStep

TakeStop(t) ==
    /\ CanAct(t) /\ phase[t] = "user" /\ grp[t] \in stops
    /\ kern' = [kern EXCEPT ![t] = "sigstop"]
    /\ stops' = stops \ {grp[t]}
    /\ UNCHANGED <<phase, grp, msg, susp, owed>>
    /\ TraceeStep

Die(D, how) ==
    /\ kern' = [u \in Tid |-> IF u \in D THEN how ELSE kern[u]]
    /\ susp' = [p \in Tid |-> IF susp[p] \in D THEN None ELSE susp[p]]
    /\ UNCHANGED <<phase, grp, msg, stops, owed>>
    /\ TraceeStep

TraceeExit(t) ==
    /\ CanAct(t) /\ phase[t] = "call"
    /\ grp[t] = t /\ Siblings(t) # {} => "leader_exit" \in Env
    /\ Die({t}, "exited")

\* exit_group(2) from inside the syscall, or the default action of a signal.
TraceeExitGroup(t, how) ==
    /\ CanAct(t) /\ (how = "exited" => phase[t] = "call")
    /\ Siblings(t) # {} => "exit_group" \in Env
    /\ Die(Siblings(t) \cup {t}, how)

Tracee(t) ==
    \/ TraceeEnter(t) \/ TraceeLeave(t) \/ TraceeExec(t) \/ TraceeSignal(t)
    \/ TakeStop(t) \/ TraceeExit(t)
    \/ \E how \in Dead : TraceeExitGroup(t, how)
    \/ \E c \in Tid, how \in SpawnStops : TraceeSpawn(t, c, how)

\* The quantum ends before the tracer is inside waitpid: the no-op handler
\* runs, and the one-shot timer is not armed again.
AlarmMissed ==
    /\ "late_wait" \in Env
    /\ pc = "armed" /\ alarm = "armed"
    /\ alarm' = "missed"
    /\ out' = None
    /\ UNCHANGED <<kernelVars, pc, status, schedVars>>

-----------------------------------------------------------------------------
(* Scheduler::run.  A definition named Mutant_... is a deliberately wrong     *)
(* variant of the one that follows it, used to show that a property has      *)
(* teeth; no action uses it.                                               *)

Append1(kind, t) == out' = [kind |-> kind, tid |-> t]

Mutant_RequeueFront(q, live, t) ==
    IF t \in live /\ t \notin Range(q) THEN <<t>> \o q ELSE q

Requeue(q, live, t) == IF t \in live /\ t \notin Range(q) THEN Append(q, t) ELSE q

ClearRunning(t) == IF running = t THEN None ELSE running

Mutant_ResumeAnyway == ready # <<>>

\* run resumes a thread only when none is running.
CanResume == running = None /\ ready # <<>>

Mutant_KeepSignal(t) == resig

TakeSignal(t) == resig \ {t}

\* while !self.threads.is_empty()
Finish ==
    /\ pc = "loop" /\ threads = {}
    /\ pc' = "done" /\ out' = None
    /\ UNCHANGED <<kernelVars, alarm, status, schedVars>>

\* record_sched_switch, with the trailing append
RecordSchedSwitch(next) ==
    /\ last_scheduled' = next
    /\ IF last_scheduled = next THEN out' = None ELSE Append1("SchedSwitch", next)

\* resume_next, then timer.arm.  ptrace::syscall fails on a thread that died
\* while it was waiting in the queue, and `?' ends the recording.
ResumeNext ==
    /\ pc = "loop" /\ threads # {} /\ CanResume
    /\ LET next == Head(ready)
       IN  /\ ready' = Tail(ready)
           /\ RecordSchedSwitch(next)
           /\ resig' = TakeSignal(next)
           /\ IF kern[next] = "held"
                THEN /\ kern' = [kern EXCEPT ![next] = "run"]
                     /\ owed' = IF next \in resig THEN owed \ {next} ELSE owed
                     /\ running' = next
                     /\ alarm' = "armed"
                     /\ pc' = "armed"
                ELSE /\ pc' = "failed"
                     /\ UNCHANGED <<kern, owed, running, alarm>>
    /\ UNCHANGED <<phase, grp, msg, susp, stops, status, threads, pending,
                   leader_exit, threads_followed, vfork_pending>>

\* A thread is running already, or none is ready: only the timer is armed.
ArmOnly ==
    /\ pc = "loop" /\ threads # {} /\ ~CanResume
    /\ alarm' = "armed"
    /\ pc' = "armed" /\ out' = None
    /\ UNCHANGED <<kernelVars, status, schedVars>>

EnterWait ==
    /\ pc = "armed"
    /\ pc' = "wait" /\ out' = None
    /\ UNCHANGED <<kernelVars, alarm, status, schedVars>>

\* waitpid returns t's state; a dead thread leaves the kernel, a stopped one is
\* held until it is resumed.
Wait(t) ==
    /\ Reportable(t)
    /\ status' = [tid |-> t, what |-> kern[t]]
    /\ kern' = [kern EXCEPT ![t] = IF @ \in Dead THEN "gone" ELSE "held"]
    /\ alarm' = "off"
    /\ pc' = "handle" /\ out' = None
    /\ UNCHANGED <<phase, grp, msg, susp, stops, owed, schedVars>>

WaitAny == pc = "wait" /\ \E t \in Tid : Wait(t)

\* EINTR, which waitpid returns only after it found nothing to report: the timer
\* is disarmed and preempt sends SIGSTOP (ESRCH is tolerated).  kill(2) addresses
\* the whole process of the running thread.
Interrupted ==
    /\ pc = "wait" /\ alarm = "armed" /\ \A t \in Tid : ~Reportable(t)
    /\ alarm' = "off" /\ out' = None
    /\ IF running = None
         THEN pc' = "loop" /\ UNCHANGED stops
         ELSE pc' = "preempt" /\ stops' = stops \cup {grp[running]}
    /\ UNCHANGED <<kern, phase, grp, msg, susp, owed, status, schedVars>>

\* The second half of preempt: a blocking waitpid for the running thread only.
WaitPreempted == pc = "preempt" /\ Wait(running)

-----------------------------------------------------------------------------
(* Scheduler::handle, one action per kind of status.                       *)

Handling(whats) == pc = "handle" /\ status.what \in whats

\* A ptrace request on a thread that was killed after its stop was waited for
\* returns ESRCH, which ends the recording.
Fail ==
    /\ pc' = "failed" /\ out' = None
    /\ UNCHANGED <<kernelVars, alarm, status, schedVars>>

Handled == pc' = "loop" /\ status' = None /\ UNCHANGED <<kernelVars, alarm>>

Mutant_PendingNotTaken(t) == pending \cup ({t} \cap threads)

\* pending_enter: taken at the exit stop, set at the entry stop.
PendingAfter(t) ==
    IF t \in pending THEN pending \ {t} ELSE pending \cup ({t} \cap threads)

OnSyscall ==
    /\ Handling({"syscall"})
    /\ LET t == status.tid
       IN  IF kern[t] # "held" THEN Fail
           ELSE /\ running' = ClearRunning(t)
                /\ Append1(IF t \in pending THEN "SyscallExit" ELSE "SyscallEnter", t)
                /\ pending' = PendingAfter(t)
                /\ ready' = Requeue(ready, threads, t)
                /\ Handled
                /\ UNCHANGED <<threads, resig, last_scheduled, leader_exit,
                               threads_followed, vfork_pending>>

Mutant_QueueVforkParent(how, t) == Requeue(ready, threads, t)

\* A vfork parent is not queued until its child is gone.
ReadyAfterSpawn(how, t) ==
    IF how = "vfork" THEN ready ELSE Requeue(ready, threads, t)

OnSpawn ==
    /\ Handling(SpawnStops)
    /\ LET t == status.tid
       IN  IF kern[t] # "held" THEN Fail
           ELSE /\ running' = ClearRunning(t)
                /\ out' = [kind |-> "ThreadSpawn", tid |-> t, child |-> msg[t]]
                /\ vfork_pending' = IF status.what = "vfork"
                                      THEN [vfork_pending EXCEPT ![msg[t]] = t]
                                      ELSE vfork_pending
                /\ ready' = ReadyAfterSpawn(status.what, t)
                /\ Handled
                /\ UNCHANGED <<threads, pending, resig, last_scheduled,
                               leader_exit, threads_followed>>

OnOtherEvent ==
    /\ Handling({"exec"})
    /\ running' = ClearRunning(status.tid)
    /\ ready' = Requeue(ready, threads, status.tid)
    /\ out' = None
    /\ Handled
    /\ UNCHANGED <<threads, pending, resig, last_scheduled, leader_exit,
                   threads_followed, vfork_pending>>

\* on_stopped for a tid that is not registered: register_child.
OnNewThread ==
    /\ Handling({"sigstop", "signal"}) /\ status.tid \notin threads
    /\ LET t == status.tid
       IN  IF kern[t] # "held" THEN Fail
           ELSE /\ threads' = threads \cup {t}
                /\ threads_followed' = threads_followed + 1
                /\ ready' = Requeue(ready, threads', t)
                /\ out' = None
                /\ Handled
                /\ UNCHANGED <<pending, resig, running, last_scheduled,
                               leader_exit, vfork_pending>>

OnStopped ==
    /\ Handling({"sigstop", "signal"}) /\ status.tid \in threads
    /\ LET t == status.tid
       IN  /\ running' = ClearRunning(t)
           /\ IF status.what = "signal"
                THEN Append1("Signal", t) /\ resig' = resig \cup {t}
                ELSE out' = None /\ UNCHANGED resig
           /\ ready' = Requeue(ready, threads, t)
    /\ Handled
    /\ UNCHANGED <<threads, pending, last_scheduled, leader_exit,
                   threads_followed, vfork_pending>>

Mutant_NotForgotten(S, t) == S

Forget(S, t) == S \ {t}

Mutant_NotRetained(q, t) == q

\* ready.retain(|&p| p != pid): requeue never queues a thread twice (ReadyIsSet),
\* so at most one entry goes.
Retain(q, t) ==
    IF t \in Range(q)
      THEN LET i == CHOOSE i \in DOMAIN q : q[i] = t
           IN  SubSeq(q, 1, i - 1) \o SubSeq(q, i + 1, Len(q))
      ELSE q

Mutant_SignalAsCode(what) == IF what = "exited" THEN "code" ELSE what

\* Exited carries a code, Signaled does not.
ExitCode(what) == IF what = "exited" THEN "code" ELSE None

Mutant_ParentNotReleased(q, live, parent) == q

\* The parent of a vfork child that is gone gets its turn back.
Release(q, live, parent) == IF parent = None THEN q ELSE Requeue(q, live, parent)

OnExit ==
    /\ Handling(Dead)
    /\ LET t == status.tid
           left == Retain(ready, t)
       IN  /\ running' = ClearRunning(t)
           /\ threads' = Forget(threads, t)
           /\ pending' = Forget(pending, t)
           /\ resig' = Forget(resig, t)
           /\ IF t \in threads /\ threads_followed > 1
                THEN Append1("ThreadExit", t)
                ELSE out' = None
           /\ leader_exit' = IF t = Leader THEN ExitCode(status.what) ELSE leader_exit
           /\ vfork_pending' = [vfork_pending EXCEPT ![t] = None]
           /\ ready' = Release(left, threads', vfork_pending[t])
    /\ Handled
    /\ UNCHANGED <<last_scheduled, threads_followed>>

Handle ==
    OnSyscall \/ OnSpawn \/ OnOtherEvent \/ OnNewThread \/ OnStopped \/ OnExit

Run ==
    \/ Finish \/ ResumeNext \/ ArmOnly \/ EnterWait
    \/ WaitAny \/ WaitPreempted \/ Interrupted \/ Handle

Ended == pc \in {"done", "failed"}

Terminated == Ended /\ UNCHANGED vars

Step == Run \/ AlarmMissed \/ \E t \in Tid : ~Ended /\ Tracee(t)

Next == Step \/ Terminated

Spec == Init /\ [][Next]_vars

\* The recorder keeps taking steps, a quantum that ends while it is blocked wakes
\* it, and the kernel acts on a SIGSTOP.  Nothing is assumed of the traced
\* program: a thread may spin for ever without a stop of its own.
Fairness ==
    /\ WF_vars(Run)
    /\ \A t \in Tid : /\ WF_vars(TakeStop(t))
                      /\ WF_vars(grp[t] \in stops /\ TraceeLeave(t))

FairSpec == Spec /\ Fairness

-----------------------------------------------------------------------------
TypeOK ==
    /\ kern \in [Tid -> KState]
    /\ phase \in [Tid -> {"user", "call", "ret"}]
    /\ grp \in [Tid -> Tid]
    /\ msg \in [Tid -> Tid \cup {None}]
    /\ susp \in [Tid -> Tid \cup {None}]
    /\ stops \subseteq Tid
    /\ owed \subseteq Tid
    /\ alarm \in {"off", "armed", "missed"}
    /\ pc \in {"loop", "armed", "wait", "preempt", "handle", "done", "failed"}
    /\ status \in WaitStatus \cup {None}
    /\ threads \subseteq Tid
    /\ pending \subseteq threads
    /\ resig \subseteq threads
    /\ ready \in Queue
    /\ running \in Tid \cup {None}
    /\ last_scheduled \in Tid
    /\ leader_exit \in {"code", None}
    /\ threads_followed \in Nat \ {0}
    /\ vfork_pending \in [Tid -> Tid \cup {None}]
    /\ out \in Record \cup {None}

\* "The scheduler runs exactly one thread at a time" (sched.rs:6-10): whichever
\* thread the kernel is executing is the one the scheduler believes it resumed.
OneRuns == \A t \in Tid : kern[t] = "run" => running = t

Idle == pc \in {"loop", "armed", "wait", "preempt"}

\* No thread is lost: between two handlers every registered thread the kernel
\* holds stopped will be resumed again, because it is queued or is a vfork parent
\* whose child is still to exit (requeue, on_exit).
NoThreadLost ==
    Idle => \A t \in threads :
        kern[t] = "held" => t \in Range(ready) \cup Range(vfork_pending)

\* A vfork parent is never queued nor resumed while its entry waits for the
\* child: resuming it would waste the single running slot (sched.rs:103-109).
VforkParentParked ==
    \A c \in Tid : vfork_pending[c] # None =>
        running # vfork_pending[c] /\ vfork_pending[c] \notin Range(ready)

NoDup(q) == \A i, j \in DOMAIN q : q[i] = q[j] => i = j

\* The queue holds each thread once, never the running one, and only registered
\* ones, so a thread gets one turn per round.
ReadyIsSet ==
    /\ NoDup(ready)
    /\ Range(ready) \subseteq threads \ {running}

\* on_syscall tells entry from exit stops by pending_enter alone.  Whenever no
\* stop of t is outstanding that guess agrees with the kernel, for every
\* interleaving of preemptions, spawns and execs with the syscall.
PhaseAgrees ==
    Idle => \A t \in threads :
        kern[t] \in {"held", "run"} => (t \in pending <=> phase[t] # "user")

\* A signal the recorder intercepted reaches the thread when it next runs, even
\* when other threads run in between (resume_signal).
SignalsRedelivered ==
    \A t \in Tid : /\ kern[t] = "run" => t \notin owed
                   /\ Idle /\ kern[t] = "held" => (t \in owed <=> t \in resig)

\* The ECHILD arm of run is dead code: while a thread is registered the kernel
\* still has a tracee to report, so the loop only ends by emptying `threads'.
WaitsForSomeone ==
    pc = "wait" => \E t \in Tid : kern[t] \notin {"absent", "gone"}

\* preempt can always reap what it waits for: the thread it blocks on is not a
\* dead first thread whose siblings only this recorder could reap
\* (sched.rs:210-215 says the pending waitpid still reaps the exit).
PreemptReaps ==
    ~ (/\ pc = "preempt"
       /\ kern[running] \in Dead
       /\ ~Reportable(running)
       /\ \A u \in Siblings(running) : kern[u] # "run")

\* How a recording may end.  When run returns, every tracee it ever registered has
\* been reaped; all it can leave behind is a newborn whose first stop it never
\* waited for, which PTRACE_O_EXITKILL then ends ("Run every thread to completion",
\* sched.rs:139).  It fails only because a thread was killed by a sibling between a
\* stop the recorder has seen and the request it makes next (the `?' of resume_next
\* and of the handlers): never on a thread that ended by itself.
RunEndsClean ==
    /\ pc = "done" => \A t \in Tid :
          kern[t] \notin {"absent", "gone"} => kern[t] = "sigstop" /\ phase[t] = "user"
    /\ pc = "failed" => \E t \in threads \cup {IF status = None THEN Leader ELSE status.tid} :
          kern[t] \in Dead /\ \E u \in Tid \ {t} : grp[u] = grp[t] /\ kern[u] \in Dead \cup {"gone"}

\* Starvation freedom: a queued thread is resumed (or dies), although the running
\* one may never stop by itself; this is what the preemption timer is for.
ReadyGetsTurn ==
    \A t \in Tid : t \in Range(ready) ~> (running = t \/ t \notin threads \/ Ended)

\* Once every tracee is dead the recorder notices and returns.
DeathsNoticed == (\A t \in Tid : kern[t] \in Dead \cup {"absent", "gone"}) ~> pc = "done"

=============================================================================
