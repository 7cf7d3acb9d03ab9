--------------------------- MODULE ReplaySession ---------------------------
(***************************************************************************)
(* A single-threaded replay session (crates/replay/src/session.rs): the     *)
(* API a client calls, the drive loop that follows a ptrace-stopped tracee *)
(* through the trace, the fork-snapshot checkpoints it leaves on the way,  *)
(* and the hardware watchpoint it carries across restores.                 *)
(*                                                                         *)
(* The tracee is deterministic: an execution is a sequence of steps, each  *)
(* a stop (a syscall entry or exit, a signal) or a write to the watched    *)
(* range, which stops it only while the debug registers are armed.  Each   *)
(* spawn takes one of the executions Runs; the recorded one is the one     *)
(* Records describes.                                                      *)
(***************************************************************************)
EXTENDS CheckpointSelect, FiniteSets

CONSTANTS
    Pid,        \* process ids the kernel can hand out (and hand out again)
    Records,    \* the trace: [seq, kind, nr]
    Runs,       \* the executions a spawned target may take: steps [stop, nr]
    Injected,   \* the syscalls whose result is fed from the trace
    Target,     \* sequence numbers clients ask for
    Interval,   \* checkpoint intervals clients set
    MappedFrom, \* the watched address is readable once the tracee got this far
    Ops         \* which of the operations of AllOps the client uses

IsSeq(s) == Len(s) \in Nat /\ DOMAIN s = 1..Len(s)

\* A single-threaded trace, numbered upwards, and executions of any stops.
ASSUME SessionAssumption ==
    /\ Pid # {} /\ Target \subseteq Seqno /\ Interval \subseteq Nat
    /\ None \notin {"inject", "real", "exited", "signaled", "SIGTRAP"}
    /\ IsSeq(Records)
    /\ \A i \in DOMAIN Records :
          /\ Records[i].kind \in {"SyscallEnter", "SyscallExit", "Signal", "Checkpoint"}
          /\ Records[i].seq \in Seqno /\ Records[i].seq # U64Max
          /\ \A j \in DOMAIN Records : i < j => Records[i].seq < Records[j].seq
    /\ \A run \in Runs :
          IsSeq(run) /\ \A i \in DOMAIN run : run[i].stop \in {"syscall", "signal", "write"}

AllOps == {"step_to", "restore_to", "run_to_end", "watch", "clear_watch", "drop"}

VARIABLES
    procs,              \* the kernel's processes
    pid, cursor, current_seq, pending, resume_signal, finished,
    checkpoint_interval, checkpoints, watchpoint, last_value,
    rewound,            \* the tracee was taken back or replaced since last_value was read
    hit,                \* the latest WatchHit, with what the range really held
    pc,                 \* "idle", "drive" or "dropped"
    stop_at,            \* drive's argument
    result,             \* what the last call returned
    asked,              \* the seq of the run_to being served or last served
    answer,             \* where the last run_to left the session
    diverged            \* the record at which this tracee, or the one it was forked from,
                        \* was found to diverge

seat == <<pid, cursor, current_seq, pending, resume_signal, finished>>
watch == <<watchpoint, last_value, hit, rewound>>
call == <<pc, stop_at, result, asked, answer>>
vars == <<procs, seat, checkpoint_interval, checkpoints, watch, call, diverged>>

Errors == {"Diverged", "UnexpectedRecord", "ScheduleDiverged", "TraceExhausted",
           "Ptrace", "Memory"}
SigTrap == "SIGTRAP"
\* Answers of a run_to that are not a position in the trace.
End == U64Max + 1       \* the tracee has exited
NoAnswer == U64Max + 2  \* an error

Free == [st |-> "free", run |-> <<>>, pos |-> 0, armed |-> FALSE, fed |-> None]
AtEntry(run) == [st |-> "stopped", run |-> run, pos |-> 0, armed |-> FALSE, fed |-> None]

\* fork copies the address space and the registers, not the debug registers.
ForkOf(p) == [p EXCEPT !.armed = FALSE]

\* Pid bounds the processes alive at a time.
Room(P) == \E p \in Pid : P[p].st = "free"
FreshPid(P) == CHOOSE p \in Pid : P[p].st = "free"

\* What the watched range holds after the first i steps of an execution.
ValueAt(run, i) ==
    LET W == {j \in 1..i : run[j].stop = "write"}
    IN  IF W = {} THEN "initial" ELSE run[CHOOSE j \in W : \A k \in W : k <= j].nr

\* The step at which a resumed process next stops; one past the last is its exit.
NextStop(p) ==
    LET stops(i) == i > Len(p.run) \/ p.run[i].stop # "write" \/ p.armed
    IN  CHOOSE i \in (p.pos + 1)..(Len(p.run) + 1) :
            stops(i) /\ \A j \in (p.pos + 1)..(i - 1) : ~stops(j)

-----------------------------------------------------------------------------
Init ==
    /\ \E run \in Runs :
           procs = [p \in Pid |-> IF p = FreshPid([q \in Pid |-> Free]) THEN AtEntry(run) ELSE Free]
    /\ pid = FreshPid([q \in Pid |-> Free])
    /\ cursor = 0 /\ current_seq = None /\ pending = None
    /\ resume_signal = None /\ finished = None
    /\ checkpoint_interval = 0 /\ checkpoints = <<>>
    /\ watchpoint = FALSE /\ last_value = None /\ hit = None /\ rewound = FALSE
    /\ pc = "idle" /\ stop_at = None /\ result = "ok" /\ asked = None
    /\ answer = None /\ diverged = None

Return(r) ==
    /\ pc' = "idle" /\ result' = r /\ stop_at' = None
    /\ answer' = IF asked = None THEN answer
                 ELSE IF r = "running" THEN current_seq ELSE IF r \in Errors THEN NoAnswer ELSE End
    /\ UNCHANGED asked

-----------------------------------------------------------------------------
(* Restarting: plan_start, restore_to_checkpoint, respawn.                 *)

CheckpointSeqs == [i \in DOMAIN checkpoints |-> checkpoints[i].seq]
PlanStart(t) == nearest_at_or_before(CheckpointSeqs, t)
StartSeq(t) == IF PlanStart(t) = None THEN 0 ELSE checkpoints[PlanStart(t)].seq

Mutant_KillReaped(P) == [P EXCEPT ![pid] = Free]

\* kill_active: an exited tracee has been reaped already.
KillActive(P) == IF finished = None THEN [P EXCEPT ![pid] = Free] ELSE P

Mutant_NoRearm(p) == p

\* rearm_watchpoint
Rearm(p) == [p EXCEPT !.armed = watchpoint]

Mutant_ReuseSnapshot(cp) ==
    /\ procs' = [KillActive(procs) EXCEPT ![cp.snapshot].armed = watchpoint]
    /\ pid' = cp.snapshot

\* fork_snapshot of the snapshot, then kill_active: the fresh process is forked
\* before the old one is reaped.
SeatOn(cp) ==
    LET fresh == FreshPid(procs)
    IN  /\ Room(procs)
        /\ procs' = KillActive([procs EXCEPT ![fresh] = Rearm(ForkOf(procs[cp.snapshot]))])
        /\ pid' = fresh

RestoreToCheckpoint(cp) ==
    /\ SeatOn(cp)
    /\ cursor' = cp.cursor /\ current_seq' = cp.current_seq
    /\ pending' = None /\ resume_signal' = None /\ finished' = None
    /\ diverged' = cp.diverged

Respawn ==
    /\ \E run \in Runs :
          LET left == KillActive(procs)
              fresh == FreshPid(left)
          IN  Room(left) /\ procs' = [left EXCEPT ![fresh] = Rearm(AtEntry(run))] /\ pid' = fresh
    /\ cursor' = 0 /\ current_seq' = None
    /\ pending' = None /\ resume_signal' = None /\ finished' = None
    /\ diverged' = None

Restart(t) ==
    /\ IF PlanStart(t) = None THEN Respawn ELSE RestoreToCheckpoint(checkpoints[PlanStart(t)])
    /\ rewound' = TRUE

-----------------------------------------------------------------------------
(* The client's calls.                                                     *)

Call(t, a) ==
    /\ pc = "idle"
    /\ pc' = "drive" /\ stop_at' = t /\ asked' = a
    /\ UNCHANGED <<result, answer, checkpoint_interval, checkpoints, watchpoint, last_value, hit>>

RunTo(t) ==
    /\ Call(t, t)
    /\ IF should_restart(current_seq, StartSeq(t), t)
         THEN Restart(t)
         ELSE UNCHANGED <<procs, seat, diverged, rewound>>

StepTo(t) == "step_to" \in Ops /\ Call(t, None) /\ UNCHANGED <<procs, seat, diverged, rewound>>

RunToEnd == "run_to_end" \in Ops /\ Call(None, None) /\ UNCHANGED <<procs, seat, diverged, rewound>>

Idle == pc = "idle" /\ UNCHANGED <<pc, stop_at, answer>> /\ asked' = None

RestoreTo(t) ==
    /\ "restore_to" \in Ops
    /\ Idle
    /\ Restart(t)
    /\ result' = "ok"
    /\ UNCHANGED <<checkpoint_interval, checkpoints, watchpoint, last_value, hit>>

SetInterval(n) ==
    /\ Idle
    /\ checkpoint_interval' = n /\ result' = "ok"
    /\ UNCHANGED <<procs, seat, checkpoints, watch, diverged>>

\* arm, then read the current value, then remember the request.  The registers of
\* a tracee that has exited cannot be armed.
Watch ==
    /\ "watch" \in Ops
    /\ Idle
    /\ IF finished # None
         THEN result' = "Ptrace" /\ UNCHANGED <<procs, watchpoint, last_value, rewound>>
         ELSE /\ procs' = [procs EXCEPT ![pid].armed = TRUE]
              /\ IF procs[pid].pos >= MappedFrom
                   THEN /\ last_value' = ValueAt(procs[pid].run, procs[pid].pos)
                        /\ watchpoint' = TRUE /\ rewound' = FALSE /\ result' = "ok"
                   ELSE result' = "Memory" /\ UNCHANGED <<watchpoint, last_value, rewound>>
    /\ UNCHANGED <<seat, checkpoint_interval, checkpoints, hit, diverged>>

ClearWatch ==
    /\ "clear_watch" \in Ops
    /\ Idle
    /\ procs' = IF watchpoint /\ finished = None THEN [procs EXCEPT ![pid].armed = FALSE] ELSE procs
    /\ watchpoint' = FALSE /\ last_value' = None /\ result' = "ok"
    /\ UNCHANGED <<seat, checkpoint_interval, checkpoints, hit, rewound, diverged>>

\* take_watch_hits
TakeWatchHits ==
    /\ Idle /\ hit # None
    /\ hit' = None /\ result' = "ok"
    /\ UNCHANGED <<procs, seat, checkpoint_interval, checkpoints, watchpoint, last_value, rewound, diverged>>

Owned == (IF finished = None THEN {pid} ELSE {})
         \cup {checkpoints[i].snapshot : i \in DOMAIN checkpoints}

\* Drop kills and reaps every process the session owns.
Drop ==
    /\ "drop" \in Ops /\ pc = "idle"
    /\ procs' = [p \in Pid |-> IF p \in Owned THEN Free ELSE procs[p]]
    /\ pc' = "dropped"
    /\ UNCHANGED <<seat, checkpoint_interval, checkpoints, watch, stop_at, result, asked, answer, diverged>>

-----------------------------------------------------------------------------
(* drive.  Each action below is one turn of its loop: resume, wait, handle. *)

AtTarget == stop_at # None /\ current_seq # None /\ current_seq >= stop_at

AlreadyFinished ==
    /\ pc = "drive" /\ finished # None
    /\ Return(finished)
    /\ UNCHANGED <<procs, seat, checkpoint_interval, checkpoints, watch, diverged>>

Arrive ==
    /\ pc = "drive" /\ finished = None /\ AtTarget
    /\ Return("running")
    /\ UNCHANGED <<procs, seat, checkpoint_interval, checkpoints, watch, diverged>>

\* The tracee was resumed and has run to its next stop, `here'; a SIGTRAP it has
\* no handler for ends it instead.
Killed == resume_signal = SigTrap
Here == NextStop(procs[pid])
Turn == pc = "drive" /\ finished = None /\ ~AtTarget
StoppedBy(what) ==
    /\ Turn /\ ~Killed
    /\ Here <= Len(procs[pid].run) /\ procs[pid].run[Here].stop = what

Carry == UNCHANGED <<call, checkpoint_interval>>

Fail(e, at) ==
    /\ Return(e)
    /\ diverged' = IF diverged = None THEN at ELSE diverged

\* skip_checkpoints
SkipFrom(c) ==
    CHOOSE i \in c..Len(Records) :
        /\ \A j \in (c + 1)..i : Records[j].kind = "Checkpoint"
        /\ i < Len(Records) => Records[i + 1].kind # "Checkpoint"

\* Is there a record for this stop, and is it of the kind the stop demands?
NextRecord == Records[SkipFrom(cursor) + 1]
Exhausted == SkipFrom(cursor) = Len(Records)

NoRecord ==
    /\ Exhausted
    /\ cursor' = SkipFrom(cursor)
    /\ Fail("TraceExhausted", End)
    /\ UNCHANGED current_seq

WrongKind(kind) ==
    /\ ~Exhausted /\ NextRecord.kind # kind
    /\ cursor' = SkipFrom(cursor) + 1
    /\ Fail("UnexpectedRecord", NextRecord.seq)
    /\ UNCHANGED current_seq

Mutant_NrUnchecked(nr) == TRUE

\* The entry stop's syscall number against the record's.
NrMatches(nr) == NextRecord.nr = nr

WrongNr(nr) ==
    /\ ~Exhausted /\ NextRecord.kind = "SyscallEnter" /\ ~NrMatches(nr)
    /\ cursor' = SkipFrom(cursor) + 1
    /\ Fail("Diverged", NextRecord.seq)
    /\ UNCHANGED current_seq

Consume(kind) ==
    /\ ~Exhausted /\ NextRecord.kind = kind
    /\ cursor' = SkipFrom(cursor) + 1
    /\ current_seq' = NextRecord.seq

\* injection_addr decides whether the syscall is suppressed.
PendingFor(nr) == IF nr \in Injected THEN "inject" ELSE "real"

OnEntry ==
    /\ StoppedBy("syscall") /\ pending = None
    /\ procs' = [procs EXCEPT ![pid].pos = Here]
    /\ resume_signal' = None
    /\ LET nr == procs[pid].run[Here].nr
       IN  \/ (NoRecord \/ WrongKind("SyscallEnter") \/ WrongNr(nr)) /\ UNCHANGED pending
           \/ /\ Consume("SyscallEnter") /\ NrMatches(nr)
              /\ pending' = PendingFor(nr)
              /\ Carry /\ UNCHANGED diverged
    /\ UNCHANGED <<pid, finished, checkpoint_interval, checkpoints, watch>>

\* maybe_checkpoint, after a syscall stop that was handled without error.
SnapshotDue ==
    is_checkpoint_due(IF checkpoints = <<>> THEN None ELSE checkpoints[Len(checkpoints)].seq,
                      current_seq', checkpoint_interval)

\* fork_snapshot: the tracee is left as it was, the child is held stopped.
MaybeCheckpoint(P) ==
    IF SnapshotDue
      THEN LET snap == FreshPid(P)
           IN  /\ Room(P)
               /\ procs' = [P EXCEPT ![snap] = ForkOf(P[pid])]
               /\ checkpoints' = Append(checkpoints,
                     [seq |-> current_seq', cursor |-> cursor', current_seq |-> current_seq',
                      snapshot |-> snap, diverged |-> diverged])
      ELSE procs' = P /\ UNCHANGED checkpoints

\* An injected result reaches the tracee's memory and return register.
Feed(p, r) == IF pending = "inject" THEN [p EXCEPT !.fed = r] ELSE p

OnExit ==
    /\ StoppedBy("syscall") /\ pending # None
    /\ pending' = None
    /\ resume_signal' = None
    /\ LET there == [procs EXCEPT ![pid].pos = Here]
       IN  \/ (NoRecord \/ WrongKind("SyscallExit")) /\ procs' = there /\ UNCHANGED checkpoints
           \/ /\ Consume("SyscallExit")
              /\ MaybeCheckpoint([there EXCEPT ![pid] = Feed(@, NextRecord.seq)])
              /\ Carry /\ UNCHANGED diverged
    /\ UNCHANGED <<pid, finished, checkpoint_interval, watch>>

\* The signal a stop reports; a trap of debug registers the session does not know
\* it armed is an ordinary SIGTRAP to it.
StopSignal == IF procs[pid].run[Here].stop = "signal" THEN procs[pid].run[Here].nr ELSE SigTrap

\* A signal that the trace does not have next is forwarded without a record.
OnSignalStop ==
    /\ StoppedBy("signal") \/ (StoppedBy("write") /\ ~watchpoint)
    /\ procs' = [procs EXCEPT ![pid].pos = Here]
    /\ \/ /\ ~Exhausted /\ NextRecord.kind = "Signal" /\ NextRecord.nr # StopSignal
          /\ cursor' = SkipFrom(cursor) /\ resume_signal' = None
          /\ Fail("ScheduleDiverged", NextRecord.seq)
          /\ UNCHANGED current_seq
       \/ /\ Consume("Signal") /\ NextRecord.nr = StopSignal
          /\ resume_signal' = StopSignal
          /\ Carry /\ UNCHANGED diverged
       \/ /\ Exhausted \/ NextRecord.kind # "Signal"
          /\ cursor' = SkipFrom(cursor) /\ resume_signal' = StopSignal
          /\ Carry /\ UNCHANGED <<current_seq, diverged>>
    /\ UNCHANGED <<pid, pending, finished, checkpoint_interval, checkpoints, watch>>

Mutant_LastValueKept(new) == last_value

\* The value read at this hit is the old one of the next.
LastValue(new) == new

OnWatchHit ==
    /\ StoppedBy("write") /\ watchpoint
    /\ LET run == procs[pid].run
       IN  /\ hit' = [seq |-> current_seq, old |-> last_value, new |-> run[Here].nr,
                      was |-> ValueAt(run, Here - 1), rewound |-> rewound]
           /\ last_value' = LastValue(run[Here].nr)
           /\ rewound' = FALSE
    /\ procs' = [procs EXCEPT ![pid].pos = Here]
    /\ resume_signal' = None
    /\ Carry
    /\ UNCHANGED <<pid, cursor, current_seq, pending, finished, checkpoints, watchpoint, diverged>>

\* The tracee is gone and reaped: Exited, or Signaled by the stray trap.
OnGone ==
    /\ Turn /\ (Killed \/ Here > Len(procs[pid].run))
    /\ procs' = [procs EXCEPT ![pid] = Free]
    /\ resume_signal' = None
    /\ finished' = IF Killed THEN "signaled" ELSE "exited"
    /\ Return(finished')
    /\ UNCHANGED <<pid, cursor, current_seq, pending, checkpoint_interval, checkpoints, watch, diverged>>

Drive ==
    AlreadyFinished \/ Arrive \/ OnEntry \/ OnExit \/ OnSignalStop \/ OnWatchHit \/ OnGone

Next ==
    \/ Drive
    \/ \E t \in Target : RunTo(t) \/ StepTo(t) \/ RestoreTo(t)
    \/ \E n \in Interval : SetInterval(n)
    \/ RunToEnd \/ Watch \/ ClearWatch \/ TakeWatchHits \/ Drop

\* A call runs until it returns: drive keeps taking turns, and a resumed tracee
\* reaches its next stop.
Spec == Init /\ [][Next]_vars /\ WF_vars(Drive)

-----------------------------------------------------------------------------
Passed(run, i) == {j \in 1..i : run[j].stop # "write"}
Consumed(c) == {j \in 1..c : Records[j].kind # "Checkpoint"}

\* A process that has made the stops of the first c records, and is inside a
\* syscall exactly when the last of them is an entry.
SeatedAt(p, c, seq) ==
    /\ p.st = "stopped"
    /\ Cardinality(Passed(p.run, p.pos)) = Cardinality(Consumed(c))
    /\ seq = IF Consumed(c) = {} THEN None
             ELSE Records[CHOOSE j \in Consumed(c) : \A k \in Consumed(c) : k <= j].seq

LastFed(c) ==
    LET F == {j \in Consumed(c) : Records[j].kind = "SyscallExit" /\ Records[j].nr \in Injected}
    IN  IF F = {} THEN None ELSE Records[CHOOSE j \in F : \A k \in F : k <= j].seq

\* The entry that awaits its exit after the first c records: none or one.
Opens(c) ==
    {i \in Consumed(c) :
        /\ Records[i].kind = "SyscallEnter"
        /\ \A k \in Consumed(c) : k > i => Records[k].kind = "Signal"}

Matches(s, r) == s.stop = (IF r.kind = "Signal" THEN "signal" ELSE "syscall") /\ s.nr = r.nr

\* A trace whose syscalls are whole, executions that all make the recorded stops in
\* the recorded order, and a watched address that is readable from the start.
Faithful ==
    /\ MappedFrom = 0
    /\ \A j \in DOMAIN Records :
          /\ Records[j].kind = "SyscallEnter" => Opens(j - 1) = {}
          /\ Records[j].kind = "SyscallExit" => \E i \in Opens(j - 1) : Records[i].nr = Records[j].nr
          /\ Records[j].kind = "Signal" => Records[j].nr \notin {None, SigTrap}
    /\ \A run \in Runs :
          /\ Cardinality(Passed(run, Len(run))) = Cardinality(Consumed(Len(Records)))
          /\ \A i \in Passed(run, Len(run)), j \in Consumed(Len(Records)) :
                Cardinality(Passed(run, i)) = Cardinality(Consumed(j)) => Matches(run[i], Records[j])

\* The session and the tracee are in step after any sequence of calls: as many
\* stops made as records consumed, an exit awaited exactly inside a syscall, a
\* signal to re-inject exactly after a signal stop, and the last injected result
\* is the one recorded at this point of the execution.  A faithful execution is
\* never reported as diverged, whichever call drives it.
InStep ==
    /\ result \notin Errors \ {"Ptrace"}
    /\ pc # "dropped" /\ finished = None =>
        LET p == procs[pid]
        IN  /\ SeatedAt(p, cursor, current_seq)
            /\ p.fed = LastFed(cursor)
            /\ pending # None <=> Opens(cursor) # {}
            /\ resume_signal # None <=> (p.pos > 0 /\ p.run[p.pos].stop = "signal")

\* Checkpoints are in ascending order, and each snapshot is still the process it
\* was when it was taken: held stopped at a clean boundary, in step with the
\* cursor stored beside it, never run and never killed by a restore.
SnapshotsPristine ==
    pc # "dropped" =>
        \A i \in DOMAIN checkpoints :
            LET cp == checkpoints[i]
                p == procs[cp.snapshot]
            IN  /\ SeatedAt(p, cp.cursor, cp.seq) /\ cp.current_seq = cp.seq
                /\ Records[cp.cursor].kind = "SyscallExit"
                /\ ~p.armed /\ p.fed = LastFed(cp.cursor)
                /\ \A j \in DOMAIN checkpoints : i < j => cp.seq < checkpoints[j].seq

\* Every process alive is the active tracee or one snapshot, each owned once, so
\* that nothing outlives the session and no restore runs a snapshot.
NoOrphans ==
    /\ {p \in Pid : procs[p].st # "free"} = IF pc = "dropped" THEN {} ELSE Owned
    /\ pc # "dropped" =>
          \A i, j \in DOMAIN checkpoints :
              /\ checkpoints[i].snapshot = checkpoints[j].snapshot => i = j
              /\ finished = None => checkpoints[i].snapshot # pid

\* The watchpoint the client set is armed on the active tracee, across every
\* restore and respawn, errors of other calls included.
WatchFollows ==
    pc # "dropped" /\ finished = None /\ watchpoint => procs[pid].armed

\* Where run_to(t) must leave the session: at the first record at or after t, or
\* at the end if there is none.  A session that has run past the last record is
\* not taken back to it, and answers that the tracee is gone.
Lands ==
    LET positions == {Records[j].seq : j \in {i \in DOMAIN Records : Records[i].kind # "Checkpoint"}}
        from(t) == {s \in positions : s >= t}
    IN  [t \in Target |->
            {s \in from(t) : \A u \in from(t) : s <= u}
            \cup IF Cardinality(from(t)) <= 1 THEN {End} ELSE {}]

\* The run_to being served.
Serving == IF pc = "drive" THEN asked ELSE None

TT == INSTANCE TimeTravel WITH req <- Serving, at <- answer

\* The session implements TimeTravel, liveness included: every call returns, and
\* where run_to ends is settled by its argument ("Drive replay to `seq`",
\* session.rs:164), from wherever the session is and with whatever checkpoints.
ImplementsTimeTravel == TT!Spec

\* The value a hit reports as old is what the range held before the write
\* (watchpoint.rs:46-48), from hit to hit and across clear_watch and watch.  The
\* first hit after the session went backward is excepted: last_value is not reset
\* by restore_to_checkpoint nor by respawn and is the abandoned future's.
OldValueTrue == hit # None /\ ~hit.rewound => hit.old = hit.was

SyscallStops(run, i) == {j \in 1..i : run[j].stop = "syscall"}
SyscallRecords(c) == {j \in 1..c : Records[j].kind \in {"SyscallEnter", "SyscallExit"}}

\* Whatever the tracee does and whatever trace it is held against, while no error
\* has been found its syscalls are the recorded ones, one by one: as many stops as
\* records, and the n-th stop, when it is an entry, has the n-th record's number.
SyscallsVerified ==
    pc # "dropped" /\ finished = None /\ diverged = None =>
        LET p == procs[pid]
            made(i) == Cardinality(SyscallStops(p.run, i))
            told(j) == Cardinality(SyscallRecords(j))
        IN  /\ made(p.pos) = told(cursor)
            /\ \A i \in SyscallStops(p.run, p.pos), j \in SyscallRecords(cursor) :
                  made(i) = told(j) /\ made(i) % 2 = 1 => p.run[i].nr = Records[j].nr
=============================================================================
