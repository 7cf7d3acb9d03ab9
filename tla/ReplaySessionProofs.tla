------------------------ MODULE ReplaySessionProofs ------------------------
(***************************************************************************)
(* A replay session for any trace, executions, pids and sequence of client *)
(* calls (crates/replay/src/session.rs, checkpoint_select.rs).             *)
(***************************************************************************)
EXTENDS ReplaySession, NumberLemmas, FiniteSetTheorems

-----------------------------------------------------------------------------
(* The searches: the next stop, the next record, the nearest checkpoint.    *)

\* A resumed tracee runs over the writes nobody watches, up to its next stop.
LEMMA NextStopIs ==
    ASSUME NEW p, IsSeq(p.run), p.pos \in 0..Len(p.run)
    PROVE  /\ NextStop(p) \in (p.pos + 1)..(Len(p.run) + 1)
           /\ NextStop(p) <= Len(p.run) => p.run[NextStop(p)].stop # "write" \/ p.armed
           /\ \A j \in (p.pos + 1)..(NextStop(p) - 1) : p.run[j].stop = "write" /\ ~p.armed
<1> DEFINE stops(i) == i > Len(p.run) \/ p.run[i].stop # "write" \/ p.armed
           n == Len(p.run)
           S == {i \in (p.pos + 1)..(n + 1) : stops(i)}
<1>0. n \in Nat /\ p.pos \in Nat /\ p.pos <= n BY DEF IsSeq
<1>1. n + 1 \in S BY <1>0
<1>2. S \in SUBSET Nat BY <1>0
<1>3. PICK m \in S : \A x \in S : m <= x
  <2> HIDE DEF S
  <2> QED BY Zenon, <1>1, <1>2, LeastExists
<1>4. m \in (p.pos + 1)..(n + 1) /\ stops(m) BY Zenon, <1>3
<1>5. \A j \in (p.pos + 1)..(m - 1) : ~stops(j)
  BY <1>0, <1>3, <1>4
<1>6. /\ NextStop(p) \in (p.pos + 1)..(n + 1) /\ stops(NextStop(p))
      /\ \A j \in (p.pos + 1)..(NextStop(p) - 1) : ~stops(j)
  BY Zenon, <1>4, <1>5 DEF NextStop
<1>7. PICK h \in Nat : h = NextStop(p) BY <1>0, <1>6
<1>8. h <= n => ~(h > n) BY <1>0
<1> QED BY Zenon, <1>6, <1>7, <1>8

\* skip_checkpoints stops at the end or before a record that is no marker.
LEMMA SkipFromIs ==
    ASSUME NEW c \in 0..Len(Records)
    PROVE  /\ SkipFrom(c) \in c..Len(Records)
           /\ \A j \in (c + 1)..SkipFrom(c) : Records[j].kind = "Checkpoint"
           /\ SkipFrom(c) < Len(Records) => Records[SkipFrom(c) + 1].kind # "Checkpoint"
<1> DEFINE n == Len(Records)
           S == {i \in c..n : i < n => Records[i + 1].kind # "Checkpoint"}
<1>0. n \in Nat /\ c \in Nat /\ c <= n BY SessionAssumption DEF IsSeq
<1>1. n \in S /\ S \in SUBSET Nat BY <1>0
<1>2. PICK m \in S : \A x \in S : m <= x
  <2> HIDE DEF S
  <2> QED BY Zenon, <1>1, LeastExists
<1>3. m \in c..n /\ (m < n => Records[m + 1].kind # "Checkpoint") BY Zenon, <1>2
<1>4. ASSUME NEW j \in (c + 1)..m PROVE Records[j].kind = "Checkpoint"
  <2>1. j - 1 \in c..n /\ j - 1 < m /\ j - 1 < n /\ (j - 1) + 1 = j BY <1>0, <1>3
  <2>2. j - 1 \notin S BY <1>2, <1>3, <2>1
  <2> QED BY Zenon, <2>1, <2>2
<1>5. \E i \in c..n : /\ \A j \in (c + 1)..i : Records[j].kind = "Checkpoint"
                      /\ i < n => Records[i + 1].kind # "Checkpoint"
  BY Zenon, <1>3, <1>4
<1> QED BY Zenon, <1>5 DEF SkipFrom

-----------------------------------------------------------------------------
(* The inductive invariant.                                                *)

ProcFields == {"st", "run", "pos", "armed", "fed"}

IsSequence(s) == \E S : s \in Seq(S)

ProcOK(p) ==
    /\ DOMAIN p = ProcFields
    /\ p.st # "free" => p.run \in Runs /\ p.pos \in 0..Len(p.run)

CheckpointOK(cp) ==
    /\ cp.snapshot \in Pid
    /\ cp.cursor \in 1..Len(Records) /\ Records[cp.cursor].kind = "SyscallExit"
    /\ cp.seq = Records[cp.cursor].seq /\ cp.current_seq = cp.seq

\* What every variable holds; a checkpoint is of the record its cursor is past.
ShapeInv ==
    /\ DOMAIN procs = Pid /\ \A p \in Pid : ProcOK(procs[p])
    /\ pid \in Pid /\ cursor \in 0..Len(Records)
    /\ checkpoint_interval \in Nat
    /\ current_seq # None => current_seq \in Seqno
    /\ IsSequence(checkpoints) /\ \A i \in DOMAIN checkpoints : CheckpointOK(checkpoints[i])

\* Checkpoints ascend, and a snapshot's debug registers are never armed.
OrderInv ==
    /\ \A i, j \in DOMAIN checkpoints : i < j => checkpoints[i].seq < checkpoints[j].seq
    /\ pc # "dropped" => \A i \in DOMAIN checkpoints : ~procs[checkpoints[i].snapshot].armed

\* While the session watches and has not gone backward, every write was seen.
ValueInv ==
    /\ WatchFollows /\ OldValueTrue
    /\ pc # "dropped" /\ finished = None /\ watchpoint /\ ~rewound =>
          last_value = ValueAt(procs[pid].run, procs[pid].pos)

Made(p, i) == Cardinality(SyscallStops(p.run, i))
Told(j) == Cardinality(SyscallRecords(j))

\* p has made the syscall stops of the first c records.
Verified(p, c) ==
    /\ Made(p, p.pos) = Told(c)
    /\ \A i \in SyscallStops(p.run, p.pos), j \in SyscallRecords(c) :
          Made(p, i) = Told(j) /\ Made(p, i) % 2 = 1 => p.run[i].nr = Records[j].nr

\* The same for every snapshot taken before an error, all outside a syscall.
CheckInv ==
    /\ pc # "dropped" /\ finished = None /\ diverged = None =>
          Verified(procs[pid], cursor) /\ (pending = None <=> Told(cursor) % 2 = 0)
    /\ pc # "dropped" =>
          \A i \in DOMAIN checkpoints :
              checkpoints[i].diverged = None =>
                  /\ Verified(procs[checkpoints[i].snapshot], checkpoints[i].cursor)
                  /\ Told(checkpoints[i].cursor) % 2 = 0

SessionInv == ShapeInv /\ NoOrphans /\ OrderInv /\ ValueInv /\ CheckInv

-----------------------------------------------------------------------------
(* What a step does, by kind.                                              *)

\* A call that finds nothing to do, or only changes what is to be done.
Still ==
    /\ UNCHANGED <<procs, seat, checkpoints, watchpoint, last_value, rewound, diverged>>
    /\ hit' \in {hit, None} /\ checkpoint_interval' \in {checkpoint_interval} \cup Interval
    /\ pc' \in {"idle", "drive"}

\* The session is moved to a process of its own at pid f, a copy N of a snapshot or a
\* fresh spawn, and the process it had is gone.
Reseated(f, N) ==
    /\ f \in Pid /\ pid' = f /\ DOMAIN procs' = Pid /\ procs'[f] = N
    /\ \A p \in Pid \ {f} : procs'[p] = IF finished = None /\ p = pid THEN Free ELSE procs[p]
    /\ \A i \in DOMAIN checkpoints : checkpoints[i].snapshot # f
    /\ ProcOK(N) /\ N.st # "free" /\ N.armed = watchpoint
    /\ pending' = None /\ resume_signal' = None /\ finished' = None
    /\ pc' \in {"idle", "drive"} /\ rewound' = TRUE
    /\ UNCHANGED <<checkpoint_interval, checkpoints, watchpoint, last_value, hit>>

Restored(f, N, k) ==
    /\ Reseated(f, N) /\ k \in DOMAIN checkpoints
    /\ N.run = procs[checkpoints[k].snapshot].run /\ N.pos = procs[checkpoints[k].snapshot].pos
    /\ N.fed = procs[checkpoints[k].snapshot].fed /\ N.st = procs[checkpoints[k].snapshot].st
    /\ cursor' = checkpoints[k].cursor /\ current_seq' = checkpoints[k].current_seq
    /\ diverged' = checkpoints[k].diverged

Respawned(f, N) ==
    /\ Reseated(f, N) /\ N.st = "stopped" /\ N.run \in Runs /\ N.pos = 0 /\ N.fed = None
    /\ cursor' = 0 /\ current_seq' = None /\ diverged' = None

\* The active process has run to its next stop.
Advanced(Q) ==
    /\ DOMAIN Q = Pid /\ \A p \in Pid \ {pid} : Q[p] = procs[p]
    /\ DOMAIN Q[pid] = ProcFields /\ Q[pid].st = procs[pid].st /\ Q[pid].run = procs[pid].run
    /\ Q[pid].armed = procs[pid].armed /\ Q[pid].pos = Here

Snapshot ==
    [seq |-> current_seq', cursor |-> cursor', current_seq |-> current_seq',
     snapshot |-> FreshPid(procs), diverged |-> diverged]

TakesSnapshot(Q) ==
    /\ OnExit /\ Consume("SyscallExit") /\ SnapshotDue /\ diverged' = diverged
    /\ FreshPid(procs) \in Pid /\ procs[FreshPid(procs)].st = "free"
    /\ procs' = [Q EXCEPT ![FreshPid(procs)] = ForkOf(Q[pid])]
    /\ checkpoints' = Append(checkpoints, Snapshot)

TurnActions == OnEntry \/ OnExit \/ OnSignalStop \/ OnWatchHit

Turned(Q) ==
    /\ TurnActions /\ Turn /\ Here <= Len(procs[pid].run) /\ Advanced(Q)
    /\ (procs' = Q /\ UNCHANGED checkpoints) \/ TakesSnapshot(Q)
    /\ UNCHANGED <<pid, finished, watchpoint, checkpoint_interval>>
    /\ pc' \in {"idle", "drive"}

\* A sequence that is appended to.
LEMMA SequenceGrows ==
    ASSUME NEW s, NEW e, IsSequence(s)
    PROVE  /\ IsSequence(Append(s, e)) /\ Len(s) \in Nat /\ DOMAIN s = 1..Len(s)
           /\ Len(Append(s, e)) = Len(s) + 1 /\ DOMAIN Append(s, e) = 1..(Len(s) + 1)
           /\ Append(s, e)[Len(s) + 1] = e
           /\ \A i \in 1..Len(s) : Append(s, e)[i] = s[i]
<1>1. PICK S : s \in Seq(S) BY Zenon DEF IsSequence
<1>2. s \in Seq(S \cup {e}) /\ e \in S \cup {e} BY <1>1
<1>3. Append(s, e) \in Seq(S \cup {e}) BY <1>2
<1> QED BY <1>2, <1>3 DEF IsSequence

\* plan_start picks a checkpoint at or before the target, if there is one.
LEMMA PlanStartIs ==
    ASSUME ShapeInv, NEW t \in Target, PlanStart(t) # None
    PROVE  /\ PlanStart(t) \in DOMAIN checkpoints /\ checkpoints[PlanStart(t)].seq <= t
           /\ \A j \in DOMAIN checkpoints : j > PlanStart(t) => checkpoints[j].seq > t
<1> DEFINE n == Len(checkpoints)
           S == {i \in DOMAIN checkpoints : checkpoints[i].seq <= t}
<1>1. n \in Nat /\ DOMAIN checkpoints = 1..n BY Zenon, SequenceGrows DEF ShapeInv
<1>2. DOMAIN CheckpointSeqs = DOMAIN checkpoints
      /\ \A i \in DOMAIN checkpoints : CheckpointSeqs[i] = checkpoints[i].seq
  BY Zenon DEF CheckpointSeqs
<1>3. \E i \in DOMAIN checkpoints : checkpoints[i].seq <= t
  BY Zenon, <1>2 DEF PlanStart, nearest_at_or_before
<1>4. S \in SUBSET (0..n) /\ S # {} BY <1>1, <1>3
<1>5. PICK m \in S : \A x \in S : x <= m
  <2> HIDE DEF S, n
  <2> QED BY Zenon, <1>1, <1>4, GreatestExists
<1>6. ASSUME NEW j \in DOMAIN checkpoints, j > m PROVE checkpoints[j].seq > t
  <2>1. checkpoints[j].seq \in Nat /\ t \in Nat /\ j \in Nat /\ m \in Nat
    BY <1>1, SessionAssumption, SelectAssumption DEF ShapeInv, CheckpointOK, Seqno, IsSeq
  <2>2. j \notin S BY <1>5, <1>6, <2>1
  <2> QED BY <2>1, <2>2
<1>7. \E i \in DOMAIN CheckpointSeqs :
          CheckpointSeqs[i] <= t /\ \A j \in DOMAIN CheckpointSeqs : j > i => CheckpointSeqs[j] > t
  BY Zenon, <1>2, <1>5, <1>6
<1>8. /\ PlanStart(t) \in DOMAIN CheckpointSeqs /\ CheckpointSeqs[PlanStart(t)] <= t
      /\ \A j \in DOMAIN CheckpointSeqs : j > PlanStart(t) => CheckpointSeqs[j] > t
  BY Zenon, <1>7 DEF PlanStart, nearest_at_or_before
<1> QED BY Zenon, <1>2, <1>8

\* The processes the session owns are alive, each once.
LEMMA OwnedAlive ==
    ASSUME ShapeInv, NoOrphans, pc # "dropped"
    PROVE  /\ finished = None => procs[pid].st # "free" /\ procs[pid].run \in Runs
                /\ IsSeq(procs[pid].run) /\ procs[pid].pos \in 0..Len(procs[pid].run)
           /\ \A i \in DOMAIN checkpoints :
                /\ checkpoints[i].snapshot \in Pid /\ procs[checkpoints[i].snapshot].st # "free"
                /\ finished = None => checkpoints[i].snapshot # pid
           /\ \A p \in Pid : procs[p].st # "free" =>
                (finished = None /\ p = pid) \/ \E i \in DOMAIN checkpoints : p = checkpoints[i].snapshot
<1>1. {p \in Pid : procs[p].st # "free"} = Owned BY Zenon DEF NoOrphans
<1>2. finished = None => procs[pid].st # "free" BY Zenon, <1>1 DEF Owned
<1>3. ASSUME finished = None
      PROVE  procs[pid].run \in Runs /\ IsSeq(procs[pid].run) /\ procs[pid].pos \in 0..Len(procs[pid].run)
  BY Zenon, <1>2, <1>3, SessionAssumption DEF ShapeInv, ProcOK
<1>4. ASSUME NEW i \in DOMAIN checkpoints
      PROVE  /\ checkpoints[i].snapshot \in Pid /\ procs[checkpoints[i].snapshot].st # "free"
             /\ finished = None => checkpoints[i].snapshot # pid
  BY Zenon, <1>1 DEF Owned, NoOrphans, ShapeInv, CheckpointOK
<1>5. ASSUME NEW p \in Pid, procs[p].st # "free"
      PROVE  (finished = None /\ p = pid) \/ \E i \in DOMAIN checkpoints : p = checkpoints[i].snapshot
  BY Zenon, <1>1, <1>5 DEF Owned
<1> QED BY Zenon, <1>2, <1>3, <1>4, <1>5

LEMMA FreshIs == ASSUME NEW P, Room(P) PROVE FreshPid(P) \in Pid /\ P[FreshPid(P)].st = "free"
BY Zenon DEF Room, FreshPid

LEMMA FreeOK == ProcOK(Free) /\ Free.st = "free" /\ Free.armed = FALSE
BY Zenon DEF ProcOK, Free, ProcFields

Kept == UNCHANGED <<checkpoint_interval, checkpoints, watchpoint, last_value, hit>>

\* restore_to_checkpoint: the snapshot itself is not touched.
LEMMA RestoreKind ==
    ASSUME ShapeInv, NoOrphans, pc # "dropped", NEW k \in DOMAIN checkpoints,
           RestoreToCheckpoint(checkpoints[k]), rewound' = TRUE, Kept, pc' \in {"idle", "drive"}
    PROVE  \E f, N : Restored(f, N, k)
<1> DEFINE f == FreshPid(procs)
           old == procs[checkpoints[k].snapshot]
           N == Rearm(ForkOf(old))
           P == [procs EXCEPT ![f] = N]
<1>1. f \in Pid /\ procs[f].st = "free" BY Zenon, FreshIs DEF RestoreToCheckpoint, SeatOn
<1>2. /\ old.st # "free" /\ ProcOK(old) BY Zenon, OwnedAlive DEF ShapeInv
<1>3. /\ DOMAIN N = ProcFields /\ N.st = old.st /\ N.run = old.run /\ N.pos = old.pos
      /\ N.fed = old.fed /\ N.armed = watchpoint
  BY Zenon, <1>2 DEF ProcOK, ProcFields, Rearm, ForkOf
<1>4. procs' = KillActive(P) /\ pid' = f BY Zenon DEF RestoreToCheckpoint, SeatOn
<1>5. finished = None => pid # f BY Zenon, <1>1, OwnedAlive
<1>6. \A i \in DOMAIN checkpoints : checkpoints[i].snapshot # f BY Zenon, <1>1, OwnedAlive
<1> HIDE DEF f, N, old
<1>7. DOMAIN P = Pid /\ P[f] = N /\ \A p \in Pid \ {f} : P[p] = procs[p]
  BY Zenon, <1>1 DEF ShapeInv
<1> HIDE DEF P
<1>8. /\ DOMAIN procs' = Pid /\ procs'[f] = N
      /\ \A p \in Pid \ {f} : procs'[p] = IF finished = None /\ p = pid THEN Free ELSE procs[p]
  BY Zenon, <1>1, <1>4, <1>5, <1>7 DEF KillActive, ShapeInv
<1>9. ProcOK(N) BY Zenon, <1>2, <1>3 DEF ProcOK
<1>10. Reseated(f, N)
  BY Zenon, <1>1, <1>2, <1>3, <1>4, <1>6, <1>8, <1>9 DEF Reseated, RestoreToCheckpoint, Kept
<1>11. Restored(f, N, k)
  BY Zenon, <1>3, <1>10 DEF Restored, RestoreToCheckpoint, old
<1> QED BY Zenon, <1>11

\* respawn: the old process is gone before the new one is there.
LEMMA RespawnKind ==
    ASSUME ShapeInv, NoOrphans, pc # "dropped", Respawn, rewound' = TRUE, Kept,
           pc' \in {"idle", "drive"}
    PROVE  \E f, N : Respawned(f, N)
<1> DEFINE left == KillActive(procs)
           f == FreshPid(left)
<1>1. PICK run \in Runs :
          Room(left) /\ procs' = [left EXCEPT ![f] = Rearm(AtEntry(run))] /\ pid' = f
  BY Zenon DEF Respawn
<1> DEFINE N == Rearm(AtEntry(run))
<1>2. /\ DOMAIN left = Pid
      /\ \A p \in Pid : left[p] = IF finished = None /\ p = pid THEN Free ELSE procs[p]
  BY Zenon DEF KillActive, ShapeInv
<1>3. f \in Pid /\ left[f].st = "free" BY Zenon, <1>1, FreshIs
<1>4. \A i \in DOMAIN checkpoints : checkpoints[i].snapshot # f
  <2> HIDE DEF left, f
  <2> QED BY <1>2, <1>3, OwnedAlive
<1>5. /\ DOMAIN N = ProcFields /\ N.st = "stopped" /\ N.run = run /\ N.pos = 0
      /\ N.fed = None /\ N.armed = watchpoint
  BY Zenon DEF Rearm, AtEntry, ProcFields
<1>6. ProcOK(N) BY <1>5, SessionAssumption DEF ProcOK, IsSeq
<1> HIDE DEF left, f, N
<1>7. /\ DOMAIN procs' = Pid /\ procs'[f] = N
      /\ \A p \in Pid \ {f} : procs'[p] = IF finished = None /\ p = pid THEN Free ELSE procs[p]
  BY Zenon, <1>1, <1>2, <1>3 DEF N
<1>8. Respawned(f, N)
  BY Zenon, <1>1, <1>3, <1>4, <1>5, <1>6, <1>7 DEF Respawned, Reseated, Respawn, Kept
<1> QED BY Zenon, <1>8

LEMMA RestartKind ==
    ASSUME ShapeInv, NoOrphans, pc # "dropped", NEW t \in Target, Restart(t), Kept,
           pc' \in {"idle", "drive"}
    PROVE  \E f, N : Respawned(f, N) \/ \E k \in DOMAIN checkpoints : Restored(f, N, k)
<1>1. CASE PlanStart(t) = None
  BY Zenon, <1>1, RespawnKind DEF Restart
<1>2. CASE PlanStart(t) # None
  <2>1. PlanStart(t) \in DOMAIN checkpoints BY Zenon, <1>2, PlanStartIs
  <2>2. RestoreToCheckpoint(checkpoints[PlanStart(t)]) /\ rewound' = TRUE
    BY Zenon, <1>2 DEF Restart
  <2>3. \E f, N : Restored(f, N, PlanStart(t)) BY Zenon, <2>1, <2>2, RestoreKind
  <2> QED BY Zenon, <2>1, <2>3
<1> QED BY Zenon, <1>1, <1>2

\* One turn of drive that ends at a stop.
LEMMA TurnKind ==
    ASSUME ShapeInv, NoOrphans, TurnActions
    PROVE  /\ \E Q : Turned(Q)
           /\ finished = None /\ pc = "drive" /\ ~Killed
<1>0. /\ Turn /\ ~Killed /\ Here <= Len(procs[pid].run) /\ pc = "drive" /\ finished = None
  BY Zenon DEF TurnActions, OnEntry, OnExit, OnSignalStop, OnWatchHit, StoppedBy, Turn
<1>1. /\ procs[pid].st # "free" /\ DOMAIN procs[pid] = ProcFields /\ DOMAIN procs = Pid /\ pid \in Pid
  BY Zenon, <1>0, OwnedAlive DEF ShapeInv, ProcOK
<1> DEFINE there == [procs EXCEPT ![pid].pos = Here]
<1>2. Advanced(there)
  <2>1. DOMAIN there = Pid /\ \A p \in Pid \ {pid} : there[p] = procs[p] BY Zenon, <1>1
  <2>2. there[pid] = [procs[pid] EXCEPT !.pos = Here] BY Zenon, <1>1
  <2> HIDE DEF there
  <2> QED BY Zenon, <1>1, <2>1, <2>2 DEF Advanced, ProcFields
<1>3. ASSUME NEW r PROVE Advanced([there EXCEPT ![pid] = Feed(@, r)])
  <2> HIDE DEF there
  <2> DEFINE Q == [there EXCEPT ![pid] = Feed(@, r)]
  <2>1. DOMAIN Q = Pid /\ Q[pid] = Feed(there[pid], r) /\ \A p \in Pid \ {pid} : Q[p] = there[p]
    BY Zenon, <1>1, <1>2 DEF Advanced
  <2> HIDE DEF Q
  <2>2. /\ DOMAIN Q[pid] = ProcFields /\ Q[pid].st = there[pid].st /\ Q[pid].run = there[pid].run
        /\ Q[pid].armed = there[pid].armed /\ Q[pid].pos = there[pid].pos
    BY Zenon, <1>2, <2>1 DEF Advanced, Feed, ProcFields
  <2>3. Advanced(Q) BY Zenon, <1>2, <2>1, <2>2 DEF Advanced
  <2> QED BY Zenon, <2>3 DEF Q
<1>p. \A e, at : Fail(e, at) => pc' = "idle" BY Zenon DEF Fail, Return
<1>4. ASSUME procs' = there, UNCHANGED checkpoints, pc' \in {"idle", "drive"},
             UNCHANGED <<pid, finished, watchpoint, checkpoint_interval>>
      PROVE  \E Q : Turned(Q)
  BY Zenon, <1>0, <1>2, <1>4 DEF Turned
<1>5. CASE OnEntry
  <2>1. pc' \in {"idle", "drive"}
    BY Zenon, <1>0, <1>5, <1>p DEF OnEntry, NoRecord, WrongKind, WrongNr, Carry, call
  <2>2. procs' = there /\ UNCHANGED <<checkpoints, pid, finished, watchpoint, checkpoint_interval>>
    BY Zenon, <1>5 DEF OnEntry, watch
  <2> HIDE DEF there
  <2> QED BY Zenon, <1>0, <1>4, <2>1, <2>2
<1>6. CASE OnSignalStop
  <2>1. pc' \in {"idle", "drive"}
    BY Zenon, <1>0, <1>6, <1>p DEF OnSignalStop, Carry, call
  <2>2. procs' = there /\ UNCHANGED <<checkpoints, pid, finished, watchpoint, checkpoint_interval>>
    BY Zenon, <1>6 DEF OnSignalStop, watch
  <2> HIDE DEF there
  <2> QED BY Zenon, <1>0, <1>4, <2>1, <2>2
<1>7. CASE OnWatchHit
  BY Zenon, <1>0, <1>4, <1>7 DEF OnWatchHit, Carry, call
<1>8. CASE OnExit
  <2>1. CASE (NoRecord \/ WrongKind("SyscallExit")) /\ procs' = there /\ UNCHANGED checkpoints
    <3>1. pc' \in {"idle", "drive"} BY Zenon, <2>1, <1>p DEF NoRecord, WrongKind
    <3>2. UNCHANGED <<pid, finished, watchpoint, checkpoint_interval>> BY Zenon, <1>8 DEF OnExit, watch
    <3> HIDE DEF there
    <3> QED BY Zenon, <1>0, <1>4, <2>1, <3>1, <3>2
  <2> DEFINE Q == [there EXCEPT ![pid] = Feed(@, NextRecord.seq)]
  <2>2. CASE Consume("SyscallExit") /\ MaybeCheckpoint(Q) /\ Carry /\ UNCHANGED diverged
    <3>1. Advanced(Q) BY Zenon, <1>3
    <3>2. pc' = "drive" BY Zenon, <1>0, <2>2 DEF Carry, call
    <3>3. UNCHANGED <<pid, finished, watchpoint, checkpoint_interval>>
      BY Zenon, <1>8 DEF OnExit, watch
    <3>4. \A p \in Pid : Q[p].st = procs[p].st
      <4> HIDE DEF Q
      <4> QED BY Zenon, <3>1 DEF Advanced
    <3>5. CASE ~SnapshotDue
      <4>1. procs' = Q /\ UNCHANGED checkpoints BY Zenon, <2>2, <3>5 DEF MaybeCheckpoint
      <4> HIDE DEF Q
      <4> QED BY Zenon, <1>0, <3>1, <3>2, <3>3, <4>1 DEF Turned
    <3>6. CASE SnapshotDue
      <4>1. FreshPid(Q) = FreshPid(procs)
        <5> HIDE DEF Q
        <5> QED BY Zenon, <3>4 DEF FreshPid
      <4>2. Room(Q) BY Zenon, <2>2, <3>6 DEF MaybeCheckpoint
      <4>3. FreshPid(procs) \in Pid /\ procs[FreshPid(procs)].st = "free"
        <5>1. Room(procs)
          <6> HIDE DEF Q
          <6> QED BY Zenon, <3>4, <4>2 DEF Room
        <5> QED BY Zenon, <5>1, FreshIs
      <4>4. /\ procs' = [Q EXCEPT ![FreshPid(Q)] = ForkOf(Q[pid])]
            /\ checkpoints' = Append(checkpoints,
                     [seq |-> current_seq', cursor |-> cursor', current_seq |-> current_seq',
                      snapshot |-> FreshPid(Q), diverged |-> diverged])
        BY Zenon, <2>2, <3>6 DEF MaybeCheckpoint
      <4>5. TakesSnapshot(Q)
        <5> HIDE DEF Q
        <5> QED BY Zenon, <1>8, <2>2, <3>6, <4>1, <4>3, <4>4 DEF TakesSnapshot, Snapshot
      <4> HIDE DEF Q
      <4> QED BY Zenon, <1>0, <3>1, <3>2, <3>3, <4>5 DEF Turned
    <3> QED BY Zenon, <3>5, <3>6
  <2> QED BY Zenon, <1>8, <2>1, <2>2 DEF OnExit
<1> QED BY Zenon, <1>0, <1>5, <1>6, <1>7, <1>8 DEF TurnActions

\* Every step is of one of these kinds.
LEMMA StepKinds ==
    ASSUME ShapeInv, NoOrphans, Next
    PROVE  /\ pc # "dropped"
           /\ \/ Still
              \/ \E f, N : Respawned(f, N) \/ \E k \in DOMAIN checkpoints : Restored(f, N, k)
              \/ TurnActions \/ OnGone \/ Watch \/ ClearWatch \/ Drop
<1>1. CASE AlreadyFinished \/ Arrive
  BY Zenon, <1>1 DEF AlreadyFinished, Arrive, Return, Still, watch
<1>2. CASE TurnActions \/ OnGone
  BY Zenon, <1>2 DEF TurnActions, OnGone, OnEntry, OnExit, OnSignalStop, OnWatchHit, StoppedBy, Turn
<1>3. ASSUME NEW t \in Target, RunTo(t)
      PROVE  /\ pc # "dropped"
             /\ \/ Still
                \/ \E f, N : Respawned(f, N) \/ \E k \in DOMAIN checkpoints : Restored(f, N, k)
  <2>1. Call(t, t) /\ pc # "dropped" /\ pc' \in {"idle", "drive"} /\ Kept
    BY Zenon, <1>3 DEF RunTo, Call, Kept
  <2>2. CASE Restart(t)
    BY Zenon, <2>1, <2>2, RestartKind
  <2>3. CASE UNCHANGED <<procs, seat, diverged, rewound>>
    BY Zenon, <2>1, <2>3 DEF Still, Kept
  <2> QED BY Zenon, <1>3, <2>2, <2>3 DEF RunTo
<1>4. ASSUME NEW t \in Target, RestoreTo(t)
      PROVE  /\ pc # "dropped"
             /\ \E f, N : Respawned(f, N) \/ \E k \in DOMAIN checkpoints : Restored(f, N, k)
  <2>1. Restart(t) /\ pc # "dropped" /\ pc' \in {"idle", "drive"} /\ Kept
    BY Zenon, <1>4 DEF RestoreTo, Idle, Kept
  <2> QED BY Zenon, <2>1, RestartKind
<1>5. ASSUME NEW t \in Target, StepTo(t) PROVE pc # "dropped" /\ Still
  BY Zenon, <1>5 DEF StepTo, Call, Still
<1>6. ASSUME NEW n \in Interval, SetInterval(n) PROVE pc # "dropped" /\ Still
  BY Zenon, <1>6 DEF SetInterval, Idle, Still, watch
<1>7. CASE RunToEnd \/ TakeWatchHits
  BY Zenon, <1>7 DEF RunToEnd, TakeWatchHits, Call, Idle, Still
<1>8. CASE Watch \/ ClearWatch \/ Drop
  BY Zenon, <1>8 DEF Watch, ClearWatch, Drop, Idle
<1> QED BY Zenon, <1>1, <1>2, <1>3, <1>4, <1>5, <1>6, <1>7, <1>8 DEF Next, Drive, TurnActions

-----------------------------------------------------------------------------
(* Shapes and ownership.                                                   *)

\* Where a turn leaves the cursor.
LEMMA CursorMoves ==
    ASSUME ShapeInv, TurnActions
    PROVE  /\ cursor' \in {cursor, SkipFrom(cursor), SkipFrom(cursor) + 1}
           /\ cursor' \in 0..Len(Records)
           /\ current_seq' \in {current_seq, NextRecord.seq}
           /\ current_seq' # None => current_seq' \in Seqno
           /\ current_seq' # current_seq => ~Exhausted
<1>0. cursor \in 0..Len(Records) /\ Len(Records) \in Nat
  BY Zenon, SessionAssumption DEF ShapeInv, IsSeq
<1>1. SkipFrom(cursor) \in cursor..Len(Records) BY Zenon, <1>0, SkipFromIs
<1>2. \/ UNCHANGED <<cursor, current_seq>>
      \/ cursor' = SkipFrom(cursor) /\ UNCHANGED current_seq
      \/ cursor' = SkipFrom(cursor) + 1 /\ ~Exhausted /\ current_seq' \in {current_seq, NextRecord.seq}
  BY Zenon DEF TurnActions, OnEntry, OnExit, OnSignalStop, OnWatchHit, NoRecord, WrongKind, WrongNr, Consume
<1>3. ~Exhausted => SkipFrom(cursor) + 1 \in 1..Len(Records) BY <1>0, <1>1 DEF Exhausted
<1>4. ~Exhausted => NextRecord.seq \in Seqno
  BY Zenon, <1>3, SessionAssumption DEF NextRecord, IsSeq
<1>5. cursor' \in 0..Len(Records) BY <1>0, <1>1, <1>2, <1>3
<1> QED BY Zenon, <1>2, <1>4, <1>5 DEF ShapeInv

\* A snapshot joins the checkpoints, of the record just consumed.
LEMMA SnapshotTaken ==
    ASSUME ShapeInv, NoOrphans, NEW Q, Turned(Q), TakesSnapshot(Q)
    PROVE  LET s == FreshPid(procs)
               n == Len(checkpoints)
           IN  /\ n \in Nat /\ DOMAIN checkpoints = 1..n /\ DOMAIN checkpoints' = 1..(n + 1)
               /\ IsSequence(checkpoints') /\ Len(checkpoints') = n + 1
               /\ \A i \in 1..n : checkpoints'[i] = checkpoints[i] /\ checkpoints[i].snapshot # s
               /\ checkpoints'[n + 1] = Snapshot /\ CheckpointOK(Snapshot)
               /\ s \in Pid /\ s # pid /\ procs[s].st = "free"
               /\ DOMAIN procs' = Pid /\ \A p \in Pid \ {s} : procs'[p] = Q[p]
               /\ procs'[s] = ForkOf(Q[pid])
               /\ DOMAIN procs'[s] = ProcFields /\ procs'[s].st = procs[pid].st
               /\ procs'[s].run = procs[pid].run /\ procs'[s].pos = Here
               /\ procs'[s].fed = Q[pid].fed /\ ~procs'[s].armed
<1> DEFINE s == FreshPid(procs)
           n == Len(checkpoints)
<1>0. finished = None /\ pc # "dropped" /\ TurnActions BY Zenon DEF Turned, Turn
<1>1. s \in Pid /\ procs[s].st = "free" /\ procs' = [Q EXCEPT ![s] = ForkOf(Q[pid])]
  BY Zenon DEF TakesSnapshot
<1>2. s # pid /\ \A i \in DOMAIN checkpoints : checkpoints[i].snapshot # s
  BY Zenon, <1>0, <1>1, OwnedAlive
<1>3. /\ n \in Nat /\ DOMAIN checkpoints = 1..n /\ DOMAIN checkpoints' = 1..(n + 1)
      /\ IsSequence(checkpoints') /\ Len(checkpoints') = n + 1
      /\ \A i \in 1..n : checkpoints'[i] = checkpoints[i]
      /\ checkpoints'[n + 1] = Snapshot
  BY SequenceGrows DEF ShapeInv, TakesSnapshot
<1>4. CheckpointOK(Snapshot)
  <2>1. SkipFrom(cursor) \in cursor..Len(Records) /\ cursor \in Nat /\ Len(Records) \in Nat
    BY SkipFromIs, SessionAssumption DEF ShapeInv, IsSeq
  <2>2. /\ SkipFrom(cursor) # Len(Records) /\ cursor' = SkipFrom(cursor) + 1
        /\ Records[cursor'].kind = "SyscallExit" /\ current_seq' = Records[cursor'].seq
    BY Zenon DEF TakesSnapshot, Consume, NextRecord, Exhausted
  <2>3. cursor' \in 1..Len(Records) BY <2>1, <2>2
  <2> QED BY Zenon, <1>1, <2>2, <2>3 DEF CheckpointOK, Snapshot
<1> HIDE DEF s
<1>5. DOMAIN procs' = Pid /\ procs'[s] = ForkOf(Q[pid]) /\ \A p \in Pid \ {s} : procs'[p] = Q[p]
  BY Zenon, <1>1 DEF Turned, Advanced
<1>6. /\ DOMAIN procs'[s] = ProcFields /\ procs'[s].st = procs[pid].st
      /\ procs'[s].run = procs[pid].run /\ procs'[s].pos = Here
      /\ procs'[s].fed = Q[pid].fed /\ ~procs'[s].armed
  BY Zenon, <1>5 DEF Turned, Advanced, ForkOf, ProcFields
<1> HIDE DEF n
<1> QED BY Zenon, <1>1, <1>2, <1>3, <1>4, <1>5, <1>6 DEF s, n

\* The stop a turn ends at.
LEMMA HereIs ==
    ASSUME ShapeInv, NoOrphans, pc # "dropped", finished = None
    PROVE  LET p == procs[pid]
           IN  /\ IsSeq(p.run) /\ p.run \in Runs /\ p.pos \in 0..Len(p.run)
               /\ Here \in (p.pos + 1)..(Len(p.run) + 1)
               /\ Here <= Len(p.run) => p.run[Here].stop # "write" \/ p.armed
               /\ \A j \in (p.pos + 1)..(Here - 1) : p.run[j].stop = "write" /\ ~p.armed
<1>1. IsSeq(procs[pid].run) /\ procs[pid].run \in Runs /\ procs[pid].pos \in 0..Len(procs[pid].run)
  BY Zenon, OwnedAlive
<1> QED BY Zenon, <1>1, NextStopIs DEF Here

\* The processes after a turn.
LEMMA TurnedProcs ==
    ASSUME ShapeInv, NoOrphans, NEW Q, Turned(Q)
    PROVE  /\ DOMAIN procs' = Pid /\ \A p \in Pid : ProcOK(procs'[p])
           /\ procs'[pid] = Q[pid] /\ procs'[pid].st # "free"
           /\ \A i \in DOMAIN checkpoints : procs'[checkpoints[i].snapshot] = procs[checkpoints[i].snapshot]
<1>0. /\ finished = None /\ pc # "dropped" /\ pid \in Pid /\ DOMAIN procs = Pid
      /\ \A p \in Pid : ProcOK(procs[p])
  BY Zenon DEF Turned, Turn, ShapeInv
<1>1. /\ procs[pid].st # "free" /\ procs[pid].run \in Runs /\ Here \in 0..Len(procs[pid].run)
  <2>1. procs[pid].st # "free" BY Zenon, <1>0, OwnedAlive
  <2>2. /\ Here \in (procs[pid].pos + 1)..(Len(procs[pid].run) + 1)
        /\ procs[pid].pos \in 0..Len(procs[pid].run) /\ IsSeq(procs[pid].run)
        /\ procs[pid].run \in Runs
    BY Zenon, <1>0, HereIs
  <2>3. Here <= Len(procs[pid].run) BY Zenon DEF Turned
  <2> QED BY <2>1, <2>2, <2>3 DEF IsSeq
<1>2. ProcOK(Q[pid]) /\ Q[pid].st # "free" /\ DOMAIN Q = Pid /\ \A p \in Pid \ {pid} : Q[p] = procs[p]
  BY Zenon, <1>1 DEF Turned, Advanced, ProcOK
<1>3. \A i \in DOMAIN checkpoints : checkpoints[i].snapshot \in Pid \ {pid}
  BY Zenon, <1>0, OwnedAlive
<1>4. CASE procs' = Q
  BY Zenon, <1>0, <1>2, <1>3, <1>4
<1>5. CASE TakesSnapshot(Q)
  <2> DEFINE s == FreshPid(procs)
  <2>1. /\ s \in Pid /\ s # pid /\ DOMAIN procs' = Pid /\ \A p \in Pid \ {s} : procs'[p] = Q[p]
        /\ DOMAIN procs'[s] = ProcFields
        /\ procs'[s].run = procs[pid].run /\ procs'[s].pos = Here
        /\ \A i \in DOMAIN checkpoints : checkpoints[i].snapshot # s
    BY Zenon, <1>5, SnapshotTaken
  <2>2. ProcOK(procs'[s]) BY Zenon, <1>1, <2>1 DEF ProcOK
  <2> HIDE DEF s
  <2> QED BY Zenon, <1>0, <1>2, <1>3, <2>1, <2>2
<1> QED BY Zenon, <1>4, <1>5 DEF Turned

LEMMA ShapeStep ==
    ASSUME ShapeInv, NoOrphans, Next
    PROVE  ShapeInv'
<1>0. /\ pc # "dropped" /\ DOMAIN procs = Pid /\ (\A p \in Pid : ProcOK(procs[p])) /\ pid \in Pid
      /\ IsSequence(checkpoints) /\ \A i \in DOMAIN checkpoints : CheckpointOK(checkpoints[i])
  BY Zenon, StepKinds DEF ShapeInv
<1>1. CASE Still
  BY Zenon, <1>1, SessionAssumption DEF Still, ShapeInv, seat
<1>2. CASE \E f, N : Respawned(f, N) \/ \E k \in DOMAIN checkpoints : Restored(f, N, k)
  <2>1. PICK f, N : Respawned(f, N) \/ \E k \in DOMAIN checkpoints : Restored(f, N, k) BY Zenon, <1>2
  <2>2. Reseated(f, N) BY Zenon, <2>1 DEF Respawned, Restored
  <2>3. DOMAIN procs' = Pid /\ \A p \in Pid : ProcOK(procs'[p])
    BY Zenon, <1>0, <2>2, FreeOK DEF Reseated
  <2>4. cursor' \in 0..Len(Records) /\ (current_seq' # None => current_seq' \in Seqno)
    BY <1>0, <2>1, SessionAssumption DEF Respawned, Restored, CheckpointOK, IsSeq
  <2> QED BY Zenon, <1>0, <2>2, <2>3, <2>4 DEF Reseated, ShapeInv
<1>3. CASE TurnActions
  <2>1. PICK Q : Turned(Q) BY Zenon, <1>3, TurnKind
  <2>2. DOMAIN procs' = Pid /\ \A p \in Pid : ProcOK(procs'[p]) BY Zenon, <2>1, TurnedProcs
  <2>3. cursor' \in 0..Len(Records) /\ (current_seq' # None => current_seq' \in Seqno)
    BY Zenon, <1>3, CursorMoves
  <2>4. IsSequence(checkpoints') /\ \A i \in DOMAIN checkpoints' : CheckpointOK(checkpoints'[i])
    <3>1. CASE UNCHANGED checkpoints BY Zenon, <1>0, <3>1
    <3>2. CASE TakesSnapshot(Q)
      <4> DEFINE n == Len(checkpoints)
      <4>1. /\ n \in Nat /\ DOMAIN checkpoints = 1..n /\ DOMAIN checkpoints' = 1..(n + 1)
            /\ IsSequence(checkpoints') /\ \A i \in 1..n : checkpoints'[i] = checkpoints[i]
            /\ checkpoints'[n + 1] = Snapshot /\ CheckpointOK(Snapshot)
        BY Zenon, <2>1, <3>2, SnapshotTaken
      <4> HIDE DEF n
      <4> QED BY <1>0, <4>1
    <3> QED BY Zenon, <2>1, <3>1, <3>2 DEF Turned
  <2>5. pid' = pid /\ checkpoint_interval' = checkpoint_interval BY Zenon, <2>1 DEF Turned
  <2> QED BY Zenon, <1>0, <2>2, <2>3, <2>4, <2>5 DEF ShapeInv
<1>4. CASE OnGone
  <2>1. DOMAIN procs' = Pid /\ \A p \in Pid : ProcOK(procs'[p])
    BY Zenon, <1>0, <1>4, FreeOK DEF OnGone
  <2> QED BY Zenon, <1>0, <1>4, <2>1 DEF OnGone, ShapeInv
<1>5. CASE Watch \/ ClearWatch
  <2>1. \/ procs' = procs
        \/ \E b : procs' = [procs EXCEPT ![pid].armed = b]
    BY Zenon, <1>5 DEF Watch, ClearWatch
  <2>2. DOMAIN procs' = Pid /\ \A p \in Pid : ProcOK(procs'[p])
    <3>1. CASE procs' = procs BY Zenon, <1>0, <3>1
    <3>2. CASE \E b : procs' = [procs EXCEPT ![pid].armed = b]
      <4>1. PICK b : procs' = [procs EXCEPT ![pid].armed = b] BY Zenon, <3>2
      <4>2. /\ DOMAIN procs' = Pid /\ procs'[pid] = [procs[pid] EXCEPT !.armed = b]
            /\ \A p \in Pid \ {pid} : procs'[p] = procs[p]
        BY Zenon, <1>0, <4>1
      <4>3. ProcOK(procs'[pid]) BY Zenon, <1>0, <4>2 DEF ProcOK, ProcFields
      <4> QED BY Zenon, <1>0, <4>2, <4>3
    <3> QED BY Zenon, <2>1, <3>1, <3>2
  <2> QED BY Zenon, <1>5, <2>2 DEF Watch, ClearWatch, ShapeInv, seat
<1>6. CASE Drop
  <2>1. DOMAIN procs' = Pid /\ \A p \in Pid : ProcOK(procs'[p])
    BY Zenon, <1>0, <1>6, FreeOK DEF Drop
  <2> QED BY Zenon, <1>0, <1>6, <2>1 DEF Drop, ShapeInv, seat
<1> QED BY Zenon, <1>1, <1>2, <1>3, <1>4, <1>5, <1>6, StepKinds

\* Whatever is forked is owned, and whatever is given up is killed.
LEMMA OwnStep ==
    ASSUME ShapeInv, NoOrphans, Next
    PROVE  NoOrphans'
<1> DEFINE Snaps == {checkpoints[i].snapshot : i \in DOMAIN checkpoints}
<1>0. /\ pc # "dropped" /\ DOMAIN procs = Pid /\ pid \in Pid
      /\ {p \in Pid : procs[p].st # "free"} = Owned
      /\ \A i, j \in DOMAIN checkpoints :
              /\ checkpoints[i].snapshot = checkpoints[j].snapshot => i = j
              /\ finished = None => checkpoints[i].snapshot # pid
  BY Zenon, StepKinds DEF ShapeInv, NoOrphans
<1>s. ASSUME pc' # "dropped", {p \in Pid : procs'[p].st # "free"} = Owned',
             UNCHANGED checkpoints,
             finished' = None => \A i \in DOMAIN checkpoints : checkpoints[i].snapshot # pid'
      PROVE  NoOrphans'
  BY Zenon, <1>0, <1>s DEF NoOrphans
<1>1. CASE Still
  <2>1. UNCHANGED <<procs, pid, finished, checkpoints>> /\ pc' # "dropped" BY Zenon, <1>1 DEF Still, seat
  <2>2. Owned' = Owned BY Zenon, <2>1 DEF Owned
  <2> QED BY Zenon, <1>0, <1>s, <2>1, <2>2
<1>2. CASE \E f, N : Respawned(f, N) \/ \E k \in DOMAIN checkpoints : Restored(f, N, k)
  <2>1. PICK f, N : Reseated(f, N) BY Zenon, <1>2 DEF Respawned, Restored
  <2>2. Owned' = {f} \cup Snaps BY Zenon, <2>1 DEF Owned, Reseated
  <2>3. {p \in Pid : procs'[p].st # "free"} = {f} \cup Snaps
    <3>1. ASSUME NEW p \in Pid PROVE procs'[p].st # "free" <=> p \in {f} \cup Snaps
      <4>1. CASE p = f BY Zenon, <2>1, <4>1 DEF Reseated
      <4>2. CASE p # f /\ finished = None /\ p = pid
        <5>1. procs'[p] = Free BY Zenon, <2>1, <4>2 DEF Reseated
        <5> QED BY Zenon, <1>0, <4>2, <5>1, FreeOK
      <4>3. CASE p # f /\ ~(finished = None /\ p = pid)
        <5>1. procs'[p] = procs[p] BY Zenon, <2>1, <4>3 DEF Reseated
        <5>2. procs[p].st # "free" <=> p \in Owned BY Zenon, <1>0
        <5> QED BY Zenon, <4>3, <5>1, <5>2 DEF Owned
      <4> QED BY Zenon, <4>1, <4>2, <4>3
    <3>2. {f} \cup Snaps \subseteq Pid BY Zenon, <2>1 DEF Reseated, ShapeInv, CheckpointOK
    <3> HIDE DEF Snaps
    <3> QED BY Zenon, <3>1, <3>2
  <2> QED BY Zenon, <1>s, <2>1, <2>2, <2>3 DEF Reseated
<1>3. CASE TurnActions
  <2>1. PICK Q : Turned(Q) BY Zenon, <1>3, TurnKind
  <2>2. finished = None /\ UNCHANGED <<pid, finished>> /\ pc' # "dropped" BY Zenon, <2>1 DEF Turned, Turn
  <2>3. \A p \in Pid : Q[p].st = procs[p].st BY Zenon, <2>1 DEF Turned, Advanced
  <2>4. CASE procs' = Q /\ UNCHANGED checkpoints
    <3>1. Owned' = Owned BY Zenon, <2>2, <2>4 DEF Owned
    <3> QED BY Zenon, <1>0, <1>s, <2>2, <2>3, <2>4, <3>1
  <2>5. CASE TakesSnapshot(Q)
    <3> DEFINE s == FreshPid(procs)
               n == Len(checkpoints)
    <3>1. /\ n \in Nat /\ DOMAIN checkpoints = 1..n /\ DOMAIN checkpoints' = 1..(n + 1)
          /\ \A i \in 1..n : checkpoints'[i] = checkpoints[i] /\ checkpoints[i].snapshot # s
          /\ checkpoints'[n + 1] = Snapshot
          /\ s \in Pid /\ s # pid /\ \A p \in Pid \ {s} : procs'[p] = Q[p]
          /\ procs'[s].st = procs[pid].st
      BY Zenon, <2>1, <2>5, SnapshotTaken
    <3>2. Snapshot.snapshot = s BY Zenon DEF Snapshot
    <3>3. procs[pid].st # "free" BY Zenon, <1>0, <2>2, OwnedAlive
    <3> HIDE DEF s, n
    <3>4. Owned' = Owned \cup {s}
      <4>1. {checkpoints'[i].snapshot : i \in DOMAIN checkpoints'} = Snaps \cup {s}
        <5>1. \A i \in 1..n : checkpoints'[i].snapshot = checkpoints[i].snapshot BY Zenon, <3>1
        <5>2. checkpoints'[n + 1].snapshot = s BY Zenon, <3>1, <3>2
        <5>3. \A i : i \in 1..(n + 1) <=> i \in 1..n \/ i = n + 1 BY <3>1
        <5> QED BY <3>1, <5>1, <5>2, <5>3
      <4> QED BY Zenon, <2>2, <4>1 DEF Owned
    <3>5. {p \in Pid : procs'[p].st # "free"} = {p \in Pid : procs[p].st # "free"} \cup {s}
      BY <2>3, <3>1, <3>3
    <3>6. ASSUME NEW i \in DOMAIN checkpoints', NEW j \in DOMAIN checkpoints'
          PROVE  /\ checkpoints'[i].snapshot = checkpoints'[j].snapshot => i = j
                 /\ checkpoints'[i].snapshot # pid
      <4>1. i \in 1..n \/ i = n + 1 BY <3>1
      <4>2. j \in 1..n \/ j = n + 1 BY <3>1
      <4> QED BY <1>0, <2>2, <3>1, <3>2, <4>1, <4>2
    <3> QED BY Zenon, <1>0, <2>2, <3>4, <3>5, <3>6 DEF NoOrphans
  <2> QED BY Zenon, <2>1, <2>4, <2>5 DEF Turned
<1>4. CASE OnGone
  <2>1. /\ finished = None /\ finished' # None /\ procs' = [procs EXCEPT ![pid] = Free]
        /\ UNCHANGED <<pid, checkpoints>> /\ pc' # "dropped"
    BY Zenon, <1>4, SessionAssumption DEF OnGone, Turn, Return
  <2>2. Owned' = Snaps /\ Owned = {pid} \cup Snaps /\ pid \notin Snaps
    BY Zenon, <1>0, <2>1 DEF Owned
  <2>3. {p \in Pid : procs'[p].st # "free"} = {p \in Pid : procs[p].st # "free"} \ {pid}
    BY Zenon, <1>0, <2>1, FreeOK
  <2> HIDE DEF Snaps
  <2> QED BY Zenon, <1>0, <1>s, <2>1, <2>2, <2>3
<1>5. CASE Watch \/ ClearWatch
  <2>1. \/ procs' = procs
        \/ \E b : procs' = [procs EXCEPT ![pid].armed = b]
    BY Zenon, <1>5 DEF Watch, ClearWatch
  <2>2. UNCHANGED <<pid, finished, checkpoints>> /\ pc' # "dropped"
    BY Zenon, <1>0, <1>5 DEF Watch, ClearWatch, seat, Idle
  <2>3. \A p \in Pid : procs'[p].st = procs[p].st
    <3>1. ASSUME NEW b, procs' = [procs EXCEPT ![pid].armed = b], NEW p \in Pid
          PROVE  procs'[p].st = procs[p].st
      <4>1. ProcOK(procs[p]) BY Zenon DEF ShapeInv
      <4> QED BY Zenon, <1>0, <3>1, <4>1 DEF ProcOK, ProcFields
    <3> QED BY Zenon, <2>1, <3>1
  <2>4. Owned' = Owned BY Zenon, <2>2 DEF Owned
  <2> QED BY Zenon, <1>0, <1>s, <2>2, <2>3, <2>4
<1>6. CASE Drop
  <2>1. pc' = "dropped" /\ procs' = [p \in Pid |-> IF p \in Owned THEN Free ELSE procs[p]]
    BY Zenon, <1>6 DEF Drop
  <2>2. \A p \in Pid : procs'[p].st = "free" BY Zenon, <1>0, <2>1, FreeOK
  <2> QED BY Zenon, <2>1, <2>2 DEF NoOrphans
<1> QED BY Zenon, <1>1, <1>2, <1>3, <1>4, <1>5, <1>6, StepKinds

-----------------------------------------------------------------------------
(* The order of checkpoints.                                               *)

\* is_checkpoint_due: the next checkpoint is of a later record than the last.
LEMMA DueIsLater ==
    ASSUME NEW last \in Nat, NEW current \in Seqno, current # U64Max, NEW interval \in Nat,
           is_checkpoint_due(last, current, interval)
    PROVE  last < current
<1>1. last # None /\ U64Max \in Nat BY Zenon, SelectAssumption
<1>2. interval # 0 /\ current >= SaturatingAdd(last, interval)
  BY Zenon, <1>1 DEF is_checkpoint_due
<1>3. current \in Nat /\ current <= U64Max BY <1>1 DEF Seqno
<1> QED BY <1>1, <1>2, <1>3 DEF SaturatingAdd

LEMMA CheckpointSeq ==
    ASSUME NEW cp, CheckpointOK(cp)
    PROVE  cp.seq \in Seqno /\ cp.seq # U64Max /\ cp.seq \in Nat
<1>1. cp.cursor \in DOMAIN Records BY Zenon, SessionAssumption DEF CheckpointOK, IsSeq
<1>2. Records[cp.cursor].seq \in Seqno /\ Records[cp.cursor].seq # U64Max
  BY Zenon, <1>1, SessionAssumption
<1>3. \A x \in Seqno : x \in Nat BY SelectAssumption DEF Seqno
<1> QED BY Zenon, <1>2, <1>3 DEF CheckpointOK

LEMMA OrderStep ==
    ASSUME ShapeInv, NoOrphans, OrderInv, Next
    PROVE  OrderInv'
<1>0. /\ pc # "dropped" /\ DOMAIN procs = Pid /\ pid \in Pid
      /\ \A i \in DOMAIN checkpoints : ~procs[checkpoints[i].snapshot].armed
      /\ \A i \in DOMAIN checkpoints : checkpoints[i].snapshot \in Pid
  BY Zenon, StepKinds DEF ShapeInv, OrderInv, CheckpointOK
<1>s. ASSUME UNCHANGED checkpoints,
             \A i \in DOMAIN checkpoints : ~procs'[checkpoints[i].snapshot].armed
      PROVE  OrderInv'
  BY Zenon, <1>0, <1>s DEF OrderInv
<1>1. CASE Still
  BY Zenon, <1>0, <1>s, <1>1 DEF Still
<1>2. CASE \E f, N : Respawned(f, N) \/ \E k \in DOMAIN checkpoints : Restored(f, N, k)
  <2>1. PICK f, N : Reseated(f, N) BY Zenon, <1>2 DEF Respawned, Restored
  <2> QED BY Zenon, <1>0, <1>s, <2>1, FreeOK DEF Reseated
<1>3. CASE TurnActions
  <2>1. PICK Q : Turned(Q) BY Zenon, <1>3, TurnKind
  <2>2. \A i \in DOMAIN checkpoints : procs'[checkpoints[i].snapshot] = procs[checkpoints[i].snapshot]
    BY Zenon, <2>1, TurnedProcs
  <2>3. CASE UNCHANGED checkpoints
    BY Zenon, <1>0, <1>s, <2>2, <2>3
  <2>4. CASE TakesSnapshot(Q)
    <3> DEFINE s == FreshPid(procs)
               n == Len(checkpoints)
    <3>1. /\ n \in Nat /\ DOMAIN checkpoints = 1..n /\ DOMAIN checkpoints' = 1..(n + 1)
          /\ \A i \in 1..n : checkpoints'[i] = checkpoints[i]
          /\ checkpoints'[n + 1] = Snapshot /\ CheckpointOK(Snapshot) /\ ~procs'[s].armed
      BY Zenon, <2>1, <2>4, SnapshotTaken
    <3>2. Snapshot.snapshot = s /\ Snapshot.seq = current_seq' BY Zenon DEF Snapshot
    <3>3. current_seq' \in Seqno /\ current_seq' # U64Max /\ current_seq' \in Nat
      BY Zenon, <3>1, <3>2, CheckpointSeq
    <3>4. ASSUME NEW i \in 1..n PROVE checkpoints[i].seq < current_seq'
      <4>1. n \in DOMAIN checkpoints /\ n # 0 /\ checkpoints # <<>> BY <3>1
      <4>2. \A k \in 1..n : checkpoints[k].seq \in Nat
        BY Zenon, <3>1, CheckpointSeq DEF ShapeInv
      <4>3. checkpoints[n].seq < current_seq'
        <5>1. is_checkpoint_due(checkpoints[n].seq, current_seq', checkpoint_interval)
          BY Zenon, <2>4, <4>1 DEF TakesSnapshot, SnapshotDue
        <5> QED BY <3>3, <4>1, <4>2, <5>1, DueIsLater DEF ShapeInv
      <4>4. checkpoints[i].seq <= checkpoints[n].seq
        BY <3>1, <4>1, <4>2 DEF OrderInv
      <4> QED BY <3>3, <4>1, <4>2, <4>3, <4>4
    <3> HIDE DEF s, n
    <3>5. ASSUME NEW i \in DOMAIN checkpoints', NEW j \in DOMAIN checkpoints', i < j
          PROVE  checkpoints'[i].seq < checkpoints'[j].seq
      <4>1. i \in 1..n /\ (j \in 1..n \/ j = n + 1) BY <3>1, <3>5
      <4> QED BY Zenon, <3>1, <3>2, <3>4, <3>5, <4>1 DEF OrderInv
    <3>6. ASSUME NEW i \in DOMAIN checkpoints' PROVE ~procs'[checkpoints'[i].snapshot].armed
      <4>1. i \in 1..n \/ i = n + 1 BY <3>1
      <4> QED BY Zenon, <1>0, <2>2, <3>1, <3>2, <4>1
    <3> QED BY Zenon, <3>5, <3>6 DEF OrderInv
  <2> QED BY Zenon, <2>1, <2>3, <2>4 DEF Turned
<1>4. CASE OnGone
  BY Zenon, <1>0, <1>s, <1>4, FreeOK DEF OnGone
<1>5. CASE Watch \/ ClearWatch
  <2>1. CASE procs' = procs
    BY Zenon, <1>0, <1>s, <1>5, <2>1 DEF Watch, ClearWatch
  <2>2. CASE finished = None /\ \E b : procs' = [procs EXCEPT ![pid].armed = b]
    <3>1. \A i \in DOMAIN checkpoints : checkpoints[i].snapshot # pid
      BY Zenon, <1>0, <2>2, OwnedAlive
    <3> QED BY Zenon, <1>0, <1>s, <1>5, <2>2, <3>1 DEF Watch, ClearWatch
  <2> QED BY Zenon, <1>5, <2>1, <2>2 DEF Watch, ClearWatch
<1>6. CASE Drop
  BY Zenon, <1>6 DEF Drop, OrderInv
<1> QED BY Zenon, <1>1, <1>2, <1>3, <1>4, <1>5, <1>6, StepKinds

-----------------------------------------------------------------------------
(* The watchpoint.                                                         *)

\* The range keeps its value over steps that write nothing, and holds what the last
\* write put there.
LEMMA ValueMoves ==
    ASSUME NEW run, NEW i \in Nat, NEW k \in Nat, i <= k
    PROVE  /\ (\A j \in (i + 1)..k : run[j].stop # "write") => ValueAt(run, k) = ValueAt(run, i)
           /\ k > 0 /\ run[k].stop = "write" => ValueAt(run, k) = run[k].nr
<1> DEFINE W(m) == {j \in 1..m : run[j].stop = "write"}
           at(S) == IF S = {} THEN "initial" ELSE run[CHOOSE j \in S : \A x \in S : x <= j].nr
<1>1. \A m : ValueAt(run, m) = at(W(m)) BY Zenon DEF ValueAt
<1>2. ASSUME \A j \in (i + 1)..k : run[j].stop # "write" PROVE ValueAt(run, k) = ValueAt(run, i)
  <2>1. W(k) = W(i) BY <1>2
  <2> HIDE DEF W, at
  <2> QED BY Zenon, <1>1, <2>1
<1>3. ASSUME k > 0, run[k].stop = "write" PROVE ValueAt(run, k) = run[k].nr
  <2> DEFINE S == W(k)
             last == CHOOSE j \in S : \A x \in S : x <= j
  <2>1. k \in S /\ \A x \in S : x <= k BY <1>3
  <2>2. S \subseteq Nat OBVIOUS
  <2>3. last \in S /\ \A x \in S : x <= last
    <3> HIDE DEF S
    <3> QED BY Zenon, <2>1
  <2>4. last = k
    <3> HIDE DEF S, last
    <3>1. last \in Nat /\ last <= k /\ k <= last BY Zenon, <2>1, <2>2, <2>3
    <3> QED BY <3>1
  <2>5. S # {} BY Zenon, <2>1
  <2>6. ValueAt(run, k) = run[last].nr BY Zenon, <1>1, <2>5
  <2> QED BY Zenon, <2>4, <2>6
<1> QED BY Zenon, <1>2, <1>3

\* Armed while watched, and no write goes unseen.
LEMMA ValueStep ==
    ASSUME ShapeInv, NoOrphans, ValueInv, Next
    PROVE  ValueInv'
<1>0. /\ pc # "dropped" /\ DOMAIN procs = Pid /\ pid \in Pid
      /\ \A p \in Pid : DOMAIN procs[p] = ProcFields
  BY Zenon, StepKinds DEF ShapeInv, ProcOK
<1>1. CASE Still
  <2>1. UNCHANGED <<procs, pid, finished, watchpoint, last_value, rewound>> /\ hit' \in {hit, None}
    BY Zenon, <1>1 DEF Still, seat
  <2> QED BY Zenon, <1>0, <2>1 DEF ValueInv, WatchFollows, OldValueTrue
<1>2. CASE \E f, N : Respawned(f, N) \/ \E k \in DOMAIN checkpoints : Restored(f, N, k)
  <2>1. PICK f, N : Reseated(f, N) BY Zenon, <1>2 DEF Respawned, Restored
  <2>2. procs'[pid'].armed = watchpoint /\ watchpoint' = watchpoint /\ rewound' = TRUE /\ hit' = hit
    BY Zenon, <2>1 DEF Reseated
  <2> QED BY Zenon, <2>2 DEF ValueInv, WatchFollows, OldValueTrue
<1>3. CASE TurnActions
  <2>1. PICK Q : Turned(Q) BY Zenon, <1>3, TurnKind
  <2> DEFINE p == procs[pid]
  <2>2. /\ finished = None /\ UNCHANGED <<pid, finished, watchpoint>> /\ pc' # "dropped"
        /\ Here <= Len(p.run) /\ procs'[pid].run = p.run /\ procs'[pid].armed = p.armed
        /\ procs'[pid].pos = Here
    BY Zenon, <2>1, TurnedProcs DEF Turned, Turn, Advanced
  <2>3. WatchFollows' BY Zenon, <1>0, <2>2 DEF ValueInv, WatchFollows
  <2>4. /\ p.pos \in Nat /\ Here \in Nat /\ p.pos < Here /\ Len(p.run) \in Nat
        /\ \A j \in (p.pos + 1)..(Here - 1) : ~p.armed
    BY <1>0, <2>2, HereIs DEF IsSeq
  <2>5. watchpoint => p.armed BY Zenon, <1>0, <2>2 DEF ValueInv, WatchFollows
  <2>6. p.armed => Here = p.pos + 1
    <3>1. ASSUME p.armed, Here # p.pos + 1 PROVE FALSE
      <4>1. p.pos + 1 \in (p.pos + 1)..(Here - 1) BY <2>4, <3>1
      <4> QED BY Zenon, <2>4, <3>1, <4>1
    <3> QED BY Zenon, <3>1
  <2>7. watchpoint => Here = p.pos + 1 /\ Here - 1 = p.pos BY <2>4, <2>5, <2>6
  <2> HIDE DEF p
  <2>8. CASE OnWatchHit
    <3>1. /\ watchpoint /\ p.run[Here].stop = "write"
          /\ hit' = [seq |-> current_seq, old |-> last_value, new |-> p.run[Here].nr,
                     was |-> ValueAt(p.run, Here - 1), rewound |-> rewound]
          /\ last_value' = p.run[Here].nr
      BY Zenon, <2>8 DEF OnWatchHit, StoppedBy, LastValue, p
    <3>2. ~rewound => last_value = ValueAt(p.run, p.pos)
      BY Zenon, <1>0, <2>2, <3>1 DEF ValueInv, p
    <3>3. OldValueTrue' BY Zenon, <2>7, <3>1, <3>2 DEF OldValueTrue
    <3>4. last_value' = ValueAt(p.run, Here)
      BY <2>4, <3>1, ValueMoves
    <3> QED BY Zenon, <2>2, <2>3, <3>3, <3>4 DEF ValueInv
  <2>9. CASE ~OnWatchHit
    <3>1. UNCHANGED <<hit, last_value, rewound>>
      BY Zenon, <1>3, <2>9 DEF TurnActions, OnEntry, OnExit, OnSignalStop, watch
    <3>2. watchpoint => p.run[Here].stop # "write"
      BY Zenon, <1>3, <2>9 DEF TurnActions, OnEntry, OnExit, OnSignalStop, StoppedBy, p
    <3>3. watchpoint => ValueAt(p.run, Here) = ValueAt(p.run, p.pos)
      <4> SUFFICES ASSUME watchpoint PROVE ValueAt(p.run, Here) = ValueAt(p.run, p.pos) BY Zenon
      <4>1. \A j \in (p.pos + 1)..Here : p.run[j].stop # "write"
        BY <2>4, <2>7, <3>2
      <4> QED BY <2>4, <4>1, ValueMoves
    <3> QED BY Zenon, <1>0, <2>2, <2>3, <3>1, <3>3 DEF ValueInv, OldValueTrue, p
  <2> QED BY Zenon, <2>8, <2>9
<1>4. CASE OnGone
  BY Zenon, <1>4, SessionAssumption DEF OnGone, watch, ValueInv, WatchFollows, OldValueTrue
<1>5. CASE Watch
  <2>1. UNCHANGED <<pid, finished, hit>> BY Zenon, <1>5 DEF Watch, seat
  <2>2. CASE finished # None
    BY Zenon, <1>5, <2>1, <2>2 DEF Watch, ValueInv, WatchFollows, OldValueTrue
  <2>3. CASE finished = None
    <3>1. procs' = [procs EXCEPT ![pid].armed = TRUE] BY Zenon, <1>5, <2>3 DEF Watch
    <3>2. procs'[pid] = [procs[pid] EXCEPT !.armed = TRUE] BY Zenon, <1>0, <3>1
    <3>3. /\ procs'[pid].armed = TRUE /\ procs'[pid].run = procs[pid].run
          /\ procs'[pid].pos = procs[pid].pos
      BY Zenon, <1>0, <3>2 DEF ProcFields
    <3>4. \/ last_value' = ValueAt(procs[pid].run, procs[pid].pos)
          \/ UNCHANGED <<watchpoint, last_value, rewound>>
      BY Zenon, <1>5, <2>3 DEF Watch
    <3> QED BY <1>0, <2>1, <3>3, <3>4 DEF ValueInv, WatchFollows, OldValueTrue
  <2> QED BY Zenon, <2>2, <2>3
<1>6. CASE ClearWatch
  BY Zenon, <1>6 DEF ClearWatch, ValueInv, WatchFollows, OldValueTrue
<1>7. CASE Drop
  BY Zenon, <1>7 DEF Drop, watch, ValueInv, WatchFollows, OldValueTrue
<1> QED BY Zenon, <1>1, <1>2, <1>3, <1>4, <1>5, <1>6, <1>7, StepKinds

-----------------------------------------------------------------------------
(* Counting stops and records.                                             *)

UpTo(T, i) == {j \in 1..i : j \in T}

\* The n-th element of a set of positions: how the count grows along the positions.
LEMMA UpToCounts ==
    ASSUME NEW T, NEW i \in Nat, NEW k \in Nat, i <= k
    PROVE  /\ Cardinality(UpTo(T, i)) \in Nat /\ Cardinality(UpTo(T, k)) \in Nat
           /\ (\A j \in (i + 1)..k : j \notin T) => UpTo(T, k) = UpTo(T, i)
           /\ i < k /\ k \in T /\ (\A j \in (i + 1)..(k - 1) : j \notin T) =>
                /\ UpTo(T, k) = UpTo(T, i) \cup {k} /\ k \notin UpTo(T, i)
                /\ Cardinality(UpTo(T, k)) = Cardinality(UpTo(T, i)) + 1
           /\ Cardinality(UpTo(T, i)) <= Cardinality(UpTo(T, k))
           /\ i < k /\ k \in T => Cardinality(UpTo(T, i)) < Cardinality(UpTo(T, k))
<1>f. ASSUME NEW n \in Nat PROVE IsFiniteSet(UpTo(T, n)) /\ Cardinality(UpTo(T, n)) \in Nat
  <2>1. IsFiniteSet(1..n) BY FS_Interval
  <2>2. UpTo(T, n) \subseteq 1..n BY Zenon DEF UpTo
  <2> QED BY Zenon, <2>1, <2>2, FS_Subset, FS_CardinalityType
<1>1. ASSUME \A j \in (i + 1)..k : j \notin T PROVE UpTo(T, k) = UpTo(T, i)
  BY <1>1 DEF UpTo
<1>2. ASSUME i < k, k \in T, \A j \in (i + 1)..(k - 1) : j \notin T
      PROVE  /\ UpTo(T, k) = UpTo(T, i) \cup {k} /\ k \notin UpTo(T, i)
             /\ Cardinality(UpTo(T, k)) = Cardinality(UpTo(T, i)) + 1
  <2>1. UpTo(T, k) = UpTo(T, i) \cup {k} /\ k \notin UpTo(T, i) BY <1>2 DEF UpTo
  <2> QED BY Zenon, <1>f, <2>1, FS_AddElement
<1>3. UpTo(T, i) \subseteq UpTo(T, k) BY DEF UpTo
<1>4. Cardinality(UpTo(T, i)) <= Cardinality(UpTo(T, k)) BY Zenon, <1>f, <1>3, FS_Subset
<1>5. ASSUME i < k, k \in T PROVE Cardinality(UpTo(T, i)) < Cardinality(UpTo(T, k))
  <2>1. k \in UpTo(T, k) /\ k \notin UpTo(T, i) BY <1>5 DEF UpTo
  <2>2. UpTo(T, i) # UpTo(T, k) BY Zenon, <2>1
  <2>3. Cardinality(UpTo(T, i)) # Cardinality(UpTo(T, k)) BY Zenon, <1>f, <1>3, <2>2, FS_Subset
  <2> QED BY <1>f, <1>4, <2>3
<1> QED BY Zenon, <1>f, <1>1, <1>2, <1>4, <1>5

\* The same, one clause each: no member in between, and one member at the end.
LEMMA UpToSame ==
    ASSUME NEW T, NEW i \in Nat, NEW k \in Nat, i <= k, \A j \in (i + 1)..k : j \notin T
    PROVE  UpTo(T, k) = UpTo(T, i)
BY DEF UpTo

LEMMA UpToNext ==
    ASSUME NEW T, NEW i \in Nat, NEW k \in Nat, i < k, k \in T, \A j \in (i + 1)..(k - 1) : j \notin T
    PROVE  /\ UpTo(T, k) = UpTo(T, i) \cup {k}
           /\ Cardinality(UpTo(T, k)) = Cardinality(UpTo(T, i)) + 1
           /\ Cardinality(UpTo(T, i)) \in Nat
<1>1. UpTo(T, k) = UpTo(T, i) \cup {k} /\ k \notin UpTo(T, i) BY DEF UpTo
<1>2. IsFiniteSet(1..i) BY FS_Interval
<1>3. UpTo(T, i) \subseteq 1..i BY Zenon DEF UpTo
<1>4. IsFiniteSet(UpTo(T, i)) BY Zenon, <1>2, <1>3, FS_Subset
<1> QED BY Zenon, <1>1, <1>4, FS_AddElement, FS_CardinalityType

IsSyscallStop(run) == {j \in Nat : run[j].stop = "syscall"}
IsSyscallRecord == {j \in Nat : Records[j].kind \in {"SyscallEnter", "SyscallExit"}}

LEMMA SyscallCounts ==
    /\ \A run, i : SyscallStops(run, i) = UpTo(IsSyscallStop(run), i)
    /\ \A c : SyscallRecords(c) = UpTo(IsSyscallRecord, c)
BY DEF SyscallStops, SyscallRecords, UpTo, IsSyscallStop, IsSyscallRecord

\* One more syscall stop of an execution, and one more syscall record.
LEMMA StopsNext ==
    ASSUME NEW run, NEW i \in Nat, NEW k \in Nat, i < k, run[k].stop = "syscall",
           \A j \in (i + 1)..(k - 1) : run[j].stop # "syscall"
    PROVE  /\ SyscallStops(run, k) = SyscallStops(run, i) \cup {k}
           /\ Cardinality(SyscallStops(run, k)) = Cardinality(SyscallStops(run, i)) + 1
<1> DEFINE T == IsSyscallStop(run)
<1>1. k \in T /\ \A j \in (i + 1)..(k - 1) : j \notin T BY Zenon DEF IsSyscallStop
<1> HIDE DEF T
<1>2. /\ UpTo(T, k) = UpTo(T, i) \cup {k}
      /\ Cardinality(UpTo(T, k)) = Cardinality(UpTo(T, i)) + 1
  BY <1>1, UpToNext
<1> QED BY Zenon, <1>2, SyscallCounts DEF T

LEMMA RecordsNext ==
    ASSUME NEW i \in Nat, NEW k \in Nat, i < k, Records[k].kind \in {"SyscallEnter", "SyscallExit"},
           \A j \in (i + 1)..(k - 1) : Records[j].kind \notin {"SyscallEnter", "SyscallExit"}
    PROVE  /\ SyscallRecords(k) = SyscallRecords(i) \cup {k}
           /\ Told(k) = Told(i) + 1 /\ Told(i) \in Nat
<1> DEFINE T == IsSyscallRecord
<1>1. k \in T /\ \A j \in (i + 1)..(k - 1) : j \notin T BY Zenon DEF IsSyscallRecord
<1> HIDE DEF T
<1>2. /\ UpTo(T, k) = UpTo(T, i) \cup {k}
      /\ Cardinality(UpTo(T, k)) = Cardinality(UpTo(T, i)) + 1
      /\ Cardinality(UpTo(T, i)) \in Nat
  BY <1>1, UpToNext
<1> QED BY Zenon, <1>2, SyscallCounts DEF T, Told

-----------------------------------------------------------------------------
(* The syscalls are the recorded ones.                                     *)

\* No syscall stop is made and no syscall record consumed.
LEMMA VerifiedStays ==
    ASSUME NEW p, NEW q, NEW c \in Nat, NEW d \in Nat, Verified(p, c), p.pos \in Nat, q.pos \in Nat,
           q.run = p.run, p.pos <= q.pos, c <= d,
           \A j \in (p.pos + 1)..q.pos : p.run[j].stop # "syscall",
           \A j \in (c + 1)..d : Records[j].kind \notin {"SyscallEnter", "SyscallExit"}
    PROVE  Verified(q, d) /\ Told(d) = Told(c)
<1>1. SyscallStops(p.run, q.pos) = SyscallStops(p.run, p.pos)
  <2>1. \A j \in (p.pos + 1)..q.pos : j \notin IsSyscallStop(p.run) BY Zenon DEF IsSyscallStop
  <2>2. UpTo(IsSyscallStop(p.run), q.pos) = UpTo(IsSyscallStop(p.run), p.pos)
    BY Zenon, <2>1, UpToSame
  <2> QED BY Zenon, <2>2, SyscallCounts
<1>2. SyscallRecords(d) = SyscallRecords(c)
  <2>1. \A j \in (c + 1)..d : j \notin IsSyscallRecord BY Zenon DEF IsSyscallRecord
  <2>2. UpTo(IsSyscallRecord, d) = UpTo(IsSyscallRecord, c) BY Zenon, <2>1, UpToSame
  <2> QED BY Zenon, <2>2, SyscallCounts
<1>3. \A i : Made(q, i) = Made(p, i) BY Zenon DEF Made
<1> QED BY <1>1, <1>2, <1>3 DEF Verified, Told, Made

\* One more of each, with the same number if it is an entry.
LEMMA VerifiedGrows ==
    ASSUME NEW p, NEW q, NEW c \in Nat, NEW d \in Nat, Verified(p, c), p.pos \in Nat, q.pos \in Nat,
           q.run = p.run, p.pos < q.pos, c < d,
           \A j \in (p.pos + 1)..(q.pos - 1) : p.run[j].stop # "syscall",
           \A j \in (c + 1)..(d - 1) : Records[j].kind \notin {"SyscallEnter", "SyscallExit"},
           p.run[q.pos].stop = "syscall", Records[d].kind \in {"SyscallEnter", "SyscallExit"},
           (Told(c) + 1) % 2 = 1 => p.run[q.pos].nr = Records[d].nr
    PROVE  Verified(q, d) /\ Told(d) = Told(c) + 1 /\ Told(c) \in Nat
<1> DEFINE h == q.pos
<1>1. /\ SyscallStops(p.run, h) = SyscallStops(p.run, p.pos) \cup {h}
      /\ Made(p, h) = Made(p, p.pos) + 1
  <2>0. PICK run : run = p.run BY Zenon
  <2>1. PICK a \in Nat, b \in Nat : a = p.pos /\ b = h BY Zenon
  <2>2. a < b /\ run[b].stop = "syscall" /\ \A j \in (a + 1)..(b - 1) : run[j].stop # "syscall"
    BY Zenon, <2>0, <2>1
  <2>3. /\ SyscallStops(run, b) = SyscallStops(run, a) \cup {b}
        /\ Cardinality(SyscallStops(run, b)) = Cardinality(SyscallStops(run, a)) + 1
    BY SMTT(20), <2>2, StopsNext
  <2> QED BY Zenon, <2>0, <2>1, <2>3 DEF Made
<1>2. /\ SyscallRecords(d) = SyscallRecords(c) \cup {d}
      /\ Told(d) = Told(c) + 1 /\ Told(c) \in Nat
  BY Zenon, RecordsNext
<1>3. ASSUME NEW i \in SyscallStops(p.run, p.pos) PROVE Made(p, i) \in Nat /\ Made(p, i) <= Made(p, p.pos)
  <2>1. i \in Nat /\ i <= p.pos BY DEF SyscallStops
  <2> QED BY Zenon, <2>1, UpToCounts, SyscallCounts DEF Made
<1>4. ASSUME NEW j \in SyscallRecords(c) PROVE Told(j) \in Nat /\ Told(j) <= Told(c)
  <2>1. j \in Nat /\ j <= c BY DEF SyscallRecords
  <2> QED BY Zenon, <2>1, UpToCounts, SyscallCounts DEF Told
<1>5. \A i : Made(q, i) = Made(p, i) BY Zenon DEF Made
<1>6. Made(p, p.pos) = Told(c) BY Zenon DEF Verified
<1>7. ASSUME NEW i \in SyscallStops(q.run, q.pos), NEW j \in SyscallRecords(d),
             Made(q, i) = Told(j), Made(q, i) % 2 = 1
      PROVE  q.run[i].nr = Records[j].nr
  <2>1. CASE i = h /\ j = d
    BY Zenon, <1>1, <1>5, <1>6, <1>7, <2>1
  <2>2. CASE i # h /\ j = d
    BY <1>1, <1>2, <1>3, <1>5, <1>6, <1>7, <2>2
  <2>3. CASE i = h /\ j # d
    BY <1>1, <1>2, <1>4, <1>5, <1>6, <1>7, <2>3
  <2>4. CASE i # h /\ j # d
    BY <1>1, <1>2, <1>5, <1>7, <2>4 DEF Verified
  <2> QED BY Zenon, <2>1, <2>2, <2>3, <2>4
<1>8. Made(q, q.pos) = Told(d) BY Zenon, <1>1, <1>2, <1>5, <1>6
<1> QED BY Zenon, <1>2, <1>7, <1>8 DEF Verified

LEMMA VerifiedSame ==
    ASSUME NEW p, NEW q, NEW c, Verified(p, c), q.run = p.run, q.pos = p.pos
    PROVE  Verified(q, c)
<1>1. \A i : Made(q, i) = Made(p, i) BY Zenon DEF Made
<1> QED BY <1>1 DEF Verified

\* A process that has not run has made no stops.
LEMMA VerifiedAtEntry ==
    ASSUME NEW p, p.pos = 0
    PROVE  Verified(p, 0) /\ Told(0) = 0
<1>1. SyscallStops(p.run, 0) = {} /\ SyscallRecords(0) = {} BY DEF SyscallStops, SyscallRecords
<1>2. Cardinality({}) = 0 BY Zenon, FS_EmptySet
<1> QED BY Zenon, <1>1, <1>2 DEF Verified, Made, Told

\* An error marks the tracee.
LEMMA FailMarks ==
    ASSUME NEW e, NEW at \in Nat, Fail(e, at)
    PROVE  diverged' # None
BY Zenon, SelectAssumption DEF Fail

\* What a turn without an error has compared.
LEMMA TurnChecks ==
    ASSUME ShapeInv, TurnActions, diverged' = None
    PROVE  /\ diverged = None
           /\ \/ /\ OnEntry /\ procs[pid].run[Here].stop = "syscall" /\ pending = None /\ pending' # None
                 /\ Consume("SyscallEnter") /\ NextRecord.nr = procs[pid].run[Here].nr
              \/ /\ OnExit /\ procs[pid].run[Here].stop = "syscall" /\ pending # None /\ pending' = None
                 /\ Consume("SyscallExit")
              \/ /\ procs[pid].run[Here].stop # "syscall" /\ pending' = pending
                 /\ Consume("Signal") \/ cursor' \in {cursor, SkipFrom(cursor)}
<1>0. cursor \in 0..Len(Records) /\ Len(Records) \in Nat
  BY Zenon, SessionAssumption DEF ShapeInv, IsSeq
<1>1. SkipFrom(cursor) \in cursor..Len(Records) BY Zenon, <1>0, SkipFromIs
<1>2. ~Exhausted => NextRecord.seq \in Nat
  <2> SUFFICES ASSUME ~Exhausted PROVE NextRecord.seq \in Nat BY Zenon
  <2>1. SkipFrom(cursor) + 1 \in DOMAIN Records BY <1>0, <1>1, SessionAssumption DEF Exhausted, IsSeq
  <2>2. NextRecord.seq \in Seqno BY Zenon, <2>1, SessionAssumption DEF NextRecord
  <2> QED BY <2>2, SelectAssumption DEF Seqno
<1>3. End \in Nat BY SelectAssumption DEF End
<1>4. ~NoRecord /\ \A kind : ~WrongKind(kind) BY Zenon, <1>2, <1>3, FailMarks DEF NoRecord, WrongKind
<1>5. CASE OnEntry
  <2>1. \A nr : ~WrongNr(nr) BY Zenon, <1>2, FailMarks DEF WrongNr
  <2>2. \A nr : PendingFor(nr) # None BY Zenon, SessionAssumption DEF PendingFor
  <2>3. procs[pid].run[Here].stop = "syscall" /\ pending = None BY Zenon, <1>5 DEF OnEntry, StoppedBy
  <2>4. /\ Consume("SyscallEnter") /\ NrMatches(procs[pid].run[Here].nr)
        /\ pending' = PendingFor(procs[pid].run[Here].nr) /\ UNCHANGED diverged
    BY Zenon, <1>4, <1>5, <2>1 DEF OnEntry
  <2> QED BY Zenon, <1>5, <2>2, <2>3, <2>4 DEF NrMatches
<1>6. CASE OnExit
  BY Zenon, <1>4, <1>6 DEF OnExit, StoppedBy
<1>7. CASE OnSignalStop
  <2>1. procs[pid].run[Here].stop # "syscall" /\ pending' = pending
    BY Zenon, <1>7 DEF OnSignalStop, StoppedBy
  <2>2. ~(~Exhausted /\ Fail("ScheduleDiverged", NextRecord.seq)) BY Zenon, <1>2, FailMarks
  <2> QED BY Zenon, <1>7, <2>1, <2>2 DEF OnSignalStop
<1>8. CASE OnWatchHit
  BY Zenon, <1>8 DEF OnWatchHit, StoppedBy
<1> QED BY Zenon, <1>5, <1>6, <1>7, <1>8 DEF TurnActions

\* Where a record was consumed, only markers were skipped before it.
LEMMA ConsumeIs ==
    ASSUME ShapeInv, NEW kind, Consume(kind)
    PROVE  /\ cursor \in Nat /\ cursor' \in 1..Len(Records) /\ cursor < cursor'
           /\ Records[cursor'].kind = kind /\ NextRecord = Records[cursor']
           /\ current_seq' = Records[cursor'].seq
           /\ \A j \in (cursor + 1)..(cursor' - 1) : Records[j].kind = "Checkpoint"
<1>0. cursor \in 0..Len(Records) /\ Len(Records) \in Nat
  BY Zenon, SessionAssumption DEF ShapeInv, IsSeq
<1>1. /\ SkipFrom(cursor) \in cursor..Len(Records)
      /\ \A j \in (cursor + 1)..SkipFrom(cursor) : Records[j].kind = "Checkpoint"
  BY Zenon, <1>0, SkipFromIs
<1>2. cursor' = SkipFrom(cursor) + 1 /\ SkipFrom(cursor) # Len(Records) BY Zenon DEF Consume, Exhausted
<1>3. cursor' \in Nat /\ SkipFrom(cursor) \in Nat /\ cursor' - 1 = SkipFrom(cursor) BY <1>0, <1>1, <1>2
<1>4. cursor' \in 1..Len(Records) /\ cursor < cursor' BY <1>0, <1>1, <1>2
<1> QED BY <1>0, <1>1, <1>2, <1>3, <1>4 DEF Consume, NextRecord

\* The active tracee after a turn without an error.
LEMMA TurnVerified ==
    ASSUME ShapeInv, NoOrphans, CheckInv, TurnActions, diverged' = None
    PROVE  Verified(procs'[pid'], cursor') /\ (pending' = None <=> Told(cursor') % 2 = 0)
<1>1. PICK Q : Turned(Q) BY Zenon, TurnKind
<1> DEFINE p == procs[pid]
           q == procs'[pid']
<1>2. /\ finished = None /\ pc # "dropped" /\ q.run = p.run /\ q.pos = Here /\ diverged = None
      /\ Here <= Len(p.run)
  BY Zenon, <1>1, TurnedProcs, TurnChecks DEF Turned, Turn, Advanced
<1>3. Verified(p, cursor) /\ (pending = None <=> Told(cursor) % 2 = 0)
  BY Zenon, <1>2 DEF CheckInv
<1>4. /\ p.pos \in Nat /\ Here \in Nat /\ p.pos < Here
      /\ \A j \in (p.pos + 1)..(Here - 1) : p.run[j].stop = "write"
  BY <1>2, HereIs DEF IsSeq
<1>5. cursor \in Nat /\ cursor' \in Nat /\ Told(cursor) \in Nat
  <2>1. cursor \in Nat /\ cursor' \in Nat BY CursorMoves DEF ShapeInv
  <2>2. cursor <= cursor BY <2>1
  <2> QED BY Zenon, <2>1, <2>2, UpToCounts, SyscallCounts DEF Told
<1> HIDE DEF p, q
<1>6. ASSUME NEW kind \in {"SyscallEnter", "SyscallExit"}, Consume(kind), p.run[Here].stop = "syscall",
             (Told(cursor) + 1) % 2 = 1 => NextRecord.nr = p.run[Here].nr
      PROVE  Verified(q, cursor') /\ Told(cursor') = Told(cursor) + 1
  <2>1. /\ cursor < cursor' /\ Records[cursor'].kind = kind /\ NextRecord = Records[cursor']
        /\ \A j \in (cursor + 1)..(cursor' - 1) : Records[j].kind = "Checkpoint"
    BY Zenon, <1>6, ConsumeIs
  <2>2. /\ q.pos \in Nat /\ p.pos < q.pos /\ p.run[q.pos].stop = "syscall"
        /\ \A j \in (p.pos + 1)..(q.pos - 1) : p.run[j].stop # "syscall"
    BY Zenon, <1>2, <1>4, <1>6
  <2>3. \A j \in (cursor + 1)..(cursor' - 1) : Records[j].kind \notin {"SyscallEnter", "SyscallExit"}
    BY Zenon, <2>1
  <2>4. (Told(cursor) + 1) % 2 = 1 => p.run[q.pos].nr = Records[cursor'].nr BY Zenon, <1>2, <1>6, <2>1
  <2>5. PICK c \in Nat, d \in Nat : c = cursor /\ d = cursor' BY Zenon, <1>5
  <2>6. /\ Verified(p, c) /\ c < d /\ Records[d].kind \in {"SyscallEnter", "SyscallExit"}
        /\ \A j \in (c + 1)..(d - 1) : Records[j].kind \notin {"SyscallEnter", "SyscallExit"}
        /\ (Told(c) + 1) % 2 = 1 => p.run[q.pos].nr = Records[d].nr
    BY Zenon, <1>3, <1>6, <2>1, <2>3, <2>4, <2>5
  <2>7. q.run = p.run /\ p.pos \in Nat BY Zenon, <1>2, <1>4
  <2>8. Verified(q, d) /\ Told(d) = Told(c) + 1
    BY <2>2, <2>6, <2>7, VerifiedGrows
  <2> QED BY Zenon, <2>5, <2>8
<1>7. CASE OnEntry /\ p.run[Here].stop = "syscall" /\ pending = None /\ pending' # None
           /\ Consume("SyscallEnter") /\ NextRecord.nr = p.run[Here].nr
  <2>1. Verified(q, cursor') /\ Told(cursor') = Told(cursor) + 1 BY Zenon, <1>6, <1>7
  <2>2. Told(cursor) % 2 = 0 BY Zenon, <1>3, <1>7
  <2>3. (Told(cursor) + 1) % 2 # 0 BY <1>5, <2>2
  <2> QED BY Zenon, <1>7, <2>1, <2>3 DEF q
<1>8. CASE OnExit /\ p.run[Here].stop = "syscall" /\ pending # None /\ pending' = None
           /\ Consume("SyscallExit")
  <2>1. Told(cursor) % 2 # 0 BY Zenon, <1>3, <1>8
  <2>2. (Told(cursor) + 1) % 2 = 0 BY <1>5, <2>1
  <2>3. Verified(q, cursor') /\ Told(cursor') = Told(cursor) + 1 BY <1>6, <1>8, <2>2
  <2> QED BY Zenon, <1>8, <2>2, <2>3 DEF q
<1>9. CASE p.run[Here].stop # "syscall" /\ pending' = pending
           /\ (Consume("Signal") \/ cursor' \in {cursor, SkipFrom(cursor)})
  <2>1. \A j \in (p.pos + 1)..Here : p.run[j].stop # "syscall" BY <1>4, <1>9
  <2>2. /\ cursor <= cursor'
        /\ \A j \in (cursor + 1)..cursor' : Records[j].kind \notin {"SyscallEnter", "SyscallExit"}
    <3>1. CASE Consume("Signal")
      <4>1. /\ cursor < cursor' /\ Records[cursor'].kind = "Signal"
            /\ \A j \in (cursor + 1)..(cursor' - 1) : Records[j].kind = "Checkpoint"
        BY Zenon, <3>1, ConsumeIs
      <4>2. PICK c \in Nat, d \in Nat : c = cursor /\ d = cursor' BY Zenon, <1>5
      <4>3. \A j \in (c + 1)..d : j = d \/ j \in (c + 1)..(d - 1) OBVIOUS
      <4>4. c < d /\ \A j \in (c + 1)..d : Records[j].kind \in {"Signal", "Checkpoint"}
        BY Zenon, <4>1, <4>2, <4>3
      <4> QED BY <4>2, <4>4
    <3>2. CASE cursor' \in {cursor, SkipFrom(cursor)}
      <4>1. /\ SkipFrom(cursor) \in cursor..Len(Records)
            /\ \A j \in (cursor + 1)..SkipFrom(cursor) : Records[j].kind = "Checkpoint"
        BY Zenon, SkipFromIs DEF ShapeInv
      <4> QED BY <1>5, <3>2, <4>1
    <3> QED BY Zenon, <1>9, <3>1, <3>2
  <2>3. Verified(q, cursor') /\ Told(cursor') = Told(cursor)
    BY <1>2, <1>3, <1>4, <1>5, <2>1, <2>2, VerifiedStays
  <2> QED BY Zenon, <1>3, <1>9, <2>3 DEF q
<1> QED BY Zenon, <1>7, <1>8, <1>9, TurnChecks DEF p

LEMMA CheckStep ==
    ASSUME ShapeInv, NoOrphans, CheckInv, Next
    PROVE  CheckInv'
<1> DEFINE Snap(cp, P) == cp.diverged = None =>
                             Verified(P[cp.snapshot], cp.cursor) /\ Told(cp.cursor) % 2 = 0
<1>0. /\ pc # "dropped" /\ DOMAIN procs = Pid /\ pid \in Pid
      /\ \A p \in Pid : DOMAIN procs[p] = ProcFields
      /\ \A i \in DOMAIN checkpoints : Snap(checkpoints[i], procs)
      /\ \A i \in DOMAIN checkpoints : checkpoints[i].snapshot \in Pid
  BY Zenon, StepKinds DEF ShapeInv, ProcOK, CheckInv, CheckpointOK
<1>s. ASSUME UNCHANGED checkpoints,
             \A i \in DOMAIN checkpoints :
                /\ procs'[checkpoints[i].snapshot].run = procs[checkpoints[i].snapshot].run
                /\ procs'[checkpoints[i].snapshot].pos = procs[checkpoints[i].snapshot].pos
      PROVE  \A i \in DOMAIN checkpoints' : Snap(checkpoints'[i], procs')
  BY Zenon, <1>0, <1>s, VerifiedSame
<1>1. CASE Still
  <2>1. UNCHANGED <<procs, pid, cursor, pending, finished, diverged, checkpoints>>
    BY Zenon, <1>1 DEF Still, seat
  <2> QED BY Zenon, <1>0, <2>1 DEF CheckInv
<1>2. CASE \E f, N : Respawned(f, N) \/ \E k \in DOMAIN checkpoints : Restored(f, N, k)
  <2>1. PICK f, N : Respawned(f, N) \/ \E k \in DOMAIN checkpoints : Restored(f, N, k) BY Zenon, <1>2
  <2>2. Reseated(f, N) BY Zenon, <2>1 DEF Respawned, Restored
  <2>3. \A i \in DOMAIN checkpoints' : Snap(checkpoints'[i], procs')
    <3>1. \A i \in DOMAIN checkpoints :
              ~(finished = None /\ checkpoints[i].snapshot = pid) /\ checkpoints[i].snapshot # f
      BY Zenon, <1>0, <2>2, OwnedAlive DEF Reseated
    <3> QED BY Zenon, <1>0, <1>s, <2>2, <3>1 DEF Reseated
  <2>4. diverged' = None => Verified(procs'[pid'], cursor') /\ Told(cursor') % 2 = 0
    <3>1. CASE Respawned(f, N)
      <4>1. procs'[pid'].pos = 0 /\ cursor' = 0 BY Zenon, <3>1 DEF Respawned, Reseated
      <4> QED BY <4>1, VerifiedAtEntry
    <3>2. ASSUME NEW k \in DOMAIN checkpoints, Restored(f, N, k), diverged' = None
          PROVE  Verified(procs'[pid'], cursor') /\ Told(cursor') % 2 = 0
      <4>1. /\ cursor' = checkpoints[k].cursor /\ checkpoints[k].diverged = None
            /\ procs'[pid'].run = procs[checkpoints[k].snapshot].run
            /\ procs'[pid'].pos = procs[checkpoints[k].snapshot].pos
        BY Zenon, <3>2 DEF Restored, Reseated
      <4> QED BY Zenon, <1>0, <4>1, VerifiedSame
    <3> QED BY Zenon, <2>1, <3>1, <3>2
  <2>5. pending' = None BY Zenon, <2>2 DEF Reseated
  <2> QED BY Zenon, <2>3, <2>4, <2>5 DEF CheckInv
<1>3. CASE TurnActions
  <2>1. PICK Q : Turned(Q) BY Zenon, <1>3, TurnKind
  <2>2. diverged' = None =>
            Verified(procs'[pid'], cursor') /\ (pending' = None <=> Told(cursor') % 2 = 0)
    BY Zenon, <1>3, TurnVerified
  <2>3. \A i \in DOMAIN checkpoints : procs'[checkpoints[i].snapshot] = procs[checkpoints[i].snapshot]
    BY Zenon, <2>1, TurnedProcs
  <2>4. \A i \in DOMAIN checkpoints' : Snap(checkpoints'[i], procs')
    <3>1. CASE UNCHANGED checkpoints BY Zenon, <1>0, <2>3, <3>1
    <3>2. CASE TakesSnapshot(Q)
      <4> DEFINE n == Len(checkpoints)
      <4>1. /\ n \in Nat /\ DOMAIN checkpoints = 1..n /\ DOMAIN checkpoints' = 1..(n + 1)
            /\ \A i \in 1..n : checkpoints'[i] = checkpoints[i]
            /\ checkpoints'[n + 1] = Snapshot
            /\ procs'[Snapshot.snapshot].run = procs[pid].run
            /\ procs'[Snapshot.snapshot].pos = Here
        BY Zenon, <2>1, <3>2, SnapshotTaken DEF Snapshot
      <4>2. /\ Snapshot.cursor = cursor' /\ Snapshot.diverged = diverged' /\ pending' = None
        BY Zenon, <3>2 DEF Snapshot, TakesSnapshot, OnExit
      <4>3. procs'[pid'].run = procs[pid].run /\ procs'[pid'].pos = Here
        BY Zenon, <2>1, TurnedProcs DEF Turned, Advanced
      <4> HIDE DEF n
      <4>4. Snap(Snapshot, procs')
        BY <2>2, <4>1, <4>2, <4>3, VerifiedSame
      <4>5. \A i \in 1..n : Snap(checkpoints'[i], procs') BY Zenon, <1>0, <2>3, <4>1
      <4>6. \A i \in DOMAIN checkpoints' : i \in 1..n \/ i = n + 1 BY <4>1
      <4> HIDE DEF Snap
      <4> QED BY Zenon, <4>1, <4>4, <4>5, <4>6
    <3> QED BY Zenon, <2>1, <3>1, <3>2 DEF Turned
  <2> QED BY Zenon, <2>2, <2>4 DEF CheckInv
<1>4. CASE OnGone
  <2>1. finished' # None /\ UNCHANGED checkpoints BY Zenon, <1>4, SessionAssumption DEF OnGone
  <2>2. finished = None /\ procs' = [procs EXCEPT ![pid] = Free] BY Zenon, <1>4 DEF OnGone, Turn
  <2>3. \A i \in DOMAIN checkpoints : checkpoints[i].snapshot # pid BY Zenon, <1>0, <2>2, OwnedAlive
  <2>4. \A i \in DOMAIN checkpoints' : Snap(checkpoints'[i], procs')
    BY Zenon, <1>0, <1>s, <2>1, <2>2, <2>3
  <2> QED BY Zenon, <2>1, <2>4 DEF CheckInv
<1>5. CASE Watch \/ ClearWatch
  <2>1. \/ procs' = procs
        \/ \E b : procs' = [procs EXCEPT ![pid].armed = b]
    BY Zenon, <1>5 DEF Watch, ClearWatch
  <2>2. UNCHANGED <<pid, cursor, pending, finished, diverged, checkpoints>>
    BY Zenon, <1>5 DEF Watch, ClearWatch, seat
  <2>3. ASSUME NEW p \in Pid PROVE procs'[p].run = procs[p].run /\ procs'[p].pos = procs[p].pos
    <3>1. ASSUME NEW b, procs' = [procs EXCEPT ![pid].armed = b]
          PROVE  procs'[p].run = procs[p].run /\ procs'[p].pos = procs[p].pos
      BY Zenon, <1>0, <3>1 DEF ProcFields
    <3> QED BY Zenon, <2>1, <3>1
  <2>4. \A i \in DOMAIN checkpoints' : Snap(checkpoints'[i], procs')
    BY Zenon, <1>0, <1>s, <2>2, <2>3
  <2>5. \A c : Verified(procs[pid], c) => Verified(procs'[pid], c) BY Zenon, <1>0, <2>3, VerifiedSame
  <2> QED BY Zenon, <1>0, <2>2, <2>4, <2>5 DEF CheckInv
<1>6. CASE Drop
  BY Zenon, <1>6 DEF Drop, CheckInv
<1> QED BY Zenon, <1>1, <1>2, <1>3, <1>4, <1>5, <1>6, StepKinds

-----------------------------------------------------------------------------
(* The theorems.                                                           *)

LEMMA InitIs ==
    ASSUME Init
    PROVE  /\ pid \in Pid /\ DOMAIN procs = Pid
           /\ \E run \in Runs : procs[pid] = AtEntry(run)
           /\ \A p \in Pid \ {pid} : procs[p] = Free
<1> DEFINE none == [q \in Pid |-> Free]
<1>1. Room(none) BY Zenon, SessionAssumption, FreeOK DEF Room
<1>2. FreshPid(none) \in Pid BY Zenon, <1>1, FreshIs
<1>3. PICK run \in Runs : procs = [p \in Pid |-> IF p = FreshPid(none) THEN AtEntry(run) ELSE Free]
  BY Zenon DEF Init
<1>4. pid = FreshPid(none) BY Zenon DEF Init
<1> HIDE DEF none
<1> QED BY Zenon, <1>2, <1>3, <1>4

LEMMA SessionInit ==
    ASSUME Init
    PROVE  SessionInv
<1>1. PICK run \in Runs : procs[pid] = AtEntry(run) BY Zenon, InitIs
<1>2. /\ pid \in Pid /\ DOMAIN procs = Pid /\ \A p \in Pid \ {pid} : procs[p] = Free BY Zenon, InitIs
<1>3. /\ cursor = 0 /\ current_seq = None /\ pending = None /\ finished = None
      /\ checkpoint_interval = 0 /\ checkpoints = <<>> /\ watchpoint = FALSE /\ hit = None
      /\ pc = "idle" /\ diverged = None
  BY Zenon DEF Init
<1>4. /\ AtEntry(run).st = "stopped" /\ AtEntry(run).pos = 0 /\ ProcOK(AtEntry(run))
  BY SessionAssumption DEF AtEntry, ProcOK, ProcFields, IsSeq
<1>5. DOMAIN checkpoints = {} /\ IsSequence(checkpoints)
  <2>1. checkpoints \in Seq(Nat) BY <1>3
  <2> QED BY <1>3, <2>1 DEF IsSequence
<1>6. ShapeInv
  <2>1. cursor \in 0..Len(Records) BY <1>3, SessionAssumption DEF IsSeq
  <2>2. \A p \in Pid : ProcOK(procs[p]) BY Zenon, <1>1, <1>2, <1>4, FreeOK
  <2> QED BY Zenon, <1>2, <1>3, <1>5, <2>1, <2>2 DEF ShapeInv
<1>7. NoOrphans
  <2>1. Owned = {pid} BY Zenon, <1>3, <1>5 DEF Owned
  <2>2. {p \in Pid : procs[p].st # "free"} = {pid} BY Zenon, <1>1, <1>2, <1>4, FreeOK
  <2> QED BY Zenon, <1>3, <1>5, <2>1, <2>2 DEF NoOrphans
<1>8. OrderInv /\ ValueInv
  BY Zenon, <1>3, <1>5 DEF OrderInv, ValueInv, WatchFollows, OldValueTrue
<1>9. CheckInv
  <2>1. Verified(procs[pid], 0) /\ Told(0) = 0 BY Zenon, <1>1, <1>4, VerifiedAtEntry
  <2> QED BY <1>3, <1>5, <2>1 DEF CheckInv
<1> QED BY Zenon, <1>6, <1>7, <1>8, <1>9 DEF SessionInv

LEMMA SessionStutter ==
    ASSUME SessionInv, UNCHANGED vars
    PROVE  SessionInv'
<1>0. UNCHANGED <<procs, pid, cursor, current_seq, pending, finished, checkpoint_interval, checkpoints,
                  watchpoint, last_value, hit, rewound, pc, diverged>>
  BY Zenon DEF vars, seat, watch, call
<1>1. ShapeInv' BY Zenon, <1>0 DEF SessionInv, ShapeInv
<1>2. NoOrphans'
  <2>1. Owned' = Owned BY Zenon, <1>0 DEF Owned
  <2> QED BY Zenon, <1>0, <2>1 DEF SessionInv, NoOrphans
<1>3. OrderInv' BY Zenon, <1>0 DEF SessionInv, OrderInv
<1>4. ValueInv' BY Zenon, <1>0 DEF SessionInv, ValueInv, WatchFollows, OldValueTrue
<1>5. CheckInv' BY Zenon, <1>0 DEF SessionInv, CheckInv
<1> QED BY Zenon, <1>1, <1>2, <1>3, <1>4, <1>5 DEF SessionInv

\* The inductive invariant holds of a session over any trace, tracee and calls.
THEOREM SessionInvariance == Spec => []SessionInv
<1>1. Init => SessionInv BY Zenon, SessionInit
<1>2. SessionInv /\ [Next]_vars => SessionInv'
  <2>1. ASSUME SessionInv, Next PROVE SessionInv'
    BY Zenon, <2>1, ShapeStep, OwnStep, OrderStep, ValueStep, CheckStep DEF SessionInv
  <2> QED BY Zenon, <2>1, SessionStutter
<1> QED BY <1>1, <1>2, PTL DEF Spec

\* No process outlives the session or is owned twice, whatever is forked, restored,
\* respawned, reaped and dropped (session.rs: kill_active, fork_snapshot, Drop).
THEOREM ProcessesAreOwned == Spec => []NoOrphans
<1>1. SessionInv => NoOrphans BY Zenon DEF SessionInv
<1> QED BY <1>1, SessionInvariance, PTL

\* A watchpoint once set is armed on whatever tracee is active (rearm_watchpoint in
\* restore_to_checkpoint and respawn).
THEOREM WatchIsCarried == Spec => []WatchFollows
<1>1. SessionInv => WatchFollows BY Zenon DEF SessionInv, ValueInv
<1> QED BY <1>1, SessionInvariance, PTL

\* A hit's old value is what the range held, unless the session has gone backward
\* since it was read (on_watch_hit and last_value).
THEOREM OldValuesAreTrue == Spec => []OldValueTrue
<1>1. SessionInv => OldValueTrue BY Zenon DEF SessionInv, ValueInv
<1> QED BY <1>1, SessionInvariance, PTL

\* A tracee no error was reported for has made exactly the recorded syscalls, for
\* every trace and every execution held against it (on_entry, on_exit).
THEOREM SyscallsAreRecorded == Spec => []SyscallsVerified
<1>1. SessionInv => SyscallsVerified
  <2> SUFFICES ASSUME SessionInv, pc # "dropped", finished = None, diverged = None
               PROVE  Verified(procs[pid], cursor)
    BY Zenon DEF SyscallsVerified, Verified, Made, Told
  <2> QED BY Zenon DEF SessionInv, CheckInv
<1> QED BY <1>1, SessionInvariance, PTL
=============================================================================
