------------------------- MODULE ReplayFaithProofs -------------------------
(***************************************************************************)
(* A session over a target that repeats the recorded execution: it stays   *)
(* in step, its snapshots stay where they were taken, and its steps are    *)
(* those of TimeTravel (crates/replay/src/session.rs, checkpoint.rs).      *)
(***************************************************************************)
EXTENDS ReplaySessionProofs

-----------------------------------------------------------------------------
(* A faithful execution: the second inductive invariant.                   *)

LastSeq(c) ==
    IF Consumed(c) = {} THEN None
    ELSE Records[CHOOSE j \in Consumed(c) : \A k \in Consumed(c) : k <= j].seq

\* p has made the stops of the first c records and was fed their results.
Follows(p, c) ==
    /\ p.st = "stopped" /\ p.fed = LastFed(c)
    /\ Cardinality(Passed(p.run, p.pos)) = Cardinality(Consumed(c))

\* What the session remembers of the active tracee is what the tracee has done.
Remembers(p, c, exit, sig, watching) ==
    /\ Follows(p, c) /\ (p.armed => watching)
    /\ Opens(c) = {} => exit = None
    /\ \A i \in Opens(c) : exit = PendingFor(Records[i].nr)
    /\ sig # None <=> (p.pos > 0 /\ p.run[p.pos].stop = "signal")
    /\ sig # SigTrap

SeatInv ==
    /\ current_seq = LastSeq(cursor) /\ finished \in {None, "exited"}
    /\ finished # None => Consumed(cursor) = Consumed(Len(Records))
    /\ pc # "dropped" /\ finished = None =>
          Remembers(procs[pid], cursor, pending, resume_signal, watchpoint)

SnapOK(cp, p) == Follows(p, cp.cursor) /\ p.pos > 0 /\ p.run[p.pos].stop = "syscall"

SnapInv == pc # "dropped" => \A i \in DOMAIN checkpoints : SnapOK(checkpoints[i], procs[checkpoints[i].snapshot])

Positions == {Records[j].seq : j \in Consumed(Len(Records))}

\* A run_to being served has not passed a position at or after its target.
AskInv ==
    /\ asked # None => asked \in Target
    /\ pc = "drive" /\ asked # None =>
          /\ stop_at = asked
          /\ current_seq # None => \A u \in Positions : u >= asked => current_seq <= u

NoError == result \notin Errors \ {"Ptrace"}

FaithInv == SessionInv /\ NoError /\ SeatInv /\ SnapInv /\ AskInv

-----------------------------------------------------------------------------
(* Records as they are consumed.                                           *)

IsStop(run) == {j \in Nat : run[j].stop # "write"}
IsRecord == {j \in Nat : Records[j].kind # "Checkpoint"}

LEMMA StopCounts ==
    /\ \A run, i : Passed(run, i) = UpTo(IsStop(run), i)
    /\ \A c : Consumed(c) = UpTo(IsRecord, c)
BY DEF Passed, Consumed, UpTo, IsStop, IsRecord

\* The last of a set of numbers that one larger than all was added to.
LEMMA LastAdded ==
    ASSUME NEW S \in SUBSET Nat, NEW d \in S, \A k \in S : k <= d
    PROVE  (CHOOSE j \in S : \A k \in S : k <= j) = d
<1> DEFINE m == CHOOSE j \in S : \A k \in S : k <= j
<1>1. m \in S /\ \A k \in S : k <= m BY Zenon
<1> HIDE DEF m
<1>2. m \in Nat /\ d \in Nat /\ m <= d /\ d <= m BY Zenon, <1>1
<1>3. m = d BY <1>2
<1> QED BY Zenon, <1>3 DEF m

\* Skipping markers consumes nothing.
LEMMA ConsumedStays ==
    ASSUME NEW c \in Nat, NEW d \in Nat, c <= d,
           \A j \in (c + 1)..d : Records[j].kind = "Checkpoint"
    PROVE  Consumed(d) = Consumed(c)
<1>1. \A j \in (c + 1)..d : j \notin IsRecord BY Zenon DEF IsRecord
<1>2. UpTo(IsRecord, d) = UpTo(IsRecord, c) BY <1>1, UpToCounts
<1> QED BY Zenon, <1>2, StopCounts

\* One more record: it is the last, an entry opens, an exit closes, a signal does neither.
LEMMA ConsumedGrows ==
    ASSUME NEW c \in Nat, NEW d \in Nat, c < d, Records[d].kind # "Checkpoint",
           \A j \in (c + 1)..(d - 1) : Records[j].kind = "Checkpoint"
    PROVE  /\ Consumed(d) = Consumed(c) \cup {d} /\ \A k \in Consumed(c) : k \in Nat /\ k < d
           /\ Cardinality(Consumed(d)) = Cardinality(Consumed(c)) + 1
           /\ LastSeq(d) = Records[d].seq
           /\ LastFed(d) = IF Records[d].kind = "SyscallExit" /\ Records[d].nr \in Injected
                             THEN Records[d].seq ELSE LastFed(c)
           /\ Opens(d - 1) = Opens(c)
           /\ Records[d].kind = "SyscallEnter" => Opens(d) = {d}
           /\ Records[d].kind = "SyscallExit" => Opens(d) = {}
           /\ Records[d].kind = "Signal" => Opens(d) = Opens(c)
<1>1. /\ Consumed(d) = Consumed(c) \cup {d}
      /\ Cardinality(Consumed(d)) = Cardinality(Consumed(c)) + 1
  <2>1. d \in IsRecord /\ \A j \in (c + 1)..(d - 1) : j \notin IsRecord BY Zenon DEF IsRecord
  <2>2. /\ UpTo(IsRecord, d) = UpTo(IsRecord, c) \cup {d}
        /\ Cardinality(UpTo(IsRecord, d)) = Cardinality(UpTo(IsRecord, c)) + 1
    BY <2>1, UpToCounts
  <2> QED BY Zenon, <2>2, StopCounts
<1>2. \A k \in Consumed(c) : k \in Nat /\ k < d BY DEF Consumed
<1>3. LastSeq(d) = Records[d].seq
  <2>1. d \in Consumed(d) /\ Consumed(d) \in SUBSET Nat /\ \A k \in Consumed(d) : k <= d
    BY <1>1, <1>2
  <2>2. (CHOOSE j \in Consumed(d) : \A k \in Consumed(d) : k <= j) = d
    <3> DEFINE S == Consumed(d)
    <3> HIDE DEF S
    <3>1. (CHOOSE j \in S : \A k \in S : k <= j) = d BY Zenon, <2>1, LastAdded DEF S
    <3> QED BY Zenon, <3>1 DEF S
  <2> QED BY Zenon, <2>1, <2>2 DEF LastSeq
<1>4. LastFed(d) = IF Records[d].kind = "SyscallExit" /\ Records[d].nr \in Injected
                     THEN Records[d].seq ELSE LastFed(c)
  <2> DEFINE F(n) == {j \in Consumed(n) : Records[j].kind = "SyscallExit" /\ Records[j].nr \in Injected}
             fed(S) == IF S = {} THEN None ELSE Records[CHOOSE j \in S : \A k \in S : k <= j].seq
  <2>1. LastFed(d) = fed(F(d)) /\ LastFed(c) = fed(F(c)) BY Zenon DEF LastFed
  <2>2. CASE Records[d].kind = "SyscallExit" /\ Records[d].nr \in Injected
    <3>1. d \in F(d) /\ F(d) \in SUBSET Nat /\ \A k \in F(d) : k <= d BY <1>1, <1>2, <2>2
    <3> HIDE DEF F
    <3>2. (CHOOSE j \in F(d) : \A k \in F(d) : k <= j) = d
      <4> DEFINE S == F(d)
      <4> HIDE DEF S
      <4>1. (CHOOSE j \in S : \A k \in S : k <= j) = d BY Zenon, <3>1, LastAdded DEF S
      <4> QED BY Zenon, <4>1 DEF S
    <3>3. F(d) # {} BY Zenon, <3>1
    <3>4. fed(F(d)) = Records[d].seq BY Zenon, <3>2, <3>3
    <3> HIDE DEF fed
    <3> QED BY Zenon, <2>1, <2>2, <3>4
  <2>3. CASE ~(Records[d].kind = "SyscallExit" /\ Records[d].nr \in Injected)
    <3>1. F(d) = F(c) BY Zenon, <1>1, <2>3
    <3> HIDE DEF F, fed
    <3> QED BY Zenon, <2>1, <2>3, <3>1
  <2> QED BY Zenon, <2>2, <2>3
<1>5. Opens(d - 1) = Opens(c)
  <2>1. d - 1 \in Nat /\ c <= d - 1 OBVIOUS
  <2>2. Consumed(d - 1) = Consumed(c) BY Zenon, <2>1, ConsumedStays
  <2> QED BY Zenon, <2>2 DEF Opens
<1>6. Records[d].kind = "SyscallEnter" => Opens(d) = {d} BY <1>1, <1>2 DEF Opens
<1>7. Records[d].kind = "SyscallExit" => Opens(d) = {} BY Zenon, <1>1, <1>2 DEF Opens
<1>8. Records[d].kind = "Signal" => Opens(d) = Opens(c) BY Zenon, <1>1, <1>2 DEF Opens
<1> QED BY Zenon, <1>1, <1>2, <1>3, <1>4, <1>5, <1>6, <1>7, <1>8

\* One more stop.
LEMMA PassedGrows ==
    ASSUME NEW run, NEW i \in Nat, NEW h \in Nat, i < h,
           \A j \in (i + 1)..(h - 1) : run[j].stop = "write"
    PROVE  /\ run[h].stop = "write" => Passed(run, h) = Passed(run, i)
           /\ run[h].stop # "write" =>
                Cardinality(Passed(run, h)) = Cardinality(Passed(run, i)) + 1
           /\ Passed(run, h - 1) = Passed(run, i)
<1>1. \A j \in (i + 1)..(h - 1) : j \notin IsStop(run) BY Zenon DEF IsStop
<1>2. ASSUME run[h].stop = "write" PROVE Passed(run, h) = Passed(run, i)
  <2>1. \A j \in (i + 1)..h : j = h \/ j \in (i + 1)..(h - 1) OBVIOUS
  <2>2. \A j \in (i + 1)..h : j \notin IsStop(run) BY Zenon, <1>1, <1>2, <2>1 DEF IsStop
  <2>3. UpTo(IsStop(run), h) = UpTo(IsStop(run), i) BY <2>2, UpToCounts
  <2> QED BY Zenon, <2>3, StopCounts
<1>3. ASSUME run[h].stop # "write"
      PROVE  Cardinality(Passed(run, h)) = Cardinality(Passed(run, i)) + 1
  <2>1. h \in IsStop(run) BY Zenon, <1>3 DEF IsStop
  <2>2. Cardinality(UpTo(IsStop(run), h)) = Cardinality(UpTo(IsStop(run), i)) + 1
    BY <1>1, <2>1, UpToCounts
  <2> QED BY Zenon, <2>2, StopCounts
<1>4. Passed(run, h - 1) = Passed(run, i)
  <2>1. h - 1 \in Nat /\ i <= h - 1 OBVIOUS
  <2>2. UpTo(IsStop(run), h - 1) = UpTo(IsStop(run), i) BY <1>1, <2>1, UpToCounts
  <2> QED BY Zenon, <2>2, StopCounts
<1> QED BY Zenon, <1>2, <1>3, <1>4

-----------------------------------------------------------------------------
(* A faithful turn finds the record of its stop.                           *)

LEMMA NextMatches ==
    ASSUME Faithful, SessionInv, SeatInv, Turn, Here <= Len(procs[pid].run),
           procs[pid].run[Here].stop # "write"
    PROVE  /\ ~Exhausted /\ Matches(procs[pid].run[Here], NextRecord)
           /\ NextRecord.kind \in {"SyscallEnter", "SyscallExit", "Signal"}
           /\ NextRecord.kind = "SyscallEnter" => Opens(cursor) = {}
           /\ NextRecord.kind = "SyscallExit" => \E i \in Opens(cursor) : Records[i].nr = NextRecord.nr
           /\ NextRecord.kind = "Signal" => NextRecord.nr \notin {None, SigTrap}
<1> DEFINE run == procs[pid].run
           pos == procs[pid].pos
           n == Len(Records)
           d == SkipFrom(cursor) + 1
<1>0. ShapeInv /\ NoOrphans /\ pc # "dropped" /\ finished = None BY Zenon DEF SessionInv, Turn
<1>1. /\ run \in Runs /\ IsSeq(run) /\ pos \in Nat /\ Here \in Nat /\ Len(run) \in Nat /\ pos < Here
      /\ \A j \in (pos + 1)..(Here - 1) : run[j].stop = "write"
  BY <1>0, HereIs DEF IsSeq
<1>2. cursor \in 0..n /\ cursor \in Nat /\ n \in Nat BY <1>0, SessionAssumption DEF ShapeInv, IsSeq
<1>3. /\ SkipFrom(cursor) \in cursor..n
      /\ \A j \in (cursor + 1)..SkipFrom(cursor) : Records[j].kind = "Checkpoint"
      /\ SkipFrom(cursor) < n => Records[d].kind # "Checkpoint"
  BY Zenon, <1>2, SkipFromIs
<1>4. Cardinality(Passed(run, pos)) = Cardinality(Consumed(cursor))
  BY Zenon, <1>0 DEF SeatInv, Remembers, Follows
<1> HIDE DEF run, pos, n
<1>5. Cardinality(Passed(run, Here)) = Cardinality(Consumed(cursor)) + 1
  <2>1. run[Here].stop # "write" BY Zenon DEF run
  <2>2. Cardinality(Passed(run, Here)) = Cardinality(Passed(run, pos)) + 1 BY Zenon, <1>1, <2>1, PassedGrows
  <2> QED BY Zenon, <1>4, <2>2
<1>6. Cardinality(Passed(run, Len(run))) = Cardinality(Consumed(n)) BY Zenon, <1>1 DEF Faithful, n
<1>7. /\ Cardinality(Passed(run, Here)) <= Cardinality(Passed(run, Len(run)))
      /\ Cardinality(Consumed(cursor)) \in Nat /\ Cardinality(Consumed(n)) \in Nat
  <2>1. Here <= Len(run) BY Zenon DEF run
  <2>2. Cardinality(UpTo(IsStop(run), Here)) <= Cardinality(UpTo(IsStop(run), Len(run)))
    BY Zenon, <1>1, <2>1, UpToCounts
  <2>3. Cardinality(UpTo(IsRecord, cursor)) \in Nat /\ Cardinality(UpTo(IsRecord, n)) \in Nat
    BY <1>2, UpToCounts
  <2> QED BY Zenon, <2>2, <2>3, StopCounts
<1>8. ~Exhausted
  <2> SUFFICES ASSUME SkipFrom(cursor) = n PROVE FALSE BY Zenon DEF Exhausted, n
  <2>1. Consumed(n) = Consumed(cursor) BY <1>2, <1>3, ConsumedStays
  <2> QED BY <1>5, <1>6, <1>7, <2>1
<1>9. /\ d \in Nat /\ d \in 1..n /\ cursor < d /\ Records[d].kind # "Checkpoint"
      /\ \A j \in (cursor + 1)..(d - 1) : Records[j].kind = "Checkpoint"
  <2>1. SkipFrom(cursor) # n BY Zenon, <1>8 DEF Exhausted, n
  <2> QED BY <1>2, <1>3, <2>1
<1>10. NextRecord = Records[d] BY Zenon DEF NextRecord
<1> HIDE DEF d
<1>11. Cardinality(Consumed(d)) = Cardinality(Consumed(cursor)) + 1 /\ Opens(d - 1) = Opens(cursor)
  <2>1. PICK c \in Nat : c = cursor BY Zenon, <1>2
  <2>2. Cardinality(Consumed(d)) = Cardinality(Consumed(c)) + 1 /\ Opens(d - 1) = Opens(c)
    BY Zenon, <1>9, <2>1, ConsumedGrows
  <2> QED BY Zenon, <2>1, <2>2
<1>12. Here \in Passed(run, Len(run)) BY <1>1 DEF Passed, run
<1>13. d \in Consumed(n) /\ d \in DOMAIN Records BY Zenon, <1>9, SessionAssumption DEF Consumed, n, IsSeq
<1>14. Matches(run[Here], Records[d])
  <2>1. Cardinality(Passed(run, Here)) = Cardinality(Consumed(d)) BY Zenon, <1>5, <1>11
  <2> QED BY Zenon, <1>1, <1>12, <1>13, <2>1 DEF Faithful, n
<1>15. /\ Records[d].kind = "SyscallEnter" => Opens(d - 1) = {}
       /\ Records[d].kind = "SyscallExit" => \E i \in Opens(d - 1) : Records[i].nr = Records[d].nr
       /\ Records[d].kind = "Signal" => Records[d].nr \notin {None, SigTrap}
  BY Zenon, <1>13 DEF Faithful
<1>16. Records[d].kind \in {"SyscallEnter", "SyscallExit", "Signal"}
  BY Zenon, <1>9, <1>13, SessionAssumption
<1> QED BY Zenon, <1>8, <1>10, <1>11, <1>14, <1>15, <1>16 DEF run

\* What the session does at it.
LEMMA FaithfulTurn ==
    ASSUME Faithful, SessionInv, SeatInv, TurnActions
    PROVE  /\ Carry /\ UNCHANGED diverged
           /\ \/ /\ OnEntry /\ Consume("SyscallEnter") /\ pending' = PendingFor(NextRecord.nr)
                 /\ procs[pid].run[Here].stop = "syscall" /\ resume_signal' = None
              \/ /\ OnExit /\ Consume("SyscallExit") /\ pending' = None
                 /\ procs[pid].run[Here].stop = "syscall" /\ resume_signal' = None
                 /\ pending = PendingFor(NextRecord.nr)
              \/ /\ OnSignalStop /\ Consume("Signal") /\ pending' = pending
                 /\ procs[pid].run[Here].stop = "signal" /\ resume_signal' = NextRecord.nr
                 /\ NextRecord.nr \notin {None, SigTrap}
              \/ /\ OnWatchHit /\ procs[pid].run[Here].stop = "write" /\ resume_signal' = None
                 /\ UNCHANGED <<cursor, current_seq, pending>>
<1> DEFINE s == procs[pid].run[Here]
<1>0. /\ Turn /\ Here <= Len(procs[pid].run) /\ pc # "dropped" /\ finished = None
  BY Zenon, TurnKind DEF SessionInv, Turned, Turn
<1>1. s.stop = "write" => watchpoint
  <2>1. s.stop = "write" => procs[pid].armed BY Zenon, <1>0, HereIs DEF SessionInv
  <2> QED BY Zenon, <1>0, <2>1 DEF SeatInv, Remembers
<1>2. s.stop # "write" =>
        /\ ~Exhausted /\ Matches(s, NextRecord)
        /\ NextRecord.kind \in {"SyscallEnter", "SyscallExit", "Signal"}
        /\ NextRecord.kind = "SyscallEnter" => Opens(cursor) = {}
        /\ NextRecord.kind = "SyscallExit" => \E i \in Opens(cursor) : Records[i].nr = NextRecord.nr
        /\ NextRecord.kind = "Signal" => NextRecord.nr \notin {None, SigTrap}
  BY Zenon, <1>0, NextMatches
<1>3. /\ Opens(cursor) = {} => pending = None
      /\ \A i \in Opens(cursor) : pending = PendingFor(Records[i].nr)
      /\ \A nr : PendingFor(nr) # None
  BY Zenon, <1>0, SessionAssumption DEF SeatInv, Remembers, PendingFor
<1> HIDE DEF s
<1>4. CASE OnEntry
  <2>1. s.stop = "syscall" /\ pending = None BY Zenon, <1>4 DEF OnEntry, StoppedBy, s
  <2>2. NextRecord.kind # "SyscallExit" BY Zenon, <1>2, <1>3, <2>1
  <2>3. NextRecord.kind = "SyscallEnter" /\ NextRecord.nr = s.nr /\ ~Exhausted
    BY Zenon, <1>2, <2>1, <2>2 DEF Matches
  <2>4. ~NoRecord /\ ~WrongKind("SyscallEnter") /\ ~WrongNr(s.nr)
    BY Zenon, <2>3 DEF NoRecord, WrongKind, WrongNr, NrMatches
  <2>5. Consume("SyscallEnter") /\ pending' = PendingFor(s.nr) /\ Carry /\ UNCHANGED diverged
    BY Zenon, <1>4, <2>4 DEF OnEntry, s
  <2>6. resume_signal' = None BY Zenon, <1>4 DEF OnEntry
  <2> QED BY Zenon, <1>4, <2>1, <2>3, <2>5, <2>6 DEF s
<1>5. CASE OnExit
  <2>1. s.stop = "syscall" /\ pending # None BY Zenon, <1>5 DEF OnExit, StoppedBy, s
  <2>2. NextRecord.kind # "SyscallEnter" BY Zenon, <1>2, <1>3, <2>1
  <2>3. NextRecord.kind = "SyscallExit" /\ ~Exhausted BY Zenon, <1>2, <2>1, <2>2 DEF Matches
  <2>4. pending = PendingFor(NextRecord.nr) BY Zenon, <1>2, <1>3, <2>1, <2>3
  <2>5. ~NoRecord /\ ~WrongKind("SyscallExit") BY Zenon, <2>3 DEF NoRecord, WrongKind
  <2>6. Consume("SyscallExit") /\ Carry /\ UNCHANGED diverged BY Zenon, <1>5, <2>5 DEF OnExit
  <2>7. resume_signal' = None /\ pending' = None BY Zenon, <1>5 DEF OnExit
  <2> QED BY Zenon, <1>5, <2>1, <2>4, <2>6, <2>7 DEF s
<1>6. CASE OnSignalStop
  <2>1. s.stop = "signal" BY Zenon, <1>1, <1>6 DEF OnSignalStop, StoppedBy, s
  <2>2. NextRecord.kind = "Signal" /\ NextRecord.nr = s.nr /\ ~Exhausted /\ StopSignal = s.nr
    BY Zenon, <1>2, <2>1 DEF Matches, StopSignal, s
  <2>3. /\ Consume("Signal") /\ resume_signal' = NextRecord.nr /\ Carry /\ UNCHANGED diverged
        /\ pending' = pending
    BY Zenon, <1>6, <2>2 DEF OnSignalStop
  <2>4. NextRecord.nr \notin {None, SigTrap} BY Zenon, <1>2, <2>1, <2>2
  <2> QED BY Zenon, <1>6, <2>1, <2>3, <2>4 DEF s
<1>7. CASE OnWatchHit
  BY Zenon, <1>7 DEF OnWatchHit, StoppedBy, s
<1> QED BY Zenon, <1>4, <1>5, <1>6, <1>7 DEF TurnActions

\* The result the tracee was last fed.
LEMMA FedIs ==
    ASSUME SessionInv, TurnActions
    PROVE  procs'[pid].fed = IF OnExit /\ Consume("SyscallExit") /\ pending = "inject"
                               THEN NextRecord.seq ELSE procs[pid].fed
<1> DEFINE there == [procs EXCEPT ![pid].pos = Here]
<1>0. /\ pid \in Pid /\ DOMAIN procs = Pid /\ DOMAIN procs[pid] = ProcFields /\ procs[pid].st # "free"
  <2>1. pc # "dropped" /\ finished = None BY Zenon, TurnKind DEF SessionInv, Turned, Turn
  <2> QED BY Zenon, <2>1, OwnedAlive DEF SessionInv, ShapeInv, ProcOK
<1>1. there[pid] = [procs[pid] EXCEPT !.pos = Here] /\ DOMAIN there = Pid BY Zenon, <1>0
<1>2. there[pid].fed = procs[pid].fed /\ DOMAIN there[pid] = ProcFields /\ there[pid].st # "free"
  <2> HIDE DEF there
  <2> QED BY Zenon, <1>0, <1>1 DEF ProcFields
<1>3. CASE procs' = there /\ ~(OnExit /\ Consume("SyscallExit"))
  <2> HIDE DEF there
  <2> QED BY Zenon, <1>2, <1>3
<1>4. CASE OnExit /\ Consume("SyscallExit")
  <2> DEFINE P == [there EXCEPT ![pid] = Feed(@, NextRecord.seq)]
  <2>1. MaybeCheckpoint(P) BY Zenon, <1>4 DEF OnExit, NoRecord, WrongKind, Consume
  <2> HIDE DEF there
  <2>2. P[pid] = Feed(there[pid], NextRecord.seq) /\ DOMAIN P = Pid BY Zenon, <1>0, <1>1
  <2> HIDE DEF P
  <2>3. /\ P[pid].fed = (IF pending = "inject" THEN NextRecord.seq ELSE procs[pid].fed)
        /\ P[pid].st # "free"
    BY Zenon, <1>2, <2>2 DEF Feed, ProcFields
  <2>4. procs'[pid] = P[pid]
    <3>1. CASE ~SnapshotDue BY Zenon, <2>1, <3>1 DEF MaybeCheckpoint
    <3>2. CASE SnapshotDue
      <4>1. Room(P) /\ procs' = [P EXCEPT ![FreshPid(P)] = ForkOf(P[pid])]
        BY Zenon, <2>1, <3>2 DEF MaybeCheckpoint
      <4>2. FreshPid(P) # pid BY Zenon, <2>3, <4>1, FreshIs
      <4> QED BY Zenon, <4>1, <4>2, <2>2, <1>0
    <3> QED BY Zenon, <3>1, <3>2
  <2> QED BY Zenon, <1>4, <2>3, <2>4
<1>5. OnExit /\ ~Consume("SyscallExit") => procs' = there BY Zenon DEF OnExit
<1>6. OnEntry \/ OnSignalStop \/ OnWatchHit => procs' = there
  BY Zenon DEF OnEntry, OnSignalStop, OnWatchHit
<1>7. OnEntry \/ OnSignalStop \/ OnWatchHit => ~OnExit \/ ~Consume("SyscallExit")
  <2>1. OnExit => procs[pid].run[Here].stop = "syscall" /\ pending # None BY Zenon DEF OnExit, StoppedBy
  <2>2. OnEntry => pending = None BY Zenon DEF OnEntry
  <2>3. OnSignalStop \/ OnWatchHit => procs[pid].run[Here].stop # "syscall"
    BY Zenon DEF OnSignalStop, OnWatchHit, StoppedBy
  <2> QED BY Zenon, <2>1, <2>2, <2>3
<1> HIDE DEF there
<1> QED BY Zenon, <1>3, <1>4, <1>5, <1>6, <1>7 DEF TurnActions

-----------------------------------------------------------------------------
(* The second invariant is kept.                                           *)

\* A process at its first instruction.
LEMMA RemembersAtEntry ==
    ASSUME NEW p, p.pos = 0, p.st = "stopped", p.fed = None, NEW w, p.armed => w
    PROVE  Remembers(p, 0, None, None, w) /\ LastSeq(0) = None
<1>1. Passed(p.run, 0) = {} /\ Consumed(0) = {} BY DEF Passed, Consumed
<1>2. LastFed(0) = None /\ Opens(0) = {} /\ LastSeq(0) = None BY Zenon, <1>1 DEF LastFed, Opens, LastSeq
<1>3. Follows(p, 0) BY Zenon, <1>1, <1>2 DEF Follows
<1> QED BY <1>2, <1>3, SessionAssumption DEF Remembers, SigTrap

\* A copy of a snapshot.
LEMMA RemembersSnapshot ==
    ASSUME NEW cp, CheckpointOK(cp), NEW old, SnapOK(cp, old), NEW p, NEW w, p.armed => w,
           p.run = old.run, p.pos = old.pos, p.fed = old.fed, p.st = "stopped"
    PROVE  Remembers(p, cp.cursor, None, None, w) /\ LastSeq(cp.cursor) = cp.current_seq
<1> DEFINE d == cp.cursor
<1>1. d \in Nat /\ d >= 1 /\ Records[d].kind = "SyscallExit" /\ cp.current_seq = Records[d].seq
  BY DEF CheckpointOK
<1>2. Opens(d) = {} /\ LastSeq(d) = Records[d].seq
  <2>1. PICK c \in Nat : c = d - 1 BY <1>1
  <2> HIDE DEF d
  <2>2. c < d /\ \A j \in (c + 1)..(d - 1) : FALSE BY <1>1, <2>1
  <2> QED BY Zenon, <1>1, <2>2, ConsumedGrows
<1>3. Follows(p, d) BY Zenon DEF SnapOK, Follows
<1>4. ~(p.pos > 0 /\ p.run[p.pos].stop = "signal") BY Zenon DEF SnapOK
<1> QED BY Zenon, <1>1, <1>2, <1>3, <1>4, SessionAssumption DEF Remembers, SigTrap

\* A turn.
LEMMA RemembersTurn ==
    ASSUME Faithful, SessionInv, SeatInv, TurnActions
    PROVE  /\ Remembers(procs'[pid'], cursor', pending', resume_signal', watchpoint')
           /\ current_seq' = LastSeq(cursor')
           /\ UNCHANGED <<cursor, current_seq>> \/ \E kind : kind # "Checkpoint" /\ Consume(kind)
<1> DEFINE p == procs[pid]
           q == procs'[pid']
<1>1. PICK Q : Turned(Q) BY Zenon, TurnKind DEF SessionInv
<1>2. /\ finished = None /\ pc # "dropped" /\ pid' = pid /\ watchpoint' = watchpoint
      /\ q.run = p.run /\ q.pos = Here /\ q.armed = p.armed /\ q.st = p.st /\ Here <= Len(p.run)
  BY Zenon, <1>1, TurnedProcs DEF Turned, Turn, Advanced, SessionInv
<1>3. Remembers(p, cursor, pending, resume_signal, watchpoint) /\ current_seq = LastSeq(cursor)
  BY Zenon, <1>2 DEF SeatInv
<1>4. /\ p.pos \in Nat /\ Here \in Nat /\ Here > 0 /\ p.pos < Here
      /\ \A j \in (p.pos + 1)..(Here - 1) : p.run[j].stop = "write"
  BY <1>2, HereIs DEF IsSeq, SessionInv
<1>5. q.fed = IF OnExit /\ Consume("SyscallExit") /\ pending = "inject"
                THEN NextRecord.seq ELSE p.fed
  BY Zenon, <1>2, FedIs
<1> HIDE DEF p, q
<1>6. ASSUME NEW kind \in {"SyscallEnter", "SyscallExit", "Signal"}, Consume(kind), p.run[Here].stop # "write",
             q.fed = IF kind = "SyscallExit" /\ NextRecord.nr \in Injected THEN NextRecord.seq ELSE p.fed
      PROVE  /\ Follows(q, cursor') /\ current_seq' = LastSeq(cursor')
             /\ Records[cursor'].kind = kind /\ NextRecord = Records[cursor']
             /\ kind = "SyscallEnter" => Opens(cursor') = {cursor'}
             /\ kind = "SyscallExit" => Opens(cursor') = {}
             /\ kind = "Signal" => Opens(cursor') = Opens(cursor)
  <2>1. /\ cursor \in Nat /\ cursor' \in 1..Len(Records) /\ cursor < cursor'
        /\ Records[cursor'].kind = kind /\ NextRecord = Records[cursor']
        /\ current_seq' = Records[cursor'].seq
        /\ \A j \in (cursor + 1)..(cursor' - 1) : Records[j].kind = "Checkpoint"
    BY Zenon, <1>6, ConsumeIs DEF SessionInv
  <2>2. PICK c \in Nat, d \in Nat : c = cursor /\ d = cursor' BY <2>1
  <2>3. /\ c < d /\ Records[d].kind = kind /\ Records[d].kind # "Checkpoint"
        /\ \A j \in (c + 1)..(d - 1) : Records[j].kind = "Checkpoint"
    BY Zenon, <2>1, <2>2
  <2>4. /\ Cardinality(Consumed(d)) = Cardinality(Consumed(c)) + 1
        /\ LastSeq(d) = Records[d].seq
        /\ LastFed(d) = IF kind = "SyscallExit" /\ Records[d].nr \in Injected
                          THEN Records[d].seq ELSE LastFed(c)
        /\ kind = "SyscallEnter" => Opens(d) = {d}
        /\ kind = "SyscallExit" => Opens(d) = {}
        /\ kind = "Signal" => Opens(d) = Opens(c)
    BY Zenon, <2>3, ConsumedGrows
  <2>5. Cardinality(Passed(p.run, Here)) = Cardinality(Passed(p.run, p.pos)) + 1
    BY Zenon, <1>4, <1>6, PassedGrows
  <2>6. /\ p.st = "stopped" /\ p.fed = LastFed(c)
        /\ Cardinality(Passed(p.run, p.pos)) = Cardinality(Consumed(c))
    BY Zenon, <1>3, <2>2 DEF Remembers, Follows
  <2>7. q.fed = LastFed(d) BY Zenon, <1>6, <2>1, <2>2, <2>4, <2>6
  <2>8. Follows(q, d) BY Zenon, <1>2, <2>4, <2>5, <2>6, <2>7 DEF Follows
  <2> QED BY Zenon, <2>1, <2>2, <2>4, <2>8
<1>7. CASE OnEntry /\ Consume("SyscallEnter") /\ pending' = PendingFor(NextRecord.nr)
           /\ p.run[Here].stop = "syscall" /\ resume_signal' = None
  <2>1. q.fed = p.fed
    <3>1. ~OnExit BY Zenon, <1>7 DEF OnEntry, OnExit
    <3> QED BY Zenon, <1>5, <3>1
  <2>2. /\ Follows(q, cursor') /\ current_seq' = LastSeq(cursor') /\ Opens(cursor') = {cursor'}
        /\ NextRecord = Records[cursor']
    BY Zenon, <1>6, <1>7, <2>1
  <2>3. Remembers(q, cursor', pending', resume_signal', watchpoint')
    BY Zenon, <1>2, <1>3, <1>4, <1>7, <2>2, SessionAssumption DEF Remembers, SigTrap
  <2> QED BY Zenon, <1>7, <2>2, <2>3 DEF q
<1>8. CASE OnExit /\ Consume("SyscallExit") /\ pending' = None /\ p.run[Here].stop = "syscall"
           /\ resume_signal' = None /\ pending = PendingFor(NextRecord.nr)
  <2>1. pending = "inject" <=> NextRecord.nr \in Injected BY Zenon, <1>8 DEF PendingFor
  <2>2. Follows(q, cursor') /\ current_seq' = LastSeq(cursor') /\ Opens(cursor') = {}
    BY Zenon, <1>5, <1>6, <1>8, <2>1
  <2>3. Remembers(q, cursor', pending', resume_signal', watchpoint')
    BY Zenon, <1>2, <1>3, <1>4, <1>8, <2>2, SessionAssumption DEF Remembers, SigTrap
  <2> QED BY Zenon, <1>8, <2>2, <2>3 DEF q
<1>9. CASE OnSignalStop /\ Consume("Signal") /\ pending' = pending /\ p.run[Here].stop = "signal"
           /\ resume_signal' = NextRecord.nr /\ NextRecord.nr \notin {None, SigTrap}
  <2>1. q.fed = p.fed
    <3>1. ~OnExit BY Zenon, <1>9 DEF OnExit, StoppedBy, p
    <3> QED BY Zenon, <1>5, <3>1
  <2>2. Follows(q, cursor') /\ current_seq' = LastSeq(cursor') /\ Opens(cursor') = Opens(cursor)
    BY Zenon, <1>6, <1>9, <2>1
  <2>3. Remembers(q, cursor', pending', resume_signal', watchpoint')
    BY Zenon, <1>2, <1>3, <1>4, <1>9, <2>2 DEF Remembers
  <2> QED BY Zenon, <1>9, <2>2, <2>3 DEF q
<1>10. CASE OnWatchHit /\ p.run[Here].stop = "write" /\ resume_signal' = None
            /\ UNCHANGED <<cursor, current_seq, pending>>
  <2>1. q.fed = p.fed
    <3>1. ~OnExit BY Zenon, <1>10 DEF OnExit, StoppedBy, p
    <3> QED BY Zenon, <1>5, <3>1
  <2>2. Passed(p.run, Here) = Passed(p.run, p.pos) BY Zenon, <1>4, <1>10, PassedGrows
  <2>3. Follows(q, cursor) BY Zenon, <1>2, <1>3, <2>1, <2>2 DEF Remembers, Follows
  <2>4. Remembers(q, cursor', pending', resume_signal', watchpoint')
    BY Zenon, <1>2, <1>3, <1>4, <1>10, <2>3, SessionAssumption DEF Remembers, SigTrap
  <2> QED BY Zenon, <1>3, <1>10, <2>4 DEF q
<1> QED BY Zenon, <1>7, <1>8, <1>9, <1>10, FaithfulTurn DEF p

\* A tracee that is gone has made every recorded stop.
LEMMA GoneAtEnd ==
    ASSUME Faithful, SessionInv, SeatInv, OnGone
    PROVE  /\ Consumed(cursor) = Consumed(Len(Records)) /\ finished' = "exited"
           /\ finished = None /\ pc = "drive" /\ UNCHANGED <<cursor, current_seq>>
<1> DEFINE p == procs[pid]
           n == Len(Records)
<1>0. /\ finished = None /\ pc = "drive" /\ UNCHANGED <<cursor, current_seq>> BY Zenon DEF OnGone, Turn
<1>1. Remembers(p, cursor, pending, resume_signal, watchpoint) BY Zenon, <1>0 DEF SeatInv
<1>2. ~Killed BY Zenon, <1>1 DEF Remembers, Killed
<1>3. /\ p.run \in Runs /\ IsSeq(p.run) /\ p.pos \in 0..Len(p.run) /\ Len(p.run) \in Nat
      /\ Here = Len(p.run) + 1
      /\ \A j \in (p.pos + 1)..(Here - 1) : p.run[j].stop = "write"
  BY <1>0, <1>2, HereIs DEF IsSeq, SessionInv, OnGone
<1>4. Passed(p.run, Len(p.run)) = Passed(p.run, p.pos)
  <2>1. Here \in Nat /\ p.pos \in Nat /\ p.pos < Here /\ Here - 1 = Len(p.run) BY <1>3
  <2>2. Passed(p.run, Here - 1) = Passed(p.run, p.pos) BY Zenon, <1>3, <2>1, PassedGrows
  <2> QED BY Zenon, <2>1, <2>2
<1>5. Cardinality(Consumed(cursor)) = Cardinality(Consumed(n))
  BY Zenon, <1>1, <1>3, <1>4 DEF Faithful, Remembers, Follows
<1>6. cursor \in 0..n /\ n \in Nat BY Zenon, SessionAssumption DEF SessionInv, ShapeInv, IsSeq
<1>7. Consumed(cursor) \subseteq Consumed(n) /\ Consumed(n) \subseteq 1..n BY <1>6 DEF Consumed
<1>8. IsFiniteSet(Consumed(n))
  <2>1. IsFiniteSet(1..n) BY <1>6, FS_Interval
  <2> QED BY Zenon, <1>7, <2>1, FS_Subset
<1>9. Consumed(cursor) = Consumed(n) BY Zenon, <1>5, <1>7, <1>8, FS_Subset
<1>10. finished' = "exited" BY Zenon, <1>2 DEF OnGone
<1> QED BY Zenon, <1>0, <1>9, <1>10

LEMMA SeatStep ==
    ASSUME Faithful, SessionInv, SeatInv, SnapInv, Next
    PROVE  SeatInv'
<1>0. /\ ShapeInv /\ NoOrphans /\ pc # "dropped" /\ pid \in Pid /\ DOMAIN procs = Pid
      /\ current_seq = LastSeq(cursor) /\ finished \in {None, "exited"}
      /\ finished # None => Consumed(cursor) = Consumed(Len(Records))
      /\ finished = None => Remembers(procs[pid], cursor, pending, resume_signal, watchpoint)
  BY Zenon, StepKinds DEF SessionInv, ShapeInv, SeatInv
<1>1. CASE Still
  <2>1. UNCHANGED <<procs, pid, cursor, current_seq, pending, resume_signal, finished, watchpoint>>
    BY Zenon, <1>1 DEF Still, seat
  <2> QED BY Zenon, <1>0, <2>1 DEF SeatInv
<1>2. CASE \E f, N : Respawned(f, N) \/ \E k \in DOMAIN checkpoints : Restored(f, N, k)
  <2>1. PICK f, N : Respawned(f, N) \/ \E k \in DOMAIN checkpoints : Restored(f, N, k) BY Zenon, <1>2
  <2>2. /\ procs'[pid'] = N /\ N.armed = watchpoint /\ watchpoint' = watchpoint
        /\ pending' = None /\ resume_signal' = None /\ finished' = None
    BY Zenon, <2>1 DEF Respawned, Restored, Reseated
  <2>3. CASE Respawned(f, N)
    <3>1. N.st = "stopped" /\ N.pos = 0 /\ N.fed = None /\ cursor' = 0 /\ current_seq' = None
      BY Zenon, <2>3 DEF Respawned
    <3>2. Remembers(N, 0, None, None, watchpoint) /\ LastSeq(0) = None
      BY Zenon, <2>2, <3>1, RemembersAtEntry
    <3> QED BY Zenon, <2>2, <3>1, <3>2 DEF SeatInv
  <2>4. ASSUME NEW k \in DOMAIN checkpoints, Restored(f, N, k) PROVE SeatInv'
    <3> DEFINE cp == checkpoints[k]
               old == procs[cp.snapshot]
    <3>1. SnapOK(cp, old) /\ CheckpointOK(cp) BY Zenon, <1>0 DEF SnapInv, ShapeInv
    <3>2. /\ N.run = old.run /\ N.pos = old.pos /\ N.fed = old.fed /\ N.st = old.st
          /\ cursor' = cp.cursor /\ current_seq' = cp.current_seq
      BY Zenon, <2>4 DEF Restored
    <3>3. old.st = "stopped" BY Zenon, <3>1 DEF SnapOK, Follows
    <3> HIDE DEF cp, old
    <3>4. Remembers(N, cp.cursor, None, None, watchpoint) /\ LastSeq(cp.cursor) = cp.current_seq
      BY Zenon, <2>2, <3>1, <3>2, <3>3, RemembersSnapshot
    <3> QED BY Zenon, <2>2, <3>2, <3>4 DEF SeatInv
  <2> QED BY Zenon, <2>1, <2>3, <2>4
<1>3. CASE TurnActions
  <2>1. /\ Remembers(procs'[pid'], cursor', pending', resume_signal', watchpoint')
        /\ current_seq' = LastSeq(cursor')
    BY Zenon, <1>3, RemembersTurn
  <2>2. finished' = None BY Zenon, <1>0, <1>3, TurnKind DEF Turned
  <2> QED BY Zenon, <2>1, <2>2 DEF SeatInv
<1>4. CASE OnGone
  <2>1. /\ Consumed(cursor) = Consumed(Len(Records)) /\ finished' = "exited"
        /\ UNCHANGED <<cursor, current_seq>>
    BY Zenon, <1>4, GoneAtEnd
  <2> QED BY Zenon, <1>0, <2>1, SessionAssumption DEF SeatInv
<1>5. CASE Watch \/ ClearWatch
  <2>1. UNCHANGED <<pid, cursor, current_seq, pending, resume_signal, finished>>
    BY Zenon, <1>5 DEF Watch, ClearWatch, seat
  <2>2. ASSUME finished = None
        PROVE  Remembers(procs'[pid], cursor, pending, resume_signal, watchpoint')
    <3> DEFINE p == procs[pid]
               q == procs'[pid]
    <3>0. DOMAIN p = ProcFields /\ p.pos \in Nat /\ Remembers(p, cursor, pending, resume_signal, watchpoint)
      BY <1>0, <2>2, OwnedAlive DEF ShapeInv, ProcOK
    <3>1. \/ q = [p EXCEPT !.armed = TRUE] /\ watchpoint' = TRUE
          \/ q = [p EXCEPT !.armed = FALSE]
          \/ q = p /\ watchpoint = FALSE
      <4>1. CASE Watch
        <5>1. p.pos >= MappedFrom BY <3>0 DEF Faithful
        <5>2. procs' = [procs EXCEPT ![pid].armed = TRUE] /\ watchpoint' = TRUE
          BY Zenon, <2>2, <4>1, <5>1 DEF Watch
        <5> QED BY Zenon, <1>0, <5>2
      <4>2. CASE ClearWatch
        <5>1. \/ procs' = [procs EXCEPT ![pid].armed = FALSE]
              \/ procs' = procs /\ ~watchpoint
          BY Zenon, <2>2, <4>2 DEF ClearWatch
        <5>2. CASE procs' = [procs EXCEPT ![pid].armed = FALSE] BY Zenon, <1>0, <5>2
        <5>3. CASE procs' = procs /\ ~watchpoint
          BY <5>3
        <5> QED BY Zenon, <5>1, <5>2, <5>3
      <4> QED BY Zenon, <1>5, <4>1, <4>2
    <3> HIDE DEF p, q
    <3>2. /\ q.run = p.run /\ q.pos = p.pos /\ q.fed = p.fed /\ q.st = p.st
          /\ q.armed => watchpoint'
      BY Zenon, <3>0, <3>1 DEF ProcFields, Remembers
    <3>3. Remembers(q, cursor, pending, resume_signal, watchpoint')
      BY Zenon, <3>0, <3>2 DEF Remembers, Follows
    <3> QED BY Zenon, <3>3 DEF q
  <2> QED BY Zenon, <1>0, <2>1, <2>2 DEF SeatInv
<1>6. CASE Drop
  BY Zenon, <1>0, <1>6 DEF Drop, seat, SeatInv
<1> QED BY Zenon, <1>0, <1>1, <1>2, <1>3, <1>4, <1>5, <1>6, StepKinds

LEMMA SnapStep ==
    ASSUME Faithful, SessionInv, SeatInv, SnapInv, Next
    PROVE  SnapInv'
<1>0. /\ ShapeInv /\ NoOrphans /\ pc # "dropped" /\ pid \in Pid /\ DOMAIN procs = Pid
      /\ \A p \in Pid : DOMAIN procs[p] = ProcFields
      /\ \A i \in DOMAIN checkpoints : SnapOK(checkpoints[i], procs[checkpoints[i].snapshot])
      /\ \A i \in DOMAIN checkpoints : checkpoints[i].snapshot \in Pid
  BY Zenon, StepKinds DEF SessionInv, ShapeInv, SnapInv, ProcOK, CheckpointOK
<1>s. ASSUME UNCHANGED checkpoints,
             \A i \in DOMAIN checkpoints : procs'[checkpoints[i].snapshot] = procs[checkpoints[i].snapshot]
      PROVE  SnapInv'
  BY Zenon, <1>0, <1>s DEF SnapInv
<1>1. CASE Still
  BY Zenon, <1>s, <1>1 DEF Still
<1>2. CASE \E f, N : Respawned(f, N) \/ \E k \in DOMAIN checkpoints : Restored(f, N, k)
  <2>1. PICK f, N : Reseated(f, N) BY Zenon, <1>2 DEF Respawned, Restored
  <2>2. \A i \in DOMAIN checkpoints :
            ~(finished = None /\ checkpoints[i].snapshot = pid) /\ checkpoints[i].snapshot # f
    BY Zenon, <1>0, <2>1, OwnedAlive DEF Reseated
  <2> QED BY Zenon, <1>0, <1>s, <2>1, <2>2 DEF Reseated
<1>3. CASE TurnActions
  <2>1. PICK Q : Turned(Q) BY Zenon, <1>0, <1>3, TurnKind
  <2>2. \A i \in DOMAIN checkpoints : procs'[checkpoints[i].snapshot] = procs[checkpoints[i].snapshot]
    BY Zenon, <1>0, <2>1, TurnedProcs
  <2>3. CASE UNCHANGED checkpoints BY Zenon, <1>s, <2>2, <2>3
  <2>4. CASE TakesSnapshot(Q)
    <3> DEFINE n == Len(checkpoints)
               s == FreshPid(procs)
    <3>1. /\ n \in Nat /\ DOMAIN checkpoints = 1..n /\ DOMAIN checkpoints' = 1..(n + 1)
          /\ \A i \in 1..n : checkpoints'[i] = checkpoints[i]
          /\ checkpoints'[n + 1] = Snapshot
          /\ procs'[s].st = procs[pid].st
          /\ procs'[s].run = procs[pid].run /\ procs'[s].pos = Here
          /\ procs'[s].fed = Q[pid].fed
      BY Zenon, <1>0, <2>1, <2>4, SnapshotTaken
    <3>2. Snapshot.snapshot = s /\ Snapshot.cursor = cursor' BY Zenon DEF Snapshot
    <3>3. /\ procs'[pid'] = Q[pid] /\ Q[pid].st = procs[pid].st /\ Q[pid].run = procs[pid].run
          /\ Q[pid].pos = Here
      BY Zenon, <1>0, <2>1, TurnedProcs DEF Turned, Advanced
    <3>4. Follows(Q[pid], cursor') BY Zenon, <1>3, <3>3, RemembersTurn DEF Remembers
    <3>5. procs[pid].run[Here].stop = "syscall" BY Zenon, <2>4 DEF TakesSnapshot, OnExit, StoppedBy
    <3>6. Here > 0
      <4>1. finished = None BY Zenon, <2>1 DEF Turned, Turn
      <4> QED BY <1>0, <4>1, HereIs DEF IsSeq
    <3> HIDE DEF n, s
    <3>7. SnapOK(Snapshot, procs'[s]) BY Zenon, <3>1, <3>2, <3>3, <3>4, <3>5, <3>6 DEF SnapOK, Follows
    <3>8. ASSUME NEW i \in DOMAIN checkpoints'
          PROVE  SnapOK(checkpoints'[i], procs'[checkpoints'[i].snapshot])
      <4>1. i \in 1..n \/ i = n + 1 BY <3>1
      <4>2. CASE i \in 1..n BY Zenon, <1>0, <2>2, <3>1, <4>2
      <4>3. CASE i = n + 1 BY Zenon, <3>1, <3>2, <3>7, <4>3
      <4> QED BY Zenon, <4>1, <4>2, <4>3
    <3> QED BY Zenon, <3>8 DEF SnapInv
  <2> QED BY Zenon, <2>1, <2>3, <2>4 DEF Turned
<1>4. CASE OnGone
  <2>1. finished = None BY Zenon, <1>4 DEF OnGone, Turn
  <2>2. \A i \in DOMAIN checkpoints : checkpoints[i].snapshot # pid BY Zenon, <1>0, <2>1, OwnedAlive
  <2> QED BY Zenon, <1>0, <1>s, <1>4, <2>2 DEF OnGone
<1>5. CASE Watch \/ ClearWatch
  <2>1. CASE procs' = procs
    BY Zenon, <1>s, <1>5, <2>1 DEF Watch, ClearWatch
  <2>2. CASE finished = None /\ \E b : procs' = [procs EXCEPT ![pid].armed = b]
    <3>1. \A i \in DOMAIN checkpoints : checkpoints[i].snapshot # pid BY Zenon, <1>0, <2>2, OwnedAlive
    <3> QED BY Zenon, <1>0, <1>s, <1>5, <2>2, <3>1 DEF Watch, ClearWatch
  <2> QED BY Zenon, <1>5, <2>1, <2>2 DEF Watch, ClearWatch
<1>6. CASE Drop
  BY Zenon, <1>6 DEF Drop, SnapInv
<1> QED BY Zenon, <1>0, <1>1, <1>2, <1>3, <1>4, <1>5, <1>6, StepKinds

\* No call on a faithful execution is answered with a divergence.
LEMMA ErrorStep ==
    ASSUME Faithful, SessionInv, SeatInv, NoError, Next
    PROVE  NoError'
<1>0. /\ \A r \in {"running", "exited", "ok", "Ptrace"} : r \notin Errors \ {"Ptrace"}
      /\ finished \in {None, "exited"} /\ pc # "dropped"
  BY Zenon, StepKinds DEF Errors, SeatInv, SessionInv
<1>1. CASE AlreadyFinished \/ Arrive
  BY Zenon, <1>0, <1>1 DEF AlreadyFinished, Arrive, Return, NoError
<1>2. CASE TurnActions
  BY Zenon, <1>2, FaithfulTurn DEF Carry, call, NoError
<1>3. CASE OnGone
  <2>1. result' = finished' /\ finished' = "exited" BY Zenon, <1>3, GoneAtEnd DEF OnGone, Return
  <2> QED BY Zenon, <1>0, <2>1 DEF NoError
<1>4. ASSUME NEW t \in Target, RunTo(t) \/ StepTo(t) PROVE NoError'
  BY Zenon, <1>4 DEF RunTo, StepTo, Call, NoError
<1>5. ASSUME NEW t \in Target, RestoreTo(t) PROVE NoError'
  BY Zenon, <1>0, <1>5 DEF RestoreTo, NoError
<1>6. ASSUME NEW n \in Interval, SetInterval(n) PROVE NoError'
  BY Zenon, <1>0, <1>6 DEF SetInterval, NoError
<1>7. CASE RunToEnd \/ TakeWatchHits \/ ClearWatch \/ Drop
  BY Zenon, <1>0, <1>7 DEF RunToEnd, TakeWatchHits, ClearWatch, Drop, Call, NoError
<1>8. CASE Watch
  <2>1. finished = None => procs[pid].pos >= MappedFrom
    <3>1. finished = None => procs[pid].pos \in Nat BY <1>0, OwnedAlive DEF SessionInv
    <3> QED BY <3>1 DEF Faithful
  <2>2. result' \in {"Ptrace", "ok"} BY Zenon, <1>8, <2>1 DEF Watch
  <2> QED BY Zenon, <1>0, <2>2 DEF NoError
<1> QED BY Zenon, <1>1, <1>2, <1>3, <1>4, <1>5, <1>6, <1>7, <1>8 DEF Next, Drive, TurnActions

-----------------------------------------------------------------------------
(* Where a run_to ends.                                                    *)

LEMMA RecordSeqs ==
    /\ Len(Records) \in Nat /\ DOMAIN Records = 1..Len(Records)
    /\ \A i \in 1..Len(Records) : Records[i].seq \in Nat
    /\ \A i, j \in 1..Len(Records) : i <= j => Records[i].seq <= Records[j].seq
<1>1. Len(Records) \in Nat /\ DOMAIN Records = 1..Len(Records) BY Zenon, SessionAssumption DEF IsSeq
<1>2. \A x \in Seqno : x \in Nat BY SelectAssumption DEF Seqno
<1>3. \A i \in 1..Len(Records) : Records[i].seq \in Nat BY Zenon, <1>1, <1>2, SessionAssumption
<1>4. ASSUME NEW i \in 1..Len(Records), NEW j \in 1..Len(Records), i <= j
      PROVE  Records[i].seq <= Records[j].seq
  <2>1. CASE i = j BY <1>3, <2>1
  <2>2. CASE i < j
    <3>1. Records[i].seq < Records[j].seq BY Zenon, <1>1, <2>2, SessionAssumption
    <3> QED BY <1>3, <3>1
  <2> QED BY <1>4, <2>1, <2>2
<1> QED BY Zenon, <1>1, <1>3, <1>4

\* The position of a session is that of the last record consumed.
LEMMA LastSeqIs ==
    ASSUME NEW c \in 0..Len(Records), Consumed(c) # {}
    PROVE  /\ LastSeq(c) \in Nat /\ LastSeq(c) \in Positions
           /\ \A j \in Consumed(c) : Records[j].seq <= LastSeq(c)
<1> DEFINE S == Consumed(c)
           m == CHOOSE j \in S : \A k \in S : k <= j
           n == Len(Records)
<1>0. n \in Nat /\ c \in Nat /\ c <= n BY RecordSeqs
<1>1. S \in SUBSET (0..n) /\ S \subseteq 1..n /\ S \subseteq Consumed(n) BY <1>0 DEF Consumed
<1>2. m \in S /\ \A k \in S : k <= m
  <2> HIDE DEF S, n
  <2>1. \E j \in S : \A k \in S : k <= j BY Zenon, <1>0, <1>1, GreatestExists DEF S
  <2> QED BY Zenon, <2>1
<1>3. LastSeq(c) = Records[m].seq BY Zenon DEF LastSeq
<1> HIDE DEF m, S
<1>4. \A j \in S : Records[j].seq <= Records[m].seq
  <2> SUFFICES ASSUME NEW j \in S PROVE Records[j].seq <= Records[m].seq BY Zenon
  <2>1. j \in 1..n /\ m \in 1..n /\ j <= m BY Zenon, <1>1, <1>2
  <2> QED BY Zenon, <2>1, RecordSeqs
<1>5. Records[m].seq \in Nat /\ Records[m].seq \in Positions
  <2>1. m \in 1..n /\ m \in Consumed(n) BY Zenon, <1>1, <1>2
  <2> QED BY Zenon, <2>1, RecordSeqs DEF Positions
<1> QED BY Zenon, <1>3, <1>4, <1>5 DEF S

\* The next record after a position before the target is not past one at or after it.
LEMMA NextIsFirst ==
    ASSUME SessionInv, SeatInv, NEW kind, kind # "Checkpoint", Consume(kind), NEW t \in Nat,
           current_seq # None => ~(current_seq >= t)
    PROVE  current_seq' \in Nat /\ \A u \in Positions : u >= t => current_seq' <= u
<1> DEFINE n == Len(Records)
<1>0. cursor \in 0..n /\ n \in Nat /\ current_seq = LastSeq(cursor)
  BY Zenon, RecordSeqs DEF SessionInv, ShapeInv, SeatInv
<1>1. /\ cursor' \in 1..n /\ cursor < cursor' /\ current_seq' = Records[cursor'].seq
      /\ \A j \in (cursor + 1)..(cursor' - 1) : Records[j].kind = "Checkpoint"
  BY Zenon, ConsumeIs DEF SessionInv
<1>2. PICK c \in 0..n, d \in 1..n : c = cursor /\ d = cursor' BY Zenon, <1>0, <1>1
<1>3. /\ c < d /\ current_seq' = Records[d].seq /\ current_seq = LastSeq(c)
      /\ \A j \in (c + 1)..(d - 1) : Records[j].kind = "Checkpoint"
  BY Zenon, <1>0, <1>1, <1>2
<1>4. current_seq' \in Nat BY Zenon, <1>3, RecordSeqs
<1>5. ASSUME NEW u \in Positions, u >= t PROVE Records[d].seq <= u
  <2>1. PICK j \in Consumed(n) : u = Records[j].seq BY Zenon DEF Positions
  <2>2. j \in 1..n /\ Records[j].kind # "Checkpoint" BY Zenon DEF Consumed
  <2>3. CASE d <= j BY Zenon, <2>1, <2>2, <2>3, RecordSeqs
  <2>4. CASE ~(d <= j)
    <3>1. j \in 1..c
      <4>1. j \notin (c + 1)..(d - 1) BY Zenon, <1>3, <2>2
      <4> QED BY <1>0, <1>3, <2>2, <2>4, <4>1
    <3>2. j \in Consumed(c) BY Zenon, <2>2, <3>1 DEF Consumed
    <3>3. LastSeq(c) \in Nat /\ Records[j].seq <= LastSeq(c) BY Zenon, <3>2, LastSeqIs
    <3>4. Records[j].seq \in Nat BY Zenon, <2>2, RecordSeqs
    <3>5. LastSeq(c) >= t BY <1>5, <2>1, <3>3, <3>4
    <3>6. current_seq # None /\ current_seq >= t BY Zenon, <1>3, <3>3, <3>5, SelectAssumption
    <3> QED BY Zenon, <3>6
  <2> QED BY Zenon, <2>3, <2>4
<1> QED BY Zenon, <1>3, <1>4, <1>5

LEMMA TargetIs == \A t \in Target : t \in Nat /\ t # None
<1>1. \A t \in Seqno : t \in Nat BY SelectAssumption DEF Seqno
<1> QED BY Zenon, <1>1, SessionAssumption, SelectAssumption

LEMMA AskStep ==
    ASSUME Faithful, SessionInv, SeatInv, AskInv, Next
    PROVE  AskInv'
<1> DEFINE NotPast(cur, t) == cur # None => \A u \in Positions : u >= t => cur <= u
<1>0. /\ ShapeInv /\ NoOrphans /\ pc # "dropped" /\ (asked # None => asked \in Target)
  BY Zenon, StepKinds DEF SessionInv, AskInv
<1>1. CASE AlreadyFinished \/ Arrive \/ OnGone
  <2>1. pc' = "idle" /\ asked' = asked BY Zenon, <1>1 DEF AlreadyFinished, Arrive, OnGone, Return
  <2> QED BY Zenon, <1>0, <2>1 DEF AskInv
<1>2. CASE TurnActions
  <2>1. UNCHANGED <<pc, stop_at, asked>> BY Zenon, <1>2, FaithfulTurn DEF Carry, call
  <2>2. Turn BY Zenon, <1>0, <1>2, TurnKind DEF Turned
  <2>3. ASSUME pc = "drive", asked # None PROVE stop_at = asked /\ NotPast(current_seq', asked)
    <3>1. stop_at = asked /\ NotPast(current_seq, asked) BY Zenon, <2>3 DEF AskInv
    <3>2. asked \in Nat /\ stop_at # None BY Zenon, <1>0, <2>3, <3>1, TargetIs
    <3>3. current_seq # None => ~(current_seq >= asked) BY Zenon, <2>2, <3>1, <3>2 DEF Turn, AtTarget
    <3>4. CASE UNCHANGED <<cursor, current_seq>> BY Zenon, <3>1, <3>4
    <3>5. CASE \E kind : kind # "Checkpoint" /\ Consume(kind)
      <4>1. \A u \in Positions : u >= asked => current_seq' <= u BY Zenon, <3>2, <3>3, <3>5, NextIsFirst
      <4> QED BY Zenon, <3>1, <4>1
    <3> QED BY Zenon, <1>2, <3>4, <3>5, RemembersTurn
  <2> QED BY Zenon, <1>0, <2>1, <2>3 DEF AskInv
<1>3. ASSUME NEW t \in Target, RunTo(t) PROVE AskInv'
  <2>1. asked' = t /\ stop_at' = t BY Zenon, <1>3 DEF RunTo, Call
  <2>2. current_seq' # None => current_seq' \in Nat /\ current_seq' <= t
    <3>1. CASE Restart(t)
      <4>1. CASE PlanStart(t) = None
        BY Zenon, <3>1, <4>1 DEF Restart, Respawn
      <4>2. CASE PlanStart(t) # None
        <5> DEFINE k == PlanStart(t)
        <5>1. k \in DOMAIN checkpoints /\ checkpoints[k].seq <= t BY Zenon, <1>0, <4>2, PlanStartIs
        <5>2. current_seq' = checkpoints[k].current_seq
          BY Zenon, <3>1, <4>2 DEF Restart, RestoreToCheckpoint
        <5>3. CheckpointOK(checkpoints[k]) BY Zenon, <1>0, <5>1 DEF ShapeInv
        <5>4. checkpoints[k].seq \in Nat /\ checkpoints[k].current_seq = checkpoints[k].seq
          BY Zenon, <5>3, CheckpointSeq DEF CheckpointOK
        <5> QED BY Zenon, <5>1, <5>2, <5>4
      <4> QED BY Zenon, <4>1, <4>2
    <3>2. CASE ~should_restart(current_seq, StartSeq(t), t) /\ UNCHANGED seat
      <4>1. current_seq' = current_seq BY Zenon, <3>2 DEF seat
      <4>2. current_seq # None => ~(current_seq > t) BY Zenon, <3>2 DEF should_restart
      <4>3. current_seq # None => current_seq \in Nat
        BY <1>0, SelectAssumption DEF ShapeInv, Seqno
      <4> QED BY <4>1, <4>2, <4>3, TargetIs
    <3> QED BY Zenon, <1>3, <3>1, <3>2 DEF RunTo
  <2>3. NotPast(current_seq', t)
    <3>1. \A u \in Positions : u \in Nat
      <4>1. \A j \in Consumed(Len(Records)) : j \in 1..Len(Records) BY Zenon DEF Consumed
      <4> QED BY Zenon, <4>1, RecordSeqs DEF Positions
    <3> QED BY <2>2, <3>1, TargetIs
  <2> QED BY Zenon, <2>1, <2>3 DEF AskInv
<1>4. ASSUME NEW t \in Target, StepTo(t) \/ RestoreTo(t) PROVE AskInv'
  BY Zenon, <1>4 DEF StepTo, RestoreTo, Call, Idle, AskInv
<1>5. ASSUME NEW n \in Interval, SetInterval(n) PROVE AskInv'
  BY Zenon, <1>5 DEF SetInterval, Idle, AskInv
<1>6. CASE RunToEnd \/ TakeWatchHits \/ ClearWatch \/ Watch
  BY Zenon, <1>6 DEF RunToEnd, TakeWatchHits, ClearWatch, Watch, Call, Idle, AskInv
<1>7. CASE Drop
  BY Zenon, <1>0, <1>7 DEF Drop, AskInv
<1> QED BY Zenon, <1>1, <1>2, <1>3, <1>4, <1>5, <1>6, <1>7 DEF Next, Drive, TurnActions

-----------------------------------------------------------------------------
(* The theorems on faithful executions.                                    *)

LEMMA FaithInit ==
    ASSUME Init
    PROVE  FaithInv
<1>1. PICK run \in Runs : procs[pid] = AtEntry(run) BY Zenon, InitIs
<1>2. /\ cursor = 0 /\ current_seq = None /\ pending = None /\ resume_signal = None /\ finished = None
      /\ checkpoints = <<>> /\ pc = "idle" /\ result = "ok" /\ asked = None
  BY Zenon DEF Init
<1>3. SessionInv BY Zenon, SessionInit
<1>4. NoError /\ AskInv /\ SnapInv BY <1>2 DEF NoError, Errors, AskInv, SnapInv
<1>5. /\ procs[pid].st = "stopped" /\ procs[pid].pos = 0 /\ procs[pid].fed = None
      /\ procs[pid].armed = FALSE
  BY <1>1 DEF AtEntry
<1>6. Remembers(procs[pid], 0, None, None, watchpoint) /\ LastSeq(0) = None
  BY Zenon, <1>5, RemembersAtEntry
<1>7. SeatInv BY Zenon, <1>2, <1>6 DEF SeatInv
<1> QED BY Zenon, <1>3, <1>4, <1>7 DEF FaithInv

LEMMA FaithStep ==
    ASSUME Faithful, FaithInv, [Next]_vars
    PROVE  FaithInv'
<1>1. CASE Next
  <2>1. SessionInv'
    BY Zenon, <1>1, ShapeStep, OwnStep, OrderStep, ValueStep, CheckStep DEF FaithInv, SessionInv
  <2> QED BY Zenon, <1>1, <2>1, ErrorStep, SeatStep, SnapStep, AskStep DEF FaithInv
<1>2. CASE UNCHANGED vars
  <2>1. UNCHANGED <<procs, pid, cursor, current_seq, pending, resume_signal, finished, checkpoints,
                    watchpoint, pc, stop_at, result, asked>>
    BY Zenon, <1>2 DEF vars, seat, watch, call
  <2>2. SessionInv' BY Zenon, <1>2, SessionStutter DEF FaithInv
  <2>3. NoError' /\ AskInv' BY Zenon, <2>1 DEF FaithInv, NoError, AskInv
  <2>4. SeatInv' BY Zenon, <2>1 DEF FaithInv, SeatInv
  <2>5. SnapInv' BY Zenon, <2>1 DEF FaithInv, SnapInv
  <2> QED BY Zenon, <2>2, <2>3, <2>4, <2>5 DEF FaithInv
<1> QED BY Zenon, <1>1, <1>2

\* The inductive invariant of sessions whose tracees do what was recorded.
THEOREM FaithInvariance ==
    ASSUME Faithful
    PROVE  Spec => []FaithInv
<1>1. Init => FaithInv BY Zenon, FaithInit
<1>2. FaithInv /\ [Next]_vars => FaithInv' BY Zenon, FaithStep
<1> QED BY <1>1, <1>2, PTL DEF Spec

\* A faithful execution is never reported as diverged, and the session's cursor,
\* position, awaited exit and signal to re-inject are those of the tracee, after any
\* calls (session.rs: drive, on_entry, on_exit, on_signal, restore_to_checkpoint, respawn).
THEOREM FaithfulStaysInStep ==
    ASSUME Faithful
    PROVE  Spec => []InStep
<1>1. FaithInv => InStep
  <2> SUFFICES ASSUME FaithInv PROVE InStep BY Zenon
  <2>1. result \notin Errors \ {"Ptrace"} BY Zenon DEF FaithInv, NoError
  <2>2. ASSUME pc # "dropped", finished = None
        PROVE  LET p == procs[pid]
               IN  /\ SeatedAt(p, cursor, current_seq)
                   /\ p.fed = LastFed(cursor)
                   /\ pending # None <=> Opens(cursor) # {}
                   /\ resume_signal # None <=> (p.pos > 0 /\ p.run[p.pos].stop = "signal")
    <3> DEFINE p == procs[pid]
    <3>1. Remembers(p, cursor, pending, resume_signal, watchpoint) /\ current_seq = LastSeq(cursor)
      BY Zenon, <2>2 DEF FaithInv, SeatInv
    <3> HIDE DEF p
    <3>2. SeatedAt(p, cursor, current_seq) /\ p.fed = LastFed(cursor)
      BY Zenon, <3>1 DEF SeatedAt, Remembers, Follows, LastSeq
    <3>3. \A nr : PendingFor(nr) # None BY Zenon, SessionAssumption DEF PendingFor
    <3>4. pending # None <=> Opens(cursor) # {} BY Zenon, <3>1, <3>3 DEF Remembers
    <3>5. resume_signal # None <=> (p.pos > 0 /\ p.run[p.pos].stop = "signal") BY Zenon, <3>1 DEF Remembers
    <3> QED BY Zenon, <3>2, <3>4, <3>5 DEF p
  <2> QED BY Zenon, <2>1, <2>2 DEF InStep
<1> QED BY <1>1, FaithInvariance, PTL

\* Every snapshot stays what it was when it was forked, in step with the cursor
\* stored beside it (session.rs: maybe_checkpoint, restore_to_checkpoint).
THEOREM SnapshotsStayPristine ==
    ASSUME Faithful
    PROVE  Spec => []SnapshotsPristine
<1>1. FaithInv => SnapshotsPristine
  <2> SUFFICES ASSUME FaithInv, pc # "dropped", NEW i \in DOMAIN checkpoints
               PROVE  LET cp == checkpoints[i]
                          p == procs[cp.snapshot]
                      IN  /\ SeatedAt(p, cp.cursor, cp.seq) /\ cp.current_seq = cp.seq
                          /\ Records[cp.cursor].kind = "SyscallExit"
                          /\ ~p.armed /\ p.fed = LastFed(cp.cursor)
                          /\ \A j \in DOMAIN checkpoints : i < j => cp.seq < checkpoints[j].seq
    BY Zenon DEF SnapshotsPristine
  <2> DEFINE cp == checkpoints[i]
             p == procs[cp.snapshot]
  <2>1. CheckpointOK(cp) /\ SnapOK(cp, p) /\ ~p.armed
    BY Zenon DEF FaithInv, SessionInv, ShapeInv, SnapInv, OrderInv
  <2>2. \A j \in DOMAIN checkpoints : i < j => cp.seq < checkpoints[j].seq
    BY Zenon DEF FaithInv, SessionInv, OrderInv
  <2> HIDE DEF cp, p
  <2>3. LastSeq(cp.cursor) = cp.current_seq
    <3>1. p.st = "stopped" BY Zenon, <2>1 DEF SnapOK, Follows
    <3> QED BY Zenon, <2>1, <3>1, RemembersSnapshot
  <2>4. SeatedAt(p, cp.cursor, cp.seq) /\ p.fed = LastFed(cp.cursor)
    BY Zenon, <2>1, <2>3 DEF SeatedAt, SnapOK, Follows, LastSeq, CheckpointOK
  <2> QED BY Zenon, <2>1, <2>2, <2>4 DEF CheckpointOK, cp, p
<1> QED BY <1>1, FaithInvariance, PTL

\* At the end no position at or after the target is left but perhaps this one.
LEMMA EndLands ==
    ASSUME FaithInv, pc = "drive", asked # None, Consumed(cursor) = Consumed(Len(Records))
    PROVE  End \in Lands[asked]
<1> DEFINE t == asked
           F == {s \in Positions : s >= t}
<1>0. t \in Target /\ t \in Nat BY Zenon, TargetIs DEF FaithInv, AskInv
<1>1. \A u \in F : current_seq # None => current_seq <= u BY Zenon DEF FaithInv, AskInv
<1>2. ASSUME NEW u \in F PROVE u = current_seq
  <2>1. PICK j \in Consumed(Len(Records)) : u = Records[j].seq BY Zenon DEF Positions
  <2>2. cursor \in 0..Len(Records) /\ Consumed(cursor) # {} /\ current_seq = LastSeq(cursor)
    BY Zenon, <2>1 DEF FaithInv, SessionInv, ShapeInv, SeatInv
  <2>3. LastSeq(cursor) \in Nat /\ Records[j].seq <= LastSeq(cursor) BY Zenon, <2>1, <2>2, LastSeqIs
  <2>4. j \in 1..Len(Records) BY Zenon, <2>1 DEF Consumed
  <2>5. Records[j].seq \in Nat BY Zenon, <2>4, RecordSeqs
  <2>6. current_seq # None BY Zenon, <2>2, <2>3, SelectAssumption
  <2>7. current_seq <= u BY Zenon, <1>1, <2>6
  <2> QED BY <2>1, <2>2, <2>3, <2>5, <2>7
<1>3. Cardinality(F) <= 1
  <2> HIDE DEF F
  <2>1. CASE F = {} BY <2>1, FS_EmptySet
  <2>2. CASE F # {}
    <3>1. F = {current_seq} BY Zenon, <1>2, <2>2
    <3>2. Cardinality({current_seq}) = 1 BY Zenon, FS_Singleton
    <3> QED BY <3>1, <3>2
  <2> QED BY Zenon, <2>1, <2>2
<1>4. Positions = {Records[j].seq : j \in {i \in DOMAIN Records : Records[i].kind # "Checkpoint"}}
  BY Zenon, RecordSeqs DEF Positions, Consumed
<1>5. Lands[t] = {s \in F : \A u \in F : s <= u} \cup IF Cardinality(F) <= 1 THEN {End} ELSE {}
  BY Zenon, <1>0, <1>4 DEF Lands
<1> HIDE DEF F
<1> QED BY Zenon, <1>3, <1>5

\* drive stops at the first position at or after the target.
LEMMA ArrivalLands ==
    ASSUME FaithInv, Arrive, asked # None
    PROVE  current_seq \in Lands[asked]
<1> DEFINE t == asked
           F == {s \in Positions : s >= t}
<1>0. t \in Target /\ pc = "drive" /\ stop_at = t /\ current_seq # None /\ current_seq >= t
  BY Zenon DEF FaithInv, AskInv, Arrive, AtTarget
<1>1. \A u \in F : current_seq <= u BY Zenon, <1>0 DEF FaithInv, AskInv
<1>2. current_seq \in F
  <2>1. cursor \in 0..Len(Records) /\ current_seq = LastSeq(cursor)
    BY Zenon DEF FaithInv, SessionInv, ShapeInv, SeatInv
  <2>2. Consumed(cursor) # {} BY Zenon, <1>0, <2>1 DEF LastSeq
  <2> QED BY Zenon, <1>0, <2>1, <2>2, LastSeqIs
<1>3. Positions = {Records[j].seq : j \in {i \in DOMAIN Records : Records[i].kind # "Checkpoint"}}
  BY Zenon, RecordSeqs DEF Positions, Consumed
<1>4. Lands[t] = {s \in F : \A u \in F : s <= u} \cup IF Cardinality(F) <= 1 THEN {End} ELSE {}
  BY Zenon, <1>0, <1>3 DEF Lands
<1> HIDE DEF F
<1> QED BY Zenon, <1>1, <1>2, <1>4

\* A call returns.
LEMMA ReturnAnswers ==
    ASSUME FaithInv, pc = "drive", NEW r, Return(r),
           asked # None => answer' \in Lands[asked]
    PROVE  [TT!Next]_<<Serving, answer>>
<1>1. pc' = "idle" /\ Serving' = None /\ Serving = asked BY Zenon DEF Return, Serving
<1>2. CASE asked = None
  <2>1. answer' = answer BY Zenon, <1>2 DEF Return
  <2> QED BY Zenon, <1>1, <1>2, <2>1
<1>3. CASE asked # None
  BY Zenon, <1>1, <1>3 DEF TT!Next, TT!Answer
<1> QED BY Zenon, <1>2, <1>3

\* Each step of the session is one of the abstract service, or none of its business.
LEMMA TimeTravelStep ==
    ASSUME Faithful, FaithInv, [Next]_vars
    PROVE  [TT!Next]_<<Serving, answer>>
<1>0. /\ finished \in {None, "exited"} /\ "exited" \notin Errors /\ "running" \notin Errors
      /\ SessionInv /\ SeatInv
  BY Zenon DEF FaithInv, SeatInv, Errors
<1>1. CASE AlreadyFinished
  <2>1. pc = "drive" /\ Return("exited") /\ Consumed(cursor) = Consumed(Len(Records))
    BY Zenon, <1>0, <1>1 DEF AlreadyFinished, SeatInv
  <2>2. asked # None => answer' = End BY Zenon, <1>0, <2>1 DEF Return
  <2> QED BY Zenon, <2>1, <2>2, EndLands, ReturnAnswers
<1>2. CASE Arrive
  <2>1. pc = "drive" /\ Return("running") BY Zenon, <1>2 DEF Arrive
  <2>2. asked # None => answer' = current_seq BY Zenon, <2>1 DEF Return
  <2> QED BY Zenon, <1>2, <2>1, <2>2, ArrivalLands, ReturnAnswers
<1>3. CASE OnGone
  <2>1. pc = "drive" /\ finished' = "exited" /\ Consumed(cursor) = Consumed(Len(Records))
    BY Zenon, <1>0, <1>3, GoneAtEnd
  <2>2. Return("exited") BY Zenon, <1>3, <2>1 DEF OnGone
  <2>3. asked # None => answer' = End BY Zenon, <1>0, <2>2 DEF Return
  <2> QED BY Zenon, <2>1, <2>2, <2>3, EndLands, ReturnAnswers
<1>4. CASE TurnActions
  <2>1. UNCHANGED <<pc, asked, answer>> BY Zenon, <1>0, <1>4, FaithfulTurn DEF Carry, call
  <2> QED BY Zenon, <2>1 DEF Serving
<1>5. ASSUME NEW t \in Target, RunTo(t) PROVE TT!Next
  <2>1. pc = "idle" /\ pc' = "drive" /\ asked' = t /\ answer' = answer BY Zenon, <1>5 DEF RunTo, Call
  <2>2. Serving = None /\ Serving' = t BY Zenon, <2>1 DEF Serving
  <2> QED BY Zenon, <2>1, <2>2 DEF TT!Next, TT!Ask
<1>6. ASSUME NEW t \in Target, StepTo(t) \/ RestoreTo(t) PROVE UNCHANGED <<Serving, answer>>
  BY Zenon, <1>6 DEF StepTo, RestoreTo, Call, Idle, Serving
<1>7. ASSUME NEW n \in Interval, SetInterval(n) PROVE UNCHANGED <<Serving, answer>>
  BY Zenon, <1>7 DEF SetInterval, Idle, Serving
<1>8. CASE RunToEnd \/ TakeWatchHits \/ ClearWatch \/ Watch
  BY Zenon, <1>8 DEF RunToEnd, TakeWatchHits, ClearWatch, Watch, Call, Idle, Serving
<1>9. CASE Drop
  BY Zenon, <1>9 DEF Drop, Serving
<1>10. CASE UNCHANGED vars
  BY Zenon, <1>10 DEF vars, call, Serving
<1> QED BY Zenon, <1>1, <1>2, <1>3, <1>4, <1>5, <1>6, <1>7, <1>8, <1>9, <1>10 DEF Next, Drive, TurnActions

\* run_to on a faithful execution only ever answers with where its argument says,
\* the first record at or after it, or the end ("Drive replay to `seq`",
\* session.rs:164); that it does answer is left to ImplementsTimeTravel.
THEOREM SessionRefinesTimeTravel ==
    ASSUME Faithful
    PROVE  Spec => TT!Safety
<1>1. Init => TT!Init BY Zenon DEF Init, TT!Init, Serving
<1>2. FaithInv /\ [Next]_vars => [TT!Next]_<<Serving, answer>> BY Zenon, TimeTravelStep
<1> QED BY <1>1, <1>2, FaithInvariance, PTL DEF Spec, TT!Safety
=============================================================================
