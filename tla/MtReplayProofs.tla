--------------------------- MODULE MtReplayProofs ---------------------------
(***************************************************************************)
(* Multi-threaded replay for any trace, program, pids and sequence of      *)
(* client calls: the routing tables agree (schedule.rs, mt.rs), records    *)
(* are consumed along the recorded schedule only, and every followed       *)
(* thread carries the watchpoint.                                          *)
(***************************************************************************)
EXTENDS MtReplay, NumberLemmas, FiniteSetTheorems

-----------------------------------------------------------------------------
(* The tid map.                                                            *)

\* An empty table, before any thread is bound, is one-to-one.
THEOREM NewInverse == Inverse2(new)
BY DEF Inverse2, new

\* bind keeps the two directions inverse of each other whenever it does not return
\* RecordedRebound or LiveRebound, the idempotent rebind included.
THEOREM BindInverse ==
    ASSUME NEW map, NEW recorded, NEW pid, Inverse2(map), ~Conflicts(map, recorded, pid)
    PROVE  Inverse2(bind(map, recorded, pid))
<1> DEFINE after == bind(map, recorded, pid)
<1>1. /\ DOMAIN after.to_live = DOMAIN map.to_live \cup {recorded}
      /\ \A r \in DOMAIN after.to_live :
            after.to_live[r] = IF r = recorded THEN pid ELSE map.to_live[r]
  BY Zenon DEF bind, With
<1>2. /\ DOMAIN after.to_recorded = DOMAIN map.to_recorded \cup {pid}
      /\ \A l \in DOMAIN after.to_recorded :
            after.to_recorded[l] = IF l = pid THEN recorded ELSE map.to_recorded[l]
  BY Zenon DEF bind, With
<1> HIDE DEF after
<1>3. ASSUME NEW r \in DOMAIN after.to_live
      PROVE  /\ after.to_live[r] \in DOMAIN after.to_recorded
             /\ after.to_recorded[after.to_live[r]] = r
  <2>1. CASE r = recorded
    BY Zenon, <2>1, <1>1, <1>2
  <2>2. CASE r # recorded
    <3>1. /\ r \in DOMAIN map.to_live /\ after.to_live[r] = map.to_live[r]
          /\ map.to_live[r] \in DOMAIN map.to_recorded
          /\ map.to_recorded[map.to_live[r]] = r
      BY Zenon, <2>2, <1>1 DEF Inverse2
    <3>2. map.to_live[r] # pid
      BY Zenon, <3>1, <2>2 DEF Conflicts
    <3> QED
      BY Zenon, <3>1, <3>2, <1>2
  <2> QED
    BY Zenon, <2>1, <2>2
<1>4. ASSUME NEW l \in DOMAIN after.to_recorded
      PROVE  /\ after.to_recorded[l] \in DOMAIN after.to_live
             /\ after.to_live[after.to_recorded[l]] = l
  <2>1. CASE l = pid
    BY Zenon, <2>1, <1>1, <1>2
  <2>2. CASE l # pid
    <3>1. /\ l \in DOMAIN map.to_recorded /\ after.to_recorded[l] = map.to_recorded[l]
          /\ map.to_recorded[l] \in DOMAIN map.to_live
          /\ map.to_live[map.to_recorded[l]] = l
      BY Zenon, <2>2, <1>2 DEF Inverse2
    <3>2. map.to_recorded[l] # recorded
      BY Zenon, <3>1, <2>2 DEF Conflicts
    <3> QED
      BY Zenon, <3>1, <3>2, <1>1
  <2> QED
    BY Zenon, <2>1, <2>2
<1> QED
  BY Zenon, <1>3, <1>4 DEF Inverse2, after

\* unbind_recorded forgets a thread in both directions, so its live pid can be
\* bound again and no other thread's binding is touched.
THEOREM UnbindInverse ==
    ASSUME NEW map, NEW recorded, Inverse2(map)
    PROVE  /\ Inverse2(unbind_recorded(map, recorded))
           /\ ~bound(unbind_recorded(map, recorded), recorded)
<1> DEFINE after == unbind_recorded(map, recorded)
<1>1. CASE ~bound(map, recorded)
  BY Zenon, <1>1 DEF unbind_recorded
<1>2. CASE bound(map, recorded)
  <2>1. /\ DOMAIN after.to_live = DOMAIN map.to_live \ {recorded}
        /\ \A r \in DOMAIN after.to_live : after.to_live[r] = map.to_live[r]
    BY Zenon, <1>2 DEF unbind_recorded, Without
  <2>2. /\ DOMAIN after.to_recorded = DOMAIN map.to_recorded \ {map.to_live[recorded]}
        /\ \A l \in DOMAIN after.to_recorded : after.to_recorded[l] = map.to_recorded[l]
    BY Zenon, <1>2 DEF unbind_recorded, Without, live_of
  <2> HIDE DEF after
  <2>3. ASSUME NEW r \in DOMAIN after.to_live
        PROVE  /\ after.to_live[r] \in DOMAIN after.to_recorded
               /\ after.to_recorded[after.to_live[r]] = r
    BY <2>1, <2>2, <1>2 DEF Inverse2, bound
  <2>4. ASSUME NEW l \in DOMAIN after.to_recorded
        PROVE  /\ after.to_recorded[l] \in DOMAIN after.to_live
               /\ after.to_live[after.to_recorded[l]] = l
    BY <2>1, <2>2, <1>2 DEF Inverse2, bound
  <2> QED
    BY Zenon, <2>1, <2>3, <2>4 DEF Inverse2, bound, after
<1> QED
  BY Zenon, <1>1, <1>2

-----------------------------------------------------------------------------
(* What one turn does to the MtState and to the tasks.                     *)

Fields == {"leader", "threads", "tidmap", "vfork_suspended", "expected_tid"}

\* m and n route and follow the same threads.
SameTables(m, n) ==
    /\ DOMAIN n = Fields
    /\ n.leader = m.leader /\ n.tidmap = m.tidmap /\ n.expected_tid = m.expected_tid
    /\ n.vfork_suspended = m.vfork_suspended
    /\ DOMAIN n.threads = DOMAIN m.threads

Agree(m) ==
    /\ DOMAIN m = Fields
    /\ Inverse2(m.tidmap)
    /\ Range(m.tidmap.to_live) \ {m.leader} = DOMAIN m.threads \ {m.leader}
    /\ DOMAIN m.vfork_suspended \subseteq DOMAIN m.threads

\* The MtState is there, and belongs to this run's leader.
RouteInv == mt # Absent => Agree(mt) /\ mt.leader = leader_pid

\* A record of no other table is read than the one live_for leaves.
LEMMA BoundTables ==
    ASSUME DOMAIN mt = Fields
    PROVE  /\ DOMAIN Bound = Fields
           /\ Bound.leader = mt.leader /\ Bound.threads = mt.threads
           /\ Bound.vfork_suspended = mt.vfork_suspended
           /\ Bound.expected_tid = Rec.tid
           /\ Bound.tidmap = IF bound(mt.tidmap, Rec.tid) THEN mt.tidmap
                             ELSE bind(mt.tidmap, Rec.tid, mt.leader)
BY Zenon DEF Bound, Fields

\* take_resume_signal and take_pending leave the routing alone.
LEMMA TakenTables ==
    ASSUME NEW m, NEW l, DOMAIN m = Fields
    PROVE  /\ SameTables(m, m)
           /\ SameTables(m, TakeSignal(m, l))
           /\ SameTables(m, TakePending(m, l))
           /\ \A v : SameTables(m, [m EXCEPT !.threads[l].pending = v])
           /\ \A v : SameTables(m, [m EXCEPT !.threads[l].resume_signal = v])
BY Zenon DEF SameTables, TakeSignal, TakePending, Fields

LEMMA DirectedTables ==
    ASSUME DOMAIN mt = Fields
    PROVE  SameTables(Bound, Directed) /\ DOMAIN Bound = Fields
BY Zenon, BoundTables, TakenTables DEF Directed

LEMMA SameTablesTrans ==
    ASSUME NEW a, NEW b, NEW c, SameTables(a, b), SameTables(b, c)
    PROVE  SameTables(a, c)
BY Zenon DEF SameTables

\* live_for keeps the tables in agreement: it binds the leader, in an empty map.
LEMMA BoundAgrees ==
    ASSUME Agree(mt), KnownTid
    PROVE  /\ Agree(Bound) /\ bound(Bound.tidmap, Rec.tid)
           /\ Live \in DOMAIN Bound.threads \cup {Bound.leader}
           /\ bound(mt.tidmap, Rec.tid) => Bound.tidmap = mt.tidmap
<1>0. DOMAIN mt = Fields BY Zenon DEF Agree
<1>1. CASE bound(mt.tidmap, Rec.tid)
  <2>1. Agree(Bound) /\ Bound.tidmap = mt.tidmap
    BY Zenon, <1>0, <1>1, BoundTables DEF Agree
  <2>2. Live \in Range(Bound.tidmap.to_live)
    BY Zenon, <2>1, <1>1 DEF Live, live_of, Range, bound
  <2> QED BY Zenon, <2>1, <2>2, <1>1 DEF Agree
<1>2. CASE ~bound(mt.tidmap, Rec.tid)
  <2> DEFINE b == bind(mt.tidmap, Rec.tid, mt.leader)
  <2>1. DOMAIN mt.tidmap.to_live = {} /\ DOMAIN mt.tidmap.to_recorded = {}
    BY Zenon, <1>2 DEF KnownTid, is_empty, Agree, Inverse2
  <2>2. Inverse2(b)
    BY Zenon, <2>1, BindInverse DEF Agree, Conflicts
  <2>3. /\ DOMAIN b.to_live = {Rec.tid} /\ b.to_live[Rec.tid] = mt.leader
    BY Zenon, <2>1 DEF bind, With
  <2>4. Range(b.to_live) = {mt.leader}
    BY Zenon, <2>3 DEF Range
  <2>5. Range(mt.tidmap.to_live) = {}
    BY Zenon, <2>1 DEF Range
  <2>6. Bound.tidmap = b
    BY Zenon, <1>0, <1>2, BoundTables
  <2> HIDE DEF b
  <2>7. Agree(Bound)
    BY Zenon, <1>0, <2>2, <2>4, <2>5, <2>6, BoundTables DEF Agree
  <2>8. Live = mt.leader
    BY Zenon, <2>3, <2>6 DEF Live, live_of
  <2> QED BY Zenon, <1>0, <1>2, <2>7, <2>8, <2>3, <2>6, BoundTables DEF bound
<1> QED BY Zenon, <1>1, <1>2

LEMMA SameAgrees ==
    ASSUME NEW m, NEW n, Agree(m), SameTables(m, n)
    PROVE  Agree(n) /\ n.leader = m.leader
BY Zenon DEF Agree, SameTables

\* register_child and bind_child: the child enters all tables or none.
LEMMA ChildAgrees ==
    ASSUME NEW m, NEW n, NEW r, NEW c, Agree(m), ~Conflicts(m.tidmap, r, c),
           DOMAIN n = Fields, n.leader = m.leader, n.tidmap = bind(m.tidmap, r, c),
           DOMAIN n.threads = DOMAIN m.threads \cup {c},
           DOMAIN n.vfork_suspended \subseteq DOMAIN m.vfork_suspended \cup {c}
    PROVE  Agree(n)
<1> DEFINE b == bind(m.tidmap, r, c)
<1>2. Inverse2(b)
  BY Zenon, BindInverse DEF Agree
<1>3. /\ DOMAIN b.to_live = DOMAIN m.tidmap.to_live \cup {r}
      /\ \A x \in DOMAIN b.to_live : b.to_live[x] = IF x = r THEN c ELSE m.tidmap.to_live[x]
  BY Zenon DEF bind, With
<1>4. r \in DOMAIN m.tidmap.to_live => m.tidmap.to_live[r] = c
  BY Zenon DEF Conflicts
<1>5. Range(b.to_live) = Range(m.tidmap.to_live) \cup {c}
  <2> HIDE DEF b
  <2> QED BY <1>3, <1>4 DEF Range
<1> HIDE DEF b
<1> QED BY Zenon, <1>2, <1>5 DEF Agree, b

\* remove_thread: the dead thread leaves all tables.
LEMMA RemovedAgrees ==
    ASSUME NEW m, NEW l, Agree(m), bound(m.tidmap, Rec.tid), l = live_of(m.tidmap, Rec.tid)
    PROVE  /\ Agree(Removed(m, l)) /\ Removed(m, l).leader = m.leader
           /\ Removed(m, l).expected_tid = m.expected_tid
           /\ DOMAIN Removed(m, l).threads = DOMAIN m.threads \ {l}
<1> DEFINE n == Removed(m, l)
           u == unbind_recorded(m.tidmap, Rec.tid)
<1>1. /\ DOMAIN n = Fields /\ n.leader = m.leader /\ n.expected_tid = m.expected_tid
      /\ n.tidmap = u /\ n.threads = Without(m.threads, l)
      /\ n.vfork_suspended = Without(m.vfork_suspended, l)
  BY Zenon DEF Agree, Fields, Removed
<1>2. Inverse2(u)
  BY Zenon, UnbindInverse DEF Agree
<1>3. /\ DOMAIN u.to_live = DOMAIN m.tidmap.to_live \ {Rec.tid}
      /\ \A x \in DOMAIN u.to_live : u.to_live[x] = m.tidmap.to_live[x]
  BY Zenon DEF unbind_recorded, Without
<1>4. \A x \in DOMAIN m.tidmap.to_live : m.tidmap.to_live[x] = l <=> x = Rec.tid
  BY Zenon DEF Agree, Inverse2, bound, live_of
<1>5. Range(u.to_live) = Range(m.tidmap.to_live) \ {l}
  <2> HIDE DEF u
  <2> QED BY <1>3, <1>4 DEF Range
<1>6. /\ DOMAIN n.threads = DOMAIN m.threads \ {l}
      /\ DOMAIN n.vfork_suspended = DOMAIN m.vfork_suspended \ {l}
  BY Zenon, <1>1 DEF Without
<1> HIDE DEF n, u
<1>7. Agree(n)
  BY Zenon, <1>1, <1>2, <1>5, <1>6 DEF Agree
<1> QED BY Zenon, <1>1, <1>6, <1>7 DEF n

-----------------------------------------------------------------------------
(* The kinds of turn.                                                      *)

\* The call returns, or a Checkpoint record is passed: no thread is touched.
Idles ==
    /\ mt' = mt /\ live' = live
    /\ cursor' = cursor \/ (cursor' = cursor + 1 /\ Next1({"Checkpoint"}))
    /\ finished' = finished

\* A turn that ends in an error leaves its record for the next one.
Errs ==
    /\ Directs(Concrete) /\ SameTables(Bound, mt')
    /\ cursor' = cursor /\ finished' = finished
    /\ \/ live' = live
       \/ live[Live].st = "stopped" /\ \E i : live' = [live EXCEPT ![Live] = Ran(Live, Signal, i)]
       \/ CanStep(Concrete) /\ live' = Stepped(Live, Signal)

\* A syscall stop or a signal stop that is the recorded one.
Follows ==
    /\ CanStep(Concrete) /\ SameTables(Bound, mt')
    /\ Status(Live).stop \in {"syscall", "signal"} /\ live' = Stepped(Live, Signal)
    /\ cursor' = cursor + 1 /\ finished' = finished

Follows_Spawn ==
    LET c == FreshPid(live)
    IN  /\ CanStep(Concrete) /\ Status(Live).stop \in SpawnStops
        /\ Agree(mt') /\ mt'.leader = mt.leader /\ mt'.expected_tid = Rec.tid
        /\ DOMAIN mt'.threads = DOMAIN mt.threads \cup {c}
        /\ live' = ArmChild(Stepped(Live, Signal), c)
        /\ cursor' = cursor + 1 /\ finished' = finished

Follows_Exit ==
    /\ CanStep(Concrete) /\ Status(Live).stop \in Dead
    /\ Agree(mt') /\ mt'.leader = mt.leader /\ mt'.expected_tid = Rec.tid
    /\ DOMAIN mt'.threads = DOMAIN mt.threads \ {Live}
    /\ live' = Stepped(Live, Signal)
    /\ cursor' = cursor + 1
    /\ Live = mt.leader => finished' \in Dead
    /\ Live # mt.leader => finished' = finished

Turns ==
    \/ Idles \/ EnsureState \/ OnSchedSwitch
    \/ Errs \/ Follows \/ Follows_Spawn \/ Follows_Exit

\* Every turn of drive is of one of these kinds.
LEMMA DriveTurns ==
    ASSUME RouteInv, Drive
    PROVE  /\ Turns /\ ctl = "drive" /\ UNCHANGED <<leader_pid, watchpoint>>
           /\ ctl' \in {"drive", "idle", "hung"}
           /\ Idles \/ finished = None
<1>0. ASSUME NEW K \in SUBSET Concrete, Directs(K)
      PROVE  /\ Directs(Concrete) /\ mt # Absent /\ finished = None /\ ctl = "drive"
             /\ Agree(mt) /\ DOMAIN mt = Fields /\ KnownTid
             /\ SameTables(Bound, Bound) /\ SameTables(Bound, Directed)
             /\ Agree(Directed) /\ Directed.leader = mt.leader
             /\ DOMAIN Directed.threads = DOMAIN mt.threads
             /\ Directed.tidmap = Bound.tidmap /\ Directed.expected_tid = Rec.tid
             /\ bound(Directed.tidmap, Rec.tid) /\ DOMAIN Directed = Fields /\ DOMAIN Bound = Fields
  <2>1. Directs(Concrete) /\ mt # Absent /\ finished = None /\ ctl = "drive" /\ KnownTid
    BY Zenon, <1>0 DEF Directs, Next1, Turn
  <2>2. Agree(mt) /\ DOMAIN mt = Fields
    BY Zenon, <2>1 DEF RouteInv, Agree
  <2>3. SameTables(Bound, Bound) /\ SameTables(Bound, Directed) /\ DOMAIN Bound = Fields
    BY Zenon, <2>2, DirectedTables, TakenTables
  <2>4. Agree(Bound) /\ bound(Bound.tidmap, Rec.tid)
    BY Zenon, <2>1, <2>2, BoundAgrees
  <2>5. Agree(Directed)
    BY Zenon, <2>3, <2>4, SameAgrees
  <2> QED BY Zenon, <2>1, <2>2, <2>3, <2>4, <2>5, BoundTables DEF SameTables
<1>c. /\ {"SyscallEnter"} \in SUBSET Concrete /\ {"SyscallExit"} \in SUBSET Concrete
      /\ {"ThreadSpawn"} \in SUBSET Concrete /\ {"ThreadExit"} \in SUBSET Concrete
      /\ {"Signal"} \in SUBSET Concrete /\ Concrete \in SUBSET Concrete
  BY Zenon DEF Concrete
<1>s. ASSUME NEW K \in SUBSET Concrete, Resumed(K)
      PROVE  Directs(K) /\ CanStep(Concrete) /\ UNCHANGED <<leader_pid, watchpoint>>
  BY Zenon, <1>s DEF Resumed, CanStep, Directs, Next1
<1>d. ASSUME NEW e, NEW m, Diverges(e, m)
      PROVE  mt' = m /\ cursor' = cursor /\ finished' = finished /\ ctl' = "idle"
  BY Zenon, <1>d DEF Diverges, Return
<1>m. ASSUME NEW m, Consumes(m)
      PROVE  mt' = m /\ cursor' = cursor + 1 /\ finished' = finished /\ ctl' = ctl
  BY Zenon, <1>m DEF Consumes, advance
<1>1. CASE AlreadyFinished \/ Arrive \/ NoRecordLeft \/ Unexpected \/ Refuse
  <2>1. /\ ctl = "drive" /\ ctl' = "idle" /\ mt' = mt /\ live' = live
        /\ UNCHANGED seat /\ UNCHANGED watchVars
    BY Zenon, <1>1 DEF AlreadyFinished, Arrive, NoRecordLeft, Unexpected, Refuse, Return, Turn, Next1
  <2> QED BY Zenon, <2>1 DEF Turns, Idles, seat, watchVars
<1>2. CASE EnsureState
  BY Zenon, <1>2 DEF EnsureState, Turns, Turn, seat, watchVars
<1>3. CASE OnCheckpoint
  BY Zenon, <1>3 DEF OnCheckpoint, Turns, Idles, Next1, Turn, watchVars
<1>4. CASE OnSchedSwitch
  BY Zenon, <1>4 DEF OnSchedSwitch, Turns, Next1, Turn, watchVars
<1>5. CASE ResumeFails
  <2>1. Directs(Concrete) BY Zenon, <1>5 DEF ResumeFails
  <2>2. Errs BY Zenon, <1>5, <2>1, <1>0, <1>c DEF ResumeFails, Errs, seat
  <2> QED BY Zenon, <1>5, <2>1, <2>2, <1>0, <1>c DEF ResumeFails, Turns, seat, watchVars, Return
<1>6. CASE BadHit
  <2>1. Directs(Concrete) BY Zenon, <1>6 DEF BadHit
  <2>2. Errs BY Zenon, <1>6, <2>1, <1>0, <1>c DEF BadHit, Errs
  <2> QED BY Zenon, <1>6, <2>1, <2>2, <1>0, <1>c DEF BadHit, Turns, Return
<1>7. CASE Hang
  <2>1. Directs(Concrete) BY Zenon, <1>7 DEF Hang, CanStep
  <2>2. Errs BY Zenon, <1>7, <2>1, <1>0, <1>c DEF Hang, Errs, seat
  <2> QED BY Zenon, <1>7, <2>1, <2>2, <1>0, <1>c DEF Hang, Turns, seat, watchVars
<1>8. CASE OnSyscallEnter
  <2>1. /\ Directs({"SyscallEnter"}) /\ CanStep(Concrete) /\ UNCHANGED <<leader_pid, watchpoint>>
        /\ live' = Stepped(Live, Signal)
    BY Zenon, <1>8, <1>s, <1>c DEF OnSyscallEnter
  <2>2. CASE \E e : Diverges(e, Directed)
    BY Zenon, <2>1, <2>2, <1>d, <1>0, <1>c DEF Turns, Errs
  <2>3. CASE /\ Status(Live).stop = "syscall"
             /\ \E v : Consumes([Directed EXCEPT !.threads[Live].pending = v])
    <3>1. PICK v : Consumes([Directed EXCEPT !.threads[Live].pending = v]) BY Zenon, <2>3
    <3>0. DOMAIN Directed = Fields BY Zenon, <2>1, <1>0, <1>c
    <3>2. SameTables(Directed, mt')
      <4>1. SameTables(Directed, [Directed EXCEPT !.threads[Live].pending = v])
        BY Zenon, <3>0, TakenTables
      <4> QED BY Zenon, <3>1, <4>1, <1>m
    <3>3. SameTables(Bound, mt')
      BY Zenon, <3>2, <2>1, <1>0, <1>c, SameTablesTrans
    <3> QED BY Zenon, <2>1, <2>3, <3>1, <3>3, <1>m, <1>0, <1>c DEF Turns, Follows
  <2> QED BY Zenon, <1>8, <2>2, <2>3 DEF OnSyscallEnter
<1>9. CASE OnSyscallExit
  <2>1. /\ Directs({"SyscallExit"}) /\ CanStep(Concrete) /\ UNCHANGED <<leader_pid, watchpoint>>
        /\ live' = Stepped(Live, Signal)
    BY Zenon, <1>9, <1>s, <1>c DEF OnSyscallExit
  <2>2. SameTables(Bound, TakePending(Bound, Live))
    BY Zenon, <2>1, <1>0, <1>c, TakenTables
  <2>3. CASE \E e : Diverges(e, Bound) \/ Diverges(e, TakePending(Bound, Live))
    BY <2>1, <2>2, <2>3, <1>d, <1>0, <1>c DEF Turns, Errs
  <2>4. CASE Status(Live).stop = "syscall" /\ Consumes(TakePending(Bound, Live))
    BY Zenon, <2>1, <2>2, <2>4, <1>m, <1>0, <1>c DEF Turns, Follows
  <2> QED BY Zenon, <1>9, <2>3, <2>4 DEF OnSyscallExit
<1>10. CASE OnThreadSpawn
  <2>1. /\ Directs({"ThreadSpawn"}) /\ CanStep(Concrete) /\ UNCHANGED <<leader_pid, watchpoint>>
    BY Zenon, <1>10, <1>s, <1>c DEF OnThreadSpawn
  <2>2. CASE live' = Stepped(Live, Signal) /\ \E e : Diverges(e, Directed)
    BY Zenon, <2>1, <2>2, <1>d, <1>0, <1>c DEF Turns, Errs
  <2> DEFINE c == FreshPid(live)
             w == Status(Live).stop = "vfork"
             with == [Directed EXCEPT !.tidmap = bind(@, Rec.child, c),
                          !.threads = With(@, c, ThreadRt),
                          !.vfork_suspended = IF w THEN With(@, c, Live) ELSE @]
  <2>3. CASE /\ Status(Live).stop \in SpawnStops /\ ~Conflicts(Directed.tidmap, Rec.child, c)
             /\ live' = ArmChild(Stepped(Live, Signal), c) /\ Consumes(with)
    <3>0. Agree(Directed) BY Zenon, <2>1, <1>0, <1>c
    <3>1. /\ Agree(with) /\ with.leader = Directed.leader
          /\ with.expected_tid = Directed.expected_tid
          /\ DOMAIN with.threads = DOMAIN Directed.threads \cup {c}
      <4>1. ~Conflicts(Directed.tidmap, Rec.child, c) BY Zenon, <2>3
      <4>2. /\ DOMAIN with = Fields /\ with.leader = Directed.leader
            /\ with.expected_tid = Directed.expected_tid
            /\ with.tidmap = bind(Directed.tidmap, Rec.child, c)
            /\ with.threads = With(Directed.threads, c, ThreadRt)
            /\ with.vfork_suspended \in
                  {Directed.vfork_suspended, With(Directed.vfork_suspended, c, Live)}
        BY Zenon, <3>0 DEF Agree, Fields
      <4>3. /\ DOMAIN with.threads = DOMAIN Directed.threads \cup {c}
            /\ DOMAIN with.vfork_suspended \subseteq DOMAIN Directed.vfork_suspended \cup {c}
        BY Zenon, <4>2 DEF With
      <4> HIDE DEF c, with
      <4>4. Agree(with)
        BY Zenon, <3>0, <4>1, <4>2, <4>3, ChildAgrees
      <4> QED BY Zenon, <4>2, <4>3, <4>4
    <3>2. mt' = with BY <2>3, <1>m
    <3> HIDE DEF with
    <3>3. Follows_Spawn
      BY Zenon, <2>1, <2>3, <3>1, <3>2, <1>m, <1>0, <1>c DEF Follows_Spawn
    <3> QED BY Zenon, <2>1, <2>3, <3>3, <1>m, <1>0, <1>c DEF Turns
  <2> QED BY Zenon, <1>10, <2>2, <2>3 DEF OnThreadSpawn
<1>11. CASE OnThreadExit
  <2>1. /\ Directs({"ThreadExit"}) /\ CanStep(Concrete) /\ UNCHANGED <<leader_pid, watchpoint>>
        /\ live' = Stepped(Live, Signal)
    BY Zenon, <1>11, <1>s, <1>c DEF OnThreadExit
  <2>2. CASE \E e : Diverges(e, Directed)
    BY Zenon, <2>1, <2>2, <1>d, <1>0, <1>c DEF Turns, Errs
  <2> DEFINE n == Removed(Directed, Live)
  <2>3. /\ Agree(n) /\ n.leader = Directed.leader /\ n.expected_tid = Directed.expected_tid
        /\ DOMAIN n.threads = DOMAIN Directed.threads \ {Live}
    <3>1. Live = live_of(Directed.tidmap, Rec.tid) BY Zenon, <2>1, <1>0, <1>c DEF Live
    <3> QED BY Zenon, <3>1, <2>1, <1>0, <1>c, RemovedAgrees
  <2> HIDE DEF n
  <2>4. CASE Status(Live).stop \in Dead /\ Live # mt.leader /\ Consumes(n)
    <3>1. Follows_Exit BY Zenon, <2>1, <2>3, <2>4, <1>m, <1>0, <1>c DEF Follows_Exit
    <3> QED BY Zenon, <3>1, <2>1, <2>4, <1>m, <1>0, <1>c DEF Turns
  <2>5. CASE /\ Status(Live).stop \in Dead /\ Live = mt.leader /\ mt' = n /\ advance
             /\ finished' = Status(Live).stop /\ Return(Status(Live).stop)
    <3>1. Follows_Exit BY Zenon, <2>1, <2>3, <2>5, <1>0, <1>c DEF Follows_Exit, advance
    <3> QED BY Zenon, <3>1, <2>1, <2>5, <1>0, <1>c DEF Turns, Return
  <2> QED BY Zenon, <1>11, <2>2, <2>4, <2>5 DEF OnThreadExit, n
<1>12. CASE OnSignal
  <2>1. /\ Directs({"Signal"}) /\ CanStep(Concrete) /\ UNCHANGED <<leader_pid, watchpoint>>
        /\ live' = Stepped(Live, Signal)
    BY Zenon, <1>12, <1>s, <1>c DEF OnSignal
  <2>2. CASE \E e : Diverges(e, Directed)
    BY Zenon, <2>1, <2>2, <1>d, <1>0, <1>c DEF Turns, Errs
  <2>3. CASE /\ Status(Live).stop = "signal"
             /\ \E v : Consumes([Directed EXCEPT !.threads[Live].resume_signal = v])
    <3>1. PICK v : Consumes([Directed EXCEPT !.threads[Live].resume_signal = v]) BY Zenon, <2>3
    <3>0. DOMAIN Directed = Fields BY Zenon, <2>1, <1>0, <1>c
    <3>2. SameTables(Directed, mt')
      <4>1. SameTables(Directed, [Directed EXCEPT !.threads[Live].resume_signal = v])
        BY Zenon, <3>0, TakenTables
      <4> QED BY Zenon, <3>1, <4>1, <1>m
    <3>3. SameTables(Bound, mt')
      BY Zenon, <3>2, <2>1, <1>0, <1>c, SameTablesTrans
    <3> QED BY Zenon, <2>1, <2>3, <3>1, <3>3, <1>m, <1>0, <1>c DEF Turns, Follows
  <2> QED BY Zenon, <1>12, <2>2, <2>3 DEF OnSignal
<1> QED
  BY Zenon, <1>1, <1>2, <1>3, <1>4, <1>5, <1>6, <1>7, <1>8, <1>9, <1>10, <1>11, <1>12 DEF Drive

-----------------------------------------------------------------------------
(* The inductive invariant.                                                *)

\* The schedule cursor of the MtState is the recorded schedule's at the next record.
ScheduleInv ==
    /\ \E s \in Scenarios : records = s.records
    /\ cursor \in Nat
    /\ mt = Absent => cursor = 0
    /\ mt # Absent =>
          IF mt.expected_tid = None
            THEN \A j \in 1..cursor : records[j].kind \notin Concrete \cup {"SchedSwitch"}
            ELSE mt.expected_tid = ScheduledAt(cursor + 1)
    /\ FollowsSwitches

TaskFields == {"st", "who", "pos", "grp", "armed", "owed", "missed"}
Tasks(P) == DOMAIN P = Pid /\ \A p \in Pid : DOMAIN P[p] = TaskFields

\* The record at the cursor directs live thread p.
DirectedNext(p) ==
    /\ cursor < Len(records) /\ Rec.kind \in Concrete
    /\ bound(mt.tidmap, Rec.tid) /\ live_of(mt.tidmap, Rec.tid) = p

\* A pid the session follows is free for another task only while the replay is
\* stuck at the record whose turn found the thread dead.
WatchInv ==
    /\ Tasks(live) /\ leader_pid \in Pid
    /\ mt # Absent => DOMAIN mt.threads \subseteq Pid
    /\ finished = None /\ ctl # "dropped" =>
          /\ mt = Absent => live[leader_pid].st # "free"
          /\ mt # Absent => \A p \in DOMAIN mt.threads : live[p].st = "free" => DirectedNext(p)
    /\ MtWatchFollows

MtInv == RouteInv /\ ScheduleInv /\ WatchInv

\* A client's call only moves the target, starts a new run, arms, disarms or ends.
LEMMA CallKinds ==
    ASSUME Calls
    PROVE  /\ ctl = "idle"
           /\ \/ /\ UNCHANGED <<live, mt, leader_pid, cursor, finished, watchpoint>>
                 /\ ctl' \in {"drive", "hung"}
              \/ Respawn /\ UNCHANGED watchpoint /\ ctl' = "drive"
              \/ Watch \/ ClearWatch \/ Drop
<1>1. ASSUME NEW t \in Target, RunTo(t) PROVE
           /\ ctl = "idle"
           /\ \/ /\ UNCHANGED <<live, mt, leader_pid, cursor, finished, watchpoint>>
                 /\ ctl' \in {"drive", "hung"}
              \/ Respawn /\ UNCHANGED watchpoint /\ ctl' = "drive"
  BY Zenon, <1>1 DEF RunTo, Call, Forward, seat, watchVars
<1>2. ASSUME NEW t \in Target, StepTo(t) PROVE
           /\ ctl = "idle" /\ ctl' = "drive"
           /\ UNCHANGED <<live, mt, leader_pid, cursor, finished, watchpoint>>
  BY Zenon, <1>2 DEF StepTo, Call, Forward, seat, watchVars
<1>3. CASE RunToEnd
  BY Zenon, <1>3 DEF RunToEnd, Call, Forward, seat, watchVars
<1>4. CASE Watch \/ ClearWatch \/ Drop
  BY Zenon, <1>4 DEF Watch, ClearWatch, Drop
<1> QED BY Zenon, <1>1, <1>2, <1>3, <1>4 DEF Calls

-----------------------------------------------------------------------------
(* The tables.                                                             *)

\* A fresh MtState follows the leader and routes nobody.
LEMMA FreshAgrees ==
    ASSUME NEW p
    PROVE  /\ Agree(MtState(p)) /\ MtState(p).leader = p /\ DOMAIN MtState(p).threads = {p}
           /\ MtState(p).expected_tid = None
<1>1. /\ DOMAIN MtState(p) = Fields /\ MtState(p).leader = p /\ MtState(p).tidmap = new
      /\ DOMAIN MtState(p).threads = {p} /\ MtState(p).vfork_suspended = <<>>
      /\ MtState(p).expected_tid = None
  BY Zenon DEF MtState, Fields
<1>2. Range(new.to_live) = {} /\ DOMAIN <<>> = {}
  BY DEF new, Range
<1> QED BY Zenon, <1>1, <1>2, NewInverse DEF Agree

\* Only Absent has no fields.
LEMMA AgreeIsPresent == ASSUME NEW m, Agree(m) PROVE m # Absent
<1>1. DOMAIN Absent = {} BY DEF Absent
<1>2. DOMAIN m # {} BY Zenon DEF Agree, Fields
<1> QED BY Zenon, <1>1, <1>2

\* Every turn and every call leaves the tables in agreement.
LEMMA RouteStep ==
    ASSUME RouteInv, Next
    PROVE  RouteInv'
<1>1. CASE Drive
  <2>1. Turns /\ leader_pid' = leader_pid BY Zenon, <1>1, DriveTurns
  <2>2. CASE Idles
    BY Zenon, <2>1, <2>2 DEF Idles, RouteInv
  <2>3. CASE EnsureState
    BY Zenon, <2>1, <2>3, FreshAgrees DEF EnsureState, RouteInv
  <2>4. CASE OnSchedSwitch
    <3>1. Agree(mt) /\ mt.leader = leader_pid
      BY Zenon, <2>4 DEF OnSchedSwitch, Next1, RouteInv
    <3>2. Agree(mt') /\ mt'.leader = mt.leader
      BY Zenon, <2>4, <3>1 DEF OnSchedSwitch, Agree, Fields
    <3> QED BY Zenon, <2>1, <3>1, <3>2 DEF RouteInv
  <2>5. CASE Errs \/ Follows
    <3>1. Agree(mt) /\ mt.leader = leader_pid /\ KnownTid /\ SameTables(Bound, mt')
      BY Zenon, <2>5 DEF Errs, Follows, CanStep, Directs, Next1, RouteInv
    <3>2. Agree(Bound) /\ Bound.leader = mt.leader
      BY Zenon, <3>1, BoundAgrees, BoundTables DEF Agree
    <3>3. Agree(mt') /\ mt'.leader = mt.leader
      BY Zenon, <3>1, <3>2, SameAgrees DEF SameTables
    <3> QED BY Zenon, <2>1, <3>1, <3>3 DEF RouteInv
  <2>6. CASE Follows_Spawn \/ Follows_Exit
    <3>1. mt.leader = leader_pid
      BY Zenon, <2>6 DEF Follows_Spawn, Follows_Exit, CanStep, Directs, Next1, RouteInv
    <3> QED BY Zenon, <2>1, <2>6, <3>1 DEF Follows_Spawn, Follows_Exit, RouteInv
  <2> QED BY Zenon, <2>1, <2>2, <2>3, <2>4, <2>5, <2>6 DEF Turns
<1>2. CASE Calls
  <2>1. CASE Respawn
    BY Zenon, <2>1 DEF Respawn, RouteInv
  <2>2. CASE UNCHANGED <<mt, leader_pid>>
    BY Zenon, <2>2 DEF RouteInv
  <2> QED BY Zenon, <1>2, <2>1, <2>2, CallKinds DEF Watch, ClearWatch, Drop, seat
<1> QED BY Zenon, <1>1, <1>2 DEF Next

-----------------------------------------------------------------------------
(* The schedule.                                                           *)

SwitchesBefore(i) == {j \in 1..(i - 1) : records[j].kind = "SchedSwitch"}

\* The recorded schedule from one record to the next.
LEMMA ScheduleMoves ==
    ASSUME NEW n \in Nat
    PROVE  /\ records[n + 1].kind = "SchedSwitch" => ScheduledAt(n + 2) = records[n + 1].tid
           /\ records[n + 1].kind # "SchedSwitch" => ScheduledAt(n + 2) = ScheduledAt(n + 1)
           /\ (\A j \in 1..n : records[j].kind # "SchedSwitch") => ScheduledAt(n + 1) = Leader
<1>0. /\ (n + 2) - 1 = n + 1 /\ (n + 1) - 1 = n /\ n + 1 \in 1..(n + 1)
      /\ \A j : j \in 1..(n + 1) <=> j \in 1..n \/ j = n + 1
      /\ \A j \in 1..(n + 1) : j <= n + 1
      /\ \A j \in Nat : n + 1 <= j /\ j \in 1..(n + 1) => j = n + 1
  OBVIOUS
<1> DEFINE at(S) == IF S = {} THEN Leader ELSE records[CHOOSE j \in S : \A k \in S : k <= j].tid
<1>1. \A i : ScheduledAt(i) = at(SwitchesBefore(i))
  BY Zenon DEF ScheduledAt, SwitchesBefore
<1>2. ASSUME records[n + 1].kind = "SchedSwitch" PROVE ScheduledAt(n + 2) = records[n + 1].tid
  <2> DEFINE S == SwitchesBefore(n + 2)
             last == CHOOSE j \in S : \A k \in S : k <= j
  <2>1. S \subseteq 1..(n + 1) /\ n + 1 \in S
    BY Zenon, <1>0, <1>2 DEF SwitchesBefore
  <2>2. n + 1 \in S /\ \A k \in S : k <= n + 1
    BY Zenon, <2>1, <1>0
  <2>3. last \in S /\ \A k \in S : k <= last
    <3> HIDE DEF S
    <3> QED BY Zenon, <2>2
  <2>4. last = n + 1
    <3> HIDE DEF last, S
    <3>1. last \in 1..(n + 1) /\ n + 1 <= last BY Zenon, <2>1, <2>3
    <3> QED BY <3>1
  <2>5. S # {} BY Zenon, <2>1
  <2>6. ScheduledAt(n + 2) = records[last].tid
    BY Zenon, <1>1, <2>5
  <2> QED BY Zenon, <2>4, <2>6
<1>3. ASSUME records[n + 1].kind # "SchedSwitch" PROVE ScheduledAt(n + 2) = ScheduledAt(n + 1)
  <2>1. SwitchesBefore(n + 2) = SwitchesBefore(n + 1)
    BY Zenon, <1>0, <1>3 DEF SwitchesBefore
  <2> HIDE DEF at
  <2> QED BY Zenon, <1>1, <2>1
<1>4. ASSUME \A j \in 1..n : records[j].kind # "SchedSwitch" PROVE ScheduledAt(n + 1) = Leader
  <2>1. SwitchesBefore(n + 1) = {}
    BY Zenon, <1>0, <1>4 DEF SwitchesBefore
  <2> QED BY Zenon, <1>1, <2>1
<1> QED BY Zenon, <1>2, <1>3, <1>4

\* enforce_tid accepts only the thread the schedule has running.
LEMMA RightThread ==
    ASSUME ScheduleInv, Directs(Concrete)
    PROVE  Rec.tid = ScheduledAt(cursor + 1) /\ Rec.tid # None
<1>1. PICK s \in Scenarios : records = s.records BY Zenon DEF ScheduleInv
<1>2. /\ cursor \in Nat /\ cursor < Len(records) /\ records[cursor + 1].kind \in Concrete
      /\ mt # Absent
  BY Zenon DEF ScheduleInv, Directs, Next1, Rec
<1>3. records \in Seq(Range(records)) BY Zenon, <1>1, TraceAssumption
<1>4. cursor + 1 \in DOMAIN records /\ (cursor + 1) - 1 = cursor
  BY <1>2, <1>3
<1>5. Rec.tid \in Tid /\ None \notin Tid
  BY Zenon, <1>1, <1>2, <1>4, TraceAssumption, PidAssumption DEF Rec
<1>6. CASE mt.expected_tid = None
  <2>1. \A j \in 1..cursor : records[j].kind \notin Concrete \cup {"SchedSwitch"}
    BY Zenon, <1>2, <1>6 DEF ScheduleInv
  <2>2. Rec.tid = Leader
    BY Zenon, <1>1, <1>2, <1>4, <2>1, TraceAssumption DEF Rec
  <2>3. ScheduledAt(cursor + 1) = Leader
    BY Zenon, <1>2, <2>1, ScheduleMoves
  <2> QED BY Zenon, <2>2, <2>3, <1>5
<1>7. CASE mt.expected_tid # None
  BY Zenon, <1>2, <1>5, <1>7 DEF ScheduleInv, Directs, ExpectedTid
<1> QED BY Zenon, <1>6, <1>7

\* A consumed record is the scheduled thread's, and moves the schedule on.
LEMMA ScheduleStep ==
    ASSUME RouteInv, RouteInv', ScheduleInv, Next
    PROVE  ScheduleInv'
<1>0. /\ records' = records /\ cursor \in Nat /\ cursor + 1 \in Nat
      /\ (cursor + 1) + 1 = cursor + 2
      /\ \A j : j \in 1..(cursor + 1) <=> j \in 1..cursor \/ j = cursor + 1
  BY DEF ScheduleInv, Next
<1>r. (\E s \in Scenarios : records = s.records)'
  BY Zenon, <1>0 DEF ScheduleInv
<1>s. ASSUME NEW i PROVE ScheduledAt(i)' = ScheduledAt(i)
  BY <1>0 DEF ScheduledAt
<1>t. /\ cursor' = cursor => ScheduledAt(cursor + 1)' = ScheduledAt(cursor + 1)
      /\ cursor' = cursor + 1 => ScheduledAt(cursor + 1)' = ScheduledAt(cursor + 2)
  <2>1. ASSUME NEW n \in Nat, cursor' = n PROVE ScheduledAt(cursor + 1)' = ScheduledAt(n + 1)
    BY <2>1, <1>0 DEF ScheduledAt
  <2>2. PICK n \in Nat : n = cursor BY Zenon, <1>0
  <2>3. PICK m \in Nat : m = cursor + 1 BY Zenon, <1>0
  <2> QED BY Zenon, <2>1, <2>2, <2>3, <1>0
<1>f. ASSUME \/ cursor' = cursor
             \/ /\ cursor' = cursor + 1
                /\ Rec.kind \in Concrete => Rec.tid = ScheduledAt(cursor + 1)
      PROVE  FollowsSwitches'
  <2>1. \A i \in 1..cursor' : records[i].kind \in Concrete => records[i].tid = ScheduledAt(i)
    BY Zenon, <1>0, <1>f DEF ScheduleInv, FollowsSwitches, Rec
  <2> QED BY Zenon, <2>1, <1>0, <1>s DEF FollowsSwitches
<1>1. CASE Drive
  <2>1. Turns BY Zenon, <1>1, DriveTurns
  <2>2. CASE Idles /\ cursor' = cursor
    BY Zenon, <2>2, <1>r, <1>t, <1>f, <1>0 DEF ScheduleInv, Idles
  <2>3. CASE Idles /\ cursor' # cursor
    <3>1. cursor' = cursor + 1 /\ mt # Absent /\ records[cursor + 1].kind = "Checkpoint" /\ mt' = mt
      BY Zenon, <2>3 DEF Idles, Next1, Rec
    <3>2. "Checkpoint" \notin Concrete \cup {"SchedSwitch"} BY Zenon DEF Concrete
    <3>3. ScheduledAt(cursor + 2) = ScheduledAt(cursor + 1)
      BY Zenon, <1>0, <3>1, ScheduleMoves
    <3>4. FollowsSwitches'
      BY Zenon, <3>1, <3>2, <1>f DEF Rec
    <3>5. ScheduledAt(cursor + 1)' = ScheduledAt(cursor + 1)
      BY Zenon, <3>1, <3>3, <1>t
    <3> QED BY Zenon, <3>1, <3>2, <3>4, <3>5, <1>0, <1>r DEF ScheduleInv
  <2>4. CASE EnsureState
    <3>1. cursor = 0 /\ cursor' = 0 BY Zenon, <2>4 DEF EnsureState, seat, ScheduleInv
    <3>2. mt'.expected_tid = None /\ mt' # Absent
      BY Zenon, <2>4, FreshAgrees, AgreeIsPresent DEF EnsureState
    <3> QED BY <3>1, <3>2, <1>r, <1>f DEF ScheduleInv
  <2>5. CASE OnSchedSwitch
    <3>1. /\ cursor' = cursor + 1 /\ mt # Absent /\ cursor < Len(records)
          /\ records[cursor + 1].kind = "SchedSwitch"
          /\ mt' = [mt EXCEPT !.expected_tid = Rec.tid]
      BY Zenon, <2>5 DEF OnSchedSwitch, Next1, Rec, advance
    <3>2. Agree(mt) BY Zenon, <3>1 DEF RouteInv
    <3>3. mt' # Absent /\ mt'.expected_tid = records[cursor + 1].tid
      <4>1. DOMAIN mt' = Fields /\ mt'.expected_tid = records[cursor + 1].tid
        BY Zenon, <3>1, <3>2 DEF Agree, Fields, Rec
      <4>2. DOMAIN Absent = {} BY DEF Absent
      <4> QED BY Zenon, <4>1, <4>2 DEF Fields
    <3>4. ScheduledAt(cursor + 2) = records[cursor + 1].tid
      BY Zenon, <1>0, <3>1, ScheduleMoves
    <3>5. records[cursor + 1].tid # None
      <4>1. PICK s \in Scenarios : records = s.records BY Zenon DEF ScheduleInv
      <4>2. cursor + 1 \in DOMAIN records BY <1>0, <3>1, <4>1, TraceAssumption
      <4> QED BY Zenon, <3>1, <4>1, <4>2, TraceAssumption, PidAssumption
    <3>6. FollowsSwitches'
      BY Zenon, <3>1, <1>f DEF Rec, Concrete
    <3>7. ScheduledAt(cursor + 1)' = records[cursor + 1].tid
      BY Zenon, <3>1, <3>4, <1>t
    <3> QED BY Zenon, <3>1, <3>3, <3>5, <3>6, <3>7, <1>0, <1>r DEF ScheduleInv
  <2>6. CASE Errs
    <3>1. Directs(Concrete) /\ mt # Absent /\ cursor' = cursor /\ SameTables(Bound, mt')
      BY Zenon, <2>6 DEF Errs, Directs, Next1
    <3>2. Rec.tid = ScheduledAt(cursor + 1) /\ Rec.tid # None BY Zenon, <3>1, RightThread
    <3>3. DOMAIN mt' = Fields /\ mt'.expected_tid = Rec.tid
      BY Zenon, <3>1, BoundTables DEF SameTables, RouteInv, Agree
    <3>4. mt' # Absent
      <4>1. DOMAIN Absent = {} BY DEF Absent
      <4> QED BY Zenon, <3>3, <4>1 DEF Fields
    <3>5. ScheduledAt(cursor + 1)' = ScheduledAt(cursor + 1)
      BY Zenon, <3>1, <1>t
    <3> QED BY Zenon, <3>1, <3>2, <3>3, <3>4, <3>5, <1>0, <1>r, <1>f DEF ScheduleInv
  <2>7. CASE Follows \/ Follows_Spawn \/ Follows_Exit
    <3>1. Directs(Concrete) /\ mt # Absent /\ cursor' = cursor + 1 /\ Rec.kind \in Concrete
      BY Zenon, <2>7 DEF Follows, Follows_Spawn, Follows_Exit, CanStep, Directs, Next1
    <3>2. Rec.tid = ScheduledAt(cursor + 1) /\ Rec.tid # None BY Zenon, <3>1, RightThread
    <3>3. DOMAIN mt' = Fields /\ mt'.expected_tid = Rec.tid
      <4>1. DOMAIN mt = Fields BY Zenon, <3>1 DEF RouteInv, Agree
      <4> QED BY Zenon, <2>7, <4>1, BoundTables
           DEF Follows, Follows_Spawn, Follows_Exit, SameTables, Agree
    <3>4. mt' # Absent
      <4>1. DOMAIN Absent = {} BY DEF Absent
      <4> QED BY Zenon, <3>3, <4>1 DEF Fields
    <3>5. ScheduledAt(cursor + 2) = ScheduledAt(cursor + 1)
      <4>1. records[cursor + 1].kind # "SchedSwitch" BY Zenon, <3>1 DEF Rec, Concrete
      <4> QED BY Zenon, <4>1, <1>0, ScheduleMoves
    <3>6. ScheduledAt(cursor + 1)' = ScheduledAt(cursor + 1)
      BY Zenon, <3>1, <3>5, <1>t
    <3> QED BY Zenon, <3>1, <3>2, <3>3, <3>4, <3>6, <1>0, <1>r, <1>f DEF ScheduleInv
  <2> QED BY Zenon, <2>1, <2>2, <2>3, <2>4, <2>5, <2>6, <2>7 DEF Turns
<1>2. CASE Calls
  <2>1. CASE Respawn
    <3>1. cursor' = 0 /\ mt' = Absent BY Zenon, <2>1 DEF Respawn
    <3>2. FollowsSwitches' BY <3>1 DEF FollowsSwitches
    <3> QED BY Zenon, <3>1, <3>2, <1>r DEF ScheduleInv
  <2>2. CASE UNCHANGED <<mt, cursor>>
    BY Zenon, <2>2, <1>r, <1>t, <1>f, <1>0 DEF ScheduleInv
  <2> QED BY Zenon, <1>2, <2>1, <2>2, CallKinds DEF Watch, ClearWatch, Drop, seat
<1> QED BY Zenon, <1>1, <1>2 DEF Next

-----------------------------------------------------------------------------
(* The tasks and the watchpoint.                                           *)

\* While a pid is free, the kernel has a lowest free one to hand out.
LEMMA FreshExists ==
    ASSUME NEW P, \E p \in Pid : P[p].st = "free"
    PROVE  FreshPid(P) \in Pid /\ P[FreshPid(P)].st = "free"
<1> DEFINE F == {p \in Pid : P[p].st = "free"}
<1>1. F \in SUBSET Nat /\ F # {} BY Zenon, PidAssumption
<1>2. PICK p \in F : \A x \in F : p <= x
  <2> HIDE DEF F
  <2> QED BY Zenon, <1>1, LeastExists
<1>3. ASSUME NEW q \in Pid, q < p PROVE P[q].st # "free"
  <2>1. q \in Nat /\ p \in Nat BY Zenon, PidAssumption
  <2> QED BY <1>2, <1>3, <2>1
<1>4. \E x \in Pid : P[x].st = "free" /\ \A q \in Pid : q < x => P[q].st # "free"
  BY Zenon, <1>2, <1>3
<1> QED BY Zenon, <1>4 DEF FreshPid

LEMMA TaskShapes ==
    /\ DOMAIN Free = TaskFields /\ Free.st = "free"
    /\ \A t, g : DOMAIN Born(t, g) = TaskFields /\ Born(t, g).st = "stopped"
BY Zenon DEF Free, Born, TaskFields

\* Running a thread does not touch its debug registers.
LEMMA RanTask ==
    ASSUME Tasks(live), NEW l \in Pid, NEW sig, NEW i
    PROVE  /\ DOMAIN Ran(l, sig, i) = TaskFields
           /\ Ran(l, sig, i).st = live[l].st /\ Ran(l, sig, i).armed = live[l].armed
BY Zenon DEF Tasks, Ran, TaskFields

Moved(l, sig, i) == [live EXCEPT ![l] = Ran(l, sig, i)]

LEMMA MovedTasks ==
    ASSUME Tasks(live), NEW l \in Pid, NEW sig, NEW i
    PROVE  /\ Tasks(Moved(l, sig, i))
           /\ \A p \in Pid : /\ Moved(l, sig, i)[p].st = live[p].st
                             /\ Moved(l, sig, i)[p].armed = live[p].armed
<1> DEFINE Q == Moved(l, sig, i)
<1>1. DOMAIN Q = Pid /\ \A p \in Pid : Q[p] = IF p = l THEN Ran(l, sig, i) ELSE live[p]
  BY Zenon DEF Tasks, Moved
<1> HIDE DEF Q
<1>2. Tasks(Q) /\ \A p \in Pid : Q[p].st = live[p].st /\ Q[p].armed = live[p].armed
  BY <1>1, RanTask DEF Tasks
<1> QED BY Zenon, <1>2 DEF Q

\* What a resumed thread's stop does to the tasks: a spawn takes a free pid, a death
\* frees the thread's, nothing else changes who is watched.
LEMMA SteppedTasks ==
    ASSUME Tasks(live), NEW l \in Pid, live[l].st = "stopped", RoomForChild(l), NEW sig, NEW Q,
           Q = Stepped(l, sig)
    PROVE  /\ Tasks(Q)
           /\ Status(l).stop \in SpawnStops =>
                /\ FreshPid(live) \in Pid /\ live[FreshPid(live)].st = "free"
                /\ Q[FreshPid(live)].st = "stopped"
                /\ \A p \in Pid \ {FreshPid(live)} : Q[p].st = live[p].st /\ Q[p].armed = live[p].armed
           /\ Status(l).stop \in Dead =>
                /\ Q[l].st = "free"
                /\ \A p \in Pid \ {l} : /\ Q[p].st \in {live[p].st, "zombie"}
                                        /\ Q[p].armed = live[p].armed
           /\ Status(l).stop \notin SpawnStops \cup Dead =>
                \A p \in Pid : Q[p].st = live[p].st /\ Q[p].armed = live[p].armed
<1> DEFINE s == Status(l)
           M == Moved(l, sig, StopAt(l))
           c == FreshPid(live)
<1>1. /\ Tasks(M) /\ \A p \in Pid : M[p].st = live[p].st /\ M[p].armed = live[p].armed
  BY MovedTasks
<1>d. SpawnStops \cap Dead = {} BY Zenon DEF SpawnStops, Dead
<1>2. CASE s.stop \in SpawnStops
  <2>1. c \in Pid /\ live[c].st = "free" BY Zenon, <1>2, FreshExists DEF RoomForChild
  <2> DEFINE g == IF s.stop = "clone" THEN live[l].grp ELSE c
  <2>3. Q = [M EXCEPT ![c] = Born(s.child, g)]
    BY Zenon, <1>2, <1>d DEF Stepped, Moved
  <2> HIDE DEF M, c, g
  <2>4. DOMAIN Q = Pid /\ \A p \in Pid : Q[p] = IF p = c THEN Born(s.child, g) ELSE M[p]
    BY Zenon, <1>1, <2>3 DEF Tasks
  <2>5. Tasks(Q) BY <1>1, <2>4, TaskShapes DEF Tasks
  <2>6. Q[c].st = "stopped" /\ \A p \in Pid \ {c} : Q[p] = M[p]
    BY Zenon, <2>1, <2>4, TaskShapes
  <2> QED BY Zenon, <1>1, <1>2, <1>d, <2>1, <2>5, <2>6 DEF c
<1>3. CASE s.stop \in Dead
  <2> DEFINE Z(p) == [live[p] EXCEPT !.st = "zombie"]
  <2>1. Q = [p \in Pid |-> IF p = l THEN Free
                           ELSE IF s.kills /\ p \in Others(live, l) THEN Z(p) ELSE live[p]]
    BY Zenon, <1>3, <1>d DEF Stepped
  <2>2. ASSUME NEW p \in Pid
        PROVE  DOMAIN Z(p) = TaskFields /\ Z(p).st = "zombie" /\ Z(p).armed = live[p].armed
    BY Zenon DEF Tasks, TaskFields
  <2> HIDE DEF Z
  <2>3. DOMAIN Q = Pid /\ Q[l] = Free /\ \A p \in Pid \ {l} : Q[p] \in {live[p], Z(p)}
    BY Zenon, <2>1
  <2>4. Tasks(Q) BY Zenon, <2>2, <2>3, TaskShapes DEF Tasks
  <2> QED BY Zenon, <1>3, <1>d, <2>2, <2>3, <2>4, TaskShapes
<1>4. CASE s.stop \notin SpawnStops \cup Dead
  <2>1. Q = M BY Zenon, <1>4 DEF Stepped, Moved
  <2> QED BY Zenon, <1>1, <1>4, <2>1
<1> QED BY Zenon, <1>2, <1>3, <1>4

\* A respawned leader is alive and, while a watchpoint is set, watched.
LEMMA RespawnTasks ==
    ASSUME Tasks(live), leader_pid \in Pid, Respawn
    PROVE  /\ Tasks(live') /\ leader_pid' \in Pid /\ live'[leader_pid'].st = "stopped"
           /\ live'[leader_pid'].armed = watchpoint
<1> DEFINE F == {p \in Pid : Killed[p].st = "free"}
           f == FreshPid(Killed)
<1>1. Tasks(Killed)
  BY Zenon, TaskShapes DEF Killed, Tasks
<1>2. F # {}
  <2>1. Cardinality(F) >= Cardinality(Tid) BY Zenon DEF Respawn, RoomForRun
  <2>2. Cardinality(Tid) \in Nat /\ Cardinality(Tid) # 0
    BY Zenon, PidAssumption, FS_CardinalityType, FS_EmptySet
  <2>3. Cardinality({}) = 0 BY Zenon, FS_EmptySet
  <2> QED BY <2>1, <2>2, <2>3
<1>3. f \in Pid BY Zenon, <1>2, FreshExists
<1>4. leader_pid' = f BY Zenon DEF Respawn
<1> DEFINE B == Born(Leader, f)
           S == [Killed EXCEPT ![f] = B]
<1>5. live' = [S EXCEPT ![f].armed = watchpoint] BY Zenon DEF Respawn, SpawnLeader
<1> HIDE DEF f, F
<1>6. DOMAIN S = Pid /\ S[f] = B /\ \A p \in Pid \ {f} : S[p] = Killed[p]
  BY Zenon, <1>1, <1>3 DEF Tasks
<1>7. DOMAIN B = TaskFields /\ B.st = "stopped" BY Zenon, TaskShapes
<1> HIDE DEF B, S
<1>8. /\ DOMAIN live' = Pid /\ live'[f] = [B EXCEPT !.armed = watchpoint]
      /\ \A p \in Pid \ {f} : live'[p] = Killed[p]
  BY Zenon, <1>3, <1>5, <1>6
<1>9. /\ DOMAIN live'[f] = TaskFields /\ live'[f].st = "stopped" /\ live'[f].armed = watchpoint
  BY Zenon, <1>7, <1>8 DEF TaskFields
<1>10. \A p \in Pid : DOMAIN live'[p] = TaskFields
  BY Zenon, <1>1, <1>8, <1>9 DEF Tasks
<1> QED BY Zenon, <1>3, <1>4, <1>8, <1>9, <1>10 DEF Tasks

\* Arming and disarming touch the debug registers of the threads reached only.
LEMMA ArmTasks ==
    ASSUME Tasks(live), NEW on
    PROVE  /\ Tasks(Arm(on))
           /\ \A p \in Pid : Arm(on)[p].st = live[p].st
           /\ \A p \in Pid : Arm(on)[p].armed = IF p \in Reached THEN on ELSE live[p].armed
<1> DEFINE A(p) == [live[p] EXCEPT !.armed = on]
<1>1. \A p \in Pid : DOMAIN A(p) = TaskFields /\ A(p).st = live[p].st /\ A(p).armed = on
  BY Zenon DEF Tasks, TaskFields
<1>2. Arm(on) = [p \in Pid |-> IF p \in Reached THEN A(p) ELSE live[p]] BY Zenon DEF Arm
<1> HIDE DEF A
<1> QED BY Zenon, <1>1, <1>2 DEF Tasks

\* The threads a session drives are exactly those it watches, and a pid it follows
\* is handed to nobody else.
LEMMA WatchStep ==
    ASSUME RouteInv, RouteInv', ScheduleInv, WatchInv, Next
    PROVE  WatchInv'
<1>0. /\ Tasks(live) /\ leader_pid \in Pid /\ records' = records
      /\ mt # Absent => DOMAIN mt.threads \subseteq Pid
  BY Zenon DEF WatchInv, Next
\* A step that keeps the MtState's routing, the record and all states.
<1>k. ASSUME UNCHANGED <<mt, leader_pid, cursor, finished>>, Tasks(live'), ctl # "dropped",
             \A p \in Pid : live'[p].st = live[p].st,
             watchpoint' /\ finished = None =>
                \A p \in LiveThreads : live[p].st = "stopped" => live'[p].armed
      PROVE  WatchInv'
  <2>1. LiveThreads \subseteq Pid /\ LiveThreads' = LiveThreads
    BY Zenon, <1>0, <1>k DEF LiveThreads
  <2>2. MtWatchFollows'
    BY Zenon, <1>k, <2>1 DEF MtWatchFollows
  <2>3. \A p : DirectedNext(p)' <=> DirectedNext(p)
    BY Zenon, <1>0, <1>k DEF DirectedNext, Rec
  <2> QED BY Zenon, <1>0, <1>k, <2>2, <2>3 DEF WatchInv
<1>1. CASE Drive
  <2>1. /\ Turns /\ ctl = "drive" /\ UNCHANGED <<leader_pid, watchpoint>>
        /\ ctl' \in {"drive", "idle", "hung"} /\ (Idles \/ finished = None)
    BY Zenon, <1>1, DriveTurns
  <2>2. CASE Idles /\ cursor' = cursor
    BY Zenon, <1>0, <1>k, <2>1, <2>2 DEF Idles, WatchInv, MtWatchFollows
  \* The record passed directs nobody, so no followed pid is free.
  <2>c. ASSUME mt # Absent, finished = None, cursor < Len(records), Rec.kind \notin Concrete
        PROVE  \A p \in DOMAIN mt.threads : live[p].st # "free"
    BY Zenon, <2>c, <2>1 DEF WatchInv, DirectedNext
  <2>3. CASE Idles /\ cursor' # cursor
    <3>1. Next1({"Checkpoint"}) /\ mt' = mt /\ live' = live /\ finished' = finished /\ mt # Absent
      BY Zenon, <2>3 DEF Idles, Next1
    <3>2. \A p \in DOMAIN mt.threads : live[p].st # "free"
      BY Zenon, <3>1, <2>c DEF Next1, Turn, Concrete
    <3>3. MtWatchFollows' BY Zenon, <2>1, <3>1 DEF WatchInv, MtWatchFollows, LiveThreads
    <3> QED BY Zenon, <1>0, <2>1, <3>1, <3>2, <3>3 DEF WatchInv
  <2>4. CASE EnsureState
    <3>1. /\ mt = Absent /\ mt' = MtState(leader_pid) /\ live' = live /\ finished' = finished
          /\ finished = None
      BY Zenon, <2>4 DEF EnsureState, seat, Turn
    <3>2. DOMAIN mt'.threads = {leader_pid} /\ mt' # Absent
      BY Zenon, <3>1, FreshAgrees, AgreeIsPresent
    <3>3. LiveThreads' = LiveThreads BY Zenon, <3>1, <3>2 DEF LiveThreads
    <3>4. MtWatchFollows' BY Zenon, <2>1, <3>1, <3>3 DEF WatchInv, MtWatchFollows
    <3>5. live[leader_pid].st # "free" BY Zenon, <2>1, <3>1 DEF WatchInv
    <3> QED BY Zenon, <1>0, <2>1, <3>1, <3>2, <3>4, <3>5 DEF WatchInv
  <2>5. CASE OnSchedSwitch
    <3>1. /\ Next1({"SchedSwitch"}) /\ live' = live /\ finished' = finished /\ mt # Absent
          /\ mt' = [mt EXCEPT !.expected_tid = Rec.tid]
      BY Zenon, <2>5 DEF OnSchedSwitch, Next1
    <3>2. \A p \in DOMAIN mt.threads : live[p].st # "free"
      BY Zenon, <3>1, <2>c DEF Next1, Turn, Concrete
    <3>3. Agree(mt) BY Zenon, <3>1 DEF RouteInv
    <3>4. DOMAIN mt' = Fields /\ mt'.threads = mt.threads
      BY Zenon, <3>1, <3>3 DEF Agree, Fields
    <3>5. mt' # Absent
      <4>1. DOMAIN Absent = {} BY DEF Absent
      <4> QED BY Zenon, <3>4, <4>1 DEF Fields
    <3>6. MtWatchFollows' BY Zenon, <2>1, <3>1, <3>4, <3>5 DEF WatchInv, MtWatchFollows, LiveThreads
    <3> QED BY Zenon, <1>0, <2>1, <3>1, <3>2, <3>4, <3>5, <3>6 DEF WatchInv
  \* A directed turn: the thread is followed, and bound from now on.
  <2>d. ASSUME Directs(Concrete)
        PROVE  /\ mt # Absent /\ finished = None /\ Agree(mt) /\ mt.leader = leader_pid
               /\ Agree(Bound) /\ Bound.threads = mt.threads /\ bound(Bound.tidmap, Rec.tid)
               /\ Live \in Pid /\ Live = live_of(Bound.tidmap, Rec.tid)
               /\ cursor < Len(records) /\ Rec.kind \in Concrete
               /\ \A p : DirectedNext(p) => p = Live
    <3>1. /\ mt # Absent /\ finished = None /\ Agree(mt) /\ mt.leader = leader_pid /\ KnownTid
          /\ cursor < Len(records) /\ Rec.kind \in Concrete
      BY Zenon, <2>d DEF Directs, Next1, Turn, RouteInv
    <3>2. /\ Agree(Bound) /\ bound(Bound.tidmap, Rec.tid)
          /\ Live \in DOMAIN Bound.threads \cup {Bound.leader}
          /\ bound(mt.tidmap, Rec.tid) => Bound.tidmap = mt.tidmap
      BY Zenon, <3>1, BoundAgrees
    <3>3. Bound.threads = mt.threads /\ Bound.leader = mt.leader
      BY Zenon, <3>1, BoundTables DEF Agree
    <3> QED BY Zenon, <1>0, <3>1, <3>2, <3>3 DEF Live, DirectedNext
  \* The thread directed is alive, so no followed pid is free.
  <2>a. ASSUME CanStep(Concrete)
        PROVE  /\ Directs(Concrete) /\ live[Live].st = "stopped" /\ RoomForChild(Live)
               /\ \A p \in DOMAIN mt.threads : live[p].st # "free"
    <3>1. Directs(Concrete) /\ live[Live].st = "stopped" /\ RoomForChild(Live)
      BY Zenon, <2>a DEF CanStep
    <3>2. \A p \in DOMAIN mt.threads : live[p].st = "free" => DirectedNext(p)
      BY Zenon, <3>1, <2>d, <2>1 DEF WatchInv
    <3> QED BY Zenon, <3>1, <3>2, <2>d
  <2>6. CASE Errs
    <3>1. /\ Directs(Concrete) /\ SameTables(Bound, mt') /\ cursor' = cursor
          /\ finished' = finished
      BY Zenon, <2>6 DEF Errs
    <3>2. /\ mt' # Absent /\ DOMAIN mt'.threads = DOMAIN mt.threads
          /\ mt'.tidmap = Bound.tidmap /\ mt # Absent
      BY Zenon, <3>1, <2>d, SameAgrees, AgreeIsPresent DEF SameTables
    <3>3. PICK x : x = Live BY Zenon
    <3>4. DirectedNext(x)'
      BY Zenon, <3>1, <3>2, <3>3, <2>d, <1>0 DEF DirectedNext, Rec
    <3>5. /\ Tasks(live')
          /\ \A p \in DOMAIN mt.threads :
                /\ live'[p].st = "free" => live[p].st = "free" \/ p = x
                /\ live'[p].st = "stopped" => live[p].st = "stopped" /\ live'[p].armed = live[p].armed
      <4>1. CASE live' = live
        BY Zenon, <4>1, <1>0
      <4>2. CASE \E i : live' = [live EXCEPT ![Live] = Ran(Live, Signal, i)]
        <5>1. PICK i : live' = Moved(Live, Signal, i) BY Zenon, <4>2 DEF Moved
        <5>2. /\ Tasks(live')
              /\ \A p \in Pid : live'[p].st = live[p].st /\ live'[p].armed = live[p].armed
          BY <5>1, <1>0, <2>d, <3>1, MovedTasks
        <5> QED BY Zenon, <5>2, <1>0, <3>2
      <4>3. CASE CanStep(Concrete) /\ live' = Stepped(Live, Signal)
        <5>1. /\ Live \in Pid /\ live[Live].st = "stopped" /\ RoomForChild(Live)
              /\ \A p \in DOMAIN mt.threads : live[p].st # "free"
          BY Zenon, <4>3, <2>a, <2>d
        <5>2. /\ Tasks(live')
              /\ \/ /\ FreshPid(live) \in Pid /\ live[FreshPid(live)].st = "free"
                    /\ \A p \in Pid \ {FreshPid(live)} :
                          live'[p].st = live[p].st /\ live'[p].armed = live[p].armed
                 \/ /\ live'[Live].st = "free"
                    /\ \A p \in Pid \ {Live} : /\ live'[p].st \in {live[p].st, "zombie"}
                                               /\ live'[p].armed = live[p].armed
                 \/ \A p \in Pid : live'[p].st = live[p].st /\ live'[p].armed = live[p].armed
          BY <5>1, <4>3, <1>0, SteppedTasks
        <5> QED BY Zenon, <5>1, <5>2, <3>2, <3>3, <1>0
      <4> QED BY Zenon, <2>6, <4>1, <4>2, <4>3 DEF Errs
    <3>6. \A p \in DOMAIN mt'.threads : live'[p].st = "free" => DirectedNext(p)'
      <4>1. \A p \in DOMAIN mt.threads : live[p].st = "free" => p = x
        BY Zenon, <2>d, <2>1, <3>1, <3>3 DEF WatchInv
      <4> QED BY Zenon, <4>1, <3>2, <3>4, <3>5
    <3>7. MtWatchFollows'
      BY Zenon, <3>1, <3>2, <3>5, <2>1 DEF WatchInv, MtWatchFollows, LiveThreads
    <3> QED BY Zenon, <1>0, <2>1, <3>2, <3>5, <3>6, <3>7 DEF WatchInv
  <2>7. CASE Follows
    <3>1. /\ CanStep(Concrete) /\ SameTables(Bound, mt') /\ live' = Stepped(Live, Signal)
          /\ Status(Live).stop \notin SpawnStops \cup Dead /\ finished' = finished
      BY Zenon, <2>7 DEF Follows, SpawnStops, Dead
    <3>2. /\ mt' # Absent /\ DOMAIN mt'.threads = DOMAIN mt.threads /\ mt # Absent
      BY Zenon, <3>1, <2>a, <2>d, SameAgrees, AgreeIsPresent DEF SameTables
    <3>3. /\ Tasks(live')
          /\ \A p \in Pid : live'[p].st = live[p].st /\ live'[p].armed = live[p].armed
      BY <3>1, <2>a, <2>d, <1>0, SteppedTasks
    <3>4. \A p \in DOMAIN mt'.threads : live'[p].st # "free"
      BY Zenon, <3>1, <3>2, <3>3, <2>a, <1>0
    <3>5. MtWatchFollows'
      BY Zenon, <3>1, <3>2, <3>3, <2>1, <1>0 DEF WatchInv, MtWatchFollows, LiveThreads
    <3> QED BY Zenon, <1>0, <2>1, <3>2, <3>3, <3>4, <3>5 DEF WatchInv
  <2>8. CASE Follows_Spawn
    <3>1. PICK c : c = FreshPid(live) BY Zenon
    <3>2. PICK Q : Q = Stepped(Live, Signal) BY Zenon
    <3>3. /\ CanStep(Concrete) /\ Status(Live).stop \in SpawnStops /\ Agree(mt')
          /\ DOMAIN mt'.threads = DOMAIN mt.threads \cup {c}
          /\ live' = [Q EXCEPT ![c].armed = watchpoint] /\ finished' = finished
      BY Zenon, <2>8, <3>1, <3>2 DEF Follows_Spawn, ArmChild
    <3>4. mt' # Absent /\ mt # Absent
      BY Zenon, <3>3, <2>a, <2>d, AgreeIsPresent
    <3>5. /\ Tasks(Q) /\ c \in Pid /\ live[c].st = "free" /\ Q[c].st = "stopped"
          /\ \A p \in Pid \ {c} : Q[p].st = live[p].st /\ Q[p].armed = live[p].armed
      BY <3>1, <3>2, <3>3, <2>a, <2>d, <1>0, SteppedTasks
    <3>6. /\ DOMAIN live' = Pid /\ live'[c] = [Q[c] EXCEPT !.armed = watchpoint]
          /\ \A p \in Pid \ {c} : live'[p] = Q[p]
      BY Zenon, <3>3, <3>5 DEF Tasks
    <3>7. DOMAIN live'[c] = TaskFields /\ live'[c].st = "stopped" /\ live'[c].armed = watchpoint
      BY Zenon, <3>5, <3>6 DEF Tasks, TaskFields
    <3>8. Tasks(live')
      BY Zenon, <3>5, <3>6, <3>7 DEF Tasks
    <3>9. \A p \in DOMAIN mt'.threads : live'[p].st # "free"
      BY <3>3, <3>5, <3>6, <3>7, <2>a, <1>0, <3>4
    <3>10. MtWatchFollows'
      BY <3>3, <3>4, <3>5, <3>6, <3>7, <2>1, <1>0 DEF WatchInv, MtWatchFollows, LiveThreads
    <3> QED BY Zenon, <1>0, <2>1, <3>3, <3>4, <3>5, <3>8, <3>9, <3>10 DEF WatchInv
  <2>9. CASE Follows_Exit
    <3>1. /\ CanStep(Concrete) /\ Status(Live).stop \in Dead /\ live' = Stepped(Live, Signal)
          /\ DOMAIN mt'.threads = DOMAIN mt.threads \ {Live} /\ Agree(mt')
      BY Zenon, <2>9 DEF Follows_Exit
    <3>2. mt' # Absent /\ mt # Absent /\ finished = None
      BY Zenon, <3>1, <2>a, <2>d, AgreeIsPresent
    <3>3. /\ Tasks(live')
          /\ \A p \in Pid \ {Live} : /\ live'[p].st \in {live[p].st, "zombie"}
                                     /\ live'[p].armed = live[p].armed
      BY <3>1, <2>a, <2>d, <1>0, SteppedTasks
    <3>4. \A p \in DOMAIN mt'.threads : live'[p].st # "free"
      BY Zenon, <3>1, <3>2, <3>3, <2>a, <1>0
    <3>5. MtWatchFollows'
      BY Zenon, <3>1, <3>2, <3>3, <2>1, <1>0 DEF WatchInv, MtWatchFollows, LiveThreads
    <3> QED BY Zenon, <1>0, <2>1, <3>1, <3>2, <3>3, <3>4, <3>5 DEF WatchInv
  <2> QED BY Zenon, <2>1, <2>2, <2>3, <2>4, <2>5, <2>6, <2>7, <2>8, <2>9 DEF Turns
<1>2. CASE Calls
  <2>0. ctl = "idle" BY Zenon, <1>2, CallKinds
  <2>1. CASE UNCHANGED <<live, mt, leader_pid, cursor, finished, watchpoint>>
    BY Zenon, <1>0, <1>k, <2>0, <2>1 DEF WatchInv, MtWatchFollows
  <2>2. CASE Respawn /\ UNCHANGED watchpoint
    <3>1. /\ Tasks(live') /\ leader_pid' \in Pid /\ live'[leader_pid'].st = "stopped"
          /\ live'[leader_pid'].armed = watchpoint /\ mt' = Absent
      BY Zenon, <1>0, <2>2, RespawnTasks DEF Respawn
    <3>2. MtWatchFollows'
      BY Zenon, <2>2, <3>1 DEF MtWatchFollows, LiveThreads
    <3> QED BY Zenon, <3>1, <3>2 DEF WatchInv
  <2>3. CASE Watch
    <3>1. live' = Arm(TRUE) /\ UNCHANGED <<mt, leader_pid, cursor, finished>>
      BY Zenon, <2>3 DEF Watch, seat
    <3>2. LiveThreads \subseteq Pid BY Zenon, <1>0 DEF LiveThreads
    <3>3. Armable => Reached = LiveThreads BY Zenon DEF Armable, Reached
    <3>4. watchpoint' /\ finished = None => watchpoint \/ Armable
      BY Zenon, <2>3 DEF Watch
    <3>5. watchpoint' /\ finished = None =>
              \A p \in LiveThreads : live[p].st = "stopped" => live'[p].armed
      BY Zenon, <1>0, <3>1, <3>2, <3>3, <3>4, ArmTasks DEF WatchInv, MtWatchFollows
    <3> QED BY Zenon, <1>0, <1>k, <2>0, <3>1, <3>5, ArmTasks
  <2>4. CASE ClearWatch
    <3>1. /\ UNCHANGED <<mt, leader_pid, cursor, finished>> /\ ~watchpoint'
          /\ live' \in {live, Arm(FALSE)}
      BY Zenon, <2>4 DEF ClearWatch, seat
    <3> QED BY Zenon, <1>0, <1>k, <2>0, <3>1, ArmTasks
  <2>5. CASE Drop
    <3>1. UNCHANGED <<mt, leader_pid, cursor, finished, watchpoint>>
      BY Zenon, <2>5 DEF Drop, seat, watchVars
    <3>2. CASE live' = live /\ ctl' = "hung"
      BY Zenon, <1>0, <1>k, <2>0, <3>1, <3>2 DEF WatchInv, MtWatchFollows
    <3>3. CASE ctl' = "dropped" /\ live' = [p \in Pid |-> IF p \in Owned THEN Free ELSE live[p]]
      <4>1. Tasks(live') /\ \A p \in Pid : live'[p].st = "stopped" => live'[p] = live[p]
        BY Zenon, <1>0, <3>3, TaskShapes DEF Tasks
      <4>2. LiveThreads \subseteq Pid /\ LiveThreads' = LiveThreads
        BY Zenon, <1>0, <3>1 DEF LiveThreads
      <4>3. MtWatchFollows'
        BY Zenon, <3>1, <4>1, <4>2 DEF WatchInv, MtWatchFollows
      <4> QED BY Zenon, <1>0, <3>1, <3>3, <4>1, <4>3 DEF WatchInv
    <3> QED BY Zenon, <2>5, <3>2, <3>3 DEF Drop
  <2> QED BY Zenon, <1>2, <2>1, <2>2, <2>3, <2>4, <2>5, CallKinds
<1> QED BY Zenon, <1>1, <1>2 DEF Next

-----------------------------------------------------------------------------
(* The theorems.                                                           *)

LEMMA MtInitInv == Init => MtInv
<1> SUFFICES ASSUME Init PROVE MtInv BY Zenon
<1>1. RouteInv BY Zenon DEF Init, ReplayInit, RouteInv
<1>2. ScheduleInv
  <2>1. cursor = 0 /\ mt = Absent /\ \E s \in Scenarios : records = s.records
    BY Zenon DEF Init, ReplayInit
  <2>2. FollowsSwitches BY <2>1 DEF FollowsSwitches
  <2> QED BY Zenon, <2>1, <2>2 DEF ScheduleInv
<1>3. WatchInv
  <2> DEFINE f == FreshPid(Nobody)
  <2>1. \A p \in Pid : Nobody[p].st = "free" BY Zenon, TaskShapes DEF Nobody
  <2>2. f \in Pid BY Zenon, <2>1, FreshExists, PidAssumption
  <2>3. /\ live = [Nobody EXCEPT ![f] = Born(Leader, f)] /\ leader_pid = f
        /\ mt = Absent /\ watchpoint = FALSE
    BY Zenon DEF Init, ReplayInit, SpawnLeader
  <2> HIDE DEF f
  <2>4. DOMAIN live = Pid /\ \A p \in Pid : live[p] = IF p = f THEN Born(Leader, f) ELSE Free
    BY Zenon, <2>2, <2>3 DEF Nobody
  <2>5. Tasks(live) /\ live[leader_pid].st # "free"
    BY Zenon, <2>2, <2>3, <2>4, TaskShapes DEF Tasks
  <2> QED BY Zenon, <2>2, <2>3, <2>5 DEF WatchInv, MtWatchFollows
<1> QED BY Zenon, <1>1, <1>2, <1>3 DEF MtInv

\* Stuttering keeps the invariant.
LEMMA MtStutter == ASSUME MtInv, UNCHANGED replay PROVE MtInv'
<1>1. UNCHANGED <<records, live, leader_pid, cursor, finished, mt, watchpoint, ctl>>
  BY Zenon DEF replay, replayVars, seat, watchVars
<1>2. RouteInv' BY Zenon, <1>1 DEF MtInv, RouteInv
<1>3. ScheduleInv'
  <2>1. ASSUME NEW i PROVE ScheduledAt(i)' = ScheduledAt(i) BY <1>1 DEF ScheduledAt
  <2>2. ScheduledAt(cursor + 1)' = ScheduledAt(cursor + 1) BY <1>1 DEF ScheduledAt
  <2>3. FollowsSwitches' BY Zenon, <1>1, <2>1 DEF MtInv, ScheduleInv, FollowsSwitches
  <2> QED BY Zenon, <1>1, <2>2, <2>3 DEF MtInv, ScheduleInv
<1>4. WatchInv'
  BY Zenon, <1>1 DEF MtInv, WatchInv, Tasks, DirectedNext, Rec, MtWatchFollows, LiveThreads
<1> QED BY Zenon, <1>2, <1>3, <1>4 DEF MtInv

\* The invariant behind the three results below: the routing tables, the schedule
\* cursor and the pids of the followed threads, through every turn and every call.
THEOREM MtInvariance == Spec => []MtInv
<1>1. MtInv /\ [Next]_replay => MtInv'
  BY Zenon, RouteStep, ScheduleStep, WatchStep, MtStutter DEF MtInv
<1> QED BY <1>1, MtInitInv, PTL DEF Spec

\* For any trace (edited ones included) and any program: the tid map is one-to-one and
\* covers exactly the followed threads, whatever is spawned, exits or fails, and
\* however pids are reused.
THEOREM TablesAlwaysAgree == Spec => []TablesAgree
<1>1. MtInv => TablesAgree BY Zenon DEF MtInv, RouteInv, Agree, TablesAgree
<1> QED BY <1>1, MtInvariance, PTL

\* For any trace that begins with the leader: no record is consumed against the
\* recorded schedule.
THEOREM ScheduleIsFollowed == Spec => []FollowsSwitches
<1>1. MtInv => FollowsSwitches BY Zenon DEF MtInv, ScheduleInv
<1> QED BY <1>1, MtInvariance, PTL

\* For any number of threads, spawns and respawns: while a watchpoint is set, every
\* followed live thread has it in its debug registers.
THEOREM WatchCoversThreads == Spec => []MtWatchFollows
<1>1. MtInv => MtWatchFollows BY Zenon DEF MtInv, WatchInv
<1> QED BY <1>1, MtInvariance, PTL
=============================================================================
