-------------------------- MODULE RecorderProofs --------------------------
(***************************************************************************)
(* Proofs about the recorder, for any set of tids, any environment and any *)
(* length.  Its scheduler keeps its safety properties: each layer of the   *)
(* inductive invariant is preserved, and the properties follow from it.    *)
(* On that invariant rests the second half: the trace a recording leaves   *)
(* is well formed.  Every thread is announced before it is used, the       *)
(* switches explain the interleaving, and each thread has a whole history. *)
(***************************************************************************)
EXTENDS RecorderTrace, NumberLemmas, TLAPS

-----------------------------------------------------------------------------
(* What the operations on sequences do.                                    *)

\* A queue or a trace is a function on the positions up to its length.
LEMMA LenIs ==
  ASSUME NEW S, NEW q \in Seq(S)
  PROVE  Len(q) \in Nat /\ q \in [1..Len(q) -> S] /\ DOMAIN q = 1..Len(q)
OBVIOUS

\* Only the empty one has the length zero.
LEMMA EmptyIs ==
  ASSUME NEW S
  PROVE  /\ <<>> \in Seq(S) /\ Len(<<>>) = 0
         /\ \A q \in Seq(S) : q # <<>> => Len(q) \in Nat \ {0}
OBVIOUS

\* push_back leaves the earlier elements where they are.
LEMMA PushIs ==
  ASSUME NEW S, NEW q \in Seq(S), NEW x \in S
  PROVE  /\ Append(q, x) \in Seq(S) /\ Append(q, x) # <<>> /\ Len(Append(q, x)) = Len(q) + 1
         /\ \A i \in 1..Len(q) : Append(q, x)[i] = q[i]
         /\ Append(q, x)[Len(q) + 1] = x
OBVIOUS

\* pop_front moves the others up by one.
LEMMA RestIs ==
  ASSUME NEW S, NEW q \in Seq(S), q # <<>>
  PROVE  /\ Head(q) \in S /\ Tail(q) \in Seq(S) /\ Len(Tail(q)) = Len(q) - 1
         /\ \A i \in 1..Len(Tail(q)) : Tail(q)[i] = q[i + 1]
OBVIOUS

\* Two parts of a queue put together.
LEMMA JoinIs ==
  ASSUME NEW S, NEW q \in Seq(S), NEW r \in Seq(S)
  PROVE  /\ q \o r \in Seq(S) /\ Len(q \o r) = Len(q) + Len(r)
         /\ \A i \in 1..(Len(q) + Len(r)) : (q \o r)[i] = IF i <= Len(q) THEN q[i] ELSE r[i - Len(q)]
OBVIOUS

\* A part of a queue.
LEMMA CutIs ==
  ASSUME NEW S, NEW q, NEW m \in Int, NEW n \in Int, \A i \in m..n : q[i] \in S
  PROVE  /\ SubSeq(q, m, n) \in Seq(S)
         /\ Len(SubSeq(q, m, n)) = IF m <= n THEN n - m + 1 ELSE 0
         /\ \A i \in 1..(n - m + 1) : SubSeq(q, m, n)[i] = q[m + i - 1]
OBVIOUS

-----------------------------------------------------------------------------
(* What the queue operations do to the set of queued threads.              *)

\* push_back of a thread that is not queued keeps the queue free of duplicates.
LEMMA AppendRange ==
  ASSUME NEW T, NEW q \in Seq(T), NEW t \in T
  PROVE  /\ Append(q, t) \in Seq(T)
         /\ Range(Append(q, t)) = Range(q) \cup {t}
         /\ NoDup(q) /\ t \notin Range(q) => NoDup(Append(q, t))
<1> DEFINE r == Append(q, t)
<1>1. /\ r \in Seq(T) /\ Len(r) = Len(q) + 1 /\ Len(q) \in Nat
      /\ DOMAIN r = 1..Len(r) /\ DOMAIN q = 1..Len(q)
      /\ \A i \in 1..Len(q) : r[i] = q[i]
      /\ r[Len(q) + 1] = t
  BY PushIs, LenIs
<1> HIDE DEF r
<1>2. ASSUME NEW x PROVE x \in Range(r) <=> x \in Range(q) \cup {t}
  BY <1>1 DEF Range
<1>3. ASSUME NoDup(q), t \notin Range(q) PROVE NoDup(r)
  BY <1>1, <1>3 DEF NoDup, Range
<1> QED BY Zenon, <1>1, <1>2, <1>3 DEF r

\* pop_front takes the first thread out and leaves the others queued.
LEMMA TailRange ==
  ASSUME NEW T, NEW q \in Seq(T), q # <<>>
  PROVE  /\ Tail(q) \in Seq(T) /\ Head(q) \in T
         /\ Range(q) = Range(Tail(q)) \cup {Head(q)}
         /\ NoDup(q) => NoDup(Tail(q)) /\ Head(q) \notin Range(Tail(q))
<1> DEFINE r == Tail(q)
<1>1. /\ r \in Seq(T) /\ Len(q) \in Nat \ {0} /\ Len(r) = Len(q) - 1
      /\ Head(q) = q[1] /\ Head(q) \in T
      /\ DOMAIN r = 1..Len(r) /\ DOMAIN q = 1..Len(q)
      /\ \A i \in 1..Len(r) : r[i] = q[i+1]
  BY RestIs, LenIs, EmptyIs
<1> HIDE DEF r
<1>2. ASSUME NEW x, x \in Range(q) PROVE x \in Range(r) \cup {Head(q)}
  <2> PICK i \in 1..Len(q) : q[i] = x  BY Zenon, <1>1, <1>2 DEF Range
  <2>1. CASE i = 1 BY Zenon, <2>1, <1>1
  <2>2. CASE i # 1
    <3>1. i - 1 \in 1..Len(r) /\ (i - 1) + 1 = i BY <2>2, <1>1
    <3>2. r[i-1] = x BY Zenon, <3>1, <1>1
    <3> QED BY Zenon, <3>1, <3>2, <1>1 DEF Range
  <2> QED BY Zenon, <2>1, <2>2
<1>3. ASSUME NEW x, x \in Range(r) \cup {Head(q)} PROVE x \in Range(q)
  BY <1>1, <1>3 DEF Range
<1>4. ASSUME NoDup(q) PROVE NoDup(r) /\ Head(q) \notin Range(r)
  <2>1. ASSUME NEW i \in 1..Len(r) PROVE i + 1 \in 1..Len(q) /\ i + 1 # 1 /\ r[i] = q[i+1]
    BY <1>1
  <2>2. \A i \in 1..Len(r) : r[i] # q[1]
    BY <2>1, <1>1, <1>4 DEF NoDup
  <2>3. ASSUME NEW i \in 1..Len(r), NEW j \in 1..Len(r), r[i] = r[j] PROVE i = j
    <3>1. i + 1 \in DOMAIN q /\ j + 1 \in DOMAIN q /\ q[i+1] = q[j+1] BY Zenon, <2>1, <2>3, <1>1
    <3>2. i + 1 = j + 1 BY Zenon, <3>1, <1>4 DEF NoDup
    <3> QED BY <3>2
  <2> QED BY <2>2, <2>3, <1>1 DEF NoDup, Range
<1> QED BY Zenon, <1>1, <1>2, <1>3, <1>4 DEF r

\* retain removes exactly the thread that exited from a queue without duplicates.
LEMMA RetainRange ==
  ASSUME NEW T, NEW q \in Seq(T), NEW t, NoDup(q)
  PROVE  /\ Retain(q, t) \in Seq(T)
         /\ Range(Retain(q, t)) = Range(q) \ {t}
         /\ NoDup(Retain(q, t))
<1>1. CASE t \notin Range(q) BY Zenon, <1>1 DEF Retain
<1>2. CASE t \in Range(q)
  <2> DEFINE i == CHOOSE i \in DOMAIN q : q[i] = t
             a == SubSeq(q, 1, i - 1)
             b == SubSeq(q, i + 1, Len(q))
             r == a \o b
  <2>1. i \in 1..Len(q) /\ q[i] = t /\ Len(q) \in Nat /\ DOMAIN q = 1..Len(q)
    BY Zenon, <1>2, LenIs DEF Range
  <2>2. Retain(q, t) = r BY Zenon, <1>2 DEF Retain
  <2> HIDE DEF i
  <2>3. a \in Seq(T) /\ Len(a) = i - 1 /\ \A k \in 1..(i-1) : a[k] = q[k]
    BY <2>1, CutIs
  <2>4. b \in Seq(T) /\ Len(b) = Len(q) - i /\ \A k \in 1..(Len(q) - i) : b[k] = q[i + k]
    <3>1. i + 1 \in 1..(Len(q) + 1) /\ Len(q) \in i..Len(q) /\ (Len(q) - (i + 1)) + 1 = Len(q) - i
      BY <2>1
    <3>2. /\ b \in Seq(T)
          /\ Len(b) = IF i + 1 <= Len(q) THEN (Len(q) - (i + 1)) + 1 ELSE 0
          /\ \A k \in 1..((Len(q) - (i + 1)) + 1) : b[k] = q[((i + 1) + k) - 1]
      BY <3>1, <2>1, CutIs
    <3> HIDE DEF b
    <3>3. \A k \in 1..(Len(q) - i) : ((i + 1) + k) - 1 = i + k BY <2>1
    <3>4. Len(b) = Len(q) - i
      <4>1. CASE i + 1 <= Len(q) BY Zenon, <4>1, <3>1, <3>2
      <4>2. CASE ~(i + 1 <= Len(q))
        <5>1. i \in Int /\ Len(q) \in Int /\ i <= Len(q) BY <2>1
        <5>2. i = Len(q) BY <4>2, <5>1
        <5>3. Len(q) - i = 0 BY <5>1, <5>2
        <5> QED BY Zenon, <4>2, <5>3, <3>2
      <4> QED BY Zenon, <4>1, <4>2
    <3>5. \A k \in 1..(Len(q) - i) : b[k] = q[((i + 1) + k) - 1] BY Zenon, <3>1, <3>2
    <3> QED BY Zenon, <3>2, <3>3, <3>4, <3>5
  <2> HIDE DEF a, b
  <2>5. /\ r \in Seq(T) /\ Len(r) = Len(q) - 1 /\ DOMAIN r = 1..(Len(q) - 1)
        /\ \A k \in 1..(Len(q) - 1) : r[k] = IF k < i THEN q[k] ELSE q[k + 1]
    <3>1. r \in Seq(T) /\ Len(r) = Len(a) + Len(b)
          /\ \A k \in 1..(Len(a) + Len(b)) : r[k] = IF k <= Len(a) THEN a[k] ELSE b[k - Len(a)]
      BY Zenon, <2>3, <2>4, JoinIs
    <3>2. DOMAIN r = 1..Len(r) BY Zenon, <3>1, LenIs
    <3> HIDE DEF r
    <3>3. ASSUME NEW k \in 1..(Len(q) - 1) PROVE r[k] = IF k < i THEN q[k] ELSE q[k + 1]
      <4>1. CASE k < i
        <5>1. k \in 1..(Len(a) + Len(b)) /\ k <= Len(a) /\ k \in 1..(i - 1)
          BY <4>1, <2>1, <2>3, <2>4
        <5> QED BY Zenon, <4>1, <5>1, <3>1, <2>3
      <4>2. CASE ~(k < i)
        <5>1. k - (i - 1) \in 1..(Len(q) - i) /\ i + (k - (i - 1)) = k + 1 BY <4>2, <2>1
        <5>2. k \in 1..(Len(a) + Len(b)) /\ ~(k <= Len(a)) /\ Len(a) = i - 1
          BY <4>2, <2>1, <2>3, <2>4
        <5>3. r[k] = b[k - (i - 1)] BY Zenon, <5>2, <3>1
        <5> QED BY Zenon, <5>1, <5>3, <4>2, <2>4
      <4> QED BY Zenon, <4>1, <4>2
    <3> QED BY <3>1, <3>2, <3>3, <2>1, <2>3, <2>4
  <2> HIDE DEF r
  <2>6. ASSUME NEW x, x \in Range(r) PROVE x \in Range(q) /\ x # t
    BY <2>1, <2>5, <2>6 DEF Range, NoDup
  <2>7. ASSUME NEW x, x \in Range(q), x # t PROVE x \in Range(r)
    <3> PICK j \in 1..Len(q) : q[j] = x BY Zenon, <2>1, <2>7 DEF Range
    <3>1. j # i BY Zenon, <2>1, <2>7
    <3>2. CASE j < i
      <4>1. j \in 1..(Len(q) - 1) BY <3>2, <2>1
      <4> QED BY Zenon, <4>1, <3>2, <2>5 DEF Range
    <3>3. CASE j > i
      <4>1. j - 1 \in 1..(Len(q) - 1) /\ ~(j - 1 < i) /\ (j - 1) + 1 = j BY <3>3, <2>1
      <4>2. r[j - 1] = x BY Zenon, <4>1, <2>5
      <4> QED BY Zenon, <4>1, <4>2, <2>5 DEF Range
    <3> QED BY <3>1, <3>2, <3>3, <2>1
  <2>8. NoDup(r)
    <3> DEFINE at(k) == IF k < i THEN k ELSE k + 1
    <3>1. ASSUME NEW k \in DOMAIN r PROVE k \in Int /\ at(k) \in DOMAIN q /\ r[k] = q[at(k)]
      BY <3>1, <2>1, <2>5
    <3>2. ASSUME NEW k \in Int, NEW l \in Int, at(k) = at(l) PROVE k = l
      BY <3>2, <2>1
    <3> HIDE DEF at
    <3> QED BY Zenon, <3>1, <3>2 DEF NoDup
  <2> QED BY Zenon, <2>2, <2>5, <2>6, <2>7, <2>8
<1> QED BY Zenon, <1>1, <1>2

-----------------------------------------------------------------------------
(* The inductive strengthening, in layers: each is proved from the ones    *)
(* before it.                                                              *)

Reporting(t, whats) == status # None /\ status.tid = t /\ status.what \in whats

Alive(t) == kern[t] \notin Dead \cup {"gone"}

\* Where run is: a status exists exactly while it is handled, run waits while a
\* thread is registered and preempt for a running one, nothing is queued twice,
\* and a spawn stop names its child.
ControlOK ==
    /\ pc = "handle" => status # None
    /\ Idle => status = None
    /\ pc = "preempt" => running # None
    /\ pc \in {"armed", "wait"} => threads # {}
    /\ NoDup(ready)
    /\ \A t \in Tid : kern[t] \in SpawnStops \/ Reporting(t, SpawnStops) => msg[t] # None

\* What the kernel still says of the thread whose status is being handled.
StatusFits ==
    \A t \in Tid : /\ Reporting(t, Stops) => kern[t] \in {"held"} \cup Dead
                   /\ Reporting(t, Dead) => kern[t] = "gone"

\* Who may do what: only registered threads are queued or running, whatever a
\* registered thread reports it reports as the running one, and a thread that is
\* not registered yet is at its initial stop.
Ownership ==
    /\ running # None => running \in threads
    /\ Range(ready) \subseteq threads
    /\ \A t \in threads :
         /\ kern[t] # "absent"
         /\ kern[t] \in Stops \cup {"run"} => running = t
         /\ Reporting(t, Stops) => running = t
         /\ kern[t] = "gone" => Reporting(t, Dead)
    /\ \A t \in Tid \ threads :
         /\ kern[t] \in {"absent", "sigstop", "held", "gone"} \cup Dead
         /\ kern[t] = "held" => Reporting(t, {"sigstop"})
         /\ Reporting(t, Stops) => Reporting(t, {"sigstop"})

\* Entry and exit stops: pending_enter lags the kernel by the stop that is
\* outstanding.
Outstanding(t, what) == kern[t] = what \/ Reporting(t, {what})

PhaseInv ==
    /\ \A t \in threads : Alive(t) =>
         (t \in pending <=> (IF Outstanding(t, "syscall") THEN phase[t] = "user"
                                                          ELSE phase[t] # "user"))
    /\ \A t \in Tid \ threads : Alive(t) => phase[t] = "user"

SignalInv ==
    /\ \A t \in Tid : Alive(t) =>
         IF Outstanding(t, "signal") THEN t \in owed /\ t \notin resig
                                     ELSE t \in owed <=> t \in resig
    /\ \A t \in Tid : kern[t] = "run" => t \notin resig

Parked(t) == \E c \in Tid : vfork_pending[c] = t

VforkInv ==
    /\ running \notin Range(ready)
    /\ \A t \in threads : kern[t] = "held" =>
         t \in Range(ready) \/ Parked(t) \/ Reporting(t, Stops)
    /\ \A c \in Tid : LET p == vfork_pending[c]
                      IN  p # None => /\ p # running /\ p \notin Range(ready)
                                      /\ p \in threads \/ kern[p] = "gone"
    /\ \A c, d \in Tid : vfork_pending[c] = vfork_pending[d] /\ vfork_pending[c] # None => c = d
    /\ \A t \in Tid : kern[t] = "absent" => vfork_pending[t] = None
    /\ \A t \in threads : kern[t] \in SpawnStops \/ Reporting(t, SpawnStops) =>
         vfork_pending[msg[t]] = None /\ kern[msg[t]] # "absent"

\* A process stands and falls with its first thread, which is the last one to be
\* reaped; a process whose first thread is not registered yet has no other thread
\* and nobody who could end it.
FamilyInv ==
    /\ \A t \in Tid : kern[t] = "absent" => grp[t] = t /\ \A u \in Tid \ {t} : grp[u] # t
    /\ \A t \in Tid : grp[t] # t /\ kern[t] # "gone" =>
         grp[t] \in threads /\ kern[grp[t]] # "gone" /\ grp[grp[t]] = grp[t]
    /\ \A t \in Tid \ threads : grp[t] = t /\ kern[t] # "gone" =>
         kern[t] \in {"absent", "sigstop", "held"} /\ \A u \in Tid \ {t} : grp[u] # t

KilledBySibling(t) == \E u \in Tid \ {t} : grp[u] = grp[t] /\ kern[u] \in Dead \cup {"gone"}

\* A dead thread ended by itself, as the running one and with nothing to be handled
\* of it, or with another thread of its process.
DeathInv ==
    \A t \in Tid : kern[t] \in Dead =>
        (running = t /\ ~Reporting(t, Stops)) \/ KilledBySibling(t)

IInv ==
    /\ TypeOK /\ ControlOK /\ StatusFits /\ Ownership /\ PhaseInv /\ SignalInv /\ VforkInv
    /\ FamilyInv /\ DeathInv

-----------------------------------------------------------------------------
(* Types and control.                                                      *)

\* requeue adds a registered thread, once.
LEMMA RequeueRange ==
  ASSUME NEW q \in Queue, NoDup(q), NEW live, NEW t \in Tid
  PROVE  /\ Requeue(q, live, t) \in Queue
         /\ NoDup(Requeue(q, live, t))
         /\ Range(Requeue(q, live, t)) = Range(q) \cup ({t} \cap live)
BY AppendRange DEF Requeue, Queue

\* A step that delivers a wait status keeps the types: it names a known thread.
LEMMA WaitType ==
  ASSUME TypeOK, ControlOK, NEW t \in Tid, Wait(t)
  PROVE  TypeOK' /\ ControlOK'
<1>1. kern[t] \in Stops \cup Dead
  BY Zenon DEF Wait, Reportable
<1>2. status' = [tid |-> t, what |-> kern[t]] /\ status' \in WaitStatus /\ status' # None
  BY <1>1, ConstantsAssumption DEF Wait, WaitStatus
<1>3. kern' \in [Tid -> KState]
  BY Zenon DEF Wait, TypeOK, KState
<1>4. TypeOK'
  BY Zenon, <1>2, <1>3 DEF Wait, TypeOK, schedVars
<1>5. ControlOK'
  BY <1>1, <1>2 DEF Wait, ControlOK, TypeOK, schedVars, Idle, Reporting, SpawnStops, Stops, Dead
<1> QED BY Zenon, <1>4, <1>5

\* The types and the control facts are inductive together.
LEMMA TypeStep ==
  ASSUME TypeOK, ControlOK, Next
  PROVE  TypeOK' /\ ControlOK'
<1> USE ConstantsAssumption
<1>1. ASSUME NEW t \in Tid, Tracee(t) PROVE TypeOK' /\ ControlOK'
  <2> USE DEF TraceeStep, schedVars, CanAct
  <2>1. CASE TraceeEnter(t)
    BY <2>1 DEF TraceeEnter, TypeOK, ControlOK, KState, Stops, SpawnStops, Reporting, Idle
  <2>2. CASE TraceeLeave(t)
    BY <2>2 DEF TraceeLeave, TypeOK, ControlOK, KState, Stops, SpawnStops, Reporting, Idle
  <2>3. CASE TraceeExec(t)
    BY <2>3 DEF TraceeExec, TypeOK, ControlOK, KState, Stops, SpawnStops, Reporting, Idle
  <2>4. CASE TraceeSignal(t)
    BY <2>4 DEF TraceeSignal, TypeOK, ControlOK, KState, Stops, SpawnStops, Reporting, Idle
  <2>5. CASE TakeStop(t)
    BY <2>5 DEF TakeStop, TypeOK, ControlOK, KState, Stops, SpawnStops, Reporting, Idle
  <2>6. ASSUME NEW D, NEW how \in Dead, Die(D, how) PROVE TypeOK' /\ ControlOK'
    BY <2>6 DEF Die, TypeOK, ControlOK, KState, Dead, SpawnStops, Reporting, Idle
  <2>7. CASE TraceeExit(t)
    BY Zenon, <2>6, <2>7 DEF TraceeExit, Dead
  <2>8. ASSUME NEW how \in Dead, TraceeExitGroup(t, how) PROVE TypeOK' /\ ControlOK'
    BY Zenon, <2>6, <2>8 DEF TraceeExitGroup
  <2>9. ASSUME NEW c \in Tid, NEW how \in SpawnStops, TraceeSpawn(t, c, how)
        PROVE  TypeOK' /\ ControlOK'
    <3>1. TypeOK' BY <2>9 DEF TraceeSpawn, TypeOK, KState, Stops, SpawnStops
    <3>2. ControlOK'
      BY Zenon, <2>9 DEF TraceeSpawn, TypeOK, ControlOK, Stops, SpawnStops, Reporting, Idle
    <3> QED BY Zenon, <3>1, <3>2
  <2> QED BY Zenon, <1>1, <2>1, <2>2, <2>3, <2>4, <2>5, <2>7, <2>8, <2>9 DEF Tracee
<1>2. CASE AlarmMissed
  BY Zenon, <1>2 DEF AlarmMissed, kernelVars, schedVars, TypeOK, ControlOK, Reporting, Idle
<1>3. CASE Terminated
  BY <1>3 DEF Terminated, vars, kernelVars, schedVars, TypeOK, ControlOK, Reporting, Idle
<1>4. CASE Finish
  BY Zenon, <1>4 DEF Finish, kernelVars, schedVars, TypeOK, ControlOK, Reporting, Idle
<1>5. CASE ResumeNext
  <2> DEFINE next == Head(ready)
  <2>1. next \in Tid /\ ready' \in Queue /\ NoDup(ready')
    BY Zenon, <1>5, TailRange DEF ResumeNext, CanResume, TypeOK, ControlOK, Queue
  <2> HIDE DEF next
  <2>2. out' \in Record \cup {None} /\ last_scheduled' \in Tid
    BY <1>5, <2>1 DEF ResumeNext, RecordSchedSwitch, Append1, Record, next
  <2>3. TypeOK'
    BY Zenon, <1>5, <2>1, <2>2 DEF ResumeNext, TypeOK, KState, TakeSignal, next
  <2>4. ControlOK'
    BY <1>5, <2>1 DEF ResumeNext, TypeOK, ControlOK, Reporting, Idle, SpawnStops, next
  <2> QED BY Zenon, <2>3, <2>4
<1>6. CASE ArmOnly
  BY Zenon, <1>6 DEF ArmOnly, kernelVars, schedVars, TypeOK, ControlOK, Reporting, Idle
<1>7. CASE EnterWait
  BY Zenon, <1>7 DEF EnterWait, kernelVars, schedVars, TypeOK, ControlOK, Reporting, Idle
<1>8. CASE WaitAny
  BY Zenon, <1>8, WaitType DEF WaitAny
<1>9. CASE WaitPreempted
  BY Zenon, <1>9, WaitType DEF WaitPreempted, ControlOK, TypeOK
<1>10. CASE Interrupted
  BY SMTT(40), <1>10 DEF Interrupted, schedVars, TypeOK, ControlOK, Reporting, Idle
<1>11. ASSUME pc = "handle" PROVE status \in WaitStatus /\ status.tid \in Tid /\ status.what \in Stops \cup Dead
  BY Zenon, <1>11 DEF ControlOK, TypeOK, WaitStatus
<1>12. CASE Fail
  BY Zenon, <1>12 DEF Fail, kernelVars, schedVars, TypeOK, ControlOK, Reporting, Idle
<1>13. ASSUME Handled, NoDup(ready'), NEW t \in Tid PROVE ControlOK' /\ ClearRunning(t) \in Tid \cup {None}
  BY Zenon, <1>13 DEF Handled, ClearRunning, kernelVars, TypeOK, ControlOK, Reporting, Idle
<1>14. CASE OnSyscall
  <2>1. CASE ~Fail
    <3> DEFINE t == status.tid
    <3>1. t \in Tid BY Zenon, <1>11, <1>14 DEF OnSyscall, Handling
    <3> HIDE DEF t
    <3>2. Handled /\ ready' = Requeue(ready, threads, t) /\ running' = ClearRunning(t)
          /\ pending' = PendingAfter(t)
          /\ out' = [kind |-> IF t \in pending THEN "SyscallExit" ELSE "SyscallEnter", tid |-> t]
          /\ UNCHANGED <<threads, resig, last_scheduled, leader_exit, threads_followed, vfork_pending>>
      BY Zenon, <1>14, <2>1 DEF OnSyscall, Append1, t
    <3>3. out' \in Record BY Zenon, <3>1, <3>2 DEF Record
    <3>4. ready' \in Queue /\ NoDup(ready') BY Zenon, <3>1, <3>2, RequeueRange DEF TypeOK, ControlOK
    <3>5. pending' \subseteq threads BY Zenon, <3>2 DEF PendingAfter, TypeOK
    <3> QED BY Zenon, <1>13, <3>1, <3>2, <3>3, <3>4, <3>5 DEF TypeOK, Handled, kernelVars
  <2> QED BY Zenon, <1>12, <2>1
<1>15. CASE OnSpawn
  <2>1. CASE ~Fail
    <3> DEFINE t == status.tid
    <3>1. t \in Tid /\ msg[t] \in Tid
      BY Zenon, <1>11, <1>15 DEF OnSpawn, Handling, ControlOK, Reporting, TypeOK
    <3> HIDE DEF t
    <3>2. Handled /\ running' = ClearRunning(t)
          /\ ready' = ReadyAfterSpawn(status.what, t)
          /\ vfork_pending' \in {vfork_pending, [vfork_pending EXCEPT ![msg[t]] = t]}
          /\ out' = [kind |-> "ThreadSpawn", tid |-> t, child |-> msg[t]]
          /\ UNCHANGED <<threads, pending, resig, last_scheduled, leader_exit, threads_followed>>
      BY Zenon, <1>15, <2>1 DEF OnSpawn, t
    <3>3. out' \in Record BY Zenon, <3>1, <3>2 DEF Record
    <3>4. ready' \in Queue /\ NoDup(ready') BY Zenon, <3>1, <3>2, RequeueRange DEF TypeOK, ControlOK, ReadyAfterSpawn
    <3>5. vfork_pending' \in [Tid -> Tid \cup {None}] BY <3>1, <3>2 DEF TypeOK
    <3> QED BY Zenon, <1>13, <3>1, <3>2, <3>3, <3>4, <3>5 DEF TypeOK, Handled, kernelVars
  <2> QED BY Zenon, <1>12, <2>1
<1>16. CASE OnOtherEvent
  <2>1. status.tid \in Tid BY Zenon, <1>11, <1>16 DEF OnOtherEvent, Handling
  <2>2. ready' \in Queue /\ NoDup(ready') BY Zenon, <1>16, <2>1, RequeueRange DEF OnOtherEvent, TypeOK, ControlOK
  <2> QED BY Zenon, <1>13, <1>16, <2>1, <2>2 DEF OnOtherEvent, TypeOK, Handled, kernelVars
<1>17. CASE OnNewThread
  <2>1. CASE ~Fail
    <3>1. status.tid \in Tid BY Zenon, <1>11, <1>17 DEF OnNewThread, Handling
    <3>2. ready' \in Queue /\ NoDup(ready') BY <1>17, <2>1, <3>1, RequeueRange DEF OnNewThread, TypeOK, ControlOK
    <3>3. /\ Handled /\ out' = None
          /\ threads' = threads \cup {status.tid}
          /\ threads_followed' = threads_followed + 1
          /\ UNCHANGED <<pending, resig, running, last_scheduled, leader_exit, vfork_pending>>
      BY Zenon, <1>17, <2>1 DEF OnNewThread
    <3>4. ControlOK' BY Zenon, <1>13, <3>1, <3>2, <3>3
    <3> QED BY SMTT(40), <3>1, <3>2, <3>3, <3>4 DEF TypeOK, Handled, kernelVars
  <2> QED BY Zenon, <1>12, <2>1
<1>18. CASE OnStopped
  <2>1. status.tid \in Tid BY Zenon, <1>11, <1>18 DEF OnStopped, Handling
  <2>2. ready' \in Queue /\ NoDup(ready') BY Zenon, <1>18, <2>1, RequeueRange DEF OnStopped, TypeOK, ControlOK
  <2>3. out' \in Record \cup {None} BY <1>18, <2>1 DEF OnStopped, Append1, Record
  <2>4. resig' \subseteq threads BY Zenon, <1>18 DEF OnStopped, TypeOK
  <2> QED BY Zenon, <1>13, <1>18, <2>1, <2>2, <2>3, <2>4 DEF OnStopped, TypeOK, Handled, kernelVars
<1>19. CASE OnExit
  <2> DEFINE t == status.tid
             left == Retain(ready, t)
  <2>1. t \in Tid BY Zenon, <1>11, <1>19 DEF OnExit, Handling
  <2>2. left \in Queue /\ NoDup(left) BY Zenon, <2>1, RetainRange DEF TypeOK, ControlOK, Queue
  <2>3. vfork_pending[t] \in Tid \cup {None} BY Zenon, <2>1 DEF TypeOK
  <2> HIDE DEF t, left
  <2>4. ready' = Release(left, threads', vfork_pending[t]) BY Zenon, <1>19 DEF OnExit, t, left
  <2>5. ready' \in Queue /\ NoDup(ready') BY Zenon, <2>2, <2>3, <2>4, RequeueRange DEF Release
  <2>6. out' \in Record \cup {None} BY <1>19, <2>1 DEF OnExit, Append1, Record, t
  <2>7. pending' \subseteq threads' /\ resig' \subseteq threads' /\ threads' \subseteq Tid
    BY Zenon, <1>19 DEF OnExit, Forget, TypeOK
  <2>8. leader_exit' \in {"code", None} BY Zenon, <1>19 DEF OnExit, ExitCode, TypeOK
  <2> QED BY Zenon, <1>13, <1>19, <2>1, <2>5, <2>6, <2>7, <2>8 DEF OnExit, TypeOK, Handled, kernelVars, t
<1> QED
  BY Zenon, <1>1, <1>2, <1>3, <1>4, <1>5, <1>6, <1>7, <1>8, <1>9, <1>10, <1>14, <1>15, <1>16,
     <1>17, <1>18, <1>19 DEF Next, Step, Run, Handle

-----------------------------------------------------------------------------
(* What a step can do, in the form the later layers use it.                *)

Base == TypeOK /\ ControlOK

\* One thread moves by itself, to a stop of its own.
SelfStop(t) ==
    /\ kern[t] = "run" /\ kern'[t] \in Stops
    /\ \A u \in Tid \ {t} : kern'[u] = kern[u] \/ (kern[u] = "absent" /\ kern'[u] = "sigstop")

\* Threads die, the running one among them.
Deaths == \A u \in Tid : kern'[u] = kern[u] \/ (kern[u] \notin {"absent", "gone"} /\ kern'[u] \in Dead)

\* Whatever the traced program does, it stops one running thread or kills some.
LEMMA TraceeEffect ==
  ASSUME Base, NEW t \in Tid, Tracee(t)
  PROVE  /\ SelfStop(t) \/ Deaths
         /\ UNCHANGED <<pc, status, schedVars>>
<1> USE DEF Base, TypeOK, TraceeStep, CanAct, Stops, SpawnStops
<1>1. CASE TraceeEnter(t) BY Zenon, <1>1 DEF TraceeEnter, SelfStop
<1>2. CASE TraceeLeave(t) BY Zenon, <1>2 DEF TraceeLeave, SelfStop
<1>3. CASE TraceeExec(t) BY Zenon, <1>3 DEF TraceeExec, SelfStop
<1>4. CASE TraceeSignal(t) BY Zenon, <1>4 DEF TraceeSignal, SelfStop
<1>5. CASE TakeStop(t) BY Zenon, <1>5 DEF TakeStop, SelfStop
<1>6. CASE TraceeExit(t) BY Zenon, <1>6 DEF TraceeExit, Die, Deaths, Dead
<1>7. ASSUME NEW how \in Dead, TraceeExitGroup(t, how)
      PROVE Deaths /\ UNCHANGED <<pc, status, schedVars>>
  BY Zenon, <1>7 DEF TraceeExitGroup, Die, Deaths, Dead, Siblings
<1>8. ASSUME NEW c \in Tid, NEW how \in SpawnStops, TraceeSpawn(t, c, how)
      PROVE SelfStop(t) /\ UNCHANGED <<pc, status, schedVars>>
  BY Zenon, <1>8 DEF TraceeSpawn, SelfStop
<1> QED BY Zenon, <1>1, <1>2, <1>3, <1>4, <1>5, <1>6, <1>7, <1>8 DEF Tracee

\* A thread spawns another, ends alone or with its process, or stops in its process.
LEMMA TraceeCases ==
  ASSUME Base, NEW t \in Tid, Tracee(t)
  PROVE  \/ \E c \in Tid, how \in SpawnStops : TraceeSpawn(t, c, how)
         \/ \E how \in Dead, D \in SUBSET Tid :
               Die(D, how) /\ kern[t] = "run" /\ t \in D /\ D \subseteq Siblings(t) \cup {t}
         \/ grp' = grp /\ SelfStop(t) /\ \A u \in Tid \ {t} : kern'[u] = kern[u]
<1> USE DEF Base, TypeOK, CanAct, Stops, SpawnStops
<1>1. CASE TraceeEnter(t) BY Zenon, <1>1 DEF TraceeEnter, SelfStop
<1>2. CASE TraceeLeave(t) BY Zenon, <1>2 DEF TraceeLeave, SelfStop
<1>3. CASE TraceeExec(t) BY Zenon, <1>3 DEF TraceeExec, SelfStop
<1>4. CASE TraceeSignal(t) BY Zenon, <1>4 DEF TraceeSignal, SelfStop
<1>5. CASE TakeStop(t) BY Zenon, <1>5 DEF TakeStop, SelfStop
<1>6. CASE TraceeExit(t) BY Zenon, <1>6 DEF TraceeExit, Dead
<1>7. ASSUME NEW how \in Dead, TraceeExitGroup(t, how)
      PROVE  LET D == Siblings(t) \cup {t}
             IN  D \in SUBSET Tid /\ Die(D, how) /\ kern[t] = "run"
  BY Zenon, <1>7 DEF TraceeExitGroup, Siblings
<1> QED BY Zenon, <1>1, <1>2, <1>3, <1>4, <1>5, <1>6, <1>7 DEF Tracee

\* The recorder moves no thread to another process.
LEMMA RunGroups ==
  ASSUME Run
  PROVE  grp' = grp
<1> USE DEF kernelVars
<1>1. CASE Handle
  BY Zenon, <1>1 DEF Handle, OnSyscall, OnSpawn, OnOtherEvent, OnNewThread, OnStopped, OnExit, Handled, Fail
<1> QED
  BY Zenon, <1>1 DEF Run, Finish, ResumeNext, ArmOnly, EnterWait, WaitAny, WaitPreempted, Wait, Interrupted

\* Steps of the recorder that touch neither a thread nor a queue.
Quiet == UNCHANGED <<kern, phase, msg, owed, status, schedVars>>

\* A handler that did not fail: it consumes the status and leaves the kernel.
HandleOK == pc = "handle" /\ Handle /\ Handled

\* Every step of run is a quiet one, a wait, a resumption or a handler.
LEMMA RunEffect ==
  ASSUME Base, Run
  PROVE  \/ Quiet
         \/ \E t \in Tid : Wait(t) /\ Idle
         \/ ResumeNext
         \/ HandleOK
<1> USE DEF kernelVars, schedVars
<1>1. CASE Finish BY Zenon, <1>1 DEF Finish, Quiet
<1>2. CASE ArmOnly BY Zenon, <1>2 DEF ArmOnly, Quiet
<1>3. CASE EnterWait BY Zenon, <1>3 DEF EnterWait, Quiet
<1>4. CASE Interrupted BY Zenon, <1>4 DEF Interrupted, Quiet
<1>5. CASE WaitAny BY Zenon, <1>5 DEF WaitAny, Idle
<1>6. CASE WaitPreempted BY Zenon, <1>6 DEF WaitPreempted, Base, ControlOK, TypeOK, Idle
<1>7. CASE Fail BY Zenon, <1>7 DEF Fail, Quiet
<1>8. CASE Handle /\ ~Fail
  BY Zenon, <1>8 DEF HandleOK, Handle, OnSyscall, OnSpawn, OnOtherEvent, OnNewThread, OnStopped,
              OnExit, Handling
<1> QED BY Zenon, <1>1, <1>2, <1>3, <1>4, <1>5, <1>6, <1>7, <1>8 DEF Run

-----------------------------------------------------------------------------
\* The status being handled stays what the kernel knows of its thread.
LEMMA StatusStep ==
  ASSUME Base, StatusFits, Next
  PROVE  StatusFits'
<1> USE DEF Reporting
<1>1. ASSUME NEW t \in Tid, Tracee(t) PROVE StatusFits'
  BY Zenon, <1>1, TraceeEffect DEF SelfStop, Deaths, StatusFits, Dead
<1>2. CASE AlarmMissed \/ Terminated \/ Quiet
  BY Zenon, <1>2 DEF AlarmMissed, Terminated, vars, kernelVars, Quiet, StatusFits
<1>3. ASSUME NEW t \in Tid, Wait(t) PROVE StatusFits'
  BY Zenon, <1>3 DEF Wait, Reportable, StatusFits, Base, TypeOK, Stops, SpawnStops, Dead
<1>4. CASE ResumeNext
  BY Zenon, <1>4 DEF ResumeNext, Base, ControlOK, Idle, StatusFits
<1>5. CASE HandleOK
  BY Zenon, <1>5 DEF HandleOK, Handled, StatusFits
<1> QED BY Zenon, <1>1, <1>2, <1>3, <1>4, <1>5, RunEffect DEF Next, Step

\* What the handlers do to the scheduler's own state: all but on_exit keep or
\* extend the registered set; each clears the running slot of its thread.
LEMMA HandleEffect ==
  ASSUME Base, Ownership, HandleOK
  PROVE  LET t == status.tid
             what == status.what
         IN  /\ t \in Tid /\ status # None /\ status' = None /\ UNCHANGED <<kern, phase, msg, owed>>
             /\ \/ /\ what \in Stops /\ t \in threads /\ threads' = threads
                   /\ running' = ClearRunning(t)
                   /\ pending' = (IF what = "syscall" THEN PendingAfter(t) ELSE pending)
                   /\ resig' = (IF what = "signal" THEN resig \cup {t} ELSE resig)
                   /\ \/ what # "vfork" /\ Range(ready') = Range(ready) \cup {t}
                                       /\ vfork_pending' = vfork_pending
                      \/ what = "vfork" /\ ready' = ready
                                       /\ vfork_pending' = [vfork_pending EXCEPT ![msg[t]] = t]
                \/ /\ what \in {"sigstop", "signal"} /\ t \notin threads /\ kern[t] = "held"
                   /\ threads' = threads \cup {t} /\ running' = running
                   /\ Range(ready') = Range(ready) \cup {t}
                   /\ UNCHANGED <<vfork_pending, pending, resig>>
                \/ /\ what \in Dead /\ threads' = threads \ {t}
                   /\ pending' = pending \ {t} /\ resig' = resig \ {t}
                   /\ running' = ClearRunning(t)
                   /\ Range(ready') = (Range(ready) \ {t}) \cup ({vfork_pending[t]} \cap threads')
                   /\ vfork_pending' = [vfork_pending EXCEPT ![t] = None]
<1> USE ConstantsAssumption
<1> DEFINE t == status.tid
           what == status.what
<1>1. t \in Tid /\ status # None /\ what \in Stops \cup Dead
  BY Zenon DEF HandleOK, Base, ControlOK, TypeOK, WaitStatus
<1>2. status' = None /\ UNCHANGED <<kern, phase, msg, owed>> /\ pc = "handle"
  BY Zenon DEF HandleOK, Handled, kernelVars
<1>3. what \in Stops \ {"sigstop"} => t \in threads
  BY Zenon, <1>1 DEF Ownership, Reporting
<1>4. ready \in Queue /\ NoDup(ready) /\ ready \in Seq(Tid) /\ vfork_pending[t] \in Tid \cup {None}
  BY Zenon, <1>1 DEF Base, TypeOK, ControlOK, Queue
<1>5. ~Fail
  BY Zenon DEF HandleOK, Handled, Fail
<1> HIDE DEF t, what
<1>6. CASE OnSyscall
  <2>1. ready' = Requeue(ready, threads, t) /\ threads' = threads /\ running' = ClearRunning(t)
        /\ vfork_pending' = vfork_pending /\ what = "syscall"
        /\ pending' = PendingAfter(t) /\ resig' = resig
    BY Zenon, <1>5, <1>6 DEF OnSyscall, Handling, t, what
  <2>2. t \in threads /\ what \in Stops BY Zenon, <2>1, <1>3 DEF Stops
  <2> QED BY <1>1, <1>2, <1>4, <2>1, <2>2, RequeueRange DEF t, what
<1>7. CASE OnSpawn
  <2>1. ready' = ReadyAfterSpawn(what, t) /\ threads' = threads /\ running' = ClearRunning(t)
        /\ vfork_pending' = (IF what = "vfork" THEN [vfork_pending EXCEPT ![msg[t]] = t] ELSE vfork_pending)
        /\ what \in SpawnStops /\ UNCHANGED <<pending, resig>>
    BY Zenon, <1>5, <1>7 DEF OnSpawn, Handling, t, what
  <2>2. t \in threads /\ what \in Stops BY Zenon, <2>1, <1>3 DEF Stops, SpawnStops
  <2>3. CASE what = "vfork"
    BY Zenon, <1>1, <1>2, <2>1, <2>2, <2>3 DEF t, what, ReadyAfterSpawn
  <2>4. CASE what # "vfork"
    BY <1>1, <1>2, <1>4, <2>1, <2>2, <2>4, RequeueRange DEF t, what, ReadyAfterSpawn, SpawnStops
  <2> QED BY Zenon, <2>3, <2>4
<1>8. CASE OnOtherEvent
  <2>1. ready' = Requeue(ready, threads, t) /\ threads' = threads /\ running' = ClearRunning(t)
        /\ vfork_pending' = vfork_pending /\ what = "exec" /\ UNCHANGED <<pending, resig>>
    BY Zenon, <1>8 DEF OnOtherEvent, Handling, t, what
  <2>2. t \in threads /\ what \in Stops BY Zenon, <2>1, <1>3 DEF Stops
  <2> QED BY SMTT(40), <1>1, <1>2, <1>4, <2>1, <2>2, RequeueRange DEF t, what
<1>9. CASE OnStopped
  <2>1. ready' = Requeue(ready, threads, t) /\ threads' = threads /\ running' = ClearRunning(t)
        /\ vfork_pending' = vfork_pending /\ what \in {"sigstop", "signal"} /\ t \in threads
        /\ pending' = pending /\ resig' = (IF what = "signal" THEN resig \cup {t} ELSE resig)
    BY Zenon, <1>9 DEF OnStopped, Handling, t, what
  <2>2. what \in Stops /\ what # "vfork" BY Zenon, <2>1 DEF Stops
  <2> QED BY SMTT(40), <1>1, <1>2, <1>4, <2>1, <2>2, RequeueRange DEF t, what
<1>10. CASE OnNewThread
  <2>1. ready' = Requeue(ready, threads', t) /\ threads' = threads \cup {t} /\ running' = running
        /\ UNCHANGED <<vfork_pending, pending, resig>> /\ what \in {"sigstop", "signal"}
        /\ t \notin threads /\ kern[t] = "held"
    BY Zenon, <1>5, <1>10 DEF OnNewThread, Handling, t, what
  <2>2. Range(ready') = Range(ready) \cup {t} BY SMTT(40), <1>1, <1>4, <2>1, RequeueRange
  <2> QED BY Zenon, <1>1, <1>2, <2>1, <2>2 DEF t, what
<1>11. CASE OnExit
  <2>1. what \in Dead /\ threads' = threads \ {t} /\ running' = ClearRunning(t)
        /\ pending' = pending \ {t} /\ resig' = resig \ {t}
        /\ vfork_pending' = [vfork_pending EXCEPT ![t] = None]
        /\ ready' = Release(Retain(ready, t), threads', vfork_pending[t])
    BY Zenon, <1>11 DEF OnExit, Handling, Forget, t, what
  <2>2. Retain(ready, t) \in Queue /\ NoDup(Retain(ready, t)) /\ Range(Retain(ready, t)) = Range(ready) \ {t}
    BY Zenon, <1>4, RetainRange DEF Queue
  <2>3. threads' \subseteq Tid BY Zenon, <2>1 DEF Base, TypeOK
  <2>4. Range(ready') = (Range(ready) \ {t}) \cup ({vfork_pending[t]} \cap threads')
    BY <1>4, <2>1, <2>2, <2>3, RequeueRange DEF Release
  <2> QED BY Zenon, <1>1, <1>2, <2>1, <2>4 DEF t, what
<1> QED BY Zenon, <1>6, <1>7, <1>8, <1>9, <1>10, <1>11 DEF HandleOK, Handle

\* waitpid turns the reported thread's stop into a held thread with a status.
LEMMA WaitEffect ==
  ASSUME Base, NEW t \in Tid, Wait(t), Idle
  PROVE  /\ UNCHANGED <<phase, msg, owed, threads, pending, resig, ready, running, vfork_pending>>
         /\ status = None /\ status' # None /\ status'.tid = t /\ status'.what = kern[t]
         /\ kern[t] \in Stops \cup Dead
         /\ kern'[t] = IF kern[t] \in Dead THEN "gone" ELSE "held"
         /\ \A u \in Tid \ {t} : kern'[u] = kern[u]
<1>1. status' # None BY Zenon, WaitType DEF Base, ControlOK, Wait
<1> QED BY Zenon, <1>1 DEF Wait, Reportable, schedVars, Base, ControlOK, TypeOK

\* resume_next takes the first queued thread, which the kernel then runs unless it
\* has died.
LEMMA ResumeEffect ==
  ASSUME Base, Ownership, ResumeNext
  PROVE  \E t \in threads :
            /\ Range(ready) = Range(ready') \cup {t} /\ t \notin Range(ready')
            /\ status = None /\ status' = None /\ running = None
            /\ UNCHANGED <<phase, msg, threads, pending, vfork_pending, threads_followed>>
            /\ last_scheduled' = t
            /\ out' = IF last_scheduled = t THEN None ELSE [kind |-> "SchedSwitch", tid |-> t]
            /\ resig' = resig \ {t}
            /\ \A u \in Tid \ {t} : kern'[u] = kern[u]
            /\ \/ /\ kern[t] = "held" /\ kern'[t] = "run" /\ running' = t
                  /\ owed' = IF t \in resig THEN owed \ {t} ELSE owed
               \/ /\ kern[t] \in Dead /\ UNCHANGED <<kern, owed, running>>
<1> USE ConstantsAssumption
<1> DEFINE t == Head(ready)
<1>1. t \in Tid /\ Range(ready) = Range(ready') \cup {t} /\ t \notin Range(ready')
  BY Zenon, TailRange DEF ResumeNext, CanResume, Base, TypeOK, ControlOK, Queue
<1>2. status = None /\ status' = None /\ running = None
  BY Zenon DEF ResumeNext, CanResume, Base, ControlOK, Idle
<1>3. t \in threads BY Zenon, <1>1 DEF Ownership
<1> HIDE DEF t
<1>4. kern[t] \in {"held"} \cup Dead
  BY Zenon, <1>1, <1>2, <1>3 DEF Ownership, Reporting, Base, TypeOK, KState
<1>5. /\ UNCHANGED <<phase, msg, threads, pending, vfork_pending, threads_followed>>
      /\ last_scheduled' = t
      /\ out' = IF last_scheduled = t THEN None ELSE [kind |-> "SchedSwitch", tid |-> t]
      /\ resig' = resig \ {t}
      /\ \/ /\ kern[t] = "held" /\ kern' = [kern EXCEPT ![t] = "run"] /\ running' = t
            /\ owed' = IF t \in resig THEN owed \ {t} ELSE owed
         \/ /\ kern[t] # "held" /\ UNCHANGED <<kern, owed, running>>
  BY Zenon DEF ResumeNext, TakeSignal, RecordSchedSwitch, Append1, t
<1>6. kern \in [Tid -> KState] BY Zenon DEF Base, TypeOK
<1> QED BY Zenon, <1>1, <1>2, <1>3, <1>4, <1>5, <1>6

-----------------------------------------------------------------------------
(* Each layer is preserved.                                                *)

\* Only registered threads are queued or run, and they report as the running one.
LEMMA OwnershipStep ==
  ASSUME Base, StatusFits, Ownership, Next
  PROVE  Ownership'
<1> USE ConstantsAssumption DEF Reporting
<1>1. ASSUME NEW t \in Tid, Tracee(t) PROVE Ownership'
  <2>1. UNCHANGED <<status, threads, ready, running>> /\ threads \subseteq Tid
    BY Zenon, <1>1, TraceeEffect DEF schedVars, Base, TypeOK
  <2>2. CASE SelfStop(t)
    BY <2>1, <2>2 DEF SelfStop, Ownership, Dead, Stops, SpawnStops
  <2>3. CASE Deaths
    BY <2>1, <2>3 DEF Deaths, Ownership, Dead, Stops, SpawnStops
  <2> QED BY Zenon, <1>1, <2>2, <2>3, TraceeEffect
<1>2. CASE AlarmMissed \/ Terminated \/ Quiet
  BY Zenon, <1>2 DEF AlarmMissed, Terminated, vars, kernelVars, schedVars, Quiet, Ownership
<1>3. ASSUME NEW t \in Tid, Wait(t), Idle PROVE Ownership'
  BY <1>3, WaitEffect DEF Ownership, Base, TypeOK, Stops, SpawnStops, Dead
<1>4. CASE ResumeNext
  BY <1>4, ResumeEffect DEF Ownership, Base, TypeOK, Stops, SpawnStops, Dead
<1>5. CASE HandleOK
  BY <1>5, HandleEffect DEF Ownership, StatusFits, ClearRunning, Stops, SpawnStops, Dead, Base, TypeOK
<1> QED BY Zenon, <1>1, <1>2, <1>3, <1>4, <1>5, RunEffect DEF Next, Step

\* A thread the kernel runs is registered and has nothing outstanding.
LEMMA RunnerIsClear ==
  ASSUME Base, StatusFits, Ownership, NEW t \in Tid, kern[t] = "run"
  PROVE  t \in threads /\ running = t /\ \A whats : whats \subseteq Stops \cup Dead => ~Reporting(t, whats)
<1>1. t \in threads /\ running = t BY Zenon DEF Ownership, Dead
<1>2. ~Reporting(t, Stops) /\ ~Reporting(t, Dead) BY Zenon DEF StatusFits, Dead
<1> QED BY Zenon, <1>1, <1>2 DEF Reporting

\* pending_enter keeps lagging the kernel by exactly the outstanding stop.
LEMMA PhaseStep ==
  ASSUME Base, StatusFits, Ownership, PhaseInv, Next
  PROVE  PhaseInv'
<1> USE ConstantsAssumption DEF Outstanding, Alive
<1>0. threads \subseteq Tid /\ pending \subseteq threads /\ kern \in [Tid -> KState]
      /\ phase \in [Tid -> {"user", "call", "ret"}]
  BY Zenon DEF Base, TypeOK
<1>1. ASSUME NEW t \in Tid, Tracee(t) PROVE PhaseInv'
  <2>1. UNCHANGED <<status, threads, pending>>
    BY Zenon, <1>1, TraceeEffect DEF schedVars
  <2>2. kern[t] = "run" => t \in threads /\ ~Reporting(t, {"syscall"})
    BY Zenon, RunnerIsClear DEF Stops
  <2>3. ASSUME NEW D, NEW how \in Dead, Die(D, how) PROVE PhaseInv'
    BY Zenon, <1>0, <2>1, <2>3 DEF Die, PhaseInv, Dead, Reporting
  <2>4. ASSUME NEW c \in Tid, NEW how \in SpawnStops, TraceeSpawn(t, c, how) PROVE PhaseInv'
    <3>1. kern[t] = "run" BY Zenon, <2>4 DEF TraceeSpawn, CanAct
    <3>2. t \in threads /\ ~Reporting(t, {"syscall"}) BY Zenon, <3>1, RunnerIsClear DEF Stops
    <3>3. c \notin threads /\ phase[c] = "user" /\ c # t
      BY Zenon, <2>4, <3>1 DEF TraceeSpawn, Ownership, PhaseInv, Dead
    <3>4. kern' = [kern EXCEPT ![t] = how, ![c] = "sigstop"] /\ phase' = [phase EXCEPT ![t] = "ret"]
          /\ phase[t] = "call"
      BY Zenon, <2>4 DEF TraceeSpawn
    <3> QED BY <1>0, <2>1, <3>1, <3>2, <3>3, <3>4 DEF PhaseInv, SpawnStops, Dead, Reporting
  <2> USE DEF CanAct
  <2>5. CASE TraceeEnter(t)
    BY <1>0, <2>1, <2>2, <2>5 DEF TraceeEnter, PhaseInv, Dead, Reporting
  <2>6. CASE TraceeLeave(t)
    BY <1>0, <2>1, <2>2, <2>6 DEF TraceeLeave, PhaseInv, Dead, Reporting
  <2>7. CASE TraceeExec(t)
    BY Zenon, <1>0, <2>1, <2>2, <2>7 DEF TraceeExec, PhaseInv, Dead, Reporting
  <2>8. CASE TraceeSignal(t)
    BY Zenon, <1>0, <2>1, <2>2, <2>8 DEF TraceeSignal, PhaseInv, Dead, Reporting
  <2>9. CASE TakeStop(t)
    BY Zenon, <1>0, <2>1, <2>2, <2>9 DEF TakeStop, PhaseInv, Dead, Reporting
  <2>10. CASE TraceeExit(t) BY Zenon, <2>3, <2>10 DEF TraceeExit, Dead
  <2>11. ASSUME NEW how \in Dead, TraceeExitGroup(t, how) PROVE PhaseInv'
    BY Zenon, <2>3, <2>11 DEF TraceeExitGroup
  <2> QED BY Zenon, <1>1, <2>4, <2>5, <2>6, <2>7, <2>8, <2>9, <2>10, <2>11 DEF Tracee
<1>2. CASE AlarmMissed \/ Terminated \/ Quiet
  BY Zenon, <1>2 DEF AlarmMissed, Terminated, vars, kernelVars, schedVars, Quiet, PhaseInv, Reporting
<1>3. ASSUME NEW t \in Tid, Wait(t), Idle PROVE PhaseInv'
  BY <1>0, <1>3, WaitEffect DEF PhaseInv, Stops, SpawnStops, Dead, Reporting
<1>4. CASE ResumeNext
  BY Zenon, <1>0, <1>4, ResumeEffect DEF PhaseInv, Dead, Reporting
<1>5. CASE HandleOK
  BY <1>0, <1>5, HandleEffect DEF PhaseInv, StatusFits, PendingAfter, Stops, SpawnStops, Dead, Reporting
<1> QED BY Zenon, <1>1, <1>2, <1>3, <1>4, <1>5, RunEffect DEF Next, Step

\* resume_signal keeps holding exactly the signals that are owed.
LEMMA SignalStep ==
  ASSUME Base, StatusFits, Ownership, SignalInv, Next
  PROVE  SignalInv'
<1> USE ConstantsAssumption DEF Outstanding, Alive
<1>0. threads \subseteq Tid /\ resig \subseteq threads /\ kern \in [Tid -> KState] /\ owed \subseteq Tid
  BY Zenon DEF Base, TypeOK
<1>1. ASSUME NEW t \in Tid, Tracee(t) PROVE SignalInv'
  <2>1. UNCHANGED <<status, resig>>
    BY Zenon, <1>1, TraceeEffect DEF schedVars
  <2>2. kern[t] = "run" => ~Reporting(t, {"signal"})
    BY Zenon, RunnerIsClear DEF Stops
  <2>3. ASSUME NEW D, NEW how \in Dead, Die(D, how) PROVE SignalInv'
    BY Zenon, <1>0, <2>1, <2>3 DEF Die, SignalInv, Dead, Reporting
  <2>4. ASSUME NEW c \in Tid, NEW how \in SpawnStops, TraceeSpawn(t, c, how) PROVE SignalInv'
    <3>1. kern[t] = "run" BY Zenon, <2>4 DEF TraceeSpawn, CanAct
    <3>2. ~Reporting(t, {"signal"}) BY Zenon, <3>1, RunnerIsClear DEF Stops
    <3>3. kern[c] = "absent" /\ kern' = [kern EXCEPT ![t] = how, ![c] = "sigstop"] /\ owed' = owed
      BY Zenon, <2>4 DEF TraceeSpawn
    <3> QED BY Zenon, <1>0, <2>1, <3>1, <3>2, <3>3 DEF SignalInv, SpawnStops, Dead, Reporting
  <2> USE DEF CanAct
  <2>5. CASE TraceeEnter(t)
    BY Zenon, <1>0, <2>1, <2>2, <2>5 DEF TraceeEnter, SignalInv, Dead, Reporting
  <2>6. CASE TraceeLeave(t)
    BY Zenon, <1>0, <2>1, <2>2, <2>6 DEF TraceeLeave, SignalInv, Dead, Reporting
  <2>7. CASE TraceeExec(t)
    BY Zenon, <1>0, <2>1, <2>2, <2>7 DEF TraceeExec, SignalInv, Dead, Reporting
  <2>8. CASE TraceeSignal(t)
    BY Zenon, <1>0, <2>1, <2>2, <2>8 DEF TraceeSignal, SignalInv, Dead, Reporting
  <2>9. CASE TakeStop(t)
    BY Zenon, <1>0, <2>1, <2>2, <2>9 DEF TakeStop, SignalInv, Dead, Reporting
  <2>10. CASE TraceeExit(t) BY Zenon, <2>3, <2>10 DEF TraceeExit, Dead
  <2>11. ASSUME NEW how \in Dead, TraceeExitGroup(t, how) PROVE SignalInv'
    BY Zenon, <2>3, <2>11 DEF TraceeExitGroup
  <2> QED BY Zenon, <1>1, <2>4, <2>5, <2>6, <2>7, <2>8, <2>9, <2>10, <2>11 DEF Tracee
<1>2. CASE AlarmMissed \/ Terminated \/ Quiet
  BY Zenon, <1>2 DEF AlarmMissed, Terminated, vars, kernelVars, schedVars, Quiet, SignalInv, Reporting
<1>3. ASSUME NEW t \in Tid, Wait(t), Idle PROVE SignalInv'
  BY <1>0, <1>3, WaitEffect DEF SignalInv, Stops, SpawnStops, Dead, Reporting
<1>4. CASE ResumeNext
  BY Zenon, <1>0, <1>4, ResumeEffect DEF SignalInv, Dead, Reporting
<1>5. CASE HandleOK
  BY ZenonT(30), <1>0, <1>5, HandleEffect DEF SignalInv, StatusFits, Ownership, Stops, SpawnStops, Dead, Reporting
<1> QED BY Zenon, <1>1, <1>2, <1>3, <1>4, <1>5, RunEffect DEF Next, Step

\* A held thread stays accounted for and a vfork parent stays parked.
LEMMA VforkStep ==
  ASSUME Base, Base', StatusFits, Ownership, Ownership', VforkInv, Next
  PROVE  VforkInv'
<1> USE ConstantsAssumption
<1>0. /\ threads \subseteq Tid /\ kern \in [Tid -> KState] /\ running \in Tid \cup {None}
      /\ vfork_pending \in [Tid -> Tid \cup {None}] /\ msg \in [Tid -> Tid \cup {None}]
      /\ \A t \in Tid : kern[t] \in SpawnStops \/ Reporting(t, SpawnStops) => msg[t] \in Tid
  BY Zenon DEF Base, TypeOK, ControlOK
<1>1. ASSUME NEW t \in Tid, Tracee(t) PROVE VforkInv'
  <2>1. UNCHANGED <<status, threads, ready, running, vfork_pending>>
    BY Zenon, <1>1, TraceeEffect DEF schedVars
  <2>2. CASE msg' = msg /\ kern[t] = "run" /\ kern'[t] \in Stops \ SpawnStops
             /\ \A u \in Tid \ {t} : kern'[u] = kern[u]
    BY <1>0, <2>1, <2>2 DEF VforkInv, Parked, Reporting, Stops, SpawnStops
  <2>3. ASSUME NEW D, NEW how \in Dead, Die(D, how), Deaths PROVE VforkInv'
    BY <1>0, <2>1, <2>3 DEF Die, Deaths, VforkInv, Parked, Dead, SpawnStops, Reporting
  <2>4. ASSUME NEW c \in Tid, NEW how \in SpawnStops, TraceeSpawn(t, c, how) PROVE VforkInv'
    <3>1. kern[t] = "run" /\ kern[c] = "absent" /\ vfork_pending[c] = None
      BY Zenon, <2>4 DEF TraceeSpawn, CanAct, VforkInv
    <3>2. kern' = [kern EXCEPT ![t] = how, ![c] = "sigstop"] /\ msg' = [msg EXCEPT ![t] = c]
      BY Zenon, <2>4 DEF TraceeSpawn
    <3>3. c # t /\ c \notin threads BY Zenon, <3>1, <1>0 DEF Ownership
    <3> QED BY <1>0, <2>1, <3>1, <3>2, <3>3 DEF VforkInv, Parked, SpawnStops, Reporting
  <2> USE DEF CanAct, Stops, SpawnStops
  <2>5. CASE TraceeEnter(t) BY Zenon, <1>0, <2>2, <2>5 DEF TraceeEnter
  <2>6. CASE TraceeLeave(t) BY Zenon, <1>0, <2>2, <2>6 DEF TraceeLeave
  <2>7. CASE TraceeExec(t) BY Zenon, <1>0, <2>2, <2>7 DEF TraceeExec
  <2>8. CASE TraceeSignal(t) BY Zenon, <1>0, <2>2, <2>8 DEF TraceeSignal
  <2>9. CASE TakeStop(t) BY Zenon, <1>0, <2>2, <2>9 DEF TakeStop
  <2>10. CASE TraceeExit(t)
    <3>1. Die({t}, "exited") BY Zenon, <2>10 DEF TraceeExit
    <3>2. Deaths BY Zenon, <1>0, <2>10, <3>1 DEF TraceeExit, Die, Deaths, Dead
    <3> QED BY Zenon, <2>3, <3>1, <3>2 DEF Dead
  <2>11. ASSUME NEW how \in Dead, TraceeExitGroup(t, how) PROVE VforkInv'
    <3>1. Die(Siblings(t) \cup {t}, how) BY Zenon, <2>11 DEF TraceeExitGroup
    <3>2. Deaths BY Zenon, <1>0, <2>11, <3>1 DEF TraceeExitGroup, Die, Deaths, Siblings
    <3> QED BY Zenon, <2>3, <3>1, <3>2
  <2> QED BY Zenon, <1>1, <2>4, <2>5, <2>6, <2>7, <2>8, <2>9, <2>10, <2>11 DEF Tracee
<1>2. CASE AlarmMissed \/ Terminated \/ Quiet
  BY SMTT(40), <1>2 DEF AlarmMissed, Terminated, vars, kernelVars, schedVars, Quiet, VforkInv, Parked, Reporting
<1>3. ASSUME NEW t \in Tid, Wait(t), Idle PROVE VforkInv'
  BY SMTT(40), <1>0, <1>3, WaitEffect DEF VforkInv, Parked, Stops, SpawnStops, Dead, Reporting
<1>4. CASE ResumeNext
  BY SMTT(40), <1>0, <1>4, ResumeEffect DEF VforkInv, Parked, Ownership, SpawnStops, Dead, Reporting
<1>5. CASE HandleOK
  <2> DEFINE t == status.tid
             what == status.what
  <2>1. t \in Tid /\ status # None /\ status' = None /\ UNCHANGED <<kern, msg>>
    BY Zenon, <1>5, HandleEffect
  <2>2. CASE what \in Stops /\ t \in threads /\ threads' = threads /\ running' = ClearRunning(t)
             /\ what # "vfork" /\ Range(ready') = Range(ready) \cup {t} /\ vfork_pending' = vfork_pending
    BY SMTT(40), <1>0, <2>1, <2>2 DEF VforkInv, Parked, Ownership, Reporting, ClearRunning
  <2>3. CASE what \in Stops /\ t \in threads /\ threads' = threads /\ running' = ClearRunning(t)
             /\ what = "vfork" /\ ready' = ready
             /\ vfork_pending' = [vfork_pending EXCEPT ![msg[t]] = t]
    <3>1. running = t /\ msg[t] \in Tid /\ vfork_pending[msg[t]] = None /\ kern[msg[t]] # "absent"
      BY Zenon, <1>0, <2>1, <2>3 DEF VforkInv, Ownership, Reporting, SpawnStops
    <3>2. \A u \in threads : kern[u] \notin SpawnStops
      BY Zenon, <1>0, <2>1, <2>3, <3>1 DEF Ownership, StatusFits, Reporting, Stops, SpawnStops, Dead
    <3>3. \A c \in Tid : vfork_pending[c] # t
      BY Zenon, <2>1, <3>1 DEF VforkInv
    <3>4. running' = None BY Zenon, <2>3, <3>1 DEF ClearRunning
    <3> HIDE DEF t, what
    <3>5. \A u \in Tid : Parked(u) => Parked(u)'
      BY Zenon, <1>0, <2>3, <3>1 DEF Parked
    <3>6. \A u \in Tid : u = t => Parked(u)'
      BY Zenon, <1>0, <2>3, <3>1 DEF Parked
    <3>7. \A u \in threads : kern[u] = "held" => u \in Range(ready) \/ Parked(u)'
      BY Zenon, <1>0, <3>5, <3>6 DEF VforkInv, Reporting, t
    <3>8. t \in Tid /\ t \notin Range(ready) /\ t # None /\ None \notin Range(ready)
      BY Zenon, <1>0, <2>1, <3>1 DEF VforkInv, Ownership
    <3> QED BY <1>0, <2>1, <2>3, <3>1, <3>2, <3>3, <3>4, <3>7, <3>8 DEF VforkInv, Reporting
  <2>4. CASE what \in {"sigstop", "signal"} /\ t \notin threads /\ kern[t] = "held"
             /\ threads' = threads \cup {t} /\ running' = running
             /\ Range(ready') = Range(ready) \cup {t} /\ vfork_pending' = vfork_pending
    <3> HIDE DEF t, what
    <3>1. running' \notin Range(ready')
      BY <1>0, <2>1, <2>4 DEF VforkInv, Ownership
    <3>2. \A u \in threads' : kern[u] = "held" => u \in Range(ready') \/ Parked(u)'
      BY Zenon, <1>0, <2>1, <2>4 DEF VforkInv, Parked, Reporting, t
    <3>3. ASSUME NEW c \in Tid, vfork_pending[c] # None
          PROVE  /\ vfork_pending[c] # running /\ vfork_pending[c] \notin Range(ready')
                 /\ vfork_pending[c] \in threads' \/ kern[vfork_pending[c]] = "gone"
      BY <1>0, <2>1, <2>4, <3>3 DEF VforkInv
    <3>4. \A u \in threads' : kern[u] \in SpawnStops =>
             vfork_pending[msg[u]] = None /\ kern[msg[u]] # "absent"
      BY Zenon, <1>0, <2>1, <2>4 DEF VforkInv, SpawnStops
    <3> QED BY Zenon, <2>1, <2>4, <3>1, <3>2, <3>3, <3>4 DEF VforkInv, Reporting
  <2>5. CASE what \in Dead /\ threads' = threads \ {t} /\ running' = ClearRunning(t)
             /\ Range(ready') = (Range(ready) \ {t}) \cup ({vfork_pending[t]} \cap threads')
             /\ vfork_pending' = [vfork_pending EXCEPT ![t] = None]
    <3>1. kern[t] = "gone" BY Zenon, <2>1, <2>5 DEF StatusFits, Reporting
    <3> HIDE DEF t, what
    <3>2. \A c \in Tid : vfork_pending'[c] = IF c = t THEN None ELSE vfork_pending[c]
      BY Zenon, <1>0, <2>5
    <3>3. ASSUME NEW u \in threads', kern[u] = "held" PROVE u \in Range(ready') \/ Parked(u)'
      BY Zenon, <1>0, <2>1, <2>5, <3>2, <3>3 DEF VforkInv, Parked, Reporting, Stops, SpawnStops, Dead, t, what
    <3>4. running' \notin Range(ready')
      BY <1>0, <2>1, <2>5 DEF VforkInv, ClearRunning, Ownership
    <3>5. ASSUME NEW c \in Tid, vfork_pending'[c] # None
          PROVE  /\ vfork_pending'[c] # running' /\ vfork_pending'[c] \notin Range(ready')
                 /\ vfork_pending'[c] \in threads' \/ kern[vfork_pending'[c]] = "gone"
      BY <1>0, <2>1, <2>5, <3>1, <3>2, <3>5 DEF VforkInv, ClearRunning
    <3>6. \A u \in threads' : kern[u] \in SpawnStops =>
             vfork_pending'[msg[u]] = None /\ kern[msg[u]] # "absent"
      BY Zenon, <1>0, <2>1, <2>5, <3>2 DEF VforkInv
    <3>7. \A c, d \in Tid : vfork_pending'[c] = vfork_pending'[d] /\ vfork_pending'[c] # None => c = d
      BY Zenon, <3>2 DEF VforkInv
    <3>8. \A u \in Tid : kern[u] = "absent" => vfork_pending'[u] = None
      BY Zenon, <3>2 DEF VforkInv
    <3> QED BY Zenon, <2>1, <3>3, <3>4, <3>5, <3>6, <3>7, <3>8 DEF VforkInv, Reporting
  <2> QED BY Zenon, <1>5, <2>2, <2>3, <2>4, <2>5, HandleEffect
<1> QED BY Zenon, <1>1, <1>2, <1>3, <1>4, <1>5, RunEffect DEF Next, Step

\* Processes stay what their first threads make them.
LEMMA FamilyStep ==
  ASSUME Base, StatusFits, Ownership, FamilyInv, Next
  PROVE  FamilyInv'
<1> USE ConstantsAssumption
<1>0. /\ threads \subseteq Tid /\ kern \in [Tid -> KState] /\ grp \in [Tid -> Tid]
      /\ running \in Tid \cup {None}
  BY Zenon DEF Base, TypeOK
<1>1. ASSUME NEW t \in Tid, Tracee(t) PROVE FamilyInv'
  <2>1. UNCHANGED <<status, threads, running>> BY Zenon, <1>1, TraceeEffect DEF schedVars
  <2>2. ASSUME NEW c \in Tid, NEW how \in SpawnStops, TraceeSpawn(t, c, how) PROVE FamilyInv'
    <3>1. /\ kern[t] = "run" /\ kern[c] = "absent"
          /\ kern' = [kern EXCEPT ![t] = how, ![c] = "sigstop"]
          /\ grp' = [grp EXCEPT ![c] = IF how = "clone" THEN grp[t] ELSE c]
      BY Zenon, <2>2 DEF TraceeSpawn, CanAct
    <3>2. t \in threads /\ c \notin threads /\ c # t /\ how \notin {"absent", "gone"}
      BY Zenon, <1>0, <3>1 DEF Ownership, Dead, SpawnStops
    <3> QED BY <1>0, <2>1, <3>1, <3>2 DEF FamilyInv
  <2>3. CASE grp' = grp /\ SelfStop(t)
    BY <1>0, <2>1, <2>3 DEF SelfStop, FamilyInv, Stops, SpawnStops, Ownership, Dead
  <2>4. ASSUME NEW how \in Dead, NEW D \in SUBSET Tid, Die(D, how), kern[t] = "run", D \subseteq Siblings(t) \cup {t}
        PROVE  FamilyInv'
    BY <1>0, <2>1, <2>4 DEF Die, FamilyInv, Siblings, Dead, Ownership
  <2> QED BY Zenon, <1>1, <2>2, <2>3, <2>4, TraceeCases
<1>2. CASE (AlarmMissed \/ Terminated \/ Quiet) /\ grp' = grp
  BY Zenon, <1>2 DEF AlarmMissed, Terminated, vars, kernelVars, schedVars, Quiet, FamilyInv
<1>3. ASSUME NEW t \in Tid, Wait(t), Idle, grp' = grp PROVE FamilyInv'
  <2>1. kern[t] \in Dead /\ grp[t] = t => \A u \in Tid \ {t} : grp[u] = t => kern[u] \in {"absent", "gone"}
    BY Zenon, <1>3 DEF Wait, Reportable, Siblings, Stops, SpawnStops, Dead
  <2> QED BY <1>0, <1>3, <2>1, WaitEffect DEF FamilyInv, Stops, SpawnStops, Dead
<1>4. CASE ResumeNext /\ grp' = grp
  BY <1>0, <1>4, ResumeEffect DEF FamilyInv
<1>5. CASE HandleOK /\ grp' = grp
  <2> DEFINE t == status.tid
  <2>1. t \in Tid /\ kern' = kern BY Zenon, <1>5, HandleEffect
  <2>2. threads \subseteq threads' \/ (threads' = threads \ {t} /\ status.what \in Dead /\ status # None)
    BY Zenon, <1>5, HandleEffect
  <2>3. threads' = threads \ {t} /\ status.what \in Dead /\ status # None => kern[t] = "gone"
    BY Zenon, <2>1 DEF StatusFits, Reporting
  <2> HIDE DEF t
  <2> QED BY Zenon, <1>0, <1>5, <2>1, <2>2, <2>3 DEF FamilyInv
<1> QED BY Zenon, <1>1, <1>2, <1>3, <1>4, <1>5, RunEffect, RunGroups DEF Next, Step, AlarmMissed, Terminated, vars, kernelVars

\* Nobody but a sibling kills a thread that is not running.
LEMMA DeathStep ==
  ASSUME Base, StatusFits, Ownership, FamilyInv, DeathInv, Next
  PROVE  DeathInv'
<1> USE ConstantsAssumption DEF KilledBySibling, Reporting
<1>0. /\ threads \subseteq Tid /\ kern \in [Tid -> KState] /\ grp \in [Tid -> Tid]
      /\ running \in Tid \cup {None}
  BY Zenon DEF Base, TypeOK
<1>1. ASSUME NEW t \in Tid, Tracee(t) PROVE DeathInv'
  <2>1. UNCHANGED <<status, threads, running>> BY Zenon, <1>1, TraceeEffect DEF schedVars
  <2>2. ASSUME NEW c \in Tid, NEW how \in SpawnStops, TraceeSpawn(t, c, how) PROVE DeathInv'
    <3>1. /\ kern[t] = "run" /\ kern[c] = "absent"
          /\ kern' = [kern EXCEPT ![t] = how, ![c] = "sigstop"]
          /\ grp' = [grp EXCEPT ![c] = IF how = "clone" THEN grp[t] ELSE c]
      BY Zenon, <2>2 DEF TraceeSpawn, CanAct
    <3> QED BY <1>0, <2>1, <3>1 DEF DeathInv, Dead, SpawnStops
  <2>3. CASE grp' = grp /\ SelfStop(t)
    BY <1>0, <2>1, <2>3 DEF SelfStop, DeathInv, Stops, SpawnStops, Dead
  <2>4. ASSUME NEW how \in Dead, NEW D \in SUBSET Tid, Die(D, how), kern[t] = "run", t \in D,
               D \subseteq Siblings(t) \cup {t}
        PROVE  DeathInv'
    <3>1. running = t /\ ~Reporting(t, Stops)
      BY Zenon, <1>0, <2>4, RunnerIsClear DEF Stops, SpawnStops
    <3>2. grp' = grp /\ kern' = [u \in Tid |-> IF u \in D THEN how ELSE kern[u]]
      BY Zenon, <2>4 DEF Die
    <3>3. \A u \in D \ {t} : grp[u] = grp[t] BY Zenon, <2>4 DEF Siblings
    <3> QED BY <1>0, <2>1, <2>4, <3>1, <3>2, <3>3 DEF DeathInv, Dead
  <2> QED BY Zenon, <1>1, <2>2, <2>3, <2>4, TraceeCases
<1>2. CASE (AlarmMissed \/ Terminated \/ Quiet) /\ grp' = grp
  BY Zenon, <1>2 DEF AlarmMissed, Terminated, vars, kernelVars, schedVars, Quiet, DeathInv
<1>3. ASSUME NEW t \in Tid, Wait(t), Idle, grp' = grp PROVE DeathInv'
  BY <1>0, <1>3, WaitEffect DEF DeathInv, Stops, SpawnStops, Dead
<1>4. CASE ResumeNext /\ grp' = grp
  BY <1>0, <1>4, ResumeEffect DEF DeathInv, Dead
<1>5. CASE HandleOK /\ grp' = grp
  <2> DEFINE t == status.tid
  <2>1. t \in Tid /\ kern' = kern /\ status # None /\ status' = None
        /\ (running' = ClearRunning(t) \/ running' = running)
        /\ status.what \in Stops \cup Dead
    BY Zenon, <1>5, HandleEffect DEF Stops
  <2>2. status.what \in Dead => kern[t] = "gone" BY Zenon, <2>1 DEF StatusFits
  <2>3. kern[t] \in Dead => KilledBySibling(t)
    BY Zenon, <2>1, <2>2 DEF DeathInv, Dead
  <2> HIDE DEF t
  <2> QED BY Zenon, <1>0, <1>5, <2>1, <2>3 DEF DeathInv, ClearRunning
<1> QED BY Zenon, <1>1, <1>2, <1>3, <1>4, <1>5, RunEffect, RunGroups DEF Next, Step, AlarmMissed, Terminated, vars, kernelVars

-----------------------------------------------------------------------------
\* Scheduler::new establishes the invariant.
LEMMA InitInv ==
  ASSUME Init
  PROVE  IInv
<1> USE ConstantsAssumption DEF Init
<1>1. <<Leader>> \in Seq(Tid) /\ Range(<<Leader>>) = {Leader} /\ NoDup(<<Leader>>)
  BY DEF Range, NoDup
<1>2. TypeOK BY <1>1 DEF TypeOK, KState, Queue
<1>3. ControlOK BY Zenon, <1>1 DEF ControlOK, Idle, Reporting, SpawnStops
<1>4. StatusFits BY Zenon DEF StatusFits, Reporting
<1>5. Ownership BY Zenon, <1>1 DEF Ownership, Reporting, Stops, SpawnStops, Dead
<1>6. PhaseInv BY Zenon DEF PhaseInv, Outstanding, Reporting
<1>7. SignalInv BY Zenon DEF SignalInv, Outstanding, Reporting
<1>8. VforkInv BY Zenon, <1>1 DEF VforkInv, Parked, Reporting, SpawnStops
<1>9. FamilyInv BY Zenon DEF FamilyInv
<1>10. DeathInv BY Zenon DEF DeathInv, Dead
<1> QED BY Zenon, <1>2, <1>3, <1>4, <1>5, <1>6, <1>7, <1>8, <1>9, <1>10 DEF IInv

\* Every step of the recorder and of the kernel keeps it.
LEMMA StepInv ==
  ASSUME IInv, [Next]_vars
  PROVE  IInv'
<1>1. CASE Next
  <2>1. Base' BY Zenon, <1>1, TypeStep DEF IInv, Base
  <2>2. StatusFits' BY Zenon, <1>1, StatusStep DEF IInv, Base
  <2>3. Ownership' BY Zenon, <1>1, OwnershipStep DEF IInv, Base
  <2>4. PhaseInv' BY Zenon, <1>1, PhaseStep DEF IInv, Base
  <2>5. SignalInv' BY Zenon, <1>1, SignalStep DEF IInv, Base
  <2>6. VforkInv' BY Zenon, <1>1, <2>1, <2>3, VforkStep DEF IInv, Base
  <2>7. FamilyInv' BY Zenon, <1>1, FamilyStep DEF IInv, Base
  <2>8. DeathInv' BY Zenon, <1>1, DeathStep DEF IInv, Base
  <2> QED BY Zenon, <2>1, <2>2, <2>3, <2>4, <2>5, <2>6, <2>7, <2>8 DEF IInv, Base
<1>2. CASE UNCHANGED vars
  <2> USE <1>2 DEF vars, kernelVars, schedVars, Reporting
  <2>1. TypeOK' /\ ControlOK' BY DEF IInv, TypeOK, ControlOK, Idle
  <2>2. StatusFits' BY Zenon DEF IInv, StatusFits
  <2>3. Ownership' BY Zenon DEF IInv, Ownership
  <2>4. PhaseInv' BY Zenon DEF IInv, PhaseInv, Outstanding, Alive
  <2>5. SignalInv' BY Zenon DEF IInv, SignalInv, Outstanding, Alive
  <2>6. VforkInv' BY Zenon DEF IInv, VforkInv, Parked
  <2>7. FamilyInv' BY Zenon DEF IInv, FamilyInv
  <2>8. DeathInv' BY Zenon DEF IInv, DeathInv, KilledBySibling
  <2> QED BY Zenon, <2>1, <2>2, <2>3, <2>4, <2>5, <2>6, <2>7, <2>8 DEF IInv
<1> QED BY Zenon, <1>1, <1>2

\* The inductive invariant holds in every state of every recording.
THEOREM Invariance == Spec => []IInv
BY InitInv, StepInv, PTL DEF Spec

\* Type correctness of the scheduler: among others, pending_enter and
\* resume_signal exist only for registered threads.
THEOREM TypeCorrect == Spec => []TypeOK
<1>1. IInv => TypeOK BY Zenon DEF IInv
<1> QED BY <1>1, Invariance, PTL

\* The recorder serializes: the kernel never executes a thread other than the one
\* the scheduler resumed last (resume_next, clear_running).
THEOREM OneThreadRuns == Spec => []OneRuns
<1>1. IInv => OneRuns BY Zenon DEF IInv, Ownership, OneRuns, Dead, Stops, SpawnStops
<1> QED BY <1>1, Invariance, PTL

\* No stopped thread is ever forgotten (requeue, and on_exit's release of vfork
\* parents).
THEOREM HeldThreadsReturn == Spec => []NoThreadLost
<1>1. IInv => NoThreadLost
  <2> SUFFICES ASSUME IInv, Idle, NEW t \in threads, kern[t] = "held"
               PROVE  t \in Range(ready) \cup Range(vfork_pending)
    BY Zenon DEF NoThreadLost
  <2>1. t \in Range(ready) \/ Parked(t)
    BY Zenon DEF IInv, VforkInv, ControlOK, Reporting
  <2>2. vfork_pending \in [Tid -> Tid \cup {None}] BY Zenon DEF IInv, TypeOK
  <2> QED BY Zenon, <2>1, <2>2 DEF Parked, Range
<1> QED BY <1>1, Invariance, PTL

\* A vfork parent stays out of the queue until its child is gone (on_spawn,
\* on_exit).
THEOREM VforkParentsStayParked == Spec => []VforkParentParked
<1>1. IInv => VforkParentParked BY Zenon DEF IInv, VforkInv, VforkParentParked
<1> QED BY <1>1, Invariance, PTL

\* The ready queue is a set of registered threads without the running one.
THEOREM QueueIsSet == Spec => []ReadyIsSet
<1>1. IInv => ReadyIsSet BY Zenon DEF IInv, ControlOK, Ownership, VforkInv, ReadyIsSet
<1> QED BY <1>1, Invariance, PTL

\* pending_enter never mistakes a syscall exit for an entry (on_syscall).
THEOREM EntriesAndExitsAgree == Spec => []PhaseAgrees
<1>1. IInv => PhaseAgrees
  BY Zenon, ConstantsAssumption
     DEF IInv, TypeOK, PhaseInv, ControlOK, PhaseAgrees, Outstanding, Reporting, Alive, Dead
<1> QED BY <1>1, Invariance, PTL

\* An intercepted signal is given back when its thread next runs (on_stopped,
\* resume_next).
THEOREM NoSignalDropped == Spec => []SignalsRedelivered
<1>1. IInv => SignalsRedelivered
  <2> SUFFICES ASSUME IInv, NEW t \in Tid
               PROVE  /\ kern[t] = "run" => t \notin owed
                      /\ Idle /\ kern[t] = "held" => (t \in owed <=> t \in resig)
    BY Zenon DEF SignalsRedelivered
  <2>1. ASSUME kern[t] = "run" PROVE t \notin owed
    <3>1. ~Reporting(t, {"signal"}) BY Zenon, <2>1, RunnerIsClear DEF IInv, Base, Stops
    <3> QED BY Zenon, <2>1, <3>1 DEF IInv, SignalInv, Outstanding, Alive, Dead
  <2>2. ASSUME Idle, kern[t] = "held" PROVE t \in owed <=> t \in resig
    BY Zenon, <2>2 DEF IInv, SignalInv, ControlOK, Outstanding, Reporting, Alive, Dead
  <2> QED BY Zenon, <2>1, <2>2
<1> QED BY <1>1, Invariance, PTL

\* The any-child waitpid of run always has a tracee to report: its ECHILD arm is
\* never taken.
THEOREM NeverWaitsForNobody == Spec => []WaitsForSomeone
<1>1. IInv => WaitsForSomeone
  <2> SUFFICES ASSUME IInv, pc = "wait" PROVE \E t \in Tid : kern[t] \notin {"absent", "gone"}
    BY Zenon DEF WaitsForSomeone
  <2>1. status = None /\ threads # {} /\ threads \subseteq Tid
    BY Zenon DEF IInv, ControlOK, TypeOK, Idle
  <2> QED BY Zenon, <2>1 DEF IInv, Ownership, Reporting
<1> QED BY <1>1, Invariance, PTL

\* A failed handler and a failed resumption hit a thread its sibling has killed.
LEMMA FailureExplained ==
  ASSUME IInv, Next, pc' = "failed", pc # "failed"
  PROVE  /\ UNCHANGED <<kern, grp, status, threads>>
         /\ \E t \in threads \cup {IF status = None THEN Leader ELSE status.tid} :
               t \in Tid /\ kern[t] \in Dead /\ KilledBySibling(t)
<1> USE ConstantsAssumption DEF kernelVars, schedVars
<1>1. Run /\ (ResumeNext \/ Fail)
  BY ZenonT(30) DEF Next, Step, Terminated, vars, AlarmMissed, Tracee, TraceeEnter, TraceeLeave, TraceeExec,
         TraceeSignal, TakeStop, TraceeExit, TraceeExitGroup, Die, TraceeSpawn, TraceeStep, Run,
         Finish, ArmOnly, EnterWait, WaitAny, WaitPreempted, Wait, Interrupted, Handle, OnSyscall,
         OnSpawn, OnOtherEvent, OnNewThread, OnStopped, OnExit, Handled
<1>2. CASE ResumeNext
  <2>1. PICK t \in threads :
           /\ Range(ready) = Range(ready') \cup {t} /\ running = None
           /\ UNCHANGED threads /\ status' = status
           /\ (kern[t] = "held" /\ running' = t) \/ (kern[t] \in Dead /\ UNCHANGED <<kern, running>>)
    BY Zenon, <1>2, ResumeEffect DEF IInv, Base
  <2>2. running' = running BY Zenon, <1>2 DEF ResumeNext
  <2>3. t \in Tid /\ running # t BY Zenon, <2>1 DEF IInv, TypeOK
  <2> QED BY Zenon, <1>1, <2>1, <2>2, <2>3, RunGroups DEF IInv, DeathInv
<1>3. CASE Fail /\ ~ResumeNext
  <2> DEFINE t == status.tid
  <2>1. pc = "handle" /\ status.what \in Stops /\ kern[t] # "held"
    BY Zenon, <1>1, <1>3
       DEF Fail, Run, Finish, ArmOnly, EnterWait, WaitAny, WaitPreempted, Wait, Interrupted, Handle,
           OnSyscall, OnSpawn, OnOtherEvent, OnNewThread, OnStopped, OnExit, Handled, Handling,
           Stops, SpawnStops
  <2>2. status # None /\ t \in Tid
    BY Zenon, <2>1 DEF IInv, ControlOK, TypeOK, WaitStatus
  <2>3. Reporting(t, Stops) /\ kern[t] \in Dead
    BY Zenon, <2>1, <2>2 DEF IInv, StatusFits, Reporting
  <2> QED BY Zenon, <1>3, <2>2, <2>3 DEF Fail, IInv, DeathInv
<1> QED BY Zenon, <1>1, <1>2, <1>3

\* When run returns, every thread it knew has been reaped; when it fails, on a
\* thread that was killed by another one of its process (run, resume_next, the
\* handlers' ptrace requests).
THEOREM RecordingEndsClean == Spec => []RunEndsClean
<1> USE ConstantsAssumption
<1>1. Init => RunEndsClean BY Zenon DEF Init, RunEndsClean
<1>2. ASSUME IInv, IInv', RunEndsClean, [Next]_vars PROVE RunEndsClean'
  <2>1. CASE UNCHANGED vars \/ Ended
    <3>1. UNCHANGED vars
      BY Zenon, <1>2, <2>1
         DEF Ended, Next, Step, Terminated, AlarmMissed, Run, Finish, ResumeNext, ArmOnly, EnterWait,
             WaitAny, WaitPreempted, Interrupted, Handle, OnSyscall, OnSpawn, OnOtherEvent,
             OnNewThread, OnStopped, OnExit, Handling
    <3> QED BY Zenon, <1>2, <3>1 DEF RunEndsClean, vars, kernelVars, schedVars
  <2>2. ASSUME Next, ~Ended, pc' = "done" PROVE RunEndsClean'
    <3>1. Finish
      BY Zenon, <2>2
         DEF Ended, Next, Step, Terminated, AlarmMissed, Run, ResumeNext, ArmOnly, EnterWait, WaitAny,
             WaitPreempted, Wait, Interrupted, Handle, OnSyscall, OnSpawn, OnOtherEvent, OnNewThread,
             OnStopped, OnExit, Handled, Fail, Tracee, TraceeEnter, TraceeLeave, TraceeExec,
             TraceeSignal, TakeStop, TraceeExit, TraceeExitGroup, Die, TraceeSpawn, TraceeStep
    <3>2. threads = {} /\ UNCHANGED <<kern, phase>> /\ status = None
      BY Zenon, <1>2, <3>1 DEF Finish, kernelVars, IInv, ControlOK, Idle
    <3>3. ASSUME NEW t \in Tid, kern[t] \notin {"absent", "gone"}
          PROVE  kern[t] = "sigstop" /\ phase[t] = "user"
      BY <1>2, <3>2, <3>3 DEF IInv, FamilyInv, PhaseInv, Ownership, Reporting, Alive, Dead
    <3> QED BY Zenon, <2>2, <3>2, <3>3 DEF RunEndsClean
  <2>3. ASSUME Next, ~Ended, pc' = "failed" PROVE RunEndsClean'
    BY Zenon, <1>2, <2>3, FailureExplained DEF RunEndsClean, KilledBySibling, Ended
  <2> QED BY Zenon, <1>2, <2>1, <2>2, <2>3 DEF RunEndsClean
<1> QED BY <1>1, <1>2, Invariance, PTL DEF Spec

-----------------------------------------------------------------------------
(* The trace.                                                              *)

Now == Len(trace) + 1

\* The spawn of c by p has happened and is not in the trace yet.
Spawning(p, c) == (kern[p] \in SpawnStops \/ Reporting(p, SpawnStops)) /\ msg[p] = c

AnySpawn == \E j \in DOMAIN trace : trace[j].kind = "ThreadSpawn"

\* Where threads come from: each one alive is the leader, or in the trace as a child,
\* or newborn while its parent is stopped at the spawn.
BirthInv ==
    /\ Leader \in threads \/ kern[Leader] = "gone"
    /\ \A t \in Tid \ {Leader} : kern[t] # "absent" =>
         \/ Spawned(t, Now)
         \/ kern[t] \in {"sigstop", "held"} /\ \E p \in threads \ {t} : Spawning(p, t)
    /\ last_scheduled = Leader \/ Spawned(last_scheduled, Now)
    /\ threads_followed > 1 => AnySpawn \/ \E p \in threads, c \in Tid : Spawning(p, c)
    /\ threads_followed = 1 => threads \subseteq {Leader}

\* The trace and the scheduler agree on whose turn it is.
SwitchInv ==
    /\ last_scheduled = ScheduledAt(Now)
    /\ running # None => running = last_scheduled

ExitFollows(i) == \E j \in DOMAIN trace : j >= i /\ Is(j, "ThreadExit", trace[i].tid)

\* What a thread's records say of it now: it is registered or gone, inside a syscall
\* as far as pending_enter knows, and gone with a ThreadExit unless it was alone.
HistoryInv ==
    /\ \A i \in DOMAIN trace : trace[i].tid \in threads \/ kern[trace[i].tid] = "gone"
    /\ \A t \in threads : t \in pending <=> InSyscall(t, Now)
    /\ \A i \in DOMAIN trace : trace[i].kind = "ThreadExit" => trace[i].tid \notin threads
    /\ \A i \in DOMAIN trace :
         \/ trace[i].tid \in threads \/ ExitFollows(i)
         \/ threads_followed = 1 /\ threads = {} /\ pc \in {"loop", "done"}
    /\ pc = "done" => threads = {}

TraceInv ==
    /\ trace \in Seq(Record)
    /\ BirthInv /\ SwitchInv /\ HistoryInv
    /\ SpawnBeforeUse /\ SwitchesExplain /\ HistoriesWhole

-----------------------------------------------------------------------------
(* What one more record changes.                                           *)

Grows(r) == trace \in Seq(Record) /\ r \in Record /\ trace' = Append(trace, r)

\* TraceWriter::append leaves the earlier records alone.
LEMMA GrowsBy ==
  ASSUME NEW r, Grows(r)
  PROVE  /\ Now \in Nat \ {0} /\ Now' = Now + 1 /\ trace' \in Seq(Record)
         /\ DOMAIN trace = 1..(Now - 1) /\ DOMAIN trace' = 1..Now
         /\ \A i \in 1..(Now - 1) : trace'[i] = trace[i]
         /\ trace'[Now] = r
<1>1. /\ trace' \in Seq(Record) /\ Len(trace') = Len(trace) + 1 /\ Len(trace) \in Nat
      /\ DOMAIN trace' = 1..Len(trace') /\ DOMAIN trace = 1..Len(trace)
      /\ \A i \in 1..Len(trace) : trace'[i] = trace[i]
      /\ trace'[Len(trace) + 1] = r
  BY PushIs, LenIs DEF Grows
<1> QED BY <1>1 DEF Now

\* Each record is an earlier one or the one just written.
LEMMA OldOrNew ==
  ASSUME NEW r, Grows(r), NEW i \in DOMAIN trace'
  PROVE  (i \in DOMAIN trace /\ trace'[i] = trace[i]) \/ trace'[i] = r
<1>1. i \in 1..(Now - 1) \/ i = Now BY GrowsBy
<1> QED BY Zenon, <1>1, GrowsBy

\* A thread whose exit is recorded keeps its ThreadExit as the trace grows.
LEMMA ExitFollowsGrows ==
  ASSUME NEW r, Grows(r), NEW i \in DOMAIN trace, ExitFollows(i)
  PROVE  ExitFollows(i)'
<1>1. PICK j \in DOMAIN trace : j >= i /\ Is(j, "ThreadExit", trace[i].tid)
  BY Zenon DEF ExitFollows
<1>2. trace'[i] = trace[i] /\ trace'[j] = trace[j] BY Zenon, GrowsBy
<1>3. j \in DOMAIN trace' BY GrowsBy
<1> QED BY Zenon, <1>1, <1>2, <1>3 DEF ExitFollows, Is

\* Who has been announced.
LEMMA SpawnedGrows ==
  ASSUME NEW r, Grows(r)
  PROVE  /\ \A t, i : i \in 1..Now => (Spawned(t, i)' <=> Spawned(t, i))
         /\ \A t : Spawned(t, Now)' <=> Spawned(t, Now) \/ (r.kind = "ThreadSpawn" /\ r.child = t)
         /\ AnySpawn' <=> AnySpawn \/ r.kind = "ThreadSpawn"
<1>0. PICK n \in Nat \ {0} : n = Now BY Zenon, GrowsBy
<1>1. /\ DOMAIN trace = 1..(n - 1) /\ DOMAIN trace' = 1..n /\ Now' = n + 1 /\ trace'[n] = r
      /\ \A i \in 1..(n - 1) : trace'[i] = trace[i]
  BY Zenon, <1>0, GrowsBy
<1>2. ASSUME NEW t, NEW i \in 1..n PROVE Spawned(t, i)' <=> Spawned(t, i)
  <2>1. \A j \in 1..(i - 1) : j \in 1..(n - 1) OBVIOUS
  <2> QED BY Zenon, <1>1, <2>1 DEF Spawned
<1>3. ASSUME NEW t
      PROVE  Spawned(t, n + 1)' <=> Spawned(t, n) \/ (r.kind = "ThreadSpawn" /\ r.child = t)
  BY <1>1 DEF Spawned
<1>4. AnySpawn' <=> AnySpawn \/ r.kind = "ThreadSpawn"
  BY <1>1 DEF AnySpawn
<1>5. \A t : Spawned(t, Now)' <=> Spawned(t, n + 1)'
  BY Zenon, <1>1 DEF Spawned
<1> QED BY Zenon, <1>0, <1>2, <1>3, <1>4, <1>5

\* Who is inside a syscall.
LEMMA InSyscallGrows ==
  ASSUME NEW r, Grows(r)
  PROVE  /\ \A t, i : i \in 1..Now => (InSyscall(t, i)' <=> InSyscall(t, i))
         /\ \A t : InSyscall(t, Now)' <=>
               \/ r.kind = "SyscallEnter" /\ r.tid = t
               \/ InSyscall(t, Now) /\ ~(r.kind = "SyscallExit" /\ r.tid = t)
<1>0. PICK n \in Nat \ {0} : n = Now BY Zenon, GrowsBy
<1>1. /\ Now' = n + 1 /\ trace'[n] = r /\ \A i \in 1..(n - 1) : trace'[i] = trace[i]
  BY Zenon, <1>0, GrowsBy
<1>2. ASSUME NEW t, NEW i \in 1..n PROVE InSyscall(t, i)' <=> InSyscall(t, i)
  <2>1. \A j \in 1..(i - 1) : j \in 1..(n - 1) /\ \A k \in (j + 1)..(i - 1) : k \in 1..(n - 1)
    OBVIOUS
  <2> QED BY <1>1, <2>1 DEF InSyscall, Is
<1>3. ASSUME NEW t, InSyscall(t, n + 1)'
      PROVE  \/ r.kind = "SyscallEnter" /\ r.tid = t
             \/ InSyscall(t, n) /\ ~(r.kind = "SyscallExit" /\ r.tid = t)
  <2>1. PICK j \in 1..n : Is(j, "SyscallEnter", t)' /\ \A k \in (j + 1)..n : ~Is(k, "SyscallExit", t)'
    BY <1>3 DEF InSyscall
  <2>2. CASE j = n BY Zenon, <1>1, <2>1, <2>2 DEF Is
  <2>3. CASE j # n
    <3>1. j \in 1..(n - 1) /\ n \in (j + 1)..n BY <2>3
    <3>2. Is(j, "SyscallEnter", t) /\ \A k \in (j + 1)..(n - 1) : ~Is(k, "SyscallExit", t)
      BY <1>1, <2>1, <3>1 DEF Is
    <3> QED BY Zenon, <1>1, <2>1, <3>1, <3>2 DEF InSyscall, Is
  <2> QED BY Zenon, <2>2, <2>3
<1>4. ASSUME NEW t, r.kind = "SyscallEnter" /\ r.tid = t PROVE InSyscall(t, n + 1)'
  <2>1. n \in 1..n /\ Is(n, "SyscallEnter", t)' BY <1>1, <1>4 DEF Is
  <2> QED BY <2>1 DEF InSyscall
<1>5. ASSUME NEW t, InSyscall(t, n), ~(r.kind = "SyscallExit" /\ r.tid = t) PROVE InSyscall(t, n + 1)'
  <2>1. PICK j \in 1..(n - 1) :
            Is(j, "SyscallEnter", t) /\ \A k \in (j + 1)..(n - 1) : ~Is(k, "SyscallExit", t)
    BY Zenon, <1>5 DEF InSyscall
  <2>2. ASSUME NEW k \in (j + 1)..n PROVE ~Is(k, "SyscallExit", t)'
    <3>1. k = n \/ (k \in (j + 1)..(n - 1) /\ k \in 1..(n - 1)) OBVIOUS
    <3> QED BY Zenon, <1>1, <1>5, <2>1, <3>1 DEF Is
  <2>3. j \in 1..n /\ Is(j, "SyscallEnter", t)' BY <1>1, <2>1 DEF Is
  <2> QED BY <2>2, <2>3 DEF InSyscall
<1>6. \A t : InSyscall(t, Now)' <=> InSyscall(t, n + 1)'
  BY Zenon, <1>1 DEF InSyscall
<1> QED BY Zenon, <1>0, <1>2, <1>3, <1>4, <1>5, <1>6

\* Whose turn the switches say it is: only a SchedSwitch changes it.
LEMMA ScheduleGrows ==
  ASSUME NEW r, Grows(r)
  PROVE  /\ \A i \in 1..Now : ScheduledAt(i)' = ScheduledAt(i)
         /\ ScheduledAt(Now)' = IF r.kind = "SchedSwitch" THEN r.tid ELSE ScheduledAt(Now)
<1>0. PICK n \in Nat \ {0} : n = Now BY Zenon, GrowsBy
<1>1. /\ Now' = n + 1 /\ trace'[n] = r /\ \A i \in 1..(n - 1) : trace'[i] = trace[i]
  BY Zenon, <1>0, GrowsBy
<1> DEFINE S(i) == {j \in 1..(i - 1) : trace[j].kind = "SchedSwitch"}
           last(T) == CHOOSE j \in T : \A k \in T : k <= j
<1>2. ASSUME NEW i \in 1..n, S(i) # {} PROVE last(S(i)) \in S(i)
  <2>1. i \in Nat /\ S(i) \in SUBSET (0..i) OBVIOUS
  <2> HIDE DEF S
  <2> QED BY Zenon, <1>2, <2>1, GreatestExists
<1>3. ASSUME NEW i \in 1..n PROVE S(i)' = S(i) /\ ScheduledAt(i)' = ScheduledAt(i)
  <2>1. \A j \in 1..(i - 1) : j \in 1..(n - 1) OBVIOUS
  <2>2. S(i)' = S(i) BY Zenon, <1>1, <2>1
  <2>3. CASE S(i) = {} BY Zenon, <2>2, <2>3 DEF ScheduledAt
  <2>4. CASE S(i) # {}
    <3>1. last(S(i)) \in 1..(n - 1) BY Zenon, <1>2, <2>1, <2>4
    <3>2. ScheduledAt(i) = trace[last(S(i))].tid BY Zenon, <2>4 DEF ScheduledAt
    <3>3. ScheduledAt(i)' = trace'[last(S(i)')].tid BY Zenon, <2>2, <2>4 DEF ScheduledAt
    <3> HIDE DEF S, last
    <3> QED BY Zenon, <1>1, <2>2, <3>1, <3>2, <3>3
  <2> QED BY Zenon, <2>2, <2>3, <2>4
<1>4. CASE r.kind # "SchedSwitch"
  <2>1. {j \in 1..((n + 1) - 1) : trace'[j].kind = "SchedSwitch"} = S(n)
    BY <1>1, <1>4
  <2>2. ScheduledAt(n + 1)' = ScheduledAt(n)
    <3>1. CASE S(n) = {} BY Zenon, <2>1, <3>1 DEF ScheduledAt
    <3>2. CASE S(n) # {}
      <4>1. last(S(n)) \in 1..(n - 1) BY <1>2, <3>2
      <4>2. ScheduledAt(n) = trace[last(S(n))].tid BY Zenon, <3>2 DEF ScheduledAt
      <4>3. ScheduledAt(n + 1)' = trace'[last(S(n))].tid BY Zenon, <2>1, <3>2 DEF ScheduledAt
      <4> HIDE DEF S, last
      <4> QED BY Zenon, <1>1, <4>1, <4>2, <4>3
    <3> QED BY Zenon, <3>1, <3>2
  <2> QED BY Zenon, <1>0, <1>1, <1>3, <1>4, <2>2
<1>5. CASE r.kind = "SchedSwitch"
  <2> DEFINE T == {j \in 1..((n + 1) - 1) : trace'[j].kind = "SchedSwitch"}
  <2>1. n \in T /\ \A k \in T : k \in Nat /\ k <= n BY <1>1, <1>5
  <2>2. T # {} /\ last(T) = n BY <2>1
  <2>3. ScheduledAt(n + 1)' = r.tid BY Zenon, <1>1, <2>2 DEF ScheduledAt
  <2> QED BY Zenon, <1>0, <1>1, <1>3, <1>5, <2>3
<1> QED BY Zenon, <1>4, <1>5

\* A step without a record changes nothing the trace says.
LEMMA TraceStays ==
  ASSUME trace' = trace
  PROVE  /\ Now' = Now /\ AnySpawn' = AnySpawn /\ ScheduledAt(Now)' = ScheduledAt(Now)
         /\ \A t : Spawned(t, Now)' = Spawned(t, Now) /\ InSyscall(t, Now)' = InSyscall(t, Now)
         /\ \A i : ExitFollows(i)' = ExitFollows(i)
         /\ SpawnBeforeUse' = SpawnBeforeUse /\ SwitchesExplain' = SwitchesExplain
BY DEF Now, AnySpawn, ScheduledAt, Spawned, InSyscall, Is, ExitFollows, SpawnBeforeUse, SwitchesExplain

-----------------------------------------------------------------------------
(* Which records the steps leave.                                          *)

Core == Base /\ StatusFits /\ Ownership

\* What each handler of the scheduler hands to append.
LEMMA HandleRecord ==
  ASSUME Core, HandleOK
  PROVE  LET t == status.tid
             what == status.what
             new == what \in {"sigstop", "signal"} /\ t \notin threads
         IN  /\ UNCHANGED last_scheduled /\ pc = "handle" /\ pc' = "loop"
             /\ threads_followed' = IF new THEN threads_followed + 1 ELSE threads_followed
             /\ \/ what = "syscall" /\ out' = [kind |-> IF t \in pending THEN "SyscallExit"
                                                        ELSE "SyscallEnter", tid |-> t]
                \/ what \in SpawnStops /\ out' = [kind |-> "ThreadSpawn", tid |-> t, child |-> msg[t]]
                \/ what = "exec" /\ out' = None
                \/ new /\ out' = None
                \/ what = "sigstop" /\ t \in threads /\ out' = None
                \/ what = "signal" /\ t \in threads /\ out' = [kind |-> "Signal", tid |-> t]
                \/ what \in Dead /\ out' = IF t \in threads /\ threads_followed > 1
                                             THEN [kind |-> "ThreadExit", tid |-> t] ELSE None
<1> USE DEF HandleOK, Handled, Handling, Append1
<1>0. ~Fail BY Zenon DEF Fail
<1>1. CASE OnSyscall BY Zenon, <1>0, <1>1 DEF OnSyscall
<1>2. CASE OnSpawn BY Zenon, <1>0, <1>2 DEF OnSpawn, SpawnStops
<1>3. CASE OnOtherEvent BY Zenon, <1>3 DEF OnOtherEvent
<1>4. CASE OnNewThread BY Zenon, <1>0, <1>4 DEF OnNewThread
<1>5. CASE OnStopped BY Zenon, <1>5 DEF OnStopped
<1>6. CASE OnExit BY Zenon, <1>6 DEF OnExit, Dead
<1> QED BY Zenon, <1>1, <1>2, <1>3, <1>4, <1>5, <1>6 DEF Handle

\* Steps of the recorder that end the loop, or touch neither a thread nor a queue.
LEMMA RunRecord ==
  ASSUME Base, Run
  PROVE  \/ Quiet /\ out' = None /\ pc = "loop" /\ threads = {} /\ pc' = "done"
         \/ Quiet /\ out' = None /\ ~(pc = "loop" /\ threads = {}) /\ pc # "done" /\ pc' # "done"
         \/ \E t \in Tid : Wait(t) /\ Idle /\ pc \in {"wait", "preempt"}
         \/ ResumeNext
         \/ HandleOK
<1> USE DEF kernelVars, schedVars
<1>1. CASE Finish BY Zenon, <1>1 DEF Finish, Quiet
<1>2. CASE ArmOnly BY Zenon, <1>2 DEF ArmOnly, Quiet
<1>3. CASE EnterWait BY Zenon, <1>3 DEF EnterWait, Quiet
<1>4. CASE Interrupted BY Zenon, <1>4 DEF Interrupted, Quiet
<1>5. CASE WaitAny BY Zenon, <1>5 DEF WaitAny, Idle
<1>6. CASE WaitPreempted BY Zenon, <1>6 DEF WaitPreempted, Base, ControlOK, TypeOK, Idle
<1>7. CASE Handle /\ Fail
  BY Zenon, <1>7 DEF Fail, Quiet, Handle, Handling, OnSyscall, OnSpawn, OnOtherEvent, OnNewThread,
              OnStopped, OnExit
<1>8. CASE Handle /\ ~Fail
  BY Zenon, <1>8 DEF HandleOK, Handle, OnSyscall, OnSpawn, OnOtherEvent, OnNewThread, OnStopped,
              OnExit, Handling
<1> QED BY Zenon, <1>1, <1>2, <1>3, <1>4, <1>5, <1>6, <1>7, <1>8 DEF Run

\* The traced program leaves no record itself.
LEMMA TraceeRecord ==
  ASSUME NEW t, Tracee(t)
  PROVE  out' = None /\ UNCHANGED <<pc, status, schedVars>>
BY Zenon DEF Tracee, TraceeEnter, TraceeLeave, TraceeExec, TraceeSignal, TakeStop, TraceeExit,
       TraceeExitGroup, TraceeSpawn, Die, TraceeStep

\* While a spawn is not in the trace its parent is the scheduled thread and nothing
\* runs.
LEMMA SpawningFreezes ==
  ASSUME Core, NEW p \in threads, NEW c, Spawning(p, c)
  PROVE  running = p /\ \A t \in Tid : kern[t] # "run"
<1>1. p \in Tid /\ running = p
  BY Zenon DEF Core, Base, TypeOK, Spawning, Ownership, Reporting, Stops
<1>2. kern[p] # "run"
  BY Zenon, <1>1 DEF Core, Spawning, StatusFits, Reporting, Stops, SpawnStops, Dead
<1> QED BY Zenon, <1>1, <1>2, RunnerIsClear DEF Core

\* append takes every record, and only records.
LEMMA Appends ==
  ASSUME TypeOK', trace \in Seq(Record), trace' = Appended
  PROVE  /\ out' = None => trace' = trace
         /\ out' # None => Grows(out')
BY Zenon DEF TypeOK, Appended, Grows

-----------------------------------------------------------------------------
\* Threads stay accounted for: a newborn is announced before anybody runs again.
LEMMA BirthStep ==
  ASSUME Core, TypeOK', BirthInv, trace \in Seq(Record), Step, trace' = Appended
  PROVE  BirthInv'
<1> USE ConstantsAssumption
<1>0. /\ threads \subseteq Tid /\ kern \in [Tid -> KState] /\ running \in Tid \cup {None}
      /\ threads_followed \in Nat /\ Leader \in Tid /\ msg \in [Tid -> Tid \cup {None}]
  BY Zenon DEF Core, Base, TypeOK
<1>1. ASSUME NEW t \in Tid, Tracee(t) PROVE BirthInv'
  <2>1. trace' = trace /\ UNCHANGED <<status, threads, last_scheduled, threads_followed>>
    BY Zenon, <1>1, TraceeRecord, Appends DEF schedVars
  <2>2. kern[t] = "run" BY Zenon, <1>1 DEF Tracee, TraceeEnter, TraceeLeave, TraceeExec, TraceeSignal,
          TakeStop, TraceeExit, TraceeExitGroup, TraceeSpawn, CanAct
  <2>3. \A p \in threads, c \in Tid : ~Spawning(p, c) BY Zenon, <2>2, SpawningFreezes
  <2>4. \A u \in Tid \ {Leader} : kern[u] # "absent" => Spawned(u, Now) BY Zenon, <1>0, <2>3 DEF BirthInv
  <2>5. kern[Leader] = "gone" => kern'[Leader] = "gone"
    BY Zenon, <1>0, <1>1, TraceeEffect DEF Core, SelfStop, Deaths
  <2>6. CASE \A u \in Tid : kern'[u] # "absent" => kern[u] # "absent"
    BY Zenon, <2>1, <2>3, <2>4, <2>5, <2>6, TraceStays DEF BirthInv
  <2>7. ASSUME NEW c \in Tid, NEW how \in SpawnStops, TraceeSpawn(t, c, how) PROVE BirthInv'
    <3>1. c # t /\ t \in threads BY Zenon, <2>2, <2>7, RunnerIsClear DEF TraceeSpawn, Core
    <3>2. kern'[c] = "sigstop" /\ Spawning(t, c)' /\ \A u \in Tid \ {c} : kern'[u] # "absent" => kern[u] # "absent"
      BY Zenon, <1>0, <2>7, <3>1, <2>2 DEF TraceeSpawn, Spawning
    <3> QED BY <1>0, <2>1, <2>3, <2>4, <2>5, <3>1, <3>2, TraceStays DEF BirthInv
  <2>8. ASSUME NEW how, NEW D \in SUBSET Tid, Die(D, how), t \in D, D \subseteq Siblings(t) \cup {t}
        PROVE  \A u \in Tid : kern'[u] # "absent" => kern[u] # "absent"
    BY Zenon, <1>0, <2>2, <2>8 DEF Die, Siblings
  <2> QED BY Zenon, <1>1, <2>2, <2>6, <2>7, <2>8, TraceeCases DEF Core
<1>2. CASE AlarmMissed \/ (Quiet /\ out' = None)
  <2>1. trace' = trace /\ UNCHANGED <<kern, msg, status, threads, last_scheduled, threads_followed>>
    BY Zenon, <1>2, Appends DEF AlarmMissed, Quiet, kernelVars, schedVars
  <2> QED BY Zenon, <2>1, TraceStays DEF BirthInv, Spawning, Reporting
<1>3. ASSUME NEW t \in Tid, Wait(t), Idle PROVE BirthInv'
  <2>1. trace' = trace /\ UNCHANGED <<last_scheduled, threads_followed>>
    BY Zenon, <1>3, Appends DEF Wait, schedVars
  <2>2. \A p \in threads, c \in Tid : Spawning(p, c) => Spawning(p, c)'
    BY Zenon, <1>0, <1>3, WaitEffect DEF Core, Spawning, Reporting, SpawnStops, Dead
  <2>3. \A u \in Tid : /\ kern'[u] # "absent" => kern[u] # "absent"
                       /\ kern[u] \in {"sigstop", "held"} => kern'[u] \in {"sigstop", "held"}
                       /\ kern[u] = "gone" => kern'[u] = "gone"
    BY Zenon, <1>0, <1>3, WaitEffect DEF Core, Stops, SpawnStops, Dead
  <2> QED BY <1>0, <1>3, <2>1, <2>2, <2>3, WaitEffect, TraceStays DEF BirthInv, Core
<1>4. CASE ResumeNext
  <2>1. PICK t \in threads :
            /\ running = None /\ UNCHANGED <<threads, threads_followed>> /\ last_scheduled' = t
            /\ \A u \in Tid \ {t} : kern'[u] = kern[u]
            /\ kern[t] \in {"held"} \cup Dead
    BY Zenon, <1>4, ResumeEffect DEF Core
  <2>2. \A p \in threads, c \in Tid : ~Spawning(p, c) BY Zenon, <1>0, <2>1, SpawningFreezes
  <2>3. \A u \in Tid \ {Leader} : kern[u] # "absent" => Spawned(u, Now) BY Zenon, <1>0, <2>2 DEF BirthInv
  <2>4. \A u : Spawned(u, Now) => Spawned(u, Now)' BY Zenon, Appends, SpawnedGrows, TraceStays
  <2>5. AnySpawn => AnySpawn' BY Zenon, Appends, SpawnedGrows, TraceStays
  <2> QED BY Zenon, <1>0, <2>1, <2>2, <2>3, <2>4, <2>5 DEF BirthInv, Dead
<1>5. CASE HandleOK
  <2> DEFINE t == status.tid
             what == status.what
  <2>0. t \in Tid /\ status # None /\ UNCHANGED <<kern, msg, last_scheduled>> /\ status' = None
    BY Zenon, <1>5, HandleEffect, HandleRecord DEF Core
  <2>1. (\A u : Spawned(u, Now) => Spawned(u, Now)') /\ (AnySpawn => AnySpawn')
    BY Appends, SpawnedGrows, TraceStays
  <2>2. CASE what \in Stops /\ t \in threads
    <3>1. running = t /\ kern[t] \in {"held"} \cup Dead
      BY Zenon, <2>0, <2>2 DEF Core, Ownership, StatusFits, Reporting
    <3>2. threads' = threads /\ threads_followed' = threads_followed
      BY Zenon, <1>5, <2>2, HandleEffect, HandleRecord DEF Core, Stops, SpawnStops, Dead
    <3>3. \A p \in threads, c \in Tid : Spawning(p, c) => p = t /\ what \in SpawnStops /\ c = msg[t]
      BY Zenon, <1>0, <3>1, SpawningFreezes DEF Spawning, Reporting, SpawnStops, Dead
    <3>4. ASSUME what \in SpawnStops, NEW c, c = msg[t] PROVE Spawned(c, Now)' /\ AnySpawn'
      <4>1. out' = [kind |-> "ThreadSpawn", tid |-> t, child |-> c]
        BY Zenon, <1>5, <3>4, HandleRecord DEF SpawnStops, Dead
      <4>2. out' # None
        BY <4>1, <2>0, <3>4 DEF Core, Base, TypeOK, ControlOK, Record, Reporting
      <4> QED BY <4>1, <4>2, Appends, SpawnedGrows
    <3>5. \A u \in Tid \ {Leader} : kern[u] # "absent" => Spawned(u, Now)'
      BY Zenon, <1>0, <2>1, <3>3, <3>4 DEF BirthInv
    <3>6. threads_followed > 1 => AnySpawn' BY Zenon, <2>1, <3>3, <3>4 DEF BirthInv
    <3> QED BY Zenon, <2>0, <2>1, <3>2, <3>5, <3>6 DEF BirthInv
  <2>3. CASE what \in Stops /\ t \notin threads
    <3>1. kern[t] = "held" /\ threads' = threads \cup {t} /\ threads_followed' = threads_followed + 1
          /\ what = "sigstop"
      BY Zenon, <1>5, <2>0, <2>3, HandleEffect, HandleRecord DEF Core, Stops, SpawnStops, Dead, Ownership, Reporting
    <3>2. \A p \in threads, c \in Tid : Spawning(p, c) => Spawning(p, c)'
      BY Zenon, <2>0, <2>3 DEF Spawning, Reporting
    <3>3. t # Leader BY Zenon, <2>3, <3>1 DEF BirthInv
    <3>4. Spawned(t, Now) => AnySpawn
      BY LenIs DEF Spawned, AnySpawn, Now
    <3>5. AnySpawn' \/ \E p \in threads', c \in Tid : Spawning(p, c)'
      BY Zenon, <1>0, <2>0, <2>1, <3>1, <3>2, <3>3, <3>4 DEF BirthInv
    <3>6. \A u \in Tid \ {Leader} : kern[u] # "absent" =>
            \/ Spawned(u, Now)'
            \/ kern[u] \in {"sigstop", "held"} /\ \E p \in threads' \ {u} : Spawning(p, u)'
      BY <1>0, <2>1, <3>1, <3>2 DEF BirthInv
    <3>7. threads_followed' # 1 BY <1>0, <3>1 DEF Core, Base, TypeOK
    <3> QED BY Zenon, <2>0, <2>1, <3>1, <3>5, <3>6, <3>7 DEF BirthInv
  <2>4. CASE what \in Dead
    <3>1. kern[t] = "gone" /\ threads' = threads \ {t} /\ threads_followed' = threads_followed
      BY Zenon, <1>5, <2>0, <2>4, HandleEffect, HandleRecord DEF Core, Stops, SpawnStops, Dead, StatusFits, Reporting
    <3>2. \A p \in threads, c \in Tid : Spawning(p, c) => p # t /\ Spawning(p, c)'
      BY Zenon, <2>0, <2>4, <3>1 DEF Spawning, Reporting, SpawnStops, Dead
    <3> QED BY <1>0, <2>0, <2>1, <3>1, <3>2 DEF BirthInv
  <2> QED BY Zenon, <2>0, <2>2, <2>3, <2>4 DEF Core, Base, TypeOK, WaitStatus
<1> QED BY Zenon, <1>1, <1>2, <1>3, <1>4, <1>5, RunRecord DEF Step, Core

\* What is true of a record when it is appended: its thread is registered and
\* announced, and it is the running one unless the record is a switch or a death.
LEMMA NewRecord ==
  ASSUME Core, BirthInv, trace \in Seq(Record), Step, out' # None
  PROVE  LET r == out'
         IN  /\ r.tid \in threads
             /\ r.tid = Leader \/ Spawned(r.tid, Now)
             /\ r.kind \in Lifecycle \ {"ThreadSpawn"} => AnySpawn
             /\ r.kind \notin {"SchedSwitch", "ThreadExit"} => r.tid = running
             /\ r.kind \in {"SyscallEnter", "SyscallExit"} => (r.kind = "SyscallExit" <=> r.tid \in pending)
<1> USE ConstantsAssumption
<1>0. /\ threads \subseteq Tid /\ kern \in [Tid -> KState] /\ threads_followed \in Nat
      /\ msg \in [Tid -> Tid \cup {None}]
  BY Zenon DEF Core, Base, TypeOK
<1>1. \A t : Spawned(t, Now) => AnySpawn
  BY LenIs DEF Spawned, AnySpawn, Now
<1>2. CASE ResumeNext
  <2>1. PICK t \in threads : /\ running = None /\ out' = [kind |-> "SchedSwitch", tid |-> t]
                             /\ last_scheduled # t
    BY Zenon, <1>2, ResumeEffect DEF Core
  <2>2. \A p \in threads, c \in Tid : ~Spawning(p, c) BY Zenon, <1>0, <2>1, SpawningFreezes
  <2>3. t = Leader \/ Spawned(t, Now)
    BY Zenon, <1>0, <2>2 DEF BirthInv, Core, Ownership
  <2>4. AnySpawn BY Zenon, <1>1, <2>1, <2>3 DEF BirthInv
  <2> QED BY Zenon, <2>1, <2>3, <2>4
<1>3. CASE HandleOK
  <2> DEFINE t == status.tid
             what == status.what
  <2>0. t \in Tid /\ status # None
    BY Zenon, <1>3, HandleEffect DEF Core
  <2>1. ASSUME what \in Stops, t \in threads PROVE running = t /\ (t = Leader \/ Spawned(t, Now))
    <3>1. running = t /\ kern[t] # "absent" BY Zenon, <2>0, <2>1 DEF Core, Ownership, Reporting
    <3>2. \A p \in threads \ {t} : ~Spawning(p, t) BY Zenon, <1>0, <2>1, <3>1, SpawningFreezes
    <3> QED BY Zenon, <1>0, <2>0, <3>1, <3>2 DEF BirthInv
  <2>2. what \in Stops \ {"sigstop"} => t \in threads
    BY Zenon, <2>0 DEF Core, Ownership, Reporting
  <2>3. CASE what = "syscall"
    <3>1. out' = [kind |-> IF t \in pending THEN "SyscallExit" ELSE "SyscallEnter", tid |-> t]
      BY Zenon, <1>3, <2>3, HandleRecord DEF SpawnStops, Dead
    <3> QED BY Zenon, <2>1, <2>2, <2>3, <3>1 DEF Stops, Lifecycle
  <2>4. CASE what \in SpawnStops
    <3>1. out'.kind = "ThreadSpawn" /\ out'.tid = t
      BY <1>3, <2>4, HandleRecord DEF SpawnStops, Dead
    <3> QED BY Zenon, <2>1, <2>2, <2>4, <3>1 DEF Stops, SpawnStops
  <2>5. CASE what \in {"exec", "sigstop"}
    BY Zenon, <1>3, <2>5, HandleRecord DEF SpawnStops, Dead
  <2>6. CASE what = "signal"
    <3>1. out' = [kind |-> "Signal", tid |-> t]
      BY Zenon, <1>3, <2>6, HandleRecord DEF SpawnStops, Dead
    <3> QED BY Zenon, <2>1, <2>2, <2>6, <3>1 DEF Stops, Lifecycle
  <2>7. CASE what \in Dead
    <3>1. out' = [kind |-> "ThreadExit", tid |-> t] /\ t \in threads /\ threads_followed > 1
      BY Zenon, <1>3, <2>7, HandleRecord DEF SpawnStops, Dead
    <3>2. kern[t] = "gone" /\ \A p \in threads : ~Reporting(p, SpawnStops)
      BY Zenon, <2>0, <2>7 DEF Core, StatusFits, Reporting, SpawnStops, Dead
    <3>3. t = Leader \/ Spawned(t, Now) BY Zenon, <2>0, <3>2 DEF BirthInv
    <3>4. AnySpawn
      <4>1. CASE t # Leader BY Zenon, <1>1, <3>3, <4>1
      <4>2. CASE t = Leader
        <5> SUFFICES ASSUME NEW p \in threads, NEW c \in Tid, Spawning(p, c) PROVE AnySpawn
          BY Zenon, <3>1 DEF BirthInv
        <5>1. kern[p] \in SpawnStops BY Zenon, <3>2 DEF Spawning
        <5>2. p # Leader BY Zenon, <4>2, <3>2, <5>1 DEF SpawnStops
        <5>3. Spawned(p, Now) BY Zenon, <1>0, <5>1, <5>2 DEF BirthInv, SpawnStops
        <5> QED BY Zenon, <1>1, <5>3
      <4> QED BY Zenon, <4>1, <4>2
    <3> QED BY Zenon, <3>1, <3>3, <3>4
  <2> QED BY Zenon, <2>0, <2>3, <2>4, <2>5, <2>6, <2>7 DEF Core, Base, TypeOK, WaitStatus, Stops
<1>4. ASSUME NEW t \in Tid, Tracee(t) \/ Wait(t) PROVE FALSE
  BY Zenon, <1>4, TraceeRecord DEF Wait
<1>5. ~AlarmMissed BY Zenon DEF AlarmMissed
<1> QED BY Zenon, <1>2, <1>3, <1>4, <1>5, RunRecord DEF Step, Core

\* The scheduler and the trace keep agreeing on whose turn it is.
LEMMA SwitchStep ==
  ASSUME Core, TypeOK', SwitchInv, trace \in Seq(Record), Step, trace' = Appended
  PROVE  SwitchInv'
<1> USE ConstantsAssumption
<1>1. ASSUME out' = None, UNCHANGED <<running, last_scheduled>> PROVE SwitchInv'
  BY Zenon, <1>1, Appends, TraceStays DEF SwitchInv
<1>2. ASSUME NEW t \in Tid, Tracee(t) PROVE SwitchInv'
  BY Zenon, <1>1, <1>2, TraceeRecord DEF schedVars
<1>3. CASE AlarmMissed \/ (Quiet /\ out' = None)
  BY Zenon, <1>1, <1>3 DEF AlarmMissed, Quiet, schedVars
<1>4. ASSUME NEW t \in Tid, Wait(t) PROVE SwitchInv'
  BY Zenon, <1>1, <1>4 DEF Wait, schedVars
<1>5. CASE ResumeNext
  <2>1. PICK t \in threads :
            /\ running = None /\ last_scheduled' = t
            /\ running' = t \/ running' = running
            /\ out' = IF last_scheduled = t THEN None ELSE [kind |-> "SchedSwitch", tid |-> t]
    BY Zenon, <1>5, ResumeEffect DEF Core
  <2>2. CASE last_scheduled = t
    BY Zenon, <2>1, <2>2, Appends, TraceStays DEF SwitchInv
  <2>3. CASE last_scheduled # t
    <3>1. out' = [kind |-> "SchedSwitch", tid |-> t] /\ out' # None
      BY <2>1, <2>3 DEF Core, Base, TypeOK, Record
    <3> QED BY <2>1, <3>1, Appends, ScheduleGrows DEF SwitchInv
  <2> QED BY Zenon, <2>2, <2>3
<1>6. CASE HandleOK
  <2>1. last_scheduled' = last_scheduled /\ running' \in {running, None}
    BY Zenon, <1>6, HandleEffect, HandleRecord DEF Core, ClearRunning
  <2>2. CASE out' = None
    BY Zenon, <2>1, <2>2, Appends, TraceStays DEF SwitchInv
  <2>3. CASE out' # None
    <3>1. out'.kind # "SchedSwitch"
      BY <1>6, <2>3, HandleRecord
    <3> QED BY Zenon, <2>1, <2>3, <3>1, Appends, ScheduleGrows DEF SwitchInv
  <2> QED BY Zenon, <2>2, <2>3
<1> QED BY Zenon, <1>2, <1>3, <1>4, <1>5, <1>6, RunRecord DEF Step, Core

\* Nothing but its handler brings a thread's history to an end.
LEMMA HistoryStep ==
  ASSUME Core, TypeOK', BirthInv, HistoryInv, trace \in Seq(Record), Step, trace' = Appended
  PROVE  HistoryInv'
<1> USE ConstantsAssumption
<1>0. /\ threads \subseteq Tid /\ kern \in [Tid -> KState] /\ pending \subseteq threads
      /\ threads_followed \in Nat \ {0}
      /\ \A i \in DOMAIN trace : trace[i] \in Record /\ trace[i].tid \in Tid
  BY LenIs DEF Core, Base, TypeOK, Record
<1>1. ASSUME UNCHANGED <<threads, pending, threads_followed>>,
             \A u \in Tid : kern[u] = "gone" => kern'[u] = "gone",
             pc \in {"loop", "done"} /\ threads = {} => pc' \in {"loop", "done"},
             pc' = "done" => threads = {},
             out' # None => out'.kind = "SchedSwitch"
      PROVE  HistoryInv'
  <2>1. CASE out' = None
    <3>1. trace' = trace BY Zenon, <2>1, Appends
    <3> QED BY Zenon, <1>0, <1>1, <3>1, TraceStays DEF HistoryInv
  <2>2. CASE out' # None
    <3>1. Grows(out') /\ out'.tid \in threads /\ out'.kind = "SchedSwitch"
      BY Zenon, <1>1, <2>2, Appends, NewRecord
    <3>2. \A t : InSyscall(t, Now)' <=> InSyscall(t, Now) BY Zenon, <3>1, InSyscallGrows
    <3>3. \A i \in DOMAIN trace : ExitFollows(i) => ExitFollows(i)'
      BY Zenon, <3>1, ExitFollowsGrows
    <3>4. \A i \in DOMAIN trace' : (i \in DOMAIN trace /\ trace'[i] = trace[i]) \/ trace'[i] = out'
      BY Zenon, <3>1, OldOrNew
    <3> QED BY Zenon, <1>0, <1>1, <3>1, <3>2, <3>3, <3>4 DEF HistoryInv
  <2> QED BY Zenon, <2>1, <2>2
<1>2. ASSUME NEW t \in Tid, Tracee(t) PROVE HistoryInv'
  <2>1. out' = None /\ UNCHANGED <<pc, threads, pending, threads_followed>>
    BY Zenon, <1>2, TraceeRecord DEF schedVars
  <2>2. \A u \in Tid : kern[u] = "gone" => kern'[u] = "gone"
    BY Zenon, <1>2, TraceeEffect DEF Core, SelfStop, Deaths
  <2> QED BY Zenon, <1>1, <2>1, <2>2 DEF HistoryInv
<1>3. CASE AlarmMissed
  BY Zenon, <1>1, <1>3 DEF AlarmMissed, kernelVars, schedVars
<1>4. CASE Quiet /\ out' = None /\ pc = "loop" /\ threads = {} /\ pc' = "done"
  BY Zenon, <1>1, <1>4 DEF Quiet, schedVars
<1>5. CASE Quiet /\ out' = None /\ ~(pc = "loop" /\ threads = {}) /\ pc # "done" /\ pc' # "done"
  BY Zenon, <1>1, <1>5 DEF Quiet, schedVars
<1>6. ASSUME NEW t \in Tid, Wait(t), Idle, pc \in {"wait", "preempt"} PROVE HistoryInv'
  <2>1. \A u \in Tid : kern[u] = "gone" => kern'[u] = "gone"
    BY Zenon, <1>6, WaitEffect DEF Core, Stops, SpawnStops, Dead
  <2>2. pc' = "handle" /\ out' = None /\ UNCHANGED <<threads, pending, threads_followed>>
    BY Zenon, <1>6 DEF Wait, schedVars
  <2> QED BY Zenon, <1>1, <1>6, <2>1, <2>2
<1>7. CASE ResumeNext
  <2>1. PICK t \in threads : /\ UNCHANGED <<threads, pending, threads_followed>>
                             /\ \A u \in Tid \ {t} : kern'[u] = kern[u]
                             /\ kern[t] \in {"held"} \cup Dead
                             /\ out' = IF last_scheduled = t THEN None ELSE [kind |-> "SchedSwitch", tid |-> t]
    BY Zenon, <1>7, ResumeEffect DEF Core
  <2>2. \A u \in Tid : kern[u] = "gone" => kern'[u] = "gone"
    BY Zenon, <2>1 DEF Dead
  <2>3. threads # {} /\ pc' # "done" BY Zenon, <1>7 DEF ResumeNext
  <2> QED BY Zenon, <1>1, <2>1, <2>2, <2>3
<1>8. CASE HandleOK
  <2>0. PICK t \in Tid, what \in {status.what} : t = status.tid /\ what = status.what /\ status # None
    BY Zenon, <1>8, HandleEffect DEF Core
  <2>1. kern' = kern /\ pc = "handle" /\ pc' = "loop"
    BY Zenon, <1>8, HandleEffect, HandleRecord DEF Core
  <2>2. \A i \in DOMAIN trace : trace[i].tid \in threads \/ ExitFollows(i)
    BY Zenon, <2>1 DEF HistoryInv
  <2>3. ASSUME out' # None
        PROVE  /\ Grows(out') /\ out'.tid \in threads
               /\ \A i \in DOMAIN trace : ExitFollows(i) => ExitFollows(i)'
               /\ \A i \in DOMAIN trace' : (i \in DOMAIN trace /\ trace'[i] = trace[i]) \/ trace'[i] = out'
    <3>1. Grows(out') /\ out'.tid \in threads BY Zenon, <2>3, Appends, NewRecord
    <3>2. \A i \in DOMAIN trace : ExitFollows(i) => ExitFollows(i)'
      BY Zenon, <3>1, ExitFollowsGrows
    <3>3. \A i \in DOMAIN trace' : (i \in DOMAIN trace /\ trace'[i] = trace[i]) \/ trace'[i] = out'
      BY Zenon, <3>1, OldOrNew
    <3> QED BY Zenon, <3>1, <3>2, <3>3
  <2>4. CASE what \in Stops /\ t \in threads
    <3>1. /\ threads' = threads /\ threads_followed' = threads_followed
          /\ pending' = (IF what = "syscall" THEN PendingAfter(t) ELSE pending)
      BY Zenon, <1>8, <2>0, <2>4, HandleEffect, HandleRecord DEF Core, Stops, SpawnStops, Dead
    <3>2. what = "syscall" => out' = [kind |-> IF t \in pending THEN "SyscallExit" ELSE "SyscallEnter",
                                      tid |-> t]
      BY Zenon, <1>8, <2>0, HandleRecord DEF SpawnStops, Dead
    <3>3. what # "syscall" => out' = None \/ out'.kind \in {"ThreadSpawn", "Signal"}
      BY <1>8, <2>0, <2>4, HandleRecord DEF Stops, SpawnStops, Dead
    <3>4. CASE out' = None
      <4>1. trace' = trace /\ what # "syscall"
        BY <3>2, <3>4, <2>0, Appends DEF Record
      <4> QED BY Zenon, <2>1, <2>2, <3>1, <4>1, TraceStays DEF HistoryInv
    <3>5. CASE out' # None
      <4>1. \A u \in threads : u \in pending' <=> InSyscall(u, Now)'
        <5>1. \A u : InSyscall(u, Now)' <=>
                 \/ out'.kind = "SyscallEnter" /\ out'.tid = u
                 \/ InSyscall(u, Now) /\ ~(out'.kind = "SyscallExit" /\ out'.tid = u)
          BY Zenon, <2>3, <3>5, InSyscallGrows
        <5>2. CASE what = "syscall"
          BY <2>4, <3>1, <3>2, <5>1, <5>2 DEF HistoryInv, PendingAfter
        <5>3. CASE what # "syscall"
          BY Zenon, <3>1, <3>3, <3>5, <5>1, <5>3 DEF HistoryInv
        <5> QED BY Zenon, <5>2, <5>3
      <4>2. out'.kind # "ThreadExit" BY <3>2, <3>3, <3>5
      <4> QED BY Zenon, <2>1, <2>2, <2>3, <3>1, <3>5, <4>1, <4>2 DEF HistoryInv
    <3> QED BY Zenon, <3>4, <3>5
  <2>5. CASE what \in Stops /\ t \notin threads
    <3>1. kern[t] = "held" /\ threads' = threads \cup {t} /\ pending' = pending
          /\ out' = None /\ what = "sigstop"
      BY Zenon, <1>8, <2>0, <2>5, HandleEffect, HandleRecord DEF Core, Stops, SpawnStops, Dead, Ownership, Reporting
    <3>2. \A i \in DOMAIN trace : trace[i].tid # t BY Zenon, <2>5, <3>1 DEF HistoryInv
    <3>3. ~InSyscall(t, Now)
      BY <3>2, LenIs DEF InSyscall, Is, Now
    <3>4. trace' = trace BY Zenon, <3>1, Appends
    <3> QED BY Zenon, <1>0, <2>1, <2>2, <2>5, <3>1, <3>2, <3>3, <3>4, TraceStays DEF HistoryInv
  <2>6. CASE what \in Dead
    <3>1. kern[t] = "gone" /\ threads' = threads \ {t} /\ pending' = pending \ {t}
          /\ threads_followed' = threads_followed
          /\ out' = IF t \in threads /\ threads_followed > 1
                      THEN [kind |-> "ThreadExit", tid |-> t] ELSE None
      BY Zenon, <1>8, <2>0, <2>6, HandleEffect, HandleRecord DEF Core, Stops, SpawnStops, Dead, StatusFits, Reporting
    <3>2. CASE out' = None
      <4>1. trace' = trace BY Zenon, <3>2, Appends
      <4>2. t \notin threads \/ (threads_followed = 1 /\ threads' = {})
        <5>1. t \in threads => ~(threads_followed > 1)
          BY <3>1, <3>2 DEF Record
        <5> QED BY <1>0, <3>1, <5>1 DEF BirthInv
      <4> QED BY Zenon, <2>1, <2>2, <3>1, <4>1, <4>2, TraceStays DEF HistoryInv
    <3>3. CASE out' # None
      <4>1. out'.kind = "ThreadExit" /\ out'.tid = t BY Zenon, <3>1, <3>3
      <4>2. \A u : InSyscall(u, Now)' <=> InSyscall(u, Now)
        BY Zenon, <2>3, <3>3, <4>1, InSyscallGrows
      <4>3. \A i \in DOMAIN trace' : trace'[i].tid = t => ExitFollows(i)'
        BY <2>3, <3>3, <4>1, GrowsBy DEF ExitFollows, Is
      <4> QED BY Zenon, <2>1, <2>2, <2>3, <3>1, <3>3, <4>1, <4>2, <4>3 DEF HistoryInv
    <3> QED BY Zenon, <3>2, <3>3
  <2> QED BY Zenon, <2>0, <2>4, <2>5, <2>6 DEF Core, Base, TypeOK, WaitStatus
<1> QED BY Zenon, <1>2, <1>3, <1>4, <1>5, <1>6, <1>7, <1>8, RunRecord DEF Step, Core

-----------------------------------------------------------------------------
\* A record that is appended keeps what the records before it say, and is itself
\* announced, explained and in its place.
LEMMA PropertiesStep ==
  ASSUME Core, TypeOK', TraceInv, HistoryInv', Step, trace' = Appended
  PROVE  SpawnBeforeUse' /\ SwitchesExplain' /\ HistoriesWhole'
<1> USE ConstantsAssumption
<1> DEFINE Alternate == \A i \in DOMAIN trace :
              trace[i].kind \in {"SyscallEnter", "SyscallExit"} =>
                  (trace[i].kind = "SyscallExit" <=> InSyscall(trace[i].tid, i))
           ExitsLast == \A i, j \in DOMAIN trace :
              i < j /\ trace[i].kind = "ThreadExit" => trace[j].tid # trace[i].tid
<1>0. trace \in Seq(Record) /\ BirthInv BY Zenon DEF TraceInv
<1>1. ASSUME Alternate', ExitsLast' PROVE HistoriesWhole'
  BY <1>1 DEF HistoriesWhole, HistoryInv, ExitFollows
<1>2. CASE out' = None
  <2>1. trace' = trace BY Zenon, <1>0, <1>2, Appends
  <2>2. \A t, i : InSyscall(t, i)' <=> InSyscall(t, i) BY Zenon, <2>1 DEF InSyscall, Is
  <2>3. Alternate /\ ExitsLast BY Zenon DEF TraceInv, HistoriesWhole
  <2>4. Alternate' /\ ExitsLast' BY Zenon, <2>1, <2>2, <2>3
  <2> QED BY Zenon, <1>1, <2>1, <2>4, TraceStays DEF TraceInv
<1>3. CASE out' # None
  <2>0. PICK r : \E m \in Nat \ {0} : r = out' /\ m = Now BY <1>0, LenIs DEF Now
  <2> PICK n \in Nat \ {0} : r = out' /\ n = Now BY Zenon, <2>0
  <2>1. Grows(r) BY Zenon, <1>0, <1>3, Appends
  <2>2. /\ r.tid \in threads
        /\ r.tid = Leader \/ Spawned(r.tid, n)
        /\ r.kind \in Lifecycle \ {"ThreadSpawn"} => AnySpawn
        /\ r.kind \notin {"SchedSwitch", "ThreadExit"} => r.tid = running
        /\ r.kind \in {"SyscallEnter", "SyscallExit"} => (r.kind = "SyscallExit" <=> r.tid \in pending)
    BY Zenon, <1>0, <1>3, NewRecord
  <2>3. /\ DOMAIN trace = 1..(n - 1) /\ DOMAIN trace' = 1..n /\ trace'[n] = r
        /\ \A i \in 1..(n - 1) : trace'[i] = trace[i]
    BY Zenon, <2>1, GrowsBy
  <2>4. \A i \in 1..n : i = n \/ i \in 1..(n - 1) OBVIOUS
  <2>5. SpawnBeforeUse'
    <3>1. \A t, i : i \in 1..n => (Spawned(t, i)' <=> Spawned(t, i)) BY Zenon, <2>1, SpawnedGrows
    <3> SUFFICES ASSUME NEW i \in 1..n
                 PROVE  /\ trace'[i].tid = Leader \/ Spawned(trace[i].tid, i)'
                        /\ trace'[i].kind \in Lifecycle => \E j \in 1..i : trace'[j].kind = "ThreadSpawn"
      BY Zenon, <2>3 DEF SpawnBeforeUse
    <3>2. CASE i = n
      <4>1. AnySpawn => \E j \in 1..n : trace'[j].kind = "ThreadSpawn"
        BY <2>3 DEF AnySpawn
      <4> QED BY Zenon, <2>2, <2>3, <3>1, <3>2, <4>1
    <3>3. CASE i \in 1..(n - 1)
      <4>1. \A j \in 1..i : j \in 1..(n - 1) BY <3>3
      <4>2. /\ trace[i].tid = Leader \/ Spawned(trace[i].tid, i)
            /\ trace[i].kind \in Lifecycle => \E j \in 1..i : trace[j].kind = "ThreadSpawn"
        BY Zenon, <2>3, <3>3 DEF TraceInv, SpawnBeforeUse
      <4> QED BY Zenon, <2>3, <3>1, <3>3, <4>1, <4>2
    <3> QED BY Zenon, <2>4, <3>2, <3>3
  <2>6. SwitchesExplain'
    <3>1. \A i \in 1..n : ScheduledAt(i)' = ScheduledAt(i) BY Zenon, <2>1, ScheduleGrows
    <3>2. r.kind \notin {"SchedSwitch", "ThreadExit"} => r.tid = ScheduledAt(n)
      BY <2>2 DEF TraceInv, SwitchInv, Core, Base, TypeOK
    <3> QED BY Zenon, <2>3, <2>4, <3>1, <3>2 DEF TraceInv, SwitchesExplain
  <2>7. Alternate'
    <3>1. \A t, i : i \in 1..n => (InSyscall(t, i)' <=> InSyscall(t, i)) BY Zenon, <2>1, InSyscallGrows
    <3>2. r.tid \in pending <=> InSyscall(r.tid, n)
      BY Zenon, <2>2 DEF TraceInv, HistoryInv
    <3> QED BY <2>2, <2>3, <2>4, <3>1, <3>2 DEF TraceInv, HistoriesWhole
  <2>8. ExitsLast'
    <3>1. \A i \in 1..(n - 1) : trace[i].kind = "ThreadExit" => trace[i].tid # r.tid
      BY Zenon, <2>2, <2>3 DEF TraceInv, HistoryInv
    <3>2. \A i, j \in 1..(n - 1) : i < j /\ trace[i].kind = "ThreadExit" => trace[j].tid # trace[i].tid
      BY Zenon, <2>3 DEF TraceInv, HistoriesWhole
    <3>3. \A i, j \in 1..n : i < j => i \in 1..(n - 1) OBVIOUS
    <3> QED BY <2>3, <2>4, <3>1, <3>2, <3>3
  <2> QED BY Zenon, <1>1, <2>5, <2>6, <2>7, <2>8
<1> QED BY Zenon, <1>2, <1>3

\* A recording starts with an empty trace.
LEMMA TraceInitInv ==
  ASSUME TraceInit
  PROVE  IInv /\ TraceInv
<1> USE ConstantsAssumption
<1>1. IInv BY Zenon, InitInv DEF TraceInit
<1>2. trace = <<>> /\ Len(trace) = 0 /\ DOMAIN trace = {} /\ trace \in Seq(Record) /\ Now = 1
  BY EmptyIs, LenIs DEF TraceInit, Now
<1>3. BirthInv BY <1>2 DEF TraceInit, Init, BirthInv
<1>4. ScheduledAt(1) = Leader BY <1>2 DEF ScheduledAt
<1>5. SwitchInv BY Zenon, <1>2, <1>4 DEF TraceInit, Init, SwitchInv
<1>6. HistoryInv
  <2>1. \A t : ~InSyscall(t, 1) BY DEF InSyscall
  <2> QED BY Zenon, <1>2, <2>1 DEF TraceInit, Init, HistoryInv
<1>7. SpawnBeforeUse /\ SwitchesExplain /\ HistoriesWhole
  BY Zenon, <1>2 DEF SpawnBeforeUse, SwitchesExplain, HistoriesWhole
<1> QED BY Zenon, <1>1, <1>2, <1>3, <1>5, <1>6, <1>7 DEF TraceInv

\* The scheduler's invariant and the trace's are inductive together.
LEMMA TraceStepInv ==
  ASSUME IInv, TraceInv, [TraceNext]_traceVars
  PROVE  IInv' /\ TraceInv'
<1>1. [Next]_vars BY Zenon DEF TraceNext, TraceStep, Next, traceVars
<1>2. IInv' BY Zenon, <1>1, StepInv
<1>3. CASE TraceStep
  <2>1. Core /\ TypeOK' /\ Step /\ trace' = Appended /\ trace \in Seq(Record)
        /\ BirthInv /\ SwitchInv /\ HistoryInv
    BY Zenon, <1>2, <1>3 DEF IInv, Core, Base, TraceInv, TraceStep
  <2>2. trace' \in Seq(Record) BY Zenon, <2>1, Appends, GrowsBy
  <2>3. BirthInv' BY Zenon, <2>1, BirthStep
  <2>4. SwitchInv' BY Zenon, <2>1, SwitchStep
  <2>5. HistoryInv' BY Zenon, <2>1, HistoryStep
  <2>6. SpawnBeforeUse' /\ SwitchesExplain' /\ HistoriesWhole' BY Zenon, <2>1, <2>5, PropertiesStep
  <2> QED BY Zenon, <1>2, <2>2, <2>3, <2>4, <2>5, <2>6 DEF TraceInv
<1>4. CASE UNCHANGED traceVars \/ (Terminated /\ UNCHANGED trace)
  <2>1. UNCHANGED <<vars, trace>> BY Zenon, <1>4 DEF traceVars, Terminated
  <2> USE <2>1 DEF vars, kernelVars, schedVars
  <2>2. BirthInv' BY Zenon, TraceStays DEF TraceInv, BirthInv, Spawning, Reporting
  <2>3. SwitchInv' BY Zenon, TraceStays DEF TraceInv, SwitchInv
  <2>4. HistoryInv' BY Zenon, TraceStays DEF TraceInv, HistoryInv
  <2>5. SpawnBeforeUse' /\ SwitchesExplain' BY Zenon, TraceStays DEF TraceInv
  <2>6. HistoriesWhole' BY DEF TraceInv, HistoriesWhole, InSyscall, Is
  <2> QED BY Zenon, <1>2, <2>2, <2>3, <2>4, <2>5, <2>6 DEF TraceInv
<1> QED BY Zenon, <1>3, <1>4 DEF TraceNext

\* The inductive invariant of a recording with its trace.
THEOREM TraceInvariance == TraceSpec => [](IInv /\ TraceInv)
<1>1. TraceInit => IInv /\ TraceInv BY Zenon, TraceInitInv
<1>2. (IInv /\ TraceInv) /\ [TraceNext]_traceVars => (IInv /\ TraceInv)' BY Zenon, TraceStepInv
<1> QED BY <1>1, <1>2, PTL DEF TraceSpec

\* For any number of threads and records, a thread's ThreadSpawn is written before any
\* other record of it (on_event against on_stopped, whichever is waited for first),
\* and a recording that never spawned has no lifecycle record.
THEOREM SpawnsComeFirst == TraceSpec => []SpawnBeforeUse
<1>1. IInv /\ TraceInv => SpawnBeforeUse BY Zenon DEF TraceInv
<1> QED BY <1>1, TraceInvariance, PTL

\* The SchedSwitch records explain the interleaving of everything but deaths
\* (record_sched_switch leaves out a switch only when nothing changes).
THEOREM SwitchesTellTurns == TraceSpec => []SwitchesExplain
<1>1. IInv /\ TraceInv => SwitchesExplain BY Zenon DEF TraceInv
<1> QED BY <1>1, TraceInvariance, PTL

\* Every thread's records are a whole history: alternating syscalls, the ThreadExit
\* last, and one for each thread of a finished recording of several (on_exit).
THEOREM EveryHistoryWhole == TraceSpec => []HistoriesWhole
<1>1. IInv /\ TraceInv => HistoriesWhole BY Zenon DEF TraceInv
<1> QED BY <1>1, TraceInvariance, PTL
=============================================================================
