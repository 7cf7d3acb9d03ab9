------------------------- MODULE EbpfCaptureProofs -------------------------
(***************************************************************************)
(* Proofs that the eBPF collector loses nothing that reached the ring and  *)
(* pairs exits with their entries, and that what survives of its file is   *)
(* read back record by record, for any command line, threads, ring size    *)
(* and number of events.                                                   *)
(***************************************************************************)
EXTENDS EbpfCapture, TraceFileProofs

RingEvent == [bytes : {KIND_ENTER, KIND_EXIT} \X Tid \X Nat \X {0, 1},
              nr : Nat \cup {None}, paired : BOOLEAN]

KernelOK ==
    /\ in_syscall \in [Tid -> Nat \cup {None}] /\ reported \in [Tid -> BOOLEAN]
    /\ probes \in Nat /\ submitted \in Nat /\ pending_nr \in [Tid -> Nat \cup {None}]
    /\ EVENTS \in Seq(RingEvent)

\* Every event that reached the ring is in it or in the trace.
CountInv ==
    /\ pc # "given" => IsSequence(written) /\ IsSequence(history) /\ Len(written) = Len(history)
    /\ pc \notin Ended => /\ events_recorded = Len(written)
                          /\ Len(written) + Len(EVENTS) = submitted

EventOfThread(i, t) == EVENTS[i].bytes[2] = t

\* When drain_ready comes to event i, pending_nr has n for thread t: the last event of
\* t before it is the entry n, or there is none in the ring and n is there already.
Expects(t, i, n) ==
    \/ \E j \in 1..(i - 1) :
          /\ EventOfThread(j, t) /\ EVENTS[j].bytes[1] = KIND_ENTER /\ EVENTS[j].bytes[3] = n
          /\ \A k \in (j + 1)..(i - 1) : ~EventOfThread(k, t)
    \/ pending_nr[t] = n /\ \A k \in 1..(i - 1) : ~EventOfThread(k, t)

PairingInv ==
    /\ \A i \in DOMAIN EVENTS :
          IF EVENTS[i].bytes[1] = KIND_ENTER THEN EVENTS[i].bytes[3] = EVENTS[i].nr
          ELSE EVENTS[i].paired => Expects(EVENTS[i].bytes[2], i, EVENTS[i].nr)
    /\ \A t \in Tid : in_syscall[t] # None /\ reported[t] =>
          Expects(t, Len(EVENTS) + 1, in_syscall[t])

EndsOf(h) == \A i \in 1..Len(h) : h[i].end = After(i)

Before == {"attach", "spawn", "filter", "create"}

WriterInv ==
    pc # "given" =>
        /\ RecordsOf(written) /\ next_seq = Len(written) /\ EndsOf(history)
        /\ \/ stream = <<>> /\ Len(written) = 0 /\ pc \in Before \cup {"failed"}
           \/ /\ pc \notin Before /\ IsSequence(stream) /\ Holding(stream, written)
              /\ CutAfter(stream, After(Len(written)))
              /\ pc # "failed" => Len(stream) = After(Len(written))

\* How far the reader has come: past whole records only, and it stops with an error
\* only inside the header or inside a frame.
Copied(g, wr, m) == IsSequence(g) /\ Len(g) = m /\ \A i \in 1..m : g[i] = wr[i]

ReadTo(d, rd, m) ==
    /\ After(m) <= Len(d)
    /\ \/ rd = ReaderAt("open", After(m), LastOf(m))
       \/ rd = ReaderAt("Truncated", After(m), LastOf(m)) /\ After(m) < Len(d) /\ Len(d) < After(m + 1)

ReaderInv ==
    pc # "given" =>
        \/ reader = Closed /\ got = <<>>
        \/ /\ pc \in Ended /\ Survives(disk, stream)
           /\ \/ Len(disk) < Start /\ got = <<>> /\ reader.state \in {"BadMagic", "Truncated"}
              \/ \E m \in 0..Len(written) : Copied(got, written, m) /\ ReadTo(disk, reader, m)

CaptureInv == KernelOK /\ CountInv /\ PairingInv /\ ExitNamesItsEntry /\ NothingLeftInRing

-----------------------------------------------------------------------------
(* The ring.                                                               *)

\* An event at the end of the ring leaves the earlier ones where they are.
LEMMA RingGrows ==
  ASSUME NEW e, EVENTS \in Seq(RingEvent), e \in RingEvent, EVENTS' = Append(EVENTS, e)
  PROVE  /\ Len(EVENTS) \in Nat /\ Len(EVENTS') = Len(EVENTS) + 1 /\ EVENTS' \in Seq(RingEvent)
         /\ DOMAIN EVENTS = 1..Len(EVENTS) /\ DOMAIN EVENTS' = 1..(Len(EVENTS) + 1)
         /\ \A i \in 1..Len(EVENTS) : EVENTS'[i] = EVENTS[i]
         /\ EVENTS'[Len(EVENTS) + 1] = e
BY AppendProperties, LenProperties

\* Taking the first event moves the others up by one.
LEMMA RingShrinks ==
  ASSUME EVENTS \in Seq(RingEvent), EVENTS # <<>>, EVENTS' = Tail(EVENTS)
  PROVE  /\ Len(EVENTS) \in Nat \ {0} /\ Len(EVENTS') = Len(EVENTS) - 1 /\ EVENTS' \in Seq(RingEvent)
         /\ DOMAIN EVENTS = 1..Len(EVENTS) /\ DOMAIN EVENTS' = 1..(Len(EVENTS) - 1)
         /\ \A i \in 1..(Len(EVENTS) - 1) : EVENTS'[i] = EVENTS[i + 1]
         /\ Head(EVENTS) = EVENTS[1] /\ EVENTS[1] \in RingEvent
BY HeadTailProperties, LenProperties, EmptySeq

\* What an entry or exit at the end of the ring changes for the pairing.
LEMMA ExpectsGrows ==
  ASSUME NEW e, EVENTS \in Seq(RingEvent), e \in RingEvent, EVENTS' = Append(EVENTS, e),
         pending_nr' = pending_nr, NEW t, NEW n
  PROVE  /\ \A i \in 1..(Len(EVENTS) + 1) : Expects(t, i, n)' <=> Expects(t, i, n)
         /\ e.bytes[2] # t /\ Expects(t, Len(EVENTS) + 1, n) => Expects(t, Len(EVENTS) + 1, n)'
         /\ e.bytes[2] = t /\ e.bytes[1] = KIND_ENTER /\ e.bytes[3] = n => Expects(t, Len(EVENTS) + 1, n)'
<1>0. PICK m \in Nat : m = Len(EVENTS) BY Zenon, RingGrows
<1>1. /\ Len(EVENTS') = m + 1 /\ EVENTS'[m + 1] = e
      /\ \A i \in 1..m : EVENTS'[i] = EVENTS[i]
  BY Zenon, <1>0, RingGrows
<1>2. ASSUME NEW i \in 1..(m + 1) PROVE Expects(t, i, n)' <=> Expects(t, i, n)
  <2>1. \A j \in 1..(i - 1) : j \in 1..m /\ \A k \in (j + 1)..(i - 1) : k \in 1..m OBVIOUS
  <2> QED BY <1>1, <2>1 DEF Expects, EventOfThread
<1>3. ASSUME e.bytes[2] # t, Expects(t, m + 1, n) PROVE Expects(t, m + 2, n)'
  <2>1. ~EventOfThread(m + 1, t)' BY Zenon, <1>1, <1>3 DEF EventOfThread
  <2>2. \A k \in 1..m : EventOfThread(k, t)' <=> EventOfThread(k, t) BY Zenon, <1>1 DEF EventOfThread
  <2>3. CASE pending_nr[t] = n /\ \A k \in 1..m : ~EventOfThread(k, t)
    BY <2>1, <2>2, <2>3 DEF Expects
  <2>4. ASSUME NEW j \in 1..m, EventOfThread(j, t), EVENTS[j].bytes[1] = KIND_ENTER,
               EVENTS[j].bytes[3] = n, \A k \in (j + 1)..m : ~EventOfThread(k, t)
        PROVE  Expects(t, m + 2, n)'
    <3>1. /\ j \in 1..((m + 2) - 1)
          /\ \A k \in (j + 1)..((m + 2) - 1) : k = m + 1 \/ (k \in (j + 1)..m /\ k \in 1..m)
      OBVIOUS
    <3>2. \A k \in (j + 1)..((m + 2) - 1) : ~EventOfThread(k, t)' BY Zenon, <2>1, <2>2, <2>4, <3>1
    <3>3. EventOfThread(j, t)' /\ EVENTS'[j].bytes[1] = KIND_ENTER /\ EVENTS'[j].bytes[3] = n
      BY Zenon, <1>1, <2>2, <2>4
    <3> QED BY Zenon, <3>1, <3>2, <3>3 DEF Expects
  <2>5. (m + 1) - 1 = m OBVIOUS
  <2> QED BY Zenon, <1>3, <2>3, <2>4, <2>5 DEF Expects
<1>4. ASSUME e.bytes[2] = t, e.bytes[1] = KIND_ENTER, e.bytes[3] = n PROVE Expects(t, m + 2, n)'
  <2>1. m + 1 \in 1..((m + 2) - 1) /\ \A k \in ((m + 1) + 1)..((m + 2) - 1) : FALSE OBVIOUS
  <2>2. EventOfThread(m + 1, t)' BY Zenon, <1>1, <1>4 DEF EventOfThread
  <2> QED BY Zenon, <1>1, <1>4, <2>1, <2>2 DEF Expects
<1>5. Expects(t, Len(EVENTS) + 1, n)' <=> Expects(t, m + 2, n)'
  BY <1>1 DEF Expects
<1> QED BY Zenon, <1>0, <1>2, <1>3, <1>4, <1>5

\* drain_ready brings pending_nr up to date with the event it takes.
LEMMA ExpectsShrinks ==
  ASSUME KernelOK, EVENTS # <<>>, EVENTS' = Tail(EVENTS), pending_nr' = Pending(Next1),
         NEW t \in Tid, NEW n, NEW i \in 1..Len(EVENTS), Expects(t, i + 1, n)
  PROVE  Expects(t, i, n)'
<1>0. PICK m \in Nat \ {0} : m = Len(EVENTS) BY Zenon, RingShrinks DEF KernelOK
<1>1. /\ \A k \in 1..(m - 1) : EVENTS'[k] = EVENTS[k + 1]
      /\ Head(EVENTS) = EVENTS[1] /\ EVENTS[1] \in RingEvent
  BY Zenon, <1>0, RingShrinks DEF KernelOK
<1>2. \A k \in 1..(i - 1) : k \in 1..(m - 1) /\ k + 1 \in 2..i BY <1>0
<1>3. \A k \in 1..(i - 1) : EventOfThread(k, t)' <=> EventOfThread(k + 1, t)
  BY Zenon, <1>1, <1>2 DEF EventOfThread
<1>4. ~EventOfThread(1, t) => pending_nr'[t] = pending_nr[t]
  BY Zenon, <1>1 DEF EventOfThread, Pending, Next1, decode, KernelOK, RingEvent
<1>5. EventOfThread(1, t) /\ EVENTS[1].bytes[1] = KIND_ENTER => pending_nr'[t] = EVENTS[1].bytes[3]
  BY Zenon, <1>1 DEF EventOfThread, Pending, Next1, decode, KernelOK, RingEvent
<1>6. CASE pending_nr[t] = n /\ \A k \in 1..i : ~EventOfThread(k, t)
  BY <1>2, <1>3, <1>4, <1>6 DEF Expects
<1>7. ASSUME NEW j \in 1..i, EventOfThread(j, t), EVENTS[j].bytes[1] = KIND_ENTER,
             EVENTS[j].bytes[3] = n, \A k \in (j + 1)..i : ~EventOfThread(k, t)
      PROVE  Expects(t, i, n)'
  <2>1. CASE j = 1
    <3>1. \A k \in 1..(i - 1) : k + 1 \in (j + 1)..i BY <2>1
    <3>2. \A k \in 1..(i - 1) : ~EventOfThread(k, t)' BY Zenon, <1>3, <1>7, <3>1
    <3> QED BY Zenon, <1>5, <1>7, <2>1, <3>2 DEF Expects
  <2>2. CASE j # 1
    <3>1. /\ j - 1 \in 1..(i - 1) /\ (j - 1) + 1 = j
          /\ \A k \in ((j - 1) + 1)..(i - 1) : k \in 1..(i - 1) /\ k + 1 \in (j + 1)..i
      BY <2>2
    <3>2. EventOfThread(j - 1, t)' /\ EVENTS'[j - 1] = EVENTS[j] BY Zenon, <1>1, <1>2, <1>3, <1>7, <3>1
    <3>3. \A k \in ((j - 1) + 1)..(i - 1) : ~EventOfThread(k, t)' BY Zenon, <1>3, <1>7, <3>1
    <3> QED BY Zenon, <1>7, <3>1, <3>2, <3>3 DEF Expects
  <2> QED BY Zenon, <2>1, <2>2
<1> QED BY <1>6, <1>7 DEF Expects

-----------------------------------------------------------------------------
(* What the steps do to the ring.                                          *)

Submits(e) ==
    /\ e \in RingEvent /\ EVENTS' = Append(EVENTS, e) /\ submitted' = submitted + 1
Collector == <<pc, pending_nr, events_recorded, written, history>>

\* sys_enter puts the entry into the ring or counts it as unreported.
LEMMA EnterEffect ==
  ASSUME KernelOK, NEW t \in Tid, NEW readable \in BOOLEAN, sys_enter(t, readable)
  PROVE  /\ pc \notin Ended /\ UNCHANGED Collector
         /\ in_syscall' = [in_syscall EXCEPT ![t] = probes + 1] /\ probes' = probes + 1
         /\ \/ /\ reported' = [reported EXCEPT ![t] = TRUE]
               /\ Submits([bytes |-> <<KIND_ENTER, t, probes + 1, 0>>, nr |-> probes + 1, paired |-> TRUE])
            \/ reported' = [reported EXCEPT ![t] = FALSE] /\ UNCHANGED <<EVENTS, submitted>>
<1>1. /\ pc \notin Ended /\ UNCHANGED Collector /\ probes' = probes + 1
      /\ in_syscall' = [in_syscall EXCEPT ![t] = probes + 1]
  BY Zenon DEF sys_enter, Runs, Watched, Collector, writerVars
<1>2. CASE matching_target /\ readable /\ Fits
  <2> DEFINE e == [bytes |-> <<KIND_ENTER, t, probes + 1, 0>>, nr |-> probes + 1, paired |-> TRUE]
  <2>1. EVENTS' = Append(EVENTS, e) /\ submitted' = submitted + 1
    BY Zenon, <1>1, <1>2 DEF sys_enter, emit, encode
  <2>2. e \in RingEvent BY DEF RingEvent, KernelOK
  <2>3. reported' = [reported EXCEPT ![t] = TRUE]
    BY Zenon, <1>2 DEF sys_enter
  <2> QED BY Zenon, <1>1, <2>1, <2>2, <2>3 DEF Submits
<1>3. CASE ~(matching_target /\ readable /\ Fits)
  <2>1. reported' = [reported EXCEPT ![t] = FALSE]
    BY <1>3, Zenon DEF sys_enter
  <2>2. UNCHANGED <<EVENTS, submitted>>
    BY Zenon, <1>3 DEF sys_enter, emit
  <2> QED BY Zenon, <1>1, <2>1, <2>2
<1> QED BY Zenon, <1>2, <1>3

\* sys_exit puts the exit into the ring, marked with whether its entry got there.
LEMMA ExitEffect ==
  ASSUME KernelOK, NEW t \in Tid, sys_exit(t)
  PROVE  /\ pc \notin Ended /\ UNCHANGED <<Collector, reported>> /\ in_syscall[t] # None
         /\ in_syscall' = [in_syscall EXCEPT ![t] = None] /\ probes' = probes + 1
         /\ \/ Submits([bytes |-> <<KIND_EXIT, t, 0, 1>>, nr |-> in_syscall[t], paired |-> reported[t]])
            \/ UNCHANGED <<EVENTS, submitted>>
<1>1. /\ pc \notin Ended /\ UNCHANGED <<Collector, reported>> /\ probes' = probes + 1
      /\ in_syscall' = [in_syscall EXCEPT ![t] = None] /\ in_syscall[t] # None
  BY Zenon DEF sys_exit, Runs, Watched, Collector, writerVars
<1>2. CASE matching_target /\ Fits
  <2> DEFINE e == [bytes |-> <<KIND_EXIT, t, 0, 1>>, nr |-> in_syscall[t], paired |-> reported[t]]
  <2>1. EVENTS' = Append(EVENTS, e) /\ submitted' = submitted + 1
    BY Zenon, <1>2 DEF sys_exit, emit, encode
  <2>2. e \in RingEvent BY Zenon DEF RingEvent, KernelOK
  <2> QED BY Zenon, <1>1, <2>1, <2>2 DEF Submits
<1>3. CASE ~(matching_target /\ Fits)
  <2>1. UNCHANGED <<EVENTS, submitted>> BY Zenon, <1>3 DEF sys_exit, emit
  <2> QED BY Zenon, <1>1, <2>1
<1> QED BY Zenon, <1>2, <1>3

\* A step that takes an event from the ring, with or without writing it.
Takes ==
    /\ pc \in {"drain", "last"} /\ EVENTS # <<>> /\ EVENTS' = Tail(EVENTS)
    /\ pending_nr' = Pending(Next1) /\ UNCHANGED <<in_syscall, reported, probes, submitted>>

\* Steps that leave the ring and the trace alone.
Idles ==
    /\ UNCHANGED <<in_syscall, reported, probes, EVENTS, submitted, pending_nr, events_recorded,
                   written, history>>
    /\ pc \in Ended => pc' = pc
    /\ pc' = "done" => pc = "done" \/ (pc \notin Ended /\ EVENTS = <<>>)
    /\ pc' = "given" => pc = "given"

\* Reading starts after the capture's end.
Reopens ==
    /\ pc \in Ended /\ UNCHANGED <<pc, submitted, events_recorded, written, history>>
    /\ in_syscall' = NoSyscall /\ reported' = [t \in Tid |-> FALSE] /\ probes' = 0
    /\ EVENTS' = <<>> /\ pending_nr' = NoSyscall

\* Every step is one of these.
LEMMA StepKinds ==
  ASSUME Next
  PROVE  \/ \E t \in Tid : sys_exit(t) \/ \E readable \in BOOLEAN : sys_enter(t, readable)
         \/ Takes /\ DrainOne
         \/ Takes /\ pc' = "failed" /\ UNCHANGED <<events_recorded, written, history>>
         \/ Idles
         \/ Reopens
<1> USE DEF kernelVars, writerVars, readerVars, Rest, Goes, Ended
<1>1. ASSUME NEW how, TargetEnds(how) PROVE Idles BY Zenon, <1>1 DEF TargetEnds, Watched, Idles
<1>2. CASE LoadAndAttach BY Zenon, <1>2 DEF LoadAndAttach, Idles
<1>3. CASE Spawn BY Zenon, <1>3 DEF Spawn, Idles
<1>4. CASE configure_target BY Zenon, <1>4 DEF configure_target, Idles
<1>5. CASE CreateTrace BY Zenon, <1>5 DEF CreateTrace, Idles
<1>6. CASE DrainOne BY Zenon, <1>6 DEF DrainOne, Takes
<1>7. CASE AppendFails BY Zenon, <1>7 DEF AppendFails, Takes
<1>8. CASE DrainDone BY Zenon, <1>8 DEF DrainDone, Idles
<1>9. CASE WaitPid BY Zenon, <1>9 DEF WaitPid, AfterExit, Idles
<1>10. CASE Crash BY Zenon, <1>10 DEF Crash, Idles
<1>11. CASE Open BY Zenon, <1>11 DEF Open, Reopens
<1>12. CASE NextRecord BY Zenon, <1>12 DEF NextRecord, Idles
<1> QED BY Zenon, <1>1, <1>2, <1>3, <1>4, <1>5, <1>6, <1>7, <1>8, <1>9, <1>10, <1>11, <1>12 DEF Next, Recorder

-----------------------------------------------------------------------------
(* The invariant is inductive, layer by layer.                             *)

\* Types of what the probes and the collector share.
LEMMA KernelStep ==
  ASSUME KernelOK, Next
  PROVE  KernelOK'
<1>0. ASSUME \/ \E e : Submits(e)
             \/ UNCHANGED <<EVENTS, submitted>>
      PROVE  EVENTS' \in Seq(RingEvent) /\ submitted' \in Nat
  BY <1>0, RingGrows DEF Submits, KernelOK
<1>1. ASSUME NEW t \in Tid, sys_exit(t) PROVE KernelOK'
  <2>1. EVENTS' \in Seq(RingEvent) /\ submitted' \in Nat BY Zenon, <1>0, <1>1, ExitEffect
  <2>2. in_syscall' \in [Tid -> Nat \cup {None}] BY Zenon, <1>1, ExitEffect DEF KernelOK
  <2>3. probes' = probes + 1 /\ UNCHANGED <<pending_nr, reported>> BY Zenon, <1>1, ExitEffect DEF Collector
  <2> QED BY <2>1, <2>2, <2>3 DEF KernelOK
<1>2. ASSUME NEW t \in Tid, NEW readable \in BOOLEAN, sys_enter(t, readable) PROVE KernelOK'
  <2>1. EVENTS' \in Seq(RingEvent) /\ submitted' \in Nat BY Zenon, <1>0, <1>2, EnterEffect
  <2>2. reported' \in [Tid -> BOOLEAN] BY Zenon, <1>2, EnterEffect DEF KernelOK
  <2>3. in_syscall' \in [Tid -> Nat \cup {None}]
    <3>1. in_syscall' = [in_syscall EXCEPT ![t] = probes + 1] BY Zenon, <1>2, EnterEffect
    <3> QED BY <3>1 DEF KernelOK
  <2>4. probes' = probes + 1 /\ UNCHANGED pending_nr BY Zenon, <1>2, EnterEffect DEF Collector
  <2> QED BY <2>1, <2>2, <2>3, <2>4 DEF KernelOK
<1>3. CASE Takes
  <2>1. EVENTS' \in Seq(RingEvent) /\ Head(EVENTS) \in RingEvent
    BY Zenon, <1>3, RingShrinks DEF KernelOK, Takes
  <2>2. pending_nr' \in [Tid -> Nat \cup {None}]
    BY Zenon, <1>3, <2>1 DEF Takes, KernelOK, Pending, Next1, decode, RingEvent
  <2> QED BY Zenon, <1>3, <2>1, <2>2 DEF Takes, KernelOK
<1>4. CASE Idles BY Zenon, <1>4 DEF Idles, KernelOK
<1>5. CASE Reopens BY Zenon, <1>5, EmptySeq DEF Reopens, KernelOK, NoSyscall
<1> QED BY Zenon, <1>1, <1>2, <1>3, <1>4, <1>5, StepKinds

\* No event is lost or counted twice between the ring and the trace.
LEMMA CountStep ==
  ASSUME KernelOK, CountInv, NothingLeftInRing, Next
  PROVE  CountInv' /\ NothingLeftInRing'
<1>0. EVENTS \in Seq(RingEvent) /\ Len(EVENTS) \in Nat /\ submitted \in Nat
  BY Zenon, LenProperties DEF KernelOK
<1>1. ASSUME NEW e, Submits(e), UNCHANGED Collector, pc \notin Ended PROVE CountInv' /\ NothingLeftInRing'
  <2>1. pc # "given" /\ pc # "done" BY Zenon, <1>1 DEF Ended
  <2>2. Len(written) \in Nat BY Zenon, <2>1, SequenceGrows DEF CountInv
  <2>3. Len(EVENTS') = Len(EVENTS) + 1 BY Zenon, <1>0, <1>1, RingGrows DEF Submits
  <2> QED BY <1>0, <1>1, <2>1, <2>2, <2>3 DEF CountInv, NothingLeftInRing, Submits, Collector
<1>2. ASSUME UNCHANGED <<EVENTS, submitted>>, UNCHANGED Collector PROVE CountInv' /\ NothingLeftInRing'
  BY Zenon, <1>2 DEF CountInv, NothingLeftInRing, Collector
<1>3. ASSUME NEW t \in Tid, sys_exit(t) PROVE CountInv' /\ NothingLeftInRing'
  BY Zenon, <1>1, <1>2, <1>3, ExitEffect
<1>4. ASSUME NEW t \in Tid, NEW readable \in BOOLEAN, sys_enter(t, readable)
      PROVE  CountInv' /\ NothingLeftInRing'
  BY Zenon, <1>1, <1>2, <1>4, EnterEffect
<1>5. CASE Takes /\ DrainOne
  <2>1. pc \notin Ended /\ pc' = pc /\ submitted' = submitted /\ pc # "given"
    BY Zenon, <1>5 DEF Takes, DrainOne, Ended
  <2>2. Len(EVENTS') = Len(EVENTS) - 1 BY Zenon, <1>0, <1>5, RingShrinks DEF Takes
  <2>3. PICK x, y : written' = Append(written, x) /\ history' = Append(history, y)
    BY Zenon, <1>5 DEF DrainOne, append
  <2>4. /\ IsSequence(written') /\ IsSequence(history') /\ Len(written) \in Nat
        /\ Len(written') = Len(written) + 1 /\ Len(history') = Len(history) + 1
    BY Zenon, <2>1, <2>3, SequenceGrows DEF CountInv
  <2>5. events_recorded' = events_recorded + 1 BY Zenon, <1>5 DEF DrainOne
  <2> QED BY <1>0, <2>1, <2>2, <2>4, <2>5 DEF CountInv, NothingLeftInRing, Ended
<1>6. CASE Takes /\ pc' = "failed" /\ UNCHANGED <<events_recorded, written, history>>
  BY Zenon, <1>6 DEF CountInv, NothingLeftInRing, Ended, Takes
<1>7. CASE Idles
  <2>1. CountInv' BY Zenon, <1>7 DEF Idles, CountInv, Ended
  <2>2. ASSUME pc' = "done", pc # "done" PROVE Len(written) = submitted /\ events_recorded = submitted
    <3>1. pc \notin Ended /\ EVENTS = <<>> /\ pc # "given" BY Zenon, <1>7, <2>2 DEF Idles, Ended
    <3>2. Len(EVENTS) = 0 /\ Len(written) \in Nat BY Zenon, <3>1, EmptySeq, SequenceGrows DEF CountInv
    <3> QED BY <3>1, <3>2 DEF CountInv
  <2> QED BY Zenon, <1>7, <2>1, <2>2 DEF Idles, NothingLeftInRing
<1>8. CASE Reopens
  BY Zenon, <1>8 DEF Reopens, CountInv, NothingLeftInRing
<1> QED BY Zenon, <1>3, <1>4, <1>5, <1>6, <1>7, <1>8, StepKinds

\* Each exit in the ring will find its own entry in pending_nr when its turn comes.
LEMMA PairingStep ==
  ASSUME KernelOK, PairingInv, Next
  PROVE  PairingInv'
<1>0. PICK m \in Nat : m = Len(EVENTS) /\ DOMAIN EVENTS = 1..m
  BY Zenon, LenProperties DEF KernelOK
<1>1. ASSUME NEW e, Submits(e), pending_nr' = pending_nr,
             \/ e.bytes[1] = KIND_ENTER /\ e.bytes[3] = e.nr
             \/ e.bytes[1] = KIND_EXIT /\ (e.paired => Expects(e.bytes[2], m + 1, e.nr))
      PROVE  \A i \in DOMAIN EVENTS' :
                IF EVENTS'[i].bytes[1] = KIND_ENTER THEN EVENTS'[i].bytes[3] = EVENTS'[i].nr
                ELSE EVENTS'[i].paired => Expects(EVENTS[i].bytes[2], i, EVENTS[i].nr)'
  <2>1. /\ DOMAIN EVENTS' = 1..(m + 1) /\ EVENTS'[m + 1] = e
        /\ \A i \in 1..m : EVENTS'[i] = EVENTS[i]
    BY Zenon, <1>0, <1>1, RingGrows DEF Submits, KernelOK
  <2>2. \A i \in 1..(m + 1) : \A t, n : Expects(t, i, n)' <=> Expects(t, i, n)
    BY Zenon, <1>0, <1>1, ExpectsGrows DEF Submits, KernelOK
  <2>3. ASSUME NEW i \in 1..m
        PROVE  IF EVENTS'[i].bytes[1] = KIND_ENTER THEN EVENTS'[i].bytes[3] = EVENTS'[i].nr
               ELSE EVENTS'[i].paired => Expects(EVENTS[i].bytes[2], i, EVENTS[i].nr)'
    <3>1. IF EVENTS[i].bytes[1] = KIND_ENTER THEN EVENTS[i].bytes[3] = EVENTS[i].nr
          ELSE EVENTS[i].paired => Expects(EVENTS[i].bytes[2], i, EVENTS[i].nr)
      BY Zenon, <1>0 DEF PairingInv
    <3> QED BY <2>1, <2>2, <3>1
  <2>4. ASSUME NEW i \in {m + 1}
        PROVE  IF EVENTS'[i].bytes[1] = KIND_ENTER THEN EVENTS'[i].bytes[3] = EVENTS'[i].nr
               ELSE EVENTS'[i].paired => Expects(EVENTS[i].bytes[2], i, EVENTS[i].nr)'
    BY <1>1, <2>1, <2>2 DEF KIND_ENTER, KIND_EXIT
  <2>5. \A i \in 1..(m + 1) : i \in 1..m \/ i \in {m + 1} OBVIOUS
  <2> QED BY Zenon, <2>1, <2>3, <2>4, <2>5
<1>2. ASSUME NEW t \in Tid, sys_exit(t) PROVE PairingInv'
  <2>1. \A u \in Tid : in_syscall'[u] # None => u # t /\ in_syscall'[u] = in_syscall[u]
    BY Zenon, <1>2, ExitEffect DEF KernelOK
  <2>2. CASE UNCHANGED <<EVENTS, submitted>>
    <3>1. \A u, i, n : Expects(u, i, n)' <=> Expects(u, i, n)
      BY <1>2, <2>2, ExitEffect DEF Expects, EventOfThread, Collector
    <3> QED BY Zenon, <1>2, <2>1, <2>2, <3>1, ExitEffect DEF PairingInv
  <2>3. CASE ~UNCHANGED <<EVENTS, submitted>>
    <3>1. PICK e : /\ e = [bytes |-> <<KIND_EXIT, t, 0, 1>>, nr |-> in_syscall[t], paired |-> reported[t]]
                   /\ Submits(e)
      BY Zenon, <1>2, <2>3, ExitEffect
    <3>2. e.bytes[1] = KIND_EXIT /\ e.bytes[2] = t /\ (e.paired => Expects(t, m + 1, e.nr))
      BY Zenon, <1>0, <1>2, <3>1, ExitEffect DEF PairingInv
    <3>3. pending_nr' = pending_nr /\ reported' = reported BY Zenon, <1>2, ExitEffect DEF Collector
    <3>4. ASSUME NEW u \in Tid, in_syscall'[u] # None, reported'[u], NEW n, n = in_syscall'[u]
          PROVE  Expects(u, Len(EVENTS) + 1, n)'
      <4>1. u # t /\ Expects(u, Len(EVENTS) + 1, n) BY Zenon, <2>1, <3>3, <3>4 DEF PairingInv
      <4> QED BY Zenon, <3>1, <3>2, <3>3, <4>1, ExpectsGrows DEF Submits, KernelOK
    <3> QED BY Zenon, <1>1, <3>1, <3>2, <3>3, <3>4 DEF PairingInv
  <2> QED BY Zenon, <2>2, <2>3
<1>3. ASSUME NEW t \in Tid, NEW readable \in BOOLEAN, sys_enter(t, readable) PROVE PairingInv'
  <2>0. pending_nr' = pending_nr BY Zenon, <1>3, EnterEffect DEF Collector
  <2>1. \A u \in Tid \ {t} : in_syscall'[u] = in_syscall[u] /\ reported'[u] = reported[u]
    <3>1. PICK b \in BOOLEAN : reported' = [reported EXCEPT ![t] = b] BY Zenon, <1>3, EnterEffect
    <3>2. in_syscall' = [in_syscall EXCEPT ![t] = probes + 1] BY Zenon, <1>3, EnterEffect
    <3> QED BY Zenon, <3>1, <3>2 DEF KernelOK
  <2>2. CASE reported' = [reported EXCEPT ![t] = FALSE] /\ UNCHANGED <<EVENTS, submitted>>
    <3>1. \A u, i, n : Expects(u, i, n)' <=> Expects(u, i, n)
      BY <2>0, <2>2 DEF Expects, EventOfThread
    <3>2. ~reported'[t] BY Zenon, <2>2 DEF KernelOK
    <3> QED BY Zenon, <2>1, <2>2, <3>1, <3>2 DEF PairingInv
  <2>3. CASE ~(reported' = [reported EXCEPT ![t] = FALSE] /\ UNCHANGED <<EVENTS, submitted>>)
    <3>1. PICK e : /\ e = [bytes |-> <<KIND_ENTER, t, probes + 1, 0>>, nr |-> probes + 1, paired |-> TRUE]
                   /\ Submits(e)
      BY Zenon, <1>3, <2>3, EnterEffect
    <3>2. e.bytes[1] = KIND_ENTER /\ e.bytes[2] = t /\ e.bytes[3] = e.nr /\ e.nr = probes + 1 BY Zenon, <3>1
    <3>3. in_syscall'[t] = probes + 1 BY Zenon, <1>3, EnterEffect DEF KernelOK
    <3>4. ASSUME NEW u \in Tid, in_syscall'[u] # None, reported'[u], NEW n, n = in_syscall'[u]
          PROVE  Expects(u, Len(EVENTS) + 1, n)'
      <4>1. CASE u = t BY <2>0, <3>1, <3>2, <3>3, <3>4, <4>1, ExpectsGrows DEF Submits, KernelOK
      <4>2. CASE u # t
        <5>1. Expects(u, Len(EVENTS) + 1, n) BY Zenon, <2>1, <3>4, <4>2 DEF PairingInv
        <5> QED BY Zenon, <2>0, <3>1, <3>2, <4>2, <5>1, ExpectsGrows DEF Submits, KernelOK
      <4> QED BY Zenon, <4>1, <4>2
    <3> QED BY Zenon, <1>1, <2>0, <3>1, <3>2, <3>4 DEF PairingInv
  <2> QED BY Zenon, <2>2, <2>3
<1>4. CASE Takes
  <2>1. /\ Len(EVENTS') = m - 1 /\ DOMAIN EVENTS' = 1..(m - 1) /\ m \in Nat \ {0}
        /\ \A i \in 1..(m - 1) : EVENTS'[i] = EVENTS[i + 1] /\ EVENTS[i + 1] \in RingEvent
    BY <1>0, <1>4, RingShrinks, LenProperties DEF Takes, KernelOK
  <2>2. ASSUME NEW t \in Tid, NEW n, NEW i \in 1..m, Expects(t, i + 1, n)
        PROVE  Expects(t, i, n)'
    BY Zenon, <1>0, <1>4, <2>2, ExpectsShrinks DEF Takes
  <2>3. ASSUME NEW i \in 1..(m - 1)
        PROVE  IF EVENTS'[i].bytes[1] = KIND_ENTER THEN EVENTS'[i].bytes[3] = EVENTS'[i].nr
               ELSE EVENTS'[i].paired => Expects(EVENTS[i].bytes[2], i, EVENTS[i].nr)'
    <3>1. PICK e \in RingEvent : e = EVENTS[i + 1] /\ e = EVENTS'[i] BY Zenon, <2>1
    <3>2. i \in 1..m /\ i + 1 \in 1..m /\ e.bytes[2] \in Tid BY <2>1, <3>1 DEF RingEvent
    <3>3. IF e.bytes[1] = KIND_ENTER THEN e.bytes[3] = e.nr
          ELSE e.paired => Expects(e.bytes[2], i + 1, e.nr)
      BY Zenon, <1>0, <3>1, <3>2 DEF PairingInv
    <3> QED BY Zenon, <2>2, <3>1, <3>2, <3>3
  <2>4. ASSUME NEW t \in Tid, in_syscall[t] # None, reported[t], NEW n, n = in_syscall[t]
        PROVE  Expects(t, Len(EVENTS) + 1, n)'
    <3>1. Expects(t, m, n)' BY <1>0, <2>1, <2>2, <2>4 DEF PairingInv
    <3>2. Expects(t, Len(EVENTS) + 1, n)' <=> Expects(t, m, n)'
      <4>1. Len(EVENTS') + 1 = m BY <2>1
      <4> QED BY Zenon, <4>1 DEF Expects
    <3> QED BY Zenon, <3>1, <3>2
  <2> QED BY Zenon, <1>4, <2>1, <2>3, <2>4 DEF PairingInv, Takes
<1>5. CASE Idles
  <2>1. \A u, i, n : Expects(u, i, n)' <=> Expects(u, i, n)
    BY <1>5 DEF Idles, Expects, EventOfThread
  <2> QED BY Zenon, <1>5, <2>1 DEF Idles, PairingInv
<1>6. CASE Reopens
  BY <1>6, EmptySeq DEF Reopens, PairingInv, NoSyscall
<1> QED BY Zenon, <1>2, <1>3, <1>4, <1>5, <1>6, StepKinds

\* The record drain_ready writes carries the number of the event's own syscall.
LEMMA NamesStep ==
  ASSUME KernelOK, CountInv, PairingInv, ExitNamesItsEntry, Next
  PROVE  ExitNamesItsEntry'
<1>1. CASE UNCHANGED <<written, history>>
  BY Zenon, <1>1 DEF ExitNamesItsEntry
<1>2. CASE Takes /\ DrainOne
  <2> DEFINE ev == EVENTS[1]
             n == Len(history)
  <2>1. Head(EVENTS) = ev /\ ev \in RingEvent /\ 1 \in DOMAIN EVENTS
    <3>1. Len(EVENTS) \in Nat \ {0} /\ DOMAIN EVENTS = 1..Len(EVENTS) /\ Head(EVENTS) = ev /\ ev \in RingEvent
      BY Zenon, <1>2, RingShrinks DEF Takes, KernelOK
    <3> QED BY <3>1
  <2> DEFINE raw == [kind |-> ev.bytes[1], tid |-> ev.bytes[2], nr |-> ev.bytes[3], ret |-> ev.bytes[4]]
  <2>2. Next1 = raw BY Zenon, <2>1 DEF Next1, decode
  <2>3. ASSUME ev.paired, ev.nr # None PROVE Numbered(raw) = ev.nr
    <3>1. CASE ev.bytes[1] = KIND_ENTER BY Zenon, <2>1, <3>1 DEF Numbered, PairingInv
    <3>2. CASE ev.bytes[1] # KIND_ENTER
      <4>1. Expects(ev.bytes[2], 1, ev.nr) BY Zenon, <2>1, <2>3, <3>2 DEF PairingInv
      <4>2. pending_nr[ev.bytes[2]] = ev.nr BY <4>1 DEF Expects
      <4> QED BY Zenon, <2>3, <3>2, <4>2 DEF Numbered
    <3> QED BY Zenon, <3>1, <3>2
  <2> HIDE DEF raw
  <2>4. EventOf(raw).payload[1] = Numbered(raw) BY Zenon DEF EventOf
  <2>5. PICK x, y : /\ written' = Append(written, x) /\ history' = Append(history, y)
                    /\ x.event = EventOf(raw) /\ y.nr = IF ev.paired THEN ev.nr ELSE None
    <3> DEFINE x == [seq |-> next_seq, event |-> EventOf(raw)]
               y == [nr |-> IF ev.paired THEN ev.nr ELSE None, end |-> Len(stream')]
    <3>1. written' = Append(written, x) /\ history' = Append(history, y)
      BY Zenon, <1>2, <2>1, <2>2 DEF DrainOne, append
    <3>2. x.event = EventOf(raw) /\ y.nr = IF ev.paired THEN ev.nr ELSE None BY Zenon
    <3> QED BY Zenon, <3>1, <3>2
  <2>6. pc # "given" BY Zenon, <1>2 DEF Takes
  <2>7. n \in Nat /\ Len(written) = n /\ IsSequence(written) /\ IsSequence(history)
    BY Zenon, <2>6, SequenceGrows DEF CountInv
  <2>8. /\ DOMAIN history = 1..n /\ DOMAIN history' = 1..(n + 1)
        /\ \A i \in 1..n : history'[i] = history[i] /\ written'[i] = written[i]
        /\ history'[n + 1] = y /\ written'[n + 1] = x
    BY <2>5, <2>7, SequenceGrows
  <2>9. \A i \in 1..(n + 1) : i \in 1..n \/ i = n + 1 BY <2>7
  <2>10. y.nr # None => x.event.payload[1] = y.nr BY Zenon, <2>3, <2>4, <2>5
  <2> HIDE DEF n, ev
  <2> QED BY Zenon, <2>8, <2>9, <2>10 DEF ExitNamesItsEntry
<1>3. ASSUME NEW t \in Tid, sys_exit(t) \/ \E readable \in BOOLEAN : sys_enter(t, readable)
      PROVE  UNCHANGED <<written, history>>
  BY Zenon, <1>3 DEF sys_exit, sys_enter, writerVars
<1> QED BY Zenon, <1>1, <1>2, <1>3, StepKinds DEF Idles, Reopens

-----------------------------------------------------------------------------
(* The writer's invariant.                                                 *)

\* A step that touches neither the file nor the reader.
PlainMove ==
    /\ pc \notin Ended /\ pc' # "given"
    /\ pc \in Before => pc' \in Before \cup {"failed"}
    /\ pc \notin Before => pc' \notin Before
    /\ UNCHANGED <<writerVars, readerVars>>

\* Each step appends to the file, fails to, creates it, reads it, or leaves it alone.
LEMMA FileSteps ==
  ASSUME Next
  PROVE  PlainMove \/ CreateTrace \/ DrainOne \/ AppendFails \/ Open \/ NextRecord
<1> USE DEF readerVars, Rest, Goes, Ended, Before
<1>1. ASSUME NEW t, sys_exit(t) PROVE PlainMove BY Zenon, <1>1 DEF sys_exit, Runs, Watched, PlainMove
<1>2. ASSUME NEW t, NEW readable, sys_enter(t, readable) PROVE PlainMove
  BY Zenon, <1>2 DEF sys_enter, Runs, Watched, PlainMove
<1>3. ASSUME NEW how, TargetEnds(how) PROVE PlainMove BY Zenon, <1>3 DEF TargetEnds, Watched, PlainMove
<1>4. CASE LoadAndAttach BY Zenon, <1>4 DEF LoadAndAttach, PlainMove
<1>5. CASE Spawn BY Zenon, <1>5 DEF Spawn, PlainMove
<1>6. CASE configure_target BY Zenon, <1>6 DEF configure_target, PlainMove
<1>7. CASE DrainDone BY Zenon, <1>7 DEF DrainDone, PlainMove
<1>8. CASE WaitPid BY Zenon, <1>8 DEF WaitPid, AfterExit, PlainMove
<1>9. CASE Crash BY Zenon, <1>9 DEF Crash, PlainMove
<1> QED BY Zenon, <1>1, <1>2, <1>3, <1>4, <1>5, <1>6, <1>7, <1>8, <1>9 DEF Next, Recorder

\* What drain_ready makes of the first event of the ring is a captured event.
LEMMA EventIs ==
  ASSUME KernelOK, EVENTS # <<>>
  PROVE  EventOf(Next1) \in Captured
<1>1. PICK h \in RingEvent : h = Head(EVENTS)
  <2>a. EVENTS \in Seq(RingEvent) BY Zenon DEF KernelOK
  <2>1. Head(EVENTS) \in RingEvent BY Zenon, <2>a, HeadTailProperties
  <2> QED BY Zenon, <2>1
<1>2. PICK k \in {KIND_ENTER, KIND_EXIT}, t \in Tid, n \in Nat, r \in {0, 1} : h.bytes = <<k, t, n, r>>
  <2>1. h.bytes \in {KIND_ENTER, KIND_EXIT} \X Tid \X Nat \X {0, 1} BY DEF RingEvent
  <2>2. PICK b \in {KIND_ENTER, KIND_EXIT} \X Tid \X Nat \X {0, 1} : b = h.bytes BY Zenon, <2>1
  <2>3. /\ b = <<b[1], b[2], b[3], b[4]>> /\ b[1] \in {KIND_ENTER, KIND_EXIT} /\ b[2] \in Tid
        /\ b[3] \in Nat /\ b[4] \in {0, 1}
    OBVIOUS
  <2> QED BY Zenon, <2>2, <2>3
<1>3. Next1 = [kind |-> k, tid |-> t, nr |-> n, ret |-> r]
  <2>1. PICK b : b = h.bytes BY Zenon
  <2>2. b = <<k, t, n, r>> BY Zenon, <1>2, <2>1
  <2>3. b[1] = k /\ b[2] = t /\ b[3] = n /\ b[4] = r BY <2>2
  <2> QED BY Zenon, <1>1, <2>1, <2>3 DEF Next1, decode
<1>4. PICK raw : raw = Next1 BY Zenon
<1>5. raw.kind = k /\ raw.tid = t /\ raw.nr = n /\ raw.ret = r
  <2>1. raw = [kind |-> k, tid |-> t, nr |-> n, ret |-> r] BY Zenon, <1>3, <1>4
  <2> QED BY <2>1
<1>6. Numbered(raw) \in Nat
  <2>1. pending_nr[t] \in Nat \cup {None} /\ 0 \in Nat BY Zenon DEF KernelOK
  <2> QED BY Zenon, <1>5, <2>1 DEF Numbered
<1>7. KindOf(raw) \in {"SyscallEnter", "SyscallExit"} BY Zenon DEF KindOf
<1>8. PICK x, y : x = KindOf(raw) /\ y = Numbered(raw) BY Zenon
<1>9. EventOf(raw) = [tid |-> t, kind |-> [name |-> x, raw |-> 0], payload |-> <<y, r>>]
  BY Zenon, <1>5, <1>8 DEF EventOf
<1>10. [tid |-> t, kind |-> [name |-> x, raw |-> 0], payload |-> <<y, r>>] \in Captured
  <2>1. t \in Nat BY CaptureAssumption, FormatAssumption DEF Cell
  <2> QED BY <1>6, <1>7, <1>8, <2>1 DEF Captured
<1> QED BY Zenon, <1>4, <1>9, <1>10

\* A record is appended, whole or in part.
LEMMA WriterAppends ==
  ASSUME KernelOK, CountInv, WriterInv, DrainOne
  PROVE  WriterInv'
<1>1. pc # "given" /\ pc \notin Before /\ pc # "failed" /\ pc' = pc BY Zenon DEF DrainOne, Before
<1>2. PICK n \in Nat : /\ n = Len(written) /\ n = Len(history) /\ n = next_seq
                       /\ IsSequence(written) /\ IsSequence(history)
  <2>1. IsSequence(written) /\ IsSequence(history) /\ Len(written) = Len(history) BY Zenon, <1>1 DEF CountInv
  <2>2. Len(written) \in Nat BY Zenon, <2>1, SequenceGrows
  <2> QED BY Zenon, <1>1, <2>1, <2>2 DEF WriterInv
<1>3. /\ RecordsOf(written) /\ EndsOf(history) /\ IsSequence(stream) /\ Holding(stream, written)
      /\ Len(stream) = After(n)
  BY Zenon, <1>1, <1>2 DEF WriterInv
<1>4. PICK e \in Captured : e = EventOf(Next1) BY Zenon, EventIs DEF DrainOne
<1>5. PICK r : r = [seq |-> n, event |-> e] BY Zenon
<1>6. /\ RecordCells(r) = Frame(encode_body(n, e)) /\ IsSequence(RecordCells(r)) /\ Len(RecordCells(r)) = 9
  BY Zenon, <1>5, CapturedCells
<1>7. PICK y : /\ stream' = stream \o RecordCells(r) /\ written' = Append(written, r) /\ next_seq' = n + 1
               /\ history' = Append(history, y) /\ y.end = Len(stream')
  <2>1. PICK x : history' = Append(history, [nr |-> x, end |-> Len(stream')]) BY Zenon DEF DrainOne
  <2>2. [nr |-> x, end |-> Len(stream')].end = Len(stream') OBVIOUS
  <2>3. stream' = stream \o RecordCells(r) /\ written' = Append(written, r) /\ next_seq' = n + 1
    BY Zenon, <1>2, <1>4, <1>5, <1>6 DEF DrainOne, append
  <2> QED BY Zenon, <2>1, <2>2, <2>3
<1>8. Holding(stream', written') /\ IsSequence(stream') /\ Len(stream') = After(n + 1)
  <2>1. Grown(stream \o RecordCells(r), Append(written, r), After(Len(written) + 1))
    <3>1. Len(stream) = After(Len(written)) BY Zenon, <1>2, <1>3
    <3> QED BY Zenon, <1>2, <1>3, <1>6, <3>1, HoldingGrows
  <2> QED BY Zenon, <1>2, <1>7, <2>1 DEF Grown
<1>9. Len(written') = n + 1 /\ RecordsOf(written')
  <2>1. PICK w : w = Append(written, r) BY Zenon
  <2>a. IsAppend(written, r, w) BY Zenon, <1>2, <2>1, AppendIs
  <2>2. Len(w) = n + 1 /\ (\A i \in 1..n : w[i] = written[i]) /\ w[n + 1] = r BY Zenon, <1>2, <2>a DEF IsAppend
  <2>3. \A i \in 1..(n + 1) : i \in 1..n \/ i = n + 1 OBVIOUS
  <2>4. (n + 1) - 1 = n OBVIOUS
  <2>5. ASSUME NEW i \in 1..(n + 1) PROVE \E c \in Captured : w[i] = [seq |-> i - 1, event |-> c]
    <3>1. CASE i \in 1..n BY Zenon, <1>2, <1>3, <2>2, <3>1 DEF RecordsOf
    <3>2. CASE i = n + 1 BY Zenon, <1>5, <2>2, <2>4, <3>2
    <3> QED BY Zenon, <2>3, <3>1, <3>2
  <2>6. RecordsOf(w) BY Zenon, <2>2, <2>5 DEF RecordsOf
  <2> QED BY Zenon, <1>7, <2>1, <2>2, <2>6
<1>10. EndsOf(history')
  <2>1. PICK h : h = Append(history, y) BY Zenon
  <2>a. IsAppend(history, y, h) BY Zenon, <1>2, <2>1, AppendIs
  <2>2. Len(h) = n + 1 /\ (\A i \in 1..n : h[i] = history[i]) /\ h[n + 1] = y BY Zenon, <1>2, <2>a DEF IsAppend
  <2>3. \A i \in 1..(n + 1) : i \in 1..n \/ i = n + 1 OBVIOUS
  <2>4. ASSUME NEW i \in 1..(n + 1) PROVE h[i].end = After(i)
    <3>1. CASE i \in 1..n BY Zenon, <1>2, <1>3, <2>2, <3>1 DEF EndsOf
    <3>2. CASE i = n + 1 BY Zenon, <1>7, <1>8, <2>2, <3>2
    <3> QED BY Zenon, <2>3, <3>1, <3>2
  <2>5. EndsOf(h) BY Zenon, <2>2, <2>4 DEF EndsOf
  <2> QED BY Zenon, <1>7, <2>1, <2>5
<1>11. CutAfter(stream', After(Len(written')))
  <2>a. PICK p \in Nat : p = After(n + 1)
    <3>1. n + 1 \in Nat OBVIOUS
    <3>2. After(n + 1) \in Nat BY Zenon, <3>1, AfterIs
    <3> QED BY Zenon, <3>2
  <2>1. PICK s : s = stream' /\ p = After(n + 1) /\ Len(s) = p BY Zenon, <1>8, <2>a
  <2>2. ~(p > p) OBVIOUS
  <2>3. CutAfter(s, p) BY Zenon, <2>1, <2>2 DEF CutAfter
  <2> QED BY Zenon, <1>9, <2>1, <2>3
<1> QED BY Zenon, <1>1, <1>7, <1>8, <1>9, <1>10, <1>11 DEF WriterInv

\* A write that fails leaves a piece of one frame behind the whole ones.
LEMMA WriterFails ==
  ASSUME KernelOK, CountInv, WriterInv, AppendFails
  PROVE  WriterInv'
<1>1. pc # "given" /\ pc \notin Before /\ pc # "failed" /\ pc' = "failed" /\ "failed" \notin Before
  BY Zenon DEF AppendFails, Before
<1>2. /\ RecordsOf(written) /\ next_seq = Len(written) /\ EndsOf(history)
      /\ IsSequence(stream) /\ Holding(stream, written) /\ Len(stream) = After(Len(written))
      /\ IsSequence(written)
  BY Zenon, <1>1 DEF WriterInv, CountInv
<1>3. PICK b : b = encode_body(next_seq, EventOf(Next1)) BY Zenon
<1>4. IsSequence(b) /\ Len(b) = 5
  <2>1. PICK e \in Captured : e = EventOf(Next1) BY Zenon, EventIs DEF AppendFails
  <2>2. IsBody(next_seq, e, b) BY Zenon, <1>3, <2>1, BodyIs
  <2> QED BY Zenon, <2>2 DEF IsBody
<1>5. stream' \in {stream, stream \o FrameParts(b)[1], stream \o FrameParts(b)[1] \o FrameParts(b)[2]}
  BY Zenon, <1>3 DEF AppendFails
<1>6. IsSequence(stream') /\ Holding(stream', written) /\ CutAfter(stream', After(Len(written)))
  <2>1. PICK u : u = stream' BY Zenon
  <2>2. u \in {stream, stream \o FrameParts(b)[1], stream \o FrameParts(b)[1] \o FrameParts(b)[2]}
    BY Zenon, <1>5, <2>1
  <2>3. IsSequence(u) /\ Holding(u, written) /\ CutAfter(u, After(Len(written)))
    BY Zenon, <1>2, <1>4, <2>2, CutFrame
  <2> QED BY Zenon, <2>1, <2>3
<1>7. written' = written /\ next_seq' = next_seq /\ history' = history BY Zenon DEF AppendFails
<1> QED BY Zenon, <1>1, <1>2, <1>6, <1>7 DEF WriterInv

\* Every step keeps the writer's invariant.
LEMMA WriterStep ==
  ASSUME KernelOK, CountInv, WriterInv, Next
  PROVE  WriterInv'
<1>1. CASE PlainMove
  <2>1. /\ pc # "given" /\ pc # "failed" /\ pc' # "given"
        /\ stream' = stream /\ next_seq' = next_seq /\ written' = written /\ history' = history
    BY Zenon, <1>1 DEF PlainMove, Ended, writerVars
  <2>2. /\ pc \in Before => pc' \in Before \cup {"failed"}
        /\ pc \notin Before => pc' \notin Before
    BY Zenon, <1>1 DEF PlainMove
  <2>3. RecordsOf(written) /\ next_seq = Len(written) /\ EndsOf(history) BY Zenon, <2>1 DEF WriterInv
  <2>4. CASE stream = <<>> /\ Len(written) = 0 /\ pc \in Before \cup {"failed"}
    <3>1. pc' \in Before \cup {"failed"} BY Zenon, <2>1, <2>2, <2>4
    <3> QED BY Zenon, <2>1, <2>3, <2>4, <3>1 DEF WriterInv
  <2>5. CASE /\ pc \notin Before /\ IsSequence(stream) /\ Holding(stream, written)
             /\ CutAfter(stream, After(Len(written))) /\ Len(stream) = After(Len(written))
    BY Zenon, <2>1, <2>2, <2>3, <2>5 DEF WriterInv
  <2> QED BY Zenon, <2>1, <2>4, <2>5 DEF WriterInv
<1>2. CASE CreateTrace
  <2>1. /\ pc = "create" /\ pc # "given" /\ pc \in Before /\ pc' \in {"drain", "failed"} /\ pc' # "given"
        /\ pc' \notin Before /\ next_seq' = next_seq /\ written' = written /\ history' = history
    BY Zenon, <1>2 DEF CreateTrace, Goes, Before
  <2>2. /\ RecordsOf(written) /\ next_seq = Len(written) /\ EndsOf(history) /\ Len(written) = 0
    BY Zenon, <2>1 DEF WriterInv
  <2>3. CASE stream' = <<>> /\ pc' = "failed" BY Zenon, <2>1, <2>2, <2>3 DEF WriterInv
  <2>4. CASE stream' = Header
    <3>1. IsSequence(Header) /\ Len(Header) = Start BY Zenon, HeaderIs
    <3>2. PICK p \in Nat : p = After(0) /\ p = Start
      <4>1. 0 \in Nat OBVIOUS
      <4> QED BY Zenon, <4>1, AfterIs
    <3>3. ~(p > p) /\ \A i \in 1..0 : FALSE OBVIOUS
    <3>4. CutAfter(Header, p) BY Zenon, <3>1, <3>2, <3>3 DEF CutAfter
    <3>5. Holding(Header, written) BY Zenon, <2>2, <3>3 DEF Holding
    <3> QED BY Zenon, <2>1, <2>2, <2>4, <3>1, <3>2, <3>4, <3>5 DEF WriterInv
  <2> QED BY Zenon, <1>2, <2>3, <2>4 DEF CreateTrace, Goes
<1>3. CASE Open \/ NextRecord BY Zenon, <1>3 DEF Open, NextRecord, writerVars, WriterInv
<1> QED BY Zenon, <1>1, <1>2, <1>3, FileSteps, WriterAppends, WriterFails

-----------------------------------------------------------------------------
(* The reader's invariant.                                                 *)

\* open stops inside the header of what survived, or stands before the first record.
LEMMA ReaderOpens ==
  ASSUME CountInv, WriterInv, ReaderInv, Open, pc # "given"
  PROVE  ReaderInv'
<1>1. /\ pc \in Ended /\ reader = Closed /\ reader' = open(disk') /\ pc' = pc /\ got' = got
      /\ stream' = stream /\ written' = written
  BY Zenon DEF Open, writerVars
<1>2. PICK k \in 0..Len(stream) : disk' = SubSeq(stream, 1, k) BY Zenon DEF Open
<1>3. got = <<>>
  <2>1. reader.state = "closed"
    <3>1. Closed.state = "closed" BY DEF Closed
    <3> QED BY Zenon, <1>1, <3>1
  <2>2. ASSUME NEW p, NEW l PROVE reader # ReaderAt("open", p, l) /\ reader # ReaderAt("Truncated", p, l)
    <3>1. ReaderAt("open", p, l).state = "open" /\ ReaderAt("Truncated", p, l).state = "Truncated"
      BY Zenon DEF ReaderAt
    <3>2. "closed" # "open" /\ "closed" # "Truncated" OBVIOUS
    <3> QED BY Zenon, <2>1, <3>1, <3>2
  <2>3. "closed" \notin {"BadMagic", "Truncated"} OBVIOUS
  <2> QED BY Zenon, <2>1, <2>2, <2>3 DEF ReaderInv, ReadTo
<1>4. IsSequence(stream) /\ (stream = <<>> \/ Holding(stream, written))
  <2>1. IsSequence(<<>>)
    <3>1. <<>> \in Seq({}) BY Zenon, EmptySeq
    <3> QED BY Zenon, <3>1 DEF IsSequence
  <2> QED BY Zenon, <2>1 DEF WriterInv
<1>5. PICK N \in Nat : N = Len(stream) BY Zenon, <1>4, SequenceGrows
<1>6. k \in Nat /\ k <= N /\ 0 \in Nat /\ 0 + 1 = 1 /\ 0 + k = k
      /\ \A j \in 1..k : 0 + j = j /\ j \in 1..N
  <2>1. k \in 0..N BY Zenon, <1>5
  <2> QED BY <2>1
<1>7. PICK d : d = SubSeq(stream, 1, k) BY Zenon
<1>8. Len(d) = k /\ \A j \in 1..k : d[j] = stream[j]
  <2>1. PICK S : stream \in Seq(S) BY Zenon, <1>4 DEF IsSequence
  <2>2. \A j \in 1..N : stream[j] \in S BY Zenon, <1>5, <2>1, ElementOfSeq
  <2>3. CellsIn(S, stream, 0, k) BY Zenon, <1>6, <2>2 DEF CellsIn
  <2>4. IsCut(S, stream, 0, k, SubSeq(stream, 0 + 1, 0 + k)) BY Zenon, <1>6, <2>3, CutIs
  <2>5. IsCut(S, stream, 0, k, d) BY Zenon, <1>6, <1>7, <2>4
  <2> QED BY Zenon, <1>6, <2>5 DEF IsCut
<1>9. Survives(d, stream) BY Zenon, <1>5, <1>6, <1>8 DEF Survives
<1>10. HeaderOf(d)
  <2>1. CASE stream = <<>>
    <3>1. N = 0 BY Zenon, <1>5, <2>1, EmptySeq
    <3>2. \A j \in 1..k : FALSE BY <1>6, <3>1
    <3> QED BY Zenon, <1>8, <3>2 DEF HeaderOf
  <2>2. CASE Holding(stream, written)
    <3>1. PICK S \in Nat : S = Start BY Zenon, HeaderIs
    <3>2. \A j \in 1..k : j <= S => j \in 1..S BY <1>6, <3>1
    <3> QED BY Zenon, <1>8, <2>2, <3>1, <3>2 DEF HeaderOf, Holding
  <2> QED BY Zenon, <1>4, <2>1, <2>2
<1>11. OpenedAs(d, open(d))
  <2>1. Len(d) \in Nat BY Zenon, <1>6, <1>8
  <2> QED BY Zenon, <1>10, <2>1, OpenIs
<1>12. reader' = open(d) /\ disk' = d BY Zenon, <1>1, <1>2, <1>7
<1>13. CASE Len(d) < Start
  <2>1. reader'.state \in {"BadMagic", "Truncated"} BY Zenon, <1>11, <1>12, <1>13 DEF OpenedAs
  <2> QED BY Zenon, <1>1, <1>3, <1>9, <1>12, <1>13, <2>1 DEF ReaderInv
<1>14. CASE Len(d) >= Start
  <2>1. reader' = ReaderAt("open", Start, None) BY Zenon, <1>11, <1>12, <1>14 DEF OpenedAs
  <2>2. After(0) = Start /\ Start \in Nat /\ Start <= Len(d)
    <3>1. PICK S \in Nat : S = Start /\ After(0) = S BY Zenon, <1>6, AfterIs
    <3>2. S <= k BY <1>6, <1>8, <1>14, <3>1
    <3> QED BY Zenon, <1>8, <3>1, <3>2
  <2>3. ReadTo(d, reader', 0) BY Zenon, <2>1, <2>2 DEF ReadTo, LastOf
  <2>4. Copied(got, written, 0)
    <3>1. <<>> \in Seq({}) /\ Len(<<>>) = 0 BY Zenon, EmptySeq
    <3>2. \A i \in 1..0 : FALSE OBVIOUS
    <3> QED BY Zenon, <1>3, <3>1, <3>2 DEF Copied, IsSequence
  <2>5. 0 \in 0..Len(written)
    <3>1. Len(written) \in Nat BY Zenon, SequenceGrows DEF CountInv
    <3> QED BY <3>1
  <2> QED BY Zenon, <1>1, <1>9, <1>12, <2>3, <2>4, <2>5 DEF ReaderInv
<1>15. Len(d) < Start \/ Len(d) >= Start
  <2>1. PICK S \in Nat : S = Start BY Zenon, HeaderIs
  <2> QED BY <1>6, <1>8, <2>1
<1> QED BY Zenon, <1>13, <1>14, <1>15

\* next returns the next whole record, or stops behind the last one.
LEMMA ReaderReads ==
  ASSUME CountInv, WriterInv, ReaderInv, NextRecord, pc # "given"
  PROVE  ReaderInv'
<1>1. /\ reader.state = "open" /\ read_record(disk, reader).tag # "eof" /\ reader' = Advanced(disk, reader)
      /\ got' = (IF read_record(disk, reader).tag = "record" THEN Append(got, read_record(disk, reader).record)
                 ELSE got)
      /\ pc' = pc /\ stream' = stream /\ written' = written /\ disk' = disk
  BY Zenon DEF NextRecord, writerVars
<1>2. pc \in Ended /\ Survives(disk, stream)
      /\ \E m \in 0..Len(written) : Copied(got, written, m) /\ ReadTo(disk, reader, m)
  <2>1. reader # Closed
    <3>1. Closed.state = "closed" /\ "closed" # "open" BY DEF Closed
    <3> QED BY Zenon, <1>1, <3>1
  <2>2. "open" \notin {"BadMagic", "Truncated"} OBVIOUS
  <2> QED BY Zenon, <1>1, <2>1, <2>2 DEF ReaderInv
<1>3. PICK m \in 0..Len(written) : Copied(got, written, m) /\ ReadTo(disk, reader, m) BY Zenon, <1>2
<1>4. reader = ReaderAt("open", After(m), LastOf(m)) /\ After(m) <= Len(disk)
  <2>1. \A p, l : reader # ReaderAt("Truncated", p, l)
    <3>1. \A p, l : ReaderAt("Truncated", p, l).state = "Truncated" BY Zenon DEF ReaderAt
    <3>2. "open" # "Truncated" OBVIOUS
    <3> QED BY Zenon, <1>1, <3>1, <3>2
  <2> QED BY Zenon, <1>3, <2>1 DEF ReadTo
<1>5. IsSequence(written) /\ RecordsOf(written) BY Zenon DEF CountInv, WriterInv
<1>6. PICK n \in Nat, L \in Nat : n = Len(written) /\ L = Len(disk)
  <2>1. Len(written) \in Nat /\ Len(disk) \in Nat BY Zenon, <1>2, <1>5, SequenceGrows DEF Survives
  <2> QED BY Zenon, <2>1
<1>7. m \in Nat
  <2>1. m \in 0..n BY Zenon, <1>6
  <2> QED BY <2>1
<1>8. Holding(stream, written) /\ CutAfter(stream, After(Len(written)))
  <2>1. stream # <<>>
    <3>1. PICK p \in Nat, S \in Nat : p = After(m) /\ S = Start /\ p >= S /\ S > 3 BY Zenon, <1>7, AfterIs
    <3>2. PICK s : s = Len(stream) BY Zenon
    <3>3. p <= L /\ L <= s BY Zenon, <1>2, <1>4, <1>6, <3>1, <3>2 DEF Survives
    <3>4. s # 0 BY <3>1, <3>3
    <3> QED BY Zenon, <3>2, <3>4, EmptySeq
  <2> QED BY Zenon, <2>1 DEF WriterInv
<1>9. Reads(disk, written, m, reader)
  <2>1. Reads(disk, written, m, ReaderAt("open", After(m), LastOf(m)))
    BY Zenon, <1>2, <1>4, <1>5, <1>8, ReadsOn
  <2> QED BY Zenon, <1>4, <2>1
<1>10. CASE /\ After(m) < Len(disk) /\ Len(disk) < After(m + 1) /\ read_record(disk, reader).tag = "Truncated"
            /\ Advanced(disk, reader) = ReaderAt("Truncated", After(m), LastOf(m))
  <2>1. "Truncated" # "record" OBVIOUS
  <2>2. got' = got BY Zenon, <1>1, <1>10, <2>1
  <2>3. ReadTo(disk, reader', m) BY Zenon, <1>1, <1>4, <1>10 DEF ReadTo
  <2> QED BY Zenon, <1>1, <1>2, <1>3, <2>2, <2>3 DEF ReaderInv
<1>11. CASE /\ m + 1 \in 0..Len(written) /\ After(m + 1) <= Len(disk)
            /\ read_record(disk, reader) = [tag |-> "record", record |-> written[m + 1]]
            /\ Advanced(disk, reader) = ReaderAt("open", After(m + 1), LastOf(m + 1))
  <2>1. PICK r, x : r = read_record(disk, reader) /\ x = written[m + 1] BY Zenon
  <2>2. r = [tag |-> "record", record |-> x] BY Zenon, <1>11, <2>1
  <2>3. r.tag = "record" /\ r.record = x BY <2>2
  <2>4. got' = Append(got, x) BY Zenon, <1>1, <2>1, <2>3
  <2>5. Copied(got', written, m + 1)
    <3>1. IsAppend(got, x, got') /\ IsSequence(got')
      <4>1. IsSequence(got) BY Zenon, <1>3 DEF Copied
      <4>2. PICK g : g = Append(got, x) BY Zenon
      <4>3. IsAppend(got, x, g) BY Zenon, <4>1, <4>2, AppendIs
      <4>4. IsSequence(g) BY Zenon, <4>1, <4>2, SequenceGrows
      <4> QED BY Zenon, <2>4, <4>2, <4>3, <4>4
    <3>2. Len(got) = m /\ \A i \in 1..m : got[i] = written[i] BY Zenon, <1>3 DEF Copied
    <3>3. Len(got') = m + 1 /\ (\A i \in 1..m : got'[i] = got[i]) /\ got'[m + 1] = x
      BY Zenon, <3>1, <3>2 DEF IsAppend
    <3>4. \A i \in 1..(m + 1) : i \in 1..m \/ i = m + 1 BY <1>7
    <3>5. \A i \in 1..(m + 1) : got'[i] = written[i] BY Zenon, <2>1, <3>2, <3>3, <3>4
    <3> QED BY Zenon, <3>1, <3>3, <3>5 DEF Copied
  <2>6. ReadTo(disk, reader', m + 1) BY Zenon, <1>1, <1>11 DEF ReadTo
  <2> QED BY Zenon, <1>1, <1>2, <1>11, <2>5, <2>6 DEF ReaderInv
<1> QED BY Zenon, <1>1, <1>9, <1>10, <1>11 DEF Reads

\* Every step keeps the reader's invariant.
LEMMA ReaderStep ==
  ASSUME CountInv, WriterInv, ReaderInv, Next
  PROVE  ReaderInv'
<1>1. CASE pc \notin Ended /\ UNCHANGED readerVars
  <2>1. reader = Closed /\ got = <<>> BY Zenon, <1>1 DEF ReaderInv, Ended
  <2> QED BY Zenon, <1>1, <2>1 DEF ReaderInv, readerVars
<1>2. CASE PlainMove \/ CreateTrace \/ DrainOne \/ AppendFails
  <2>1. pc \notin Ended /\ UNCHANGED readerVars
    BY Zenon, <1>2 DEF PlainMove, CreateTrace, DrainOne, AppendFails, Goes, Rest, Ended
  <2> QED BY Zenon, <1>1, <2>1
<1>3. CASE Open \/ NextRecord
  <2>1. CASE pc = "given" BY Zenon, <1>3, <2>1 DEF Open, NextRecord, ReaderInv
  <2> QED BY Zenon, <1>3, <2>1, ReaderOpens, ReaderReads
<1> QED BY Zenon, <1>2, <1>3, FileSteps

\* Where a reader has finished, it has returned what the property asks for.
LEMMA ReaderFinished ==
  ASSUME CountInv, WriterInv, ReaderInv
  PROVE  SurvivorsReadBack
<1> SUFFICES ASSUME pc # "given", Finished PROVE SurvivorsReadBack BY Zenon DEF SurvivorsReadBack
<1>1. pc \in Ended /\ Survives(disk, stream)
      /\ \/ Len(disk) < Start /\ got = <<>> /\ reader.state \in {"BadMagic", "Truncated"}
         \/ \E m \in 0..Len(written) : Copied(got, written, m) /\ ReadTo(disk, reader, m)
  <2>1. reader # Closed
    <3>1. Closed.state = "closed" BY DEF Closed
    <3> QED BY Zenon, <3>1 DEF Finished
  <2> QED BY Zenon, <2>1 DEF ReaderInv
<1>2. /\ IsSequence(written) /\ IsSequence(history) /\ Len(written) = Len(history)
      /\ RecordsOf(written) /\ EndsOf(history)
  BY Zenon DEF CountInv, WriterInv
<1>3. PICK n \in Nat, L \in Nat, S \in Nat :
         n = Len(written) /\ n = Len(history) /\ L = Len(disk) /\ S = Start /\ S > 3 /\ DOMAIN history = 1..n
  <2>1. Len(written) \in Nat /\ Len(disk) \in Nat /\ DOMAIN history = 1..Len(history)
    BY Zenon, <1>1, <1>2, SequenceGrows DEF Survives
  <2>2. Start \in Nat /\ Start > 3 BY Zenon, HeaderIs
  <2> QED BY Zenon, <1>2, <2>1, <2>2
<1>4. PICK cuts : cuts = {Start} \cup {history[i].end : i \in DOMAIN history} BY Zenon
<1>5. \A i \in 1..n : history[i].end = S + 9 * i BY Zenon, <1>2, <1>3 DEF EndsOf, After
<1>7. \A x : x \in cuts <=> x = S \/ \E i \in 1..n : x = S + 9 * i BY Zenon, <1>3, <1>4, <1>5
<1>8. SUFFICES \E m \in 0..n :
          /\ Len(got) = m /\ got = SubSeq(written, 1, m)
          /\ \A i \in 1..n : i <= m <=> S + 9 * i <= L
          /\ (reader.state = "open") = (L \in cuts /\ stream # <<>>)
          /\ L >= S => reader.cmdline = Command
  <2>1. \A m \in 0..n : m <= n OBVIOUS
  <2> QED BY Zenon, <1>3, <1>4, <1>5, <2>1 DEF SurvivorsReadBack, Start, Command
<1>9. CASE L < S /\ got = <<>> /\ reader.state \in {"BadMagic", "Truncated"}
  <2>1. L \notin cuts /\ ~(L >= S) /\ \A i \in 1..n : i <= 0 <=> S + 9 * i <= L
    <3>1. (\A i \in 1..n : ~(i <= 0) /\ ~(S + 9 * i <= L)) /\ L # S /\ (\A i \in 1..n : L # S + 9 * i) /\ ~(L >= S)
      BY <1>9
    <3> QED BY Zenon, <1>7, <3>1
  <2>2. Len(got) = 0 /\ 0 \in 0..n
    <3>1. 0 \in 0..n /\ Len(<<>>) = 0 OBVIOUS
    <3> QED BY Zenon, <1>9, <3>1
  <2>3. SubSeq(written, 1, 0) = <<>>
    <3>1. CellsIn({}, written, 0, 0)
      <4>1. \A j \in 1..0 : FALSE OBVIOUS
      <4> QED BY Zenon, <4>1 DEF CellsIn
    <3>2. 0 \in Nat /\ 0 + 1 = 1 /\ 0 + 0 = 0 OBVIOUS
    <3>3. IsCut({}, written, 0, 0, SubSeq(written, 0 + 1, 0 + 0)) BY Zenon, <3>1, <3>2, CutIs
    <3>4. SubSeq(written, 1, 0) \in Seq({}) /\ Len(SubSeq(written, 1, 0)) = 0
      BY Zenon, <3>2, <3>3 DEF IsCut
    <3> QED BY Zenon, <3>4, EmptySeq
  <2>4. reader.state # "open"
    <3>1. "open" \notin {"BadMagic", "Truncated"} OBVIOUS
    <3> QED BY Zenon, <1>9, <3>1
  <2> QED BY Zenon, <1>9, <2>1, <2>2, <2>3, <2>4
<1>10. CASE \E m \in 0..Len(written) : Copied(got, written, m) /\ ReadTo(disk, reader, m)
  <2>1. PICK m \in 0..n : Copied(got, written, m) /\ ReadTo(disk, reader, m) BY Zenon, <1>3, <1>10
  <2>2. m \in Nat /\ m <= n OBVIOUS
  <2>3. PICK p \in Nat : p = After(m) /\ p = S + 9 * m /\ After(m + 1) = p + 9 /\ p >= S /\ p <= L
    <3>1. After(m) \in Nat /\ After(m) >= Start /\ After(m + 1) = After(m) + 9 BY Zenon, <2>2, AfterIs
    <3>2. After(m) = S + 9 * m /\ After(m) <= L BY Zenon, <1>3, <2>1 DEF After, ReadTo
    <3> QED BY Zenon, <1>3, <3>1, <3>2
  <2>4. stream # <<>>
    <3>1. PICK s : s = Len(stream) BY Zenon
    <3>2. L <= s BY Zenon, <1>1, <1>3, <3>1 DEF Survives
    <3>3. s # 0 BY <1>3, <2>3, <3>2
    <3> QED BY Zenon, <3>1, <3>3, EmptySeq
  <2>5. \/ reader = ReaderAt("open", p, LastOf(m)) /\ L = p
        \/ reader = ReaderAt("Truncated", p, LastOf(m)) /\ p < L /\ L < p + 9
    <3>1. CASE reader = ReaderAt("open", p, LastOf(m))
      <4>1. Holding(stream, written) /\ CutAfter(stream, After(Len(written))) BY Zenon, <2>4 DEF WriterInv
      <4>2. m \in 0..Len(written) /\ After(m) <= Len(disk) BY Zenon, <1>3, <2>3
      <4>3. Reads(disk, written, m, ReaderAt("open", After(m), LastOf(m)))
        BY Zenon, <1>1, <1>2, <4>1, <4>2, ReadsOn
      <4>4. Reads(disk, written, m, reader) BY Zenon, <2>3, <3>1, <4>3
      <4>5. read_record(disk, reader).tag = "eof"
        <5>1. reader.state = "open" BY Zenon, <3>1 DEF ReaderAt
        <5> QED BY Zenon, <5>1 DEF Finished
      <4>6. read_record(disk, reader) # [tag |-> "record", record |-> written[m + 1]]
        <5>1. PICK r, x : r = read_record(disk, reader) /\ x = written[m + 1] BY Zenon
        <5>2. r.tag = "eof" BY Zenon, <4>5, <5>1
        <5>3. r # [tag |-> "record", record |-> x] BY <5>2
        <5> QED BY Zenon, <5>1, <5>3
      <4>7. "eof" # "Truncated" OBVIOUS
      <4> QED BY Zenon, <1>3, <2>3, <3>1, <4>4, <4>5, <4>6, <4>7 DEF Reads
    <3> QED BY Zenon, <1>3, <2>1, <2>3, <3>1 DEF ReadTo
  <2>6. p <= L /\ L < p + 9 BY <2>3, <2>5
  <2>7. \A i \in 1..n : i <= m <=> S + 9 * i <= L BY <2>2, <2>3, <2>6
  <2>8. Len(got) = m BY Zenon, <2>1 DEF Copied
  <2>9. got = SubSeq(written, 1, m)
    <3>1. 0 \in Nat /\ 0 + 1 = 1 /\ 0 + m = m /\ \A i \in 1..m : 0 + i = i BY <2>2
    <3>2. Holds(written, 0, got) /\ IsSequence(got) /\ Len(got) = m BY Zenon, <2>1, <3>1 DEF Holds, Copied
    <3>3. PICK g, w : g = got /\ w = written BY Zenon
    <3>4. Holds(w, 0, g) /\ IsSequence(g) /\ Len(g) = m /\ m \in Nat BY Zenon, <2>2, <3>2, <3>3
    <3>z. 0 \in Nat OBVIOUS
    <3>5. SubSeq(w, 0 + 1, 0 + m) = g BY ZenonT(30), <3>4, <3>z, CutHeld
    <3> QED BY Zenon, <3>1, <3>3, <3>5
  <2>10. reader.cmdline = Command
    <3>1. \A st, l : ReaderAt(st, p, l).cmdline = Command BY Zenon DEF ReaderAt
    <3> QED BY Zenon, <2>5, <3>1
  <2>11. CASE reader = ReaderAt("open", p, LastOf(m)) /\ L = p
    <3>1. reader.state = "open" BY Zenon, <2>11 DEF ReaderAt
    <3>2. L \in cuts
      <4>1. L = S \/ (m \in 1..n /\ L = S + 9 * m) BY <2>2, <2>3, <2>11
      <4> QED BY Zenon, <1>7, <4>1
    <3> QED BY Zenon, <2>4, <2>7, <2>8, <2>9, <2>10, <3>1, <3>2
  <2>12. CASE reader = ReaderAt("Truncated", p, LastOf(m)) /\ p < L /\ L < p + 9
    <3>1. reader.state # "open"
      <4>1. reader.state = "Truncated" /\ "Truncated" # "open" BY Zenon, <2>12 DEF ReaderAt
      <4> QED BY Zenon, <4>1
    <3>2. L \notin cuts
      <4>1. L # S /\ \A i \in 1..n : L # S + 9 * i BY <2>2, <2>3, <2>12
      <4> QED BY Zenon, <1>7, <4>1
    <3> QED BY Zenon, <2>7, <2>8, <2>9, <2>10, <3>1, <3>2
  <2> QED BY Zenon, <2>5, <2>11, <2>12
<1> QED BY Zenon, <1>1, <1>3, <1>9, <1>10

-----------------------------------------------------------------------------
\* The inductive invariant of a capture, for any ring size and any target.
THEOREM CaptureInvariance == Spec => []CaptureInv
<1>1. Init => CaptureInv
  <2> SUFFICES ASSUME Init PROVE CaptureInv BY Zenon
  <2>1. KernelOK BY Zenon, EmptySeq DEF Init, KernelOK, NoSyscall
  <2>2. EVENTS = <<>> /\ Len(EVENTS) = 0 /\ DOMAIN EVENTS = {} /\ history = <<>>
        /\ Len(history) = 0 /\ DOMAIN history = {} /\ IsSequence(<<>>)
    <3>1. <<>> \in Seq({}) BY Zenon, EmptySeq
    <3> QED BY <3>1, LenProperties DEF Init, IsSequence
  <2>3. CountInv BY <2>2 DEF Init, CountInv, Ended
  <2>4. PairingInv BY Zenon, <2>2 DEF Init, PairingInv, NoSyscall
  <2>5. ExitNamesItsEntry /\ NothingLeftInRing BY Zenon, <2>2 DEF Init, ExitNamesItsEntry, NothingLeftInRing
  <2> QED BY Zenon, <2>1, <2>3, <2>4, <2>5 DEF CaptureInv
<1>2. CaptureInv /\ [Next]_vars => CaptureInv'
  <2> SUFFICES ASSUME CaptureInv, [Next]_vars PROVE CaptureInv' BY Zenon
  <2>1. CASE Next
    BY Zenon, <2>1, KernelStep, CountStep, PairingStep, NamesStep DEF CaptureInv
  <2>2. CASE UNCHANGED vars
    <3> USE <2>2 DEF vars, kernelVars, writerVars
    <3>1. KernelOK' BY Zenon DEF CaptureInv, KernelOK
    <3>2. CountInv' BY Zenon DEF CaptureInv, CountInv
    <3>3. PairingInv' BY DEF CaptureInv, PairingInv, Expects, EventOfThread
    <3>4. ExitNamesItsEntry' /\ NothingLeftInRing'
      BY Zenon DEF CaptureInv, ExitNamesItsEntry, NothingLeftInRing
    <3> QED BY Zenon, <3>1, <3>2, <3>3, <3>4 DEF CaptureInv
  <2> QED BY Zenon, <2>1, <2>2
<1> QED BY <1>1, <1>2, PTL DEF Spec

\* drain_ready gives every exit whose entry is in the trace that entry's number,
\* whatever entries were lost and however many threads share the ring.
THEOREM ExitsAreNamed == Spec => []ExitNamesItsEntry
<1>1. CaptureInv => ExitNamesItsEntry BY Zenon DEF CaptureInv
<1> QED BY <1>1, CaptureInvariance, PTL

\* A capture that succeeds has written and counted every event that reached the ring:
\* the drain after the target's end comes after its last event.
THEOREM RingIsDrained == Spec => []NothingLeftInRing
<1>1. CaptureInv => NothingLeftInRing BY Zenon DEF CaptureInv
<1> QED BY <1>1, CaptureInvariance, PTL

\* The file holds the header and the frames of the records, and the reader is behind
\* a whole number of them.
THEOREM FileInvariance == Spec => [](WriterInv /\ ReaderInv)
<1>1. Init => WriterInv /\ ReaderInv
  <2> SUFFICES ASSUME Init, pc # "given" PROVE WriterInv /\ ReaderInv BY Zenon DEF WriterInv, ReaderInv
  <2>1. /\ pc = "attach" /\ stream = <<>> /\ written = <<>> /\ next_seq = 0 /\ history = <<>>
        /\ reader = Closed /\ got = <<>>
    BY Zenon DEF Init
  <2>2. Len(<<>>) = 0 /\ \A i \in 1..0 : FALSE OBVIOUS
  <2> QED BY Zenon, <2>1, <2>2 DEF WriterInv, ReaderInv, RecordsOf, EndsOf, Before
<1>2. CaptureInv /\ (WriterInv /\ ReaderInv) /\ [Next]_vars => (WriterInv /\ ReaderInv)'
  <2> SUFFICES ASSUME CaptureInv, WriterInv, ReaderInv, [Next]_vars PROVE (WriterInv /\ ReaderInv)' BY Zenon
  <2>1. CASE Next BY Zenon, <2>1, WriterStep, ReaderStep DEF CaptureInv
  <2>2. CASE UNCHANGED vars
    <3> USE <2>2 DEF vars, writerVars, readerVars
    <3>1. WriterInv' BY Zenon DEF WriterInv
    <3>2. ReaderInv' BY Zenon DEF ReaderInv
    <3> QED BY Zenon, <3>1, <3>2
  <2> QED BY Zenon, <2>1, <2>2
<1> QED BY <1>1, <1>2, CaptureInvariance, PTL DEF Spec

\* Wherever the file of a capture stops, TraceReader returns its command line and
\* exactly its whole records, and ends without an error only if no frame is cut: for
\* any command line, threads, ring size and number of records.
THEOREM SurvivorsAreReadBack == Spec => []SurvivorsReadBack
<1>1. CaptureInv /\ (WriterInv /\ ReaderInv) => SurvivorsReadBack BY Zenon, ReaderFinished DEF CaptureInv
<1> QED BY <1>1, CaptureInvariance, FileInvariance, PTL
=============================================================================
