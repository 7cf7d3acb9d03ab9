---------------------------- MODULE EbpfCapture ----------------------------
(***************************************************************************)
(* The eBPF recorder and the file it leaves: two probes in the kernel      *)
(* (crates/recorder-ebpf-programs) put an event per syscall entry and exit *)
(* of the target into a ring buffer, a collector (crates/recorder-ebpf)    *)
(* drains it into a TraceWriter, and whatever part of the file survives is *)
(* read back by a TraceReader.                                             *)
(*                                                                         *)
(* What is on disk is some prefix of what was written: a BufWriter keeps   *)
(* the rest in memory until it is full or dropped, and the error of a      *)
(* flush in its drop is lost.                                              *)
(***************************************************************************)
EXTENDS TraceFile

CONSTANTS
    Tid,            \* threads of the target, numbers below Base
    RingSize,       \* events EVENTS has room for
    MaxProbes,      \* bound on the syscall entries and exits of the target
    Given           \* files of other origin: their cells, the records whole and
                    \* in order, and how reading ends: [cells, written, ends]

ASSUME CaptureAssumption == Tid \subseteq Cell \ {0} /\ RingSize \in Nat \ {0}

VARIABLES
    target,         \* "unborn", "running", "exited", "signaled" or "reaped"
    in_syscall,     \* thread -> the syscall it is in, or None
    reported,       \* thread -> did the entry of that syscall reach the ring?
    probes,         \* entries and exits so far; a syscall is named by its entry
    TARGET_TGID,    \* the filter is set
    EVENTS,         \* the ring: [bytes, nr, paired], nr and paired for the properties
    submitted,      \* how many events ever entered the ring
    pc,             \* where record_command is
    pending_nr, events_recorded,
    stream, next_seq, written,  \* what the writer wrote, as cells and as records
    history,        \* of each record: its syscall, None for an exit whose entry is not
                    \* in the trace, and the length of the file after it
    disk, reader, got           \* what survived, the reader over it, what it returned

kernelVars == <<target, in_syscall, reported, probes, EVENTS, submitted>>
writerVars == <<stream, next_seq, written, history>>
readerVars == <<disk, reader, got>>
vars == <<kernelVars, TARGET_TGID, pc, pending_nr, events_recorded, writerVars, readerVars>>

KIND_ENTER == 0
KIND_EXIT == 1
Closed == [state |-> "closed"]

\* RawSyscallEvent::encode and decode
encode(e) == <<e.kind, e.tid, e.nr, e.ret>>
decode(bytes) == [kind |-> bytes[1], tid |-> bytes[2], nr |-> bytes[3], ret |-> bytes[4]]

-----------------------------------------------------------------------------
(* The target and the probes it runs through.                              *)

\* matching_target: no target configured, no event.
matching_target == TARGET_TGID

Fits == Len(EVENTS) < RingSize

\* emit drops the event if the ring is full.
emit(e, nr, paired) ==
    IF Fits
      THEN /\ EVENTS' = Append(EVENTS, [bytes |-> encode(e), nr |-> nr, paired |-> paired])
           /\ submitted' = submitted + 1
      ELSE UNCHANGED <<EVENTS, submitted>>

Ended == {"done", "failed", "killed", "given"}

\* What the target does after the recorder's end leaves no trace, and is left out.
Watched == target = "running" /\ pc \notin Ended

Runs == Watched /\ probes < MaxProbes /\ probes' = probes + 1

\* try_sys_enter: without its arguments the entry is not reported.
sys_enter(t, readable) ==
    /\ Runs /\ in_syscall[t] = None
    /\ in_syscall' = [in_syscall EXCEPT ![t] = probes']
    /\ reported' = [reported EXCEPT ![t] = matching_target /\ readable /\ Fits]
    /\ IF matching_target /\ readable
         THEN emit([kind |-> KIND_ENTER, tid |-> t, nr |-> probes', ret |-> 0], probes', TRUE)
         ELSE UNCHANGED <<EVENTS, submitted>>
    /\ UNCHANGED <<target, TARGET_TGID, pc, pending_nr, events_recorded, writerVars, readerVars>>

\* try_sys_exit: the raw tracepoint does not say which syscall returns.
sys_exit(t) ==
    /\ Runs /\ in_syscall[t] # None
    /\ in_syscall' = [in_syscall EXCEPT ![t] = None]
    /\ IF matching_target
         THEN emit([kind |-> KIND_EXIT, tid |-> t, nr |-> 0, ret |-> 1], in_syscall[t], reported[t])
         ELSE UNCHANGED <<EVENTS, submitted>>
    /\ UNCHANGED <<target, reported, TARGET_TGID, pc, pending_nr, events_recorded, writerVars, readerVars>>

TargetEnds(how) ==
    /\ Watched /\ target' = how
    /\ UNCHANGED <<in_syscall, reported, probes, EVENTS, submitted, TARGET_TGID, pc, pending_nr,
                   events_recorded, writerVars, readerVars>>

-----------------------------------------------------------------------------
(* capture.rs: record_command                                              *)

NoSyscall == [t \in Tid |-> None]

Init ==
    /\ target = "unborn" /\ in_syscall = NoSyscall /\ reported = [t \in Tid |-> FALSE]
    /\ probes = 0 /\ TARGET_TGID = FALSE /\ EVENTS = <<>> /\ pending_nr = NoSyscall
    /\ submitted = 0 /\ events_recorded = 0
    /\ next_seq = 0 /\ history = <<>>
    /\ \/ pc = "attach" /\ stream = <<>> /\ written = <<>>
       \/ pc = "given" /\ \E f \in Given : stream = f.cells /\ written = f.written
    /\ disk = <<>> /\ reader = Closed /\ got = <<>>

Goes(from, to) == pc = from /\ pc' = to
Rest == UNCHANGED <<in_syscall, reported, probes, readerVars>>

\* load_and_attach, or any of its errors.
LoadAndAttach ==
    /\ Goes("attach", "spawn") \/ Goes("attach", "failed")
    /\ UNCHANGED <<target, EVENTS, submitted, TARGET_TGID, pending_nr, events_recorded, writerVars>> /\ Rest

Spawn ==
    /\ \/ Goes("spawn", "filter") /\ target' = "running"
       \/ Goes("spawn", "failed") /\ UNCHANGED target
    /\ UNCHANGED <<EVENTS, submitted, TARGET_TGID, pending_nr, events_recorded, writerVars>> /\ Rest

\* The target runs while its filter is being set.
configure_target ==
    /\ \/ Goes("filter", "create") /\ TARGET_TGID' = TRUE
       \/ Goes("filter", "failed") /\ UNCHANGED TARGET_TGID
    /\ UNCHANGED <<target, EVENTS, submitted, pending_nr, events_recorded, writerVars>> /\ Rest

\* File::create may fail, or a write of the header.
CreateTrace ==
    /\ \/ Goes("create", "drain") /\ stream' = Header
       \/ Goes("create", "failed") /\ stream' \in {<<>>, Header}
    /\ UNCHANGED <<target, EVENTS, submitted, TARGET_TGID, pending_nr, events_recorded,
                   next_seq, written, history>> /\ Rest

\* pending_nr after an event; an exit takes its thread's entry out.
Pending(raw) == [pending_nr EXCEPT ![raw.tid] = IF raw.kind = KIND_ENTER THEN raw.nr ELSE None]

Mutant_FirstPending(raw) ==
    LET waiting == {t \in Tid : pending_nr[t] # None}
    IN  IF raw.kind = KIND_ENTER THEN raw.nr
        ELSE IF waiting = {} THEN 0 ELSE pending_nr[CHOOSE t \in waiting : TRUE]

\* The syscall number of the record, 0 for an exit without an entry.
Numbered(raw) ==
    IF raw.kind = KIND_ENTER THEN raw.nr
    ELSE IF pending_nr[raw.tid] = None THEN 0 ELSE pending_nr[raw.tid]

KindOf(raw) == IF raw.kind = KIND_ENTER THEN "SyscallEnter" ELSE "SyscallExit"

EventOf(raw) ==
    [tid |-> raw.tid, kind |-> [name |-> KindOf(raw), raw |-> 0], payload |-> <<Numbered(raw), raw.ret>>]

\* TraceWriter::append
append(event) ==
    /\ stream' = stream \o Frame(encode_body(next_seq, event))
    /\ written' = Append(written, [seq |-> next_seq, event |-> event])
    /\ next_seq' = next_seq + 1

Next1 == decode(Head(EVENTS).bytes)

\* One turn of drain_ready's loop, in the main loop or after the target's end.
DrainOne ==
    /\ pc \in {"drain", "last"} /\ EVENTS # <<>>
    /\ EVENTS' = Tail(EVENTS)
    /\ pending_nr' = Pending(Next1)
    /\ append(EventOf(Next1))
    /\ history' = Append(history, [nr |-> IF Head(EVENTS).paired THEN Head(EVENTS).nr ELSE None,
                                   end |-> Len(stream')])
    /\ events_recorded' = events_recorded + 1
    /\ UNCHANGED <<target, submitted, TARGET_TGID, pc>> /\ Rest

\* One of append's three writes fails: the file ends inside the frame.
AppendFails ==
    /\ pc \in {"drain", "last"} /\ EVENTS # <<>>
    /\ EVENTS' = Tail(EVENTS)
    /\ pending_nr' = Pending(Next1)
    /\ LET parts == FrameParts(encode_body(next_seq, EventOf(Next1)))
       IN  stream' \in {stream, stream \o parts[1], stream \o parts[1] \o parts[2]}
    /\ pc' = "failed"
    /\ UNCHANGED <<target, submitted, TARGET_TGID, events_recorded, next_seq, written, history>> /\ Rest

DrainDone ==
    /\ EVENTS = <<>> /\ (Goes("drain", "wait") \/ Goes("last", "done"))
    /\ UNCHANGED <<target, EVENTS, submitted, TARGET_TGID, pending_nr, events_recorded, writerVars>> /\ Rest

Mutant_NoLastDrain == Goes("wait", "done")

\* The ring is drained once more.
AfterExit == Goes("wait", "last")

Mutant_ExitedOnly == {"exited"}

\* The statuses that end the loop.
Gone == {"exited", "signaled"}

\* waitpid(WNOHANG) fails, or finds the target alive, or ends the loop.
WaitPid ==
    /\ \/ Goes("wait", "failed") /\ UNCHANGED target
       \/ target = "running" /\ Goes("wait", "drain") /\ UNCHANGED target
       \/ target \in Gone /\ AfterExit /\ target' = "reaped"
    /\ UNCHANGED <<EVENTS, submitted, TARGET_TGID, pending_nr, events_recorded, writerVars>> /\ Rest

Recorder ==
    LoadAndAttach \/ Spawn \/ configure_target \/ CreateTrace
    \/ DrainOne \/ AppendFails \/ DrainDone \/ WaitPid

\* The recorder is killed; its target lives on.
Crash ==
    /\ pc \in {"drain", "wait", "last"} /\ pc' = "killed"
    /\ UNCHANGED <<kernelVars, TARGET_TGID, pending_nr, events_recorded, writerVars, readerVars>>

-----------------------------------------------------------------------------
(* The file is read back.                                                  *)

\* What the recorder and its kernel objects held went with it.
Open ==
    /\ pc \in Ended /\ reader = Closed
    /\ \E k \in (IF pc = "given" THEN {Len(stream)} ELSE 0..Len(stream)) : disk' = SubSeq(stream, 1, k)
    /\ reader' = open(disk')
    /\ target' = "unborn" /\ in_syscall' = NoSyscall /\ reported' = [t \in Tid |-> FALSE]
    /\ probes' = 0 /\ TARGET_TGID' = FALSE /\ EVENTS' = <<>> /\ pending_nr' = NoSyscall
    /\ UNCHANGED <<submitted, pc, events_recorded, writerVars, got>>

NextRecord ==
    /\ reader.state = "open" /\ read_record(disk, reader).tag # "eof"
    /\ reader' = Advanced(disk, reader)
    /\ LET r == read_record(disk, reader)
       IN  got' = IF r.tag = "record" THEN Append(got, r.record) ELSE got
    /\ UNCHANGED <<kernelVars, TARGET_TGID, pc, pending_nr, events_recorded, writerVars, disk>>

Next ==
    \/ \E t \in Tid : sys_exit(t) \/ \E readable \in BOOLEAN : sys_enter(t, readable)
    \/ \E how \in {"exited", "signaled"} : TargetEnds(how)
    \/ Recorder \/ Crash \/ Open \/ NextRecord

\* The collector is a loop that is never blocked; nothing needs to fail for it to go on.
Spec == Init /\ [][Next]_vars /\ WF_vars(Recorder /\ pc' # "failed")

-----------------------------------------------------------------------------

\* The reader has returned an error or reached the end.
Finished == reader.state # "closed" /\ (reader.state = "open" => read_record(disk, reader).tag = "eof")

(* Two threads' entries and exits mix in one ring, and entries get lost: before  *)
(* the filter is set, when the ring is full, when their arguments cannot be read. *)
(* drain_ready still gives every exit whose entry is in the trace the number of   *)
(* that entry, and every entry its own.                                           *)
ExitNamesItsEntry ==
    \A i \in DOMAIN history : history[i].nr # None => written[i].event.payload[1] = history[i].nr

(* A capture that reports success has written, in order, every event that reached *)
(* the ring, those of the last moments before the target's end included, and      *)
(* counts exactly these.                                                          *)
NothingLeftInRing ==
    pc = "done" => Len(written) = submitted /\ events_recorded = submitted

(* Wherever the file stops (the recorder was killed, a write failed, the last     *)
(* flush was lost), TraceReader returns the command line and exactly the records  *)
(* that are whole; it ends without an error only if no frame is cut.              *)
SurvivorsReadBack ==
    pc # "given" /\ Finished =>
        LET start == BASE_HEADER_LEN + Len(encode_cmdline(Program, Args))
            cuts == {start} \cup {history[i].end : i \in DOMAIN history}
        IN  /\ Len(got) <= Len(written) /\ got = SubSeq(written, 1, Len(got))
            /\ \A i \in DOMAIN history : i <= Len(got) <=> history[i].end <= Len(disk)
            /\ (reader.state = "open") = (Len(disk) \in cuts /\ stream # <<>>)
            /\ Len(disk) >= start => reader.cmdline = [program |-> Program, args |-> Args]

(* A file of an older version, with a longer header or with kinds this version    *)
(* does not know is read in full; a damaged record, a record out of order or      *)
(* a header that cannot be understood is never returned as data: reading stops    *)
(* with that error, after exactly the records before it.                          *)
DamageNoticed ==
    pc = "given" /\ Finished =>
        \E f \in Given : f.cells = stream /\ got = f.written /\ reader.state = f.ends

(* Once the target is gone, by exit or by signal, the capture comes to an end.    *)
CaptureEnds == target \in {"exited", "signaled"} ~> pc \in Ended
=============================================================================
