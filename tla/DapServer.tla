----------------------------- MODULE DapServer -----------------------------
(***************************************************************************)
(* The debug-adapter server (crates/dap/src): the request loop of          *)
(* server.rs, the framing of transport.rs, and the two backends it can     *)
(* hold, the static stub and the replay backend, which steps through a     *)
(* trace from one syscall exit to the next.                                *)
(*                                                                         *)
(* The replay session under the backend is taken at what ReplaySession     *)
(* promises (TimeTravel): run_to ends at the first record at or after its  *)
(* argument.  Here it can also fail half way, fail to respawn, or, for a   *)
(* multi-threaded trace, never come back from a backward run (MtReplay).   *)
(***************************************************************************)
EXTENDS CheckpointSelect, FiniteSetsExt, Functions

CONSTANTS
    Traces,     \* [positions, events, mt, end]: record seqs, those of SyscallExits, ...
    Input,      \* what a client may send: [headers, payload]
    Faults,     \* which faults of the session happen: "diverge", "respawn", "hang"
    MaxSeq      \* bound on the messages of one conversation

\* The events of a trace are some of its records, in order; a target exits or is killed.
ASSUME TracesAssumption ==
    \A tr \in Traces :
        /\ tr.positions \subseteq Seqno /\ tr.events \in Seq(tr.positions)
        /\ \A i, j \in DOMAIN tr.events : i < j => tr.events[i] < tr.events[j]
        /\ tr.end.how \in {"exited", "signaled"} /\ tr.end.n \in Nat /\ tr.end # None

\* A jump names a u64, or nothing the server reads as one.
ASSUME InputAssumption ==
    \A in \in Input : in.payload.command = "jumpToEvent" => in.payload.seq \in Seqno \cup {None}

VARIABLES
    ctl,        \* "reading", "dispatch", "writing", "hung" or "ended"
    req,        \* the request being served or last served
    outq,       \* messages of the reply not yet written
    wire,       \* messages of the reply written so far
    next_seq,
    backend,    \* [kind, trace, cursor, exited]
    session     \* [at, finished, alive] of the backend's ReplaySession

vars == <<ctl, req, outq, wire, next_seq, backend, session>>

-----------------------------------------------------------------------------
(* transport.rs: a header block is a sequence of lines, cut by a hangup.   *)

read_headers(lines) ==
    LET ends == {i \in DOMAIN lines : lines[i] \in {"blank", "bad_length"}}
    IN  CASE lines = <<>> -> "eof"
          [] lines # <<>> /\ ends = {} -> "MissingContentLength"
          [] ends # {} /\ lines[Min(ends)] = "bad_length" -> "InvalidContentLength"
          [] OTHER -> IF \E i \in 1..Min(ends) : lines[i] = "length"
                        THEN "length" ELSE "MissingContentLength"

\* What the loop makes of one frame: a request, "skip" (JSON, but no request), the
\* client's hangup, or an error that ends the loop.
read_frame(in) ==
    LET header == read_headers(in.headers)
    IN  IF header # "length" THEN [command |-> header]
        ELSE CASE in.payload.command = "short" -> [command |-> "Io"]
               [] in.payload.command = "malformed" -> [command |-> "MalformedJson"]
               [] OTHER -> in.payload

Stops == {"eof", "Io", "MissingContentLength", "InvalidContentLength", "MalformedJson"}

\* protocol.rs
success == [type |-> "response", name |-> "success"]
failure == [type |-> "response", name |-> "failure"]
event(name) == [type |-> "event", name |-> name]
output == event("output")

-----------------------------------------------------------------------------
(* The session below the replay backend.                                   *)

Entry == [at |-> None, finished |-> None, alive |-> TRUE]

Ahead(s) == {p \in backend.trace.positions : s.at = None \/ p > s.at}

\* How a drive comes back, beside the tracee's end.
Stop(how) == [how |-> how, n |-> 0]

\* The state and the result of driving s until record t (None: to the end).
Drive(s, t) ==
    LET there == {p \in Ahead(s) : t # None /\ p >= t}
        passed == IF there = {} THEN Ahead(s) ELSE Ahead(s) \cap 0..(Min(there) - 1)
        last == IF Ahead(s) = {} THEN s.at ELSE Max(Ahead(s))
        result(st, r) == [session |-> st, result |-> r]
    IN  CASE s.finished # None -> {result(s, s.finished)}
          [] s.finished = None /\ ~s.alive -> {result(s, Stop("error"))}
          [] s.finished = None /\ s.alive /\ t # None /\ s.at # None /\ s.at >= t ->
               {result(s, Stop("running"))}
          [] OTHER ->
               (IF there # {} THEN {result([s EXCEPT !.at = Min(there)], Stop("running"))}
                ELSE {result([at |-> last, finished |-> backend.trace.end, alive |-> FALSE],
                             backend.trace.end)})
               \cup {result([s EXCEPT !.at = p], Stop("error")) :
                        p \in IF "diverge" \in Faults THEN passed \cup {s.at} ELSE {}}

\* run_to: going back starts over, from a checkpoint or from entry.
run_to(t) ==
    IF ~should_restart(session.at, 0, t) THEN Drive(session, t)
    ELSE Drive(Entry, t)
         \cup (IF "respawn" \in Faults
                 THEN {[session |-> [session EXCEPT !.alive = FALSE], result |-> Stop("error")]} ELSE {})
         \cup (IF "hang" \in Faults /\ backend.trace.mt /\ session.alive
                 THEN {[session |-> session, result |-> Stop("hang")]} ELSE {})

run_to_end == Drive(session, None)

-----------------------------------------------------------------------------
(* replay_backend.rs                                                       *)

Stub == [kind |-> "stub", trace |-> None, cursor |-> 0, exited |-> None]

\* ReplayBackend::open; a trace the session cannot launch leaves no backend.
Opened(trace) == [kind |-> "replay", trace |-> trace, cursor |-> 0, exited |-> None]

events == backend.trace.events
Exits(result) == result.how \in {"exited", "signaled"}

Mutant_SignalForgotten(outcome) ==
    IF outcome.result.how = "exited" THEN outcome.result.n ELSE None

\* classify: the exit state a successful run leaves in the backend.
classify(outcome) ==
    IF ~Exits(outcome.result) THEN None
    ELSE IF outcome.result.how = "signaled" THEN 128 + outcome.result.n ELSE outcome.result.n

Mutant_StopFirst(outcome) ==
    IF Exits(outcome.result) THEN <<event("exited"), event("terminated"), success>>
    ELSE <<event("stopped"), success>>

\* The response, then emit_stop.
Stopped(outcome) ==
    <<success>> \o IF Exits(outcome.result) THEN <<event("exited"), event("terminated")>>
                   ELSE <<event("stopped")>>

\* fail
Failed == <<output, failure>>

Reply(messages) == ctl' = "writing" /\ outq' = messages

\* How every moving request ends: the cursor and the exit state are updated only
\* if the engine did not fail.
Settle(outcome, index, note) ==
    \/ /\ outcome.result.how = "hang"
       /\ ctl' = "hung" /\ UNCHANGED <<outq, backend, session>>
    \/ /\ outcome.result.how = "error"
       /\ session' = outcome.session /\ UNCHANGED backend
       /\ Reply(Failed)
    \/ /\ outcome.result.how \notin {"hang", "error"}
       /\ session' = outcome.session
       /\ backend' = [backend EXCEPT !.cursor = index, !.exited = classify(outcome)]
       /\ Reply(<<Head(Stopped(outcome))>> \o note \o Tail(Stopped(outcome)))

goto(index, note) == \E outcome \in run_to(events[index + 1]) : Settle(outcome, index, note)

RunToEnd(note) == \E outcome \in run_to_end : Settle(outcome, Len(events), note)

\* launch positions the target at the first event; checkpoint_note follows the
\* response when the trace is multi-threaded.
checkpoint_note == IF backend.trace.mt THEN <<output>> ELSE <<>>

launch == IF events = <<>> THEN RunToEnd(checkpoint_note) ELSE goto(0, checkpoint_note)

\* The index a stepBack, and a step forward, is for.
Previous == IF backend.cursor = 0 THEN 0 ELSE backend.cursor - 1

Mutant_NextStays == backend.cursor

Following == backend.cursor + 1

resume(kind) ==
    CASE kind = "continue" -> RunToEnd(<<>>)
      [] kind = "reverseContinue" -> IF events = <<>> THEN RunToEnd(<<>>) ELSE goto(0, <<>>)
      [] kind = "stepBack" -> IF events = <<>> THEN Reply(Failed) /\ UNCHANGED <<backend, session>>
                              ELSE goto(Previous, <<>>)
      [] OTHER -> IF Following >= Len(events) THEN RunToEnd(<<>>)
                  ELSE goto(Following, <<>>)

Mutant_NextPosition(reached) ==
    LET from == {i \in DOMAIN events : events[i] >= reached}
    IN  IF from = {} THEN Len(events) ELSE Min(from) - 1

\* The cursor of a jump: the last event at or before the place reached, or 0.
rposition(reached) ==
    LET before == {i \in DOMAIN events : events[i] <= reached}
    IN  IF before = {} THEN 0 ELSE Max(before) - 1

jump_to_event(seq) ==
    \E outcome \in run_to(seq) :
        LET at == outcome.session.at
        IN  Settle(outcome, rposition(IF at = None THEN 0 ELSE at), <<>>)

-----------------------------------------------------------------------------
(* server.rs                                                               *)

Init ==
    /\ ctl = "reading" /\ req = [command |-> "none"]
    /\ outq = <<>> /\ wire = <<>> /\ next_seq = 0
    /\ backend = Stub /\ session = Entry

\* run_buffered reads the next frame.
Receive(in) ==
    /\ ctl = "reading" /\ next_seq < MaxSeq
    /\ LET r == read_frame(in)
       IN  \/ r.command \in Stops /\ ctl' = "ended" /\ UNCHANGED <<req, wire>>
           \/ r.command = "skip" /\ UNCHANGED <<ctl, req, wire>>
           \/ r.command \notin Stops \cup {"skip"} /\ ctl' = "dispatch" /\ req' = r /\ wire' = <<>>
    /\ UNCHANGED <<outq, next_seq, backend, session>>

Serve(commands) ==
    /\ ctl = "dispatch" /\ req.command \in commands
    /\ UNCHANGED <<req, wire, next_seq>>

OnInitialize ==
    /\ Serve({"initialize"})
    /\ Reply(<<success, event("initialized")>>)
    /\ UNCHANGED <<backend, session>>

OnPlain ==
    /\ Serve({"configurationDone", "setBreakpoints", "disconnect"})
    /\ Reply(<<success>>)
    /\ UNCHANGED <<backend, session>>

\* The stub reports a stop where it stands for everything but going back.
StubMove ==
    /\ Reply(IF req.command \in {"stepBack", "reverseContinue"} THEN Failed
             ELSE <<success, event("stopped")>>)
    /\ UNCHANGED <<backend, session>>

\* A trace argument that cannot be opened leaves the backend as it was; one that can
\* is opened here and launched in the next step, with nothing in between.
OpenTrace ==
    /\ Serve({"launch"}) /\ req.trace # None
    /\ \/ /\ req.trace \notin Traces
          /\ Reply(Failed) /\ UNCHANGED <<backend, session>>
       \/ /\ req.trace \in Traces
          /\ ctl' = "launch" /\ backend' = Opened(req.trace) /\ session' = Entry
          /\ UNCHANGED outq

Launch ==
    /\ \/ ctl = "launch" /\ UNCHANGED <<req, wire, next_seq>>
       \/ Serve({"launch"}) /\ req.trace = None
    /\ \/ backend.kind = "replay" /\ launch
       \/ backend.kind = "stub" /\ StubMove

Moves == {"continue", "reverseContinue", "stepBack", "next", "stepIn", "stepOut"}

OnResume ==
    /\ Serve(Moves)
    /\ \/ backend.kind = "replay" /\ resume(req.command)
       \/ backend.kind = "stub" /\ StubMove

Mutant_JumpNoReply ==
    /\ Serve({"jumpToEvent"})
    /\ backend.kind = "replay" /\ req.seq # None /\ jump_to_event(req.seq)

\* jumpToEvent without a number, or of the stub, fails.
OnJump ==
    /\ Serve({"jumpToEvent"})
    /\ \/ backend.kind = "replay" /\ req.seq # None /\ jump_to_event(req.seq)
       \/ /\ backend.kind = "stub" \/ req.seq = None
          /\ Reply(Failed) /\ UNCHANGED <<backend, session>>

\* tracee_pid
HasTracee == backend.exited = None

\* The stub's canned bodies.
StubAnswer == backend.kind = "stub" /\ Reply(<<success>>)

\* A request that looks at the stopped tracee.  The view, the decoder and the unwinder
\* can fail on a live tracee and do fail on one that is gone.
Inspect ==
    /\ \/ StubAnswer
       \/ backend.kind = "replay" /\ HasTracee /\ session.alive /\ Reply(<<success>>)
       \/ backend.kind = "replay" /\ Reply(Failed)
    /\ UNCHANGED <<backend, session>>

OnThreads == Serve({"threads"}) /\ Inspect
OnStackTrace == Serve({"stackTrace"}) /\ Inspect
OnTaskTimeline == Serve({"taskTimeline"}) /\ Inspect

REGISTERS_REF == "registers"

\* Only the registers' reference needs the tracee; any other has no variables.
OnVariables ==
    /\ Serve({"variables"})
    /\ \/ req.reference = REGISTERS_REF /\ Inspect
       \/ req.reference # REGISTERS_REF /\ Reply(<<success>>) /\ UNCHANGED <<backend, session>>

\* The one scope, and the session's list of snapshots: neither needs the tracee.
OnStatic ==
    /\ Serve({"scopes", "listCheckpoints"})
    /\ Reply(<<success>>)
    /\ UNCHANGED <<backend, session>>

OnUnsupported ==
    /\ Serve({"unsupported"})
    /\ Reply(<<failure>>)
    /\ UNCHANGED <<backend, session>>

\* write_frame, with the sequence number already taken; the client may be gone.
Write ==
    /\ ctl = "writing"
    /\ next_seq' = next_seq + 1
    /\ \/ /\ wire' = Append(wire, Head(outq)) /\ outq' = Tail(outq)
          /\ ctl' = IF Len(outq) > 1 THEN "writing"
                    ELSE IF req.command = "disconnect" THEN "ended" ELSE "reading"
       \/ ctl' = "ended" /\ UNCHANGED <<wire, outq>>
    /\ UNCHANGED <<req, backend, session>>

Server ==
    \/ OnInitialize \/ OnPlain \/ OpenTrace \/ Launch \/ OnResume \/ OnJump
    \/ OnThreads \/ OnStackTrace \/ OnTaskTimeline \/ OnVariables \/ OnStatic
    \/ OnUnsupported \/ Write

Next == Server \/ \E in \in Input : Receive(in)

Spec == Init /\ [][Next]_vars /\ WF_vars(Server)
-----------------------------------------------------------------------------
Replaying == backend.kind = "replay"
Served == ctl = "reading" /\ wire # <<>>
Succeeded == success \in Range(wire)
Moving == Moves \cup {"launch", "jumpToEvent"}

\* The sequence of messages a client waits for: one response to each request read,
\* as its only answer; a stop event only for a request that moved the target, after
\* its response and at the end; and an error reported as output before the failure
\* ("replay divergence must never be hidden", server.rs:236-237).
RepliesWellFormed ==
    Served =>
        LET at(m) == {i \in DOMAIN wire : wire[i] = m}
            responses == at(success) \cup at(failure)
            stops == at(event("stopped")) \cup at(event("terminated"))
        IN  /\ Cardinality(responses) = 1
            /\ stops # {} <=> (Succeeded /\ req.command \in Moving)
            /\ \A i \in stops : i = Len(wire) /\ responses \subseteq 1..(i - 1)
            /\ (failure \in Range(wire) /\ req.command # "unsupported") => wire = Failed

\* What the client was told of the target is what the session is at: after a stop it
\* is live, at or past the place the cursor names; after an exit it is gone.  An
\* inspection goes to a tracee that has not exited, errors of earlier requests
\* included (tracee_pid, replay_backend.rs:151).
StopsAreTrue ==
    /\ Served /\ Replaying /\ Succeeded /\ req.command \in Moving =>
          /\ event("stopped") \in Range(wire) <=> session.alive
          /\ event("stopped") \in Range(wire) <=> backend.exited = None
          /\ event("exited") \in Range(wire) <=> session.finished # None
    /\ Replaying /\ backend.exited = None => session.finished = None

\* Unless the last move failed, the cursor is the last event at or before the place
\* the session is at, the first event if there is none, and the end after an exit
\* (the last event, if a jump ran into the exit, or a stepBack was answered with it).
CursorTracks ==
    Served /\ Replaying /\ Succeeded /\ req.command \in Moving =>
        LET k == backend.cursor + 1
        IN  IF backend.exited # None
              THEN k \in {Len(events), Len(events) + 1}
              ELSE /\ k = 1 \/ events[k] <= session.at
                   /\ k < Len(events) => session.at < events[k + 1]

After(s) == {e \in Range(events) : e > s}
Before(s) == {e \in Range(events) : e < s}

\* Before the step the backend's cursor was right, and so was what it says of the exit.
InTouch ==
    /\ Replaying
    /\ backend.exited = None <=> session.finished = None
    /\ IF backend.exited # None THEN backend.cursor = Len(events)
       ELSE session.at # None /\ backend.cursor = Cardinality(Before(session.at + 1)) - 1

Landed == Head(outq') = success

\* StepsOneEvent of one step.
OneEvent ==
    ctl = "dispatch" /\ InTouch /\ events # <<>> /\ ctl' = "writing" /\ Landed =>
        /\ req.command \in {"next", "stepIn", "stepOut"} /\ backend.exited = None =>
              IF After(session.at) = {} THEN session'.finished # None
              ELSE session'.alive /\ session'.at = Min(After(session.at))
        /\ req.command = "stepBack" /\ session.at \in Range(events) /\ session.alive =>
              session'.alive /\ session'.at = IF Before(session.at) = {} THEN session.at
                                             ELSE Max(Before(session.at))
        /\ req.command = "stepBack" /\ backend.exited # None /\ session.at > Max(Range(events)) =>
              session'.alive /\ session'.at = Max(Range(events))
        /\ req.command = "reverseContinue" /\ session.at > events[1] =>
              session'.alive /\ session'.at = events[1]

\* A step moves by one event ("forward one event", "move to the previous recorded
\* event", backend.rs:67-71): from an event, or from between two, `next' goes to the
\* first event after it and past the last one to the exit; stepBack goes from an
\* event to the one before; reverseContinue goes to the first event from anywhere.
\* The code keeps this only where the premises say so: a jump to before the first
\* event leaves the cursor on it, one to between two events on the earlier one, and
\* a target that exited at its last recorded event is not brought back to it.
StepsOneEvent == [][OneEvent]_vars

\* A request that was read is answered in full or the client is gone, unless the
\* engine never returns, which only a multi-threaded trace can make it do.
RequestsServed ==
    (ctl = "dispatch") ~> (ctl \in {"reading", "ended"} \/ (ctl = "hung" /\ backend.trace.mt))
=============================================================================
