-------------------------- MODULE DapServerProofs --------------------------
(***************************************************************************)
(* The debug-adapter server for any traces, client messages and faults of  *)
(* the session (crates/dap/src).                                           *)
(***************************************************************************)
EXTENDS DapServer, NumberLemmas, FiniteSetTheorems, SequenceTheorems

-----------------------------------------------------------------------------
(* The inductive invariant.                                                *)

BackendFields == {"kind", "trace", "cursor", "exited"}
SessionFields == {"at", "finished", "alive"}

\* A session of the backend's trace: one that has reported the target's end has passed
\* every record.
SessionOK(s) ==
    /\ DOMAIN s = SessionFields /\ s.alive \in BOOLEAN
    /\ s.at = None \/ s.at \in backend.trace.positions
    /\ s.alive => s.finished = None
    /\ s.finished # None =>
          /\ s.finished = backend.trace.end
          /\ \A p \in backend.trace.positions : s.at # None /\ p <= s.at

\* The replay backend's cursor is an event's or the end.
BackendInv ==
    /\ DOMAIN backend = BackendFields /\ backend.kind \in {"stub", "replay"}
    /\ Replaying =>
          /\ backend.trace \in Traces /\ backend.cursor \in 0..Len(events)
          /\ SessionOK(session)
          /\ backend.exited = None => session.finished = None

Message == {success, failure, output, event("initialized"), event("stopped"), event("exited"),
            event("terminated")}

StopReply == {<<success, event("stopped")>>, <<success, output, event("stopped")>>}
ExitReply == {<<success, event("exited"), event("terminated")>>,
              <<success, output, event("exited"), event("terminated")>>}

\* The replies there are to a command.
Answers(command, m) ==
    \/ m = Failed /\ command # "unsupported"
    \/ m = <<failure>> /\ command = "unsupported"
    \/ m \in {<<success>>, <<success, event("initialized")>>} /\ command \notin Moving
    \/ m \in StopReply \cup ExitReply /\ command \in Moving

\* Where the cursor is after a move.
Tracked ==
    LET k == backend.cursor + 1
    IN  IF backend.exited # None
          THEN k \in {Len(events), Len(events) + 1}
          ELSE /\ k = 1 \/ events[k] <= session.at
               /\ k < Len(events) => session.at < events[k + 1]

\* What a reply says of the target.
Tells(m) ==
    /\ m \in StopReply => session.alive /\ backend.exited = None /\ Tracked
    /\ m \in ExitReply => ~session.alive /\ backend.exited # None /\ session.finished # None /\ Tracked

\* The reply being written, from its first message to its last.
ReplyInv ==
    /\ ctl \in {"reading", "dispatch", "launch", "writing", "hung", "ended"}
    /\ wire \in Seq(Message) /\ outq \in Seq(Message)
    /\ req.command = "jumpToEvent" => req.seq \in Seqno \cup {None}
    /\ ctl = "launch" => req.command = "launch" /\ Replaying
    /\ ctl \in {"dispatch", "launch"} => wire = <<>>
    /\ ctl = "reading" => outq = <<>>
    /\ ctl = "writing" => outq # <<>>
    /\ ctl = "writing" \/ Served =>
          Answers(req.command, wire \o outq) /\ (Replaying => Tells(wire \o outq))

DapInv == BackendInv /\ ReplyInv

-----------------------------------------------------------------------------
(* Searches of a trace.                                                    *)

LEMMA MinIs ==
    ASSUME NEW S \in SUBSET Nat, S # {}
    PROVE  Min(S) \in S /\ \A x \in S : Min(S) <= x
<1>1. \E m \in S : \A x \in S : m <= x BY Zenon, LeastExists
<1> QED BY Zenon, <1>1 DEF Min

LEMMA MaxIs ==
    ASSUME NEW n \in Nat, NEW S \in SUBSET (0..n), S # {}
    PROVE  Max(S) \in S /\ \A x \in S : x <= Max(S)
<1>1. PICK m \in S : \A x \in S : x <= m BY Zenon, GreatestExists
<1>2. \A x \in S : m >= x BY Zenon, <1>1
<1>3. Max(S) \in S /\ \A x \in S : Max(S) >= x BY Zenon, <1>2 DEF Max
<1> QED BY Zenon, <1>3

LEMMA TraceIs ==
    ASSUME NEW tr \in Traces
    PROVE  /\ U64Max \in Nat /\ tr.positions \subseteq 0..U64Max /\ tr.positions \subseteq Nat
           /\ Len(tr.events) \in Nat /\ DOMAIN tr.events = 1..Len(tr.events)
           /\ (tr.events = <<>> <=> Len(tr.events) = 0)
           /\ \A i \in 1..Len(tr.events) : tr.events[i] \in tr.positions /\ tr.events[i] \in Nat
           /\ \A i, j \in 1..Len(tr.events) : i < j => tr.events[i] < tr.events[j]
           /\ \A i, j \in 1..Len(tr.events) : i <= j => tr.events[i] <= tr.events[j]
           /\ tr.end.how \in {"exited", "signaled"} /\ tr.end.n \in Nat /\ tr.end # None
<1>1. U64Max \in Nat /\ tr.positions \subseteq 0..U64Max /\ tr.positions \subseteq Nat
  BY TracesAssumption, SelectAssumption DEF Seqno
<1>2. tr.events \in Seq(tr.positions) BY Zenon, TracesAssumption
<1>3. /\ Len(tr.events) \in Nat /\ DOMAIN tr.events = 1..Len(tr.events)
      /\ (tr.events = <<>> <=> Len(tr.events) = 0)
      /\ \A i \in 1..Len(tr.events) : tr.events[i] \in tr.positions
  BY <1>2
<1>4. \A i, j \in 1..Len(tr.events) : i < j => tr.events[i] < tr.events[j]
  BY Zenon, <1>3, TracesAssumption
<1>5. ASSUME NEW i \in 1..Len(tr.events), NEW j \in 1..Len(tr.events), i <= j
      PROVE  tr.events[i] <= tr.events[j]
  <2>1. tr.events[i] \in Nat /\ tr.events[j] \in Nat BY Zenon, <1>1, <1>3
  <2>2. CASE i = j BY <2>1, <2>2
  <2>3. CASE i < j BY <1>4, <2>1, <2>3
  <2> QED BY <1>5, <2>2, <2>3
<1> QED BY Zenon, <1>1, <1>3, <1>4, <1>5, TracesAssumption

\* Driving the session: where it can come back.
LEMMA DriveIs ==
    ASSUME BackendInv, Replaying, NEW s, SessionOK(s), NEW t, t = None \/ t \in Nat,
           NEW o \in Drive(s, t)
    PROVE  /\ SessionOK(o.session) /\ o.result.how \in {"running", "error", "exited", "signaled"}
           /\ o.result.how = "running" =>
                /\ o.session.alive /\ t \in Nat /\ o.session.at \in backend.trace.positions
                /\ o.session.at >= t
                /\ s.at # None /\ s.at >= t => o.session.at = s.at
                /\ s.at = None \/ ~(s.at >= t) =>
                      \A p \in backend.trace.positions : p >= t => o.session.at <= p
           /\ o.result.how = "error" => o.session.finished = None
           /\ Exits(o.result) =>
                /\ o.session.finished # None /\ ~o.session.alive /\ o.result = backend.trace.end
                /\ s.finished = None => ~(t # None /\ s.at # None /\ s.at >= t)
                /\ s.finished = None /\ t # None =>
                      \A p \in backend.trace.positions : p >= t => s.at # None /\ p <= s.at
                /\ s.finished # None => o.session = s
<1> DEFINE P == backend.trace.positions
           there == {p \in Ahead(s) : t # None /\ p >= t}
           passed == IF there = {} THEN Ahead(s) ELSE Ahead(s) \cap 0..(Min(there) - 1)
           last == IF Ahead(s) = {} THEN s.at ELSE Max(Ahead(s))
           result(st, r) == [session |-> st, result |-> r]
<1>0. /\ U64Max \in Nat /\ P \subseteq 0..U64Max /\ P \subseteq Nat /\ None \notin Nat
      /\ backend.trace.end.how \in {"exited", "signaled"} /\ backend.trace.end # None
  BY Zenon, TraceIs, SelectAssumption DEF BackendInv
<1>a. Ahead(s) = {p \in P : s.at = None \/ p > s.at} BY Zenon DEF Ahead
<1>e. \A st, r : result(st, r).session = st /\ result(st, r).result = r BY Zenon
<1>s. (Stop("error")).how = "error" /\ (Stop("running")).how = "running" BY Zenon DEF Stop
<1>1. CASE s.finished # None
  <2>1. Drive(s, t) = {result(s, s.finished)} BY Zenon, <1>1 DEF Drive
  <2>2. o.session = s /\ o.result = s.finished BY <2>1
  <2> QED BY Zenon, <1>0, <1>1, <2>2 DEF SessionOK, Exits
<1>2. CASE s.finished = None /\ ~s.alive
  <2>1. Drive(s, t) = {result(s, Stop("error"))} BY Zenon, <1>2 DEF Drive
  <2>2. o.session = s /\ o.result = Stop("error") BY <2>1
  <2> QED BY Zenon, <1>2, <1>s, <2>2 DEF Exits
<1>3. CASE s.finished = None /\ s.alive /\ t # None /\ s.at # None /\ s.at >= t
  <2>1. Drive(s, t) = {result(s, Stop("running"))} BY Zenon, <1>3 DEF Drive
  <2>2. o.session = s /\ o.result = Stop("running") BY <2>1
  <2> QED BY Zenon, <1>0, <1>3, <1>s, <2>2 DEF Exits, SessionOK
<1>4. CASE s.finished = None /\ s.alive /\ ~(t # None /\ s.at # None /\ s.at >= t)
  <2> DEFINE ended == [at |-> last, finished |-> backend.trace.end, alive |-> FALSE]
  <2>1. Drive(s, t) =
          (IF there # {} THEN {result([s EXCEPT !.at = Min(there)], Stop("running"))}
           ELSE {result(ended, backend.trace.end)})
          \cup {result([s EXCEPT !.at = p], Stop("error")) :
                   p \in IF "diverge" \in Faults THEN passed \cup {s.at} ELSE {}}
    BY Zenon, <1>4 DEF Drive
  <2>2. CASE there # {} /\ o = result([s EXCEPT !.at = Min(there)], Stop("running"))
    <3>1. there \in SUBSET Nat /\ there \subseteq P BY Zenon, <1>0, <1>a
    <3>2. Min(there) \in there /\ \A x \in there : Min(there) <= x
      <4> HIDE DEF there
      <4> QED BY Zenon, <2>2, <3>1, MinIs
    <3>3. o.session = [s EXCEPT !.at = Min(there)] /\ o.result.how = "running" BY Zenon, <1>s, <2>2
    <3>4. t \in Nat /\ Min(there) >= t /\ Min(there) \in P BY Zenon, <3>1, <3>2
    <3>5. \A p \in P : p >= t => Min(there) <= p
      <4> SUFFICES ASSUME NEW p \in P, p >= t PROVE p \in there BY Zenon, <3>2
      <4>1. s.at = None \/ (s.at \in Nat /\ ~(s.at >= t)) BY Zenon, <1>0, <1>4, <3>4 DEF SessionOK
      <4>2. s.at = None \/ p > s.at BY <1>0, <3>4, <4>1
      <4> QED BY Zenon, <1>a, <3>4, <4>2, SelectAssumption
    <3> HIDE DEF there
    <3>6. /\ o.session.at = Min(there) /\ DOMAIN o.session = SessionFields
          /\ o.session.alive = s.alive /\ o.session.finished = s.finished
      BY Zenon, <3>3 DEF SessionOK, SessionFields
    <3>7. SessionOK(o.session) BY Zenon, <1>4, <3>4, <3>6 DEF SessionOK
    <3> QED BY Zenon, <1>4, <3>3, <3>4, <3>5, <3>6, <3>7, SelectAssumption DEF Exits
  <2>3. CASE there = {} /\ o = result(ended, backend.trace.end)
    <3>1. /\ o.session.at = last /\ o.session.finished = backend.trace.end /\ o.session.alive = FALSE
          /\ DOMAIN o.session = SessionFields /\ o.result = backend.trace.end
      BY Zenon, <2>3 DEF SessionFields
    <3>2. last = None \/ last \in P
      <4>1. CASE Ahead(s) = {} BY Zenon, <4>1 DEF SessionOK
      <4>2. CASE Ahead(s) # {}
        <5>1. Ahead(s) \in SUBSET (0..U64Max) BY Zenon, <1>0, <1>a
        <5>2. Max(Ahead(s)) \in Ahead(s) BY Zenon, <1>0, <4>2, <5>1, MaxIs
        <5> QED BY Zenon, <1>a, <4>2, <5>2
      <4> QED BY Zenon, <4>1, <4>2
    <3>3. ASSUME NEW p \in P PROVE last # None /\ p <= last
      <4>1. CASE Ahead(s) = {}
        <5>1. s.at # None /\ ~(p > s.at) BY Zenon, <1>a, <4>1
        <5>2. s.at \in Nat BY Zenon, <1>0, <5>1 DEF SessionOK
        <5> QED BY <1>0, <4>1, <5>1, <5>2
      <4>2. CASE Ahead(s) # {}
        <5>1. Ahead(s) \in SUBSET (0..U64Max) BY Zenon, <1>0, <1>a
        <5>2. Max(Ahead(s)) \in Ahead(s) /\ \A x \in Ahead(s) : x <= Max(Ahead(s))
          BY Zenon, <1>0, <4>2, <5>1, MaxIs
        <5>3. Max(Ahead(s)) \in Nat /\ (s.at = None \/ Max(Ahead(s)) > s.at) BY Zenon, <1>0, <1>a, <5>2
        <5>4. CASE p \in Ahead(s) BY Zenon, <1>0, <4>2, <5>2, <5>3, <5>4
        <5>5. CASE p \notin Ahead(s)
          <6>1. s.at # None /\ ~(p > s.at) /\ s.at \in Nat BY Zenon, <1>0, <1>a, <5>5 DEF SessionOK
          <6> QED BY <1>0, <4>2, <5>3, <6>1
        <5> QED BY Zenon, <5>4, <5>5
      <4> QED BY Zenon, <4>1, <4>2
    <3> HIDE DEF last
    <3>4. SessionOK(o.session) BY Zenon, <1>0, <3>1, <3>2, <3>3 DEF SessionOK
    <3>5. t # None => \A p \in P : p >= t => s.at # None /\ p <= s.at
      <4> SUFFICES ASSUME t # None, NEW p \in P, p >= t PROVE s.at # None /\ p <= s.at BY Zenon
      <4>1. p \notin Ahead(s) BY Zenon, <2>3
      <4>2. s.at # None /\ ~(p > s.at) BY Zenon, <1>a, <4>1
      <4>3. s.at \in Nat /\ p \in Nat BY Zenon, <1>0, <4>2 DEF SessionOK
      <4> QED BY <4>2, <4>3
    <3> QED BY Zenon, <1>0, <1>4, <3>1, <3>4, <3>5
  <2>4. ASSUME NEW p \in passed \cup {s.at}, o = result([s EXCEPT !.at = p], Stop("error"))
        PROVE  SessionOK(o.session) /\ o.result.how = "error" /\ o.session.finished = None
    <3>1. p = None \/ p \in P BY Zenon, <1>a DEF SessionOK
    <3>2. o.session = [s EXCEPT !.at = p] /\ o.result.how = "error" BY Zenon, <1>s, <2>4
    <3> HIDE DEF passed
    <3>3. /\ o.session.at = p /\ DOMAIN o.session = SessionFields
          /\ o.session.alive = s.alive /\ o.session.finished = s.finished
      BY Zenon, <3>2 DEF SessionOK, SessionFields
    <3> QED BY Zenon, <1>4, <3>1, <3>2, <3>3 DEF SessionOK
  <2>5. \/ there # {} /\ o = result([s EXCEPT !.at = Min(there)], Stop("running"))
        \/ there = {} /\ o = result(ended, backend.trace.end)
        \/ \E p \in passed \cup {s.at} : o = result([s EXCEPT !.at = p], Stop("error"))
    <3> HIDE DEF there, passed, ended, result
    <3> QED BY Zenon, <2>1
  <2> HIDE DEF there, passed, ended, result
  <2>6. CASE \E p \in passed \cup {s.at} : o = result([s EXCEPT !.at = p], Stop("error"))
    <3>1. SessionOK(o.session) /\ o.result.how = "error" /\ o.session.finished = None BY Zenon, <2>4, <2>6
    <3> QED BY Zenon, <3>1 DEF Exits
  <2> QED BY Zenon, <2>2, <2>3, <2>5, <2>6
<1> QED BY Zenon, <1>1, <1>2, <1>3, <1>4

LEMMA EntryIsOK == SessionOK(Entry)
BY Zenon, SelectAssumption DEF SessionOK, Entry, SessionFields

\* run_to: a stop is at the first record at or after the target, whichever way the session
\* went; it exits only if there is no such record, or if it had exited at the target.
LEMMA RunToIs ==
    ASSUME BackendInv, Replaying, NEW t \in Nat, NEW o \in run_to(t)
    PROVE  /\ o.result.how \in {"running", "error", "exited", "signaled", "hang"}
           /\ o.result.how # "hang" => SessionOK(o.session)
           /\ o.result.how = "running" =>
                /\ o.session.alive /\ o.session.at \in backend.trace.positions /\ o.session.at >= t
                /\ \A p \in backend.trace.positions : p >= t => o.session.at <= p
           /\ o.result.how = "error" => o.session.finished \in {None, session.finished}
           /\ Exits(o.result) =>
                /\ o.session.finished # None /\ ~o.session.alive /\ o.result = backend.trace.end
                /\ session.at = None \/ session.at <= t
                /\ \A p \in backend.trace.positions :
                      p >= t => session.finished # None /\ p = session.at
<1> DEFINE P == backend.trace.positions
<1>0. P \subseteq Nat /\ backend.trace.end # None /\ None \notin Nat
  BY Zenon, TraceIs, SelectAssumption DEF BackendInv
<1>s. SessionOK(session) /\ (session.at = None \/ session.at \in P) BY Zenon DEF BackendInv, SessionOK
<1>1. CASE ~should_restart(session.at, 0, t)
  <2>1. o \in Drive(session, t) BY Zenon, <1>1 DEF run_to
  <2>2. session.at = None \/ (session.at \in Nat /\ session.at <= t)
    BY <1>0, <1>1, <1>s DEF should_restart
  <2>3. /\ SessionOK(o.session) /\ o.result.how \in {"running", "error", "exited", "signaled"}
        /\ o.result.how = "running" =>
             /\ o.session.alive /\ t \in Nat /\ o.session.at \in P
             /\ o.session.at >= t
             /\ session.at # None /\ session.at >= t => o.session.at = session.at
             /\ session.at = None \/ ~(session.at >= t) =>
                   \A p \in P : p >= t => o.session.at <= p
        /\ o.result.how = "error" => o.session.finished = None
        /\ Exits(o.result) =>
             /\ o.session.finished # None /\ ~o.session.alive /\ o.result = backend.trace.end
             /\ session.finished = None => ~(t # None /\ session.at # None /\ session.at >= t)
             /\ session.finished = None /\ t # None =>
                   \A p \in P : p >= t => session.at # None /\ p <= session.at
             /\ session.finished # None => o.session = session
    BY Zenon, <1>s, <2>1, DriveIs
  <2>4. o.result.how = "running" => \A p \in P : p >= t => o.session.at <= p
    <3>1. CASE session.at = None \/ ~(session.at >= t) BY Zenon, <2>3, <3>1
    <3>2. CASE session.at # None /\ session.at >= t
      <4>1. session.at = t BY <2>2, <3>2
      <4> QED BY Zenon, <1>0, <2>3, <3>2, <4>1
    <3> QED BY Zenon, <3>1, <3>2
  <2>5. ASSUME Exits(o.result), NEW p \in P, p >= t
        PROVE  session.finished # None /\ p = session.at
    <3>1. p \in Nat /\ t # None BY Zenon, <1>0
    <3>2. session.finished # None
      <4> SUFFICES ASSUME session.finished = None PROVE FALSE BY Zenon
      <4>1. session.at # None /\ p <= session.at /\ ~(session.at >= t) BY Zenon, <2>3, <2>5, <3>1
      <4> QED BY <2>2, <2>5, <3>1, <4>1
    <3>3. session.at # None /\ p <= session.at BY Zenon, <1>s, <3>2 DEF SessionOK
    <3> QED BY <2>2, <2>5, <3>1, <3>2, <3>3
  <2> QED BY Zenon, <2>2, <2>3, <2>4, <2>5
<1>2. CASE should_restart(session.at, 0, t)
  <2>1. session.at \in P /\ session.at > t
    BY <1>0, <1>2, <1>s DEF should_restart
  <2>2. CASE o \in Drive(Entry, t)
    <3>1. Entry.at = None /\ Entry.finished = None BY Zenon DEF Entry
    <3>2. /\ SessionOK(o.session) /\ o.result.how \in {"running", "error", "exited", "signaled"}
          /\ o.result.how = "running" =>
               /\ o.session.alive /\ o.session.at \in P /\ o.session.at >= t
               /\ \A p \in P : p >= t => o.session.at <= p
          /\ o.result.how = "error" => o.session.finished = None
          /\ Exits(o.result) => \A p \in P : p >= t => Entry.at # None
      <4>1. t # None BY Zenon, <1>0
      <4> QED BY Zenon, <2>2, <3>1, <4>1, EntryIsOK, DriveIs
    <3>3. ~Exits(o.result)
      <4>1. session.at >= t BY <1>0, <2>1
      <4> QED BY Zenon, <2>1, <3>1, <3>2, <4>1
    <3> QED BY Zenon, <3>2, <3>3
  <2>3. CASE o = [session |-> [session EXCEPT !.alive = FALSE], result |-> Stop("error")]
    <3>1. /\ o.result.how = "error" /\ DOMAIN o.session = SessionFields
          /\ o.session.at = session.at /\ o.session.finished = session.finished
          /\ o.session.alive = FALSE
      BY Zenon, <1>s, <2>3 DEF SessionOK, SessionFields, Stop
    <3>2. SessionOK(o.session) BY Zenon, <1>s, <3>1 DEF SessionOK
    <3> QED BY Zenon, <3>1, <3>2 DEF Exits
  <2>4. CASE o = [session |-> session, result |-> Stop("hang")]
    BY Zenon, <2>4 DEF Stop, Exits
  <2> QED BY Zenon, <1>2, <2>2, <2>3, <2>4 DEF run_to
<1> QED BY Zenon, <1>1, <1>2

\* run_to_end never stops on the way.
LEMMA RunToEndIs ==
    ASSUME BackendInv, Replaying, NEW o \in run_to_end
    PROVE  /\ SessionOK(o.session) /\ o.result.how \in {"error", "exited", "signaled"}
           /\ o.result.how = "error" => o.session.finished = None
           /\ Exits(o.result) =>
                o.session.finished # None /\ ~o.session.alive /\ o.result = backend.trace.end
<1>1. SessionOK(session) BY Zenon DEF BackendInv
<1>2. o \in Drive(session, None) BY Zenon DEF run_to_end
<1>3. None \notin Nat BY Zenon, SelectAssumption
<1> QED BY Zenon, <1>1, <1>2, <1>3, DriveIs

\* The event a place belongs to: the last one at or before it.
LEMMA RpositionIs ==
    ASSUME BackendInv, Replaying, NEW r \in Nat
    PROVE  /\ rposition(r) \in 0..Len(events)
           /\ rposition(r) = 0 \/ (rposition(r) + 1 \in 1..Len(events) /\ events[rposition(r) + 1] <= r)
           /\ rposition(r) + 1 < Len(events) => r < events[rposition(r) + 2]
<1> DEFINE n == Len(events)
           before == {i \in DOMAIN events : events[i] <= r}
<1>1. /\ n \in Nat /\ DOMAIN events = 1..n
      /\ \A i \in 1..n : events[i] \in Nat
      /\ \A i, j \in 1..n : i <= j => events[i] <= events[j]
  BY Zenon, TraceIs DEF BackendInv, events
<1>2. CASE before = {}
  <2>1. rposition(r) = 0 BY Zenon, <1>2 DEF rposition
  <2>2. n > 1 => r < events[2]
    <3> SUFFICES ASSUME n > 1 PROVE r < events[2] BY Zenon
    <3>1. 2 \in 1..n BY <1>1
    <3>2. ~(events[2] <= r) /\ events[2] \in Nat BY Zenon, <1>1, <1>2, <3>1
    <3> QED BY <3>2
  <2> QED BY <1>1, <2>1, <2>2
<1>3. CASE before # {}
  <2>1. before \in SUBSET (0..n) BY <1>1
  <2>2. Max(before) \in before /\ \A x \in before : x <= Max(before)
    <3> HIDE DEF before, n
    <3> QED BY Zenon, <1>1, <1>3, <2>1, MaxIs
  <2>3. PICK m \in 1..n : m = Max(before) /\ events[m] <= r BY Zenon, <1>1, <2>2
  <2>4. rposition(r) = m - 1 BY Zenon, <1>3, <2>3 DEF rposition
  <2>5. m < n => r < events[m + 1]
    <3> SUFFICES ASSUME m < n PROVE r < events[m + 1] BY Zenon
    <3>1. m + 1 \in 1..n /\ ~(m + 1 <= m) BY <1>1
    <3>2. m + 1 \notin before BY Zenon, <2>2, <2>3, <3>1
    <3>3. ~(events[m + 1] <= r) /\ events[m + 1] \in Nat BY Zenon, <1>1, <3>1, <3>2
    <3> QED BY <3>3
  <2>6. m - 1 + 1 = m /\ m - 1 + 2 = m + 1 /\ m - 1 \in 0..n BY <1>1
  <2> QED BY Zenon, <2>3, <2>4, <2>5, <2>6
<1> QED BY Zenon, <1>2, <1>3

-----------------------------------------------------------------------------
(* Replies as sequences of messages.                                       *)

LEMMA ConcatIs ==
    ASSUME NEW S, NEW x \in Seq(S), NEW y \in Seq(S), NEW z \in Seq(S),
           NEW m \in Nat, NEW n \in Nat, Len(x) = m, Len(y) = n, Len(z) = m + n,
           \A i \in 1..m : z[i] = x[i], \A i \in 1..n : z[m + i] = y[i]
    PROVE  x \o y = z
<1>1. x \o y \in Seq(S) /\ Len(x \o y) = m + n BY Zenon, ConcatProperties
<1>2. \A i \in 1..(m + n) : (x \o y)[i] = IF i <= m THEN x[i] ELSE y[i - m] BY Zenon, ConcatProperties
<1>3. ASSUME NEW i \in 1..(m + n) PROVE (x \o y)[i] = z[i]
  <2>1. CASE i <= m
    <3>1. i \in 1..m BY <2>1
    <3> QED BY Zenon, <1>2, <2>1, <3>1
  <2>2. CASE ~(i <= m)
    <3>1. i - m \in 1..n /\ m + (i - m) = i BY <2>2
    <3>2. z[m + (i - m)] = y[i - m] BY Zenon, <3>1
    <3> QED BY Zenon, <1>2, <2>2, <3>1, <3>2
  <2> QED BY Zenon, <2>1, <2>2
<1> QED BY Zenon, <1>1, <1>3, SeqEqual

LEMMA Tuple11 ==
    ASSUME NEW a, NEW b
    PROVE  <<a>> \o <<b>> = <<a, b>>
<1> DEFINE S == {a, b}
<1>0. <<a>> \in Seq(S) /\ <<b>> \in Seq(S) /\ <<a, b>> \in Seq(S) OBVIOUS
<1> HIDE DEF S
<1>1. PICK x \in Seq(S), y \in Seq(S), z \in Seq(S) : x = <<a>> /\ y = <<b>> /\ z = <<a, b>>
  BY Zenon, <1>0
<1>m. PICK m \in Nat, n \in Nat : m = 1 /\ n = 1 BY Zenon
<1>2. Len(x) = m /\ Len(y) = n /\ Len(z) = m + n BY <1>1, <1>m
<1>3. \A i \in 1..m : z[i] = x[i] BY <1>1, <1>m
<1>4. \A i \in 1..n : z[m + i] = y[i] BY <1>1, <1>m
<1>5. x \o y = z BY ZenonT(30), <1>2, <1>3, <1>4, ConcatIs
<1> QED BY Zenon, <1>1, <1>5

LEMMA Tuple12 ==
    ASSUME NEW a, NEW b, NEW c
    PROVE  <<a>> \o <<b, c>> = <<a, b, c>>
<1> DEFINE S == {a, b, c}
<1>0. <<a>> \in Seq(S) /\ <<b, c>> \in Seq(S) /\ <<a, b, c>> \in Seq(S) OBVIOUS
<1> HIDE DEF S
<1>1. PICK x \in Seq(S), y \in Seq(S), z \in Seq(S) : x = <<a>> /\ y = <<b, c>> /\ z = <<a, b, c>>
  BY Zenon, <1>0
<1>m. PICK m \in Nat, n \in Nat : m = 1 /\ n = 2 BY Zenon
<1>2. Len(x) = m /\ Len(y) = n /\ Len(z) = m + n BY <1>1, <1>m
<1>3. \A i \in 1..m : z[i] = x[i] BY <1>1, <1>m
<1>4. \A i \in 1..n : z[m + i] = y[i] BY <1>1, <1>m
<1>5. x \o y = z BY ZenonT(30), <1>2, <1>3, <1>4, ConcatIs
<1> QED BY Zenon, <1>1, <1>5

LEMMA Tuple21 ==
    ASSUME NEW a, NEW b, NEW c
    PROVE  <<a, b>> \o <<c>> = <<a, b, c>>
<1> DEFINE S == {a, b, c}
<1>0. <<a, b>> \in Seq(S) /\ <<c>> \in Seq(S) /\ <<a, b, c>> \in Seq(S) OBVIOUS
<1> HIDE DEF S
<1>1. PICK x \in Seq(S), y \in Seq(S), z \in Seq(S) : x = <<a, b>> /\ y = <<c>> /\ z = <<a, b, c>>
  BY Zenon, <1>0
<1>m. PICK m \in Nat, n \in Nat : m = 2 /\ n = 1 BY Zenon
<1>2. Len(x) = m /\ Len(y) = n /\ Len(z) = m + n BY <1>1, <1>m
<1>3. \A i \in 1..m : z[i] = x[i] BY <1>1, <1>m
<1>4. \A i \in 1..n : z[m + i] = y[i] BY <1>1, <1>m
<1>5. x \o y = z BY ZenonT(30), <1>2, <1>3, <1>4, ConcatIs
<1> QED BY Zenon, <1>1, <1>5

LEMMA Tuple22 ==
    ASSUME NEW a, NEW b, NEW c, NEW d
    PROVE  <<a, b>> \o <<c, d>> = <<a, b, c, d>>
<1> DEFINE S == {a, b, c, d}
<1>0. <<a, b>> \in Seq(S) /\ <<c, d>> \in Seq(S) /\ <<a, b, c, d>> \in Seq(S) OBVIOUS
<1> HIDE DEF S
<1>1. PICK x \in Seq(S), y \in Seq(S), z \in Seq(S) : x = <<a, b>> /\ y = <<c, d>> /\ z = <<a, b, c, d>>
  BY Zenon, <1>0
<1>m. PICK m \in Nat, n \in Nat : m = 2 /\ n = 2 BY Zenon
<1>2. Len(x) = m /\ Len(y) = n /\ Len(z) = m + n BY <1>1, <1>m
<1>3. \A i \in 1..m : z[i] = x[i] BY <1>1, <1>m
<1>4. \A i \in 1..n : z[m + i] = y[i] BY <1>1, <1>m
<1>5. x \o y = z BY ZenonT(30), <1>2, <1>3, <1>4, ConcatIs
<1> QED BY Zenon, <1>1, <1>5

LEMMA TupleParts ==
    ASSUME NEW a, NEW b, NEW c
    PROVE  /\ <<a>> \o <<>> = <<a>>
           /\ Head(<<a, b>>) = a /\ Tail(<<a, b>>) = <<b>>
           /\ Head(<<a, b, c>>) = a /\ Tail(<<a, b, c>>) = <<b, c>>
<1>1. <<a>> \in Seq({a}) /\ <<a, b>> \in Seq({a, b}) /\ <<a, b, c>> \in Seq({a, b, c}) OBVIOUS
<1> QED BY <1>1

\* Writing a message moves it from one part of the reply to the other.
LEMMA WriteMoves ==
    ASSUME NEW S, NEW w \in Seq(S), NEW q \in Seq(S), q # <<>>
    PROVE  /\ Append(w, Head(q)) \in Seq(S) /\ Tail(q) \in Seq(S)
           /\ Append(w, Head(q)) \o Tail(q) = w \o q
           /\ Len(q) <= 1 => Tail(q) = <<>>
           /\ Len(q) > 1 => Tail(q) # <<>>
           /\ Append(w, Head(q)) # <<>>
<1>1. /\ Len(q) \in Nat \ {0} /\ Head(q) = q[1] /\ Head(q) \in S /\ Tail(q) \in Seq(S)
      /\ Len(Tail(q)) = Len(q) - 1 /\ \A i \in 1..(Len(q) - 1) : Tail(q)[i] = q[i + 1]
  BY HeadTailProperties
<1>2. /\ Append(w, Head(q)) \in Seq(S) /\ Len(Append(w, Head(q))) = Len(w) + 1
      /\ \A i \in 1..Len(w) : Append(w, Head(q))[i] = w[i]
      /\ Append(w, Head(q))[Len(w) + 1] = q[1]
  BY <1>1, AppendProperties
<1>l. Len(w) \in Nat /\ Len(q) \in Nat /\ Len(q) # 0 BY <1>1
<1>3. PICK m \in Nat, n \in Nat : m = Len(w) /\ n = Len(q) /\ n # 0 BY Zenon, <1>l
<1>4. PICK x \in Seq(S), y \in Seq(S) : x = Append(w, Head(q)) /\ y = Tail(q) BY Zenon, <1>1, <1>2
<1>5. /\ Len(x) = m + 1 /\ Len(y) = n - 1 /\ (\A i \in 1..(n - 1) : y[i] = q[i + 1])
      /\ (\A i \in 1..m : x[i] = w[i]) /\ x[m + 1] = q[1]
  BY Zenon, <1>1, <1>2, <1>3, <1>4
<1>6. x \o y = w \o q
  <2> DEFINE z == x \o y
  <2>1. z \in Seq(S) /\ Len(z) = m + n
    <3>1. z \in Seq(S) /\ Len(z) = Len(x) + Len(y) BY Zenon, ConcatProperties
    <3> HIDE DEF z
    <3>2. m + 1 + (n - 1) = m + n BY <1>3
    <3> QED BY Zenon, <1>5, <3>1, <3>2
  <2>2. \A i \in 1..(m + n) : z[i] = IF i <= m + 1 THEN x[i] ELSE y[i - (m + 1)]
    <3>1. Len(x) + Len(y) = m + n BY <1>3, <1>5
    <3>2. \A i \in 1..(Len(x) + Len(y)) : z[i] = IF i <= Len(x) THEN x[i] ELSE y[i - Len(x)]
      BY Zenon, ConcatProperties
    <3> QED BY Zenon, <1>5, <3>1, <3>2
  <2> HIDE DEF z
  <2>3. ASSUME NEW i \in 1..m PROVE z[i] = w[i]
    <3>1. i \in 1..(m + n) /\ i <= m + 1 BY <1>3
    <3> QED BY Zenon, <1>5, <2>2, <3>1
  <2>4. ASSUME NEW i \in 1..n PROVE z[m + i] = q[i]
    <3>1. m + i \in 1..(m + n) BY <1>3
    <3>2. CASE i = 1 BY <1>5, <2>2, <3>1, <3>2
    <3>3. CASE i # 1
      <4>1. /\ ~(m + i <= m + 1) /\ m + i - (m + 1) = i - 1 /\ i - 1 \in 1..(n - 1) /\ i - 1 + 1 = i
        BY <1>3, <3>3
      <4>2. PICK k \in 1..(m + n) : k = m + i /\ ~(k <= m + 1) /\ k - (m + 1) = i - 1 BY <3>1, <4>1
      <4>3. z[k] = y[k - (m + 1)] BY Zenon, <2>2, <4>2
      <4> QED BY Zenon, <1>5, <4>1, <4>2, <4>3
    <3> QED BY Zenon, <3>2, <3>3
  <2>5. w \o q = z BY ZenonT(30), <1>3, <2>1, <2>3, <2>4, ConcatIs
  <2> QED BY Zenon, <2>5 DEF z
<1>7. (n <= 1 => y = <<>>) /\ (n > 1 => y # <<>>)
  BY <1>3, <1>4, <1>5, EmptySeq
<1>8. x # <<>> BY <1>3, <1>4, <1>5, EmptySeq
<1> QED BY Zenon, <1>1, <1>2, <1>3, <1>4, <1>6, <1>7, <1>8

\* The messages are all different.
LEMMA MessagesDiffer ==
    /\ success.name = "success" /\ failure.name = "failure" /\ output.name = "output"
    /\ event("initialized").name = "initialized" /\ event("stopped").name = "stopped"
    /\ event("exited").name = "exited" /\ event("terminated").name = "terminated"
BY Zenon DEF success, failure, output, event

LEMMA RepliesAreMessages ==
    /\ Failed \in Seq(Message) /\ <<failure>> \in Seq(Message) /\ <<success>> \in Seq(Message)
    /\ <<success, event("initialized")>> \in Seq(Message)
    /\ \A m \in StopReply \cup ExitReply : m \in Seq(Message) /\ m # <<>> /\ Head(m) = success
    /\ Failed # <<>> /\ Head(Failed) # success
<1> USE DEF Message
<1>1. /\ Failed \in Seq(Message) /\ <<failure>> \in Seq(Message) /\ <<success>> \in Seq(Message)
      /\ <<success, event("initialized")>> \in Seq(Message)
  BY DEF Failed
<1>2. <<success, event("stopped")>> \in Seq(Message) OBVIOUS
<1>3. <<success, output, event("stopped")>> \in Seq(Message) OBVIOUS
<1>4. <<success, event("exited"), event("terminated")>> \in Seq(Message) OBVIOUS
<1>5. <<success, output, event("exited"), event("terminated")>> \in Seq(Message) OBVIOUS
<1>6. ASSUME NEW m \in StopReply \cup ExitReply PROVE m # <<>> /\ Head(m) = success
  BY DEF StopReply, ExitReply
<1>7. Failed # <<>> /\ Head(Failed) = output BY DEF Failed
<1> QED BY Zenon, <1>1, <1>2, <1>3, <1>4, <1>5, <1>6, <1>7, MessagesDiffer DEF StopReply, ExitReply

\* The reply to a move that did not fail.
LEMMA StoppedIs ==
    ASSUME NEW o, NEW note \in {<<>>, <<output>>}
    PROVE  LET m == <<Head(Stopped(o))>> \o note \o Tail(Stopped(o))
           IN  (~Exits(o.result) => m \in StopReply) /\ (Exits(o.result) => m \in ExitReply)
<1> DEFINE m == <<Head(Stopped(o))>> \o note \o Tail(Stopped(o))
<1>1. CASE Exits(o.result)
  <2>1. Stopped(o) = <<success, event("exited"), event("terminated")>>
    <3>1. <<success>> \o <<event("exited"), event("terminated")>>
          = <<success, event("exited"), event("terminated")>>
      BY Zenon, Tuple12
    <3> QED BY Zenon, <1>1, <3>1 DEF Stopped
  <2>2. m = (<<success>> \o note) \o <<event("exited"), event("terminated")>>
    BY <2>1, TupleParts
  <2>3. CASE note = <<>>
    <3>1. <<success>> \o note = <<success>> BY Zenon, <2>3, TupleParts
    <3>2. <<success>> \o <<event("exited"), event("terminated")>> = <<success, event("exited"), event("terminated")>>
      BY Zenon, Tuple12
    <3> QED BY Zenon, <1>1, <2>2, <3>1, <3>2 DEF ExitReply
  <2>4. CASE note = <<output>>
    <3>1. <<success>> \o note = <<success, output>> BY Zenon, <2>4, Tuple11
    <3>2. <<success, output>> \o <<event("exited"), event("terminated")>> = <<success, output, event("exited"), event("terminated")>>
      BY Zenon, Tuple22
    <3> QED BY Zenon, <1>1, <2>2, <3>1, <3>2 DEF ExitReply
  <2> QED BY Zenon, <2>3, <2>4
<1>2. CASE ~Exits(o.result)
  <2>1. Stopped(o) = <<success, event("stopped")>> BY Zenon, <1>2, Tuple11 DEF Stopped
  <2>2. m = (<<success>> \o note) \o <<event("stopped")>> BY <2>1, TupleParts
  <2>3. CASE note = <<>>
    <3>1. <<success>> \o note = <<success>> BY Zenon, <2>3, TupleParts
    <3>2. <<success>> \o <<event("stopped")>> = <<success, event("stopped")>>
      BY Zenon, Tuple11
    <3> QED BY Zenon, <1>2, <2>2, <3>1, <3>2 DEF StopReply
  <2>4. CASE note = <<output>>
    <3>1. <<success>> \o note = <<success, output>> BY Zenon, <2>4, Tuple11
    <3>2. <<success, output>> \o <<event("stopped")>> = <<success, output, event("stopped")>>
      BY Zenon, Tuple21
    <3> QED BY Zenon, <1>2, <2>2, <3>1, <3>2 DEF StopReply
  <2> QED BY Zenon, <2>3, <2>4
<1> QED BY Zenon, <1>1, <1>2

\* A reply that tells of no move says nothing of the target.
LEMMA PlainReplies ==
    ASSUME NEW m \in {Failed, <<failure>>, <<success>>, <<success, event("initialized")>>}
    PROVE  m \notin StopReply /\ m \notin ExitReply
<1>1. m \in {<<output, failure>>, <<failure>>, <<success>>, <<success, event("initialized")>>} BY Zenon DEF Failed
<1>2. ASSUME NEW r \in StopReply \cup ExitReply PROVE m # r
  <2>1. /\ Len(r) \in {2, 3, 4} /\ r[1] = success
        /\ r[2] \in {event("stopped"), output, event("exited")}
    <3>1. CASE r = <<success, event("stopped")>> BY Zenon, <3>1
    <3>2. CASE r = <<success, output, event("stopped")>> BY Zenon, <3>2
    <3>3. CASE r = <<success, event("exited"), event("terminated")>> BY Zenon, <3>3
    <3>4. CASE r = <<success, output, event("exited"), event("terminated")>> BY Zenon, <3>4
    <3> QED BY Zenon, <3>1, <3>2, <3>3, <3>4 DEF StopReply, ExitReply
  <2>2. CASE m = <<output, failure>>
    <3>1. m[1] = output BY Zenon, <2>2
    <3> QED BY Zenon, <2>1, <3>1, MessagesDiffer
  <2>3. CASE m \in {<<failure>>, <<success>>}
    <3>1. Len(m) = 1 BY <2>3
    <3> QED BY <2>1, <3>1
  <2>4. CASE m = <<success, event("initialized")>>
    <3>1. m[2] = event("initialized") BY Zenon, <2>4
    <3> QED BY Zenon, <2>1, <3>1, MessagesDiffer
  <2> QED BY Zenon, <1>1, <2>2, <2>3, <2>4
<1> QED BY Zenon, <1>2

LEMMA StopIsNoExit ==
    ASSUME NEW m \in StopReply
    PROVE  m \notin ExitReply
<1>1. Len(m) = 2 \/ (Len(m) = 3 /\ m[3] = event("stopped"))
  <2>1. CASE m = <<success, event("stopped")>> BY Zenon, <2>1
  <2>2. CASE m = <<success, output, event("stopped")>> BY Zenon, <2>2
  <2> QED BY Zenon, <2>1, <2>2 DEF StopReply
<1>2. ASSUME m \in ExitReply PROVE Len(m) = 4 \/ (Len(m) = 3 /\ m[3] = event("terminated"))
  <2>1. CASE m = <<success, event("exited"), event("terminated")>> BY Zenon, <2>1
  <2>2. CASE m = <<success, output, event("exited"), event("terminated")>> BY Zenon, <2>2
  <2> QED BY Zenon, <1>2, <2>1, <2>2 DEF ExitReply
<1> QED BY <1>1, <1>2, MessagesDiffer

-----------------------------------------------------------------------------
(* Serving a request.                                                      *)

\* An outcome of the engine for which index is the right cursor.
Fits(o, index) ==
    /\ o.result.how \in {"running", "error", "exited", "signaled", "hang"}
    /\ o.result.how # "hang" => SessionOK(o.session)
    /\ o.result.how = "running" =>
          /\ o.session.alive
          /\ index = 0 \/ events[index + 1] <= o.session.at
          /\ index + 1 < Len(events) => o.session.at < events[index + 2]
    /\ o.result.how = "error" => o.session.finished \in {None, session.finished}
    /\ Exits(o.result) =>
          /\ o.session.finished # None /\ ~o.session.alive /\ o.result = backend.trace.end
          /\ index + 1 \in {Len(events), Len(events) + 1}

LEMMA EventsAre ==
    ASSUME BackendInv, Replaying
    PROVE  /\ Len(events) \in Nat /\ DOMAIN events = 1..Len(events)
           /\ (events = <<>> <=> Len(events) = 0)
           /\ \A i \in 1..Len(events) : events[i] \in backend.trace.positions /\ events[i] \in Nat
           /\ \A i, j \in 1..Len(events) : i < j => events[i] < events[j]
           /\ \A i, j \in 1..Len(events) : i <= j => events[i] <= events[j]
BY Zenon, TraceIs DEF BackendInv, events

\* goto stops on its event; it can exit only from the last one, where the target had exited.
LEMMA GotoFits ==
    ASSUME BackendInv, Replaying, NEW index \in 0..(Len(events) - 1),
           NEW o \in run_to(events[index + 1])
    PROVE  /\ Fits(o, index)
           /\ o.result.how = "running" => o.session.at = events[index + 1]
           /\ Exits(o.result) =>
                /\ index + 1 = Len(events)
                /\ session.finished # None /\ session.at = events[index + 1]
<1>n. Len(events) \in Nat BY Zenon, EventsAre
<1>i. index + 1 \in Nat /\ index + 1 \in 1..Len(events) BY <1>n
<1>0. PICK n \in Nat, k \in Nat : n = Len(events) /\ k = index + 1 /\ k \in 1..n BY Zenon, <1>n, <1>i
<1>1. /\ \A i \in 1..n : events[i] \in backend.trace.positions /\ events[i] \in Nat
      /\ \A i, j \in 1..n : i < j => events[i] < events[j]
  BY Zenon, <1>0, EventsAre
<1>p. backend.trace.positions \subseteq Nat BY Zenon, TraceIs DEF BackendInv
<1>t. events[k] \in Nat /\ events[k] \in backend.trace.positions BY Zenon, <1>0, <1>1
<1>2. PICK t \in Nat : t = events[k] /\ t \in backend.trace.positions BY Zenon, <1>t
<1>3. /\ o.result.how \in {"running", "error", "exited", "signaled", "hang"}
      /\ o.result.how # "hang" => SessionOK(o.session)
      /\ o.result.how = "running" =>
           /\ o.session.alive /\ o.session.at \in backend.trace.positions /\ o.session.at >= t
           /\ \A p \in backend.trace.positions : p >= t => o.session.at <= p
      /\ o.result.how = "error" => o.session.finished \in {None, session.finished}
      /\ Exits(o.result) =>
           /\ o.session.finished # None /\ ~o.session.alive /\ o.result = backend.trace.end
           /\ \A p \in backend.trace.positions :
                 p >= t => session.finished # None /\ p = session.at
  <2>1. o \in run_to(t) BY Zenon, <1>0, <1>2
  <2> QED BY Zenon, <2>1, RunToIs
<1>4. o.result.how = "running" => o.session.at = t
  BY <1>2, <1>3, <1>p
<1>5. k < n => k + 1 \in 1..n /\ t < events[k + 1] /\ events[k + 1] \in Nat
                /\ events[k + 1] \in backend.trace.positions
  <2> SUFFICES ASSUME k < n PROVE k + 1 \in 1..n /\ t < events[k + 1] /\ events[k + 1] \in Nat
                                  /\ events[k + 1] \in backend.trace.positions
    BY Zenon
  <2>1. PICK j \in 1..n : j = k + 1 /\ k < j BY <1>0
  <2>2. events[k] < events[j] BY Zenon, <1>0, <1>1, <2>1
  <2> QED BY Zenon, <1>1, <1>2, <2>1, <2>2
<1>6. Exits(o.result) => k = n /\ session.finished # None /\ session.at = t
  <2> SUFFICES ASSUME Exits(o.result) PROVE k = n /\ session.finished # None /\ session.at = t
    BY Zenon
  <2>1. session.finished # None /\ session.at = t BY <1>2, <1>3
  <2>2. ASSUME k < n PROVE FALSE
    <3>1. events[k + 1] >= t BY <1>5, <2>2
    <3>2. events[k + 1] = session.at BY Zenon, <1>3, <1>5, <2>2, <3>1
    <3> QED BY <1>5, <2>1, <2>2, <3>2
  <2> QED BY <1>0, <2>1, <2>2
<1>7. index + 2 = k + 1 BY <1>0
<1>8. o.result.how = "running" =>
        events[index + 1] <= o.session.at /\ (index + 1 < Len(events) => o.session.at < events[index + 2])
  BY <1>0, <1>2, <1>4, <1>5, <1>7
<1>9. Exits(o.result) => index + 1 = Len(events) BY Zenon, <1>0, <1>6
<1>10. Fits(o, index) BY Zenon, <1>3, <1>8, <1>9 DEF Fits
<1> QED BY Zenon, <1>0, <1>2, <1>4, <1>6, <1>10

LEMMA EndFits ==
    ASSUME BackendInv, Replaying, NEW o \in run_to_end
    PROVE  Fits(o, Len(events)) /\ o.result.how # "running"
<1>1. /\ SessionOK(o.session) /\ o.result.how \in {"error", "exited", "signaled"}
      /\ o.result.how = "error" => o.session.finished = None
      /\ Exits(o.result) =>
           o.session.finished # None /\ ~o.session.alive /\ o.result = backend.trace.end
  BY Zenon, RunToEndIs
<1> QED BY Zenon, <1>1 DEF Fits

LEMMA JumpFits ==
    ASSUME BackendInv, Replaying, NEW t \in Nat, NEW o \in run_to(t), o.result.how \notin {"hang", "error"}
    PROVE  LET index == rposition(IF o.session.at = None THEN 0 ELSE o.session.at)
           IN  index \in 0..Len(events) /\ Fits(o, index)
<1> DEFINE r == IF o.session.at = None THEN 0 ELSE o.session.at
           index == rposition(r)
<1>1. /\ o.result.how \in {"running", "exited", "signaled"}
      /\ SessionOK(o.session)
      /\ o.result.how = "running" => o.session.alive /\ o.session.at \in backend.trace.positions
      /\ Exits(o.result) =>
           o.session.finished # None /\ ~o.session.alive /\ o.result = backend.trace.end
  BY Zenon, RunToIs
<1>2. backend.trace.positions \subseteq Nat /\ None \notin Nat
  BY Zenon, TraceIs, SelectAssumption DEF BackendInv
<1>3. r \in Nat BY Zenon, <1>1, <1>2 DEF SessionOK
<1>4. PICK n \in Nat : n = Len(events) BY Zenon, EventsAre
<1>r. r = o.session.at \/ o.session.at = None BY Zenon
<1> HIDE DEF r
<1>5. /\ index \in 0..n
      /\ index = 0 \/ (index + 1 \in 1..n /\ events[index + 1] <= r)
      /\ index + 1 < n => r < events[index + 2]
  BY Zenon, <1>3, <1>4, RpositionIs
<1>6. PICK k \in 0..n : k = index BY Zenon, <1>5
<1>7. /\ k = 0 \/ events[k + 1] <= r
      /\ k + 1 < n => r < events[k + 2]
  BY Zenon, <1>5, <1>6
<1> HIDE DEF index
<1>8. ASSUME Exits(o.result) PROVE k + 1 \in {n, n + 1}
  <2> SUFFICES ASSUME k + 1 < n PROVE FALSE BY <1>6
  <2>1. k + 2 \in 1..n BY <1>6
  <2>2. events[k + 2] \in backend.trace.positions /\ events[k + 2] \in Nat BY Zenon, <1>4, <2>1, EventsAre
  <2>3. o.session.at # None /\ events[k + 2] <= o.session.at BY Zenon, <1>1, <1>8, <2>2 DEF SessionOK
  <2>4. r = o.session.at BY Zenon, <1>r, <2>3
  <2> QED BY <1>3, <1>7, <2>2, <2>3, <2>4
<1>9. o.result.how = "running" => r = o.session.at BY Zenon, <1>1, <1>2, <1>r
<1>10. Fits(o, k) BY Zenon, <1>1, <1>4, <1>7, <1>8, <1>9 DEF Fits
<1> QED BY Zenon, <1>4, <1>6, <1>10 DEF index, r

\* A reply put up for writing.
LEMMA ReplyStep ==
    ASSUME ReplyInv, ctl \in {"dispatch", "launch"}, NEW m \in Seq(Message), m # <<>>,
           Answers(req.command, m), Replaying' => Tells(m)', Reply(m), UNCHANGED <<req, wire>>
    PROVE  ReplyInv'
<1>1. wire' = <<>> /\ outq' = m /\ ctl' = "writing" /\ req' = req
  BY Zenon DEF ReplyInv, Reply
<1>2. <<>> \o m = m BY Zenon, ConcatEmptySeq
<1>3. wire' \o outq' = m BY Zenon, <1>1, <1>2
<1>4. Answers(req.command, wire \o outq)' /\ (Replaying' => Tells(wire \o outq)')
  <2>1. Answers(req.command, m)' BY Zenon, <1>1 DEF Answers, Failed, success, failure, output, event, Moving, Moves, StopReply, ExitReply
  <2> QED BY Zenon, <1>3, <2>1 DEF Tells, Answers
<1>5. wire' \in Seq(Message)' /\ outq' \in Seq(Message)'
  <2>1. Message' = Message BY Zenon DEF Message, success, failure, output, event
  <2>2. wire' \in Seq(Message) /\ outq' \in Seq(Message) BY <1>1
  <2> QED BY Zenon, <2>1, <2>2
<1> QED BY Zenon, <1>1, <1>4, <1>5 DEF ReplyInv, Served

\* A reply that leaves the backend alone.
LEMMA PlainStep ==
    ASSUME DapInv, ctl \in {"dispatch", "launch"},
           NEW m \in {Failed, <<failure>>, <<success>>, <<success, event("initialized")>>},
           Answers(req.command, m), Reply(m), UNCHANGED <<req, wire, backend, session>>
    PROVE  DapInv'
<1>1. m \in Seq(Message) /\ m # <<>>
  <2>1. <<failure>> # <<>> /\ <<success>> # <<>> /\ <<success, event("initialized")>> # <<>> BY Zenon
  <2> QED BY Zenon, <2>1, RepliesAreMessages
<1>2. Tells(m)'
  <2>1. m \notin StopReply /\ m \notin ExitReply BY Zenon, PlainReplies
  <2> QED BY Zenon, <2>1 DEF Tells
<1>3. ReplyInv' BY Zenon, <1>1, <1>2, ReplyStep DEF DapInv
<1>4. BackendInv' BY Zenon DEF DapInv, BackendInv, SessionOK, Replaying, events
<1> QED BY Zenon, <1>3, <1>4 DEF DapInv

\* How a move ends keeps the invariant.
LEMMA SettleStep ==
    ASSUME DapInv, Replaying, ctl \in {"dispatch", "launch"}, req.command \in Moving,
           NEW o, NEW index, NEW note \in {<<>>, <<output>>},
           o.result.how \notin {"hang", "error"} => index \in 0..Len(events), Fits(o, index),
           Settle(o, index, note), UNCHANGED <<req, wire, next_seq>>
    PROVE  DapInv'
<1>0. req.command # "unsupported" BY Zenon DEF Moving, Moves
<1>b. BackendInv /\ ReplyInv BY Zenon DEF DapInv
<1>1. CASE o.result.how = "hang"
  <2>1. ctl' = "hung" /\ UNCHANGED <<outq, backend, session, req, wire>> BY Zenon, <1>1 DEF Settle
  <2>2. BackendInv' BY Zenon, <1>b, <2>1 DEF BackendInv, SessionOK, Replaying, events
  <2>3. ReplyInv' BY Zenon, <1>b, <2>1 DEF ReplyInv, Served
  <2> QED BY Zenon, <2>2, <2>3 DEF DapInv
<1>2. CASE o.result.how = "error"
  <2>1. session' = o.session /\ UNCHANGED <<backend, req, wire>> /\ Reply(Failed)
    BY Zenon, <1>2 DEF Settle
  <2>2. SessionOK(o.session) /\ o.session.finished \in {None, session.finished}
    BY Zenon, <1>2 DEF Fits
  <2>3. BackendInv' BY Zenon, <1>b, <2>1, <2>2 DEF BackendInv, SessionOK, Replaying, events
  <2>4. ReplyInv'
    <3>1. Answers(req.command, Failed) BY Zenon, <1>0 DEF Answers
    <3>2. Tells(Failed)' BY Zenon, PlainReplies DEF Tells
    <3> QED BY Zenon, <1>b, <2>1, <3>1, <3>2, RepliesAreMessages, ReplyStep
  <2> QED BY Zenon, <2>3, <2>4 DEF DapInv
<1>3. CASE o.result.how \notin {"hang", "error"}
  <2> DEFINE m == <<Head(Stopped(o))>> \o note \o Tail(Stopped(o))
  <2>1. /\ session' = o.session /\ UNCHANGED <<req, wire>> /\ Reply(m)
        /\ backend' = [backend EXCEPT !.cursor = index, !.exited = classify(o)]
    BY Zenon, <1>3 DEF Settle
  <2>2. index \in 0..Len(events) /\ SessionOK(o.session) /\ o.result.how \in {"running", "exited", "signaled"}
    BY Zenon, <1>3 DEF Fits
  <2>3. (~Exits(o.result) => m \in StopReply) /\ (Exits(o.result) => m \in ExitReply)
    BY Zenon, StoppedIs
  <2>m. m \in Seq(Message) /\ m # <<>> BY Zenon, <2>3, RepliesAreMessages
  <2> HIDE DEF m
  <2>4. /\ backend'.kind = backend.kind /\ backend'.trace = backend.trace /\ backend'.cursor = index
        /\ backend'.exited = classify(o) /\ DOMAIN backend' = BackendFields /\ events' = events
    BY Zenon, <1>b, <2>1 DEF BackendInv, BackendFields, events
  <2>5. (Exits(o.result) => classify(o) # None) /\ (~Exits(o.result) => classify(o) = None)
    <3>1. Exits(o.result) => o.result.n \in Nat
      BY Zenon, <1>b, TraceIs DEF BackendInv, Fits
    <3> QED BY <3>1, SelectAssumption DEF classify
  <2>6. ~Exits(o.result) => o.result.how = "running" BY Zenon, <2>2 DEF Exits
  <2>7. BackendInv'
    <3>1. SessionOK(session)'
      BY Zenon, <2>1, <2>2, <2>4 DEF SessionOK
    <3>2. (backend.exited = None => session.finished = None)'
      <4>1. CASE Exits(o.result) BY Zenon, <2>4, <2>5, <4>1
      <4>2. CASE ~Exits(o.result)
        BY Zenon, <2>1, <2>2, <2>6, <4>2 DEF Fits, SessionOK
      <4> QED BY Zenon, <4>1, <4>2
    <3> QED BY Zenon, <1>b, <2>2, <2>4, <3>1, <3>2 DEF BackendInv, Replaying
  <2>8. Tells(m)'
    <3>1. CASE Exits(o.result)
      <4>1. m \notin StopReply BY Zenon, <2>3, <3>1, StopIsNoExit
      <4>2. Tracked' BY Zenon, <2>1, <2>4, <2>5, <3>1 DEF Tracked, Fits
      <4>3. ~o.session.alive /\ o.session.finished # None BY Zenon, <3>1 DEF Fits
      <4> QED BY Zenon, <2>1, <2>4, <2>5, <3>1, <4>1, <4>2, <4>3 DEF Tells
    <3>2. CASE ~Exits(o.result)
      <4>1. m \notin ExitReply BY Zenon, <2>3, <3>2, StopIsNoExit
      <4>2. Tracked'
        <5>1. PICK k \in Nat : k = index + 1 /\ k + 1 = index + 2 BY <2>2
        <5>2. /\ k = 1 \/ events[k] <= o.session.at
              /\ k < Len(events) => o.session.at < events[k + 1]
          BY <2>2, <2>6, <3>2, <5>1 DEF Fits
        <5> QED BY Zenon, <2>1, <2>4, <2>5, <3>2, <5>1, <5>2 DEF Tracked
      <4>3. o.session.alive BY Zenon, <2>6, <3>2 DEF Fits
      <4> QED BY Zenon, <2>1, <2>4, <2>5, <3>2, <4>1, <4>2, <4>3 DEF Tells
    <3> QED BY Zenon, <3>1, <3>2
  <2>9. Answers(req.command, m) BY Zenon, <2>3 DEF Answers
  <2>10. ReplyInv' BY Zenon, <1>b, <2>1, <2>m, <2>8, <2>9, ReplyStep
  <2> QED BY Zenon, <2>7, <2>10 DEF DapInv
<1> QED BY Zenon, <1>1, <1>2, <1>3

LEMMA GotoStep ==
    ASSUME DapInv, Replaying, ctl \in {"dispatch", "launch"}, req.command \in Moving,
           NEW index \in 0..(Len(events) - 1), NEW note \in {<<>>, <<output>>},
           goto(index, note), UNCHANGED <<req, wire, next_seq>>
    PROVE  DapInv'
<1>1. PICK o \in run_to(events[index + 1]) : Settle(o, index, note) BY Zenon DEF goto
<1>2. Fits(o, index) BY Zenon, GotoFits DEF DapInv
<1>3. index \in 0..Len(events) BY EventsAre DEF DapInv
<1> QED BY Zenon, <1>1, <1>2, <1>3, SettleStep

LEMMA EndStep ==
    ASSUME DapInv, Replaying, ctl \in {"dispatch", "launch"}, req.command \in Moving,
           NEW note \in {<<>>, <<output>>}, RunToEnd(note), UNCHANGED <<req, wire, next_seq>>
    PROVE  DapInv'
<1>1. PICK o \in run_to_end : Settle(o, Len(events), note) BY Zenon DEF RunToEnd
<1>2. Fits(o, Len(events)) BY Zenon, EndFits DEF DapInv
<1>3. PICK n \in Nat : n = Len(events) BY Zenon, EventsAre DEF DapInv
<1>4. n \in 0..Len(events) /\ Fits(o, n) /\ Settle(o, n, note) BY <1>1, <1>2, <1>3
<1> QED BY Zenon, <1>4, SettleStep

LEMMA JumpStep ==
    ASSUME DapInv, Replaying, ctl = "dispatch", req.command = "jumpToEvent", req.seq # None,
           jump_to_event(req.seq), UNCHANGED <<req, wire, next_seq>>
    PROVE  DapInv'
<1>1. req.seq \in Nat BY SelectAssumption DEF DapInv, ReplyInv, Seqno
<1>2. PICK o \in run_to(req.seq) :
        Settle(o, rposition(IF o.session.at = None THEN 0 ELSE o.session.at), <<>>)
  BY Zenon DEF jump_to_event
<1>m. req.command \in Moving /\ <<>> \in {<<>>, <<output>>} BY Zenon DEF Moving
<1>b. BackendInv BY Zenon DEF DapInv
<1> DEFINE i == rposition(IF o.session.at = None THEN 0 ELSE o.session.at)
<1>3. o.result.how \notin {"hang", "error"} => i \in 0..Len(events) /\ Fits(o, i)
  BY Zenon, <1>1, <1>2, <1>b, JumpFits
<1>s. Settle(o, i, <<>>) BY Zenon, <1>2
<1> HIDE DEF i
<1>4. o.result.how \in {"hang", "error"} => Fits(o, i)
  <2> SUFFICES ASSUME o.result.how \in {"hang", "error"} PROVE Fits(o, i) BY Zenon
  <2>1. /\ o.result.how # "hang" => SessionOK(o.session)
        /\ o.result.how = "error" => o.session.finished \in {None, session.finished}
    BY Zenon, <1>1, <1>2, <1>b, RunToIs
  <2> QED BY Zenon, <2>1 DEF Fits, Exits
<1>5. PICK k : k = i BY Zenon
<1>6. /\ o.result.how \notin {"hang", "error"} => k \in 0..Len(events)
      /\ Fits(o, k) /\ Settle(o, k, <<>>)
  BY Zenon, <1>3, <1>4, <1>5, <1>s
<1> QED BY Zenon, <1>m, <1>6, SettleStep

\* The stub's moves.
LEMMA StubStep ==
    ASSUME DapInv, backend.kind = "stub", ctl \in {"dispatch", "launch"}, req.command \in Moving,
           StubMove, UNCHANGED <<req, wire, next_seq>>
    PROVE  DapInv'
<1>0. req.command # "unsupported" BY Zenon DEF Moving, Moves
<1>b. UNCHANGED <<backend, session>> /\ ~Replaying' /\ BackendInv /\ ReplyInv
  BY Zenon DEF StubMove, Replaying, DapInv
<1>1. BackendInv' BY Zenon, <1>b DEF BackendInv, SessionOK, Replaying, events
<1>2. CASE req.command \in {"stepBack", "reverseContinue"}
  <2>1. Reply(Failed) BY Zenon, <1>2 DEF StubMove
  <2>2. Answers(req.command, Failed) BY Zenon, <1>0 DEF Answers
  <2> QED BY Zenon, <1>b, <2>1, <2>2, PlainStep
<1>3. CASE req.command \notin {"stepBack", "reverseContinue"}
  <2>1. Reply(<<success, event("stopped")>>) BY Zenon, <1>3 DEF StubMove
  <2>2. <<success, event("stopped")>> \in StopReply BY Zenon DEF StopReply
  <2>3. Answers(req.command, <<success, event("stopped")>>) BY Zenon, <2>2 DEF Answers
  <2>4. <<success, event("stopped")>> \in Seq(Message) /\ <<success, event("stopped")>> # <<>>
    BY Zenon, <2>2, RepliesAreMessages
  <2>5. ReplyInv' BY Zenon, <1>b, <2>1, <2>3, <2>4, ReplyStep
  <2> QED BY Zenon, <1>1, <2>5 DEF DapInv
<1> QED BY Zenon, <1>2, <1>3

LEMMA OpenTraceStep == DapInv /\ OpenTrace => DapInv'
<1> SUFFICES ASSUME DapInv, OpenTrace PROVE DapInv' BY Zenon
<1>0. /\ ctl = "dispatch" /\ req.command = "launch" /\ UNCHANGED <<req, wire, next_seq>>
      /\ BackendInv /\ ReplyInv
  BY Zenon DEF OpenTrace, Serve, DapInv
<1>1. CASE Reply(Failed) /\ UNCHANGED <<backend, session>>
  <2>1. Answers(req.command, Failed) BY Zenon, <1>0 DEF Answers
  <2> QED BY Zenon, <1>0, <1>1, <2>1, PlainStep
<1>2. CASE /\ req.trace \in Traces /\ ctl' = "launch" /\ backend' = Opened(req.trace)
           /\ session' = Entry /\ UNCHANGED outq
  <2>1. /\ backend'.kind = "replay" /\ backend'.trace \in Traces /\ backend'.cursor = 0
        /\ DOMAIN backend' = BackendFields
    BY Zenon, <1>2 DEF Opened, BackendFields
  <2>2. SessionOK(session)' BY Zenon, <1>2, SelectAssumption DEF SessionOK, Entry, SessionFields
  <2>3. 0 \in 0..Len(events') BY <2>1, TraceIs DEF events
  <2>4. session'.finished = None BY Zenon, <1>2 DEF Entry
  <2>5. BackendInv' BY Zenon, <2>1, <2>2, <2>3, <2>4 DEF BackendInv
  <2>6. ReplyInv' BY Zenon, <1>0, <1>2, <2>1 DEF ReplyInv, Served, Replaying
  <2> QED BY Zenon, <2>5, <2>6 DEF DapInv
<1> QED BY Zenon, <1>1, <1>2 DEF OpenTrace

LEMMA NoteIs == checkpoint_note \in {<<>>, <<output>>}
BY Zenon DEF checkpoint_note

LEMMA LaunchStep == DapInv /\ Launch => DapInv'
<1> SUFFICES ASSUME DapInv, Launch PROVE DapInv' BY Zenon
<1>0. /\ ctl \in {"dispatch", "launch"} /\ req.command \in Moving /\ UNCHANGED <<req, wire, next_seq>>
  BY Zenon DEF Launch, Serve, DapInv, ReplyInv, Moving
<1>1. CASE backend.kind = "replay" /\ launch
  <2>1. Replaying /\ BackendInv BY Zenon, <1>1 DEF Replaying, DapInv
  <2>2. PICK note \in {<<>>, <<output>>} : note = checkpoint_note BY Zenon, NoteIs
  <2>3. CASE events = <<>>
    <3>1. RunToEnd(note) BY Zenon, <1>1, <2>2, <2>3 DEF launch
    <3> QED BY Zenon, <1>0, <2>1, <3>1, EndStep
  <2>4. CASE events # <<>>
    <3>1. goto(0, note) BY Zenon, <1>1, <2>2, <2>4 DEF launch
    <3>2. 0 \in 0..(Len(events) - 1) BY <2>1, <2>4, EventsAre
    <3> QED BY Zenon, <1>0, <2>1, <3>1, <3>2, GotoStep
  <2> QED BY Zenon, <2>3, <2>4
<1>2. CASE backend.kind = "stub" /\ StubMove BY Zenon, <1>0, <1>2, StubStep
<1> QED BY Zenon, <1>1, <1>2 DEF Launch

LEMMA ResumeStep == DapInv /\ OnResume => DapInv'
<1> SUFFICES ASSUME DapInv, OnResume PROVE DapInv' BY Zenon
<1>0. /\ ctl \in {"dispatch", "launch"} /\ req.command \in Moving /\ UNCHANGED <<req, wire, next_seq>>
      /\ req.command \in Moves
  BY Zenon DEF OnResume, Serve, Moving
<1>u. req.command # "unsupported" BY Zenon, <1>0 DEF Moves
<1>1. CASE backend.kind = "replay" /\ resume(req.command)
  <2>1. Replaying /\ BackendInv BY Zenon, <1>1 DEF Replaying, DapInv
  <2>2. PICK note \in {<<>>, <<output>>} : note = <<>> BY Zenon
  <2>3. PICK n \in Nat, c \in Nat : n = Len(events) /\ c = backend.cursor /\ c <= n
    BY <2>1, EventsAre DEF BackendInv
  <2>4. CASE req.command = "continue" \/ RunToEnd(<<>>)
    <3>1. RunToEnd(note) BY Zenon, <1>1, <2>2, <2>4 DEF resume
    <3> QED BY Zenon, <1>0, <2>1, <3>1, EndStep
  <2>5. CASE req.command = "reverseContinue" /\ ~RunToEnd(<<>>)
    <3>1. events # <<>> /\ goto(0, note) BY Zenon, <1>1, <2>2, <2>5 DEF resume
    <3>2. 0 \in 0..(Len(events) - 1) BY <2>1, <3>1, EventsAre
    <3> QED BY Zenon, <1>0, <2>1, <3>1, <3>2, GotoStep
  <2>6. CASE req.command = "stepBack"
    <3>1. CASE events = <<>>
      <4>1. Reply(Failed) /\ UNCHANGED <<backend, session>> BY Zenon, <1>1, <2>6, <3>1 DEF resume
      <4>2. Answers(req.command, Failed) BY Zenon, <1>u DEF Answers
      <4> QED BY Zenon, <1>0, <4>1, <4>2, PlainStep
    <3>2. CASE events # <<>>
      <4>1. PICK i \in 0..(n - 1) : i = Previous
        <5>1. n # 0 BY Zenon, <2>1, <2>3, <3>2, EventsAre
        <5> QED BY <2>3, <5>1 DEF Previous
      <4>2. goto(i, note) BY Zenon, <1>1, <2>2, <2>6, <3>2, <4>1 DEF resume
      <4> QED BY Zenon, <1>0, <2>1, <2>3, <4>1, <4>2, GotoStep
    <3> QED BY Zenon, <3>1, <3>2
  <2>7. CASE req.command \in {"next", "stepIn", "stepOut"} /\ ~RunToEnd(<<>>)
    <3>1. ~(Following >= Len(events)) /\ goto(Following, <<>>) BY Zenon, <1>1, <2>7 DEF resume
    <3>2. PICK i \in 0..(n - 1) : i = Following BY <2>3, <3>1 DEF Following
    <3>3. goto(i, note) BY Zenon, <2>2, <3>1, <3>2
    <3> QED BY Zenon, <1>0, <2>1, <2>3, <3>2, <3>3, GotoStep
  <2> QED BY Zenon, <1>0, <2>4, <2>5, <2>6, <2>7 DEF Moves
<1>2. CASE backend.kind = "stub" /\ StubMove BY Zenon, <1>0, <1>2, StubStep
<1> QED BY Zenon, <1>1, <1>2 DEF OnResume

LEMMA OnJumpStep == DapInv /\ OnJump => DapInv'
<1> SUFFICES ASSUME DapInv, OnJump PROVE DapInv' BY Zenon
<1>0. ctl = "dispatch" /\ req.command = "jumpToEvent" /\ UNCHANGED <<req, wire, next_seq>>
  BY Zenon DEF OnJump, Serve
<1>1. CASE backend.kind = "replay" /\ req.seq # None /\ jump_to_event(req.seq)
  BY Zenon, <1>0, <1>1, JumpStep DEF Replaying
<1>2. CASE Reply(Failed) /\ UNCHANGED <<backend, session>>
  <2>1. Answers(req.command, Failed) BY Zenon, <1>0 DEF Answers
  <2> QED BY Zenon, <1>0, <1>2, <2>1, PlainStep
<1> QED BY Zenon, <1>1, <1>2 DEF OnJump

\* Requests that are answered without a move.
LEMMA QuietStep ==
    ASSUME DapInv, ctl = "dispatch", req.command \notin Moving \cup {"unsupported"},
           Reply(<<success>>) \/ Reply(Failed), UNCHANGED <<req, wire, backend, session>>
    PROVE  DapInv'
<1>1. CASE Reply(<<success>>)
  <2>1. Answers(req.command, <<success>>) BY Zenon DEF Answers
  <2> QED BY Zenon, <1>1, <2>1, PlainStep
<1>2. CASE Reply(Failed)
  <2>1. Answers(req.command, Failed) BY Zenon DEF Answers
  <2> QED BY Zenon, <1>2, <2>1, PlainStep
<1> QED BY Zenon, <1>1, <1>2

LEMMA InspectReplies ==
    Inspect => (Reply(<<success>>) \/ Reply(Failed)) /\ UNCHANGED <<backend, session>>
BY Zenon DEF Inspect, StubAnswer

LEMMA InitializeStep == DapInv /\ OnInitialize => DapInv'
<1> SUFFICES ASSUME DapInv, OnInitialize PROVE DapInv' BY Zenon
<1>1. /\ ctl = "dispatch" /\ req.command = "initialize" /\ UNCHANGED <<req, wire, backend, session>>
      /\ Reply(<<success, event("initialized")>>)
  BY Zenon DEF OnInitialize, Serve
<1>2. Answers(req.command, <<success, event("initialized")>>) BY Zenon, <1>1 DEF Answers, Moving, Moves
<1> QED BY Zenon, <1>1, <1>2, PlainStep

LEMMA UnsupportedStep == DapInv /\ OnUnsupported => DapInv'
<1> SUFFICES ASSUME DapInv, OnUnsupported PROVE DapInv' BY Zenon
<1>1. /\ ctl = "dispatch" /\ req.command = "unsupported" /\ UNCHANGED <<req, wire, backend, session>>
      /\ Reply(<<failure>>)
  BY Zenon DEF OnUnsupported, Serve
<1>2. Answers(req.command, <<failure>>) BY Zenon, <1>1 DEF Answers
<1> QED BY Zenon, <1>1, <1>2, PlainStep

LEMMA InquiryStep ==
    DapInv /\ (OnPlain \/ OnThreads \/ OnStackTrace \/ OnTaskTimeline \/ OnVariables \/ OnStatic)
      => DapInv'
<1> SUFFICES ASSUME DapInv,
                    OnPlain \/ OnThreads \/ OnStackTrace \/ OnTaskTimeline \/ OnVariables \/ OnStatic
             PROVE  DapInv'
  BY Zenon
<1>1. ASSUME NEW commands, Serve(commands), commands \cap (Moving \cup {"unsupported"}) = {},
             Reply(<<success>>) \/ Reply(Failed), UNCHANGED <<backend, session>>
      PROVE  DapInv'
  BY Zenon, <1>1, QuietStep DEF Serve
<1>2. CASE OnPlain
  <2> DEFINE C == {"configurationDone", "setBreakpoints", "disconnect"}
  <2>1. C \cap (Moving \cup {"unsupported"}) = {} BY Zenon DEF Moving, Moves
  <2> QED BY Zenon, <1>1, <1>2, <2>1 DEF OnPlain
<1>3. CASE OnThreads
  <2>1. {"threads"} \cap (Moving \cup {"unsupported"}) = {} BY Zenon DEF Moving, Moves
  <2> QED BY Zenon, <1>1, <1>3, <2>1, InspectReplies DEF OnThreads
<1>4. CASE OnStackTrace
  <2>1. {"stackTrace"} \cap (Moving \cup {"unsupported"}) = {} BY Zenon DEF Moving, Moves
  <2> QED BY Zenon, <1>1, <1>4, <2>1, InspectReplies DEF OnStackTrace
<1>5. CASE OnTaskTimeline
  <2>1. {"taskTimeline"} \cap (Moving \cup {"unsupported"}) = {} BY Zenon DEF Moving, Moves
  <2> QED BY Zenon, <1>1, <1>5, <2>1, InspectReplies DEF OnTaskTimeline
<1>6. CASE OnVariables
  <2>1. {"variables"} \cap (Moving \cup {"unsupported"}) = {} BY Zenon DEF Moving, Moves
  <2> QED BY Zenon, <1>1, <1>6, <2>1, InspectReplies DEF OnVariables
<1>7. CASE OnStatic
  <2>1. {"scopes", "listCheckpoints"} \cap (Moving \cup {"unsupported"}) = {} BY Zenon DEF Moving, Moves
  <2> QED BY Zenon, <1>1, <1>7, <2>1 DEF OnStatic
<1> QED BY Zenon, <1>2, <1>3, <1>4, <1>5, <1>6, <1>7

LEMMA WriteStep == DapInv /\ Write => DapInv'
<1> SUFFICES ASSUME DapInv, Write PROVE DapInv' BY Zenon
<1>0. ctl = "writing" /\ UNCHANGED <<req, backend, session>> /\ BackendInv /\ ReplyInv
  BY Zenon DEF Write, DapInv
<1>1. BackendInv' BY Zenon, <1>0 DEF BackendInv, SessionOK, Replaying, events
<1>2. PICK w \in Seq(Message), q \in Seq(Message) : w = wire /\ q = outq /\ q # <<>>
  BY Zenon, <1>0 DEF ReplyInv
<1>m. Message' = Message BY Zenon DEF Message, success, failure, output, event
<1>3. CASE /\ wire' = Append(wire, Head(outq)) /\ outq' = Tail(outq)
           /\ ctl' = IF Len(outq) > 1 THEN "writing"
                     ELSE IF req.command = "disconnect" THEN "ended" ELSE "reading"
  <2>1. /\ Append(w, Head(q)) \in Seq(Message) /\ Tail(q) \in Seq(Message)
        /\ Append(w, Head(q)) \o Tail(q) = w \o q
        /\ Len(q) <= 1 => Tail(q) = <<>>
        /\ Len(q) > 1 => Tail(q) # <<>>
    <3>1. PICK S : S = Message BY Zenon
    <3>2. w \in Seq(S) /\ q \in Seq(S) /\ q # <<>> BY Zenon, <1>2, <3>1
    <3>3. /\ Append(w, Head(q)) \in Seq(S) /\ Tail(q) \in Seq(S)
          /\ Append(w, Head(q)) \o Tail(q) = w \o q
          /\ Len(q) <= 1 => Tail(q) = <<>>
          /\ Len(q) > 1 => Tail(q) # <<>>
      BY Zenon, <3>2, WriteMoves
    <3> QED BY Zenon, <3>1, <3>3
  <2>2. wire' \in Seq(Message) /\ outq' \in Seq(Message) /\ wire' \o outq' = wire \o outq
    BY Zenon, <1>2, <1>3, <2>1
  <2>3. Answers(req.command, wire \o outq)' /\ (Replaying' => Tells(wire \o outq)')
    <3>1. PICK m : m = wire \o outq BY Zenon
    <3>2. Answers(req.command, m) /\ (Replaying => Tells(m)) BY Zenon, <1>0, <3>1 DEF ReplyInv
    <3>3. Answers(req.command, m)' /\ (Replaying' => Tells(m)')
      <4>1. StopReply' = StopReply /\ ExitReply' = ExitReply
        BY Zenon DEF StopReply, ExitReply, success, output, event
      <4>2. Answers(req.command, m)'
        BY Zenon, <1>0, <3>2, <4>1 DEF Answers, Failed, success, failure, output, event, Moving, Moves
      <4>3. Tracked' <=> Tracked BY Zenon, <1>0 DEF Tracked, events
      <4> QED BY Zenon, <1>0, <3>2, <4>1, <4>2, <4>3 DEF Tells, Replaying
    <3>4. m = wire' \o outq' BY Zenon, <2>2, <3>1
    <3> QED BY Zenon, <3>3, <3>4 DEF Answers, Tells
  <2>4. Len(q) \in Nat BY <1>2
  <2>5. /\ ctl' \in {"reading", "writing", "ended"}
        /\ ctl' = "reading" => outq' = <<>>
        /\ ctl' = "writing" => outq' # <<>>
    BY <1>2, <1>3, <2>1, <2>4
  <2>6. ReplyInv' BY Zenon, <1>0, <1>m, <2>2, <2>3, <2>5 DEF ReplyInv
  <2> QED BY Zenon, <1>1, <2>6 DEF DapInv
<1>4. CASE ctl' = "ended" /\ UNCHANGED <<wire, outq>>
  <2>1. ReplyInv' BY Zenon, <1>0, <1>4, <1>m DEF ReplyInv, Served
  <2> QED BY Zenon, <1>1, <2>1 DEF DapInv
<1> QED BY Zenon, <1>3, <1>4 DEF Write

LEMMA FrameIs ==
    ASSUME NEW in
    PROVE  read_frame(in).command \in Stops \/ read_frame(in) = in.payload
<1>1. read_headers(in.headers) \in {"eof", "MissingContentLength", "InvalidContentLength", "length"}
  <2> DEFINE lines == in.headers
             ends == {i \in DOMAIN lines : lines[i] \in {"blank", "bad_length"}}
  <2>1. CASE lines = <<>>
    <3>1. ends = {} BY <2>1
    <3> QED BY Zenon, <2>1, <3>1 DEF read_headers
  <2>2. CASE lines # <<>> /\ ends = {} BY Zenon, <2>2 DEF read_headers
  <2>3. CASE lines # <<>> /\ ends # {} BY Zenon, <2>3 DEF read_headers
  <2> QED BY Zenon, <2>1, <2>2, <2>3
<1>2. CASE read_headers(in.headers) # "length" BY Zenon, <1>1, <1>2 DEF read_frame, Stops
<1>3. CASE read_headers(in.headers) = "length"
  <2>1. CASE in.payload.command = "short" BY Zenon, <1>3, <2>1 DEF read_frame, Stops
  <2>2. CASE in.payload.command = "malformed" BY Zenon, <1>3, <2>2 DEF read_frame, Stops
  <2>3. CASE in.payload.command \notin {"short", "malformed"} BY Zenon, <1>3, <2>3 DEF read_frame
  <2> QED BY Zenon, <2>1, <2>2, <2>3
<1> QED BY Zenon, <1>2, <1>3

\* A frame that is skipped, and a step of nobody.
LEMMA DapStutter ==
    ASSUME DapInv, UNCHANGED <<ctl, req, wire, outq, backend, session>>
    PROVE  DapInv'
<1>1. BackendInv' BY Zenon DEF DapInv, BackendInv, SessionOK, Replaying, events
<1>2. Message' = Message BY Zenon DEF Message, success, failure, output, event
<1>3. Tracked' = Tracked BY Zenon DEF Tracked, events
<1>4. (Tells(wire \o outq))' = Tells(wire \o outq) BY Zenon, <1>3 DEF Tells
<1>5. (Answers(req.command, wire \o outq))' = Answers(req.command, wire \o outq) BY Zenon DEF Answers
<1>6. ReplyInv' BY Zenon, <1>2, <1>4, <1>5 DEF DapInv, ReplyInv, Served, Replaying
<1> QED BY Zenon, <1>1, <1>6 DEF DapInv

LEMMA ReceiveStep == ASSUME NEW in \in Input PROVE DapInv /\ Receive(in) => DapInv'
<1> SUFFICES ASSUME DapInv, Receive(in) PROVE DapInv' BY Zenon
<1>0. ctl = "reading" /\ UNCHANGED <<outq, backend, session>> /\ BackendInv /\ ReplyInv
  BY Zenon DEF Receive, DapInv
<1>1. BackendInv' BY Zenon, <1>0 DEF BackendInv, SessionOK, Replaying, events
<1>m. Message' = Message BY Zenon DEF Message, success, failure, output, event
<1> DEFINE r == read_frame(in)
<1>2. CASE ctl' = "ended" /\ UNCHANGED <<req, wire>>
  <2>1. ReplyInv' BY Zenon, <1>0, <1>2, <1>m DEF ReplyInv, Served
  <2> QED BY Zenon, <1>1, <2>1 DEF DapInv
<1>3. CASE UNCHANGED <<ctl, req, wire>> BY Zenon, <1>0, <1>3, DapStutter
<1>4. CASE r.command \notin Stops \cup {"skip"} /\ ctl' = "dispatch" /\ req' = r /\ wire' = <<>>
  <2>1. req' = in.payload BY Zenon, <1>4, FrameIs
  <2>2. req'.command = "jumpToEvent" => req'.seq \in Seqno \cup {None} BY Zenon, <2>1, InputAssumption
  <2>3. wire' \in Seq(Message) BY <1>4
  <2>4. ReplyInv' BY Zenon, <1>0, <1>4, <1>m, <2>2, <2>3 DEF ReplyInv, Served, Seqno
  <2> QED BY Zenon, <1>1, <2>4 DEF DapInv
<1> QED BY Zenon, <1>2, <1>3, <1>4 DEF Receive

LEMMA DapStart == Init => DapInv
<1> SUFFICES ASSUME Init PROVE DapInv BY Zenon
<1>1. BackendInv BY Zenon DEF Init, Stub, BackendInv, BackendFields, Replaying
<1>2. ReplyInv BY DEF Init, ReplyInv, Served, Message
<1> QED BY Zenon, <1>1, <1>2 DEF DapInv

LEMMA DapStep == DapInv /\ [Next]_vars => DapInv'
<1> SUFFICES ASSUME DapInv, [Next]_vars PROVE DapInv' BY Zenon
<1>1. CASE Server
  BY Zenon, <1>1, InitializeStep, InquiryStep, OpenTraceStep, LaunchStep, ResumeStep, OnJumpStep,
     UnsupportedStep, WriteStep DEF Server
<1>2. ASSUME NEW in \in Input, Receive(in) PROVE DapInv' BY Zenon, <1>2, ReceiveStep
<1>3. CASE UNCHANGED vars BY Zenon, <1>3, DapStutter DEF vars
<1> QED BY Zenon, <1>1, <1>2, <1>3 DEF Next

\* The inductive invariant of the server: what the backend knows of its session, and the
\* reply being written, whatever the client sends and the engine does.
THEOREM DapInvariance == Spec => []DapInv
<1> QED BY DapStart, DapStep, PTL DEF Spec

-----------------------------------------------------------------------------
(* What the client sees.                                                   *)

\* A reply written in full.
LEMMA ServedIs ==
    ASSUME DapInv, Served
    PROVE  Answers(req.command, wire) /\ (Replaying => Tells(wire)) /\ wire \in Seq(Message)
<1>1. outq = <<>> /\ wire \in Seq(Message) BY Zenon DEF DapInv, ReplyInv, Served
<1>2. wire \o outq = wire BY Zenon, <1>1, ConcatEmptySeq
<1> QED BY Zenon, <1>1, <1>2 DEF DapInv, ReplyInv

\* The shape of a reply to a move that did not fail.
LEMMA MoveReplyIs ==
    ASSUME NEW w \in StopReply \cup ExitReply
    PROVE  /\ Len(w) \in Nat /\ Len(w) >= 2 /\ DOMAIN w = 1..Len(w) /\ w[1] = success
           /\ \A i \in 2..(Len(w) - 1) : w[i] \in {output, event("exited")}
           /\ w \in StopReply => /\ w[Len(w)] = event("stopped")
                                 /\ \A i \in 1..Len(w) : w[i] # event("exited")
           /\ w \in ExitReply => /\ w[Len(w)] = event("terminated")
                                 /\ \E i \in 1..Len(w) : w[i] = event("exited")
                                 /\ \A i \in 1..Len(w) : w[i] # event("stopped")
<1> DEFINE P == /\ Len(w) \in Nat /\ Len(w) >= 2 /\ DOMAIN w = 1..Len(w) /\ w[1] = success
                /\ \A i \in 2..(Len(w) - 1) : w[i] \in {output, event("exited")}
           S == w[Len(w)] = event("stopped") /\ \A i \in 1..Len(w) : w[i] # event("exited")
           E == /\ w[Len(w)] = event("terminated")
                /\ \E i \in 1..Len(w) : w[i] = event("exited")
                /\ \A i \in 1..Len(w) : w[i] # event("stopped")
<1>1. CASE w = <<success, event("stopped")>>
  <2>1. Len(w) = 2 /\ DOMAIN w = 1..2 /\ w[1] = success /\ w[2] = event("stopped") BY <1>1
  <2> QED BY <1>1, <2>1, MessagesDiffer, StopIsNoExit DEF StopReply
<1>2. CASE w = <<success, output, event("stopped")>>
  <2>1. /\ Len(w) = 3 /\ DOMAIN w = 1..3 /\ w[1] = success /\ w[2] = output /\ w[3] = event("stopped")
    BY <1>2
  <2> QED BY <1>2, <2>1, MessagesDiffer, StopIsNoExit DEF StopReply
<1>3. CASE w = <<success, event("exited"), event("terminated")>>
  <2>1. /\ Len(w) = 3 /\ DOMAIN w = 1..3 /\ w[1] = success /\ w[2] = event("exited")
        /\ w[3] = event("terminated")
    BY <1>3
  <2>2. w \in ExitReply BY Zenon, <1>3 DEF ExitReply
  <2> QED BY <2>1, <2>2, MessagesDiffer, StopIsNoExit
<1>4. CASE w = <<success, output, event("exited"), event("terminated")>>
  <2>1. /\ Len(w) = 4 /\ DOMAIN w = 1..4 /\ w[1] = success /\ w[2] = output
        /\ w[3] = event("exited") /\ w[4] = event("terminated")
    BY <1>4
  <2>2. w \in ExitReply BY Zenon, <1>4 DEF ExitReply
  <2> QED BY <2>1, <2>2, MessagesDiffer, StopIsNoExit
<1> QED BY Zenon, <1>1, <1>2, <1>3, <1>4 DEF StopReply, ExitReply

\* One response to each request; a stop event only for a move, after its response and
\* last; and a failure announced by its output.  This is what a client of server.rs waits
\* for, here whatever the engine did.
THEOREM RepliesAreWellFormed == Spec => []RepliesWellFormed
<1>1. DapInv => RepliesWellFormed
  <2> SUFFICES ASSUME DapInv, Served PROVE RepliesWellFormed BY Zenon DEF RepliesWellFormed
  <2> DEFINE at(m) == {i \in DOMAIN wire : wire[i] = m}
             responses == at(success) \cup at(failure)
             stops == at(event("stopped")) \cup at(event("terminated"))
             Goal == /\ Cardinality(responses) = 1
                     /\ stops # {} <=> (Succeeded /\ req.command \in Moving)
                     /\ \A i \in stops : i = Len(wire) /\ responses \subseteq 1..(i - 1)
                     /\ (failure \in Range(wire) /\ req.command # "unsupported") => wire = Failed
  <2>0. Answers(req.command, wire) BY Zenon, ServedIs
  <2>r. \A m : m \in Range(wire) <=> \E i \in DOMAIN wire : wire[i] = m BY Zenon DEF Range
  <2>1. CASE wire = Failed
    <3>1. DOMAIN wire = 1..2 /\ wire[1] = output /\ wire[2] = failure BY <2>1 DEF Failed
    <3>2. responses = {2} /\ stops = {} BY <3>1, MessagesDiffer
    <3>3. ~Succeeded BY <2>r, <3>1, MessagesDiffer DEF Succeeded
    <3>4. Goal BY Zenon, <2>1, <3>2, <3>3, FS_Singleton
    <3> QED BY Zenon, <3>4 DEF RepliesWellFormed
  <2>2. CASE wire = <<failure>> /\ req.command = "unsupported"
    <3>1. DOMAIN wire = 1..1 /\ wire[1] = failure BY <2>2
    <3>2. responses = {1} /\ stops = {} BY <3>1, MessagesDiffer
    <3>3. ~Succeeded BY <2>r, <3>1, MessagesDiffer DEF Succeeded
    <3>4. Goal BY Zenon, <2>2, <3>2, <3>3, FS_Singleton
    <3> QED BY Zenon, <3>4 DEF RepliesWellFormed
  <2>3. CASE wire = <<success>> /\ req.command \notin Moving
    <3>1. DOMAIN wire = 1..1 /\ wire[1] = success BY <2>3
    <3>2. responses = {1} /\ stops = {} BY <3>1, MessagesDiffer
    <3>3. failure \notin Range(wire) BY <2>r, <3>1, MessagesDiffer
    <3>4. Goal BY Zenon, <2>3, <3>2, <3>3, FS_Singleton
    <3> QED BY Zenon, <3>4 DEF RepliesWellFormed
  <2>4. CASE wire = <<success, event("initialized")>> /\ req.command \notin Moving
    <3>1. DOMAIN wire = 1..2 /\ wire[1] = success /\ wire[2] = event("initialized") BY <2>4
    <3>2. responses = {1} /\ stops = {} BY <3>1, MessagesDiffer
    <3>3. failure \notin Range(wire) BY <2>r, <3>1, MessagesDiffer
    <3>4. Goal BY Zenon, <2>4, <3>2, <3>3, FS_Singleton
    <3> QED BY Zenon, <3>4 DEF RepliesWellFormed
  <2>5. CASE wire \in StopReply \cup ExitReply /\ req.command \in Moving
    <3>1. PICK n \in Nat : n = Len(wire) /\ n >= 2 BY Zenon, <2>5, MoveReplyIs
    <3>2. /\ DOMAIN wire = 1..n /\ wire[1] = success
          /\ (\A i \in 2..(n - 1) : wire[i] \in {output, event("exited")})
          /\ wire[n] \in {event("stopped"), event("terminated")}
      BY Zenon, <2>5, <3>1, MoveReplyIs
    <3>3. \A i \in 1..n : i = 1 \/ i = n \/ i \in 2..(n - 1) BY <3>1
    <3>4. 1 \in 1..n /\ n \in 1..n /\ 1 \in 1..(n - 1) BY <3>1
    <3>5. responses = {1} BY Zenon, <3>2, <3>3, <3>4, MessagesDiffer
    <3>6. stops = {n} BY Zenon, <3>2, <3>3, <3>4, MessagesDiffer
    <3>7. Succeeded BY Zenon, <2>r, <3>2, <3>4 DEF Succeeded
    <3>8. failure \notin Range(wire) BY <2>r, <3>2, <3>3, MessagesDiffer
    <3>9. Cardinality({1}) = 1 BY Zenon, FS_Singleton
    <3>10. Goal BY Zenon, <2>5, <3>1, <3>4, <3>5, <3>6, <3>7, <3>8, <3>9
    <3> QED BY Zenon, <3>10 DEF RepliesWellFormed
  <2> QED BY Zenon, <2>0, <2>1, <2>2, <2>3, <2>4, <2>5 DEF Answers
<1> QED BY <1>1, DapInvariance, PTL

\* A reply of success to a move is a stop or an exit.
LEMMA MoveSucceeded ==
    ASSUME DapInv, Served, Succeeded, req.command \in Moving
    PROVE  wire \in StopReply \cup ExitReply
<1>1. Answers(req.command, wire) BY Zenon, ServedIs
<1>2. \E i \in DOMAIN wire : wire[i] = success BY Zenon DEF Succeeded, Range
<1>3. wire # Failed
  <2> SUFFICES ASSUME wire = Failed PROVE FALSE BY Zenon
  <2>1. DOMAIN wire = 1..2 /\ wire[1] = output /\ wire[2] = failure BY DEF Failed
  <2> QED BY <1>2, <2>1, MessagesDiffer
<1>4. req.command # "unsupported" BY Zenon DEF Moving, Moves
<1> QED BY Zenon, <1>1, <1>3, <1>4 DEF Answers

\* What the client was told of the target is what the session is at, and an inspection
\* never goes to a tracee the session knows to have exited (tracee_pid).
THEOREM StopsAlwaysTrue == Spec => []StopsAreTrue
<1>1. DapInv => StopsAreTrue
  <2> SUFFICES ASSUME DapInv PROVE StopsAreTrue BY Zenon
  <2>1. ASSUME Served, Replaying, Succeeded, req.command \in Moving
        PROVE  /\ event("stopped") \in Range(wire) <=> session.alive
               /\ event("stopped") \in Range(wire) <=> backend.exited = None
               /\ event("exited") \in Range(wire) <=> session.finished # None
    <3>1. wire \in StopReply \cup ExitReply /\ Tells(wire) BY Zenon, <2>1, MoveSucceeded, ServedIs
    <3>2. SessionOK(session) BY Zenon, <2>1 DEF DapInv, BackendInv
    <3>r. \A m : m \in Range(wire) <=> \E i \in DOMAIN wire : wire[i] = m BY Zenon DEF Range
    <3>n. PICK n \in Nat : n = Len(wire) /\ n >= 2 /\ DOMAIN wire = 1..n BY Zenon, <3>1, MoveReplyIs
    <3>3. CASE wire \in StopReply
      <4>1. event("stopped") \in Range(wire)
        <5>1. wire[n] = event("stopped") /\ n \in 1..n BY <3>1, <3>3, <3>n, MoveReplyIs
        <5> QED BY Zenon, <3>n, <3>r, <5>1
      <4>2. event("exited") \notin Range(wire) BY Zenon, <3>1, <3>3, <3>n, <3>r, MoveReplyIs
      <4> QED BY Zenon, <3>1, <3>2, <3>3, <4>1, <4>2 DEF Tells, SessionOK
    <3>4. CASE wire \in ExitReply
      <4>1. event("exited") \in Range(wire) BY Zenon, <3>1, <3>4, <3>n, <3>r, MoveReplyIs
      <4>2. event("stopped") \notin Range(wire) BY Zenon, <3>1, <3>4, <3>n, <3>r, MoveReplyIs
      <4> QED BY Zenon, <3>1, <3>4, <4>1, <4>2 DEF Tells
    <3> QED BY Zenon, <3>1, <3>3, <3>4
  <2>2. Replaying /\ backend.exited = None => session.finished = None BY Zenon DEF DapInv, BackendInv
  <2> QED BY Zenon, <2>1, <2>2 DEF StopsAreTrue
<1> QED BY <1>1, DapInvariance, PTL

\* The cursor the client steps from is the last event at or before the place the session
\* reached, the first event if there is none, and the end after an exit.
THEOREM CursorAlwaysTracks == Spec => []CursorTracks
<1>1. DapInv => CursorTracks
  <2> SUFFICES ASSUME DapInv, Served, Replaying, Succeeded, req.command \in Moving
               PROVE  Tracked
    BY Zenon DEF CursorTracks, Tracked
  <2>1. wire \in StopReply \cup ExitReply /\ Tells(wire) BY Zenon, MoveSucceeded, ServedIs
  <2> QED BY Zenon, <2>1 DEF Tells
<1> QED BY <1>1, DapInvariance, PTL

-----------------------------------------------------------------------------
(* Stepping by one event.                                                  *)

LEMMA MinUnique ==
    ASSUME NEW S \in SUBSET Nat, NEW x \in S, \A y \in S : x <= y
    PROVE  Min(S) = x
<1>1. Min(S) \in S /\ \A y \in S : Min(S) <= y BY Zenon, MinIs
<1>2. x \in Nat /\ Min(S) \in Nat /\ x <= Min(S) /\ Min(S) <= x BY Zenon, <1>1
<1> QED BY <1>2

LEMMA MaxUnique ==
    ASSUME NEW n \in Nat, NEW S \in SUBSET (0..n), NEW x \in S, \A y \in S : y <= x
    PROVE  Max(S) = x
<1>1. Max(S) \in S /\ \A y \in S : y <= Max(S) BY Zenon, MaxIs
<1>2. x <= Max(S) /\ Max(S) <= x /\ x \in 0..n /\ Max(S) \in 0..n BY Zenon, <1>1
<1> QED BY <1>2

\* The events before a place are the first ones.
LEMMA BeforeCounts ==
    ASSUME BackendInv, Replaying, NEW s \in Nat
    PROVE  \E m \in 0..Len(events) :
              /\ \A i \in 1..Len(events) : events[i] < s <=> i <= m
              /\ Cardinality(Before(s)) = m
<1>1. PICK n \in Nat : n = Len(events) BY Zenon, EventsAre
<1>2. /\ DOMAIN events = 1..n
      /\ \A i \in 1..n : events[i] \in Nat
      /\ \A i, j \in 1..n : i < j => events[i] < events[j]
      /\ \A i, j \in 1..n : i <= j => events[i] <= events[j]
  BY Zenon, <1>1, EventsAre
<1> DEFINE I == {i \in 1..n : events[i] < s}
<1>3. PICK m \in 0..n : \A i \in 1..n : events[i] < s <=> i <= m
  <2>1. CASE I = {}
    <3>1. \A i \in 1..n : ~(events[i] < s) /\ ~(i <= 0) BY <2>1
    <3> QED BY <1>1, <3>1
  <2>2. CASE I # {}
    <3>1. I \in SUBSET (0..n) OBVIOUS
    <3>2. PICK m \in I : \A x \in I : x <= m
      <4> HIDE DEF I
      <4> QED BY Zenon, <1>1, <2>2, <3>1, GreatestExists
    <3>3. m \in 0..n /\ m \in 1..n /\ events[m] < s OBVIOUS
    <3>4. ASSUME NEW i \in 1..n, events[i] < s PROVE i <= m BY Zenon, <3>2, <3>4
    <3>5. ASSUME NEW i \in 1..n, i <= m PROVE events[i] < s
      <4>1. events[i] <= events[m] BY Zenon, <1>2, <3>3, <3>5
      <4> QED BY <1>2, <3>3, <4>1
    <3> QED BY Zenon, <3>3, <3>4, <3>5
  <2> QED BY Zenon, <2>1, <2>2
<1>4. 1..m \subseteq 1..n BY <1>1, <1>3
<1>5. Before(s) = {events[i] : i \in 1..m}
  <2>1. Before(s) = {e \in {events[i] : i \in 1..n} : e < s} BY Zenon, <1>2 DEF Before, Range
  <2>2. ASSUME NEW i \in 1..m PROVE i \in 1..n /\ events[i] < s BY <1>3, <1>4
  <2>3. ASSUME NEW i \in 1..n, events[i] < s PROVE i \in 1..m BY <1>3, <2>3
  <2> QED BY Zenon, <2>1, <2>2, <2>3
<1> DEFINE f == [i \in 1..m |-> events[i]]
<1>6. f \in Bijection(1..m, Before(s))
  <2>1. \A i \in 1..m : f[i] = events[i] /\ i \in 1..n BY Zenon, <1>4
  <2>2. f \in [1..m -> Before(s)] BY Zenon, <1>5
  <2>3. \A i, j \in 1..m : f[i] = f[j] => i = j
    <3> SUFFICES ASSUME NEW i \in 1..m, NEW j \in 1..m, f[i] = f[j] PROVE i = j BY Zenon
    <3>1. i \in 1..n /\ j \in 1..n /\ events[i] = events[j] BY Zenon, <2>1
    <3>2. events[i] \in Nat /\ ~(i < j) /\ ~(j < i) BY <1>2, <3>1
    <3> QED BY <3>2
  <2>4. \A e \in Before(s) : \E i \in 1..m : f[i] = e BY Zenon, <1>5, <2>1
  <2> HIDE DEF f
  <2> QED BY Zenon, <2>2, <2>3, <2>4 DEF Bijection, Injection, Surjection, IsInjective
<1>7. Cardinality(Before(s)) = m
  <2>1. ExistsBijection(1..m, Before(s)) BY Zenon, <1>6 DEF ExistsBijection
  <2>2. IsFiniteSet(1..m) /\ Cardinality(1..m) = m
    <3>1. m \in Int /\ 1 \in Int BY <1>3
    <3>2. IsFiniteSet(1..m) /\ Cardinality(1..m) = IF 1 > m THEN 0 ELSE m - 1 + 1 BY Zenon, <3>1, FS_Interval
    <3> QED BY <1>3, <3>2
  <2> QED BY Zenon, <2>1, <2>2, FS_Bijection
<1> QED BY Zenon, <1>1, <1>3, <1>7

\* Where a move that was answered with success is.
LEMMA SettleLands ==
    ASSUME NEW o, NEW index, NEW note, Settle(o, index, note), ctl' = "writing", Landed
    PROVE  session' = o.session /\ o.result.how \notin {"hang", "error"}
<1>1. Head(outq') = success BY Zenon DEF Landed
<1>2. o.result.how # "hang" BY Zenon DEF Settle
<1>3. o.result.how # "error"
  <2> SUFFICES ASSUME o.result.how = "error" PROVE FALSE BY Zenon
  <2>1. outq' = Failed BY Zenon DEF Settle, Reply
  <2> QED BY Zenon, <1>1, <2>1, RepliesAreMessages
<1> QED BY Zenon, <1>2, <1>3 DEF Settle

LEMMA GotoLands ==
    ASSUME BackendInv, Replaying, NEW index \in 0..(Len(events) - 1), NEW note,
           goto(index, note), ctl' = "writing", Landed
    PROVE  \/ session'.alive /\ session'.at = events[index + 1]
           \/ /\ index + 1 = Len(events)
              /\ session.finished # None /\ session.at = events[index + 1]
<1>1. PICK o \in run_to(events[index + 1]) : Settle(o, index, note) BY Zenon DEF goto
<1>2. session' = o.session /\ o.result.how \notin {"hang", "error"} BY Zenon, <1>1, SettleLands
<1>3. /\ Fits(o, index)
      /\ o.result.how = "running" => o.session.at = events[index + 1]
      /\ Exits(o.result) =>
           index + 1 = Len(events) /\ session.finished # None /\ session.at = events[index + 1]
  BY Zenon, GotoFits
<1>4. o.result.how = "running" \/ Exits(o.result) BY Zenon, <1>2, <1>3 DEF Fits, Exits
<1> QED BY Zenon, <1>2, <1>3, <1>4 DEF Fits

LEMMA EndLands ==
    ASSUME BackendInv, Replaying, NEW note, RunToEnd(note), ctl' = "writing", Landed
    PROVE  session'.finished # None
<1>1. PICK o \in run_to_end : Settle(o, Len(events), note) BY Zenon DEF RunToEnd
<1>2. session' = o.session /\ o.result.how \notin {"hang", "error"} BY Zenon, <1>1, SettleLands
<1>3. Fits(o, Len(events)) /\ o.result.how # "running" BY Zenon, EndFits
<1>4. Exits(o.result) BY Zenon, <1>2, <1>3 DEF Fits, Exits
<1> QED BY Zenon, <1>2, <1>3, <1>4 DEF Fits

\* Only resume serves a step.
LEMMA StepIsResume ==
    ASSUME DapInv, Next, ctl = "dispatch", Replaying, req.command \in Moves
    PROVE  resume(req.command)
<1>1. \A in \in Input : ~Receive(in) BY Zenon DEF Receive
<1>2. ~Write BY Zenon DEF Write
<1>3. /\ ~OnInitialize /\ ~OnPlain /\ ~OpenTrace /\ ~Launch /\ ~OnJump /\ ~OnThreads /\ ~OnStackTrace
      /\ ~OnTaskTimeline /\ ~OnVariables /\ ~OnStatic /\ ~OnUnsupported
  BY Zenon DEF Moves, Serve, OnInitialize, OnPlain, OpenTrace, Launch, OnJump, OnThreads, OnStackTrace,
         OnTaskTimeline, OnVariables, OnStatic, OnUnsupported
<1>4. OnResume BY Zenon, <1>1, <1>2, <1>3 DEF Next, Server
<1> QED BY Zenon, <1>4 DEF OnResume, Replaying

LEMMA OneEventStep == DapInv /\ Next => OneEvent
<1> SUFFICES ASSUME DapInv, Next, ctl = "dispatch", InTouch, events # <<>>, ctl' = "writing", Landed
             PROVE  /\ req.command \in {"next", "stepIn", "stepOut"} /\ backend.exited = None =>
                          IF After(session.at) = {} THEN session'.finished # None
                          ELSE session'.alive /\ session'.at = Min(After(session.at))
                    /\ req.command = "stepBack" /\ session.at \in Range(events) /\ session.alive =>
                          session'.alive /\ session'.at = IF Before(session.at) = {} THEN session.at
                                                         ELSE Max(Before(session.at))
                    /\ req.command = "stepBack" /\ backend.exited # None /\ session.at > Max(Range(events)) =>
                          session'.alive /\ session'.at = Max(Range(events))
                    /\ req.command = "reverseContinue" /\ session.at > events[1] =>
                          session'.alive /\ session'.at = events[1]
  BY Zenon DEF OneEvent
<1>b. BackendInv /\ Replaying /\ SessionOK(session) BY Zenon DEF InTouch, DapInv, BackendInv
<1>p. /\ backend.trace.positions \subseteq Nat /\ None \notin Nat /\ U64Max \in Nat
      /\ backend.trace.positions \subseteq 0..U64Max
  BY Zenon, <1>b, TraceIs, SelectAssumption DEF BackendInv
<1>n. PICK n \in Nat : n = Len(events) /\ n # 0 BY Zenon, <1>b, EventsAre
<1>e. /\ DOMAIN events = 1..n
      /\ \A i \in 1..n : events[i] \in backend.trace.positions /\ events[i] \in Nat
      /\ \A i, j \in 1..n : i < j => events[i] < events[j]
      /\ \A i, j \in 1..n : i <= j => events[i] <= events[j]
  BY Zenon, <1>b, <1>n, EventsAre
<1>r. /\ Range(events) = {events[i] : i \in 1..n}
      /\ Range(events) \in SUBSET Nat /\ Range(events) \in SUBSET (0..U64Max)
  BY Zenon, <1>e, <1>p DEF Range
<1>m. req.command \in Moves => resume(req.command) BY Zenon, <1>b, StepIsResume
\* In touch and not exited, the cursor is on the last event at or before the session.
<1>c. ASSUME backend.exited = None
      PROVE  /\ session.at \in Nat /\ session.finished = None
             /\ \E m \in 1..n : /\ backend.cursor = m - 1
                                /\ \A i \in 1..n : events[i] <= session.at <=> i <= m
  <2>1. /\ session.finished = None /\ session.at # None
        /\ backend.cursor = Cardinality(Before(session.at + 1)) - 1
    BY Zenon, <1>c DEF InTouch
  <2>2. PICK a \in Nat : a = session.at BY Zenon, <1>b, <1>p, <2>1 DEF SessionOK
  <2>3. a + 1 \in Nat BY <2>2
  <2>4. PICK m \in 0..n : /\ \A i \in 1..n : events[i] < a + 1 <=> i <= m
                          /\ Cardinality(Before(a + 1)) = m
    BY Zenon, <1>b, <1>n, <2>3, BeforeCounts
  <2>5. backend.cursor = m - 1 BY Zenon, <2>1, <2>2, <2>4
  <2>6. backend.cursor \in 0..n BY Zenon, <1>b, <1>n DEF BackendInv
  <2>7. m \in 1..n BY <1>n, <2>4, <2>5, <2>6
  <2>8. ASSUME NEW i \in 1..n PROVE events[i] <= a <=> i <= m
    <3>1. events[i] \in Nat /\ (events[i] < a + 1 <=> i <= m) BY Zenon, <1>e, <2>4
    <3> QED BY <2>2, <3>1
  <2> QED BY Zenon, <2>1, <2>2, <2>5, <2>7, <2>8
<1>1. ASSUME req.command \in {"next", "stepIn", "stepOut"}, backend.exited = None
      PROVE  IF After(session.at) = {} THEN session'.finished # None
             ELSE session'.alive /\ session'.at = Min(After(session.at))
  <2>1. PICK a \in Nat, m \in 1..n :
          /\ a = session.at /\ session.finished = None /\ backend.cursor = m - 1
          /\ \A i \in 1..n : events[i] <= a <=> i <= m
    BY Zenon, <1>1, <1>c
  <2>2. /\ Following = m
        /\ IF m >= n THEN RunToEnd(<<>>) ELSE goto(m, <<>>)
    <3>1. Following = m BY <2>1 DEF Following
    <3>2. resume(req.command) BY Zenon, <1>1, <1>m DEF Moves
    <3> QED BY Zenon, <1>1, <1>n, <3>1, <3>2 DEF resume
  <2>3. After(a) = {e \in {events[i] : i \in 1..n} : e > a} BY Zenon, <1>r DEF After
  <2>4. CASE m >= n
    <3>1. session'.finished # None BY Zenon, <1>b, <2>2, <2>4, EndLands
    <3>2. \A i \in 1..n : ~(events[i] > a)
      <4> SUFFICES ASSUME NEW i \in 1..n PROVE ~(events[i] > a) BY Zenon
      <4>1. events[i] <= a /\ events[i] \in Nat BY <1>e, <2>1, <2>4
      <4> QED BY <2>1, <4>1
    <3> QED BY Zenon, <2>1, <2>3, <3>1, <3>2
  <2>5. CASE ~(m >= n)
    <3>1. PICK k \in 1..n : k = m + 1 BY <1>n, <2>1, <2>5
    <3>2. goto(m, <<>>) /\ m \in 0..(Len(events) - 1) BY <1>n, <2>1, <2>2, <2>5
    <3>3. \/ session'.alive /\ session'.at = events[m + 1]
          \/ session.finished # None
      BY Zenon, <1>b, <3>2, GotoLands
    <3>4. session'.alive /\ session'.at = events[k] BY Zenon, <2>1, <3>1, <3>3
    <3>5. events[k] > a
      <4>1. ~(events[k] <= a) /\ events[k] \in Nat BY <1>e, <2>1, <3>1
      <4> QED BY <2>1, <4>1
    <3>6. ASSUME NEW e \in After(a) PROVE events[k] <= e
      <4>1. PICK i \in 1..n : e = events[i] /\ events[i] > a BY Zenon, <2>3
      <4>2. ~(events[i] <= a) BY <1>e, <2>1, <4>1
      <4>3. k <= i BY <2>1, <3>1, <4>2
      <4> QED BY Zenon, <1>e, <4>1, <4>3
    <3>7. events[k] \in After(a) BY Zenon, <2>3, <3>5
    <3>8. After(a) \in SUBSET Nat BY Zenon, <1>e, <2>3
    <3>9. Min(After(a)) = events[k] BY Zenon, <3>6, <3>7, <3>8, MinUnique
    <3> QED BY Zenon, <2>1, <3>4, <3>7, <3>9
  <2> QED BY Zenon, <2>4, <2>5
<1>2. ASSUME req.command = "stepBack", session.at \in Range(events), session.alive
      PROVE  session'.alive /\ session'.at = IF Before(session.at) = {} THEN session.at
                                             ELSE Max(Before(session.at))
  <2>0. backend.exited = None BY Zenon, <1>2, <1>b DEF SessionOK, InTouch
  <2>1. PICK a \in Nat, m \in 1..n :
          /\ a = session.at /\ session.finished = None /\ backend.cursor = m - 1
          /\ \A i \in 1..n : events[i] <= a <=> i <= m
    BY Zenon, <2>0, <1>c
  <2>2. a = events[m]
    <3>1. PICK j \in 1..n : a = events[j] BY Zenon, <1>2, <1>r, <2>1
    <3>2. events[j] <= a /\ events[m] <= a BY <1>e, <2>1, <3>1
    <3>3. j <= m /\ events[j] <= events[m] /\ events[m] \in Nat BY Zenon, <1>e, <2>1, <3>2
    <3> QED BY <2>1, <3>1, <3>2, <3>3
  <2>3. goto(Previous, <<>>)
    <3>1. resume(req.command) BY Zenon, <1>2, <1>m DEF Moves
    <3> QED BY Zenon, <1>2, <3>1 DEF resume
  <2>4. Before(a) = {e \in {events[i] : i \in 1..n} : e < a} BY Zenon, <1>r DEF Before
  <2>5. CASE m = 1
    <3>1. Previous = 0 BY <2>1, <2>5 DEF Previous
    <3>2. 0 \in 0..(Len(events) - 1) /\ goto(0, <<>>) BY <1>n, <2>3, <3>1
    <3>3. session'.alive /\ session'.at = events[0 + 1] BY Zenon, <1>b, <2>1, <3>2, GotoLands
    <3>4. session'.at = a BY <2>2, <2>5, <3>3
    <3>5. \A i \in 1..n : ~(events[i] < a)
      <4> SUFFICES ASSUME NEW i \in 1..n PROVE ~(events[i] < a) BY Zenon
      <4>1. events[m] <= events[i] /\ events[i] \in Nat BY <1>e, <2>1, <2>5
      <4> QED BY <2>1, <2>2, <4>1
    <3>6. Before(a) = {} BY Zenon, <2>4, <3>5
    <3> QED BY Zenon, <2>1, <3>3, <3>4, <3>6
  <2>6. CASE m # 1
    <3>1. PICK k \in 1..n : k = m - 1 BY <2>1, <2>6
    <3>2. Previous = k - 1 BY <2>1, <2>6, <3>1 DEF Previous
    <3>3. PICK i \in 0..(Len(events) - 1) : i = Previous /\ i + 1 = k BY <1>n, <3>1, <3>2
    <3>4. session'.alive /\ session'.at = events[i + 1] BY Zenon, <1>b, <2>1, <2>3, <3>3, GotoLands
    <3>5. events[k] < a BY <1>e, <2>1, <2>2, <3>1
    <3>6. events[k] \in Before(a) BY Zenon, <2>4, <3>5
    <3>7. ASSUME NEW e \in Before(a) PROVE e <= events[k]
      <4>1. PICK j \in 1..n : e = events[j] /\ events[j] < a BY Zenon, <2>4
      <4>2. ~(m <= j)
        <5> SUFFICES ASSUME m <= j PROVE FALSE BY Zenon
        <5>1. events[m] <= events[j] /\ events[j] \in Nat BY Zenon, <1>e, <2>1
        <5> QED BY <2>1, <2>2, <4>1, <5>1
      <4>3. j <= k BY <2>1, <3>1, <4>2
      <4> QED BY Zenon, <1>e, <4>1, <4>3
    <3>8. Before(a) \in SUBSET (0..U64Max) BY Zenon, <1>r DEF Before
    <3>9. Max(Before(a)) = events[k] BY Zenon, <1>p, <3>6, <3>7, <3>8, MaxUnique
    <3> QED BY Zenon, <2>1, <3>3, <3>4, <3>6, <3>9
  <2> QED BY Zenon, <2>5, <2>6
<1>g. Max(Range(events)) = events[n] /\ n \in 1..n
  <2>1. n \in 1..n BY <1>n
  <2>2. events[n] \in Range(events) BY Zenon, <1>r, <2>1
  <2>3. \A e \in Range(events) : e <= events[n]
    <3> SUFFICES ASSUME NEW i \in 1..n PROVE events[i] <= events[n] BY Zenon, <1>r
    <3>1. i <= n BY <1>n
    <3> QED BY Zenon, <1>e, <2>1, <3>1
  <2> QED BY Zenon, <1>p, <1>r, <2>1, <2>2, <2>3, MaxUnique
<1>3. ASSUME req.command = "stepBack", backend.exited # None, session.at > Max(Range(events))
      PROVE  session'.alive /\ session'.at = Max(Range(events))
  <2>1. backend.cursor = n BY Zenon, <1>3, <1>n DEF InTouch
  <2>2. goto(Previous, <<>>)
    <3>1. resume(req.command) BY Zenon, <1>3, <1>m DEF Moves
    <3> QED BY Zenon, <1>3, <3>1 DEF resume
  <2>3. PICK i \in 0..(Len(events) - 1) : i = Previous /\ i + 1 = n BY <1>n, <2>1 DEF Previous
  <2>4. \/ session'.alive /\ session'.at = events[n]
        \/ session.at = events[n]
    BY Zenon, <1>b, <2>2, <2>3, GotoLands
  <2>5. session.at # events[n]
    <3>1. events[n] \in Nat BY Zenon, <1>e, <1>g
    <3> QED BY <1>3, <1>g, <3>1
  <2> QED BY Zenon, <1>g, <2>4, <2>5
<1>4. ASSUME req.command = "reverseContinue", session.at > events[1]
      PROVE  session'.alive /\ session'.at = events[1]
  <2>1. goto(0, <<>>)
    <3>1. resume(req.command) BY Zenon, <1>4, <1>m DEF Moves
    <3> QED BY Zenon, <1>4, <3>1 DEF resume
  <2>2. PICK i \in 0..(Len(events) - 1) : i = 0 /\ i + 1 = 1 BY <1>n
  <2>3. \/ session'.alive /\ session'.at = events[1]
        \/ session.at = events[1]
    BY Zenon, <1>b, <2>1, <2>2, GotoLands
  <2>4. 1 \in 1..n BY <1>n
  <2>5. session.at # events[1]
    <3>1. events[1] \in Nat BY Zenon, <1>e, <2>4
    <3> QED BY <1>4, <3>1
  <2> QED BY Zenon, <2>3, <2>5
<1> QED BY Zenon, <1>1, <1>2, <1>3, <1>4

\* A step moves by one event: `next' to the first event after the place of the session and
\* past the last one to the exit, stepBack to the event before, reverseContinue to the
\* first one, in any trace and after any earlier requests and faults.
THEOREM StepsByOneEvent == Spec => StepsOneEvent
<1>1. DapInv /\ [Next]_vars => [OneEvent]_vars BY Zenon, OneEventStep
<1> QED BY <1>1, DapInvariance, PTL DEF Spec, StepsOneEvent
=============================================================================
