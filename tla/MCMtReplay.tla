------------------------------ MODULE MCMtReplay ------------------------------
(* Small traces and programs of MtReplay for TLC. *)
EXTENDS MtReplay, TLC

Sys(nr) == [stop |-> "syscall", nr |-> nr, blocks |-> FALSE]
Spawn(how, c) == [stop |-> how, nr |-> None, child |-> c]
Sig(n) == [stop |-> "signal", nr |-> n]
Exec == [stop |-> "exec", nr |-> None]
Wr == [stop |-> "write", nr |-> "trap"]
End == [stop |-> "exited", nr |-> None, kills |-> FALSE]

R(kind, tid, nr) == [kind |-> kind, tid |-> tid, nr |-> nr, child |-> None]
Enter(t, nr) == R("SyscallEnter", t, nr)
Exit(t) == R("SyscallExit", t, None)
Born1(t, c) == [R("ThreadSpawn", t, None) EXCEPT !.child = c]
Gone(t) == R("ThreadExit", t, None)
To(t) == R("SchedSwitch", t, None)
Got(t, n) == R("Signal", t, n)
Mark == R("Checkpoint", None, None)

Number(recs) ==
    [i \in DOMAIN recs |->
        [seq |-> i - 1, kind |-> recs[i].kind, tid |-> recs[i].tid, nr |-> recs[i].nr, child |-> recs[i].child]]

\* A leader and a worker thread that both write the watched range; the worker is
\* gone before the leader forks a process, which execs and gets the worker's pid.
Prog1 ==
    "m" :> <<Sys("clone"), Spawn("clone", "w"), Sys("clone"), Wr, Sig("usr1"),
             Sys("fork"), Spawn("vfork", "f"), Sys("fork"), Wr, Sys("exit"), End>>
    @@ "w" :> <<Sys("read"), Sys("read"), Wr, Sys("exit"), End>>
    @@ "f" :> <<Sys("exec"), Exec, Sys("exec"), End>>

Trace1 ==
    <<Enter("m", "clone"), Born1("m", "w"), To("w"), Enter("w", "read"), To("m"), Exit("m"),
      Got("m", "usr1"), Mark, To("w"), Exit("w"), Enter("w", "exit"), Gone("w"), To("m"),
      Enter("m", "fork"), Born1("m", "f"), To("f"), Enter("f", "exec"), Exit("f"), Gone("f"),
      To("m"), Exit("m"), Enter("m", "exit"), Gone("m")>>

Without1(s, i) == SubSeq(s, 1, i - 1) \o SubSeq(s, i + 1, Len(s))
Good == [records |-> Number(Trace1), prog |-> Prog1]

\* Traces that were edited: a record retagged, left out, doubled or changed.
Edited ==
    {[Trace1 EXCEPT ![4].tid = "m"], [Trace1 EXCEPT ![10].tid = "f"], Without1(Trace1, 3),
     Without1(Trace1, 4), Without1(Trace1, 7), Without1(Trace1, 11), Without1(Trace1, 2),
     [Trace1 EXCEPT ![7].nr = "usr2"], [Trace1 EXCEPT ![14].nr = "read"],
     [Trace1 EXCEPT ![15].child = "m"], [Trace1 EXCEPT ![8].kind = "Other"],
     [Trace1 EXCEPT ![6].kind = "Signal"], [Trace1 EXCEPT ![22].kind = "ThreadExit"],
     [Trace1 EXCEPT ![5].tid = "f"], [Trace1 EXCEPT ![2].kind = "SyscallExit"], SubSeq(Trace1, 1, 9)}

GoodOnly == {Good}
AnyScenario == {Good} \cup {[records |-> Number(t), prog |-> Prog1] : t \in Edited}
=============================================================================
