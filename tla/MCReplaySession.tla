-------------------------- MODULE MCReplaySession --------------------------
(* Small traces and executions of ReplaySession for TLC. *)
EXTENDS ReplaySession

Rec(kind, nr) == [kind |-> kind, nr |-> nr]
Number(recs) == [i \in DOMAIN recs |-> [seq |-> i - 1, kind |-> recs[i].kind, nr |-> recs[i].nr]]

\* read, a signal, write, exit_group; one Checkpoint marker.
MCRecords == Number(<<Rec("SyscallEnter", "read"), Rec("SyscallExit", "read"),
                      Rec("Signal", "usr1"), Rec("Checkpoint", "none"),
                      Rec("SyscallEnter", "write"), Rec("SyscallExit", "write"),
                      Rec("SyscallEnter", "read"), Rec("SyscallExit", "read"),
                      Rec("SyscallEnter", "exit")>>)

Sys(nr) == [stop |-> "syscall", nr |-> nr]
Sig(s) == [stop |-> "signal", nr |-> s]
Wr(v) == [stop |-> "write", nr |-> v]

Recorded == <<Sys("read"), Sys("read"), Wr("a"), Sig("usr1"), Sys("write"), Sys("write"),
              Wr("b"), Sys("read"), Sys("read"), Wr("c"), Sys("exit")>>
\* The same program exits before its last read, or is sent an extra signal, or
\* makes another syscall in place of the write.
Shorter == <<Sys("read"), Sys("read"), Wr("a"), Sig("usr1"), Sys("write"), Sys("write")>>
Signalled == <<Sys("read"), Sys("read"), Sig("usr1"), Sig("usr2"), Sys("write"), Sys("write"),
              Sys("read"), Sys("read"), Sys("exit")>>
Strayed == <<Sys("read"), Sys("read"), Sig("usr1"), Sys("open"), Sys("open"),
             Sys("read"), Sys("read"), Sys("exit")>>

\* It gets another signal than the recorded one, or leaves out the last read.
OtherSignal == <<Sys("read"), Sys("read"), Wr("a"), Sig("usr2"), Sys("write")>>
NoRead == <<Sys("read"), Sys("read"), Wr("a"), Sig("usr1"), Sys("write"), Sys("write"),
            Sys("exit"), Sys("exit"), Sys("read")>>

\* The trace without the exit of its last read.
MCEdited == Number(<<Rec("SyscallEnter", "read"), Rec("SyscallExit", "read"),
                     Rec("Signal", "usr1"), Rec("Checkpoint", "none"),
                     Rec("SyscallEnter", "write"), Rec("SyscallExit", "write"),
                     Rec("SyscallEnter", "read"), Rec("SyscallEnter", "exit")>>)

AnyRun == {Recorded, Shorter, Signalled, Strayed, OtherSignal, NoRead}
OnlyRecorded == {Recorded}

ASSUME RecordedIsFaithful == Runs = OnlyRecorded => Faithful
=============================================================================
