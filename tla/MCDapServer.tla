---------------------------- MODULE MCDapServer ----------------------------
(* Small traces and client messages of DapServer for TLC. *)
EXTENDS DapServer

CONSTANT Unreadable  \* a trace argument that cannot be opened

End(how, n) == [how |-> how, n |-> n]

\* Entries at even places, exits of syscalls at odd ones, exit_group's entry last.
Plain == [positions |-> 0..6, events |-> <<1, 3, 5>>, mt |-> FALSE, end |-> End("exited", 0)]
\* A signal between two events; the target is killed after its last event.
KilledTrace == [positions |-> 0..4, events |-> <<1, 4>>, mt |-> FALSE, end |-> End("signaled", 9)]
Threads == [positions |-> 0..5, events |-> <<2, 4>>, mt |-> TRUE, end |-> End("exited", 1)]
\* exit_group is the only syscall.
Silent == [positions |-> {0}, events |-> <<>>, mt |-> FALSE, end |-> End("exited", 2)]

MCTraces == {Plain, KilledTrace, Threads, Silent}

Good == <<"other", "length", "blank">>
Framed(r) == [headers |-> Good, payload |-> r]

Commands == {"initialize", "configurationDone", "setBreakpoints", "disconnect", "threads",
             "stackTrace", "taskTimeline", "scopes", "listCheckpoints", "unsupported", "skip"} \cup Moves

MCInput ==
    {Framed([command |-> c]) : c \in Commands}
    \cup {Framed([command |-> "variables", reference |-> r]) : r \in {REGISTERS_REF, "other"}}
    \cup {Framed([command |-> "launch", trace |-> t]) : t \in MCTraces \cup {None, Unreadable}}
    \cup {Framed([command |-> "jumpToEvent", seq |-> s]) : s \in {0, 2, 4, 9, None}}
    \cup {[headers |-> h, payload |-> [command |-> "short"]] :
             h \in {<<>>, Good, <<"other">>, <<"other", "blank">>, <<"length", "bad_length", "blank">>}}
    \cup {Framed([command |-> "malformed"])}
=============================================================================
