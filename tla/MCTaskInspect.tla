---------------------------- MODULE MCTaskInspect ----------------------------
(***************************************************************************)
(* Small instances of TaskInspect: ten binaries, three goroutines, three     *)
(* tasks.                                                                    *)
(***************************************************************************)
EXTENDS TaskInspect

M(n, o, t) == [name |-> n, offset |-> o, type |-> t]

Plain(members) ==
  [coroutine |-> FALSE, discr |-> FALSE, members |-> members, variants |-> <<>>]

Coroutine(d, suspends) ==
  [coroutine |-> TRUE, discr |-> d, members |-> <<>>,
   variants |-> <<[value |-> 0, kind |-> "Unresumed", members |-> <<>>],
                  [value |-> 1, kind |-> "Returned", members |-> <<>>],
                  [value |-> 2, kind |-> "Panicked", members |-> <<>>],
                  [value |-> 6, kind |-> None, members |-> <<>>]>> \o suspends]

Suspend(v, members) == [value |-> v, kind |-> "Suspend", members |-> members]

(* inner awaits a channel or a lock; outer sleeps, joins two inners or awaits   *)
(* one; deep awaits outer, or something behind a pointer; odd has a             *)
(* discriminant DWARF does not name.                                         *)
Dies ==
  [Sleep |-> Plain(<<>>), Recv |-> Plain(<<>>), Mutex |-> Plain(<<>>),
   PollFn |-> Plain(<<>>),
   MaybeDone |-> Plain(<<M("0", 0, "inner")>>),
   Pair |-> Plain(<<M("0", 0, "MaybeDone"), M("1", 1, "MaybeDone")>>),
   inner |-> Coroutine(TRUE, <<Suspend(3, <<M("__awaitee", 1, "Recv")>>),
                               Suspend(5, <<M("__awaitee", 1, "Mutex")>>)>>),
   outer |-> Coroutine(TRUE,
               <<Suspend(3, <<M("__awaitee", 1, "Sleep")>>),
                 Suspend(4, <<M("futures", 1, "Pair"), M("__awaitee", 3, "PollFn")>>),
                 Suspend(5, <<M("__awaitee", 1, "inner")>>)>>),
   deep |-> Coroutine(TRUE, <<Suspend(3, <<M("__awaitee", 1, "outer")>>),
                              Suspend(4, <<M("__awaitee", 1, "pointer")>>)>>),
   odd |-> Coroutine(FALSE, <<>>)]

Dwarf == [structs |-> TRUE, parent_goid |-> TRUE, m_procid |-> TRUE, broken |-> FALSE,
          var_allgs |-> FALSE]

NoDwarf == [structs |-> FALSE, parent_goid |-> FALSE, m_procid |-> FALSE, broken |-> FALSE,
            var_allgs |-> FALSE]

CProgram ==
  [runtime |-> "other", parses |-> TRUE, buildinfo |-> FALSE, sym_allgs |-> FALSE,
   tokens |-> <<>>, built_with |-> None, dwarf |-> NoDwarf, bias |-> 0,
   tokio_symbol |-> FALSE, debug_info |-> FALSE, producers |-> <<None>>, dies |-> <<>>,
   tokio_tokens |-> <<>>, tokio_built |-> None, context_symbol |-> None, tls_align |-> 8,
   tls_block_size |-> 20, tls_block_aligned |-> 24, min_load_vaddr |-> 0,
   poll_types |-> <<>>, load_base |-> 0,
   threads |-> {1, 2}, max_goid |-> 3, headers |-> {500, 510}, spawns |-> 6..9]

GoProgram(minor, dwarf) ==
  [CProgram EXCEPT !.runtime = "go", !.buildinfo = TRUE, !.sym_allgs = TRUE,
                   !.tokens = <<None, minor>>, !.built_with = minor, !.dwarf = dwarf]

TokioProgram(rustc, tokio) ==
  [CProgram EXCEPT !.runtime = "tokio", !.tokio_symbol = TRUE, !.debug_info = TRUE,
     !.producers = <<None, rustc>>, !.dies = Dies, !.tokio_tokens = <<None, tokio>>,
     !.tokio_built = tokio, !.context_symbol = 4, !.load_base = 40,
     !.poll_types = (5 :> "odd") @@ (6 :> "Boxed") @@ (7 :> "outer") @@ (8 :> "inner")
                    @@ (9 :> "deep")]

MCImage ==
  [c |-> CProgram,
   go23 |-> [GoProgram(23, [Dwarf EXCEPT !.m_procid = FALSE]) EXCEPT !.threads = {1}],
   go24_stripped |-> [GoProgram(24, [NoDwarf EXCEPT !.var_allgs = TRUE]) EXCEPT !.max_goid = 2],
   go23_stripped |-> [GoProgram(23, NoDwarf) EXCEPT !.max_goid = 1],
   go24_pie |-> [GoProgram(24, Dwarf) EXCEPT !.bias = 64, !.max_goid = 1],
   tokio |-> [TokioProgram(85, 44) EXCEPT !.threads = {1}, !.spawns = {6, 7, 9}],
   tokio_threads |-> [TokioProgram(85, 44) EXCEPT !.spawns = {6, 8}],
   tokio_crowd |-> [TokioProgram(85, 44) EXCEPT !.headers = Header, !.spawns = {8},
                                               !.threads = {1}],
   tokio45 |-> [TokioProgram(85, 45) EXCEPT !.headers = {500}],
   rustc95 |-> [TokioProgram(95, 44) EXCEPT !.headers = {500}]]

C(poll, first, state, cells) ==
  [poll |-> poll, known |-> TRUE, first |-> first, state |-> state, cells |-> cells,
   pending |-> {}, done |-> {}, decodable |-> TRUE, parked_on |-> "Unknown", depth |-> 1]

MCConfigs ==
  {C(7, TRUE, {"NOTIFIED"}, <<0, 9, 9>>),
   [C(7, FALSE, {}, <<5, 3, 9>>) EXCEPT !.parked_on = "Channel", !.depth = 2],
   [C(7, FALSE, {}, <<4, 3, 3>>) EXCEPT !.pending = {1, 2}],
   [C(7, FALSE, {}, <<4, 3, 9>>) EXCEPT !.pending = {1}, !.done = {2}, !.decodable = FALSE],
   [C(7, FALSE, {"RUNNING"}, <<4, 1, 3>>) EXCEPT !.pending = {2}, !.done = {1}],
   [C(7, FALSE, {}, <<3, 9, 9>>) EXCEPT !.parked_on = "Timer"],
   [C(7, FALSE, {"COMPLETE"}, <<9, 9, 9>>) EXCEPT !.decodable = FALSE],
   [C(8, TRUE, {}, <<3>>) EXCEPT !.parked_on = "Channel"],
   [C(8, FALSE, {}, <<5>>) EXCEPT !.parked_on = "Lock"],
   [C(9, TRUE, {}, <<3, 5, 3>>) EXCEPT !.parked_on = "Channel", !.depth = 3],
   C(9, FALSE, {}, <<4, 9, 9>>),
   [C(6, TRUE, {}, <<>>) EXCEPT !.known = FALSE]}

G(status, reason) == [atomicstatus |-> status, waitreason |-> reason]

(* Running, in a system call, waiting (one of them being scanned by the        *)
(* collector), preempted, dead.                                               *)
MCGoStates == {G(2, 0), G(3, 0), G(4, 14), G(4100, 24), G(9, 0), G(6, 0)}

=============================================================================
