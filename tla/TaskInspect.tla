----------------------------- MODULE TaskInspect -----------------------------
(***************************************************************************)
(* A stopped target looked at through a semantic decoder: the decoder chosen  *)
(* for its binary (crates/decoder/src/registry.rs), the view of its threads    *)
(* (ptrace_view.rs), the native decoder (native.rs), and, between two stops,   *)
(* what the target's runtime does to the memory the decoders read.            *)
(*                                                                         *)
(* Decoders keep no state: decode_tasks, logical_stack, wake_cause and         *)
(* locals_at are functions of the memory at a stop.  Inspect is a client that   *)
(* lists the tasks and asks everything about each of them and about the ids it  *)
(* was given at an earlier stop.                                              *)
(***************************************************************************)
EXTENDS TaskTree, FiniteSets, Integers

CONSTANTS
  MAX_GOROUTINES, MAX_CHILD_DEPTH, MAX_SHARDS, MAX_LISTED, MAX_TASKS,
  MAX_AWAIT_DEPTH, FUTURE_OFFSET,
  Image,             \* the binaries the target may be built as, by name
  Thread,            \* thread ids
  GoSlots,           \* addresses g structs are allocated at
  GoStates,          \* [atomicstatus, waitreason] a stop may find
  Header,            \* addresses tasks are allocated at
  Configs            \* what a poll may leave of a coroutine: see PollTask

VARIABLES
  bin,        \* the name of the binary
  threads,    \* the threads of the target
  rt,         \* the memory of the target's runtime
  damaged,    \* whether that memory was overwritten by a bug of the target
  view,       \* the threads PtraceProcessView enumerated
  ans,        \* what the decoder answered at this stop
  held        \* [id, address] of the tasks the client was shown, at an earlier stop

vars == <<bin, threads, rt, damaged, view, ans, held>>

Go == INSTANCE GoDecoder
Tokio == INSTANCE AsyncDecoder

-----------------------------------------------------------------------------
(* registry.rs: Go first, then Tokio, and native threads when neither decoder  *)
(* can be built.                                                             *)
select_decoder_for_binary(img) ==
  LET go == Go!load_layout(img)
      tokio == Tokio!from_binary(img)
  IN  IF go.ok THEN [kind |-> "go", with |-> go.value]
      ELSE IF tokio.ok THEN [kind |-> "tokio", with |-> tokio.value]
      ELSE [kind |-> "native", with |-> None]

Decoders == [b \in DOMAIN Image |-> select_decoder_for_binary(Image[b])]

image == Image[bin]

decoder == Decoders[bin]

(* ptrace_view.rs: a thread's registers can be read when the view knows it and  *)
(* it still exists, and its frames are unwound from them.                      *)
registers(t) == IF t \notin view THEN Err("UnknownThread")
                ELSE IF t \notin threads THEN Err("RegisterReadFailed")
                ELSE Ok(t)

physical_frames(t) == AndThen(registers(t), LAMBDA leaf : Ok(<<Physical(leaf)>>))

(* native.rs: a root per thread of the view, with the thread's number.         *)
native_decode_tasks ==
  LET ids == Ascending(view)
  IN  try_from_nodes([i \in DOMAIN ids |->
        [id |-> ids[i], parent |-> None, at |-> ids[i], state |-> State("Running")]])

native_logical_stack(task) ==
  LET frames == physical_frames(task) IN IF frames.ok THEN frames ELSE Err("UnknownTask")

(* wake_cause and locals_at only ask for the registers.                       *)
native_wake_cause(task) ==
  IF registers(task).ok THEN Ok("Unknown") ELSE Err("UnknownTask")

-----------------------------------------------------------------------------
(* The memory as the decoder reads it.  A g struct read with the offsets of    *)
(* another Go release yields whatever lies there: here, nothing alive.         *)
GoMemory ==
  [slots |-> rt.slots, procid |-> [t \in threads |-> t], bias |-> image.bias,
   g |-> IF decoder.with.of = image.built_with THEN rt.g
         ELSE [gp \in DOMAIN rt.g |-> [rt.g[gp] EXCEPT !.goid = 0]]]

(* A thread's CONTEXT lies below its thread pointer, at the offset the         *)
(* linker gave it in the executable's TLS block.                              *)
ThreadPointer(t) == 100 * t

ContextAddress(t) ==
  ThreadPointer(t) - image.tls_block_aligned + image.context_symbol

TokioMemory ==
  [tp |-> [t \in threads |-> ThreadPointer(t)], base |-> image.load_base,
   context |-> [a \in {ContextAddress(t) : t \in threads} |->
                  IF \E t \in rt.entered : ContextAddress(t) = a THEN 1 ELSE 0],
   owned |-> 1 :> rt.heads, header |-> rt.header, cell |-> rt.cell]

(* The four operations of the decoder in use.                                 *)
decode_tasks ==
  CASE decoder.kind = "go" -> Go!decode_tasks(GoMemory, decoder.with)
    [] decoder.kind = "tokio" -> Tokio!decode_tasks(TokioMemory, decoder.with, view)
    [] decoder.kind = "native" -> native_decode_tasks

logical_stack(task) ==
  CASE decoder.kind = "go" ->
         Go!logical_stack(GoMemory, decoder.with, view \cap threads, task)
    [] decoder.kind = "tokio" ->
         Tokio!logical_stack(TokioMemory, decoder.with, view, task)
    [] decoder.kind = "native" -> native_logical_stack(task)

wake_cause(task) ==
  CASE decoder.kind = "go" -> Go!wake_cause(GoMemory, decoder.with, task)
    [] decoder.kind = "tokio" -> Tokio!wake_cause(TokioMemory, decoder.with, view, task)
    [] decoder.kind = "native" -> native_wake_cause(task)

locals_at(task) ==
  CASE decoder.kind = "go" -> Go!locals_at(GoMemory, decoder.with, task)
    [] decoder.kind = "tokio" -> Tokio!locals_at(TokioMemory, decoder.with, view, task)
    [] decoder.kind = "native" ->
         IF native_wake_cause(task).ok THEN Ok(<<>>) ELSE native_wake_cause(task)

-----------------------------------------------------------------------------
(* The target at its first stop: a Go program with its main goroutine running  *)
(* next to a system goroutine without a number, or a Tokio runtime entered by   *)
(* the main thread that owns no task yet.                                     *)
GoStart ==
  [slots |-> <<0, 11, 12>>, next |-> 2,
   g |-> (11 :> [goid |-> 1, atomicstatus |-> 2, waitreason |-> 0, m |-> 1, parentGoid |-> 0])
      @@ (12 :> [goid |-> 0, atomicstatus |-> 4, waitreason |-> 5, m |-> 0, parentGoid |-> 0])]

TokioStart ==
  [heads |-> <<0, 0>>, header |-> <<>>, cell |-> <<>>, entered |-> {1}]

Init ==
  /\ bin \in DOMAIN Image
  /\ threads = {1}
  /\ rt = CASE image.runtime = "go" -> GoStart
            [] image.runtime = "tokio" -> TokioStart
            [] OTHER -> None
  /\ damaged = FALSE
  /\ view = {1}
  /\ ans = None
  /\ held = {}

-----------------------------------------------------------------------------
(* One inspection of the stopped target.                                      *)
Inspect ==
  /\ ans = None
  /\ \E tasks \in {decode_tasks} :
       LET ids == (IF tasks.ok THEN DOMAIN tasks.value.nodes ELSE {})
                    \cup {n[1] : n \in held}
       IN  ans' = [tasks |-> tasks,
                   stacks |-> [id \in ids |-> logical_stack(id)],
                   wakes |-> [id \in ids |-> wake_cause(id)],
                   locals |-> [id \in ids |-> locals_at(id)]]
  /\ UNCHANGED <<bin, threads, rt, damaged, view, held>>

(* The target moves on: the client is left with the ids it was given, next to   *)
(* which is kept here what they stood for: all goroutines, or the root tasks.  *)
Resume ==
  /\ ans' = None
  /\ held' = IF ans = None \/ ~ans.tasks.ok THEN held
             ELSE {<<id, ans.tasks.value.nodes[id].at>> :
                     id \in IF decoder.kind = "go" THEN DOMAIN ans.tasks.value.nodes
                                                  ELSE Range(ans.tasks.value.roots)}

(* Tokio tasks are numbered by the order of their headers: when one starts or   *)
(* ends the client has to start over, as it has when memory is damaged.        *)
StartOver == ans' = None /\ held' = {}

(* PtraceProcessView::for_pid: the threads the target has now.                *)
for_pid ==
  /\ view # threads
  /\ view' = threads
  /\ Resume
  /\ UNCHANGED <<bin, threads, rt, damaged>>

(* Threads come and go.                                                      *)
NewThread(t) ==
  /\ t \in image.threads \ threads
  /\ threads' = threads \cup {t}
  /\ Resume
  /\ UNCHANGED <<bin, rt, damaged, view>>

Busy == CASE image.runtime = "go" -> {rt.g[gp].m : gp \in DOMAIN rt.g}
          [] image.runtime = "tokio" -> rt.entered
          [] OTHER -> {}

ThreadExit(t) ==
  /\ t \in threads \ (Busy \cup {1})
  /\ threads' = threads \ {t}
  /\ Resume
  /\ UNCHANGED <<bin, rt, damaged, view>>

-----------------------------------------------------------------------------
(* The Go runtime.                                                           *)

Alive(g) == g.atomicstatus % 4096 \notin {5, 6, 7}

(* A go statement: the new goroutine takes a dead one's g struct, number and   *)
(* all replaced, or one appended to allgs.                                    *)
GoStatement(p, gp) ==
  /\ image.runtime = "go" /\ ~damaged
  /\ p \in DOMAIN rt.g /\ rt.g[p].atomicstatus = 2
  /\ rt.next <= image.max_goid
  /\ gp \in DOMAIN rt.g => ~Alive(rt.g[gp])
  /\ rt' = [rt EXCEPT
       !.g = (gp :> [goid |-> rt.next, atomicstatus |-> 1, waitreason |-> 0, m |-> 0,
                     parentGoid |-> rt.g[p].goid]) @@ @,
       !.slots = IF gp \in DOMAIN rt.g THEN @ ELSE Append(@, gp),
       !.next = @ + 1]
  /\ Resume
  /\ UNCHANGED <<bin, threads, damaged, view>>

(* A goroutine moves on; it holds a thread while running or in a system call.  *)
GoSwitch(gp, s, m) ==
  /\ image.runtime = "go" /\ ~damaged
  /\ gp \in DOMAIN rt.g /\ rt.g[gp].goid > 0 /\ Alive(rt.g[gp])
  /\ ~Alive(s) => rt.g[gp].atomicstatus = 2
  /\ IF s.atomicstatus % 4096 \in {2, 3}
     THEN m \in threads /\ \A o \in DOMAIN rt.g \ {gp} : rt.g[o].m # m
     ELSE m = 0
  /\ rt' = [rt EXCEPT !.g[gp].atomicstatus = s.atomicstatus,
                      !.g[gp].waitreason = s.waitreason, !.g[gp].m = m]
  /\ Resume
  /\ UNCHANGED <<bin, threads, damaged, view>>

(* A g struct of allgs can no longer be read.                                 *)
GoDamage(gp) ==
  /\ image.runtime = "go" /\ ~damaged
  /\ gp \in DOMAIN rt.g
  /\ rt' = [rt EXCEPT !.g = [o \in DOMAIN rt.g \ {gp} |-> rt.g[o]]]
  /\ damaged' = TRUE
  /\ StartOver
  /\ UNCHANGED <<bin, threads, view>>

-----------------------------------------------------------------------------
(* The Tokio runtime (current-thread scheduler, 1.44).                        *)

(* The memory of a task's future after a poll: its own discriminant and those  *)
(* of the coroutines inside it.                                              *)
Cells(h, c) == [a \in {h + FUTURE_OFFSET + i - 1 : i \in DOMAIN c.cells} |->
                  c.cells[a - h - FUTURE_OFFSET + 1]]

(* A spawned task goes to the front of the list of its shard.                 *)
Shard(h) == 1 + ((h \div 10) % 2)

SpawnTask(h, c) ==
  /\ image.runtime = "tokio" /\ ~damaged
  /\ h \in image.headers \ DOMAIN rt.header
  /\ c.first /\ c.poll \in image.spawns
  /\ rt' = [rt EXCEPT
       !.header = (h :> [poll |-> c.poll + image.load_base - image.min_load_vaddr,
                         next |-> rt.heads[Shard(h)],
                         state |-> c.state, cfg |-> c]) @@ @,
       !.heads[Shard(h)] = h,
       !.cell = Cells(h, c) @@ @]
  /\ StartOver
  /\ UNCHANGED <<bin, threads, damaged, view>>

PollTask(h, c) ==
  /\ image.runtime = "tokio" /\ ~damaged
  /\ h \in DOMAIN rt.header /\ rt.header[h].cfg.poll = c.poll
  /\ rt' = [rt EXCEPT !.header[h].state = c.state, !.header[h].cfg = c,
                      !.cell = Cells(h, c) @@ @]
  /\ Resume
  /\ UNCHANGED <<bin, threads, damaged, view>>

(* A finished task is unlinked and freed, and its memory written over.        *)
FinishTask(h) ==
  /\ image.runtime = "tokio" /\ ~damaged
  /\ h \in DOMAIN rt.header
  /\ LET next == rt.header[h].next
     IN  rt' = [rt EXCEPT
           !.header = [o \in DOMAIN rt.header \ {h} |->
                         [rt.header[o] EXCEPT !.next = IF @ = h THEN next ELSE @]],
           !.heads = [s \in DOMAIN rt.heads |->
                        IF rt.heads[s] = h THEN next ELSE rt.heads[s]],
           !.cell = [a \in DOMAIN Cells(h, rt.header[h].cfg) |-> 0] @@ @]
  /\ StartOver
  /\ UNCHANGED <<bin, threads, damaged, view>>

EnterRuntime(t) ==
  /\ image.runtime = "tokio" /\ ~damaged
  /\ t \in threads
  /\ rt' = [rt EXCEPT !.entered = IF t \in @ THEN @ \ {t} ELSE @ \cup {t}]
  /\ Resume
  /\ UNCHANGED <<bin, threads, damaged, view>>

(* A list that runs in a circle or into memory that is not there, or a         *)
(* nonsensical number of shards.                                             *)
TokioDamage(h, next) ==
  /\ image.runtime = "tokio" /\ ~damaged
  /\ h \in DOMAIN rt.header /\ h \in Range(rt.heads)
  /\ rt' = IF next = None
           THEN [rt EXCEPT !.heads = [s \in 1..(MAX_SHARDS + 1) |-> h]]
           ELSE [rt EXCEPT !.header[h].next = next]
  /\ damaged' = TRUE
  /\ StartOver
  /\ UNCHANGED <<bin, threads, view>>

Next ==
  \/ Inspect \/ for_pid
  \/ \E t \in Thread : NewThread(t) \/ ThreadExit(t) \/ EnterRuntime(t)
  \/ \E p \in GoSlots, gp \in GoSlots : GoStatement(p, gp)
  \/ \E gp \in GoSlots, s \in GoStates, m \in threads \cup {0} : GoSwitch(gp, s, m)
  \/ \E gp \in GoSlots : GoDamage(gp)
  \/ \E h \in Header, c \in Configs : SpawnTask(h, c)
  \/ \E h \in Header, c \in Configs : PollTask(h, c)
  \/ \E h \in Header : FinishTask(h) \/ \E n \in {h, 999, None} : TokioDamage(h, n)

Spec == Init /\ [][Next]_vars

-----------------------------------------------------------------------------
(* What is true of the target, whatever a decoder makes of it.                *)

(* The version string that comes first in the binary is the build's own.      *)
HonestTokens ==
  /\ Go!detect_in_bytes(image) \in {None, image.built_with}
  /\ Tokio!TokioVersion(image) \in {None, image.tokio_built}

KnownTasks == {h \in DOMAIN rt.header : rt.header[h].cfg.known}

(* Where the live tasks are: goroutines, coroutines of spawned tasks and the   *)
(* branches of a join they wait for, threads.                                *)
LiveTasks ==
  CASE decoder.kind = "go" ->
         {gp \in DOMAIN rt.g : rt.g[gp].goid > 0 /\ Alive(rt.g[gp])}
    [] decoder.kind = "tokio" ->
         {h + FUTURE_OFFSET + i : <<h, i>> \in
            UNION {{h} \X ({0} \cup rt.header[h].cfg.pending) : h \in KnownTasks}}
    [] decoder.kind = "native" -> view

(* Branches of a join that are done while others are not: their memory holds   *)
(* their result, which may look like a coroutine.                            *)
DoneBranches ==
  IF decoder.kind = "tokio"
  THEN UNION {{h + FUTURE_OFFSET + i : i \in rt.header[h].cfg.done} : h \in KnownTasks}
  ELSE {}

(* When the tasks can be listed at all.                                       *)
Decodable ==
  CASE decoder.kind = "go" ->
         /\ image.bias = 0 /\ Len(rt.slots) <= MAX_GOROUTINES
         /\ Range(rt.slots) \ {0} \subseteq DOMAIN rt.g
    [] decoder.kind = "tokio" ->
         /\ decoder.with.plan # None
         /\ view \subseteq threads /\ view \cap rt.entered # {}
         /\ ~damaged
         /\ Cardinality(DOMAIN rt.header) <= MAX_LISTED
         /\ KnownTasks # {} /\ \A h \in KnownTasks : rt.header[h].cfg.decodable
         /\ Cardinality(LiveTasks \cup DoneBranches) <= MAX_TASKS
    [] decoder.kind = "native" -> TRUE

-----------------------------------------------------------------------------
(* Properties.                                                               *)

(* The task tree is complete and well formed: try_from_nodes never refuses     *)
(* what a decoder built, flatten_preorder shows every node once, every live    *)
(* goroutine, coroutine or thread has exactly one node, a node that is no live *)
(* task is a finished branch of a join, and a goroutine hangs under its        *)
(* creator exactly while the creator lives (TaskTree::try_from_nodes, the      *)
(* decode_tasks of the three decoders).                                       *)
TreeComplete ==
  ans # None =>
    /\ ans.tasks.err # "InvalidTaskTree"
    /\ ans.tasks.ok /\ HonestTokens =>
         LET nodes == ans.tasks.value.nodes
             order == flatten_preorder(ans.tasks.value)
             shown == {nodes[id].at : id \in DOMAIN nodes}
         IN  /\ Range(order) = DOMAIN nodes
             /\ Len(order) = Cardinality(DOMAIN nodes)
             /\ Cardinality(shown) = Cardinality(DOMAIN nodes)
             /\ LiveTasks \subseteq shown
             /\ shown \subseteq LiveTasks \cup DoneBranches
             /\ decoder.kind = "go" => \A id \in DOMAIN nodes :
                  LET creator == rt.g[nodes[id].at].parentGoid
                  IN  nodes[id].parent =
                        IF creator \in DOMAIN nodes /\ decoder.with.parent_goid
                        THEN creator ELSE None

(* A decoder answers exactly when the target's memory lets it: a g struct or   *)
(* task header that cannot be read, a list that runs in a circle or is longer  *)
(* than the caps, and a thread that is gone make it decline, never show a      *)
(* part of the tasks as if it were all; and it declines for no other reason    *)
(* (walk_goroutines, walk_shard, collect_raw, expand).                        *)
DeclinesOnlyDamage == ans # None => (ans.tasks.ok <=> Decodable)

(* The wake cause that goes with each reason to be blocked.                   *)
WakesFor == [Channel |-> "Channel", Io |-> "Io", Timer |-> "Timer",
             Lock |-> "Manual", Join |-> "Manual", Unknown |-> "Unknown"]

BlockedTold(node, stack, wake) ==
  /\ wake = Ok(WakesFor[node.state.on])
  /\ stack.ok
  /\ node.state.on # "Unknown" => Last(stack.value).suspend = suspend_kind(node.state.on)
  /\ decoder.kind = "tokio" => \A h \in KnownTasks :
       node.at = h + FUTURE_OFFSET /\ rt.header[h].cfg.depth <= MAX_AWAIT_DEPTH
         => node.state.on = rt.header[h].cfg.parked_on

RunningTold(node, stack) ==
  IF decoder.with.m_procid
  THEN stack = IF rt.g[node.at].m \in view THEN Ok(<<Physical(rt.g[node.at].m)>>)
                                           ELSE Err("UnknownThread")
  ELSE stack.ok /\ Last(stack.value).thread = None

(* What a decoder says of one task hangs together: a blocked task's last       *)
(* frame shows the suspend point of the reason it is blocked on and wake_cause  *)
(* names the event that ends it; a spawned task is said to wait for what its    *)
(* chain of awaits really ends in; a running goroutine's stack is its own       *)
(* thread's, or an error when the view does not have the thread               *)
(* (leaf_type against logical_stack, block_reason against wake_cause).        *)
StackTellsState ==
  ans # None /\ ans.tasks.ok => \A id \in DOMAIN ans.tasks.value.nodes :
    LET node == ans.tasks.value.nodes[id]
    IN  /\ node.state.st = "Blocked" => BlockedTold(node, ans.stacks[id], ans.wakes[id])
        /\ node.state.st = "Running" /\ decoder.kind = "go" =>
             RunningTold(node, ans.stacks[id])
        /\ ans.locals[id].ok <=> decoder.kind # "native" \/ id \in threads

(* A client keeps the ids it was given from one stop to the next.  A goroutine  *)
(* keeps its id as long as it lives, no other is ever found under it and it is  *)
(* an unknown task once it is gone, even after its g struct was taken over; the  *)
(* id of a spawned task is its own as long as no task starts or ends, however   *)
(* far its coroutine and those of the others move on, whatever branches they    *)
(* fork, and whichever threads enter the runtime (roots_from_raw, enumerate,    *)
(* goroutine).                                                               *)
IdsKeepMeaning ==
  ans # None /\ ans.tasks.ok /\ held # {} /\ HonestTokens =>
    LET nodes == ans.tasks.value.nodes
    IN  /\ decoder.kind = "go" => \A n \in held :
             LET lives == Alive(rt.g[n[2]]) /\ rt.g[n[2]].goid = n[1]
             IN  /\ n[1] \in DOMAIN nodes <=> lives
                 /\ lives => nodes[n[1]].at = n[2] /\ ans.locals[n[1]].ok
                 /\ ~lives => ans.stacks[n[1]] = Err("UnknownTask")
        /\ decoder.kind = "tokio" =>
             held = {<<id, nodes[id].at>> : id \in Range(ans.tasks.value.roots)}

=============================================================================
