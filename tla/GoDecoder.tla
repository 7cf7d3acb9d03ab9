------------------------------ MODULE GoDecoder ------------------------------
(***************************************************************************)
(* The goroutine decoder (crates/decoder/src/go): how the layout of the Go   *)
(* runtime is resolved from a binary, how runtime.allgs is walked, and what   *)
(* the four operations of SemanticDecoder answer.  The decoder keeps nothing  *)
(* between calls, so each operation is a function of the target's memory.     *)
(*                                                                         *)
(* Memory is [slots, g, procid, bias]: the pointers in allgs (0 is null), the *)
(* g structs that can be read by address, the thread id behind each M, and    *)
(* how far the executable was loaded from where it was linked.               *)
(* Reading outside a domain is a failed read.                                *)
(***************************************************************************)
EXTENDS TaskTree

CONSTANT MAX_GOROUTINES

-----------------------------------------------------------------------------
(* go/status.rs                                                              *)

G_SCAN == 4096

(* The status without the GC scan bit: 0 idle, 1 runnable, 2 running,        *)
(* 3 syscall, 4 waiting, 6 dead, 8 copystack, 9 preempted.                    *)
from_raw(raw) == raw % G_SCAN

is_dead(status) == status \in {5, 6, 7}

block_reason(wait_reason) ==
  CASE wait_reason \in {3, 4, 9, 10, 14, 15, 41, 42, 43} -> "Channel"
    [] wait_reason = 2 -> "Io"
    [] wait_reason \in {18} \cup 20..23 -> "Lock"
    [] wait_reason = 24 -> "Join"
    [] wait_reason = 19 -> "Timer"
    [] OTHER -> "Unknown"

wait_wake_cause(wait_reason) ==
  CASE wait_reason \in {3, 4, 9, 10, 14, 15, 41, 42, 43} -> "Channel"
    [] wait_reason = 2 -> "Io"
    [] wait_reason = 19 -> "Timer"
    [] wait_reason \in {18} \cup 20..24 -> "Manual"
    [] OTHER -> "Unknown"

to_task_state(status, wait_reason) ==
  CASE status \in {2, 3} -> State("Running")
    [] status \in {0, 1, 8, 9} -> State("Runnable")
    [] status = 4 -> Blocked(block_reason(wait_reason))
    [] OTHER -> State("Completed")

-----------------------------------------------------------------------------
(* go/version.rs, go/offsets.rs, go/dwarf.rs, go/mod.rs: the layout.         *)

(* The first "go1." token of the image that lies in UTF-8 text and goes on    *)
(* with a number (None: one that does not); whether it is                     *)
(* runtime.buildVersion is not looked at.                                     *)
detect_in_bytes(image) == First(SelectSeq(image.tokens, LAMBDA minor : minor # None))

(* The offsets kept in the source are those of go1.24 and no other.          *)
vendored(minor) ==
  IF minor = 24 THEN [of |-> 24, parent_goid |-> TRUE, m_procid |-> TRUE, load_bias |-> 0]
                ELSE None

is_go_object(image) == image.buildinfo \/ image.sym_allgs

(* What DWARF gives when it has runtime.g, gobuf and stack whole; parentGoid   *)
(* and m.procid may be missing on their own.                                  *)
assemble_offsets(image) ==
  [of |-> image.built_with, parent_goid |-> image.dwarf.parent_goid,
   m_procid |-> image.dwarf.m_procid, load_bias |-> 0]

load_layout(image) ==
  IF ~image.parses THEN Err("Object")
  ELSE IF ~is_go_object(image) THEN Err("NotGoBinary")
  ELSE IF image.dwarf.broken THEN Err("Dwarf")
  ELSE IF ~image.sym_allgs /\ ~image.dwarf.var_allgs THEN Err("AllgsNotFound")
  ELSE IF image.dwarf.structs THEN Ok(assemble_offsets(image))
  ELSE OkOr(vendored(detect_in_bytes(image)), "LayoutUnresolved")

-----------------------------------------------------------------------------
(* go/gwalk.rs                                                               *)

(* A running goroutine, or one in a system call, is on the thread of its M.   *)
resolve_thread(mem, layout, status, m) ==
  IF status \notin {2, 3} \/ m = 0 \/ ~layout.m_procid THEN Ok(None)
  ELSE IF m \in DOMAIN mem.procid THEN Ok(mem.procid[m])
  ELSE Err("MemoryReadFailed")

(* What is read of a g struct whose status is known.                          *)
goroutine_info(layout, gp, g, status, thread) ==
  [goid |-> g.goid, status |-> status, at |-> gp, wait_reason |-> g.waitreason,
   state |-> to_task_state(status, g.waitreason),
   parent_goid |-> IF layout.parent_goid THEN g.parentGoid ELSE None,
   thread |-> thread]

read_goroutine(mem, layout, gp) ==
  IF gp \notin DOMAIN mem.g THEN Err("MemoryReadFailed")
  ELSE AndThen(resolve_thread(mem, layout, from_raw(mem.g[gp].atomicstatus), mem.g[gp].m),
         LAMBDA thread :
           Ok(goroutine_info(layout, gp, mem.g[gp], from_raw(mem.g[gp].atomicstatus), thread)))

(* allgs is read where the layout says it was linked; nothing is mapped there   *)
(* in a position-independent executable.                                      *)
read_allgs_header(mem, layout) ==
  IF mem.bias # layout.load_bias THEN Err("MemoryReadFailed")
  ELSE IF Len(mem.slots) > MAX_GOROUTINES THEN Err("NotApplicable")
  ELSE Ok(mem.slots)

(* Every goroutine of allgs that is not dead, null slots skipped; one g that  *)
(* cannot be read fails the walk.                                            *)
Mutant_SkipsUnreadable(reads) ==
  LET found == SelectSeq(reads, LAMBDA r : r.ok /\ ~is_dead(r.value.status))
  IN  Ok([i \in DOMAIN found |-> found[i].value])

live_goroutines(reads) ==
  IF \E i \in DOMAIN reads : ~reads[i].ok THEN Err("MemoryReadFailed")
  ELSE Ok(SelectSeq([i \in DOMAIN reads |-> reads[i].value],
                    LAMBDA g : ~is_dead(g.status)))

nonnull(slots) == SelectSeq(slots, LAMBDA gp : gp # 0)

read_all(mem, layout, ptrs) ==
  [i \in DOMAIN ptrs |-> read_goroutine(mem, layout, ptrs[i])]

walk_goroutines(mem, layout) ==
  AndThen(read_allgs_header(mem, layout),
    LAMBDA slots : live_goroutines(read_all(mem, layout, nonnull(slots))))

-----------------------------------------------------------------------------
(* go/decoder.rs                                                             *)

(* The first goroutine of the walk with that goid.                           *)
goroutine(mem, layout, task) ==
  AndThen(walk_goroutines(mem, layout),
    LAMBDA gs : OkOr(First(SelectSeq(gs, LAMBDA g : g.goid = task)), "UnknownTask"))

(* The creator is the parent only while it is live itself.                   *)
Mutant_AnyCreator(g, live) ==
  [id |-> g.goid, at |-> g.at, state |-> g.state,
   parent |-> IF g.parent_goid # None /\ g.parent_goid \notin {0, g.goid}
              THEN g.parent_goid ELSE None]

node_for(g, live) ==
  [id |-> g.goid, at |-> g.at, state |-> g.state,
   parent |-> IF g.parent_goid # None /\ g.parent_goid \in live \ {g.goid}
              THEN g.parent_goid ELSE None]

(* Goroutines with a positive goid, the first of each.                       *)
nodes_of(gs) ==
  LET first(i) == gs[i].goid > 0 /\ \A j \in 1..(i - 1) : gs[j].goid # gs[i].goid
      kept == SelectSeq([i \in DOMAIN gs |-> i], first)
      live == {gs[i].goid : i \in DOMAIN gs} \ {0}
  IN  [k \in DOMAIN kept |-> node_for(gs[kept[k]], live)]

decode_tasks(mem, layout) ==
  AndThen(walk_goroutines(mem, layout), LAMBDA gs : try_from_nodes(nodes_of(gs)))

(* A thread the view cannot unwind is an error of its own.                   *)
running_stack(unwindable, thread) ==
  IF thread \in unwindable THEN Ok(<<Physical(thread)>>)
                           ELSE Err("UnknownThread")

parked_start_frame(g) ==
  Synthesized(g.goid, IF g.state.st = "Blocked" THEN suspend_kind(g.state.on)
                                                ELSE None)

logical_stack(mem, layout, unwindable, task) ==
  AndThen(goroutine(mem, layout, task),
    LAMBDA g : IF g.thread # None THEN running_stack(unwindable, g.thread)
                                  ELSE Ok(<<parked_start_frame(g)>>))

wake_cause(mem, layout, task) ==
  AndThen(goroutine(mem, layout, task),
    LAMBDA g : Ok(IF g.state.st = "Blocked" THEN wait_wake_cause(g.wait_reason)
                                            ELSE "Unknown"))

(* An existence check: no local is read.                                     *)
locals_at(mem, layout, task) ==
  AndThen(goroutine(mem, layout, task), LAMBDA g : Ok(<<>>))

=============================================================================
