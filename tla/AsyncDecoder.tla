----------------------------- MODULE AsyncDecoder -----------------------------
(***************************************************************************)
(* The async Rust decoder (crates/decoder/src/async_rust): the walk from each *)
(* thread's CONTEXT to the tasks its Tokio runtime owns, and what the four    *)
(* operations of SemanticDecoder answer about them.  decoder is what          *)
(* from_binary gave: the coroutine layouts and the enumeration plan.          *)
(*                                                                         *)
(* Memory is [tp, base, context, owned, header, cell]: the thread pointers    *)
(* (None where the architecture gives none), the load address, the handle     *)
(* stored at a CONTEXT address (0 outside a runtime), the shards of a handle,  *)
(* the task headers [poll, next, state] and the discriminants of coroutines.  *)
(* Reading outside a domain is a failed read.                                *)
(***************************************************************************)
EXTENDS AsyncLayouts

CONSTANTS
  MAX_SHARDS,
  MAX_LISTED,        \* walk.rs, MAX_TASKS
  MAX_TASKS,         \* decoder.rs, MAX_TASKS
  MAX_AWAIT_DEPTH,
  FUTURE_OFFSET      \* layout.rs, future_offset of the vendored layout

-----------------------------------------------------------------------------
(* enumerate/tls.rs: where a static thread-local of the executable lies        *)
(* (variant II, x86-64).                                                     *)

align_up(value, align) ==
  IF align <= 1 THEN value ELSE ((value + align - 1) \div align) * align

static_tls_address(tp, facts) ==
  tp - align_up(facts.tls_block_size, facts.tls_align) + facts.context_tls_offset

-----------------------------------------------------------------------------
(* enumerate/walk.rs                                                         *)

(* One shard's list from node on; out counts over all shards of the walk.     *)
RECURSIVE walk_shard(_, _, _)
walk_shard(mem, node, out) ==
  IF node = 0 THEN Ok(out)
  ELSE IF Len(out) >= MAX_LISTED \/ node \notin DOMAIN mem.header
       THEN Err("Implausible")
       ELSE walk_shard(mem, mem.header[node].next, Append(out, node))

collect_from_owned(mem, heads) ==
  IF Len(heads) > MAX_SHARDS THEN Err("Implausible")
  ELSE FoldLeft(LAMBDA walked, head :
                  AndThen(walked, LAMBDA out : walk_shard(mem, head, out)),
                Ok(<<>>), heads)

(* None when the thread is in no runtime.                                    *)
walk_context(mem, context) ==
  IF context \notin DOMAIN mem.context THEN Err("Implausible")
  ELSE IF mem.context[context] = 0 THEN Ok(None)
  ELSE collect_from_owned(mem, mem.owned[mem.context[context]])

-----------------------------------------------------------------------------
(* enumerate/mod.rs                                                          *)

(* All threads of the view; a thread that is gone has no register to read     *)
(* and fails the whole enumeration.                                          *)
walks_of(mem, plan, view) ==
  {walk_context(mem, static_tls_address(mem.tp[t], plan)) :
     t \in {u \in view : mem.tp[u] # None}}

(* The headers found, by address.                                            *)
merge_walks(walks) ==
  IF \E w \in walks : ~w.ok THEN Err("Implausible")
  ELSE IF walks = {} THEN Err("ThreadPointerUnavailable")
  ELSE IF walks = {Ok(None)} THEN Err("NoRuntimeHandle")
  ELSE Ok(Ascending(UNION {Range(w.value) : w \in walks \ {Ok(None)}}))

collect_raw(mem, plan, view) ==
  IF view \subseteq DOMAIN mem.tp THEN merge_walks(walks_of(mem, plan, view))
                                  ELSE Err("Implausible")

(* Numbered from 1 in the order of the headers, those skipped whose poll       *)
(* function or future type is not known.                                      *)
future_type_for(mem, plan, h) ==
  LET static == mem.header[h].poll - (mem.base - plan.min_load_vaddr)
  IN  IF static \in DOMAIN plan.poll_types THEN plan.poll_types[static] ELSE None

Root(mem, plan, h, id) ==
  [id |-> id, base |-> h + FUTURE_OFFSET, type |-> future_type_for(mem, plan, h),
   header |-> h]

roots_from_raw(mem, decoder, raw) ==
  LET kept == SelectSeq(raw, LAMBDA h :
                future_type_for(mem, decoder.plan, h) \in DOMAIN decoder.layouts)
  IN  [i \in DOMAIN kept |-> Root(mem, decoder.plan, kept[i], i)]

(* Every reason to decline reaches the caller as NotApplicable.              *)
effective_roots(mem, decoder, view) ==
  IF decoder.plan = None \/ mem.base = None THEN Err("NotApplicable")
  ELSE LET raw == collect_raw(mem, decoder.plan, view)
       IN  IF ~raw.ok THEN Err("NotApplicable")
           ELSE AndThen(Ok(roots_from_raw(mem, decoder, raw.value)),
                  LAMBDA roots : IF roots = <<>> THEN Err("NotApplicable") ELSE Ok(roots))

-----------------------------------------------------------------------------
(* decode.rs and state.rs: one coroutine.                                     *)

active_variant(mem, layouts, base, type) ==
  IF base \notin DOMAIN mem.cell THEN Err("MemoryReadFailed")
  ELSE IF mem.cell[base] \notin DOMAIN layouts[type] THEN Err("NotApplicable")
  ELSE Ok(layouts[type][mem.cell[base]])

(* The type of the future at the end of the chain of awaits, n at most; None   *)
(* when a coroutine awaits nothing, or the chain is longer than the cap.       *)
RECURSIVE Mutant_OffsetForgotten(_, _, _, _, _)
Mutant_OffsetForgotten(mem, layouts, base, type, n) ==
  IF n = 0 THEN Ok(None)
  ELSE AndThen(active_variant(mem, layouts, base, type),
         LAMBDA variant :
           IF variant.awaitee = None THEN Ok(None)
           ELSE IF variant.awaitee.type \notin DOMAIN layouts THEN Ok(variant.awaitee.type)
           ELSE Mutant_OffsetForgotten(mem, layouts, base, variant.awaitee.type, n - 1))

RECURSIVE leaf_type(_, _, _, _, _)
leaf_type(mem, layouts, base, type, n) ==
  IF n = 0 THEN Ok(None)
  ELSE AndThen(active_variant(mem, layouts, base, type),
         LAMBDA variant :
           IF variant.awaitee = None THEN Ok(None)
           ELSE IF variant.awaitee.type \notin DOMAIN layouts THEN Ok(variant.awaitee.type)
           ELSE leaf_type(mem, layouts, base + variant.awaitee.offset,
                          variant.awaitee.type, n - 1))

(* What awaiting a leaf means: its suspend kind, wake cause and block reason.  *)
classify_leaf(leaf) ==
  CASE leaf = "Sleep" -> [suspend |-> "Timer", wake |-> "Timer", block |-> "Timer"]
    [] leaf = "Recv" -> [suspend |-> "ChannelRecv", wake |-> "Channel", block |-> "Channel"]
    [] leaf = "Mutex" -> [suspend |-> "Lock", wake |-> "Manual", block |-> "Lock"]
    [] leaf = "TcpStream" -> [suspend |-> "Io", wake |-> "Io", block |-> "Io"]
    [] OTHER -> [suspend |-> "Other", wake |-> "Unknown", block |-> "Unknown"]

(* state is the set of flags of the header's word.                           *)
classify_header_state(state) ==
  IF state \cap {"COMPLETE", "CANCELLED"} # {} THEN State("Completed")
  ELSE IF "RUNNING" \in state THEN State("Running")
  ELSE IF "NOTIFIED" \in state THEN State("Runnable")
  ELSE Blocked("Unknown")

state_from_variant(kind) ==
  CASE kind = "Unresumed" -> State("Runnable")
    [] kind \in {"Returned", "Panicked"} -> State("Completed")
    [] kind = "Suspend" -> Blocked("Unknown")

(* A blocked task is refined by its leaf.                                     *)
refine(mem, layouts, base, type, state) ==
  IF state.st # "Blocked" THEN Ok(state)
  ELSE AndThen(leaf_type(mem, layouts, base, type, MAX_AWAIT_DEPTH),
         LAMBDA leaf : Ok(Blocked(classify_leaf(leaf).block)))

(* The header's word when there is a header, else the variant; header is None   *)
(* for a branch of a fan-out.                                                 *)
task_state(mem, layouts, base, type, header) ==
  AndThen(active_variant(mem, layouts, base, type),
    LAMBDA variant :
      refine(mem, layouts, base, type,
             IF header = None THEN state_from_variant(variant.kind)
             ELSE classify_header_state(mem.header[header].state)))

coroutine_wake_cause(mem, layouts, base, type) ==
  AndThen(leaf_type(mem, layouts, base, type, MAX_AWAIT_DEPTH),
    LAMBDA leaf : Ok(classify_leaf(leaf).wake))

(* One frame per coroutine along the chain, outermost first, then the leaf.   *)
leaf_frames(type, leaf) ==
  <<Synthesized(type, classify_leaf(leaf).suspend),
    Synthesized(leaf, classify_leaf(leaf).suspend)>>

RECURSIVE stack_from(_, _, _, _, _, _)
stack_from(mem, layouts, base, type, n, frames) ==
  IF n = 0 THEN Ok(frames)
  ELSE AndThen(active_variant(mem, layouts, base, type),
         LAMBDA variant :
           IF variant.kind # "Suspend" \/ variant.awaitee = None
           THEN Ok(Append(frames, Synthesized(type, None)))
           ELSE IF variant.awaitee.type \notin DOMAIN layouts
           THEN Ok(frames \o leaf_frames(type, variant.awaitee.type))
           ELSE stack_from(mem, layouts, base + variant.awaitee.offset,
                           variant.awaitee.type, n - 1,
                           Append(frames, Synthesized(type, "Other"))))

-----------------------------------------------------------------------------
(* decoder.rs                                                                *)

(* A coroutine and, depth first, its branches; acc is [next_id, out].         *)
RECURSIVE expand(_, _, _, _, _)
expand(mem, layouts, at, ids, acc) ==
  IF Len(acc.out) >= MAX_TASKS \/ at.type \notin DOMAIN layouts THEN Err("NotApplicable")
  ELSE AndThen(task_state(mem, layouts, at.base, at.type, at.header), LAMBDA state :
       AndThen(coroutine_wake_cause(mem, layouts, at.base, at.type), LAMBDA wake :
       AndThen(active_variant(mem, layouts, at.base, at.type), LAMBDA variant :
         FoldLeft(
           LAMBDA expanded, child : AndThen(expanded, LAMBDA e :
             expand(mem, layouts,
                    [base |-> at.base + child.offset, type |-> child.type, header |-> None],
                    [id |-> e.next_id, parent |-> ids.id],
                    [e EXCEPT !.next_id = @ + 1])),
           Ok([acc EXCEPT !.out = Append(@,
                 [id |-> ids.id, parent |-> ids.parent, at |-> at.base,
                  type |-> at.type, state |-> state, wake |-> wake])]),
           variant.children))))

(* Ids: the roots keep theirs, branches are numbered after the last root.      *)
Mutant_OneCounter(mem, decoder, roots) ==
  FoldLeft(
    LAMBDA expanded, root : AndThen(expanded, LAMBDA e :
      expand(mem, decoder.layouts, root, [id |-> e.next_id, parent |-> None],
             [e EXCEPT !.next_id = @ + 1])),
    Ok([next_id |-> 1, out |-> <<>>]), roots)

expand_roots(mem, decoder, roots) ==
  FoldLeft(
    LAMBDA expanded, root : AndThen(expanded, LAMBDA e :
      expand(mem, decoder.layouts, root, [id |-> root.id, parent |-> None], e)),
    Ok([next_id |-> Len(roots) + 1, out |-> <<>>]), roots)

enumerate(mem, decoder, view) ==
  AndThen(effective_roots(mem, decoder, view),
    LAMBDA roots : AndThen(expand_roots(mem, decoder, roots), LAMBDA e : Ok(e.out)))

node_for(nodes, task) ==
  OkOr(First(SelectSeq(nodes, LAMBDA n : n.id = task)), "UnknownTask")

decode_tasks(mem, decoder, view) ==
  AndThen(enumerate(mem, decoder, view), LAMBDA nodes : try_from_nodes(nodes))

(* The operations on one task all list the tasks again first.                 *)
find_task(mem, decoder, view, task) ==
  AndThen(enumerate(mem, decoder, view), LAMBDA nodes : node_for(nodes, task))

logical_stack(mem, decoder, view, task) ==
  AndThen(find_task(mem, decoder, view, task), LAMBDA node :
    stack_from(mem, decoder.layouts, node.at, node.type, MAX_AWAIT_DEPTH, <<>>))

wake_cause(mem, decoder, view, task) ==
  AndThen(find_task(mem, decoder, view, task), LAMBDA node : Ok(node.wake))

locals_at(mem, decoder, view, task) ==
  AndThen(find_task(mem, decoder, view, task), LAMBDA node : Ok(<<>>))

=============================================================================
