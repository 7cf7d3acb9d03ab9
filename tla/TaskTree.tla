------------------------------ MODULE TaskTree ------------------------------
(***************************************************************************)
(* The data every semantic decoder answers with (crates/decoder/src/model):  *)
(* a fallible result, the state of a task, a frame of its logical stack, and *)
(* the validated forest of tasks (model/tree.rs).  A task node carries, next  *)
(* to its id, parent and state, the address it was decoded from (`at`);     *)
(* names, kinds and locations are left out.                                  *)
(***************************************************************************)
EXTENDS Naturals, Sequences, SequencesExt

CONSTANT None

-----------------------------------------------------------------------------
(* Result<T, DecoderError>.                                                  *)

Ok(v) == [ok |-> TRUE, value |-> v, err |-> None]

Err(e) == [ok |-> FALSE, value |-> None, err |-> e]

(* The `?` operator: go on with the value, or hand the error to the caller.   *)
AndThen(result, Then(_)) == IF result.ok THEN Then(result.value) ELSE result

(* ok_or: None is the error e.                                               *)
OkOr(option, e) == IF option = None THEN Err(e) ELSE Ok(option)

(* The first element of a sequence, or None.                                 *)
First(seq) == IF seq = <<>> THEN None ELSE Head(seq)

(* TaskState: Blocked carries its BlockReason.                               *)
State(s) == [st |-> s, on |-> None]

Blocked(reason) == [st |-> "Blocked", on |-> reason]

(* A frame: the thread whose physical stack it is copied from, or the        *)
(* function it was synthesized for, with the suspend point it shows.         *)
Physical(t) == [thread |-> t, fn |-> None, suspend |-> None]

Synthesized(f, suspend) == [thread |-> None, fn |-> f, suspend |-> suspend]

(* frame.rs, suspend_kind: how a block reason is shown as a suspend point.   *)
suspend_kind(reason) ==
  CASE reason = "Channel" -> "ChannelRecv"
    [] reason \in {"Lock", "Io", "Join", "Timer"} -> reason
    [] OTHER -> "Other"

-----------------------------------------------------------------------------
(* A set of numbers as an increasing sequence: the order of a BTreeMap's keys, *)
(* or what sort leaves of a list of addresses.                               *)
Ascending(S) ==
  [i \in 1..Cardinality(S) |-> CHOOSE x \in S : Cardinality({y \in S : y < x}) = i - 1]

(* The nodes, kept by id.  A repeated id and a parent nobody has are refused. *)
(* Roots and children are collected while walking the BTreeMap, hence in the  *)
(* order of the ids.                                                         *)
try_from_nodes(nodes) ==
  LET ids == {nodes[i].id : i \in DOMAIN nodes}
      by_id == [id \in ids |-> nodes[CHOOSE i \in DOMAIN nodes : nodes[i].id = id]]
      order == Ascending(ids)
      under(p) == SelectSeq(order, LAMBDA id : by_id[id].parent = p)
  IN  IF \/ Cardinality(ids) # Len(nodes)
         \/ \E id \in ids : by_id[id].parent \notin ids \cup {None}
      THEN Err("InvalidTaskTree")
      ELSE Ok([nodes |-> by_id, roots |-> under(None),
               children |-> [id \in ids |-> under(id)]])

(* Depth first from the roots, each node before its children.                *)
flatten_preorder(tree) ==
  LET push_preorder[id \in DOMAIN tree.nodes] ==
        <<id>> \o FlattenSeq([i \in DOMAIN tree.children[id] |->
                                push_preorder[tree.children[id][i]]])
  IN  FlattenSeq([i \in DOMAIN tree.roots |-> push_preorder[tree.roots[i]]])

=============================================================================
