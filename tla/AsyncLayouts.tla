----------------------------- MODULE AsyncLayouts -----------------------------
(***************************************************************************)
(* How the async Rust decoder learns the shape of the coroutines of a binary  *)
(* (crates/decoder/src/async_rust/dwarf.rs, layout.rs, rustc_version.rs) and  *)
(* whether it may list the live tasks (async_rust/enumerate).                *)
(*                                                                         *)
(* image.dies is the type part of the DWARF: by type, whether it is a        *)
(* coroutine, the members [name, offset, type] of a plain struct or of the    *)
(* payloads of an enum, whether the variant part names its discriminant, and  *)
(* the variants [value, kind, members] of a coroutine.  kind is None for a    *)
(* state struct whose name is not one rustc is known to give.  Types outside  *)
(* its domain are no structs or enums: pointers, numbers.                    *)
(***************************************************************************)
EXTENDS TaskTree

CONSTANT MAX_CHILD_DEPTH

-----------------------------------------------------------------------------
(* The coroutines found inline under a type, through structs and enums; a     *)
(* coroutine ends the search, and the one being awaited is left out.         *)
RECURSIVE collect_children(_, _, _, _, _)
collect_children(dies, type, base, skip_offset, depth) ==
  IF depth > MAX_CHILD_DEPTH \/ type \notin DOMAIN dies THEN <<>>
  ELSE IF dies[type].coroutine
       THEN IF base = skip_offset THEN <<>>
            ELSE <<[offset |-> base, type |-> type]>>
       ELSE FlattenSeq([i \in DOMAIN dies[type].members |->
              collect_children(dies, dies[type].members[i].type,
                               base + dies[type].members[i].offset,
                               skip_offset, depth + 1)])

(* The branches of a suspend point: the coroutines of all its members, but the  *)
(* one at the offset of the awaitee.                                         *)
children_of(dies, members, awaitee) ==
  FlattenSeq([i \in DOMAIN members |->
    collect_children(dies, members[i].type, members[i].offset,
                     IF awaitee = None THEN None ELSE awaitee.offset, 0)])

(* The future awaited, when its type has a name.                              *)
awaitee_of(dies, members) ==
  LET awaited == First(SelectSeq(members, LAMBDA m : m.name = "__awaitee"))
  IN  IF awaited = None THEN None
      ELSE IF awaited.type \in DOMAIN dies THEN awaited ELSE None

(* One variant: only a suspend point has something it awaits and branches.    *)
read_variant(dies, variant) ==
  IF variant.kind # "Suspend"
  THEN [kind |-> variant.kind, awaitee |-> None, children |-> <<>>]
  ELSE [kind |-> "Suspend", awaitee |-> awaitee_of(dies, variant.members),
        children |-> children_of(dies, variant.members, awaitee_of(dies, variant.members))]

(* The variants by discriminant; states of an unknown kind have none.         *)
build_layout(dies, type) ==
  LET known == SelectSeq(dies[type].variants, LAMBDA v : v.kind # None)
      values == {known[i].value : i \in DOMAIN known}
      of(value) == known[CHOOSE i \in DOMAIN known : known[i].value = value]
  IN  [value \in values |-> read_variant(dies, of(value))]

(* A coroutine whose variant part names no discriminant gets no layout.       *)
collect_unit(dies) ==
  [type \in {t \in DOMAIN dies : dies[t].coroutine /\ dies[t].discr} |->
     build_layout(dies, type)]

is_supported(minor) == minor \in 63..94

(* The version of the first unit that names a rustc decides for the binary.   *)
producer_version(image) == First(SelectSeq(image.producers, LAMBDA p : p # None))

extract(image) ==
  IF ~image.parses THEN Err("Object")
  ELSE IF ~image.tokio_symbol THEN Err("NotTokioBinary")
  ELSE IF ~image.debug_info THEN Err("NoDebugInfo")
  ELSE AndThen(OkOr(producer_version(image), "UnsupportedLayout"),
         LAMBDA version :
           IF ~is_supported(version) THEN Err("UnsupportedLayout")
           ELSE IF collect_unit(image.dies) = <<>> THEN Err("NoCoroutines")
           ELSE Ok(collect_unit(image.dies)))

-----------------------------------------------------------------------------
(* async_rust/enumerate: the plan for walking the runtime's own task list.    *)

(* The first "tokio-1." token of the image with a whole version after it.     *)
TokioVersion(image) == First(SelectSeq(image.tokio_tokens, LAMBDA v : v # None))

(* poll_types and the geometry come from DWARF and the program headers.       *)
BinaryFacts(image) ==
  [context_tls_offset |-> image.context_symbol, tls_align |-> image.tls_align,
   tls_block_size |-> image.tls_block_size, min_load_vaddr |-> image.min_load_vaddr,
   poll_types |-> image.poll_types]

(* The runtime's own structs are known for tokio 1.44 only.                  *)
plan_resolve(image) ==
  AndThen(OkOr(TokioVersion(image), "TokioVersionUnknown"),
    LAMBDA version :
      IF image.context_symbol = None THEN Err("ContextSymbolMissing")
      ELSE IF ~image.debug_info THEN Err("NoDebugInfo")
      ELSE IF version # 44 THEN Err("UnsupportedTokioVersion")
      ELSE Ok(BinaryFacts(image)))

(* A plan that cannot be made is simply absent.                              *)
from_binary(image) ==
  AndThen(extract(image),
    LAMBDA layouts : Ok([layouts |-> layouts, plan |-> plan_resolve(image).value]))

=============================================================================
