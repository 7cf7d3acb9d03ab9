-------------------------- MODULE CheckpointSelect --------------------------
(***************************************************************************)
(* The arithmetic behind fork-snapshot checkpoints                         *)
(* (crates/replay/src/checkpoint_select.rs).                               *)
(***************************************************************************)
EXTENDS Naturals, Sequences

CONSTANTS
    None,       \* Rust's Option::None
    U64Max      \* the largest u64

ASSUME SelectAssumption == U64Max \in Nat /\ None \notin Nat

Seqno == 0..U64Max

SaturatingAdd(a, b) == IF a + b > U64Max THEN U64Max ELSE a + b

Mutant_DueAgain(last, current, interval) == interval # 0 /\ current >= interval

is_checkpoint_due(last, current, interval) ==
    /\ interval # 0
    /\ current >= IF last = None THEN interval ELSE SaturatingAdd(last, interval)

\* The last index whose checkpoint is at or before the target.
nearest_at_or_before(seqs, target) ==
    IF \E i \in DOMAIN seqs : seqs[i] <= target
      THEN CHOOSE i \in DOMAIN seqs :
               seqs[i] <= target /\ \A j \in DOMAIN seqs : j > i => seqs[j] > target
      ELSE None

Mutant_NeverBackward(current, start, target) ==
    IF current = None THEN start > 0 ELSE start > current

should_restart(current, start, target) ==
    IF current = None THEN start > 0 ELSE current > target \/ start > current
=============================================================================
