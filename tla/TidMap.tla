------------------------------- MODULE TidMap -------------------------------
(***************************************************************************)
(* The table that routes recorded thread ids to live ones                  *)
(* (crates/replay/src/schedule.rs): two hash maps, kept inverse of each    *)
(* other by bind and unbind_recorded.                                      *)
(***************************************************************************)
EXTENDS Naturals, Sequences, Functions

new == [to_live |-> <<>>, to_recorded |-> <<>>]

Without(f, x) == [y \in DOMAIN f \ {x} |-> f[y]]
With(f, x, v) == [y \in DOMAIN f \cup {x} |-> IF y = x THEN v ELSE f[y]]

\* RecordedRebound or LiveRebound.
Conflicts(map, recorded, live) ==
    \/ recorded \in DOMAIN map.to_live /\ map.to_live[recorded] # live
    \/ live \in DOMAIN map.to_recorded /\ map.to_recorded[live] # recorded

\* What bind leaves when it does not return an error.
bind(map, recorded, live) ==
    [to_live |-> With(map.to_live, recorded, live),
     to_recorded |-> With(map.to_recorded, live, recorded)]

bound(map, recorded) == recorded \in DOMAIN map.to_live

live_of(map, recorded) == map.to_live[recorded]

Mutant_UnbindOneWay(map, recorded) ==
    [map EXCEPT !.to_live = Without(map.to_live, recorded)]

unbind_recorded(map, recorded) ==
    IF ~bound(map, recorded) THEN map
    ELSE [to_live |-> Without(map.to_live, recorded),
          to_recorded |-> Without(map.to_recorded, live_of(map, recorded))]

is_empty(map) == DOMAIN map.to_live = {}

\* The two directions are inverse of each other: no recorded thread reaches
\* another's live thread, whatever was bound and unbound before.
Inverse2(map) ==
    /\ \A r \in DOMAIN map.to_live :
          /\ map.to_live[r] \in DOMAIN map.to_recorded
          /\ map.to_recorded[map.to_live[r]] = r
    /\ \A l \in DOMAIN map.to_recorded :
          /\ map.to_recorded[l] \in DOMAIN map.to_live
          /\ map.to_live[map.to_recorded[l]] = l
=============================================================================
