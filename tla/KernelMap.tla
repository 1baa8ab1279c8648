----------------------------- MODULE KernelMap -----------------------------
(***************************************************************************)
(* BPF_MAP_TYPE_HASH maps as the eBPF programs use them.  A map is a       *)
(* function on its possible keys; None marks the keys it does not hold.    *)
(* The maps are preallocated: an update replaces the value of a key that   *)
(* is there and fails when the key is new and the map full.  No program    *)
(* looks at the result.                                                    *)
(***************************************************************************)
EXTENDS Integers, FiniteSets

CONSTANT None     \* an empty slot

Used(map) == {x \in DOMAIN map : map[x] # None}

Fits(map, key, max) == map[key] # None \/ Cardinality(Used(map)) < max

\* Mutant: a map that makes room instead, as BPF_MAP_TYPE_LRU_HASH would.
UpdateElemEvicts(map, key, val, max) ==
    [x \in DOMAIN map |->
        IF x = key THEN val ELSE IF Fits(map, key, max) THEN map[x] ELSE None]

\* bpf_map_update_elem(..., BPF_ANY)
UpdateElem(map, key, val, max) ==
    IF Fits(map, key, max) THEN [map EXCEPT ![key] = val] ELSE map

\* bpf_map_delete_elem
DeleteElem(map, key) == [map EXCEPT ![key] = None]

============================================================================
