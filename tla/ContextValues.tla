---------------------------- MODULE ContextValues ----------------------------
(***************************************************************************)
(* What the contexts of the C interface are to a C program: variables that *)
(* hold objects by value, and buffers that hold copies of objects          *)
(* (include/lustro.h, src/ffi/prng.rs, src/ffi/xof.rs).  A call changes    *)
(* the one object it is about; a constructor gives the variable it is      *)
(* given a new object or nothing; a failure changes no other object.       *)
(* Contexts implements it with pointers, a heap and bytes.                 *)
(***************************************************************************)
EXTENDS ContextObjects

CONSTANTS
  Var, KindOf(_),   \* variables of the program, and what their pointers point to
  Store,            \* its buffers for snapshots
  Seeds, Ids, IdLists, Firsts, Counts, Messages, MessageLists,   \* arguments
  ReadLens, WordSizes, StepCounts,
  Freed             \* what a freed variable holds

VARIABLES
  held,     \* held[v]: the object in v, None, or Freed
  kept,     \* kept[k]: the object a snapshot in k stands for, or None
  status    \* what the last call returned

vars == <<held, kept, status>>

Holds(v) == held[v] \notin {None, Freed}

Paths == IdLists \cup {<<>>}

(* Objects from seeds and messages, at a root or at the end of a path, and *)
(* from another object.                                                    *)
PrngRoots(kind) ==
  IF kind = "Prng"
    THEN {Single(kind, Walked("prng", seed, path)) : seed \in Seeds, path \in Paths \cup {<<id>> : id \in Ids}}
    ELSE {Made(kind, [i \in DOMAIN ids |-> Walked("prng", seed, <<ids[i]>> \o path)]) :
            seed \in Seeds, path \in Paths,
            ids \in IdLists \cup {RangeIds(first, n) : first \in Firsts, n \in Counts}}

XofRoots(kind) ==
  IF kind = "Xof"
    THEN {Single(kind, Walked("xof", Absorbed(m), path)) : m \in Messages, path \in Paths}
    ELSE {Made(kind, [i \in DOMAIN ms |-> Walked("xof", Absorbed(ms[i]), path)]) :
            ms \in MessageLists, path \in Paths}

FromRoot(kind) == IF Dom(kind) = "prng" THEN PrngRoots(kind) ELSE XofRoots(kind)

FromObject(o) ==
  IF o.kind \in BatchKinds
    THEN {o} \cup {Alone(o, i) : i \in 0 .. Len(o.lanes) - 1}
          \cup {ChildPerLane(o, ids) : ids \in {l \in IdLists : Len(l) = Len(o.lanes)}}
          \cup {ChildPerLane(o, RangeIds(first, Len(o.lanes))) : first \in Firsts}
          \cup {Children(o, ids) : ids \in IdLists}
    ELSE {o} \cup {Child(o, id) : id \in Ids}

(* A constructor looks at the objects as they are before, the one its own  *)
(* variable holds included.                                                *)
Construct(v) ==
  /\ held' = [held EXCEPT ![v] = held'[v]]
  /\ \/ status' \in Failures /\ held'[v] = None
     \/ /\ status' = "Ok"
        /\ \/ \E w \in Var : Holds(w) /\ held'[v] \in FromObject(held[w])
           \/ \E k \in Store : kept[k] # None /\ held'[v] = kept[k]
           \/ held'[v] \in FromRoot(KindOf(v))
        /\ held'[v].kind = KindOf(v)
  /\ UNCHANGED kept

Advance(v) ==
  /\ Holds(v)
  /\ IF held[v].kind \in BatchKinds
       THEN \E steps \in StepCounts : held' = [held EXCEPT ![v] = Forward(@, steps)]
       ELSE \/ \E n \in ReadLens \cup WordSizes : held' = [held EXCEPT ![v] = Drawn(@, n)]
            \/ held' = [held EXCEPT ![v] = NextBlock(@)]
  /\ status' = "Ok"
  /\ UNCHANGED kept

Free(v) ==
  /\ held[v] # Freed
  /\ held' = [held EXCEPT ![v] = IF @ = None THEN None ELSE Freed]
  /\ UNCHANGED <<kept, status>>

Export(v, k) ==
  /\ Holds(v)
  /\ kept' = [kept EXCEPT ![k] = held[v]]
  /\ status' = "Ok"
  /\ UNCHANGED held

Refuse == status' \in Failures /\ UNCHANGED <<held, kept>>

Next ==
  \/ Refuse
  \/ \E v \in Var : Construct(v) \/ Advance(v) \/ Free(v)
  \/ \E v \in Var, k \in Store : Export(v, k)

Init == held = [v \in Var |-> None] /\ kept = [k \in Store |-> None] /\ status = "Ok"

Spec == Init /\ [][Next]_vars

=============================================================================
