----------------------------- MODULE OrderedMap -----------------------------
(***************************************************************************)
(* What BPlusTreeMap promises its callers: a finite map from keys to       *)
(* values.  A call is made, takes effect at one instant between the call   *)
(* and its return, and returns the value the map held for the key at that  *)
(* instant.  An allocation failure or a failed merge check may cut a call  *)
(* short with a panic; whether the call took effect is then left open, but *)
(* it is all of the call or none of it.                                    *)
(*                                                                         *)
(* This is the abstract specification; module BPlusTree implements it.     *)
(***************************************************************************)

CONSTANTS Key,      \* the keys of a run
          Val,      \* the values
          None      \* Option::None, no value

VARIABLES map,      \* what each key is bound to, None when absent
          phase,    \* "idle", "called", "applied", "panicked" or "dropped"
          op,       \* the operation in progress, "none" when there is none
          key,      \* its key argument
          val,      \* its value argument
          ret       \* its result, from the instant it took effect

mapVars == <<map, phase, op, key, val, ret>>

k0 == CHOOSE k \in Key : TRUE
v0 == CHOOSE v \in Val : TRUE
Empty == [k \in Key |-> None]

TypeOK ==
  /\ map \in [Key -> Val \cup {None}]
  /\ phase \in {"idle", "called", "applied", "panicked", "dropped"}
  /\ op \in {"none", "insert", "remove", "get", "get_mut", "clear", "drop"}
  /\ key \in Key /\ val \in Val
  /\ ret \in Val \cup {None}

Init ==
  /\ map = Empty /\ phase = "idle"
  /\ op = "none" /\ key = k0 /\ val = v0 /\ ret = None

(* The call is over: its arguments are gone, its result stays readable.    *)
Leave(ph) == phase' = ph /\ op' = "none" /\ key' = k0 /\ val' = v0

Call(o, k, v) ==
  /\ phase = "idle"
  /\ phase' = "called" /\ op' = o /\ key' = k /\ val' = v /\ ret' = None
  /\ UNCHANGED map

(* The map after the operation.  get_mut binds only a key that is present. *)
Updated ==
  CASE op = "insert"  -> [map EXCEPT ![key] = val]
    [] op = "remove"  -> [map EXCEPT ![key] = None]
    [] op = "get_mut" -> [map EXCEPT ![key] = IF @ = None THEN None ELSE val]
    [] OTHER          -> map

(* The call takes effect, and may return in the same instant.              *)
Apply ==
  /\ phase = "called"
  /\ \/ phase' = "applied" /\ UNCHANGED <<op, key, val>>
     \/ Leave("idle")
  /\ map' = Updated
  /\ ret' = map[key]

Return ==
  /\ phase = "applied"
  /\ Leave(IF op = "drop" THEN "dropped" ELSE "idle")
  /\ UNCHANGED <<map, ret>>

(* clear and drop empty the map at the call.                               *)
Discard(o) ==
  /\ \/ phase = "idle"
     \/ o = "drop" /\ phase = "panicked"
  /\ phase' = "applied" /\ op' = o
  /\ map' = Empty /\ ret' = None
  /\ UNCHANGED <<key, val>>

Panic ==
  /\ phase \in {"called", "applied"}
  /\ Leave("panicked")
  /\ ret' = None
  /\ UNCHANGED map

Next ==
  \/ \E o \in {"insert", "remove", "get", "get_mut"}, k \in Key, v \in Val :
       Call(o, k, v)
  \/ Apply \/ Return \/ Panic
  \/ Discard("clear") \/ Discard("drop")

(* Every call that has been made is answered.                              *)
Fairness == WF_mapVars(Apply \/ Return \/ Panic)

Spec == Init /\ [][Next]_mapVars /\ Fairness
=============================================================================
