---------------------------- MODULE RetainedStore ----------------------------
(***************************************************************************)
(* What the generation store promises to those who read from it, whatever  *)
(* locks, renames and pointer files implement it: the selection only ever  *)
(* moves to a complete object, remembers the one it came from, and what is *)
(* selected, remembered or pinned is not taken away.                       *)
(***************************************************************************)
CONSTANTS Objects, Pins, None

VARIABLES available,  \* complete objects
          selection,  \* the active and the previous object, or None
          pins        \* Pins -> the object each pin holds, or None

storeVars == <<available, selection, pins>>

Selection == [active : Objects, previous : Objects \cup {None}]

Selected == IF selection = None THEN {} ELSE {selection.active, selection.previous} \ {None}

Pinned == {pins[p] : p \in Pins} \ {None}

StoreInit ==
    /\ available = {}
    /\ selection = None
    /\ pins = [p \in Pins |-> None]

Add(x) ==
    /\ available' = available \cup {x}
    /\ UNCHANGED <<selection, pins>>

\* The object that was active becomes the previous one.
Select(x) ==
    /\ x \in available
    /\ selection' =
        IF selection = None THEN [active |-> x, previous |-> None]
        ELSE IF selection.active = x THEN selection
        ELSE [active |-> x, previous |-> selection.active]
    /\ UNCHANGED <<available, pins>>

Drop(x) ==
    /\ x \in available \ (Selected \cup Pinned)
    /\ available' = available \ {x}
    /\ UNCHANGED <<selection, pins>>

Pin(p, x) ==
    /\ pins[p] = None /\ x \in available
    /\ pins' = [pins EXCEPT ![p] = x]
    /\ UNCHANGED <<available, selection>>

Unpin(p) ==
    /\ pins' = [pins EXCEPT ![p] = None]
    /\ UNCHANGED <<available, selection>>

StoreNext ==
    \/ \E x \in Objects : Add(x) \/ Select(x) \/ Drop(x)
    \/ \E p \in Pins : Unpin(p) \/ \E x \in Objects : Pin(p, x)

RetentionSpec == StoreInit /\ [][StoreNext]_storeVars

=============================================================================
