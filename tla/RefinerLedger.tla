---------------------------- MODULE RefinerLedger ----------------------------
(***************************************************************************)
(* What the Refiner's store promises, without files, processes or crashes: *)
(* a growing set of objects in which an object enters after those it names,*)
(* and one pointer that is unset or names an object.                       *)
(***************************************************************************)
CONSTANTS Object,       \* everything that can be stored
          None,         \* the unset pointer
          Named(_)      \* the objects an object refers to

VARIABLES objects, pointer

LedgerTypeOK == objects \subseteq Object /\ pointer \in Object \cup {None}

LedgerInit == objects = {} /\ pointer = None

Enter(object) ==
    /\ object \in Object \ objects
    /\ Named(object) \subseteq objects
    /\ objects' = objects \cup {object}
    /\ UNCHANGED pointer

PointAt(object) ==
    /\ object \in objects
    /\ pointer' = object
    /\ UNCHANGED objects

\* A move that is cut between its two halves leaves no pointer.
Unset == pointer' = None /\ UNCHANGED objects

LedgerNext == Unset \/ \E object \in Object : Enter(object) \/ PointAt(object)

LedgerSpec == LedgerInit /\ [][LedgerNext]_<<objects, pointer>>
=============================================================================
