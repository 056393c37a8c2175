--------------------------- MODULE WriteOnceStore ---------------------------
(***************************************************************************)
(* What a hand-over between two projects rests on: a record, once a reader *)
(* can take it for whole, is there for good and never changes, so that the *)
(* other party may refer to it by its path and hash.                       *)
(***************************************************************************)
CONSTANTS Name, Absent

VARIABLE stored

Init == stored = [n \in Name |-> Absent]

\* A record appears under a name that had none.
Store(n) == /\ stored[n] = Absent
            /\ stored' = [stored EXCEPT ![n] = stored'[n]]

Next == \E n \in Name : Store(n)

Spec == Init /\ [][Next]_stored
=============================================================================
