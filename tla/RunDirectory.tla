---------------------------- MODULE RunDirectory ----------------------------
(***************************************************************************)
(* What an output directory promises to whoever resumes from it or reads   *)
(* its report: it collects checkpoints one at a time, at most one for an   *)
(* operation, and is then sealed once and for all, either as a failed run  *)
(* that offers exactly the checkpoints it holds, or as a delivered one that*)
(* holds a checkpoint for every operation.  A directory that is neither is *)
(* never reused and never offered.                                         *)
(***************************************************************************)
CONSTANTS Dir, Op, Receipt

VARIABLES
    status,     \* status[d]: open, failed or delivered
    held,       \* held[d]: the checkpoints in d
    offered     \* offered[d]: the checkpoints a resume from d may replay

vars == <<status, held, offered>>

TypeOK ==
    /\ status \in [Dir -> {"open", "failed", "delivered"}]
    /\ held \in [Dir -> SUBSET Receipt]
    /\ offered \in [Dir -> SUBSET Receipt]

Init ==
    /\ status = [d \in Dir |-> "open"]
    /\ held = [d \in Dir |-> {}]
    /\ offered = [d \in Dir |-> {}]

\* A run that owns d stores the answer for an operation d does not hold yet.
Hold(d, c) ==
    /\ status[d] = "open"
    /\ \A a \in held[d] : a.op # c.op
    /\ held' = [held EXCEPT ![d] = @ \cup {c}]
    /\ UNCHANGED <<status, offered>>

SealFailed(d) ==
    /\ status[d] = "open"
    /\ status' = [status EXCEPT ![d] = "failed"]
    /\ offered' = [offered EXCEPT ![d] = held[d]]
    /\ UNCHANGED held

SealDelivered(d) ==
    /\ status[d] = "open"
    /\ {c.op : c \in held[d]} = Op
    /\ status' = [status EXCEPT ![d] = "delivered"]
    /\ UNCHANGED <<held, offered>>

Next ==
    \E d \in Dir :
      \/ \E c \in Receipt : Hold(d, c)
      \/ SealFailed(d)
      \/ SealDelivered(d)

Spec == Init /\ [][Next]_vars
=============================================================================
