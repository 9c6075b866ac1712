------------------------------- MODULE RWLock -------------------------------
(***************************************************************************)
(* What the repository lock promises (bk lock: "-r Add a read lock         *)
(* (non-exclusive)", "-w Add a write lock (exclusive)"): any number of     *)
(* readers or one writer, and a writer may become a reader without a gap.  *)
(***************************************************************************)
CONSTANT Proc

VARIABLE mode   \* what each process holds

Init == mode = [p \in Proc |-> "none"]

NoWriter == \A q \in Proc : mode[q] # "write"
Alone(p) == \A q \in Proc \ {p} : mode[q] = "none"

Set(p, m) == mode' = [mode EXCEPT ![p] = m]

Read(p) == mode[p] = "none" /\ NoWriter /\ Set(p, "read")

Write(p) == mode[p] = "none" /\ Alone(p) /\ Set(p, "write")

Downgrade(p) == mode[p] = "write" /\ Set(p, "read")

(* By unlocking, by exiting, or by dying.                                  *)
Release(p) == mode[p] # "none" /\ Set(p, "none")

Next == \E p \in Proc : Read(p) \/ Write(p) \/ Downgrade(p) \/ Release(p)

Spec == Init /\ [][Next]_mode
=============================================================================
