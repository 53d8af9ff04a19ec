------------------------- MODULE ThrowawayExecroot -------------------------
(***************************************************************************)
(* What the write overlay promises a tool: the execroot it would get from  *)
(* linux-sandbox.  A private directory tree that starts with the files the *)
(* tool may see; it writes, removes and renames files there, its inputs    *)
(* stay as they are, and no other bytes ever appear in it.                 *)
(***************************************************************************)
CONSTANTS Paths, Inputs, Outputs, Writers, Empty, Absent

VARIABLES base,     \* the files the tool could see at the start
          view      \* the files it sees now

vars == <<base, view>>

Visible == {base[p] : p \in Paths}
Bytes == Writers \cup {Empty} \cup (Visible \ {Absent})

\* A file of the lower layer is not the tool's to remove.
Removable(p) ==
    /\ view[p] # Absent
    /\ p \in Outputs \/ (p \notin Inputs /\ base[p] = Absent)

Init ==
    /\ base \in [Paths -> Paths \cup {Absent}]
    /\ \A p \in Paths : base[p] \in {p, Absent}
    /\ view = base

Store(p, bytes) ==
    /\ p \notin Inputs
    /\ view' = [view EXCEPT ![p] = bytes]
    /\ UNCHANGED base

Remove(p) ==
    /\ Removable(p)
    /\ view' = [view EXCEPT ![p] = Absent]
    /\ UNCHANGED base

Rename(s, d) ==
    /\ Removable(s) /\ d \notin Inputs /\ s # d
    /\ view' = [view EXCEPT ![d] = view[s], ![s] = Absent]
    /\ UNCHANGED base

Next ==
    \/ \E p \in Paths, bytes \in Bytes : Store(p, bytes)
    \/ \E p \in Paths : Remove(p)
    \/ \E s, d \in Paths : Rename(s, d)

Spec == Init /\ [][Next]_vars
=============================================================================
