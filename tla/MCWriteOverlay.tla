--------------------------- MODULE MCWriteOverlay ---------------------------
(***************************************************************************)
(* Instances of WriteOverlay for TLC.                                      *)
(***************************************************************************)
EXTENDS WriteOverlay, TLC

CONSTANTS a, b, o, inp, p1, p2, n1, n2, n3

KindScratchInput == (a :> "scratch") @@ (inp :> "input")
KindScratchOutput == (a :> "scratch") @@ (o :> "output")
KindScratchTwo == (a :> "scratch") @@ (b :> "scratch")
KindScratch == (a :> "scratch")

\* Two states that differ only in the bytes of files nobody can reach any more,
\* or in the error code of a call that has returned, have the same future.
LiveView ==
    <<fs, pre, handle, pc, call,
      [x \in Inodes |-> IF x \in Paths \/ Live(x) THEN data[x] ELSE Empty],
      [w \in Procs |-> IF pc[w] = "idle" THEN "none" ELSE res[w]]>>

Symmetry == Permutations(NewInodes)
ProcSymmetry == Permutations(NewInodes) \cup Permutations(Procs)
=============================================================================
