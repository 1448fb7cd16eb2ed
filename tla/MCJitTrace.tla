----------------------------- MODULE MCJitTrace -----------------------------
(* Instances of JitTrace for TLC. *)
EXTENDS JitTrace, TLC

CONSTANTS t1, t2

Symmetry == Permutations(Threads)

\* Methods 1 and 2 are of a traced module, 3 is of another one.
SmallIds == {1, 2, 3}
FirstTwo == {1, 2} \X {0}

\* To an int that tells four ids apart 5 is 1, and 6 is no id.  The second
\* method of 1 is not reported.
WideIds == {1, 5, 6}
AllMethods == Methods
SecondUse == {<<1, 1>>}

NoMethods == {}
=============================================================================
