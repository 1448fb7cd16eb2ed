--------------------------- MODULE MCTraceSystem ---------------------------
(* An instance of TraceSystem for TLC. *)
EXTENDS TraceSystem, TLC

CONSTANTS t1, t2

\* Methods 1 and 2 are instances of one generic method, 3 has no metadata.
ThreeIds == {1, 2, 3}
AllMethods == ThreeIds \X {0}
NoMethods == {}
LastMethod == {<<3, 0>>}

Symmetry == Permutations(Threads)

\* The GUI: CommServer_OnTracerError throws NotImplementedException.
GuiFaults == {"TRACER_ERROR"}

Functions ==
  [m \in AllMethods |->
    IF m[1] < 3
    THEN [token |-> "100663297", type |-> "Pool", name |-> "Take", module |-> "Pool.dll"]
    ELSE [token |-> "100663298", type |-> "Pool", name |-> "Give", module |-> "Pool.dll"]]
=============================================================================
