----------------------------- MODULE MCHostComm -----------------------------
(* Values of HostComm's set-valued constants for TLC.                      *)
EXTENDS HostComm

\* A host whose handlers all return.
NoFaults == {}

\* The GUI: CommServer_OnTracerError throws NotImplementedException.
GuiFaults == {"TRACER_ERROR"}

\* treeView1.Invoke throws once the form's handle is gone.
FormFaults == {"JIT_COMPILATION_FINISHED"}
=============================================================================
