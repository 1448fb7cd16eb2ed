---------------------------- MODULE EventStream ----------------------------
(***************************************************************************)
(* What a trace session promises the subscriber of a HostCommServer: it    *)
(* sees the messages the profiler engine wrote, in the order they were     *)
(* written and without a gap.  When the session ends, an unread tail may   *)
(* be lost; as long as the session is up, every message is seen.           *)
(***************************************************************************)
EXTENDS Naturals, Sequences

CONSTANT Messages

VARIABLES
  written,  \* messages the engine has written, oldest first
  seen,     \* messages the subscriber has been called with, oldest first
  up        \* both ends of the session are still open

vars == <<written, seen, up>>

Init ==
  /\ written = <<>>
  /\ seen = <<>>
  /\ up = TRUE

Write(m) ==
  /\ up
  /\ written' = Append(written, m)
  /\ UNCHANGED <<seen, up>>

See ==
  /\ Len(seen) < Len(written)
  /\ seen' = Append(seen, written[Len(seen) + 1])
  /\ UNCHANGED <<written, up>>

GoDown ==
  /\ up
  /\ up' = FALSE
  /\ UNCHANGED <<written, seen>>

Next == (\E m \in Messages : Write(m)) \/ See \/ GoDown

Safety == Init /\ [][Next]_vars

Spec == Safety /\ WF_vars(up /\ See)
=============================================================================
