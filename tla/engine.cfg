\* Two modules, settings files of at most two names.
SPECIFICATION Spec
CONSTANTS
  app = app
  lib = lib
  Modules = {app, lib}
  MaxModules = 2
  MaxRefs = 3
INVARIANTS TypeOK TracedAsListed NeverTracesUnconfigured HeldMeansAlive QuietAfterShutdown OverReleasedOnlyAtEnd
CHECK_DEADLOCK FALSE
