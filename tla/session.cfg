\* The GUI: suspended launch, subscribe, resume; a message
\* handler that throws.
SPECIFICATION Spec
CONSTANTS
  MaxSent = 4
  PipeQuota = 0
  PartialWrites = TRUE
  FaultyHandlers <- FormFaults
  SuspendedLaunch = TRUE
INVARIANTS
  TypeOK
  SubscriberSeesPrefix
  NothingLostWhileConnected
  HostEventGrammar
  HandshakeAgreement
  FaultsOnlyBeforeHandshake
  ErrorSurvivesExit
PROPERTIES
  StreamSafety
\* A session ends for good when the process or the host is gone.
CHECK_DEADLOCK FALSE
