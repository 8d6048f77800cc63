CONSTANTS
  MaxVersion = 2
  MaxTime = 2
  FileKey = FileKey
  Certs <- MCCerts
  Unreadable = Unreadable
  Requests <- MCRequests
  CertRefs <- MCCertRefs
  ChainRefs <- MCChainRefs
  RootLists <- MCRootLists
  Bodies <- MCBodies
  Notes <- MCNotes
SPECIFICATION Spec
INVARIANTS TypeOK SignedVerifies AcceptedWasSigned Rooted RootOrderIrrelevant RotationOnlyOutdates
PROPERTIES OptsIgnoreEnv EnvPriority
CHECK_DEADLOCK FALSE
