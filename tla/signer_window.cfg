CONSTANTS
  MaxVersion = 2
  MaxTime = 2
  FileKey = FileKey
  Certs <- MCCerts
  Unreadable = Unreadable
  Requests <- FewRequests
  CertRefs <- MCCertRefs
  ChainRefs <- MCChainRefs
  RootLists <- MCRootLists
  Bodies <- MCBodies
  Notes <- MCNotes
SPECIFICATION Spec
INVARIANT SignedInWindow
CHECK_DEADLOCK FALSE
