SPECIFICATION Spec
CONSTANTS
  Signature <- MCSignature
  Programs <- MCPrograms
INVARIANTS
  ThreadsAsDecorated
  AdvertisedIsServed
  RootIsKept
  ErrorIsKept
  CallsOnTheirWay
PROPERTIES
  RegisteredIsAdvertised
  OpenedIsKept
  CommandArity
  EveryCallAnswered
  FailuresAreNoticed
CHECK_DEADLOCK FALSE
