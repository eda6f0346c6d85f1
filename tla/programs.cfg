SPECIFICATION Spec
CONSTANTS
  U128 = 16
  Witnesses <- MCWitnesses
  Calls <- MCCalls
  MaxHead = 12
  MaxWindow = 10
  MaxDays = 2
  MaxSlot = 3
  NoOwner = NoOwner
  NoPresentation = NoPresentation
  BadSignature = BadSignature
INVARIANTS
  GuestTypeOK
  CommittedIsOwned
  ReservesCover
  SelfTestPasses
  EveryChallengeSound
  EveryHeaderAgrees
  EveryLayoutHolds
