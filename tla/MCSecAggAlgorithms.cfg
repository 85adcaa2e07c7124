SPECIFICATION AlgorithmsSpec
CONSTANTS
  MaxNodes = 6
  Graph <- Ring4
  MinimumClients = 2
  Threshold = 2
  AsyncRound2 = FALSE
  None = None
  Aborters = {}
  Droppable = {0}
  MayAbort = FALSE
  kBitsPerSubsecret = 3
  ByteBits = 2
  kPrime = 11
  WordBits = 4
  Secrets <- SmallSecrets
  Coefficients = {1, 10}
  NumShares = 3
  MaxDealt = 2
  kSecurityParameter = 10
  kCorrectnessParameter = 10
INVARIANTS EndsAgree SumUnmasked SecretsRebuilt CodecsAgree MasksCancel SharesFit
CHECK_DEADLOCK FALSE
