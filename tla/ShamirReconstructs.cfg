SPECIFICATION ShamirSpec
CONSTANTS
  kBitsPerSubsecret = 3
  ByteBits = 2
  kPrime = 11
  WordBits = 4
  Secrets <- SmallSecrets
  Coefficients = {1, 10}
  NumShares = 3
  MaxDealt = 2
INVARIANT Reconstructs
CHECK_DEADLOCK FALSE
