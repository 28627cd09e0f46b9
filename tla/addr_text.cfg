CONSTANTS
  Workchains <- MCWorkchains
  Hashes <- MCHashes
  TypoPositions = {1, 3, 48}
  TypoChars <- MCTypoChars
  MaxTypos = 1
  DebugAssertions = FALSE
SPECIFICATION Spec
INVARIANT TypeOK
INVARIANT ParseRecoversAddress
INVARIANT TypoNeverYieldsOtherAddress
INVARIANT ChecksumIsXmodem
