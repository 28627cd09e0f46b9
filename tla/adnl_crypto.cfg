CONSTANTS
  a = a
  b = b
  Parties <- MCParties
  L = 5
  W = 8
  Secrets = {5, 15}
  Messages <- MCMessages
  ForeignKeys <- MCForeignKeys
SYMMETRY MCSymmetry
SPECIFICATION Spec
INVARIANT TypeOK
INVARIANT SignaturesVerify
INVARIANT VerifyMatchesRfc8032
INVARIANT SharedSecretsAgree
