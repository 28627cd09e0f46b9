CONSTANTS
  Chunks <- MCChunks
  MaxDataBits = 8
  MaxBuilderRefs = 2
  MaxPool = 3
  MaxFaults = 0
  FlipBits = {}
  Forms = {"bytes", "hex", "base64"}
SPECIFICATION Spec
INVARIANT TypeOK
INVARIANT RoundTrip
