CONSTANTS
  Chunks <- MCDamageChunks
  MaxDataBits = 2
  MaxBuilderRefs = 1
  MaxPool = 2
  MaxFaults = 1
  FlipBits = {0, 6}
  Forms = {"bytes", "hex", "base64"}
SPECIFICATION Spec
INVARIANT CrcNeverAcceptsForeignCell
