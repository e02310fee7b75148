CONSTANTS
  Sessions <- TypingDuringRequest
  Output = {64}
SPECIFICATION FairSpec
PROPERTIES EveryKeyRead
