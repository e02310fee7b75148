CONSTANTS
  H = 4
  Immediates <- SomeImmediates
  Inputs <- SomeInputs
  FullWords <- SomeFullWords
  HalfWords <- AllHalfWords
SPECIFICATION HartSpec
INVARIANTS RegistersExtended ResultsAsDefined DecodedAsDefined
           DisassembledAsExecuted
