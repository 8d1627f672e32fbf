SPECIFICATION Spec
CONSTANTS
  XLEN = 8
  ShamtBits = 3
  ExpBits = 3
  FracBits = 4
  Scale = 1
  FmaInvalid = FALSE
  HasC = FALSE
  AllowMisaligned = FALSE
  Handler = 64
  Decks <- MCDecks
  Starts <- MCStarts
  Stimuli <- MCStimuli
  BusWords = {0, 1, 128, 255}
  MaxSteps <- MCMaxSteps
INVARIANT TypeOK
PROPERTIES
  IntegerLaws OrdersAgree ConversionsExact
  TrapsWithoutEffect FlagsAccrue NaNCanonical DynamicAsStatic
CHECK_DEADLOCK FALSE
