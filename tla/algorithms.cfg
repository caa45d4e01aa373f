SPECIFICATION Spec
CONSTANTS
  LongBits = 8
  IntBits = 16
  Streams <- MCStreams
  Words <- MCWords
  Numbers <- MCNumbers
  Junk <- MCJunk
  Tails <- MCTails
  Lines <- MCLines
  Texts <- MCTexts
  ShortLabel = 3
  AddressBytes <- MCAddressBytes
  LabelSet <- MCLabelSet
  MaxLabels = 3
  MaxAsked = 2
  MaxQuestions = 2
  WordBytes <- MCWordBytes
  Hosts <- MCHosts
  Junk8 <- MCJunk8
INVARIANTS
  FindsFirst
  NumbersReadBack
  DecimalsReadBack
  LinesReadBack
  AddressesReadBack
  NamesOnTheWire
  QuestionsMatch
  AnswersWhatIsAsked
  AddressBelongs
  FoundServicesAreWhole
