CONSTANTS
  Letter = {"i", "n", "t", "x"}
  Digit = {"1"}
  Numeral = {"half"}
  Blank <- MCBlank
  Newline <- MCNewline
  Quote <- MCQuote
  Cont = "~"
  Keyword = {"in"}
  Table <- MCTable
  Texts <- MCTexts
  Programs <- MCPrograms
  Streams <- MCStreams

SPECIFICATION Spec
INVARIANTS LexesRight ReadsBack LaxCompletes NamesCovered
CHECK_DEADLOCK FALSE
