SPECIFICATION LoopsSpec
CONSTANTS
  MaxLen = 6
  Chars <- Classes
  Texts <- MCTexts
  Replacements <- MCReplacements
CHECK_DEADLOCK FALSE
INVARIANTS
  OutIsExpansion
  EscapeRoundTrip
