SPECIFICATION Spec
CONSTANTS
  Quote = Quote
  Backslash = Backslash
  Comma = Comma
  Open = Open
  Close = Close
  LBrace = LBrace
  RBrace = RBrace
  Newline = Newline
  EnByte = EnByte
  Letter = {EnByte}
  Null = Null
  Field <- MCField
  Depth <- MCDepth
  Values <- CallValues
INVARIANT RecordKept
