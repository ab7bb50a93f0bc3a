SPECIFICATION Spec
CONSTANTS
  Quote = Quote
  Backslash = Backslash
  Comma = Comma
  Open = Open
  Close = Close
  LBrace = LBrace
  RBrace = RBrace
  Newline = Newline
  EnByte = EnByte
  Letter = {EnByte, d}
  Null = Null
  Calls <- MCCalls
INVARIANTS TypeOK QuotedReadBack BareReadBack ZeroIsNull LoopsAgree
