SPECIFICATION Spec
CONSTANTS
  Quote = Quote
  Backslash = Backslash
  Comma = Comma
  Open = Open
  Close = Close
  LBrace = LBrace
  RBrace = RBrace
  Newline = Newline
  EnByte = EnByte
  True = t
  False = f
  Digit = {t}
  Letter = {EnByte, t, f}
  Null = Null
  Field <- MCField
  Value <- MCValue
  Depth <- MCDepth
  Calls <- MCCalls
INVARIANTS TypeOK NeverAhead ReadRight
PROPERTIES InBounds SkipsNoColumn Termination
