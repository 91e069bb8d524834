SPECIFICATION Spec
CONSTANTS
  SignedChar = TRUE
  Texts <- SomeTexts
  Replies <- SomeReplies
  Symbols <- SomeSymbols
  Transports <- SomeTransports
  Protocol <- Sub
  ProtocolLen = 6
INVARIANTS Inside AsWritten Verdict SkipsAlike
PROPERTIES Closer
