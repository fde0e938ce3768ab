CONSTANTS
  Path <- MCPath
  Event <- MCEvent
  Nodes <- MCNodes
  Inferred <- MCInferred
  Date <- MCDate
  NamePrefix <- MCPrefix
  Label <- MCLabel
  Limit = 2
  NotFound = NotFound
  None = None
SPECIFICATION Spec
INVARIANTS TypeOK ReplyBracketed RangeSpansNext BackendsAgree
