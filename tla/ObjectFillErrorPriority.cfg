CONSTANTS
  KeyTypes <- MCKeyTypes
  ByteValues <- MCByteValues
  TemplateIds <- MCTemplateIds
  BufLens = {0, 1}
  MaxTemplateLen = 2
  Null = Null
  NoData = NoData
  Unavailable = Unavailable
SPECIFICATION Spec
INVARIANTS

  FillErrorPriority

