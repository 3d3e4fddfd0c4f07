SPECIFICATION ChecksumSpec
CONSTANTS
  WordBase = 6
  Fields <- MCFields
  Payloads <- MCPayloads
  Garbage = {0, 3}
  TailWords = 2
  FieldCount = 2
INVARIANTS
  HeaderProtected
  SumsAgree
