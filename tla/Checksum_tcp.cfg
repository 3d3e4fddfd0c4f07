SPECIFICATION ChecksumSpec
CONSTANTS
  WordBase = 6
  Fields <- MCFields
  Payloads <- MCPayloads
  Garbage = {0}
  TailWords = 2
  FieldCount = 2
INVARIANT TcpSegmentVerifies
