SPECIFICATION Spec
CONSTANTS
  Bytes <- SampleBytes
  BufferSize = 3
  Pad = Pad
  Tokens <- TokenLengths
  Readings = {1, 5}
  Lines <- SampleLines
  NumLogs = 3
  MaxLogLen = 8
  MsgBuf = 128
  Beyond = 1
INVARIANTS
  TypeOK
  InBlocks
  Decodes
  InAllocation
  ArrayFits
