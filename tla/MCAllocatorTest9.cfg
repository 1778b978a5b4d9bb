CONSTANTS
  W <- MCW
  HeaderSize <- MCHeaderSize
  NullOffset <- MCNullOffset
  SegSize <- MCSegSize
  Requests <- Test9Requests
  Script <- Test9Script
SPECIFICATION ScriptSpec
INVARIANT NoOverlap
INVARIANT Coalesced
INVARIANT CountersAgree
INVARIANT FreeListOrdered
INVARIANT TypeOK
