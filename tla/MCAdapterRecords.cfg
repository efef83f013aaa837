CONSTANTS
  Writers = {w1, w2, w3}
  Readers = {r1}
  Tags = {"t1", "t2"}
  Payloads <- MCPayloads
  Queries <- MCQueries
  First <- MCFirst
  PageSize = 1
  MaxId = 2

SPECIFICATION Spec
INVARIANT QuietWriteIsExact
INVARIANT QuietListingIsExact
PROPERTY OnlySentFieldsChange
SYMMETRY Symmetry
CHECK_DEADLOCK FALSE
