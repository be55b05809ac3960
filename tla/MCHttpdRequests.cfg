SPECIFICATION Spec
CONSTANTS
  Bytes <- MCBytes
  Entries <- MCEntries
  Suffix <- MCSuffix
  IdLenDefault = 1
  MaxArgLen = 3
  BuffSize = 4
  Text = text
  Sep = "&"
  Assign = "="
  Escape = "%"
  Hex <- MCHex
  NUL = "0"
  Pages <- MCPages
  Queries <- MCQueries
  Required <- MCRequired
INVARIANTS
  RingHoldsRest
  PageIsRendered
  ParametersAsSent
