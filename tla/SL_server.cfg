SPECIFICATION FairSpec
CHECK_DEADLOCK FALSE
CONSTANTS
  a = a b = b
  Conn = {a, b}
  Kinds <- AnyPeer
  Line = {"new", "odd"}
  File = {"list", "other", "batch", "more"}
  Content <- AnyContent
  NameOf <- AnyName
  ValueOf <- AnyValue
  Malformed = {"odd"}
  Prime = {"p"}
  Stored = {}
  Configs <- AnyConfig
  None = None
INVARIANTS
  TypeOK
  ClientsBounded
  AtMostOneStraggler
  VerifiedIsHandled
PROPERTY
  ShutdownEnds
