SPECIFICATION Spec
CONSTANTS
  Schemas <- AllSchemas
  Sizes = {0, 3}
  HeaderSizes = {0}
  AnyNulls = FALSE
  OffMod = 64
  MaxAlignOf = 8
  ByteBits = 8
  OffsetSize = 2
INVARIANT RoundTrip
