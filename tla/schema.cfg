SPECIFICATION Spec
CONSTANTS
  Schemas <- NullableVarlenFirst
  Sizes = {0, 3, 15}
  HeaderSizes = {0}
  AnyNulls = FALSE
  OffMod = 64
  MaxAlignOf = 8
  ByteBits = 8
  OffsetSize = 2
INVARIANT RoundTrip
INVARIANT FieldsApart
INVARIANT FailsIffTooLong
