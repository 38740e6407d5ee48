SPECIFICATION Spec
CONSTANTS
  WordBits = 10
  FieldNumBits = 5
  Messages <- MCMessages
  UnknownFields <- MCUnknownFields
  RawTypes <- MCRawTypes
  RawBytes <- MCRawBytes
  MaxRaw = 4
  Authority <- Gov
  BondDenom <- Lyth
  DecOne = 10
INVARIANTS
  TypeOK
  DecoderNeverPanics
  ReencodingIsStable
  RoundTrip
  UnknownFieldsIgnored
  CutLosesWholeFields
  ConcatenationMerges
  StoreKeepsAcceptedParams
