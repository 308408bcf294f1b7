SPECIFICATION Spec
CONSTANTS
  OffMax <- MCOffMax
  RequestFields <- MCRequestFields
  Sizes <- MCSizes
INVARIANTS
  SliceIsWhatWasAsked
  NoOffsetOverflow
