SPECIFICATION FairSpec
CONSTANTS
  Readers = {p1, p2}
  NULL = NULL
  Letters = {"x"}
  INPUT_BUF_SIZE = 2
  W = 2
  MaxCount = 2
PROPERTIES ImplementsLineQueue LineDelivered
