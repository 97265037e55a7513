SPECIFICATION CeilingSpec
CONSTANTS
  Parts = {"ceiling"}
  Pair = {p, q}
PROPERTIES
  HiIsLifted
