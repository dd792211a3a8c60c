CONSTANTS
  Worker = {r1, r2}
  Exposures = {short, long}
  Default = long
  Overrides <- SomeOverrides
  Changes <- OneOrBoth
  MaxChanges = 3
SPECIFICATION ControlsFairSpec
INVARIANTS NeverBoth Delivered
PROPERTIES Available
CHECK_DEADLOCK FALSE
