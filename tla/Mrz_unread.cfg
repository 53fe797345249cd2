SPECIFICATION Spec
CONSTANTS
  Uploads = {u1, u2}
  Tails = {3}
  Spots = {1, 6, 9, 14}
  Mistakes = {8, 20}
INVARIANT EveryZoneIsRead
CHECK_DEADLOCK FALSE
