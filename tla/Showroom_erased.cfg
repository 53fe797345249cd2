SPECIFICATION Spec
CONSTANTS
  Tasks = {t1}
  Ads = {a1, a2}
  Slots = {s1}
  Shots = {x1, x2}
  NoShot = NoShot
  Handlers = {"uploadPhoto", "deletePhoto", "removeReport", "create", "publish", "unpublish", "markSold", "remove", "adminDelete", "adminHide", "adminUnhide", "mirrorPending", "eraseMe"}
  Alone = {}
  Refuses = FALSE
  DiesAt = {}
INVARIANTS
  NothingLeftPublic
CHECK_DEADLOCK FALSE
