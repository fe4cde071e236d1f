SPECIFICATION AutosaveSpec
CONSTANTS
  t1 = t1
  t2 = t2
  blank = blank
  d1 = d1
  Tabs <- TwoTabs
  Drafts <- TwoDrafts
  Blank = blank
  MaxNow = 2
  MaxFailures = 1
INVARIANTS
  DraftsIdentified SavedMeansStored
PROPERTIES
  EditsAreSaved NoTabStaysBehind
CHECK_DEADLOCK FALSE
