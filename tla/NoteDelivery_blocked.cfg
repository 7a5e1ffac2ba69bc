SPECIFICATION NoteSpec
CONSTANTS
  Claims = {c1}
  Providers = 1
  MaxNotes = 2
  Carried = 1
  MaxEdits = 0
INVARIANT SuspectedCopyIsBlocked
CHECK_DEADLOCK FALSE
