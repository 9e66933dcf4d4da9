\* A REPL set up, used, killed and cleaned up; two blocks that bind, delete, submit, raise or exit.
SPECIFICATION Spec
CONSTANTS
  Names <- FewNames
  Context = "context"
  DataFrame = "df"
  Unkept = {"_x"}
  Values = {"v", "lock"}
  Unpicklable = {"lock"}
  Injected = "text"
  Unset = "unset"
  Contents = {"a"}
  NoContent = "none"
  TurnsBound = 2
INVARIANTS TypeOK
PROPERTY StatePersists
PROPERTY FreshSession
PROPERTY ReportMatchesCode
CHECK_DEADLOCK FALSE
