SPECIFICATION Spec
CONSTANTS
  query = query  rebuild = rebuild
  Tasks = {query, rebuild}
  Queries = {query}
  Adopted = {query}
  MaxCancels = 1
  Mishaps = {"disk", "crash"}
  MaxMishaps = 1
INVARIANTS TypeOK DoneHasResult EndIsRecorded
PROPERTIES SettledForGood EveryWrapperEnds CloseEnds
