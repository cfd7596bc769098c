SPECIFICATION Spec
CONSTANTS
  query = query  rebuild = rebuild
  Tasks = {query, rebuild}
  Queries = {query}
  Adopted = {query}
  MaxCancels = 0
  Mishaps = {"crash"}
  MaxMishaps = 1
PROPERTY WaitReturns
