SPECIFICATION Spec
CONSTANTS
  query = query  rebuild = rebuild
  Tasks = {query, rebuild}
  Queries = {query}
  Adopted = {}
  MaxCancels = 1
  Mishaps = {}
  MaxMishaps = 0
INVARIANT CancelSettles
