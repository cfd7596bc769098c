SPECIFICATION Spec
CONSTANTS
  Tables = {"t"}
  Searchable <- MCSearchable
  Embedder = TRUE
  Backend = "vss"
  Requests <- MCRequests
  Policies <- MCPolicies
  Plugins <- MCPlugins
INVARIANTS TypeOK ScannersAgree AnswerIsTheTexts NothingForbiddenRuns QueryOrStream NamesKeepTheirMeaning 
PROPERTIES ChainEnds
CHECK_DEADLOCK FALSE
