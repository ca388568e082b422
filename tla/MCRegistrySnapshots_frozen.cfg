SPECIFICATION Spec
CONSTANTS
  uA = uA  uB = uB  uC = uC
  docA = docA  inA = inA  docB = docB  docC = docC
  modern = modern  legacy = legacy  step = step  name = name  v1 = v1
  None = None  Miss = Miss  Source = Source
  URIs <- MCURIs
  Nodes <- MCNodes
  Documents = {docA, docB}
  Syntaxes = {modern, legacy}
  Segments = {step}
  Names = {name}
  Value <- MCValue
  Inside <- MCInside
  BaseId <- MCBaseId
  RootURI <- MCRootURI
  Claims <- MCClaims
  Queries <- MCQueries
  Scoped <- MCScoped
  Views = {v1}
  MaxMisses = 1
  MaxChanges = 2
INVARIANTS TypeOK MemosAreCurrent OneRefWhileAlone
PROPERTY ViewsAreFrozen
