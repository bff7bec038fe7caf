CONSTANTS
  NameOrder <- MCNameOrder
  DeclaredFolds <- FoldingOk
  Programs <- MCPrograms
  Executed <- MCExecuted
  Library <- MCLibrary
  Threads = {"t1", "t2"}
  Values = {1, 2}
  MaxObjects = 2
  MaxCalls = 2
  MaxSessions = 2
  Registries <- MCRegistries
  RegistryFiles = {"a.json", "b.json"}
  RegistryOf <- MCRegistryOf
  Root = "root.json"
  DocumentOk <- ShapeOk
  TypesUse <- ReferToRegistry
  SetOk <- LinkedSetOk
  MaxPublished = 2
  MaxExplicit = 2
SPECIFICATION Spec
INVARIANTS TypesSurvive EncodesUnlessUnsupported RegistryValid MergeOrderIndependent FoldsAgree InputsOfReceiver ImportsExact
CHECK_DEADLOCK FALSE
