SPECIFICATION LanguagesSpec
CONSTANTS
  Parts = {"classes", "program", "systems", "order", "macros", "macro time", "reader", "library"}
  Declarations <- SomeDeclarations
  MethodForms <- SomeMethodForms
  MaxMethods = 2
  NIL_NODE = NIL_NODE
  NilRead = NilRead
  Programmers = {1, 2}
  ProgramForms <- SomePrograms
  Helpers <- HelperNames
  Record = "%GENERIC"
  Dispatcher = "GF"
  Variable = "*V*"
  KernelNil = KernelNil
  MaxPrograms = 3
  MaxProgramCrashes = 1
  Trees <- SomeTrees
  Systems = {"app", "lib"}
  NeededBy <- SystemNeeds
  FilesOf <- SystemFiles
  Texts = {"v1", "v2"}
  Sources = {"s1", "s2"}
  Installing = {1, 2}
  MaxSystemInstalls = 2
  MaxSystemCrashes = 1
  MacroForms <- MacroFormCases
  MacroPrograms <- MacroProgramCases
  Uppercase <- UppercaseOf
  CharCodes <- CodeOf
  ReaderFunctions <- SomeReaderFunctions
  Preamble <- SomePreamble
  Readable <- SomeReadable
  Templates <- SomeTemplates
  Styles <- SomeStyles
  LibraryCases <- SomeLibraryCalls
INVARIANTS
  LanguagesTypeOK
  DefinitionsTakeEffect
  FormsMeanTheSame
PROPERTIES
  NamesStayMapped
CHECK_DEADLOCK FALSE
