\* All the families of small files of MCLintFile, against every promise.
SPECIFICATION Spec
CONSTANTS
  IsSource <- AnyFile
  Category <- MCCategory
  TopLevel <- MCTopLevel
  Prefix <- MCPrefix
  Covers <- MCCovers
  NamespaceLines = 2
  Header <- MCHeader
  CppHeaders = {"string", "vector"}
  CHeaders = {"c.h"}
  SourceExt = {"cc"}
  HeaderExt = {"h", "hpp"}
  Contents <- MCContents
  Template <- MCTemplate
  NormalTrigger = 1
  TestTrigger = 2
  Macros = {"MACRO", "TEST", "MOCK_METHOD1"}
  Nolint <- MCNolint
  GlobalNolint <- MCGlobalNolint
  Known <- MCCategory
  Legacy = {"legacy"}
  CopyrightLines = 2
  SmallClass = 3
  Qualified = {"A::f"}
  Streams = {"ostream"}
  Allowed = {"swap", "static_assert"}
  Literals = {"1"}
  Numbers = {"int"}
  Mocks = {"MOCK_METHOD1"}
INVARIANTS
  TypeOK TextCleansed BlocksMatch IncludesReported NolintExact FunctionSizes
  BracesReported BlankLinesReported DeclarationsReported ChecksReplaceable CastsTold
PROPERTIES NestingIsLive
CHECK_DEADLOCK FALSE
