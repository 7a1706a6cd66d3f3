CONSTANTS
  ByteBits = 2
  Grammars <- MCGrammars
  MaxData = 4
  Names <- MCNames
  MaxSeq = 2
  Sections <- MCSections
  MaxRead = 5
  Programs <- MCPrograms
  LineBase <- MCBase
  LineRange = 3
  DefaultIsStmt = FALSE
  InstLength = 2
  MaxSpecial = 10
  InfoSections <- MCInfoSections
  AbbrevTables <- MCAbbrev
  LineSections <- MCLineSections
  ElfFiles <- MCElfFiles
  WordMod = 4
  MaxCopies = 2
  Nodes = {1, 2, 3, 4}
  GraphFiles <- MCGraphFiles
  MaxDepth = 16
  MaxSent = 3
  PtyRoom = 2
  MaxLag = 2
  Cells = 6
  Codes = {1, 4}
  Strings <- MCStrings
  Flags = {1, 2, 3}
  CharBits = 2
  MaxTokens = 4
  Files = {f1, f2, f3}
  Root = f1
  Unreadable = no
  MaxIncludes = 2
  DictKeys = {a, b, c}
  DictValues = {1, 2}
  MaxLinks = 3
  ElfImages <- MCImages
  ChunkSize = 2
  DebugNames <- MCDebugNames
  RelPrefixes <- MCRelPrefixes
  AskedNames <- MCAskedNames
  MaxCalls = 2
  Exprs <- MCExprs
  ExprStructs <- MCExprStructs
  MaxDescribed = 2
  ListSections <- MCListSections
  AddressSize = 2
  MaxLookups = 2
  CfiEntries <- MCCfiEntries
  CfiStructs <- MCCfiStructs
  CodeAlign = 2
  StartPc = 10
  Chapters <- MCChapters
  RandNames = {"a", "b"}
  Contents = {"x", "y"}
  MaxMade = 3
  MaxFaults = 1
  ElfRuns <- MCElfRuns
  LineBytes = 2
  RegNames <- MCRegNames
  LazyRuns <- MCLazyRuns
  Widths = {1, 2}
  LazyFields = 2
  UnitBits = 3
  BitFiles <- MCBitFiles
  FieldWidths = {0, 1, 2, 3, 5}
  MaxPieces = 3
  AttrCases <- MCAttrCases
  WordValues = 4
SPECIFICATION ToolsSpec
CHECK_DEADLOCK FALSE
INVARIANTS
  ParseBuildAgree StreamsFaithful HeadersExact
  CallFramesExact LineTableExact UnitsExact SectionsExact DwarfValuesExact
  GraphSearched RunReports ScanTablesExact DocsWhole FsTestSound ReadelfExact
PROPERTIES
  IsOrderedMap FramesSettle RunEnds
