\* The core scenario: every fix fires, and the run can end in each of
\* SUCCEEDED, STUCK and EXHAUSTED.
CONSTANTS
    Files <- MCFiles
    Sym <- MCSym
    Ident <- MCIdent
    Upper <- MCIdent
    HdrDefs <- MCHdrDefs
    MainPath <- MCMainPath
    StubNames = {"dsrtos_stubs.c"}
    MissingNames = {}
    BundleSyms = {"dsrtos_memory_init"}
    PlaceholderSyms = {}
    EndsWith <- MCEndsWith
    StartsWith <- MCStartsWith
    Scope <- MCScope
    InsertCount = 1
    Mentioned = {}
    SymRefs <- MCSymRefs
    Calls <- MCCalls
    Paren <- MCParen
    DeclLine <- MCDeclLine
    Uses <- MCUses
    Exists0 <- MCExists0
    Manifest0 <- MCManifest0
    Defs0 <- MCDefs0
    MDefs0 <- MCMDefs0
    InclPos0 <- MCInclPos0
    MaxIter = 7
SPECIFICATION Spec
INVARIANTS
    TypeOK
    ManifestIdempotent
    IncludeOnce
    DefinitionPreserved
    OwnDefinitionKept
    Registered
    HandWrittenKept
    ForwardDeclared
    ExportComplete
    BackupBeforeChange
PROPERTIES
    Terminates
    RefinesLoop
