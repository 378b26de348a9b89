\* src/main.c overwrites src/phase1/main.c in exports/phase1.
\* ExportComplete is violated.
CONSTANTS
    Files <- ECFiles
    Sym <- MCSym
    Ident <- MCIdent
    Upper <- MCIdent
    HdrDefs <- MCHdrDefs
    MainPath <- ECMainPath
    StubNames = {"dsrtos_stubs.c"}
    MissingNames = {}
    BundleSyms = {"dsrtos_memory_init"}
    PlaceholderSyms = {}
    EndsWith <- MCEndsWith
    StartsWith <- MCStartsWith
    Scope <- MCScope
    InsertCount = 1
    Mentioned = {}
    SymRefs <- ECSymRefs
    Calls <- ECCalls
    Paren <- ECParen
    DeclLine <- ECDeclLine
    Uses <- ECUses
    Exists0 <- ECExists0
    Manifest0 <- ECManifest0
    Defs0 <- ECDefs0
    MDefs0 <- ECMDefs0
    InclPos0 <- ECInclPos0
    MaxIter = 7
SPECIFICATION Spec
INVARIANT ExportComplete
