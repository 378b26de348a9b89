\* A Makefile without PHASE1_C_SOURCES and with two source lists the
\* fallback regex matches: ManifestIdempotent is violated.
CONSTANTS
    Files <- MCFiles
    Sym <- MCSym
    Ident <- MCIdent
    Upper <- MCIdent
    HdrDefs <- MCHdrDefs
    MainPath <- MCMainPath
    StubNames = {"dsrtos_stubs.c"}
    MissingNames = {}
    BundleSyms = {"dsrtos_memory_init"}
    PlaceholderSyms = {}
    EndsWith <- MCEndsWith
    StartsWith <- MCStartsWith
    Scope <- MCScope
    InsertCount = 2
    Mentioned = {}
    SymRefs <- MCSymRefs
    Calls <- MCCalls
    Paren <- MCParen
    DeclLine <- MCDeclLine
    Uses <- MCUses
    Exists0 <- MCExists0
    Manifest0 <- MCManifest0
    Defs0 <- MCDefs0
    MDefs0 <- MCMDefs0
    InclPos0 <- MCInclPos0
    MaxIter = 7
SPECIFICATION Spec
INVARIANT ManifestIdempotent
