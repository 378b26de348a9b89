\* Fix 2's static declaration in drv.c makes fix 4 stub hook and fix 3 strip
\* main.c's only definition of it. HandWrittenKept is violated.
CONSTANTS
    Files <- MCFiles
    Sym <- MCSym
    Ident <- MCIdent
    Upper <- MCIdent
    HdrDefs <- MCHdrDefs
    MainPath <- MCMainPath
    StubNames = {"dsrtos_stubs.c"}
    MissingNames = {}
    BundleSyms = {"dsrtos_memory_init"}
    PlaceholderSyms = {}
    EndsWith <- MCEndsWith
    StartsWith <- MCStartsWith
    Scope <- MCScope
    InsertCount = 1
    Mentioned = {}
    SymRefs <- MCSymRefs
    Calls <- MCCalls
    Paren <- MCParen
    DeclLine <- MCDeclLine
    Uses <- MCUses
    Exists0 <- MCExists0
    Manifest0 <- MCManifest0
    Defs0 <- SKDefs0
    MDefs0 <- MCMDefs0
    InclPos0 <- MCInclPos0
    MaxIter = 7
SPECIFICATION Spec
INVARIANT HandWrittenKept
