\* Fix 3 strips main.c's only definition of app_dsrtos_init along with its
\* copy of dsrtos_init. HandWrittenKept is violated.
CONSTANTS
    Files <- MCFiles
    Sym <- SSSym
    Ident <- MCIdent
    Upper <- MCIdent
    HdrDefs <- MCHdrDefs
    MainPath <- MCMainPath
    StubNames = {"dsrtos_stubs.c"}
    MissingNames = {}
    BundleSyms = {"dsrtos_memory_init"}
    PlaceholderSyms = {}
    EndsWith <- SSEndsWith
    StartsWith <- MCStartsWith
    Scope <- SSScope
    InsertCount = 1
    Mentioned = {}
    SymRefs <- MCSymRefs
    Calls <- SSCalls
    Paren <- SSParen
    DeclLine <- MCDeclLine
    Uses <- MCUses
    Exists0 <- MCExists0
    Manifest0 <- MCManifest0
    Defs0 <- SSDefs0
    MDefs0 <- MCMDefs0
    InclPos0 <- MCInclPos0
    MaxIter = 7
SPECIFICATION Spec
INVARIANT HandWrittenKept
