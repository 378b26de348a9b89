\* hook is reported only as undeclared at first use: fix 2 is not
\* triggered. ForwardDeclared is violated.
CONSTANTS
    Files <- MCFiles
    Sym <- MCSym
    Ident <- MCIdent
    Upper <- MCIdent
    HdrDefs <- MCHdrDefs
    MainPath <- MCMainPath
    StubNames = {"dsrtos_stubs.c"}
    MissingNames = {}
    BundleSyms = {"dsrtos_memory_init"}
    PlaceholderSyms = {}
    EndsWith <- MCEndsWith
    StartsWith <- MCStartsWith
    Scope <- FirstUseScope
    InsertCount = 1
    Mentioned = {}
    SymRefs <- MCSymRefs
    Calls <- MCCalls
    Paren <- MCParen
    DeclLine <- MCDeclLine
    Uses <- MCUses
    Exists0 <- MCExists0
    Manifest0 <- MCManifest0
    Defs0 <- MCDefs0
    MDefs0 <- MCMDefs0
    InclPos0 <- MCInclPos0
    MaxIter = 7
SPECIFICATION Spec
INVARIANT ForwardDeclared
