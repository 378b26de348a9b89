\* A multiple definition between two module files: StallDetected is
\* violated.
CONSTANTS
    Files <- STFiles
    Sym <- STSym
    Ident = {}
    Upper = {}
    HdrDefs = {}
    MainPath = {}
    StubNames = {"dsrtos_stubs.c"}
    MissingNames = {}
    BundleSyms = {}
    PlaceholderSyms = {}
    EndsWith <- STEndsWith
    StartsWith <- STStartsWith
    Scope <- STScope
    InsertCount = 1
    Mentioned = {}
    SymRefs <- STNone
    Calls <- STCalls
    Paren <- STParen
    DeclLine <- STNone
    Uses <- STNone
    Exists0 <- STExists0
    Manifest0 <- STManifest0
    Defs0 <- STDefs0
    MDefs0 <- STNone
    InclPos0 <- STInclPos0
    MaxIter = 7
SPECIFICATION Spec
INVARIANT StallDetected
