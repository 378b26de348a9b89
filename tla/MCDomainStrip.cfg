\* Fix 3 on a tree with src/domain.c: DefinitionPreserved is violated.
CONSTANTS
    Files <- DSFiles
    Sym <- DSSym
    Ident = {}
    Upper = {}
    HdrDefs = {}
    MainPath <- DSMainPath
    StubNames = {"dsrtos_stubs.c"}
    MissingNames = {}
    BundleSyms = {}
    PlaceholderSyms = {}
    EndsWith <- DSEndsWith
    StartsWith <- DSStartsWith
    Scope <- DSScope
    InsertCount = 1
    Mentioned = {}
    SymRefs <- DSNone
    Calls <- DSCalls
    Paren <- DSParen
    DeclLine <- DSNone
    Uses <- DSNone
    Exists0 <- DSExists0
    Manifest0 <- DSManifest0
    Defs0 <- DSDefs0
    MDefs0 <- DSNone
    InclPos0 <- DSInclPos0
    MaxIter = 7
SPECIFICATION Spec
INVARIANT DefinitionPreserved
