\* Fixes 5 and 6 on a macro main.c defines itself: OwnDefinitionKept is
\* violated.
CONSTANTS
    Files <- OMFiles
    Sym <- OMSym
    Ident <- OMIdent
    Upper <- OMIdent
    HdrDefs = {}
    MainPath <- OMMainPath
    StubNames = {"dsrtos_stubs.c"}
    MissingNames = {}
    BundleSyms = {}
    PlaceholderSyms = {}
    EndsWith <- OMEndsWith
    StartsWith <- OMStartsWith
    Scope <- OMScope
    InsertCount = 1
    Mentioned = {}
    SymRefs <- OMNone
    Calls <- OMCalls
    Paren <- OMParen
    DeclLine <- OMNone
    Uses <- OMUses
    Exists0 <- OMExists0
    Manifest0 <- OMManifest0
    Defs0 <- OMDefs0
    MDefs0 <- OMMDefs0
    InclPos0 <- OMInclPos0
    MaxIter = 7
SPECIFICATION Spec
INVARIANT OwnDefinitionKept
