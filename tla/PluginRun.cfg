CONSTANTS
    CalledMethods <- MCMethods
    Plugins <- MCPlugins
    idMaxChars = 3
    Numbers <- MCNumbers
SPECIFICATION Spec
INVARIANTS
    RequestIntact
    AnswerIntact
    CloneDetaches
    ManifestAgrees
    RightHandler
    PopupSizesAgree
PROPERTIES
    ShutdownIsClean
    PaneCloses
