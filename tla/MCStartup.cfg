SPECIFICATION Spec
CONSTANTS
    n1 = n1
    n2 = n2
    s2 = s2
    Names = {n1, n2}
    Jobs = {j1, j2}
    Fetches = {f1, f2}
    SystemUser = "me"
    Texts = {"12", "no number"}
    Typed = {"limit"}
    MaxLaunches = 2
    Flags <- AllFlags
    Prior <- PriorProfiles
    SSHService <- SSHServices
SYMMETRY Symmetry
INVARIANTS
    TypeOK
    TypingGoesToCursor
    ListedHasSecret
    NoSecretLeftBehind
    PasswordBelongs
    TunnelReady
CHECK_DEADLOCK FALSE
