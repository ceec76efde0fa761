SPECIFICATION ProcessesSpec
CONSTANTS
    Pids = {p1, p2, p3}
    Commands = {c1}
    Nobody = Nobody
    ClientPids = {p1, p2, p3}
    Units = {u1, u2}
    None = None
    Editors = {e1, e2}
    HookEditors = {e1, e2}
    MaxHooks = 3
    Names = {"mock-local", "plugin-local", " plugin-local", " ", "two lines"}
    MultiLine = {"two lines"}
    Trimmed <- MCTrimmed
    Nameless = ""
    MockLocal = "mock-local"
    PluginLocal = "plugin-local"
    TempNames = {t1, t2}
SYMMETRY ProcessesSymmetry
INVARIANTS
    OneDaemon
    NotDenied
    StopLeavesNothing
    OneClient
    ConfigLoads
    HooksKept
