SPECIFICATION Spec
CONSTANTS
    Conns = {c1, c2}
    Kinds = {"router", "switch"}
    Ports = {"g0", "g1", "f1"}
    RouterDefault = "g0"
    SwitchDefault = "f1"
    Menus <- MCMenus
    MaxCommands = 4
    None = None
SYMMETRY Symmetry
INVARIANTS
    ConsoleSound
    ReplaySound
    LinesWithoutEffect
PROPERTIES
    ConfiguresShownPort
CHECK_DEADLOCK FALSE
