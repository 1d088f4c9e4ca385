SPECIFICATION Spec
CONSTANTS
    Server = Server
    Editor = Editor
    Keys = {k1, k2}
    Boards = {default, board}
    Default = default
    Names = {all, growth}
    DefaultName = all
    Texts = {first, second}
    Unsaid = Unsaid
    Gone = Gone
    Down = Down
    Torn = Torn
SYMMETRY Symmetry
CHECK_DEADLOCK FALSE
INVARIANTS ToldTrue BoardsHold
