SPECIFICATION Spec
CONSTANTS
    Callers = {c1, c2}
    Agents = {a1, a2}
    RootThread = root
    Paths = {}
    RootPath = rootPath
    NoPath = noPath
    Vacant = vacant
    Reserved = reserved
    Names = {n1}
    NoNick = noNick
    Limits = {2}
    NoLimit = noLimit
    MaxResumes = 0
SYMMETRY Symmetry
INVARIANTS SlotsReturned
CHECK_DEADLOCK FALSE
