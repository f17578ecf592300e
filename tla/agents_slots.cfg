SPECIFICATION Spec
CONSTANTS
    Callers = {c1, c2}
    Agents = {a1, a2, a3}
    RootThread = root
    Paths = {p1}
    RootPath = rootPath
    NoPath = noPath
    Vacant = vacant
    Reserved = reserved
    Names = {n1}
    NoNick = noNick
    Limits = {2, noLimit}
    NoLimit = noLimit
    MaxResumes = 2
SYMMETRY Symmetry
CONSTRAINT FewStarts
INVARIANTS TypeOK SlotsWithinLimit CountIsExact ThreadsWithinLimit PathsUnique 
CHECK_DEADLOCK FALSE
