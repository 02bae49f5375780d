CONSTANTS
    Children = {c1, c2, c3}
    Failures = {f1, f2}
    Nothing = Nothing
SPECIFICATION ScopeLiveSpec
INVARIANTS ScopeInv
PROPERTIES JoinResumes
CHECK_DEADLOCK FALSE
