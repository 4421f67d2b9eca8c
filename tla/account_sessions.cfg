SPECIFICATION Spec
CONSTANTS
    r1 = r1  r2 = r2
    ann = ann  empty = empty
    p1 = p1  p2 = p2  weak = weak
    Requests = {r1, r2}
    Locals = {ann, empty}
    NoLocal = empty
    Passwords = {p1, p2, weak}
    Strong = {p1, p2}
    MaxUsers = 2
    MaxSessions = 4
    MaxFaults = 1
INVARIANTS
    TypeOK
    AnswersHold
    UntoldAccounts
    SessionsBounded
    InductiveInv
SYMMETRY MCSymmetry
PROPERTIES
    BookSpec
CHECK_DEADLOCK FALSE
