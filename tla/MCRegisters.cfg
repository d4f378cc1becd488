SPECIFICATION Spec
CONSTANTS
    c1 = c1  c2 = c2  alice = alice  p1 = p1  p2 = p2
    r1 = r1  r2 = r2  r3 = r3  r4 = r4
    Connections = {c1, c2}
    Persons = {alice}
    Pages = {p1, p2}
    Requests = {r1, r2, r3, r4}
    Nobody = Nobody
    Happens = {"login", "refusal"}
    MaxVerbs = 2
    MaxUnderWay = 3
SYMMETRY Symmetry
CHECK_DEADLOCK FALSE
INVARIANTS
    TypeOK
    EdgesAgree
    GuestsStayHome
    MirrorAgrees
    OneSetOfPeople
    PageKeepsItsConnection
    NoWorkLost
