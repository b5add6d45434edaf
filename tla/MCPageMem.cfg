CONSTANTS
    p1 = p1 p2 = p2 p3 = p3 p4 = p4 p5 = p5
    Pages = {p1, p2, p3, p4, p5}
    a = a b = b c0 = c0 c1 = c1 t1 = t1 None = None  UTOP = UTOP
    Envs = {a, b}  First = a  CPUs = {c0, c1}
    VAs = {1, 2}  Tables = {t1}  TableOf <- OneTable
    RefLimit = 16
SPECIFICATION Spec
SYMMETRY PageSymmetry
INVARIANTS RefsExact FreeIffUnused TablesPrivate TlbCoherent
CHECK_DEADLOCK FALSE
