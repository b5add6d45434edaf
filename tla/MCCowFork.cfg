\* Environments may all exit.
CONSTANTS
    a = a  b = b  c = c  None = None
    Envs = {a, b, c}  First = a
    LastVA = 3  Kind <- DataStackShared  Written <- OnesOnly  Stack = 2  Home <- FirstPages
    Pages = {1, 2, 3, 4, 5, 6, 7, 8, 9, 10}
    Vals = {0, 1}  Zero = 0
SPECIFICATION Spec
INVARIANTS WritableIsAlone CopyIsCurrent
PROPERTY ImplementsPrivateMemory
VIEW Seen
CHECK_DEADLOCK FALSE
SYMMETRY Later
