CONSTANTS
    Names <- MCNames
    Predefined <- MCPredefined
    Nums <- MCNums
    Slots = 3
    c1 = c1
    c2 = c2
    c3 = c3
    a = a
    b = b
    length = length
    Clients <- MCClients
    NONE = NONE
SYMMETRY ClientSym
SPECIFICATION Spec
INVARIANT TypeOK
INVARIANT AtomIdentity
INVARIANT NoStaleAtom
INVARIANT AtomTextFaithful
