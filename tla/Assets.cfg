SPECIFICATION Spec
CONSTANTS
    Rows = {r1, r2}
    Keys = {k1, k2}
    Items = {post}
    Types = {article, page}
    Plain = {page}
    Clients = {c1, c2}
    MaxFaults = 1
    None = None
CONSTRAINTS OneRace OneCause OneToken
SYMMETRY Alike
INVARIANTS ActiveHasObject NoOrphanObject 
