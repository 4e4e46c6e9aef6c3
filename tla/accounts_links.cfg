CONSTANTS
 Requests={r1,r2} MaxBegun=2 MaxPassword=2 MaxIds=2 None=None
SPECIFICATION Spec
INVARIANT LinksAreSingleUse
SYMMETRY Symmetry
CHECK_DEADLOCK FALSE
