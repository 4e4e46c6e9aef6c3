CONSTANTS
 Requests={r1,r2} MaxBegun=4 MaxPassword=2 MaxIds=2 None=None
SPECIFICATION Spec
INVARIANTS OldPasswordsLapse SuspensionLeavesNone EachUsedOnce
SYMMETRY Symmetry
CHECK_DEADLOCK FALSE
