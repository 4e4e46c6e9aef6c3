CONSTANTS
 Apps={a1,a2} Others={a2} Uris={u1} Scopes={s1,s2} Requests={r1,r2} Cap=1
 CodeLife=0 AccessLife=1 RefreshLife=1 Keep=0 MaxTime=1 MaxCodes=1 MaxPairs=3 None=None
SPECIFICATION Spec
INVARIANT UsedTokensEndTheGrant
SYMMETRY Symmetry
CHECK_DEADLOCK FALSE
