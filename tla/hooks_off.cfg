CONSTANTS
 Endpoints={e1} Deliveries={d1,d2} Workers={w1,w2} Requests={h1}
 MaxEndpoints=1 MaxAttempts=2 DisableAfter=2 None=None
SPECIFICATION Spec
PROPERTY OnlyTheOwnerSwitchesOn
CHECK_DEADLOCK FALSE
