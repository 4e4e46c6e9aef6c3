CONSTANTS
 People={p1,p2} Strangers={} Founders={p1} Offered={"owner","admin"} Businesses={1} Drafts={d1,d2} Requests={r1,r2} MaxDrafts=1 MaxBusy=2 None=None
SPECIFICATION Spec
SYMMETRY Symmetry
CHECK_DEADLOCK FALSE
PROPERTY BusinessesSurvive
