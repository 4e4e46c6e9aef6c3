CONSTANTS
 Requests={r1,r2} Free="free" Paid={"pro"} Price <- OnePrice
 MonthLength=3 FirstTime=2 MaxTime=6 MaxAsked=2 None=None
SPECIFICATION Spec
INVARIANTS TypeOK ChargedForWhatWasHeld InvoicesStayTrue OnlyEarlyInvoicesEndPlansEarly
SYMMETRY Symmetry
CHECK_DEADLOCK FALSE
