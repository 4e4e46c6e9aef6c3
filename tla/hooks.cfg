CONSTANTS
 Endpoints={e1} Deliveries={d1,d2} Workers={w1,w2} Requests={h1,h2}
 MaxEndpoints=1 MaxAttempts=2 DisableAfter=2 None=None
SPECIFICATION FairSpec
INVARIANTS TypeOK RepeatedFailuresSwitchOff
PROPERTIES SwitchedOffForCause DeliveryLifeCycle DeliveriesSettle
