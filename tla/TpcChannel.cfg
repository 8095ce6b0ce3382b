SPECIFICATION Spec
CONSTANTS
    Workers = {w1, w2}
    Clients = {c1}
    Messages = {m1, m2, m3}
    Capacity = 2
INVARIANTS ChannelInv NoReceivePanic
PROPERTY Delivery
\* Workers block in wait_forever when there is no work.
CHECK_DEADLOCK FALSE
