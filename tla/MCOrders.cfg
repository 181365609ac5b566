SPECIFICATION Spec
CONSTANTS
    Workers = {w1, w2}
    Subs = {1, 2}
    Units <- OneUnit
    MaxFaults = 1
    MaxServed = 3
CONSTRAINT FewAnswers
SYMMETRY WorkersInterchangeable
INVARIANTS TypeOK OvershootBounded ServedBounded FreshNotExpired NeverOvercharged NoOrderLost KeysComplete UsedUpReported
