\* Two dispatches, a Close, a recovery and one crash, in every order.
CONSTANTS
    Dispatches = {d1, d2}
    MaxRestarts = 1
    NoReq = NoReq
SPECIFICATION Spec
SYMMETRY Symmetry
INVARIANTS HonestInv RecordedInv
