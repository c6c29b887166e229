\* Two dispatches against a Close that holds closeMu while it drains.
CONSTANTS
    Dispatches = {d1, d2}
    MaxRestarts = 0
    NoReq = NoReq
SPECIFICATION FairSpec
PROPERTIES EveryoneReturns
