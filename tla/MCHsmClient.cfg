\* Two threads in any of the six functions, with up to two tokens coming and
\* going in two slots, and the process too.
CONSTANTS
    Callers = {c1, c2}
    Labels <- MCLabels
    Objects <- MCObjects
    Slots = {s1, s2}
SPECIFICATION FairSpec
INVARIANTS TypeOK OneCallWorks WorkIsLoggedIn NothingIsLeft
INVARIANTS DerivedKeyIsSessionLocal OnlyOverlapIsBusy
PROPERTIES CallsReturn
