SPECIFICATION MCSpec
CONSTANTS
    Warrants = {w1, w2}
    Linked = {w2}
    Envelopes = {e1, e2}
    Senders = {s1, s2}
    Receivers = {r1, r2}
    Lossy = {TRUE, FALSE}
    MaxLocal = 4
    MaxReviews = 2
    MaxHome = 1
    MaxCrashes = 1
CHECK_DEADLOCK FALSE
   
PROPERTIES  HandlersReturn
