\* The intervals of alerter.py: 60 s, 600 s, 300 s.
\* Two products: at most four messages a check, 40 s, less than an interval.
CONSTANTS
    p1 = p1
    p2 = p2
    Products <- MCProducts
    RatingsOf <- MCRatingsOf
    Slots = {1, 2}
    None = None
    Ages = {1, 4}
    Window = 10
    Cooldown = 5
    Sending = 1
SPECIFICATION FairSpec
PROPERTIES AlertedInTime ToldApart KeptTold
CHECK_DEADLOCK FALSE
