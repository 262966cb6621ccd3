SPECIFICATION CommentsSpec
CONSTANTS
    h1 = h1
    h2 = h2
    Writers <- TwoWriters
    MaxComments = 3
CHECK_DEADLOCK FALSE
INVARIANTS CountIsExact
