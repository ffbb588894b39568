SPECIFICATION FairSpec
CONSTANTS
    Senders = {s1, s2, s3}
    MaxDispatch = 3
    MaxPosts = 3
INVARIANT BoundedClaims
PROPERTIES AbandonedDispatchCloses DeliversAsPromised
CHECK_DEADLOCK FALSE
