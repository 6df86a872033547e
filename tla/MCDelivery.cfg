SPECIFICATION FairSpec
CONSTANTS
    Posters = {p1, p2}
    Inline = {i1}
    Replies = {r1, r2}
INVARIANTS
    PublishedOnce
    SuccessIsPublished
    TransactionTells
    ReceiptsTrue
PROPERTIES
    StaleHeadNeverPublished
    PostEnds
CHECK_DEADLOCK FALSE
