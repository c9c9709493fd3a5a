CONSTANTS QueueMayBeFull = TRUE
SPECIFICATION FairSpec
INVARIANT NeverDeaf
PROPERTY EdgeSampled
