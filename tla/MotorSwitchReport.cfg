CONSTANTS QueueMayBeFull = FALSE
SPECIFICATION FairSpec
PROPERTY SwitchReported
