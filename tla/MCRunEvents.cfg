\* One node, two attempts: every history of an attempt and its replacement.
CONSTANTS
    Node = {n1}
    MaxAttempts = 2
    ProposedCause = {"pause"}
    ProposedPause = {"operator"}
SPECIFICATION Spec
INVARIANTS NodeFollowsAttempt TimeoutIsFinal CompletionAgrees
CHECK_DEADLOCK FALSE
