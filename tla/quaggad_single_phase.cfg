SPECIFICATION MCSpec
CONSTANTS
    Families = {"prefix-list", "access-list"}
    Applicable = "prefix-list"
    Lists = {"l", "m"}
    Rules = {"1", "2"}
    Leaves = {"action", "call", "metric", "nexthop", "source"}
    Values = {"permit", "deny", "5", "6", "l", "m"}
    Configs <- MCConfigs
    TwoPhase = FALSE
    MaxCommit = 3
INVARIANTS
    Applied
