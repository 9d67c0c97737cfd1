\* Three instances that come, go and fail; the counter of the round robin wraps.
CONSTANTS
    IndexRange = 16
    NoKey = ""
    DefaultKey = "default"
    Ids = {1, 2, 3}
    Names = {"round_robin", "weighted_round_robin", "random", "consistent_hash"}
    Weights <- Heavy
    Unhealthy = TRUE
    Lists <- MCLists
    Hashes <- MCHashes
    VirtualNodes = {0, 2}
    Keys = {"k1", "k2"}
    MaxChanges = 3
SPECIFICATION Spec
INVARIANTS RoundRobinEven WeightedProportion
 
