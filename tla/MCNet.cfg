SPECIFICATION Spec
CONSTANTS
    Validators = {"v1", "v2", "v3", "v4"}
    Keyless = {}
    Retain = 256
    Order <- Four
    Observers = {}
    Turns <- SplitTurns
    Listeners = {"v2"}
    Peers = {"p"}
    MaxHeight = 1
    Restarting = {"v2"}
    MaxRestarts = 1
    None = None
INVARIANTS
    SecondVoteOnlyWhenSettled
PROPERTIES
    ImplementsVoteCounting
CHECK_DEADLOCK FALSE
