SPECIFICATION FairSpec
CONSTANTS
    MaxIds = 2
    Commands = {"smart", "new", "given", "default"}
INVARIANTS SelectedIsARow
PROPERTIES StopIsJustified NoReturnToTheDead SearchEnds LastOneLeaves
CHECK_DEADLOCK FALSE
