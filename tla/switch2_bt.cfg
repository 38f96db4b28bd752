SPECIFICATION Spec
CONSTANTS
    Objects <- MCObjects
    MaxObjects = 3
    Rounds = 3
INVARIANT MissingIsTrue
