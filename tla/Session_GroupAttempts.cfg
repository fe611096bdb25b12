\* The attempts a group count made, when its second collect fails.
CONSTANTS
    Sessions = {s1}
    Names = {"orders"}
    Uris = {"a"}
    Contents <- FileContents
    NoColumns = ""
    Assertions <- AllAssertions
    MaxBindings = 1
    MaxActivations = 0

SPECIFICATION Spec

INVARIANTS
    AttemptsAccounted
