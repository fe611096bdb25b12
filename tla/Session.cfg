\* Two sessions, two names and one file.
CONSTANTS
    Sessions = {s1, s2}
    Names = {"orders", "refunds"}
    Uris = {"a"}
    Contents <- FileContents
    NoColumns = ""
    Assertions <- AllAssertions
    MaxBindings = 2
    MaxActivations = 2

SPECIFICATION Spec

SYMMETRY Symmetry

INVARIANTS
    TypeOK
    SchemaIsOfLastBinder
    ActiveIsLastActivation
    ResolvedColumnsAgree
    VerdictIsExact
