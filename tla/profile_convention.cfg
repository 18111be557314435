SPECIFICATION Spec
CONSTANTS
    None = None
    NoFile = NoFile
    Tolerance = 2
    SampleSize = 5
    Score <- MCScore
    Content <- MCContent
    Similar <- MCSimilar
    File = {"us_signed", "deposits"}
    Process = {p1, p2}
    MaxProfiles = 1
SYMMETRY Symmetry
INVARIANTS
    ConventionReused
