SPECIFICATION Spec
CONSTANTS
    None = None
    NoFile = NoFile
    Tolerance = 2
    SampleSize = 5
    Score <- MCScore
    Content <- MCContent
    Similar <- MCSimilar
    File = {"undated", "eu_proved", "eu_boundary", "ledger", "newest_first", "hidden", "columns", "indicator", "reversal", "text_balance", "text_signed", "scan"}
    Process = {p1, p2}
    MaxProfiles = 1
SYMMETRY Symmetry
INVARIANTS
    TypeOK
    EveryLineAccounted
    CleanMeansRight
    ProvenDatesRight
    BalanceTellsSign
