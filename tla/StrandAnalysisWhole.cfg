SPECIFICATION Spec
CONSTANTS
    Evidence <- MCEvidence
    Invented <- MCInvented
    Family <- MCFamily
    FamilyOf <- MCFamilyOf
    ReportId = {"r1", "r2"}
    ReportOf <- MCReportOf
    Similarity = {0, 1, 2}
    Floor = 1
    MaxNeighbors = 2
    SourceStrand <- MCSourceStrand
    MaxStrands = 3
    MaxExclusions = 1
    MaxInsights = 1
    Chapter <- MCChapter
    Weight <- MCWeight
    MistakesIn <- MCMistakesIn
    MaxPriorities = 1
INVARIANT
    SupportedStrandIsWhole
