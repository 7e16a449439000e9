CONSTANTS
    Scrapers = {s1, s2}
    Commands <- MCCommands
    BUCKET_COUNT = 2
    MaxCommands = 2
    MaxScrapes = 2
CHECK_DEADLOCK FALSE
SPECIFICATION Spec
SYMMETRY Symmetry
INVARIANTS TotalCoversOutcomes KindsCoverTotal HistogramsCoverTotal HistogramsAreCumulative
