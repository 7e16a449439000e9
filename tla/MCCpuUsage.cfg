CONSTANTS
    Scrapers = {s1, s2}
    Cores = 2
    MaxScrapes = 4
    MaxWall = 4
CHECK_DEADLOCK FALSE
SPECIFICATION Spec
SYMMETRY Symmetry
INVARIANTS LoneScrapesShowUsage
