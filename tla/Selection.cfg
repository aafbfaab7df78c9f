CONSTANTS
    Plan <- MCPlan
    Slug <- MCSlug
    Timeout = 2
    Least = 1
    Reports <- MCReports
    MinShare = 1
    ExcludeMirage = TRUE
    Keep = 1
    MaxRuns = 3
    Usable = {"w", "x", "y", "z"}
    Catalog <- MCCatalog
    MaxImport = 2
SPECIFICATION Spec
INVARIANTS
    BoundedOverrun
    OwnReport
    
    NewestKept
    ImportAddsNew
CHECK_DEADLOCK FALSE
