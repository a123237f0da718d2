SPECIFICATION Spec
CONSTANTS
    Parts = {"sheet", "lake", "table", "formula"}
    Sheets <- TableSheets
    Tables <- TableRows
    Asked <- TableAsked
    NewRow <- TableInserted
    PageSize = 2
    MaxScan = 4
    MaxOutput = 4
    MaxBuckets = 2
    MaxRowEdits = 1
\* A behaviour ends with its change written, refused or in conflict, or its pages read.
CHECK_DEADLOCK FALSE
INVARIANTS PagesCoverOnce CountsAreWhole
PROPERTIES SheetWritten LakeWritten NewLookShowsTheSame
