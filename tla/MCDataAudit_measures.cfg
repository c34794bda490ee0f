SPECIFICATION Spec
CONSTANTS
    NoQuery = NoQuery
    Null = Null
    Unset = Unset
    Broken = Broken
    RuleCode <- RuleCodes
    GoFolded <- GoFoldedTexts
    Cells <- AllCells
    Trimmed <- TrimmedTexts
    Folded <- FoldedTexts
    Empty <- NoText
    Leading <- LeadingTexts
    Trailing <- TrailingTexts
    Castable <- Casts
    Number <- Halves
    DayIn <- Days
    Shape <- Shapes
    Today = 200
    Oldest <- LongAgo
    Century = 36500
    Plurals <- PluralsOf
    NoteSeverity <- Severity
    Words <- WordsInOrder
    Punctuation <- Marks
    Unpadded <- Spaced
    NameOf <- Headings
    FormulaErrors <- Errors
    HeaderScanRows = 2
    ParallelWorkbooks = 4
    Datasets <- AllDatasets
    RuleSets <- SomeRules
    MaxUnmeasured = 1
INVARIANTS
    TitlesHold
    GapsAreReported
    ToolsAgree
    ProposedValuesHoldToday
CHECK_DEADLOCK FALSE
