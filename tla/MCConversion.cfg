SPECIFICATION MCSpec
CONSTANTS
    Uploads <- MCUploads
    ProfileLists <- MCProfileLists
    DnsAnswers <- MCDnsAnswers
    MaxDnsChanges = 2
    TextContents <- MCTextContents
    BoxPlaces <- MCBoxPlaces
    NumericWords <- MCNumericWords
    DigitWords <- MCDigitWords
    ShortMarkers <- MCShortMarkers
    CapitalWords <- MCCapitalWords
    LabelTokens <- MCLabelTokens
    NameWords <- MCNameWords
    Numbers <- MCNumbers
    Dates <- MCDates
    Requests <- MCRequests
    ValidAnchors <- MCValidAnchors
    OcrNames <- MCOcrNames
    LlmNames <- MCLlmNames
    Studies <- MCStudies
    Edits <- MCEdits
    CaseIds <- MCCaseIds
    HighRisk <- MCHighRisk
INVARIANTS
    ConvertedIsClean
    ReviewIsActionable
    TextlessPagesHeld
    TablesExactlyOnce
    RowsKept
    DoubtSurvives
    NoExternalTransmission
    ConfirmedOutputSound
    ColumnValuesOwn
    
    AcceptedStudySound
    EditsDetected
CHECK_DEADLOCK FALSE
