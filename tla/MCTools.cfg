SPECIFICATION Spec
CONSTANTS
  TextSlides <- SomeSlides
  TextDocuments <- SomeDocuments
  MaxTextChanges = 2
  Broken = Broken
  FirstDeck <- TwoSlides
  DeckOps <- SomeEdits
  MaxOps = 2
  MaxDeckRuns = 2
  CodeHeights = {28, 40}
  CodeSizes = {9, 12}
  MaxCodeLines = 3
  MaxCodeEdits = 2
  SlideWidth = 60
  SlideHeight = 50
  TextFrames <- SomeFrames
  OtherFrames <- SomeNeighbours
  FitTexts <- SomeBoxes
  FitOverflows = {0, 2}
  MaxOthers = 1
  AuditItems <- SomeItems
  AuditSize = 3
  MaxAuditEdits = 1
  CiPaths <- GitFiles
  CiMissing = 1
  MaxCiChanges = 2
  Typefaces <- Families
  DeckParts = {"slide", "notes", "layout"}
  MaxElements = 2
  MaxFontEdits = 1
  LANG = {"py", "go"}
  POLICY = {"net"}
  Decks0 <- SomeDecks
  Vocabulary <- SomeWords
  Banned = {"bad"}
  Rewrites <- SomeRewrites
  HandWritten <- HandEdits
  MaxWritten = 4
CHECK_DEADLOCK FALSE
INVARIANTS
  TypeOK
  ManifestsApply
PROPERTIES
  DecksAreSafe
  
  
  
  TextsFit
