SPECIFICATION MCSpec
CONSTANTS
  None = None
  Blank = Blank
  Topics <- CedarTopics
  NonTopics <- DoorFillers
  MaxAsks = 3
  Scopes = {"a", "b"}
  Questions = {"covers", "sources", "more"}
  More = "more"
  Suggested <- ReaderSuggested
  ChangesQuestion = "sources"
  ScopedExamples <- ReaderFallback
  FirstFour <- ReaderFirst
  MaxHandOffs = 1
  Bank <- DoorBank
  Intent <- DoorIntent
  WordsOf <- DoorWordsOf
  OutOfScope = {"joke"}
  DrillIds <- DoorDrills
  AffirmIds <- DoorAffirms
  DefaultFollowUps <- DoorFollowUps
  Starters <- DoorStarters
  AudienceRoute <- DoorRoute
  DoorQuestions <- DoorAsked
  TellMore <- DoorTellMore
  HandedOver = {"c1", "c2"}
  CollectionIntent <- DoorCollection
  CollectionQuestion <- DoorHandOver
  MaxEvents = 5
  ShelfCatalog <- ShelvesCatalog
  Placed <- ShelvesPlaced
  OnStore <- ShelvesLaunch
  Previews <- ShelvesSamples
  Unpublished = {"plot"}
  Released = {"funding", "prime", "gaming"}
  MaxChanges = 4
  Readers = {"a", "b"}
  Priorities = {"p1", "p2"}
  PriorityTexts = {"t1", "t2"}
  Concerns <- PriorityAbout
  Earned = 2
  PriorityActs = 3
  Audiences <- SettingsOffered
  Preserved <- SettingsPreserved
  Names = {"n1", "n2"}
  SettingsActs = 5
  PanelActs = 5
  TabTiers = {"press", "sprout"}
  Reading = {"press"}
  SetUpLinks = {"l1", "l2"}
  Landings <- AccountLandings
  MaxPolls = 2
  TabActs = 2
  OnSale <- ShowcaseCatalog
  First = "funding"
  UnknownName = "unknown"
  UseCases <- ShowcaseCases
  MinCollections = 1
  RotateTime = 2
  ResumeTime = 3
  ShowcaseActs = 3
  MaxFaults = 1
  Fields <- RecordColumns
  FieldContracts <- RecordContracts
  FieldBooks <- RecordBooks
  FieldRows <- RecordRows
  RecordActs = 2
  NameRules <- TableRules
  Describing <- TableObservation
  LineageNames = {}
  RetiredNames = {"deal_id"}
  IdNames <- TableRecordIds
  Preset <- TablePresentation
  Declarations <- TableOverrides
  LinkBuilders <- TableBuilders
  DisplayOrder <- TableDisplay
  StandIns <- TableStands
  LinkName = "__source"
  OpeningLimit = 8
  FileNames <- TableColumns
  FirstFiles <- TablePublished
  Explained <- TableCodebook
  TableActs = 3
  Unlinked = "unlinked"
  WithheldText = "[name withheld]"
  Contracts <- MCContracts
  ScopeClasses <- MCScopeClasses
  PageSize = 2
  NameRank <- MCNameRank
  Catalog = {"f", "g", "p", "n"}
  Default = "f"
  Shelf <- MCShelf
  RawRows <- MCRawRows
  Uids = {"e1", "e2", "e3", "e4"}
  Classes = {"T", "K"}
  KnownReg <- MCKnownReg
  Plans <- MCPlans
  Arrivals <- MCArrivals
  Texts <- MCTexts
  Trimmed <- MCTrimmed
  Years = {1, 2}
  MaxEdits = 2
INVARIANTS
  ViewerRows
  ViewerLinks
  DoorThread
  ReaderThread
  ProfileIsOfItsEntity
  RecordIsWhole
  TableOpens
  AnswerOnScreen
  MarkObeys
  PanelsReturn
  ShelvesAreKept
PROPERTIES
  ReleaseFilesAgree
  PrioritiesAreCurrent
  AccountPages
  NewsIsTheReaders
  ShowcaseHolds
CHECK_DEADLOCK FALSE
