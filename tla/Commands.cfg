SPECIFICATION Spec
CONSTANTS
  ImportCases <- SomeImports
  ImportFaults = 1
  ImportRuns = 3
  FragmentCases <- SomeFragments
  FragmentFaults = 1
  FragmentRuns = 2
  FragmentPolls = 2
  ObjectCases <- SomeObjects
  ObjectFaults = 1
  ObjectRuns = 2
  ObjectEdits = 1
  StyleCases <- SomeStyles
  StyleFaults = 1
  StyleRuns = 2
  RedirectCases <- SomeRedirects
  RedirectFaults = 1
  RedirectRuns = 2
  BatchCases <- SomeBatches
  BatchFaults = 1
  BatchRuns = 2
  BatchPolls = 3
  SiteCases <- SomeSites
  SiteFaults = 1
  SiteRuns = 2
  OauthCases <- SomeOauth
  Managed = {"managed"}
  OauthFaults = 2
  OauthRuns = 2
  OauthTries = 2
  CheckoutCases <- SomeCheckouts
  CheckoutRuns = 4
  LookupCases <- SomeLookups
  LookupPage = 2
  SiteTtl = 1
  LookupClock = 2
  LookupEdits = 1
  LookupFaults = 1
  Hunts <- SomeHunts
  HuntWorkers = 2
  HuntFaults = 1
  HuntEdits = 1
  HuntRuns = 2
  Reports <- SomeReports
  ReportPool = 2
  ReportPage = 2
  ReportFaults = 1
  ReportEdits = 1
  Libraries <- SomeLibraries
  LibraryFaults = 1
  LibraryKills = 1
  Projects <- SomeProjects
  ScaffoldFaults = 1
  Extensions <- SomeExtensions
  PortalErrors = 1
  ExtensionPolls = 2
  ExtensionRuns = 2
  Streams <- SomeStreams
  LogChunks = 1
  Migrations <- SomeMigrations
  DescriptorRuns = 2
INVARIANTS
  ImportIsFaithful
  FragmentsAreFaithful
  DefinitionsAreFaithful
  SiteCommandsAreFaithful
  CheckoutsAreApart
  DiscoveryIsFaithful
  WorkspaceIsFaithful
CHECK_DEADLOCK FALSE
