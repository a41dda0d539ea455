SPECIFICATION OauthAlone
CONSTANTS
  RedirectCases <- SomeRedirects
  RedirectFaults = 1
  RedirectRuns = 2
  BatchCases <- SomeBatches
  BatchFaults = 1
  BatchRuns = 2
  BatchPolls = 3
  SiteCases <- SomeSites
  SiteFaults = 1
  SiteRuns = 2
  OauthCases <- BladeAgain
  Managed = {"managed"}
  OauthFaults = 0
  OauthRuns = 2
  OauthTries = 2
INVARIANTS
  CredentialsStay
CHECK_DEADLOCK FALSE
