\* One user and one job through every combination of the answers above.
SPECIFICATION Spec
CONSTANTS
  Answers <- MCAnswers
  Posting <- MCPosting
  Label <- MCLabel
  Breakdown <- MCBreakdown
  RawFit <- MCRawFit
  NoPrefs = NoPrefs
  NoJob = NoJob
  NoFacts = NoFacts
  NoMatch = NoMatch
  NoAnswer = NoAnswer
INVARIANTS PendingPassesFilters MatchedIsTailorable FitInRange ObjectionStands
PROPERTIES PurgeIsExact
