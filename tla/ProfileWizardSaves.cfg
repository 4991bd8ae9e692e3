\* One user in one tab: two edits or resumes, two visits, one failed or overtaken request.
SPECIFICATION Spec
CONSTANTS
  Texts <- MCTexts
  Empty = 0
  Complete <- MCComplete
  NoDraft = NoDraft
  MaxChanges = 2
  MaxVisits = 2
  MaxFaults = 1
INVARIANTS SavedInv SubmissionStays
PROPERTY FormIsSaved
CHECK_DEADLOCK FALSE
