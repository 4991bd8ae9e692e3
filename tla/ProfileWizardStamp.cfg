\* No fault is needed: a save that was pending when the form was submitted.
SPECIFICATION Spec
CONSTANTS
  Texts <- MCTexts
  Empty = 0
  Complete <- MCComplete
  NoDraft = NoDraft
  MaxChanges = 2
  MaxVisits = 2
  MaxFaults = 0
INVARIANT SubmissionIsRemembered
CHECK_DEADLOCK FALSE
