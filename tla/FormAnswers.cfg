SPECIFICATION Spec
CONSTANTS
    Forms <- MCForms
    Profiles <- MCProfiles
    Intents <- MCIntents
    MaxRetries = 3
    MaxRerouted = 1
    MaxRows = 2
INVARIANTS
    AnswerIsItsOwn
    FailuresAreReported
    SponsorshipIsTrue
CHECK_DEADLOCK FALSE
