SPECIFICATION Spec
CONSTANTS
    Analyses <- MCAnalyses
    NewProjects = {"full"}
    NewRoles = {"full", "blank"}
    NoForm = NoForm
    MaxEdits = 3
    MaxVisits = 2
    MaxResumes = 1
INVARIANTS
    DerivedInv
    AnswersAgree
    NormalizeSettles
    ResumeIsKept
PROPERTIES
    CompletionAgrees
    AnalysisOnlyFills
CHECK_DEADLOCK FALSE
