SPECIFICATION Spec
CONSTANTS
    Matches <- MCMatches
    Workers = {w1, w2}
    Job <- MCJob
    Posting <- MCPosting
    CoverField = {"j1"}
    Embedded = {"j1", "j2"}
    Profiles <- MCProfiles
    Resumes <- MCResumes
    Lints = {"unfit"}
    LockHolds = TRUE
    MaxRuns = 2
INVARIANT
    DownloadServed
SYMMETRY SameWorkers
