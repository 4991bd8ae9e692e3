---------------------------- MODULE MCApplication ----------------------------
(* Application with two jobs, one of whose forms has a cover letter field, a  *)
(* profile whose name and layout change, and resumes that one layout accepts  *)
(* and the other does not, with a project that is not looked at.              *)
EXTENDS Application, TLC

SameWorkers == Permutations(Workers)

MCMatches == {"m1", "m2"}
MCJob == [m1 |-> "j1", m2 |-> "j2"]
MCPosting == [j1 |-> "acme_engineer", j2 |-> "umbrella_engineer"]
MCProfiles == {[name |-> "Ada", layout |-> "employment_led"],
               [name |-> "Ada L", layout |-> "project_only"]}

Full == {"text", "sourceRef"}
Bullets(n, bullet) == [b \in 1..n |-> bullet]
Role(n) == [has |-> {"company", "role"}, bullets |-> Bullets(n, Full)]
Project(n, bullet) == [has |-> {"title"}, bullets |-> Bullets(n, bullet)]
Untitled == [has |-> {}, bullets |-> <<{}>>]
Resume(roles, projects) ==
    [parts |-> Parts \cup {"education"}, roles |-> roles, projects |-> projects]
MCResumes == {
    Resume(<<Role(4), Role(2)>>, <<Untitled>>),
    Resume(<<>>, <<Project(3, {"text"})>>)}
=============================================================================
