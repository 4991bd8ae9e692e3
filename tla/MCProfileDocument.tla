------------------------- MODULE MCProfileDocument -------------------------
(* ProfileDocument with the resume of somebody employed, and one of a graduate *)
(* that yields no role but a blank one.                                       *)
EXTENDS ProfileDocument

Analysis(years, seniority, career, tools, work, projects) ==
    [years |-> years, seniority |-> seniority, career |-> career, skills |-> career,
     tools |-> tools, work |-> work, failed |-> FALSE,
     projects |-> [i \in DOMAIN projects |-> [id |-> 0, state |-> projects[i]]]]

MCAnalyses == {
    Analysis("1-3", "junior", "own", TRUE, <<"blank", "full">>, <<"full">>),
    Analysis("0-1", "senior", "", TRUE, <<"blank">>, <<"part", "full">>)}
=============================================================================
