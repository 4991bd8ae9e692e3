--------------------------- MODULE MCMatchPolicy ---------------------------
(* MatchPolicy with profiles that ask each question of the gate, postings    *)
(* around every seniority, and similarities around the floor and the         *)
(* threshold of a strong match.                                              *)
EXTENDS MatchPolicy

MCAnswers == {
    Blank,
    [Blank EXCEPT !.arrangement = "remote", !.contract = TRUE, !.target = "staff"],
    [Blank EXCEPT !.visaStatus = "need_sponsorship", !.early = TRUE,
                  !.dealbreakers = {"db_no_defense"}],
    [Blank EXCEPT !.target = "senior", !.dealbreakers = {"db_no_oncall"}]}

MCPosting == {
    {"remote", "senior", "oncall"},
    {"onsite", "contract", "director"},
    {"remote", "hybrid", "lead", "junior"},
    {"staff", "defenseInName"}}

MCLabel == {{}, {"noSponsor"}, {"defense", "onsite"}}

Even(s) == [resume |-> s, skills |-> s, targets |-> s, experience |-> s,
            best |-> s, matched |-> 2]
MCBreakdown == {
    Even(49),
    [Even(80) EXCEPT !.resume = 70, !.skills = 70],   \* 74.50: shown as 75
    [Even(100) EXCEPT !.matched = 1],
    Even(100)}

MCRawFit == {0, 60, 150}
=============================================================================
