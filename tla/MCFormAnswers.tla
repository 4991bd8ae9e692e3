---------------------------- MODULE MCFormAnswers ----------------------------
(* FormAnswers with forms that put the questions which share rules, facts or  *)
(* numbers side by side.                                                      *)
EXTENDS FormAnswers

Field(label, words, type, required, options) ==
    [label |-> label, words |-> words, type |-> type, required |-> required,
     options |-> options]
Choice(text, has) == [text |-> text, has |-> has]
YesNo == <<Choice("yes", {"yes"}), Choice("no", {"no"})>>
Verbose == <<Choice("I do not know", {"no"}), Choice("Yes, I do", {"yes"}), Choice("none", {"noneOfTheAbove"})>>
Plain == <<Choice("Yes, always", {"yes"}), Choice("Not at all", {"no"})>>

MCForms == {
    <<Field("github", {"github", "url"}, "text", TRUE, <<>>),
      Field("repo", {"github", "describe"}, "textarea", TRUE, <<>>),
      Field("why", {"why"}, "textarea", TRUE, <<>>)>>,
    <<Field("phone", {"phone"}, "text", TRUE, <<>>),
      Field("start", {"noticePeriod"}, "select", TRUE, YesNo),
      Field("other", {}, "text", FALSE, Plain)>>,
    <<Field("visa", {"sponsorship"}, "select", TRUE, YesNo),
      Field("support", {"requireSupport"}, "select", TRUE, Plain),
      Field("us", {"authorizedToWork", "inUS"}, "select", TRUE, YesNo),
      Field("export", {"exportControl", "requireSupport"}, "select", TRUE, Verbose)>>,
    <<Field("resume", {"resume"}, "file", TRUE, <<>>),
      Field("cover", {"coverLetter"}, "file", FALSE, <<>>),
      Field("letter", {"coverLetter"}, "textarea", TRUE, <<>>),
      Field("us", {"authorizedToWork", "inUS"}, "text", TRUE, <<>>),
      Field("other", {}, "text", FALSE, <<>>)>>,
    <<Field("company", {"name"}, "text", TRUE, <<>>),
      Field("gender", {"eeo"}, "select", FALSE, YesNo),
      Field("level", {"clearance", "clearanceLevel"}, "select", TRUE, Verbose),
      Field("english", {"experienceWith", "salary"}, "select", TRUE,
            <<Choice("Professional network", {"professional"}), Choice("Job board", {})>>)>>}

Nothing == [t \in {Subjects[i] : i \in DOMAIN Subjects} \ {"workAuth"} |->
              IF t \in {"latinAmerican", "saasProduct", "cloudCertification"} THEN "no" ELSE "none"]
MCProfiles == {
    [facts |-> {"github", "firstName", "location"}, visa |-> "none", arrangement |-> "remote",
     needs |-> TRUE, inUS |-> TRUE, inCanada |-> FALSE, relocate |-> FALSE,
     english |-> <<>>, says |-> [Nothing EXCEPT !["noticePeriod"] = "yes", !["salary"] = "under80"]],
    [facts |-> {"linkedin"}, visa |-> "need_sponsorship", arrangement |-> "onsite",
     needs |-> TRUE, inUS |-> FALSE, inCanada |-> FALSE, relocate |-> TRUE,
     english |-> <<"professional">>, says |-> Nothing],
    [facts |-> {}, visa |-> "need_sponsorship", arrangement |-> "none",
     needs |-> FALSE, inUS |-> FALSE, inCanada |-> TRUE, relocate |-> FALSE,
     english |-> <<"conversational">>, says |-> Nothing]}

MCIntents == {
    [format |-> "url", strategy |-> "behavioral", prose |-> TRUE],
    [format |-> "select_option", strategy |-> "batch_llm", prose |-> FALSE],
    [format |-> "empty_ok", strategy |-> "deterministic", prose |-> FALSE]}
=============================================================================
