---------------------------- MODULE MCDiscovery ----------------------------
(* Discovery with a listing of each board, one that is gone, one stored long  *)
(* ago under its form's address and one (Lever's) under an address that is    *)
(* not found; the limit of a run is smaller than what its two queries find.   *)
EXTENDS Discovery

MCListings == {"g", "l", "a", "gone", "old"}
MCSource == [g |-> "greenhouse", l |-> "lever", a |-> "ashby", gone |-> "lever", old |-> "ashby"]

Link(listing, suffix) == [listing |-> listing, suffix |-> suffix]
MCLegacy == {Link("old", "/application"), Link("l", "/apply")}
MCQueries ==
    << <<Link("blog", ""), Link("old", ""), Link("g", ""), Link("g", "/")>>,
       <<Link("g", ""), Link("gone", "/apply"), Link("l", "/apply"), Link("a", "/application")>> >>

Asks(label, type, required, card) ==
    [label |-> label, type |-> type, required |-> required, card |-> card]
MCControls ==
    [g |-> <<Asks("resume", "textarea", TRUE, FALSE), Asks("resume", "file", TRUE, FALSE),
             Asks("", "text", FALSE, FALSE)>>,
     l |-> <<Asks("linkedin profile", "text", FALSE, FALSE), Asks("more", "textarea", FALSE, FALSE),
             Asks("country", "select", TRUE, FALSE), Asks("salary", "select", TRUE, TRUE),
             Asks("salary", "textarea", FALSE, TRUE), Asks("resume", "file", TRUE, FALSE),
             Asks("resume", "file", FALSE, TRUE), Asks("cover letter", "file", FALSE, TRUE)>>,
     a |-> <<Asks("phone", "tel", TRUE, FALSE)>>,
     gone |-> <<>>, old |-> <<>>]

\* What the language model makes of a page: a question twice, one that is not
\* asked, a document as a text and a type that no other code knows.
Reads(label, type, required) == [label |-> label, type |-> type, required |-> required]
MCReadings ==
    [p \in MCListings |->
        IF p = "l" THEN {<<Reads("resume", "text", FALSE), Reads("salary", "radio", TRUE),
                           Reads("salary", "text", TRUE), Reads("your name", "other", TRUE)>>}
        ELSE IF p = "gone" THEN {<<Reads("search", "text", FALSE)>>} ELSE {}]
=============================================================================
