----------------------------- MODULE Discovery -----------------------------
(***************************************************************************)
(* The crawler: it searches for postings, skips those it knows, reads the  *)
(* others from their job boards, stores each with its form and queues it   *)
(* for matching; and the tool that reads forms again.  Two crawlers may    *)
(* overlap, as a run started by hand and a scheduled one do.               *)
(*                                                                         *)
(* A listing is an address of a posting, its host and its path.  Nothing   *)
(* unifies a posting's addresses: one on both of Greenhouse's hosts is two *)
(* listings.  A link is a listing and a suffix the address may have.       *)
(* Matching takes over from the queue, FormAnswers the forms.              *)
(***************************************************************************)
EXTENDS Integers, Sequences, FiniteSets, Functions, Positions

CONSTANTS
    Crawlers, Listings,
    Source,      \* listing -> its job board
    Queries,     \* search queries by priority: the links each finds
    Controls,    \* listing -> the controls of its application page
    Readings,    \* listing -> the forms the language model may read there
    Legacy,      \* links stored with their suffix, before that was cut off
    Removed,     \* listings that are no longer on their boards
    NoJob,       \* no row
    MaxScrapes,
    MaxFaults, MaxCrashes   \* bounds

FieldTypes == {"text", "file", "textarea", "select", "email", "tel"}
Control == [label : STRING, type : FieldTypes, required : BOOLEAN, card : BOOLEAN]
\* The model may name any type: "other" is what no other code knows.
FieldSet == [label : STRING, type : FieldTypes \cup {"checkbox", "radio", "other"},
             required : BOOLEAN]

ASSUME ListingsAssumption ==
    /\ DOMAIN Source = Listings
    /\ DOMAIN Controls = Listings /\ \A p \in Listings : Controls[p] \in Seq(Control)
    /\ DOMAIN Readings = Listings /\ \A p \in Listings : Readings[p] \subseteq Seq(FieldSet)
    /\ Removed \subseteq Listings
ASSUME QueriesAssumption ==
    /\ Len(Queries) \in Nat /\ DOMAIN Queries = 1..Len(Queries)
    /\ \A q \in DOMAIN Queries :
         Len(Queries[q]) \in Nat /\ DOMAIN Queries[q] = 1..Len(Queries[q])
ASSUME BoundsAssumption ==
    MaxScrapes \in Nat \ {0} /\ MaxFaults \in Nat /\ MaxCrashes \in Nat

VARIABLES
    jobs,     \* listing -> its row's form, or NoJob
    guessed,  \* listings whose row's form the language model read
    pushed,   \* listing -> process jobs pushed for it
    resent,   \* listings whose push the client repeated, as its reply was lost
    crawl,    \* crawler -> where it is in its run
    lost,     \* listings whose push failed, or was never come to
    faults, crashes

vars == <<jobs, guessed, pushed, resent, crawl, lost, faults, crashes>>

Supported == {"greenhouse", "lever", "ashby"}
Idle == [at |-> "idle", query |-> 0, links |-> <<>>, queue |-> <<>>, scraped |-> <<>>,
         form |-> <<>>, browser |-> FALSE]

-----------------------------------------------------------------------------
(* Links and forms.                                                         *)

NormalizeListingURL(link) == link.listing
DetectSource(link) == link.listing \in Listings /\ Source[link.listing] \in Supported
FilterATSJobURLs(links) ==
    LET normal == [i \in DOMAIN links |-> NormalizeListingURL(links[i])]
    IN  Picked(normal, {i \in DOMAIN links :
            DetectSource(links[i]) /\ \A j \in 1..(i - 1) : normal[j] # normal[i]})

\* The listings among each query's links.
Listed == [q \in DOMAIN Queries |-> FilterATSJobURLs(Queries[q])]

mapGreenhouseFieldType(type) ==
    CASE type \in {"file", "textarea", "select"} -> type [] OTHER -> "text"
mapAshbyFieldType(type) ==
    CASE type \in {"file", "email", "tel", "textarea", "select"} -> type [] OTHER -> "text"
mapLeverInputType(type) == IF type \in {"file", "email", "tel"} THEN type ELSE "text"
mapLeverCustomFieldType(type) == IF type \in {"textarea", "select"} THEN type ELSE "text"

Upload(label) == label \in {"resume", "cover letter"}
\* One of several fields with a label.
pickPreferredFormField(fields, same) ==
    LET files == {i \in same : fields[i].type = "file"}
        short == {i \in same : fields[i].type # "textarea"}
    IN  fields[First(IF Upload(fields[First(same)].label) /\ files # {} THEN files
                     ELSE IF short # {} THEN short ELSE same)]

\* mutant: fields are taken as they come
DedupeNothing(fields) == fields

\* One field a label, in the order in which the labels first come.
DedupeFormFieldsByLabel(fields) ==
    LET Same(i) == {j \in DOMAIN fields : fields[j].label = fields[i].label}
    IN  Picked([i \in DOMAIN fields |-> pickPreferredFormField(fields, Same(i))],
               {i \in DOMAIN fields : i = First(Same(i))})

Field(c, type) == [label |-> c.label, type |-> type, required |-> c.required]
Labelled(c) == c.label # ""
\* The fields of some of a page's controls.
FieldsOf(page, positions, Type(_)) ==
    Picked([i \in DOMAIN page |-> Field(page[i], Type(page[i].type))], positions)

LabelledOf(page) == {i \in DOMAIN page : Labelled(page[i])}
greenhouseFormFields(page) ==
    DedupeFormFieldsByLabel(FieldsOf(page, LabelledOf(page), mapGreenhouseFieldType))
ashbyFormFieldsFromApplyHTML(page) ==
    DedupeFormFieldsByLabel(FieldsOf(page, LabelledOf(page), mapAshbyFieldType))

\* A question with no input element, a text area or a list, is not read, nor is
\* the link to LinkedIn; the controls of custom cards are read from the cards.
Standard(c) ==
    ~c.card /\ c.label \notin {"", "linkedin profile"} /\ c.type \notin {"textarea", "select"}
Custom(c) == c.card /\ Labelled(c)
leverFormFieldsFromApplyHTML(page) ==
    DedupeFormFieldsByLabel(
        FieldsOf(page, {i \in DOMAIN page : Standard(page[i])}, mapLeverInputType)
        \o FieldsOf(page, {i \in DOMAIN page : Custom(page[i])}, mapLeverCustomFieldType))

\* What a board's interface yields of a listing that is there.  Greenhouse's has
\* the form; the other forms are on a page that may not load or be understood.
Forms == [p \in Listings |->
    CASE Source[p] = "greenhouse" -> {greenhouseFormFields(Controls[p])}
      [] Source[p] = "lever" -> {leverFormFieldsFromApplyHTML(Controls[p]), <<>>}
      [] OTHER -> {ashbyFormFieldsFromApplyHTML(Controls[p]), <<>>}]

\* A language model is shown the text of the browser's page, without its tags and
\* cut off, and answers what it likes; without an answer there are no fields.
extractFormFields == [p \in Listings |-> Readings[p] \cup {<<>>}]

\* NoJob is told from every form a row may have.
ASSUME NoJobAssumption ==
    /\ NoJob # <<>>
    /\ \A p \in Listings : \A form \in Forms[p] \cup extractFormFields[p] :
         DedupeFormFieldsByLabel(form) # NoJob

-----------------------------------------------------------------------------
(* The crawler.                                                             *)

Init ==
    /\ jobs = [p \in Listings |-> NoJob] /\ guessed = {}
    /\ pushed = [p \in Listings |-> 0] /\ resent = {}
    /\ crawl = [c \in Crawlers |-> Idle]
    /\ lost = {} /\ faults = 0 /\ crashes = 0

At(c, at) == crawl[c].at = at
Item(c) == Head(crawl[c].queue)
Goes(c, at) == crawl' = [crawl EXCEPT ![c].at = at]
NextItem(c) ==
    crawl' = [crawl EXCEPT ![c].at = "item", ![c].queue = Tail(@), ![c].form = <<>>,
                           ![c].browser = FALSE]
Fault == faults < MaxFaults /\ faults' = faults + 1
Tables == <<jobs, guessed, pushed, resent, lost, crashes>>

\* mutant: rows from before are not found
LookupByAddress(p) == jobs[p] # NoJob

\* Of the rows from before, those of Ashby's forms are found.
Known == {p \in Listings : [listing |-> p, suffix |-> "/application"] \in Legacy}
LookupDiscoveredJobID(p) == jobs[p] # NoJob \/ p \in Known

Run(c) ==
    /\ At(c, "idle") /\ crawl' = [crawl EXCEPT ![c] = [Idle EXCEPT !.at = "search", !.query = 1]]
    /\ UNCHANGED <<Tables, faults>>

More(c) == crawl[c].query <= Len(Queries) /\ Len(crawl[c].queue) < MaxScrapes
NextQuery(c, queue) ==
    crawl' = [crawl EXCEPT ![c].at = "search", ![c].query = @ + 1, ![c].links = <<>>,
                           ![c].queue = queue]

SearchGoogle(c) ==
    /\ At(c, "search")
    /\ \/ ~More(c) /\ Goes(c, "item") /\ UNCHANGED faults
       \/ /\ More(c)
          /\ crawl' = [crawl EXCEPT ![c].at = "dedup", ![c].links = Listed[crawl[c].query]]
          /\ UNCHANGED faults
       \/ More(c) /\ Fault /\ NextQuery(c, crawl[c].queue)
    /\ UNCHANGED Tables

NewIn(queue, links) ==
    {i \in DOMAIN links : ~LookupDiscoveredJobID(links[i]) /\ links[i] \notin Range(queue)}

\* mutant: the limit counts known listings too
QueueAll(queue, links) ==
    queue \o Picked(links, NewIn(queue, links) \cap 1..(MaxScrapes - Len(queue)))

\* The new ones of a query's listings, behind those of the queries before.
Queued(queue, links) ==
    LET all == queue \o Picked(links, NewIn(queue, links))
    IN  IF Len(all) <= MaxScrapes THEN all ELSE SubSeq(all, 1, MaxScrapes)

\* All lookups of one query; an error of one ends the run.
DedupJobURLs(c) ==
    /\ At(c, "dedup")
    /\ \/ NextQuery(c, Queued(crawl[c].queue, crawl[c].links)) /\ UNCHANGED faults
       \/ Fault /\ crawl' = [crawl EXCEPT ![c] = Idle]
    /\ UNCHANGED Tables

NextPosting(c) ==
    /\ At(c, "item")
    /\ IF crawl[c].queue = <<>>
       THEN crawl' = [crawl EXCEPT ![c] = Idle] /\ UNCHANGED faults
       ELSE \/ LookupDiscoveredJobID(Item(c)) /\ NextItem(c) /\ UNCHANGED faults
            \/ ~LookupDiscoveredJobID(Item(c)) /\ Goes(c, "scrape") /\ UNCHANGED faults
            \/ Fault /\ NextItem(c)
    /\ UNCHANGED Tables

Scraped(c, form, browser) ==
    crawl' = [crawl EXCEPT ![c].at = "store", ![c].form = form, ![c].browser = browser,
                           ![c].scraped = Append(@, Item(c))]

\* A listing that its board says is gone is not looked for with the browser; one
\* that the board says nothing about is.
ScrapeAndEnrichJob(c) ==
    /\ At(c, "scrape")
    /\ \/ Item(c) \in Removed /\ NextItem(c) /\ UNCHANGED faults
       \/ /\ Item(c) \notin Removed
          /\ \E form \in Forms[Item(c)] : Scraped(c, form, FALSE)
          /\ UNCHANGED faults
       \/ /\ Fault
          /\ \/ \E form \in extractFormFields[Item(c)] : Scraped(c, form, TRUE)
             \/ NextItem(c)
    /\ UNCHANGED Tables

Stores(c) ==
    /\ jobs[Item(c)] = NoJob
    /\ jobs' = [jobs EXCEPT ![Item(c)] = DedupeFormFieldsByLabel(crawl[c].form)]
    /\ guessed' = IF crawl[c].browser THEN guessed \cup {Item(c)} ELSE guessed
StoresNot == UNCHANGED <<jobs, guessed>>

\* mutants: who did not store the listing queues it as well; the row is stored
\* although its fields are not
InsertAndPush(c) ==
    /\ At(c, "store")
    /\ \/ Stores(c) /\ Goes(c, "push") /\ UNCHANGED faults
       \/ jobs[Item(c)] # NoJob /\ StoresNot /\ Goes(c, "push") /\ UNCHANGED faults
       \/ Fault /\ NextItem(c) /\ StoresNot
    /\ UNCHANGED <<pushed, resent, lost, crashes>>
InsertInSteps(c) ==
    /\ At(c, "store")
    /\ \/ jobs[Item(c)] # NoJob /\ NextItem(c) /\ StoresNot /\ UNCHANGED faults
       \/ Stores(c) /\ Goes(c, "push") /\ UNCHANGED faults
       \/ /\ jobs[Item(c)] = NoJob /\ Fault /\ NextItem(c)
          /\ jobs' = [jobs EXCEPT ![Item(c)] = <<>>] /\ UNCHANGED guessed
    /\ UNCHANGED <<pushed, resent, lost, crashes>>

\* One transaction, after the embeddings were made; who finds a row moves on.  A
\* commit may be carried out although it is answered with an error.
InsertDiscoveredJob(c) ==
    /\ At(c, "store")
    /\ \/ jobs[Item(c)] # NoJob /\ NextItem(c) /\ StoresNot /\ UNCHANGED <<lost, faults>>
       \/ Stores(c) /\ Goes(c, "push") /\ UNCHANGED <<lost, faults>>
       \/ Fault /\ NextItem(c) /\ StoresNot /\ UNCHANGED lost
       \/ Fault /\ NextItem(c) /\ Stores(c) /\ lost' = lost \cup {Item(c)}
    /\ UNCHANGED <<pushed, resent, crashes>>

\* A push may be lost, and one whose reply is lost is in the queue nevertheless,
\* twice if the client repeats it.
EnqueueProcessJob(c) ==
    LET Pushes(n) == pushed' = [pushed EXCEPT ![Item(c)] = @ + n]
    IN
    /\ At(c, "push")
    /\ \/ Pushes(1) /\ UNCHANGED <<resent, lost, faults>>
       \/ Fault /\ Pushes(1) /\ UNCHANGED <<resent, lost>>
       \/ Fault /\ Pushes(2) /\ resent' = resent \cup {Item(c)} /\ UNCHANGED lost
       \/ Fault /\ UNCHANGED <<pushed, resent>> /\ lost' = lost \cup {Item(c)}
    /\ NextItem(c)
    /\ UNCHANGED <<jobs, guessed, crashes>>

Crash(c) ==
    /\ ~At(c, "idle") /\ crashes < MaxCrashes /\ crashes' = crashes + 1
    /\ lost' = IF At(c, "push") THEN lost \cup {Item(c)} ELSE lost
    /\ crawl' = [crawl EXCEPT ![c] = Idle]
    /\ UNCHANGED <<jobs, guessed, pushed, resent, faults>>

\* The tool reads a listing's form again, of all rows without one or of the row
\* it is given, if its posting is there and the form has fields.  The address of
\* a legacy row is not understood (backfill-form-fields/main.go:87).
ReadAgain == [p \in Listings |-> {DedupeFormFieldsByLabel(form) : form \in Forms[p] \ {<<>>}}]
ReplaceJobFormFields(p) ==
    /\ jobs[p] # NoJob /\ p \notin Removed
    /\ \E form \in ReadAgain[p] : jobs' = [jobs EXCEPT ![p] = form]
    /\ guessed' = guessed \ {p}
    /\ UNCHANGED <<pushed, resent, crawl, lost, faults, crashes>>

Crawls(c) ==
    \/ Run(c) \/ SearchGoogle(c) \/ DedupJobURLs(c) \/ NextPosting(c)
    \/ ScrapeAndEnrichJob(c) \/ InsertDiscoveredJob(c) \/ EnqueueProcessJob(c)

Next ==
    \/ \E c \in Crawlers : Crawls(c) \/ Crash(c)
    \/ \E p \in Listings : ReplaceJobFormFields(p)

\* The crawler is started again and again, and its calls end.
Spec == Init /\ [][Next]_vars /\ \A c \in Crawlers : WF_vars(Crawls(c))

-----------------------------------------------------------------------------
(* Properties.                                                              *)

Places == {"idle", "search", "dedup", "item", "scrape", "store", "push"}

\* The state's shape; what is queued for reading is a listing of a known board.
TypeOK ==
    /\ \A p \in Listings : jobs[p] = NoJob \/ jobs[p] \in Seq(FieldSet)
    /\ guessed \subseteq Listings
    /\ pushed \in [Listings -> Nat] /\ resent \subseteq Listings /\ lost \subseteq Listings
    /\ \A c \in Crawlers :
         /\ crawl[c].at \in Places /\ crawl[c].query \in 0..(Len(Queries) + 1)
         /\ crawl[c].links \in Seq(Listings) /\ crawl[c].queue \in Seq(Listings)
         /\ At(c, "scrape") \/ At(c, "store") \/ At(c, "push") => crawl[c].queue # <<>>
         /\ crawl[c].form \in Seq(FieldSet) /\ crawl[c].browser \in BOOLEAN
    /\ faults \in 0..MaxFaults /\ crashes \in 0..MaxCrashes

\* A listing whose row is from before and ends in "/application" never gets a
\* second one, whichever suffix it is found with: a crawler looks it up before it
\* reads it.  (One with another suffix, or found on another host, does get one.)
OneRowPerAddress == \A p \in Known : jobs[p] = NoJob

\* A listing is queued for matching only when it is stored, and by one crawler,
\* although two find it and either may be the one to store it: it is in the queue
\* once, or twice if the client repeated that one push.
QueuedOnce ==
    \A p \in Listings : /\ pushed[p] <= IF p \in resent THEN 2 ELSE 1
                        /\ pushed[p] > 0 => jobs[p] # NoJob

\* A stored listing that nobody is about to queue has been queued, or is lost: its
\* push failed, its crawler died right after the commit, or the commit was carried
\* out and answered with an error.  No other error leaves a row that later runs
\* take for known.
StoredIsQueuedOrLost ==
    \A p \in Listings :
        jobs[p] # NoJob /\ pushed[p] = 0 =>
            p \in lost \/ \E c \in Crawlers : At(c, "push") /\ Item(c) = p

\* A stored form asks each question once, by whichever way it was read: what
\* FormAnswers assumes of its forms.  One that a board's reader read asks as a
\* control of its page does, and for an uploaded document with a file if the page
\* does (but a file that a custom card asks for is read as a text); of what the
\* language model reads that is not known.
FormAsksOnce ==
    \A p \in Listings : jobs[p] # NoJob =>
        /\ \A i, j \in DOMAIN jobs[p] : jobs[p][i].label = jobs[p][j].label => i = j
        /\ p \notin guessed => \A i \in DOMAIN jobs[p] :
             LET of == {c \in Range(Controls[p]) : c.label = jobs[p][i].label}
             IN  /\ \E c \in of : c.required = jobs[p][i].required
                 /\ Upload(jobs[p][i].label) /\ (\E c \in of : c.type = "file" /\ ~c.card) =>
                        jobs[p][i].type = "file"

\* A run reads no more listings than its limit, and none twice although several
\* queries find it.
ScrapesBounded ==
    \A c \in Crawlers :
        /\ Len(crawl[c].scraped) + Len(crawl[c].queue) <= MaxScrapes + 1
        /\ Len(crawl[c].scraped) <= MaxScrapes
        /\ \A i, j \in DOMAIN crawl[c].scraped : crawl[c].scraped[i] = crawl[c].scraped[j] => i = j

\* What a crawler holds and has stored are listings, each once, within its limit.
CrawlInv == TypeOK /\ OneRowPerAddress /\ ScrapesBounded

\* Every listing that the queries find and that is on its board is stored in the
\* end, and queued unless it is lost, although the limit cuts runs short and
\* listings that are gone take up part of it in every run: there are fewer of
\* them than it allows.
Found == {p \in Listings : \E q \in DOMAIN Queries :
            \E i \in DOMAIN Queries[q] : DetectSource(Queries[q][i]) /\ Queries[q][i].listing = p}
FoundIsStored ==
    \A p \in Found \ (Known \cup Removed) : <>(jobs[p] # NoJob /\ (pushed[p] > 0 \/ p \in lost))
=============================================================================
