--------------------------- MODULE ProfileWizard ---------------------------
(***************************************************************************)
(* The applicant's profile form: it saves itself 750 ms after the last     *)
(* edit, the "Save profile" button submits it, and a parsed resume fills   *)
(* it in.  Requests are not cancelled when the form moves on; only their   *)
(* answers are ignored.  One browser tab; the server's part is the profile *)
(* column of user_profiles.                                                *)
(*                                                                         *)
(* stored, acknowledged and excused are history variables.                   *)
(***************************************************************************)
EXTENDS Naturals, Sequences, SequencesExt

CONSTANTS
    Texts,       \* what the fields that no resume fills in may hold
    Empty,       \* those fields in a profile never saved
    Complete,    \* texts that complete the steps after the resume
    NoDraft,
    MaxChanges, MaxVisits, MaxFaults   \* bounds: edits and resumes, visits, failures

ASSUME WizardAssumption ==
    /\ Empty \in Texts /\ Complete \subseteq Texts
    /\ NoDraft \notin [text : Texts, resume : BOOLEAN, stamp : BOOLEAN]
    /\ MaxChanges \in Nat /\ MaxVisits \in Nat /\ MaxFaults \in Nat

VARIABLES
    row,           \* user_profiles.profile
    net,           \* requests sent, oldest first, until their answer is in
    cache,         \* the query cache's profile, NoDraft before it is fetched
    mounted,       \* the wizard is on screen
    draft, baseline, timer, submitting,   \* the wizard's own state
    leaving,       \* a submit was answered, its navigation is to come
    stored,        \* every profile the row has held
    acknowledged,  \* a submit was answered with success
    excused,       \* the form or its user did not wait, or a parse lost the profile
    changes, visits, faults

client == <<cache, mounted, draft, baseline, timer, submitting, leaving>>
count == <<changes, visits, faults>>
vars == <<row, net, client, stored, acknowledged, excused, count>>

\* resume: the fields that a parsed resume fills in are filled in; stamp stands
\* for profileSubmittedAt.
Draft == [text : Texts, resume : BOOLEAN, stamp : BOOLEAN]

\* live: the answer is for the form's current state.  cancelled: the effect was
\* cleaned up or the wizard unmounted.  gone: the page was reloaded.
\* The body of a PARSE is the row as its handler read it, NoDraft before that.
Request == [kind : {"PUT", "POST", "PARSE"}, body : Draft \cup {NoDraft},
            heard : {"live", "cancelled", "gone"}, answer : {"none", "ok", "error"}]

TypeOK ==
    /\ row \in Draft
    /\ net \in Seq(Request)
    /\ cache \in Draft \cup {NoDraft}
    /\ draft \in Draft \cup {NoDraft} /\ baseline \in Draft \cup {NoDraft}
    /\ mounted \in BOOLEAN /\ timer \in BOOLEAN /\ submitting \in BOOLEAN
    /\ leaving \in BOOLEAN
    /\ mounted = (draft # NoDraft) /\ mounted = (baseline # NoDraft)
    /\ stored \subseteq Draft
    /\ acknowledged \in BOOLEAN /\ excused \in BOOLEAN
    /\ changes \in 0..MaxChanges
    /\ visits \in 0..MaxVisits /\ faults \in 0..MaxFaults

Init ==
    /\ row \in [text : {Empty}, resume : BOOLEAN, stamp : {FALSE}]
    /\ net = <<>> /\ cache = NoDraft
    /\ mounted = FALSE /\ draft = NoDraft /\ baseline = NoDraft
    /\ timer = FALSE /\ submitting = FALSE /\ leaving = FALSE
    /\ stored = {row} /\ acknowledged = FALSE /\ excused = FALSE
    /\ changes = 0 /\ visits = 0 /\ faults = 0

-----------------------------------------------------------------------------

Quiet == ~timer /\ net = <<>>
Sent(kind, body) ==
    net' = Append(net, [kind |-> kind, body |-> body, heard |-> "live",
                        answer |-> "none"])
Heard(r, how) == [r EXCEPT !.heard = IF @ = "gone" THEN @ ELSE how]

Unmount ==
    /\ mounted' = FALSE /\ draft' = NoDraft /\ baseline' = NoDraft
    /\ timer' = FALSE /\ submitting' = FALSE
    /\ net' = [i \in DOMAIN net |-> Heard(net[i], "cancelled")]

\* The side panel or the wizard itself asks for the profile.
Fetch ==
    /\ cache = NoDraft
    /\ cache' = row
    /\ UNCHANGED <<row, net, mounted, draft, baseline, timer, submitting, leaving, stored,
                   acknowledged, excused, count>>

\* The wizard opens with the cached profile, however old.
Hydrate ==
    /\ ~mounted /\ cache # NoDraft /\ visits < MaxVisits
    /\ draft' = cache /\ baseline' = cache
    /\ mounted' = TRUE
    /\ visits' = visits + 1
    /\ UNCHANGED <<row, net, cache, timer, submitting, leaving, stored, acknowledged, excused,
                   changes, faults>>

\* Mutant: no new timer while a save is under way.
DirtyAndIdle == draft' # baseline /\ net = <<>>
Dirty == draft' # baseline

\* A new draft cancels what the previous one had under way and starts the timer
\* anew, unless it is the baseline.
NewDraft(new, requests) ==
    /\ draft' = new
    /\ timer' = Dirty
    /\ net' = [i \in DOMAIN requests |->
                  IF requests[i].kind = "PUT" THEN Heard(requests[i], "cancelled")
                  ELSE requests[i]]

Parsing == \E i \in DOMAIN net : net[i].kind = "PARSE"

Edit(text) ==
    /\ mounted /\ changes < MaxChanges
    /\ NewDraft([draft EXCEPT !.text = text], net)
    /\ excused' = (excused \/ submitting \/ Parsing \/ (draft # baseline /\ draft' = baseline))
    /\ changes' = changes + 1
    /\ UNCHANGED <<row, cache, mounted, baseline, submitting, leaving, stored, acknowledged,
                   visits, faults>>

\* The user uploads or pastes a resume.
ParseResume ==
    /\ mounted /\ changes < MaxChanges
    /\ Sent("PARSE", NoDraft)
    /\ changes' = changes + 1
    /\ excused' = (excused \/ submitting \/ ~Quiet)
    /\ UNCHANGED <<row, client, stored, acknowledged, visits, faults>>

\* 750 ms without an edit.
Autosave ==
    /\ timer
    /\ timer' = FALSE
    /\ Sent("PUT", draft)
    /\ UNCHANGED <<row, cache, mounted, draft, baseline, submitting, leaving, stored,
                   acknowledged, excused, count>>

\* The button is enabled when every step is complete.  The draft on the screen
\* stays as it is; the timer keeps running.
Submit ==
    /\ mounted /\ ~submitting /\ draft.text \in Complete /\ draft.resume
    /\ submitting' = TRUE
    /\ Sent("POST", [draft EXCEPT !.stamp = TRUE])
    /\ excused' = (excused \/ ~Quiet)
    /\ UNCHANGED <<row, cache, mounted, draft, baseline, timer, leaving, stored, acknowledged,
                   count>>

\* The server handles a request: both methods replace the whole profile, and a
\* POST stamps it.  Out of order (a 401 is refreshed and sent again) or with an
\* error, before or after the write, is a fault.
Stored(r) == IF r.kind = "POST" THEN [r.body EXCEPT !.stamp = TRUE] ELSE r.body
upsertProfile(i) ==
    /\ net[i].kind # "PARSE" /\ net[i].answer = "none"
    /\ \E answer \in {"ok", "error"}, writes \in BOOLEAN :
          /\ answer = "ok" => writes
          /\ faults' = faults + (IF answer = "ok" /\ \A k \in 1..(i - 1) :
                                        net[k].kind # "PARSE" => net[k].answer # "none"
                                 THEN 0 ELSE 1)
          /\ net' = [net EXCEPT ![i].answer = answer]
          /\ row' = IF writes THEN Stored(net[i]) ELSE row
    /\ faults' <= MaxFaults
    /\ stored' = stored \cup {row'}
    /\ UNCHANGED <<client, acknowledged, excused, changes, visits>>

\* The resume handlers read the profile, before or after the language model is
\* asked, and write it back with the parsed fields.  They go on without the
\* profile when it cannot be read.
Fresh == [text |-> Empty, resume |-> FALSE, stamp |-> FALSE]
ParseRead(i) ==
    /\ net[i].kind = "PARSE" /\ net[i].body = NoDraft
    /\ \/ /\ net' = [net EXCEPT ![i].body = row]
          /\ UNCHANGED <<excused, faults>>
       \/ /\ net' = [net EXCEPT ![i].body = Fresh]
          /\ excused' = TRUE
          /\ faults' = faults + 1
    /\ faults' <= MaxFaults
    /\ UNCHANGED <<row, client, stored, acknowledged, changes, visits>>

ParseWrite(i) ==
    /\ net[i].kind = "PARSE" /\ net[i].body # NoDraft /\ net[i].answer = "none"
    /\ \/ /\ row' = [net[i].body EXCEPT !.resume = TRUE]
          /\ net' = [net EXCEPT ![i].answer = "ok"]
          /\ UNCHANGED faults
       \/ /\ row' = row
          /\ net' = [net EXCEPT ![i].answer = "error"]
          /\ faults' = faults + 1
    /\ faults' <= MaxFaults
    /\ stored' = stored \cup {row'}
    /\ UNCHANGED <<client, acknowledged, excused, changes, visits>>

\* Mutant: an error counts as saved.
Heeded(r) == r.heard = "live"
Usable(r) == r.heard = "live" /\ r.answer = "ok"

\* The answer to an autosave is used if the form has not changed since.
AutosaveAnswered(i) ==
    /\ net[i].kind = "PUT" /\ net[i].answer # "none"
    /\ IF Usable(net[i])
       THEN baseline' = net[i].body /\ cache' = net[i].body
       ELSE UNCHANGED <<baseline, cache>>
    /\ net' = RemoveAt(net, i)
    /\ UNCHANGED <<row, mounted, draft, timer, submitting, leaving, stored, acknowledged,
                   excused, count>>

\* Mutant: the form's own draft is kept, not the one that was submitted.
Unprepared(r) == [r.body EXCEPT !.stamp = FALSE]
Prepared(r) == r.body

\* The answer to a submit is used even after the wizard is gone from the screen.
SubmitAnswered(i) ==
    /\ net[i].kind = "POST" /\ net[i].answer # "none"
    /\ IF net[i].answer = "ok" /\ net[i].heard # "gone"
       THEN /\ baseline' = IF net[i].heard = "live" THEN Prepared(net[i]) ELSE baseline
            /\ cache' = Prepared(net[i])
            /\ leaving' = TRUE /\ acknowledged' = TRUE
            /\ UNCHANGED submitting
       ELSE /\ submitting' = (submitting /\ net[i].heard # "live")
            /\ UNCHANGED <<baseline, cache, leaving, acknowledged>>
    /\ net' = RemoveAt(net, i)
    /\ UNCHANGED <<row, mounted, draft, timer, stored, excused, count>>

\* The parsed fields go into the form as it is by then, if it is still there.
ParseAnswered(i) ==
    /\ net[i].kind = "PARSE" /\ net[i].answer # "none"
    /\ IF net[i].heard = "live" /\ net[i].answer = "ok"
       THEN NewDraft([draft EXCEPT !.resume = TRUE], RemoveAt(net, i))
       ELSE net' = RemoveAt(net, i) /\ UNCHANGED <<draft, timer>>
    /\ UNCHANGED <<row, cache, mounted, baseline, submitting, leaving, stored, acknowledged,
                   excused, count>>

\* The submit's navigation to the overview.
Navigate ==
    /\ leaving /\ leaving' = FALSE
    /\ Unmount
    /\ UNCHANGED <<row, cache, stored, acknowledged, excused, count>>

\* The user goes to another page of the app.
Leave ==
    /\ mounted
    /\ Unmount
    /\ excused' = (excused \/ ~Quiet \/ leaving)
    /\ UNCHANGED <<row, cache, leaving, stored, acknowledged, count>>

\* The page is reloaded: the cache is lost, requests on their way are not.
Reload ==
    /\ cache # NoDraft
    /\ mounted' = FALSE /\ draft' = NoDraft /\ baseline' = NoDraft
    /\ timer' = FALSE /\ submitting' = FALSE
    /\ net' = [i \in DOMAIN net |-> Heard(net[i], "gone")]
    /\ cache' = NoDraft /\ leaving' = FALSE
    /\ excused' = (excused \/ ~Quiet)
    /\ UNCHANGED <<row, stored, acknowledged, count>>

-----------------------------------------------------------------------------

Answered ==
    \E i \in DOMAIN net : AutosaveAnswered(i) \/ SubmitAnswered(i) \/ ParseAnswered(i)
Handled == \E i \in DOMAIN net : upsertProfile(i) \/ ParseRead(i) \/ ParseWrite(i)

Next ==
    \/ Fetch \/ Hydrate \/ Autosave \/ Submit \/ Navigate \/ Leave \/ Reload
    \/ (\E text \in Texts : Edit(text)) \/ ParseResume
    \/ Handled \/ Answered

\* Timers fire, requests are handled and answered, navigations happen; what the
\* user does is up to the user.
Spec ==
    /\ Init /\ [][Next]_vars
    /\ WF_vars(Autosave) /\ WF_vars(Handled) /\ WF_vars(Answered) /\ WF_vars(Navigate)

-----------------------------------------------------------------------------

\* What the app takes for the saved profile, the cache and the wizard's
\* baseline, has been in the database: no answer to an earlier or failed request
\* of the form makes it believe otherwise.
SavedWasStored == {cache, baseline} \ {NoDraft} \subseteq stored

\* With the shape of the state: what a form that comes back starts from.
SavedInv == TypeOK /\ SavedWasStored

\* Without failed or overtaken requests, and with a user who waits for a save
\* before going back on an edit, uploading, leaving or submitting, and for a
\* resume before editing, the form's last state
\* reaches the database although edits overlap saves that are still under way.
FormIsSaved ==
    [](~excused /\ faults = 0) =>
        <>[](mounted => row.text = draft.text /\ row.resume = draft.resume)

\* Once a submit was answered with success the row keeps its profileSubmittedAt,
\* through later visits, edits, reloads and failed saves, for such a user.
SubmissionStays == acknowledged /\ ~excused => row.stamp

\* profileCompletion.ts:70 on isProfileSubmitted: "True after the user has
\* clicked Save profile at least once."
SubmissionIsRemembered == acknowledged => row.stamp
=============================================================================
