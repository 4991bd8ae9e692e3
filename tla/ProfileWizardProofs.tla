------------------------ MODULE ProfileWizardProofs ------------------------
(***************************************************************************)
(* Theorems about ProfileWizard for any texts and bounds: what the app     *)
(* takes for saved was saved, and a submitted profile keeps its stamp.     *)
(***************************************************************************)
EXTENDS ProfileWizard, Integers, SequenceTheorems, TLAPS

-----------------------------------------------------------------------------
(* Requests.                                                                *)

\* The request that leaves the net is the only one to leave it.
LEMMA Removed ==
    ASSUME NEW S, NEW seq \in Seq(S), NEW i \in DOMAIN seq
    PROVE  /\ RemoveAt(seq, i) \in Seq(S) /\ Len(RemoveAt(seq, i)) = Len(seq) - 1
           /\ \A j \in DOMAIN RemoveAt(seq, i) :
                \E k \in DOMAIN seq : k # i /\ RemoveAt(seq, i)[j] = seq[k]
<1> DEFINE a == SubSeq(seq, 1, i - 1)  b == SubSeq(seq, i + 1, Len(seq))  out == a \o b
<1>1. Len(seq) \in Nat /\ i \in 1..Len(seq) /\ i \in Int /\ DOMAIN seq = 1..Len(seq)
  OBVIOUS
<1>2. a \in Seq(S) /\ Len(a) = i - 1 /\ \A j \in 1..(i - 1) : a[j] = seq[j]
  BY <1>1
<1>3. b \in Seq(S) /\ Len(b) = Len(seq) - i /\ \A j \in 1..(Len(seq) - i) : b[j] = seq[i + j]
  BY <1>1
<1> HIDE DEF a, b
<1> DEFINE n == Len(seq) - 1
<1>4. n \in Nat /\ Len(a) + Len(b) = n
  BY <1>1, <1>2, <1>3
<1>5. /\ out \in Seq(S) /\ Len(out) = n
      /\ \A j \in 1..n : out[j] = IF j <= Len(a) THEN a[j] ELSE b[j - Len(a)]
  BY <1>2, <1>3, <1>4, ConcatProperties
<1> HIDE DEF out, n
<1>6. ASSUME NEW j \in 1..n
      PROVE  \E k \in DOMAIN seq : k # i /\ out[j] = seq[k]
  <2>1. n = Len(seq) - 1 /\ j \in Int
    BY <1>4 DEF n
  <2>2. CASE j <= i - 1
    <3>1. j \in 1..(i - 1) /\ j \in 1..Len(seq) /\ j # i
      BY <1>1, <2>1, <2>2
    <3>2. out[j] = a[j]
      BY <1>2, <1>5, <2>2
    <3> QED BY <1>1, <1>2, <3>1, <3>2
  <2>3. CASE j > i - 1
    <3>1. j - (i - 1) \in 1..(Len(seq) - i) /\ j + 1 \in 1..Len(seq) /\ j + 1 # i
          /\ i + (j - (i - 1)) = j + 1 /\ ~(j <= i - 1)
      BY <1>1, <2>1, <2>3
    <3>2. out[j] = b[j - (i - 1)]
      BY <1>2, <1>5, <3>1
    <3>3. out[j] = seq[j + 1]
      BY <1>3, <3>1, <3>2
    <3> QED BY <1>1, <3>1, <3>3
  <2> QED BY <1>1, <2>1, <2>2, <2>3
<1>7. DOMAIN out = 1..n
  BY <1>4, <1>5
<1>8. RemoveAt(seq, i) = out
  BY DEF RemoveAt, a, b, out
<1> QED BY <1>5, <1>6, <1>7, <1>8 DEF n

\* The same requests, whatever is heard of them.
Muted(old, new) ==
    /\ DOMAIN new = DOMAIN old /\ new \in Seq(Request)
    /\ \A i \in DOMAIN old :
         /\ new[i].kind = old[i].kind /\ new[i].body = old[i].body
         /\ new[i].answer = old[i].answer /\ (new[i].heard = "live" => old[i].heard = "live")

LEMMA Muting ==
    ASSUME NEW old \in Seq(Request), NEW new, NEW who \in SUBSET DOMAIN old,
           NEW how \in {"cancelled", "gone"},
           new = [i \in DOMAIN old |-> IF i \in who THEN Heard(old[i], how) ELSE old[i]]
    PROVE  Muted(old, new) /\ \A i \in who : new[i].heard # "live"
<1>1. \A i \in DOMAIN old : old[i] \in Request
  OBVIOUS
<1>2. \A i \in DOMAIN old : /\ Heard(old[i], how) \in Request /\ Heard(old[i], how).heard # "live"
                            /\ Heard(old[i], how).kind = old[i].kind
                            /\ Heard(old[i], how).body = old[i].body
                            /\ Heard(old[i], how).answer = old[i].answer
  BY <1>1 DEF Heard, Request
<1>3. DOMAIN new = 1..Len(old) /\ Len(old) \in Nat /\ \A i \in DOMAIN old : new[i] \in Request
  BY <1>1, <1>2
<1>4. new \in Seq(Request)
  BY <1>3
<1> QED BY <1>2, <1>4 DEF Muted

-----------------------------------------------------------------------------
(* What is taken for saved.                                                 *)

\* A form's request carries a draft, a submit's a stamped one; answers are heard
\* only while the form is there, and one of success is about what was stored.
Sound(r, there, kept) ==
    /\ r.kind # "PARSE" => r.body \in Draft
    /\ r.kind = "POST" => r.body.stamp = TRUE
    /\ r.heard = "live" => there
    /\ r.kind # "PARSE" /\ r.answer = "ok" => r.body \in kept
AllSound(requests, there, kept) == \A i \in DOMAIN requests : Sound(requests[i], there, kept)

SavedIInv ==
    /\ TypeOK /\ row \in stored /\ SavedWasStored
    /\ timer => mounted
    /\ AllSound(net, mounted, stored)

LEMMA SavedInit == Init => SavedIInv
<1> SUFFICES ASSUME Init PROVE SavedIInv
  OBVIOUS
<1>1. row \in Draft
  BY WizardAssumption DEF Init, Draft
<1>2. TypeOK
  <2>1. net \in Seq(Request) /\ stored \subseteq Draft
    BY <1>1 DEF Init
  <2>2. 0 \in 0..MaxChanges /\ 0 \in 0..MaxVisits /\ 0 \in 0..MaxFaults
    BY WizardAssumption
  <2> QED BY <1>1, <2>1, <2>2 DEF Init, TypeOK
<1> QED BY <1>2 DEF Init, SavedIInv, SavedWasStored, AllSound

\* Requests stay sound when they are muted, answered from the net or joined by
\* others, and when more is stored.
LEMMA MutedSound ==
    ASSUME NEW there, NEW kept, NEW old, NEW new, AllSound(old, TRUE, kept), Muted(old, new),
           there \/ \A i \in DOMAIN new : new[i].heard # "live"
    PROVE  AllSound(new, there, kept)
BY DEF AllSound, Muted, Sound

LEMMA RemovedSound ==
    ASSUME NEW there, NEW kept, NEW old \in Seq(Request), AllSound(old, there, kept),
           NEW i \in DOMAIN old
    PROVE  AllSound(RemoveAt(old, i), there, kept) /\ RemoveAt(old, i) \in Seq(Request)
BY Removed DEF AllSound

LEMMA SentSound ==
    ASSUME NEW there, NEW kept, NEW old \in Seq(Request), AllSound(old, there, kept),
           NEW r \in Request, Sound(r, there, kept)
    PROVE  AllSound(Append(old, r), there, kept) /\ Append(old, r) \in Seq(Request)
<1>1. /\ Append(old, r) \in Seq(Request) /\ DOMAIN Append(old, r) = 1..(Len(old) + 1)
      /\ Len(old) \in Nat /\ DOMAIN old = 1..Len(old)
      /\ \A i \in 1..Len(old) : Append(old, r)[i] = old[i]
      /\ Append(old, r)[Len(old) + 1] = r
  OBVIOUS
<1>2. \A i \in 1..(Len(old) + 1) : i \in 1..Len(old) \/ i = Len(old) + 1
  BY <1>1
<1> HIDE DEF Sound
<1> QED BY <1>1, <1>2 DEF AllSound

LEMMA ChangedSound ==
    ASSUME NEW there, NEW kept, NEW more, NEW old \in Seq(Request), AllSound(old, there, kept),
           kept \subseteq more, NEW i \in DOMAIN old, NEW r \in Request, Sound(r, there, more),
           NEW new, new = [old EXCEPT ![i] = r]
    PROVE  AllSound(new, there, more) /\ new \in Seq(Request)
<1>1. /\ new \in Seq(Request) /\ DOMAIN new = DOMAIN old /\ new[i] = r
      /\ \A j \in DOMAIN old : j # i => new[j] = old[j]
  OBVIOUS
<1> QED BY <1>1 DEF AllSound, Sound

\* The steps of the form that send something.
LEMMA SendingSteps == SavedIInv /\ (ParseResume \/ Autosave \/ Submit) => SavedIInv'
<1> SUFFICES ASSUME SavedIInv, ParseResume \/ Autosave \/ Submit PROVE SavedIInv'
  OBVIOUS
<1> USE DEF client, count, Sent
<1>1. /\ TypeOK /\ mounted = TRUE /\ draft \in Draft /\ AllSound(net, mounted, stored)
      /\ net \in Seq(Request) /\ UNCHANGED <<row, stored, cache, mounted, draft, baseline>>
  BY DEF SavedIInv, TypeOK, ParseResume, Autosave, Submit
<1>2. \E r \in Request : Sound(r, TRUE, stored) /\ net' = Append(net, r)
  <2>1. CASE ParseResume
    <3> DEFINE r == [kind |-> "PARSE", body |-> NoDraft, heard |-> "live", answer |-> "none"]
    <3>1. r \in Request /\ Sound(r, TRUE, stored) /\ net' = Append(net, r)
      BY <2>1 DEF ParseResume, Request, Sound
    <3> QED BY <3>1
  <2>2. CASE Autosave
    <3> DEFINE r == [kind |-> "PUT", body |-> draft, heard |-> "live", answer |-> "none"]
    <3>1. r \in Request /\ Sound(r, TRUE, stored) /\ net' = Append(net, r)
      BY <1>1, <2>2 DEF Autosave, Request, Sound
    <3> QED BY <3>1
  <2>3. CASE Submit
    <3> DEFINE r == [kind |-> "POST", body |-> [draft EXCEPT !.stamp = TRUE], heard |-> "live",
                     answer |-> "none"]
    <3>1. [draft EXCEPT !.stamp = TRUE] \in Draft /\ [draft EXCEPT !.stamp = TRUE].stamp = TRUE
      BY <1>1 DEF Draft
    <3>2. r \in Request /\ Sound(r, TRUE, stored) /\ net' = Append(net, r)
      BY <2>3, <3>1 DEF Submit, Request, Sound
    <3> QED BY <3>2
  <2> QED BY <2>1, <2>2, <2>3
<1>3. AllSound(net', TRUE, stored) /\ net' \in Seq(Request)
  BY <1>1, <1>2, SentSound
<1>4. TypeOK'
  <2>1. changes' \in 0..MaxChanges /\ UNCHANGED <<visits, faults>>
    BY <1>1, WizardAssumption DEF TypeOK, ParseResume, Autosave, Submit
  <2>2. timer' \in BOOLEAN /\ submitting' \in BOOLEAN /\ leaving' \in BOOLEAN
        /\ acknowledged' \in BOOLEAN /\ excused' \in BOOLEAN
    BY <1>1 DEF TypeOK, ParseResume, Autosave, Submit
  <2> QED BY <1>1, <1>3, <2>1, <2>2 DEF TypeOK
<1>5. row' \in stored' /\ SavedWasStored' /\ (timer' => mounted')
  BY <1>1 DEF SavedIInv, SavedWasStored, ParseResume, Autosave, Submit
<1> QED BY <1>1, <1>3, <1>4, <1>5 DEF SavedIInv

\* The steps of the form that mute requests: it changes or goes.
LEMMA MutingSteps ==
    SavedIInv /\ ((\E text \in Texts : Edit(text)) \/ Navigate \/ Leave \/ Reload) => SavedIInv'
<1> SUFFICES ASSUME SavedIInv, (\E text \in Texts : Edit(text)) \/ Navigate \/ Leave \/ Reload
             PROVE  SavedIInv'
  OBVIOUS
<1> USE DEF count
<1>1. TypeOK /\ AllSound(net, mounted, stored) /\ AllSound(net, TRUE, stored)
      /\ net \in Seq(Request) /\ UNCHANGED <<row, stored>>
  BY DEF SavedIInv, TypeOK, AllSound, Sound, Edit, Navigate, Leave, Reload
<1>2. CASE \E text \in Texts : Edit(text)
  <2>1. PICK text \in Texts : Edit(text)
    BY <1>2
  <2> DEFINE who == {i \in DOMAIN net : net[i].kind = "PUT"}
  <2>2. net' = [i \in DOMAIN net |-> IF i \in who THEN Heard(net[i], "cancelled") ELSE net[i]]
    BY <2>1 DEF Edit, NewDraft
  <2>3. who \in SUBSET DOMAIN net
    OBVIOUS
  <2> HIDE DEF who
  <2>4. Muted(net, net')
    BY <1>1, <2>2, <2>3, Muting
  <2>5. mounted = TRUE /\ draft \in Draft /\ [draft EXCEPT !.text = text] \in Draft
    BY <1>1, <2>1 DEF Edit, TypeOK, Draft
  <2>6. AllSound(net', TRUE, stored)
    BY <1>1, <2>4, MutedSound
  <2>7. net' \in Seq(Request) /\ changes' \in 0..MaxChanges
    BY <1>1, <2>1, <2>4, WizardAssumption DEF Muted, Edit, TypeOK
  <2>8. TypeOK'
    BY <1>1, <2>1, <2>5, <2>7, WizardAssumption DEF TypeOK, Edit, NewDraft, Dirty, Draft
  <2> QED BY <1>1, <2>1, <2>5, <2>6, <2>8 DEF SavedIInv, SavedWasStored, Edit
<1>3. CASE Navigate \/ Leave \/ Reload
  <2>1. PICK how \in {"cancelled", "gone"} : net' = [i \in DOMAIN net |-> Heard(net[i], how)]
    BY <1>3 DEF Navigate, Leave, Reload, Unmount
  <2> DEFINE who == DOMAIN net
  <2>2. net' = [i \in DOMAIN net |-> IF i \in who THEN Heard(net[i], how) ELSE net[i]]
    BY <2>1
  <2>3. who \in SUBSET DOMAIN net /\ who = DOMAIN net
    OBVIOUS
  <2> HIDE DEF who
  <2>4. Muted(net, net') /\ \A i \in who : net'[i].heard # "live"
    BY <1>1, <2>2, <2>3, Muting
  <2>5. \A i \in DOMAIN net' : net'[i].heard # "live"
    BY <2>3, <2>4 DEF Muted
  <2>6. AllSound(net', FALSE, stored)
    BY <1>1, <2>4, <2>5, MutedSound
  <2>7. /\ mounted' = FALSE /\ draft' = NoDraft /\ baseline' = NoDraft /\ timer' = FALSE
        /\ cache' \in {cache, NoDraft} /\ submitting' = FALSE /\ leaving' \in {leaving, FALSE}
        /\ excused' \in BOOLEAN /\ UNCHANGED <<acknowledged, changes, visits, faults>>
    BY <1>1, <1>3 DEF Navigate, Leave, Reload, Unmount, TypeOK
  <2>8. TypeOK'
    BY <1>1, <2>4, <2>7 DEF TypeOK, Muted
  <2> QED BY <1>1, <2>6, <2>7, <2>8 DEF SavedIInv, SavedWasStored
<1> QED BY <1>2, <1>3

\* The steps of the server.
LEMMA HandledSteps == SavedIInv /\ Handled => SavedIInv'
<1> SUFFICES ASSUME SavedIInv, NEW i \in DOMAIN net,
                    upsertProfile(i) \/ ParseRead(i) \/ ParseWrite(i)
             PROVE  SavedIInv'
  BY DEF Handled
<1> USE DEF client
<1>1. /\ TypeOK /\ AllSound(net, mounted, stored) /\ net \in Seq(Request) /\ net[i] \in Request
      /\ Sound(net[i], mounted, stored) /\ row \in stored /\ row \in Draft
      /\ UNCHANGED <<cache, mounted, draft, baseline, timer, submitting, leaving, acknowledged>>
  BY DEF SavedIInv, TypeOK, AllSound, upsertProfile, ParseRead, ParseWrite
<1>2. /\ stored \subseteq stored' /\ row' \in stored' /\ stored' \subseteq Draft /\ row' \in Draft
      /\ \E r \in Request : net' = [net EXCEPT ![i] = r] /\ Sound(r, mounted, stored')
  <2>1. CASE upsertProfile(i)
    <3>1. PICK answer \in {"ok", "error"}, writes \in BOOLEAN :
            /\ answer = "ok" => writes
            /\ net' = [net EXCEPT ![i].answer = answer]
            /\ row' = IF writes THEN Stored(net[i]) ELSE row
      BY <2>1 DEF upsertProfile
    <3>2. net[i].kind # "PARSE" /\ net[i].body \in Draft /\ stored' = stored \cup {row'}
      BY <1>1, <2>1 DEF upsertProfile, Sound
    <3>3. Stored(net[i]) = net[i].body
      <4>1. net[i].kind = "POST" => net[i].body.stamp = TRUE
        BY <1>1 DEF Sound
      <4> QED BY <3>2, <4>1 DEF Stored, Draft
    <3> DEFINE r == [net[i] EXCEPT !.answer = answer]
    <3>4. /\ r \in Request /\ net' = [net EXCEPT ![i] = r] /\ r.kind = net[i].kind
          /\ r.body = net[i].body /\ r.heard = net[i].heard /\ r.answer = answer
      BY <1>1, <3>1 DEF Request
    <3> HIDE DEF r
    <3>5. Sound(r, mounted, stored')
      BY <1>1, <3>1, <3>2, <3>3, <3>4 DEF Sound
    <3>6. row' \in Draft
      BY <1>1, <3>1, <3>2, <3>3
    <3> QED BY <1>1, <3>2, <3>4, <3>5, <3>6 DEF TypeOK
  <2>2. CASE ParseRead(i)
    <3>1. PICK body \in Draft : net' = [net EXCEPT ![i].body = body]
      BY <1>1, <2>2, WizardAssumption DEF ParseRead, Fresh, Draft
    <3> DEFINE r == [net[i] EXCEPT !.body = body]
    <3>2. r \in Request /\ net' = [net EXCEPT ![i] = r] /\ r.kind = "PARSE" /\ r.heard = net[i].heard
      BY <1>1, <2>2, <3>1 DEF Request, ParseRead
    <3> HIDE DEF r
    <3>3. Sound(r, mounted, stored) /\ UNCHANGED <<row, stored>>
      BY <1>1, <2>2, <3>2 DEF Sound, ParseRead
    <3> QED BY <1>1, <3>2, <3>3 DEF TypeOK
  <2>3. CASE ParseWrite(i)
    <3>1. PICK answer \in {"ok", "error"} : net' = [net EXCEPT ![i].answer = answer]
      BY <2>3 DEF ParseWrite
    <3>2. row' \in Draft /\ stored' = stored \cup {row'}
      <4>1. net[i].body \in Draft
        BY <1>1, <2>3 DEF ParseWrite, Request
      <4> QED BY <1>1, <2>3, <4>1 DEF ParseWrite, Draft
    <3> DEFINE r == [net[i] EXCEPT !.answer = answer]
    <3>3. r \in Request /\ net' = [net EXCEPT ![i] = r] /\ r.kind = "PARSE" /\ r.heard = net[i].heard
      BY <1>1, <2>3, <3>1 DEF Request, ParseWrite
    <3> HIDE DEF r
    <3>4. Sound(r, mounted, stored')
      BY <1>1, <3>3 DEF Sound
    <3> QED BY <1>1, <3>2, <3>3, <3>4 DEF TypeOK
  <2> QED BY <2>1, <2>2, <2>3
<1>3. AllSound(net', mounted, stored') /\ net' \in Seq(Request)
  <2>1. PICK r \in Request : net' = [net EXCEPT ![i] = r] /\ Sound(r, mounted, stored')
    BY <1>2
  <2>2. stored \subseteq stored'
    BY <1>2
  <2> QED BY <1>1, <2>1, <2>2, ChangedSound
<1>4. faults' \in 0..MaxFaults /\ excused' \in BOOLEAN /\ UNCHANGED <<changes, visits>>
  <2>1. faults' \in Nat /\ faults' <= MaxFaults
    BY <1>1, WizardAssumption DEF TypeOK, upsertProfile, ParseRead, ParseWrite
  <2>2. excused' \in BOOLEAN /\ UNCHANGED <<changes, visits>>
    BY <1>1 DEF TypeOK, upsertProfile, ParseRead, ParseWrite
  <2> QED BY <2>1, <2>2, WizardAssumption
<1>5. TypeOK'
  BY <1>1, <1>2, <1>3, <1>4 DEF TypeOK
<1> QED BY <1>1, <1>2, <1>3, <1>5 DEF SavedIInv, SavedWasStored

\* The answers.
LEMMA AnsweredSteps == SavedIInv /\ Answered => SavedIInv'
<1> SUFFICES ASSUME SavedIInv, NEW i \in DOMAIN net,
                    AutosaveAnswered(i) \/ SubmitAnswered(i) \/ ParseAnswered(i)
             PROVE  SavedIInv'
  BY DEF Answered
<1> USE DEF count
<1>1. /\ TypeOK /\ AllSound(net, mounted, stored) /\ net \in Seq(Request) /\ net[i] \in Request
      /\ Sound(net[i], mounted, stored) /\ (timer => mounted) /\ SavedWasStored
      /\ UNCHANGED <<row, stored, mounted, excused, changes, visits, faults>>
  BY DEF SavedIInv, TypeOK, AllSound, AutosaveAnswered, SubmitAnswered, ParseAnswered
<1> DEFINE left == RemoveAt(net, i)
<1>2. AllSound(left, mounted, stored) /\ left \in Seq(Request)
  BY <1>1, RemovedSound
<1> HIDE DEF left
<1>3. CASE AutosaveAnswered(i)
  <2>1. net' = left /\ UNCHANGED <<draft, timer, submitting, leaving, acknowledged>>
    BY <1>3 DEF AutosaveAnswered, left
  <2>2. \/ /\ baseline' = net[i].body /\ cache' = net[i].body /\ mounted
           /\ net[i].body \in stored /\ net[i].body \in Draft
        \/ UNCHANGED <<baseline, cache>>
    BY <1>1, <1>3 DEF AutosaveAnswered, Usable, Sound
  <2>3. TypeOK'
    BY <1>1, <1>2, <2>1, <2>2, WizardAssumption, ZenonT(30) DEF TypeOK, Draft
  <2>4. SavedWasStored'
    BY <1>1, <2>2 DEF SavedWasStored
  <2> QED BY <1>1, <1>2, <2>1, <2>3, <2>4 DEF SavedIInv
<1>4. CASE SubmitAnswered(i)
  <2>1. /\ net' = left /\ UNCHANGED <<draft, timer>> /\ submitting' \in BOOLEAN
        /\ leaving' \in BOOLEAN /\ acknowledged' \in BOOLEAN
    BY <1>1, <1>4 DEF SubmitAnswered, left, TypeOK
  <2>2. \/ /\ baseline' = net[i].body /\ cache' = net[i].body /\ mounted
           /\ net[i].body \in stored /\ net[i].body \in Draft
        \/ baseline' = baseline /\ cache' = net[i].body /\ net[i].body \in stored /\ net[i].body \in Draft
        \/ UNCHANGED <<baseline, cache>>
    BY <1>1, <1>4 DEF SubmitAnswered, Prepared, Sound
  <2>3. TypeOK'
    BY <1>1, <1>2, <2>1, <2>2, WizardAssumption DEF TypeOK, Draft
  <2>4. SavedWasStored'
    BY <1>1, <2>2 DEF SavedWasStored
  <2> QED BY <1>1, <1>2, <2>1, <2>3, <2>4 DEF SavedIInv
<1>5. CASE ParseAnswered(i)
  <2>1. UNCHANGED <<cache, baseline, submitting, leaving, acknowledged>>
    BY <1>5 DEF ParseAnswered
  <2>2. CASE net' = left /\ UNCHANGED <<draft, timer>>
    BY <1>1, <1>2, <2>1, <2>2 DEF SavedIInv, TypeOK, SavedWasStored
  <2>3. CASE net[i].heard = "live" /\ NewDraft([draft EXCEPT !.resume = TRUE], RemoveAt(net, i))
    <3> DEFINE who == {k \in DOMAIN left : left[k].kind = "PUT"}
    <3>1. net' = [k \in DOMAIN left |-> IF k \in who THEN Heard(left[k], "cancelled") ELSE left[k]]
      BY <2>3 DEF NewDraft, left
    <3>2. who \in SUBSET DOMAIN left
      OBVIOUS
    <3> HIDE DEF who
    <3>3. Muted(left, net')
      BY <1>2, <3>1, <3>2, Muting
    <3>4. mounted = TRUE /\ draft \in Draft /\ [draft EXCEPT !.resume = TRUE] \in Draft
      BY <1>1, <2>3 DEF TypeOK, Draft, Sound
    <3>5. AllSound(net', TRUE, stored) /\ net' \in Seq(Request)
      BY <1>2, <3>3, <3>4, MutedSound DEF Muted
    <3>6. TypeOK'
      BY <1>1, <2>1, <2>3, <3>4, <3>5, WizardAssumption, ZenonT(30) DEF TypeOK, NewDraft, Dirty, Draft
    <3> QED BY <1>1, <2>1, <3>4, <3>5, <3>6 DEF SavedIInv, SavedWasStored
  <2> QED BY <1>5, <2>2, <2>3 DEF ParseAnswered, left
<1> QED BY <1>3, <1>4, <1>5

LEMMA SavedStep == SavedIInv /\ [Next]_vars => SavedIInv'
<1> SUFFICES ASSUME SavedIInv, [Next]_vars PROVE SavedIInv'
  OBVIOUS
<1>1. CASE UNCHANGED vars
  BY <1>1 DEF vars, client, count, SavedIInv, TypeOK, SavedWasStored
<1>2. CASE Fetch
  BY <1>2 DEF Fetch, count, SavedIInv, TypeOK, SavedWasStored
<1>3. CASE Hydrate
  <2>1. AllSound(net, TRUE, stored)
    BY DEF SavedIInv, AllSound, Sound
  <2>2. visits' \in 0..MaxVisits
    BY <1>3, WizardAssumption DEF Hydrate, SavedIInv, TypeOK
  <2>3. TypeOK'
    BY <1>3, <2>2 DEF Hydrate, SavedIInv, TypeOK
  <2> QED BY <1>3, <2>1, <2>3 DEF Hydrate, SavedIInv, SavedWasStored
<1> QED BY <1>1, <1>2, <1>3, SendingSteps, MutingSteps, HandledSteps, AnsweredSteps DEF Next

LEMMA SavedInvariant == Spec => []SavedIInv
BY SavedInit, SavedStep, PTL DEF Spec

\* The profile that the app shows as saved, and the one it tells edits from, have
\* been in the database: of all answers only those of the newest save are used,
\* and only when they succeed.
THEOREM SavedIsStored == Spec => []SavedInv
<1>1. SavedIInv => SavedInv
  BY DEF SavedIInv, SavedInv
<1> QED BY <1>1, SavedInvariant, PTL

-----------------------------------------------------------------------------
(* The stamp of a submit.                                                   *)

\* Of a user who waits: a submit is alone on its way, and the form stays as it
\* was until the navigation; once it was answered, whatever can still be written
\* has the stamp.  The draft on the screen gets it only with the next visit.
Stamped(d) == d.stamp = TRUE
AllStamped(requests) ==
    \A i \in DOMAIN requests : requests[i].body # NoDraft => Stamped(requests[i].body)
Posts(requests) == {i \in DOMAIN requests : requests[i].kind = "POST"}

Waiting ==
    /\ leaving => submitting /\ net = <<>>
    /\ submitting => mounted /\ ~timer
    /\ submitting /\ ~leaving =>
         /\ Len(net) = 1 /\ net[1].kind = "POST" /\ net[1].heard = "live"
         /\ net[1].answer = "ok" => Stamped(row)
    /\ ~submitting => Posts(net) = {}
Submitted ==
    /\ Stamped(row) /\ (cache # NoDraft => Stamped(cache)) /\ AllStamped(net)
    /\ mounted /\ ~leaving => Stamped(draft)

StampIInv == ~excused => Waiting /\ (acknowledged => Submitted)

\* What muting, removing and sending do to them.
LEMMA MutedStamps ==
    ASSUME NEW old, NEW new, Muted(old, new)
    PROVE  (Posts(old) = {} => Posts(new) = {}) /\ (AllStamped(old) => AllStamped(new))
BY DEF Muted, Posts, AllStamped

LEMMA RemovedStamps ==
    ASSUME NEW old \in Seq(Request), NEW i \in DOMAIN old
    PROVE  /\ Posts(old) = {} => Posts(RemoveAt(old, i)) = {}
           /\ AllStamped(old) => AllStamped(RemoveAt(old, i))
           /\ Len(old) = 1 => RemoveAt(old, i) = <<>>
<1>1. RemoveAt(old, i) \in Seq(Request) /\ Len(RemoveAt(old, i)) = Len(old) - 1
      /\ \A j \in DOMAIN RemoveAt(old, i) : \E k \in DOMAIN old : k # i /\ RemoveAt(old, i)[j] = old[k]
  BY Removed
<1> DEFINE new == RemoveAt(old, i)
<1> HIDE DEF new
<1>2. Len(old) = 1 => new = <<>>
  BY <1>1 DEF new
<1> QED BY <1>1, <1>2 DEF Posts, AllStamped, new

LEMMA SentStamps ==
    ASSUME NEW old \in Seq(Request), NEW r \in Request
    PROVE  /\ Posts(old) = {} /\ r.kind # "POST" => Posts(Append(old, r)) = {}
           /\ AllStamped(old) /\ (r.body # NoDraft => Stamped(r.body)) => AllStamped(Append(old, r))
           /\ old = <<>> => Len(Append(old, r)) = 1 /\ Append(old, r)[1] = r
<1>1. /\ DOMAIN Append(old, r) = 1..(Len(old) + 1) /\ Len(old) \in Nat /\ DOMAIN old = 1..Len(old)
      /\ \A i \in 1..Len(old) : Append(old, r)[i] = old[i]
      /\ Append(old, r)[Len(old) + 1] = r /\ Append(old, r) \in Seq(Request)
      /\ Len(Append(old, r)) = Len(old) + 1
  OBVIOUS
<1>2. \A i \in 1..(Len(old) + 1) : i \in 1..Len(old) \/ i = Len(old) + 1
  BY <1>1
<1>3. old = <<>> => Len(Append(old, r)) = 1 /\ Append(old, r)[1] = r
  BY <1>1
<1> QED BY <1>1, <1>2, <1>3 DEF Posts, AllStamped

LEMMA StampSends ==
    SavedIInv /\ StampIInv /\ (ParseResume \/ Autosave \/ Submit) => StampIInv'
<1> SUFFICES ASSUME SavedIInv, StampIInv, ParseResume \/ Autosave \/ Submit, ~excused'
             PROVE  (Waiting /\ (acknowledged => Submitted))'
  BY DEF StampIInv
<1> USE DEF client, count, Sent
<1>1. /\ ~excused /\ Waiting /\ (acknowledged => Submitted) /\ net \in Seq(Request) /\ mounted = TRUE
      /\ draft \in Draft /\ UNCHANGED <<row, cache, mounted, draft, leaving, acknowledged>>
  BY DEF StampIInv, SavedIInv, TypeOK, ParseResume, Autosave, Submit
<1>2. CASE ParseResume
  <2> DEFINE r == [kind |-> "PARSE", body |-> NoDraft, heard |-> "live", answer |-> "none"]
  <2>1. /\ ~submitting /\ ~submitting' /\ ~leaving /\ UNCHANGED <<timer, submitting>>
        /\ r \in Request /\ net' = Append(net, r)
    BY <1>1, <1>2 DEF ParseResume, Waiting, Request
  <2>2. r.kind # "POST" /\ r.body = NoDraft
    OBVIOUS
  <2> HIDE DEF r
  <2> QED BY <1>1, <2>1, <2>2, SentStamps DEF Waiting, Submitted
<1>3. CASE Autosave
  <2> DEFINE r == [kind |-> "PUT", body |-> draft, heard |-> "live", answer |-> "none"]
  <2>1. /\ ~submitting /\ ~submitting' /\ ~leaving /\ ~timer'
        /\ r \in Request /\ net' = Append(net, r)
    BY <1>1, <1>3 DEF Autosave, Waiting, Request
  <2>2. r.kind # "POST" /\ r.body = draft
    OBVIOUS
  <2> HIDE DEF r
  <2> QED BY <1>1, <2>1, <2>2, SentStamps DEF Waiting, Submitted
<1>4. CASE Submit
  <2> DEFINE r == [kind |-> "POST", body |-> [draft EXCEPT !.stamp = TRUE], heard |-> "live",
                   answer |-> "none"]
  <2>1. [draft EXCEPT !.stamp = TRUE] \in Draft /\ Stamped([draft EXCEPT !.stamp = TRUE])
    BY <1>1 DEF Draft, Stamped
  <2>2. /\ submitting' = TRUE /\ ~leaving /\ ~timer /\ UNCHANGED timer /\ net = <<>>
        /\ r \in Request /\ net' = Append(net, r)
    BY <1>1, <1>4, <2>1 DEF Submit, Waiting, Request, Quiet
  <2>3. r.kind = "POST" /\ r.heard = "live" /\ r.answer = "none" /\ Stamped(r.body)
    BY <2>1
  <2> HIDE DEF r
  <2>4. Len(net') = 1 /\ net'[1] = r /\ (AllStamped(net) => AllStamped(net'))
    BY <1>1, <2>2, <2>3, SentStamps
  <2> QED BY <1>1, <2>2, <2>3, <2>4 DEF Waiting, Submitted
<1> QED BY <1>2, <1>3, <1>4

LEMMA NoRequests ==
    ASSUME NEW requests \in Seq(Request), Len(requests) = 0
    PROVE  requests = <<>>
<1>1. (requests # <<>>) => (Len(requests) \in Nat \ {0})
  BY EmptySeq
<1> QED BY <1>1

LEMMA StampMutes ==
    SavedIInv /\ StampIInv /\ ((\E text \in Texts : Edit(text)) \/ Navigate \/ Leave \/ Reload)
        => StampIInv'
<1> SUFFICES ASSUME SavedIInv, StampIInv, ~excused',
                    (\E text \in Texts : Edit(text)) \/ Navigate \/ Leave \/ Reload
             PROVE  (Waiting /\ (acknowledged => Submitted))'
  BY DEF StampIInv
<1>1. /\ ~excused /\ Waiting /\ (acknowledged => Submitted) /\ net \in Seq(Request) /\ TypeOK
      /\ UNCHANGED <<row, acknowledged>>
  BY DEF StampIInv, SavedIInv, TypeOK, Edit, Navigate, Leave, Reload
<1>2. CASE \E text \in Texts : Edit(text)
  <2>1. PICK text \in Texts : Edit(text)
    BY <1>2
  <2> DEFINE who == {i \in DOMAIN net : net[i].kind = "PUT"}
  <2>2. net' = [i \in DOMAIN net |-> IF i \in who THEN Heard(net[i], "cancelled") ELSE net[i]]
        /\ who \in SUBSET DOMAIN net
    BY <2>1 DEF Edit, NewDraft
  <2> HIDE DEF who
  <2>3. Muted(net, net')
    BY <1>1, <2>2, Muting
  <2>4. /\ ~submitting /\ ~leaving /\ UNCHANGED <<cache, mounted, submitting, leaving>>
        /\ (Stamped(draft) /\ mounted => Stamped(draft'))
    <3>1. ~submitting /\ UNCHANGED <<cache, mounted, submitting, leaving>>
          /\ draft' = [draft EXCEPT !.text = text]
      BY <2>1 DEF Edit, NewDraft
    <3>2. mounted => draft \in Draft
      BY <1>1 DEF TypeOK
    <3> QED BY <1>1, <3>1, <3>2 DEF Waiting, Stamped, Draft
  <2> QED BY <1>1, <2>3, <2>4, MutedStamps DEF Waiting, Submitted
<1>3. CASE Navigate \/ Leave \/ Reload
  <2>1. net = <<>> /\ net' = <<>>
    <3>1. net = <<>>
      BY <1>1, <1>3 DEF Navigate, Leave, Reload, Quiet, Waiting
    <3>2. PICK how \in {"cancelled", "gone"} : net' = [i \in DOMAIN net |-> Heard(net[i], how)]
      BY <1>3 DEF Navigate, Leave, Reload, Unmount
    <3> DEFINE who == DOMAIN net
    <3>3. net' = [i \in DOMAIN net |-> IF i \in who THEN Heard(net[i], how) ELSE net[i]]
      BY <3>2
    <3>4. who \in SUBSET DOMAIN net
      OBVIOUS
    <3> HIDE DEF who
    <3>5. Muted(net, net')
      BY <1>1, <3>3, <3>4, Muting
    <3>6. net' \in Seq(Request) /\ DOMAIN net' = DOMAIN net
      BY <3>5 DEF Muted
    <3>7. DOMAIN net = {}
      BY <3>1
    <3>8. DOMAIN net' = 1..Len(net') /\ Len(net') \in Nat
      BY <3>6
    <3>9. Len(net') = 0
      BY <3>6, <3>7, <3>8
    <3>10. net' = <<>>
      BY <3>6, <3>9, NoRequests
    <3> QED BY <3>1, <3>10
  <2>2. ~leaving' /\ ~submitting' /\ ~mounted' /\ ~timer' /\ cache' \in {cache, NoDraft}
    <3>1. CASE Navigate
      BY <3>1, Zenon DEF Navigate, Unmount
    <3>2. CASE Leave
      BY <3>2, Zenon DEF Leave, Unmount
    <3>3. CASE Reload
      BY <3>3, Zenon DEF Reload
    <3> QED BY <1>3, <3>1, <3>2, <3>3
  <2> QED BY <1>1, <2>1, <2>2 DEF Waiting, Submitted, Posts, AllStamped
<1> QED BY <1>2, <1>3

LEMMA StampHandled == SavedIInv /\ StampIInv /\ Handled => StampIInv'
<1> SUFFICES ASSUME SavedIInv, StampIInv, ~excused', NEW i \in DOMAIN net,
                    upsertProfile(i) \/ ParseRead(i) \/ ParseWrite(i)
             PROVE  (Waiting /\ (acknowledged => Submitted))'
  BY DEF StampIInv, Handled
<1> USE DEF client
<1>1. /\ ~excused /\ Waiting /\ (acknowledged => Submitted) /\ net \in Seq(Request) /\ TypeOK
      /\ net[i] \in Request /\ Sound(net[i], mounted, stored)
      /\ UNCHANGED <<cache, mounted, draft, timer, submitting, leaving, acknowledged>>
  BY DEF StampIInv, SavedIInv, TypeOK, AllSound, upsertProfile, ParseRead, ParseWrite
<1>2. CASE upsertProfile(i)
  <2>1. PICK answer \in {"ok", "error"}, writes \in BOOLEAN :
          /\ answer = "ok" => writes
          /\ net' = [net EXCEPT ![i].answer = answer]
          /\ row' = IF writes THEN Stored(net[i]) ELSE row
    BY <1>2 DEF upsertProfile
  <2>2. net[i].kind # "PARSE" /\ net[i].body \in Draft
    BY <1>1, <1>2 DEF upsertProfile, Sound
  <2>3. /\ Stamped(net[i].body) => Stamped(Stored(net[i]))
        /\ net[i].kind = "POST" => Stamped(Stored(net[i]))
    BY <2>2 DEF Stored, Stamped, Draft
  <2>4. /\ DOMAIN net' = DOMAIN net /\ Len(net') = Len(net) /\ net' \in Seq(Request)
        /\ \A k \in DOMAIN net : /\ net'[k].kind = net[k].kind /\ net'[k].body = net[k].body
                                 /\ net'[k].heard = net[k].heard
                                 /\ net'[k].answer = IF k = i THEN answer ELSE net[k].answer
    BY <1>1, <2>1 DEF Request
  <2>5. Posts(net') = Posts(net) /\ (AllStamped(net) => AllStamped(net'))
    BY <2>4 DEF Posts, AllStamped
  <2>6. acknowledged => Stamped(row')
    BY <1>1, <2>1, <2>2, <2>3, WizardAssumption DEF Submitted, AllStamped, Draft
  <2>7. Len(net) = 1 => i = 1
    BY <1>1
  <2>8. Waiting'
    <3>1. leaving => FALSE
      BY <1>1 DEF Waiting
    <3>2. submitting => /\ Len(net') = 1 /\ net'[1].kind = "POST" /\ net'[1].heard = "live"
                        /\ net'[1].answer = "ok" => Stamped(row')
      BY <1>1, <2>1, <2>3, <2>4, <2>7, <3>1 DEF Waiting
    <3> QED BY <1>1, <2>5, <3>1, <3>2 DEF Waiting
  <2> QED BY <1>1, <2>5, <2>6, <2>8 DEF Submitted
<1>3. CASE ParseRead(i) \/ ParseWrite(i)
  <2>1. ~submitting /\ ~leaving
    <3>1. net[i].kind = "PARSE"
      BY <1>3 DEF ParseRead, ParseWrite
    <3>2. Len(net) = 1 => i = 1
      BY <1>1
    <3> QED BY <1>1, <3>1, <3>2 DEF Waiting
  <2>2. /\ DOMAIN net' = DOMAIN net
        /\ \A k \in DOMAIN net : net'[k].kind = net[k].kind /\ (k # i => net'[k].body = net[k].body)
    BY <1>1, <1>3 DEF ParseRead, ParseWrite, Request
  <2>3. Posts(net') = {}
    BY <1>1, <2>1, <2>2 DEF Waiting, Posts
  <2>4. acknowledged => Stamped(row') /\ Stamped(net'[i].body)
    <3>1. CASE ParseRead(i)
      <4>1. net' = [net EXCEPT ![i].body = row] /\ row' = row
        BY <1>1, <1>3, <3>1 DEF ParseRead
      <4>2. net'[i].body = row
        BY <1>1, <4>1 DEF Request
      <4> QED BY <1>1, <4>1, <4>2 DEF Submitted
    <3>2. CASE ParseWrite(i)
      <4>1. net'[i].body = net[i].body /\ net[i].body # NoDraft /\ net[i].body \in Draft
        BY <1>1, <3>2 DEF ParseWrite, Request
      <4>2. row' = row \/ row' = [net[i].body EXCEPT !.resume = TRUE]
        BY <3>2 DEF ParseWrite
      <4> QED BY <1>1, <4>1, <4>2 DEF Submitted, AllStamped, Stamped, Draft
    <3> QED BY <1>3, <3>1, <3>2
  <2>5. acknowledged => AllStamped(net')
    BY <1>1, <2>2, <2>4 DEF Submitted, AllStamped
  <2> QED BY <1>1, <2>1, <2>3, <2>4, <2>5 DEF Waiting, Submitted
<1> QED BY <1>2, <1>3

LEMMA StampAnswered == SavedIInv /\ StampIInv /\ Answered => StampIInv'
<1> SUFFICES ASSUME SavedIInv, StampIInv, ~excused', NEW i \in DOMAIN net,
                    AutosaveAnswered(i) \/ SubmitAnswered(i) \/ ParseAnswered(i)
             PROVE  (Waiting /\ (acknowledged => Submitted))'
  BY DEF StampIInv, Answered
<1> USE DEF count
<1> DEFINE left == RemoveAt(net, i)
<1>1. /\ ~excused /\ Waiting /\ (acknowledged => Submitted) /\ net \in Seq(Request) /\ TypeOK
      /\ net[i] \in Request /\ Sound(net[i], mounted, stored) /\ AllSound(net, mounted, stored)
      /\ UNCHANGED <<row, mounted>>
  BY DEF StampIInv, SavedIInv, TypeOK, AllSound, AutosaveAnswered, SubmitAnswered, ParseAnswered
<1>2. /\ left \in Seq(Request) /\ (Posts(net) = {} => Posts(left) = {})
      /\ (AllStamped(net) => AllStamped(left)) /\ (Len(net) = 1 => left = <<>>)
  BY <1>1, Removed, RemovedStamps
<1>3. (Len(net) = 1 => i = 1) /\ ~leaving
  BY <1>1 DEF Waiting
<1> HIDE DEF left
<1>4. CASE AutosaveAnswered(i)
  <2>1. net[i].kind = "PUT" /\ net' = left /\ UNCHANGED <<draft, timer, submitting, leaving, acknowledged>>
    BY <1>4 DEF AutosaveAnswered, left
  <2>2. ~submitting
    BY <1>1, <1>3, <2>1 DEF Waiting
  <2>3. cache' = cache \/ (cache' = net[i].body /\ net[i].body \in Draft)
    BY <1>1, <1>4, <2>1 DEF AutosaveAnswered, Sound
  <2>4. acknowledged /\ cache' # NoDraft => Stamped(cache')
    BY <1>1, <2>3, WizardAssumption DEF Submitted, AllStamped, Draft
  <2> QED BY <1>1, <1>2, <1>3, <2>1, <2>2, <2>4 DEF Waiting, Submitted
<1>5. CASE SubmitAnswered(i)
  <2>1. net[i].kind = "POST" /\ net' = left /\ UNCHANGED <<draft, timer>> /\ i \in Posts(net)
    BY <1>5 DEF SubmitAnswered, left, Posts
  <2>2. /\ submitting /\ Len(net) = 1 /\ i = 1 /\ net[i].heard = "live"
        /\ (net[i].answer = "ok" => Stamped(row)) /\ left = <<>> /\ Stamped(net[i].body)
    BY <1>1, <1>2, <1>3, <2>1 DEF Waiting, Sound, Stamped
  <2>3. net' = <<>> /\ Posts(net') = {} /\ AllStamped(net')
    BY <2>1, <2>2 DEF Posts, AllStamped
  <2>4. CASE net[i].answer = "ok"
    <3>1. cache' = net[i].body /\ leaving' = TRUE /\ UNCHANGED submitting
      BY <1>5, <2>2, <2>4 DEF SubmitAnswered, Prepared
    <3> QED BY <1>1, <2>1, <2>2, <2>3, <2>4, <3>1 DEF Waiting, Submitted
  <2>5. CASE net[i].answer # "ok"
    <3>1. submitting' = FALSE /\ UNCHANGED <<cache, leaving, acknowledged>>
      BY <1>5, <2>2, <2>5 DEF SubmitAnswered
    <3> QED BY <1>1, <1>3, <2>1, <2>2, <2>3, <3>1 DEF Waiting, Submitted
  <2> QED BY <2>4, <2>5
<1>6. CASE ParseAnswered(i)
  <2>1. net[i].kind = "PARSE" /\ UNCHANGED <<cache, submitting, leaving, acknowledged>>
    BY <1>6 DEF ParseAnswered
  <2>2. ~submitting
    BY <1>1, <1>3, <2>1 DEF Waiting
  <2>3. CASE net' = left /\ UNCHANGED <<draft, timer>>
    BY <1>1, <1>2, <1>3, <2>1, <2>2, <2>3 DEF Waiting, Submitted
  <2>4. CASE net[i].heard = "live" /\ NewDraft([draft EXCEPT !.resume = TRUE], RemoveAt(net, i))
    <3> DEFINE who == {k \in DOMAIN left : left[k].kind = "PUT"}
    <3>1. net' = [k \in DOMAIN left |-> IF k \in who THEN Heard(left[k], "cancelled") ELSE left[k]]
          /\ who \in SUBSET DOMAIN left /\ draft' = [draft EXCEPT !.resume = TRUE]
      BY <2>4 DEF NewDraft, left
    <3> HIDE DEF who
    <3>2. Muted(left, net')
      BY <1>2, <3>1, Muting
    <3>3. mounted => draft \in Draft
      BY <1>1 DEF TypeOK
    <3>4. mounted /\ Stamped(draft) => Stamped(draft')
      BY <3>1, <3>3 DEF Stamped, Draft
    <3>5. Posts(net') = {} /\ (AllStamped(net) => AllStamped(net'))
      BY <1>1, <1>2, <2>2, <3>2, MutedStamps DEF Waiting
    <3> QED BY <1>1, <1>3, <2>1, <2>2, <3>4, <3>5 DEF Waiting, Submitted
  <2> QED BY <1>6, <2>3, <2>4 DEF ParseAnswered, left
<1> QED BY <1>4, <1>5, <1>6

LEMMA StampStep == SavedIInv /\ StampIInv /\ [Next]_vars => StampIInv'
<1> SUFFICES ASSUME SavedIInv, StampIInv, [Next]_vars PROVE StampIInv'
  OBVIOUS
<1>1. CASE UNCHANGED vars
  BY <1>1 DEF vars, client, count, StampIInv, Waiting, Submitted
<1>2. CASE Fetch
  BY <1>2 DEF Fetch, count, StampIInv, Waiting, Submitted
<1>3. CASE Hydrate
  BY <1>3 DEF Hydrate, StampIInv, Waiting, Submitted
<1> QED BY <1>1, <1>2, <1>3, StampSends, StampMutes, StampHandled, StampAnswered DEF Next

\* A submitted profile stays submitted for a user who waits for answers: no later
\* save or parse that starts from the cache, the form or the row takes its stamp.
THEOREM SubmissionIsKept == Spec => []SubmissionStays
<1>1. Init => StampIInv
  BY DEF Init, StampIInv, Waiting, Posts
<1>2. SavedIInv /\ StampIInv => SubmissionStays
  BY DEF StampIInv, Submitted, Stamped, SubmissionStays
<1> QED BY <1>1, <1>2, StampStep, SavedInvariant, PTL DEF Spec
=============================================================================
