--------------------------- MODULE MatchingProofs ---------------------------
(***************************************************************************)
(* Theorems about Matching for any number of users, jobs and workers.      *)
(***************************************************************************)
EXTENDS Matching, SequenceTheorems, TLAPS

-----------------------------------------------------------------------------
(* Types.                                                                   *)

\* A busy matcher has its user or its job, and an idle one nothing; only a
\* transaction in progress has pairs, only a later step has ids.
ReverseBusy(r) ==
    /\ r.pc = "idle" => r = IdleReverse
    /\ r.pc # "idle" => r.user \in User
    /\ r.pc # "scan" => r.tx = {}
    /\ r.pc \notin {"scan", "enqueue"} => r.found = {}
    /\ r.pc \in {"list", "scan"} => r.prefs.ver \in Version
ForwardBusy(f) ==
    /\ f.pc = "idle" => f = IdleForward
    /\ f.pc # "idle" => f.job \in Job
    /\ f.pc # "scan" => f.todo = {} /\ f.found = {}
    /\ \A u \in f.todo : f.prefs[u].ver \in Version

\* Preferences have the version of a profile unless there are none.
PrefsBusy == \A u \in User : prefs[u].ver = -1 => prefs[u] = NoPrefs
SubmitBusy == \A u \in User : submit[u].pc # "idle" => submit[u].prefs.ver \in Version
SettingsBusy == \A u \in User : settings[u].pc # "idle" => settings[u].prefs.ver \in Version

TypeIInv ==
    /\ TypeOK /\ PrefsBusy /\ SubmitBusy /\ SettingsBusy
    /\ \A w \in EmbedWorker : ReverseBusy(reverse[w])
    /\ \A w \in JobWorker : ForwardBusy(forward[w])

LEMMA Queues ==
    ASSUME NEW S, NEW q \in Seq(S), q # <<>>
    PROVE  /\ Last(q) \in S /\ Front(q) \in Seq(S) /\ Len(q) \in Nat \ {0}
           /\ Len(Front(q)) = Len(q) - 1
           /\ \A i \in 1..(Len(q) - 1) : Front(q)[i] = q[i]
<1>1. Len(q) \in Nat \ {0}
  BY EmptySeq
<1>2. Last(q) \in S
  BY <1>1 DEF Last
<1> DEFINE n == Len(q) - 1
<1>3. n \in Nat /\ 1 \in Int /\ n \in Int /\ n - 1 + 1 = n
  BY <1>1
<1>4. \A i \in 1..n : q[i] \in S
  BY <1>1
<1> HIDE DEF n
<1>5. /\ SubSeq(q, 1, n) \in Seq(S)
      /\ Len(SubSeq(q, 1, n)) = IF 1 <= n THEN n - 1 + 1 ELSE 0
      /\ \A i \in 1..(n - 1 + 1) : SubSeq(q, 1, n)[i] = q[1 + i - 1]
  BY <1>3, <1>4, SubSeqProperties
<1>6. /\ SubSeq(q, 1, n) \in Seq(S) /\ Len(SubSeq(q, 1, n)) = n
      /\ \A i \in 1..n : SubSeq(q, 1, n)[i] = q[i]
  BY <1>3, <1>5
<1>7. Front(q) = SubSeq(q, 1, n)
  BY DEF Front, n
<1> QED BY <1>1, <1>2, <1>6, <1>7 DEF n

LEMMA Newest ==
    ASSUME NEW q \in Seq(Job)
    PROVE  /\ NewestFirst(q) \in Seq(Job) /\ Len(NewestFirst(q)) = Len(q)
           /\ \A i \in 1..Len(q) : \E k \in 1..Len(q) : NewestFirst(q)[k] = q[i]
<1>1. Len(q) \in Nat
  OBVIOUS
<1>2. \A i \in 1..Len(q) : Len(q) + 1 - i \in 1..Len(q) /\ Len(q) + 1 - (Len(q) + 1 - i) = i
  BY <1>1
<1>3. \A i \in 1..Len(q) : q[Len(q) + 1 - i] \in Job
  BY <1>2
<1>4. NewestFirst(q) \in [1..Len(q) -> Job]
  BY <1>3 DEF NewestFirst
<1>5. NewestFirst(q) \in Seq(Job) /\ Len(NewestFirst(q)) = Len(q)
  BY <1>1, <1>4
<1>6. \A i \in 1..Len(q) : NewestFirst(q)[Len(q) + 1 - i] = q[i]
  BY <1>2 DEF NewestFirst
<1> QED BY <1>2, <1>5, <1>6

LEMMA Idle ==
    /\ IdleSubmit \in SubmitState /\ IdleSettings \in SettingsState
    /\ IdleReverse \in ReverseState /\ ReverseBusy(IdleReverse)
    /\ IdleForward \in ForwardState /\ ForwardBusy(IdleForward)
    /\ NoPrefs \in Prefs /\ NoProfile \in Profile /\ Defaults \in Settings
<1>1. 0 \in Version
  BY MatchingAssumption DEF Version
<1>2. NoPrefs \in Prefs /\ NoProfile \in Profile /\ Defaults \in Settings
  BY <1>1 DEF NoPrefs, Prefs, NoProfile, Profile, Defaults, Settings, Mode
<1>3. IdleSubmit \in SubmitState /\ IdleSettings \in SettingsState
  BY <1>2 DEF IdleSubmit, SubmitState, IdleSettings, SettingsState
<1>4. <<>> \in Seq(Job)
  OBVIOUS
<1>5. IdleReverse \in ReverseState /\ ReverseBusy(IdleReverse)
  BY <1>2, <1>4 DEF IdleReverse, ReverseState, ReverseBusy
<1>6. [u \in User |-> NoPrefs] \in [User -> Prefs]
  BY <1>2
<1>7. IdleForward \in ForwardState /\ ForwardBusy(IdleForward)
  BY <1>6 DEF IdleForward, ForwardState, ForwardBusy
<1> QED BY <1>2, <1>3, <1>5, <1>7

LEMMA LoadedType ==
    ASSUME TypeOK, PrefsBusy, NEW u \in User
    PROVE  /\ Loaded(u) \in Prefs /\ Loaded(u).ver \in Version /\ Loaded(u).set = prefs[u].set
           /\ prefs[u].ver # -1 => Loaded(u) = prefs[u]
<1>1. prefs[u] \in Prefs /\ profile[u].ver \in Version /\ NoPrefs \in Prefs
  BY Idle DEF TypeOK, Profile
<1>2. CASE prefs[u] = NoPrefs
  BY <1>1, <1>2 DEF Loaded, Prefs, NoPrefs
<1>3. CASE prefs[u] # NoPrefs
  BY <1>1, <1>3 DEF Loaded, Prefs, PrefsBusy
<1> QED BY <1>2, <1>3

\* A set of rows stays well-formed when rows are added, pushed, tailored or
\* deleted.
Rows(rows) ==
    /\ rows \in [Pair -> Match]
    /\ \A p \in Pair : ~rows[p].live => rows[p] = NoMatch(rows[p].gen)

LEMMA NoMatchType ==
    ASSUME NEW gen \in Nat
    PROVE  NoMatch(gen) \in Match /\ ~NoMatch(gen).live /\ NoMatch(gen).gen = gen
           /\ NoMatch(gen).queued = 0 /\ ~NoMatch(gen).app
<1>1. 0 \in Version
  BY MatchingAssumption DEF Version
<1> QED BY <1>1 DEF NoMatch, Match, Kind

LEMMA DeletedRows ==
    ASSUME Rows(row), NEW ids
    PROVE  /\ Rows(Deleted(ids))
           /\ \A p \in Pair : Deleted(ids)[p] \in {row[p], NoMatch(row[p].gen)}
           /\ \A p \in Pair : <<p, row[p].gen>> \in ids => Deleted(ids)[p] = NoMatch(row[p].gen)
<1>1. \A p \in Pair : row[p] \in Match /\ row[p].gen \in Nat
  BY DEF Rows, Match
<1>2. \A p \in Pair : Deleted(ids)[p] = IF <<p, row[p].gen>> \in ids THEN NoMatch(row[p].gen) ELSE row[p]
  BY DEF Deleted
<1>3. \A p \in Pair : Deleted(ids)[p] \in Match
  BY <1>1, <1>2, NoMatchType
<1>4. Deleted(ids) \in [Pair -> Match]
  BY <1>3 DEF Deleted
<1> QED BY <1>1, <1>2, <1>4, NoMatchType, ZenonT(30) DEF Rows

LEMMA InsertedRow ==
    ASSUME Rows(row), NEW p \in Pair, NEW kind \in Kind, NEW ver \in Version
    PROVE  /\ Inserted(p, kind, ver) \in Match /\ Inserted(p, kind, ver).live
           /\ row[p].live => Inserted(p, kind, ver) = row[p]
           /\ ~row[p].live => /\ Inserted(p, kind, ver).gen = row[p].gen + 1
                              /\ Inserted(p, kind, ver).queued = 0
                              /\ Inserted(p, kind, ver).kind = kind
                              /\ Inserted(p, kind, ver).ver = ver
                              /\ ~Inserted(p, kind, ver).app
<1>1. row[p] \in Match /\ row[p].gen + 1 \in Nat
  BY DEF Rows, Match
<1> QED BY <1>1, NoMatchType DEF Inserted, NoMatch, Match

LEMMA PushedRows ==
    ASSUME Rows(row), NEW id \in Pair \X Nat, NEW times \in {1, 2}
    PROVE  /\ Rows(Pushes(id, times))
           /\ \A p \in Pair : p # id[1] => Pushes(id, times)[p] = row[p]
           /\ Pushes(id, times)[id[1]] =
                IF row[id[1]].live /\ row[id[1]].gen = id[2]
                THEN [row[id[1]] EXCEPT !.queued = @ + times] ELSE row[id[1]]
<1>1. id[1] \in Pair /\ row[id[1]] \in Match /\ row[id[1]].queued + times \in Nat
  BY DEF Rows, Match
<1>2. [row[id[1]] EXCEPT !.queued = @ + times] \in Match
  BY <1>1 DEF Match
<1>3. /\ \A p \in Pair : p # id[1] => Pushes(id, times)[p] = row[p]
      /\ Pushes(id, times)[id[1]] =
                IF row[id[1]].live /\ row[id[1]].gen = id[2]
                THEN [row[id[1]] EXCEPT !.queued = @ + times] ELSE row[id[1]]
  BY <1>1 DEF Pushes, Rows, Match
<1>4. \A p \in Pair : Pushes(id, times)[p] \in Match
  BY <1>1, <1>2, <1>3 DEF Rows
<1>5. Pushes(id, times) \in [Pair -> Match]
  <2>1. DOMAIN Pushes(id, times) = Pair /\ row \in [Pair -> Match]
    BY DEF Pushes, Rows
  <2>2. Pushes(id, times) = [p \in Pair |-> Pushes(id, times)[p]]
    BY <2>1 DEF Pushes
  <2> QED BY <1>4, <2>2
<1> QED BY <1>1, <1>3, <1>5 DEF Rows, Match

\* What a request does to its own state and to the preferences.
LEMMA SetSubmit ==
    ASSUME TypeOK, SubmitBusy, NEW u \in User, NEW r \in SubmitState,
           r.pc # "idle" => r.prefs.ver \in Version, submit' = [submit EXCEPT ![u] = r]
    PROVE  submit' \in [User -> SubmitState] /\ SubmitBusy'
BY DEF TypeOK, SubmitBusy

LEMMA SetSettings ==
    ASSUME TypeOK, SettingsBusy, NEW u \in User, NEW r \in SettingsState,
           r.pc # "idle" => r.prefs.ver \in Version, settings' = [settings EXCEPT ![u] = r]
    PROVE  settings' \in [User -> SettingsState] /\ SettingsBusy'
BY DEF TypeOK, SettingsBusy

LEMMA SetPrefs ==
    ASSUME TypeOK, PrefsBusy, NEW u \in User, NEW new \in Prefs, new.ver \in Version,
           prefs' = [prefs EXCEPT ![u] = new]
    PROVE  prefs' \in [User -> Prefs] /\ PrefsBusy'
<1>1. new.ver # -1
  BY DEF Version
<1> QED BY <1>1 DEF TypeOK, PrefsBusy

\* A request only writes the user's rows and its own state.
LEMMA RequestTypes ==
    ASSUME TypeIInv, NEW u \in User,
           SaveDraft(u) \/ SubmitProfile(u) \/ PatchSettings(u) \/ Request(u)
    PROVE  TypeIInv'
<1> USE DEF queueVars, apiVars, userVars, TypeIInv
<1>1. Loaded(u) \in Prefs /\ Loaded(u).ver \in Version /\ Rows(row) /\ TypeOK /\ MaxEdits \in Nat
      /\ submit[u] \in SubmitState /\ settings[u] \in SettingsState
  BY LoadedType, MatchingAssumption DEF TypeOK, Rows
<1>2. Pending(u) \subseteq Pair \X Nat
  BY <1>1 DEF Pending, TypeOK, Match
<1>3. ASSUME NEW pc \in {"idle", "tier", "drop", "stretch", "dropStretch"},
             NEW ids \in SUBSET (Pair \X Nat), SettingsGoto(u, pc, ids)
      PROVE  settings' \in [User -> SettingsState] /\ (settings[u].pc # "idle" => SettingsBusy')
  BY <1>1, <1>3, Idle DEF SettingsGoto, SettingsState, SettingsBusy, TypeOK, IdleSettings
<1>4. AfterTier(u) \in {"idle", "stretch"}
  BY DEF AfterTier
<1>5. ASSUME NEW ids, row' = Deleted(ids) PROVE Rows(row')
  BY <1>1, <1>5, DeletedRows
<1>6. CASE SaveDraft(u)
  <2>1. profile[u].ver + 1 \in Version /\ 0 \in Version
    BY <1>1, <1>6 DEF SaveDraft, TypeOK, Profile, Version
  <2>2. PICK c \in BOOLEAN :
          /\ profile' = [profile EXCEPT ![u] = [ver |-> @.ver + 1, complete |-> c]]
          /\ last' = [last EXCEPT ![u] = IF c THEN @ ELSE 0]
    BY <1>6 DEF SaveDraft
  <2>3. profile' \in [User -> Profile] /\ last' \in [User -> Version]
    BY <1>1, <2>1, <2>2 DEF TypeOK, Profile
  <2> QED BY <1>1, <1>6, <2>3 DEF SaveDraft, TypeOK, PrefsBusy, SubmitBusy, SettingsBusy
<1>7. CASE SubmitProfile(u)
  <2> DEFINE ver == profile[u].ver + 1
  <2>1. ver \in Version /\ 0 \in Version
    BY <1>1, <1>7 DEF SubmitProfile, TypeOK, Profile, Version
  <2>2. PICK c \in BOOLEAN :
         /\ profile' = [profile EXCEPT ![u] = [ver |-> ver, complete |-> c]]
         /\ last' = [last EXCEPT ![u] = IF c THEN ver ELSE 0]
         /\ submit' = [submit EXCEPT ![u] =
              [pc |-> "load", prefs |-> [NoPrefs EXCEPT !.ver = ver], complete |-> c]]
    BY <1>7 DEF SubmitProfile
  <2> HIDE DEF ver
  <2>3. [NoPrefs EXCEPT !.ver = ver] \in Prefs
    BY <2>1, Idle DEF Prefs
  <2>4. [pc |-> "load", prefs |-> [NoPrefs EXCEPT !.ver = ver], complete |-> c] \in SubmitState
    BY <2>2, <2>3 DEF SubmitState
  <2>5. profile' \in [User -> Profile] /\ last' \in [User -> Version]
        /\ submit' \in [User -> SubmitState]
    BY <1>1, <2>1, <2>2, <2>4 DEF TypeOK, Profile
  <2>6. SubmitBusy'
    BY <1>1, <2>1, <2>2 DEF SubmitBusy, TypeOK, NoPrefs
  <2> QED BY <1>1, <1>7, <2>5, <2>6 DEF SubmitProfile, TypeOK, PrefsBusy, SettingsBusy
<1>8. CASE SubmitLoad(u)
  <2>1. submit[u].prefs \in Prefs /\ Loaded(u).set \in Settings
    BY <1>1 DEF SubmitState, Prefs
  <2>2. [submit[u].prefs EXCEPT !.set = Loaded(u).set] \in Prefs
    BY <2>1 DEF Prefs
  <2>3. \/ submit' = [submit EXCEPT ![u] = [submit[u] EXCEPT !.pc = "save"]]
        \/ submit' = [submit EXCEPT ![u] = [submit[u] EXCEPT !.pc = "save",
                         !.prefs = [submit[u].prefs EXCEPT !.set = Loaded(u).set]]]
    BY <1>1, <1>8 DEF SubmitLoad, TypeOK
  <2>4. /\ [submit[u] EXCEPT !.pc = "save"] \in SubmitState
        /\ [submit[u] EXCEPT !.pc = "save"].prefs.ver \in Version
    BY <1>1, <1>8 DEF SubmitState, SubmitLoad, SubmitBusy
  <2>5. /\ [submit[u] EXCEPT !.pc = "save",
               !.prefs = [submit[u].prefs EXCEPT !.set = Loaded(u).set]] \in SubmitState
        /\ [submit[u] EXCEPT !.pc = "save",
               !.prefs = [submit[u].prefs EXCEPT !.set = Loaded(u).set]].prefs.ver \in Version
    BY <1>1, <1>8, <2>2 DEF SubmitState, SubmitLoad, SubmitBusy, Prefs
  <2>6. submit' \in [User -> SubmitState] /\ SubmitBusy'
    BY <1>1, <2>3, <2>4, <2>5, SetSubmit
  <2> QED BY <1>1, <1>8, <2>6
          DEF SubmitLoad, Succeeds, Fails, TypeOK, PrefsBusy, SettingsBusy
<1>9. CASE SubmitSave(u)
  <2>1. submit[u].prefs \in Prefs /\ submit[u].prefs.ver \in Version
    BY <1>1, <1>9 DEF SubmitSave, SubmitState, SubmitBusy
  <2>2. prefs' \in [User -> Prefs] /\ PrefsBusy'
    <3>1. prefs' = [prefs EXCEPT ![u] = submit[u].prefs] \/ prefs' = prefs
      BY <1>9 DEF SubmitSave
    <3> QED BY <1>1, <2>1, <3>1, SetPrefs DEF TypeOK, PrefsBusy
  <2>3. submit' \in [User -> SubmitState] /\ SubmitBusy'
    <3>1. submit' = [submit EXCEPT ![u] = [submit[u] EXCEPT !.pc = "delete"]]
      BY <1>1, <1>9 DEF SubmitSave, TypeOK
    <3>2. [submit[u] EXCEPT !.pc = "delete"] \in SubmitState
          /\ [submit[u] EXCEPT !.pc = "delete"].prefs.ver \in Version
      BY <1>1, <2>1 DEF SubmitState
    <3> QED BY <1>1, <3>1, <3>2, SetSubmit
  <2> QED BY <1>1, <1>9, <2>2, <2>3 DEF SubmitSave, Succeeds, Fails, TypeOK, SettingsBusy
<1>10. CASE SubmitDelete(u)
  <2>1. submit' \in [User -> SubmitState] /\ Rows(row')
    BY <1>1, <1>5, <1>10 DEF SubmitDelete, TypeOK, SubmitState
  <2>2. SubmitBusy'
    BY <1>1, <1>10 DEF SubmitBusy, SubmitDelete, TypeOK, SubmitState
  <2> QED BY <1>1, <1>10, <2>1, <2>2
          DEF SubmitDelete, Succeeds, Fails, TypeOK, Rows, PrefsBusy, SettingsBusy
<1>11. CASE SubmitEnqueue(u)
  <2>1. embedQ \in Seq(User) /\ Append(embedQ, u) \in Seq(User) /\ embedQ \o <<u, u>> \in Seq(User)
    BY <1>1 DEF TypeOK
  <2>2. submit' \in [User -> SubmitState] /\ embedQ' \in Seq(User)
    BY <1>1, <1>11, <2>1, Idle DEF SubmitEnqueue, TypeOK
  <2>3. SubmitBusy'
    BY <1>1, <1>11 DEF SubmitBusy, SubmitEnqueue, TypeOK, IdleSubmit
  <2>4. /\ Succeeds \/ Fails
        /\ UNCHANGED <<userVars, stored, row, processQ, deadEmbeds, deadJobs, settings, patches,
                       last, chosen, crawl, reverse, forward, considered>>
    BY <1>11 DEF SubmitEnqueue
  <2> QED BY <1>1, <2>2, <2>3, <2>4 DEF Succeeds, Fails, TypeOK, PrefsBusy, SettingsBusy
<1>12. CASE PatchSettings(u)
  <2>1. PICK set \in Settings :
          \/ settings' = [settings EXCEPT ![u].pc = "save",
                                          ![u].prefs = [Loaded(u) EXCEPT !.set = set]]
          \/ settings' = settings
    BY <1>12 DEF PatchSettings
  <2>2. [Loaded(u) EXCEPT !.set = set] \in Prefs
    BY <1>1 DEF Prefs
  <2> DEFINE r == [settings[u] EXCEPT !.pc = "save", !.prefs = [Loaded(u) EXCEPT !.set = set]]
  <2>3. settings' \in [User -> SettingsState] /\ SettingsBusy'
    <3>1. r \in SettingsState /\ r.prefs.ver \in Version
      BY <1>1, <2>2 DEF SettingsState, Prefs
    <3>2. settings' = [settings EXCEPT ![u] = r] \/ settings' = settings
      BY <1>1, <2>1 DEF TypeOK
    <3> HIDE DEF r
    <3> QED BY <1>1, <3>1, <3>2, SetSettings DEF TypeOK, SettingsBusy
  <2>4. patches' \in [User -> Nat]
    BY <1>1, <1>12 DEF PatchSettings, TypeOK
  <2> QED BY <1>1, <1>12, <2>3, <2>4
          DEF PatchSettings, Succeeds, Fails, TypeOK, PrefsBusy, SubmitBusy
<1>13. CASE SettingsSave(u)
  <2>1. settings' \in [User -> SettingsState] /\ SettingsBusy'
    <3>1. CASE settings' = [settings EXCEPT ![u] = IdleSettings]
      BY <1>1, <3>1, Idle DEF TypeOK, SettingsBusy, IdleSettings
    <3>2. CASE SettingsGoto(u, IF settings[u].prefs.set.mode = "strong_only" THEN "tier" ELSE AfterTier(u), {})
      BY <1>3, <1>4, <1>13, <3>2 DEF SettingsSave
    <3> QED BY <1>13, <3>1, <3>2 DEF SettingsSave
  <2>2. prefs' \in [User -> Prefs] /\ chosen' \in [User -> Settings]
    BY <1>1, <1>13 DEF SettingsSave, TypeOK, SettingsState, Prefs
  <2>3. PrefsBusy'
    <3>1. settings[u].prefs \in Prefs /\ settings[u].prefs.ver \in Version
      BY <1>1, <1>13 DEF SettingsSave, SettingsBusy, SettingsState
    <3>2. prefs' = [prefs EXCEPT ![u] = settings[u].prefs] \/ prefs' = prefs
      BY <1>13 DEF SettingsSave
    <3> QED BY <1>1, <3>1, <3>2, SetPrefs DEF PrefsBusy
  <2> QED BY <1>1, <1>13, <2>1, <2>2, <2>3 DEF SettingsSave, Succeeds, Fails, TypeOK, SubmitBusy
<1>14. ASSUME NEW pc \in {"tier", "stretch"}, NEW kinds, NEW drop \in {"drop", "dropStretch"},
              NEW next \in {"idle", "stretch"}, SelectPurge(u, pc, kinds, drop, next)
       PROVE  TypeIInv'
  <2>1. OfKind(Pending(u), kinds) \in SUBSET (Pair \X Nat) /\ {} \in SUBSET (Pair \X Nat)
    BY <1>2 DEF OfKind
  <2>2. settings' \in [User -> SettingsState] /\ SettingsBusy'
    BY <1>3, <1>14, <2>1 DEF SelectPurge
  <2> QED BY <1>1, <1>14, <2>2 DEF SelectPurge, Succeeds, Fails, TypeOK, PrefsBusy, SubmitBusy
<1>15. ASSUME NEW pc \in {"drop", "dropStretch"}, NEW next \in {"idle", "stretch"}, DeletePurge(u, pc, next)
       PROVE  TypeIInv'
  <2>1. settings' \in [User -> SettingsState] /\ SettingsBusy'
    BY <1>3, <1>15 DEF DeletePurge
  <2>2. Rows(row')
    BY <1>1, <1>5, <1>15 DEF DeletePurge
  <2> QED BY <1>1, <1>15, <2>1, <2>2
          DEF DeletePurge, Succeeds, Fails, TypeOK, Rows, PrefsBusy, SubmitBusy
<1>16. CASE DeletePendingPromisingMatches(u)
  BY <1>4, <1>14, <1>15, <1>16 DEF DeletePendingPromisingMatches
<1>17. CASE DeletePendingStretchMatches(u)
  BY <1>14, <1>15, <1>17 DEF DeletePendingStretchMatches
<1> QED BY <1>6, <1>7, <1>8, <1>9, <1>10, <1>11, <1>12, <1>13, <1>16, <1>17 DEF Request

\* What a step of a matcher leaves well-formed, if it does so for its own state.
LEMMA SetReverse ==
    ASSUME TypeIInv, NEW w \in EmbedWorker, NEW r \in ReverseState, ReverseBusy(r),
           reverse' = [reverse EXCEPT ![w] = r], ReverseFrame, Succeeds \/ Fails,
           Rows(row'), chunks' \in [User -> Profile], considered' \in [Pair -> Version],
           embedQ' \in Seq(User), deadEmbeds' \subseteq User
    PROVE  TypeIInv'
<1>1. /\ reverse' \in [EmbedWorker -> ReverseState]
      /\ \A v \in EmbedWorker : ReverseBusy(reverse'[v])
  BY DEF TypeIInv, TypeOK
<1> QED BY <1>1 DEF TypeIInv, TypeOK, Rows, ReverseFrame, apiVars, Succeeds, Fails,
             PrefsBusy, SubmitBusy, SettingsBusy

LEMMA SetForward ==
    ASSUME TypeIInv, NEW w \in JobWorker, NEW f \in ForwardState, ForwardBusy(f),
           forward' = [forward EXCEPT ![w] = f], ForwardFrame, Succeeds \/ Fails,
           Rows(row'), considered' \in [Pair -> Version],
           processQ' \in Seq(Job), deadJobs' \subseteq Job
    PROVE  TypeIInv'
<1>1. /\ forward' \in [JobWorker -> ForwardState]
      /\ \A v \in JobWorker : ForwardBusy(forward'[v])
  BY DEF TypeIInv, TypeOK
<1> QED BY <1>1 DEF TypeIInv, TypeOK, Rows, ForwardFrame, userVars, apiVars, Succeeds, Fails,
             PrefsBusy, SubmitBusy, SettingsBusy

LEMMA Scanned ==
    ASSUME TypeOK, NEW p \in Pair, NEW ver \in Version \cup {-1}
    PROVE  /\ Judged(p, ver) => considered' \in [Pair -> Version]
           /\ Returned(p) \subseteq Pair \X Nat
<1>1. considered[p] \in Version /\ row[p].gen \in Nat /\ row[p].gen + 1 \in Nat
  BY DEF TypeOK, Match
<1>2. ver > considered[p] => ver \in Version
  BY <1>1 DEF Version
<1>3. Judged(p, ver) => considered' \in [Pair -> Version]
  BY <1>1, <1>2 DEF TypeOK, Judged
<1>4. Returned(p) \subseteq Pair \X Nat
  BY <1>1 DEF Returned
<1> QED BY <1>3, <1>4

LEMMA ReverseTypes ==
    ASSUME TypeIInv, NEW w \in EmbedWorker, ReverseStep(w)
    PROVE  TypeIInv'
<1> DEFINE old == reverse[w]
<1>1. /\ old \in ReverseState /\ ReverseBusy(old) /\ TypeOK /\ Rows(row)
      /\ reverse = [reverse EXCEPT ![w] = old]
  BY DEF TypeIInv, TypeOK, Rows
<1>2. chunks \in [User -> Profile] /\ considered \in [Pair -> Version]
      /\ embedQ \in Seq(User) /\ deadEmbeds \subseteq User
  BY <1>1 DEF TypeOK
<1>3. IdleReverse \in ReverseState /\ ReverseBusy(IdleReverse)
  BY Idle
<1>4. CASE EmbedPop(w)
  <2>1. embedQ' \in Seq(User) /\ Last(embedQ) \in User
    BY <1>2, <1>4, Queues DEF EmbedPop
  <2> DEFINE r == IF reverse' = reverse THEN old
                  ELSE [old EXCEPT !.pc = "read", !.user = Last(embedQ)]
  <2>2. reverse' = [reverse EXCEPT ![w] = r]
    BY <1>1, <1>4 DEF EmbedPop, TypeOK
  <2>3. r \in ReverseState /\ ReverseBusy(r)
    BY <1>1, <1>4, <2>1 DEF EmbedPop, ReverseState, ReverseBusy, IdleReverse
  <2> HIDE DEF r
  <2> QED BY <1>1, <1>2, <1>4, <2>1, <2>2, <2>3, SetReverse DEF EmbedPop
<1>5. CASE EmbedRead(w)
  <2>1. old.user \in User /\ profile[old.user] \in Profile
    BY <1>1, <1>5 DEF EmbedRead, ReverseBusy, TypeOK
  <2> DEFINE r == [old EXCEPT !.pc = "replace", !.text = profile[old.user]]
  <2>2. r \in ReverseState /\ ReverseBusy(r)
    BY <1>1, <1>5, <2>1 DEF EmbedRead, ReverseState, ReverseBusy
  <2>3. reverse' = [reverse EXCEPT ![w] = r] \/ reverse' = [reverse EXCEPT ![w] = IdleReverse]
    BY <1>1, <1>5 DEF EmbedRead, EmbedFails, EndReverse, TypeOK
  <2>4. deadEmbeds' \subseteq User
    BY <1>2, <1>5, <2>1 DEF EmbedRead, EmbedFails
  <2> HIDE DEF r
  <2> QED BY <1>1, <1>2, <1>3, <1>5, <2>2, <2>3, <2>4, SetReverse DEF EmbedRead, EmbedFails
<1>6. CASE ReplaceChunks(w)
  <2>1. old.user \in User /\ old.text \in Profile
    BY <1>1, <1>6 DEF ReplaceChunks, ReverseBusy, ReverseState
  <2> DEFINE r == [old EXCEPT !.pc = "prefs"]
  <2>2. r \in ReverseState /\ ReverseBusy(r)
    BY <1>1, <1>6, <2>1 DEF ReplaceChunks, ReverseState, ReverseBusy
  <2>3. reverse' = [reverse EXCEPT ![w] = r] \/ reverse' = [reverse EXCEPT ![w] = IdleReverse]
    BY <1>1, <1>6 DEF ReplaceChunks, EmbedFails, EndReverse, GotoReverse, TypeOK
  <2>4. deadEmbeds' \subseteq User /\ chunks' \in [User -> Profile]
    BY <1>2, <1>6, <2>1 DEF ReplaceChunks, EmbedFails
  <2> HIDE DEF r
  <2> QED BY <1>1, <1>2, <1>3, <1>6, <2>2, <2>3, <2>4, SetReverse DEF ReplaceChunks, EmbedFails
<1>7. CASE ReversePrefs(w)
  <2>1. Loaded(old.user) \in Prefs /\ Loaded(old.user).ver \in Version
    BY <1>1, <1>7, LoadedType DEF ReversePrefs, ReverseBusy, TypeIInv
  <2> DEFINE r == [old EXCEPT !.pc = "list", !.prefs = Loaded(old.user)]
  <2>2. r \in ReverseState /\ ReverseBusy(r)
    BY <1>1, <1>7, <2>1 DEF ReversePrefs, ReverseState, ReverseBusy
  <2>3. reverse' = [reverse EXCEPT ![w] = r] \/ reverse' = [reverse EXCEPT ![w] = IdleReverse]
    BY <1>1, <1>7 DEF ReversePrefs, EndReverse, TypeOK
  <2> HIDE DEF r
  <2> QED BY <1>1, <1>2, <1>3, <1>7, <2>2, <2>3, SetReverse DEF ReversePrefs
<1>8. CASE ReverseList(w)
  <2>1. NewestFirst(stored) \in Seq(Job)
    BY <1>1, Newest DEF TypeOK
  <2> DEFINE r == [old EXCEPT !.pc = "scan", !.todo = NewestFirst(stored)]
  <2>2. r \in ReverseState /\ ReverseBusy(r)
    BY <1>1, <1>8, <2>1 DEF ReverseList, ReverseState, ReverseBusy
  <2>3. reverse' = [reverse EXCEPT ![w] = r] \/ reverse' = [reverse EXCEPT ![w] = IdleReverse]
    BY <1>1, <1>8 DEF ReverseList, EndReverse, TypeOK
  <2> HIDE DEF r
  <2> QED BY <1>1, <1>2, <1>3, <1>8, <2>2, <2>3, SetReverse DEF ReverseList
<1>9. CASE ReverseScan(w)
  <2> DEFINE p == <<old.user, Head(old.todo)>>
             added(kind) == IF row[p].live THEN {} ELSE {<<p, kind>>}
             passed == [old EXCEPT !.todo = Tail(@)]
             more(kind) == [old EXCEPT !.todo = Tail(@), !.tx = @ \cup added(kind),
                                       !.found = @ \cup Returned(p)]
  <2>1. old.pc = "scan" /\ old.user \in User /\ old.todo \in Seq(Job) /\ old.todo # <<>>
    BY <1>1, <1>9 DEF ReverseScan, ReverseBusy, ReverseState
  <2>2. p \in Pair /\ Tail(old.todo) \in Seq(Job) /\ old.prefs.ver \in Version \cup {-1}
    BY <1>1, <2>1, HeadTailProperties DEF Pair, ReverseState, Prefs
  <2>3. Returned(p) \subseteq Pair \X Nat /\ (Judged(p, old.prefs.ver) => considered' \in [Pair -> Version])
    BY <1>1, <2>2, Scanned
  <2>4. passed \in ReverseState /\ ReverseBusy(passed)
    BY <1>1, <2>1, <2>2 DEF ReverseState, ReverseBusy
  <2>5. ASSUME NEW kind \in Kind PROVE more(kind) \in ReverseState /\ ReverseBusy(more(kind))
    <3>1. added(kind) \subseteq Pair \X Kind
      BY <2>2
    <3> HIDE DEF added, p
    <3> QED BY <1>1, <2>1, <2>2, <2>3, <3>1 DEF ReverseState, ReverseBusy
  <2>6. \/ reverse' = [reverse EXCEPT ![w] = passed] \/ reverse' = [reverse EXCEPT ![w] = IdleReverse]
        \/ \E kind \in Kind : reverse' = [reverse EXCEPT ![w] = more(kind)]
    <3>1. \/ reverse' = [reverse EXCEPT ![w].todo = Tail(@)]
          \/ \E kind \in Kind :
               reverse' = [reverse EXCEPT ![w].todo = Tail(@), ![w].tx = @ \cup added(kind),
                                          ![w].found = @ \cup Returned(p)]
          \/ EndReverse(w)
      BY <1>9 DEF ReverseScan
    <3>2. reverse \in [EmbedWorker -> ReverseState]
      BY <1>1 DEF TypeOK
    <3> HIDE DEF added, p
    <3>3. [reverse EXCEPT ![w].todo = Tail(@)] = [reverse EXCEPT ![w] = passed]
      BY <3>2
    <3>4. \A kind \in Kind :
            [reverse EXCEPT ![w].todo = Tail(@), ![w].tx = @ \cup added(kind),
                            ![w].found = @ \cup Returned(p)] = [reverse EXCEPT ![w] = more(kind)]
      BY <3>2 DEF ReverseState
    <3> QED BY <3>1, <3>3, <3>4 DEF EndReverse
  <2>7. considered' \in [Pair -> Version]
    BY <1>2, <1>9, <2>3 DEF ReverseScan
  <2>8. ReverseFrame /\ (Succeeds \/ Fails) /\ UNCHANGED <<chunks, row, embedQ, deadEmbeds>>
    BY <1>9 DEF ReverseScan
  <2> HIDE DEF p, added, passed, more
  <2> QED BY <1>1, <1>2, <1>3, <2>4, <2>5, <2>6, <2>7, <2>8, SetReverse
<1>10. CASE ReverseCommit(w)
  <2> DEFINE r == [IdleReverse EXCEPT !.pc = "enqueue", !.user = old.user, !.found = old.found]
             kindOf(p) == CHOOSE k \in Kind : <<p, k>> \in old.tx
             new(p) == IF \E k \in Kind : <<p, k>> \in old.tx
                       THEN Inserted(p, kindOf(p), old.prefs.ver) ELSE row[p]
  <2>1. old.pc = "scan" /\ old.user \in User
    BY <1>1, <1>10 DEF ReverseCommit, ReverseBusy
  <2>2. r \in ReverseState /\ ReverseBusy(r)
    BY <1>1, <1>3, <2>1 DEF ReverseState, ReverseBusy, IdleReverse
  <2>3. reverse' = [reverse EXCEPT ![w] = r] \/ reverse' = [reverse EXCEPT ![w] = IdleReverse]
    BY <1>1, <1>10 DEF ReverseCommit, EndReverse, TypeOK
  <2>4. row' = [p \in Pair |-> new(p)] \/ row' = row
    BY <1>10 DEF ReverseCommit
  <2>5. Rows(row')
    <3>1. old.prefs.ver \in Version /\ old.tx \subseteq Pair \X Kind
      BY <1>1, <2>1 DEF ReverseBusy, ReverseState
    <3>2. \A p \in Pair : (\E k \in Kind : <<p, k>> \in old.tx) => kindOf(p) \in Kind
      OBVIOUS
    <3> HIDE DEF kindOf
    <3>3. \A p \in Pair : new(p) = row[p] \/ (new(p) \in Match /\ new(p).live)
      BY <1>1, <3>1, <3>2, InsertedRow
    <3> HIDE DEF new
    <3> QED BY <1>1, <2>4, <3>3 DEF Rows
  <2> HIDE DEF r
  <2> QED BY <1>1, <1>2, <1>3, <1>10, <2>2, <2>3, <2>5, SetReverse DEF ReverseCommit
<1>11. CASE ReverseEnqueue(w)
  <2> DEFINE left(id) == [old EXCEPT !.found = @ \ {id}]
  <2>1. old.found \subseteq Pair \X Nat
    BY <1>1 DEF ReverseState
  <2>2. \A id : left(id) \in ReverseState /\ ReverseBusy(left(id))
    BY <1>1, <1>11 DEF ReverseEnqueue, ReverseState, ReverseBusy
  <2>3. \/ reverse' = [reverse EXCEPT ![w] = IdleReverse] /\ row' = row
        \/ \E id \in old.found :
             /\ reverse' = [reverse EXCEPT ![w] = left(id)]
             /\ row' = Pushes(id, 1) \/ row' = Pushes(id, 2) \/ row' = row
    BY <1>1, <1>11 DEF ReverseEnqueue, EndReverse, TypeOK, Queued, QueuedTwice
  <2>4. Rows(row')
    BY <1>1, <2>1, <2>3, PushedRows
  <2> HIDE DEF left
  <2> QED BY <1>1, <1>2, <1>3, <1>11, <2>2, <2>3, <2>4, SetReverse DEF ReverseEnqueue
<1> QED BY <1>4, <1>5, <1>6, <1>7, <1>8, <1>9, <1>10, <1>11 DEF ReverseStep

LEMMA ForwardTypes ==
    ASSUME TypeIInv, NEW w \in JobWorker, ForwardStep(w)
    PROVE  TypeIInv'
<1> DEFINE old == forward[w]
<1>1. /\ old \in ForwardState /\ ForwardBusy(old) /\ TypeOK /\ Rows(row)
      /\ forward = [forward EXCEPT ![w] = old]
  BY DEF TypeIInv, TypeOK, Rows
<1>2. considered \in [Pair -> Version] /\ processQ \in Seq(Job) /\ deadJobs \subseteq Job
  BY <1>1 DEF TypeOK
<1>3. IdleForward \in ForwardState /\ ForwardBusy(IdleForward)
  BY Idle
<1>4. CASE ForwardPop(w)
  <2>1. processQ' \in Seq(Job) /\ Last(processQ) \in Job
    BY <1>2, <1>4, Queues DEF ForwardPop
  <2> DEFINE f == IF forward' = forward THEN old
                  ELSE [old EXCEPT !.pc = "list", !.job = Last(processQ)]
  <2>2. forward' = [forward EXCEPT ![w] = f]
    BY <1>1, <1>4 DEF ForwardPop, TypeOK
  <2>3. f \in ForwardState /\ ForwardBusy(f)
    BY <1>1, <1>4, <2>1 DEF ForwardPop, ForwardState, ForwardBusy, IdleForward
  <2>4. ForwardFrame /\ (Succeeds \/ Fails) /\ UNCHANGED <<row, deadJobs, considered>>
    BY <1>4 DEF ForwardPop
  <2> HIDE DEF f
  <2> QED BY <1>1, <1>2, <2>1, <2>2, <2>3, <2>4, SetForward
<1>5. CASE ForwardList(w)
  <2> DEFINE users == {u \in User : chunks[u].ver > 0}
             f == [old EXCEPT !.pc = "scan", !.todo = users,
                     !.prefs = [u \in User |-> IF u \in users THEN Loaded(u) ELSE NoPrefs]]
  <2>1. old.pc = "list" /\ old.job \in Job /\ users \subseteq User
    BY <1>1, <1>5 DEF ForwardList, ForwardBusy
  <2>2. \A u \in User : Loaded(u) \in Prefs /\ Loaded(u).ver \in Version
    BY <1>1, LoadedType DEF TypeIInv
  <2>3. \/ forward' = [forward EXCEPT ![w] = f] /\ Succeeds /\ UNCHANGED deadJobs
        \/ ForwardFails(w)
    <3>1. forward \in [JobWorker -> ForwardState]
      BY <1>1 DEF TypeOK
    <3> QED BY <1>5, <3>1 DEF ForwardList
  <2> HIDE DEF users
  <2>4. [u \in User |-> IF u \in users THEN Loaded(u) ELSE NoPrefs] \in [User -> Prefs]
    BY <2>2, Idle
  <2>5. f \in ForwardState /\ ForwardBusy(f)
    BY <1>1, <2>1, <2>2, <2>4 DEF ForwardState, ForwardBusy
  <2>6. ForwardFrame /\ UNCHANGED <<row, processQ, considered>>
    BY <1>5 DEF ForwardList
  <2> HIDE DEF f
  <2> QED BY <1>1, <1>2, <1>3, <2>1, <2>3, <2>5, <2>6, SetForward DEF ForwardFails, EndForward
<1>6. CASE ForwardScan(w)
  <2>1. PICK u \in old.todo :
         LET p == <<u, old.job>>
             Rest == [old EXCEPT !.todo = @ \ {u}, !.prefs[u] = NoPrefs]
             Added == /\ ~Locked(p)
                      /\ \E kind \in {k \in Kind : Allowed(old.prefs[u].set, k)} :
                           row' = [row EXCEPT ![p] = Inserted(p, kind, old.prefs[u].ver)]
         IN
         \/ /\ Succeeds /\ Judged(p, old.prefs[u].ver) /\ UNCHANGED deadJobs
            /\ \/ forward' = [forward EXCEPT ![w] = Rest] /\ UNCHANGED row
               \/ /\ Added
                  /\ forward' = [forward EXCEPT ![w] = [Rest EXCEPT !.found = @ \cup Returned(p)]]
         \/ /\ ForwardFails(w) /\ UNCHANGED considered
            /\ UNCHANGED row \/ Added
    BY <1>6 DEF ForwardScan
  <2> DEFINE p == <<u, old.job>>
             rest == [old EXCEPT !.todo = @ \ {u}, !.prefs[u] = NoPrefs]
             more == [rest EXCEPT !.found = @ \cup Returned(p)]
  <2>2. old.pc = "scan" /\ old.job \in Job /\ u \in User /\ p \in Pair
        /\ old.prefs[u].ver \in Version
    BY <1>1, <1>6, <2>1 DEF ForwardScan, ForwardBusy, ForwardState, Pair
  <2>3. Returned(p) \subseteq Pair \X Nat /\ (Judged(p, old.prefs[u].ver) => considered' \in [Pair -> Version])
    BY <1>1, <2>2, Scanned
  <2>4. Rows(row')
    <3>1. \A kind \in Kind : Inserted(p, kind, old.prefs[u].ver) \in Match
                             /\ Inserted(p, kind, old.prefs[u].ver).live
      BY <1>1, <2>2, InsertedRow
    <3>2. \/ row' = row
          \/ \E kind \in Kind : row' = [row EXCEPT ![p] = Inserted(p, kind, old.prefs[u].ver)]
      BY <2>1
    <3> HIDE DEF p
    <3> QED BY <1>1, <2>2, <3>1, <3>2 DEF Rows
  <2>5. considered' \in [Pair -> Version]
    BY <1>2, <2>1, <2>3
  <2>6. rest.todo = old.todo \ {u} /\ rest.pc = "scan" /\ rest.job = old.job
        /\ rest.found = old.found /\ rest.prefs = [old.prefs EXCEPT ![u] = NoPrefs]
        /\ rest \in ForwardState
    BY <1>1, <2>2, Idle DEF ForwardState
  <2>7. ForwardBusy(rest)
    BY <1>1, <2>2, <2>6 DEF ForwardBusy, ForwardState
  <2>8. \/ forward' = [forward EXCEPT ![w] = rest] /\ Succeeds /\ UNCHANGED deadJobs
        \/ forward' = [forward EXCEPT ![w] = more] /\ Succeeds /\ UNCHANGED deadJobs
        \/ ForwardFails(w)
    BY <2>1
  <2> HIDE DEF p, rest
  <2>9. more \in ForwardState /\ ForwardBusy(more)
    BY <2>3, <2>6, <2>7 DEF ForwardState, ForwardBusy
  <2>10. ForwardFrame /\ UNCHANGED processQ
    BY <1>6 DEF ForwardScan
  <2> HIDE DEF more
  <2> QED BY <1>1, <1>2, <1>3, <2>2, <2>4, <2>5, <2>6, <2>7, <2>8, <2>9, <2>10, SetForward
          DEF ForwardFails, EndForward
<1>7. CASE ForwardEnqueue(w)
  <2> DEFINE left(id) == [old EXCEPT !.found = @ \ {id}]
  <2>1. old.found \subseteq Pair \X Nat /\ old.job \in Job
    BY <1>1, <1>7 DEF ForwardState, ForwardEnqueue, ForwardBusy
  <2>2. \A id : left(id) \in ForwardState /\ ForwardBusy(left(id))
    BY <1>1, <1>7 DEF ForwardEnqueue, ForwardState, ForwardBusy
  <2>3. \/ EndForward(w) /\ Succeeds /\ row' = row /\ UNCHANGED deadJobs
        \/ \E id \in old.found :
             /\ \/ forward' = [forward EXCEPT ![w] = left(id)] /\ (Succeeds \/ Fails)
                   /\ UNCHANGED deadJobs
                \/ ForwardFails(w)
             /\ row' = Pushes(id, 1) \/ row' = Pushes(id, 2) \/ row' = row
    <3>1. forward \in [JobWorker -> ForwardState]
      BY <1>1 DEF TypeOK
    <3>2. \A id : [forward EXCEPT ![w].found = @ \ {id}] = [forward EXCEPT ![w] = left(id)]
      BY <3>1
    <3> HIDE DEF left
    <3> QED BY <1>7, <3>2 DEF ForwardEnqueue, Queued, QueuedTwice
  <2>4. Rows(row')
    BY <1>1, <2>1, <2>3, PushedRows
  <2>5. ForwardFrame /\ UNCHANGED <<processQ, considered>>
    BY <1>7 DEF ForwardEnqueue
  <2> HIDE DEF left
  <2> QED BY <1>1, <1>2, <1>3, <2>1, <2>2, <2>3, <2>4, <2>5, SetForward
          DEF ForwardFails, EndForward
<1> QED BY <1>4, <1>5, <1>6, <1>7 DEF ForwardStep

LEMMA OtherTypes ==
    ASSUME TypeIInv,
           (\E j \in Job : StoreJob(j)) \/ EnqueueProcessJob \/ (\E p \in Pair : Tailor(p)) \/ Crash
    PROVE  TypeIInv'
<1> USE DEF TypeIInv, userVars, queueVars, apiVars, PrefsBusy, SubmitBusy, SettingsBusy
<1>1. CASE \E j \in Job : StoreJob(j)
  <2>1. stored' \in Seq(Job) /\ crawl' \in Job \cup {None}
    <3>1. PICK j \in Job : StoreJob(j)
      BY <1>1
    <3>2. stored \in Seq(Job) /\ Append(stored, j) \in Seq(Job) /\ crawl \in Job \cup {None}
      BY DEF TypeOK
    <3>3. stored' = Append(stored, j) /\ crawl' \in {j, crawl}
      BY <3>1 DEF StoreJob
    <3> QED BY <3>2, <3>3
  <2>2. /\ Succeeds \/ Fails
        /\ UNCHANGED <<userVars, row, queueVars, apiVars, reverse, forward, considered>>
    BY <1>1 DEF StoreJob
  <2> QED BY <2>1, <2>2 DEF TypeOK, Succeeds, Fails
<1>2. CASE EnqueueProcessJob
  <2>1. crawl \in Job /\ processQ \in Seq(Job)
    BY <1>2 DEF EnqueueProcessJob, TypeOK
  <2>2. Append(processQ, crawl) \in Seq(Job) /\ processQ \o <<crawl, crawl>> \in Seq(Job)
    BY <2>1
  <2>3. processQ' \in Seq(Job) /\ crawl' = None
    BY <1>2, <2>1, <2>2 DEF EnqueueProcessJob
  <2>4. /\ Succeeds \/ Fails
        /\ UNCHANGED <<userVars, stored, row, embedQ, deadEmbeds, deadJobs, apiVars, reverse,
                       forward, considered>>
    BY <1>2 DEF EnqueueProcessJob
  <2> QED BY <2>3, <2>4 DEF TypeOK, Succeeds, Fails
<1>3. CASE \E p \in Pair : Tailor(p)
  <2>1. Rows(row')
    <3>1. PICK p \in Pair : Tailor(p)
      BY <1>3
    <3>2. Rows(row) /\ row[p] \in Match /\ row' = [row EXCEPT ![p] = [row[p] EXCEPT !.app = TRUE]]
      BY <3>1 DEF TypeOK, Rows, Tailor
    <3>3. [row[p] EXCEPT !.app = TRUE] \in Match /\ [row[p] EXCEPT !.app = TRUE].live
      BY <3>1, <3>2 DEF Match, Tailor
    <3> QED BY <3>2, <3>3 DEF Rows
  <2> QED BY <1>3, <2>1 DEF Tailor, TypeOK, Rows
<1>4. CASE Crash
  <2>1. /\ reverse' \in [EmbedWorker -> ReverseState]
        /\ \A w \in EmbedWorker : ReverseBusy(reverse'[w])
    BY <1>4, Idle DEF Crash, EndReverse, TypeOK
  <2>2. /\ forward' \in [JobWorker -> ForwardState]
        /\ \A w \in JobWorker : ForwardBusy(forward'[w])
    BY <1>4, Idle DEF Crash, EndForward, TypeOK
  <2>3. /\ submit' \in [User -> SubmitState] /\ settings' \in [User -> SettingsState]
        /\ SubmitBusy' /\ SettingsBusy' /\ crawl' \in Job \cup {None} /\ stops' \in Nat
    <3>1. \/ UNCHANGED <<submit, settings>>
          \/ submit' = [u \in User |-> IdleSubmit] /\ settings' = [u \in User |-> IdleSettings]
      BY <1>4 DEF Crash
    <3>2. submit' \in [User -> SubmitState] /\ settings' \in [User -> SettingsState]
      BY <3>1, Idle DEF TypeOK
    <3>3. SubmitBusy' /\ SettingsBusy'
      BY <3>1 DEF IdleSubmit, IdleSettings
    <3>4. crawl' \in Job \cup {None} /\ stops' \in Nat
      BY <1>4 DEF Crash, TypeOK
    <3> QED BY <3>2, <3>3, <3>4
  <2>4. UNCHANGED <<userVars, stored, row, queueVars, patches, last, chosen, considered, faults>>
    BY <1>4 DEF Crash
  <2> QED BY <2>1, <2>2, <2>3, <2>4 DEF TypeOK
<1> QED BY <1>1, <1>2, <1>3, <1>4

LEMMA TypeInit == Init => TypeIInv
<1> SUFFICES ASSUME Init PROVE TypeIInv
  OBVIOUS
<1>1. 0 \in Version /\ 0 \in Nat
  BY MatchingAssumption DEF Version
<1>2. \A p \in Pair : row[p] = NoMatch(0) /\ row[p] \in Match /\ row[p].gen = 0
  BY <1>1, NoMatchType DEF Init
<1>3. Rows(row)
  BY <1>2 DEF Init, Rows
<1>4. stored \in Seq(Job) /\ embedQ \in Seq(User) /\ processQ \in Seq(Job)
  BY DEF Init
<1>5. TypeOK
  BY <1>1, <1>3, <1>4, Idle DEF Init, TypeOK, Rows
<1>6. PrefsBusy /\ SubmitBusy /\ SettingsBusy
  BY DEF Init, PrefsBusy, SubmitBusy, SettingsBusy, IdleSubmit, IdleSettings
<1> QED BY <1>5, <1>6, Idle DEF Init, TypeIInv

LEMMA TypeStep == TypeIInv /\ [Next]_vars => TypeIInv'
<1>1. TypeIInv /\ UNCHANGED vars => TypeIInv'
  BY DEF TypeIInv, TypeOK, PrefsBusy, SubmitBusy, SettingsBusy, vars, userVars, queueVars, apiVars
<1>2. TypeIInv /\ Next => TypeIInv'
  BY RequestTypes, ReverseTypes, ForwardTypes, OtherTypes DEF Next
<1> QED BY <1>1, <1>2

\* Nothing leaves its type, and an idle matcher has nothing in hand.
THEOREM MatchingTypes == Spec => []TypeIInv
BY TypeInit, TypeStep, PTL DEF Spec

-----------------------------------------------------------------------------
(* Every match is pushed by the one matcher that its INSERT gave the id.    *)

\* The id of a row that has been committed and not yet pushed, or of one that
\* is no longer there.
Unpushed(id) ==
    /\ id[2] <= row[id[1]].gen
    /\ id[2] = row[id[1]].gen => row[id[1]].queued = 0

\* The id of a row that the open transaction of w will add.
Opened(w, id) ==
    /\ ~row[id[1]].live /\ id[2] = row[id[1]].gen + 1
    /\ \E k \in Kind : <<id[1], k>> \in reverse[w].tx

\* No id is in the hands of two matchers, a held one was not pushed, and the
\* pairs of an open transaction have no row.
Held ==
    /\ \A w \in EmbedWorker : \A id \in reverse[w].found : Unpushed(id) \/ Opened(w, id)
    /\ \A w \in JobWorker : \A id \in forward[w].found : Unpushed(id)
    /\ \A w \in EmbedWorker, p \in Pair, k \in Kind : <<p, k>> \in reverse[w].tx =>
         ~row[p].live /\ <<p, row[p].gen + 1>> \in reverse[w].found
Apart ==
    /\ \A v, w \in EmbedWorker : v # w => reverse[v].found \cap reverse[w].found = {}
    /\ \A v, w \in JobWorker : v # w => forward[v].found \cap forward[w].found = {}
    /\ \A v \in EmbedWorker, w \in JobWorker : reverse[v].found \cap forward[w].found = {}

IdsInv == QueuedOnce /\ Held /\ Apart

\* Without a fault a match nobody has pushed is in somebody's hands.
InHands(id) ==
    \/ \E w \in EmbedWorker : id \in reverse[w].found
    \/ \E w \in JobWorker : id \in forward[w].found
HandsInv ==
    Undamaged => \A p \in Pair : row[p].live /\ row[p].queued = 0 => InHands(<<p, row[p].gen>>)

\* Rows that are at most tailored or deleted, and matchers that keep what they
\* hold, unless something failed.
RowsSettle ==
    \A p \in Pair : /\ row'[p].gen = row[p].gen /\ row'[p].queued \in {row[p].queued, 0}
                    /\ row'[p].live => row[p].live /\ row'[p].queued = row[p].queued
Damages == faults' \in Nat /\ faults' >= faults /\ (Undamaged' => Undamaged)
ReverseKeeps(w) ==
    \/ reverse'[w].found = reverse[w].found /\ reverse'[w].tx = reverse[w].tx
    \/ ~Undamaged' /\ reverse'[w].found = {} /\ reverse'[w].tx = {}
ForwardKeeps(w) ==
    forward'[w].found = forward[w].found \/ (~Undamaged' /\ forward'[w].found = {})

LEMMA HeldIds ==
    ASSUME TypeIInv
    PROVE  /\ \A w \in EmbedWorker : \A id \in reverse[w].found : id[1] \in Pair /\ id[2] \in Nat
           /\ \A w \in JobWorker : \A id \in forward[w].found : id[1] \in Pair /\ id[2] \in Nat
<1>1. \A w \in EmbedWorker : reverse[w].found \subseteq Pair \X Nat
  BY DEF TypeIInv, TypeOK, ReverseState
<1>2. \A w \in JobWorker : forward[w].found \subseteq Pair \X Nat
  <2>1. \A w \in JobWorker : forward[w] \in ForwardState
    BY DEF TypeIInv, TypeOK
  <2> QED BY <2>1 DEF ForwardState
<1> QED BY <1>1, <1>2

LEMMA Settles ==
    ASSUME TypeIInv, IdsInv, HandsInv, Damages, RowsSettle,
           \A w \in EmbedWorker : ReverseKeeps(w), \A w \in JobWorker : ForwardKeeps(w)
    PROVE  IdsInv' /\ HandsInv'
<1>1. faults \in Nat /\ faults' \in Nat /\ faults' >= faults
      /\ \A p \in Pair : row[p].queued \in Nat /\ row[p].gen \in Nat
  BY DEF TypeIInv, TypeOK, Damages, Match
<1>2. QueuedOnce'
  BY <1>1 DEF IdsInv, QueuedOnce, RowsSettle
<1>3. ASSUME NEW w \in EmbedWorker, NEW id \in reverse'[w].found
      PROVE  (Unpushed(id) \/ Opened(w, id))'
  <2>1. id \in reverse[w].found /\ reverse'[w].tx = reverse[w].tx /\ id[1] \in Pair
    BY <1>3, HeldIds DEF ReverseKeeps
  <2>2. Unpushed(id) \/ Opened(w, id)
    BY <2>1 DEF IdsInv, Held
  <2> QED BY <2>1, <2>2 DEF Unpushed, Opened, RowsSettle
<1>4. ASSUME NEW w \in JobWorker, NEW id \in forward'[w].found PROVE Unpushed(id)'
  <2>1. id \in forward[w].found /\ id[1] \in Pair
    BY <1>4, HeldIds DEF ForwardKeeps
  <2>2. Unpushed(id)
    BY <2>1 DEF IdsInv, Held
  <2> QED BY <2>1, <2>2 DEF Unpushed, RowsSettle
<1>5. ASSUME NEW w \in EmbedWorker, NEW p \in Pair, NEW k \in Kind, <<p, k>> \in reverse'[w].tx
      PROVE  ~row'[p].live /\ <<p, row'[p].gen + 1>> \in reverse'[w].found
  BY <1>5 DEF ReverseKeeps, IdsInv, Held, RowsSettle
<1>6. Held'
  BY <1>3, <1>4, <1>5 DEF Held
<1>7. Apart'
  BY DEF IdsInv, Apart, ReverseKeeps, ForwardKeeps
<1>8. HandsInv'
  <2> SUFFICES ASSUME Undamaged', NEW p \in Pair, row'[p].live, row'[p].queued = 0
               PROVE  InHands(<<p, row[p].gen>>)'
    BY DEF HandsInv
  <2>1. row[p].live /\ row[p].queued = 0 /\ row'[p].gen = row[p].gen /\ Undamaged
    BY DEF RowsSettle, Damages
  <2>2. InHands(<<p, row[p].gen>>)
    BY <2>1 DEF HandsInv
  <2> QED BY <2>1, <2>2 DEF InHands, ReverseKeeps, ForwardKeeps
<1> QED BY <1>2, <1>6, <1>7, <1>8 DEF IdsInv

\* An INSERT in a transaction: the pair had no row and no other transaction.
LEMMA TakenByReverse ==
    ASSUME TypeIInv, IdsInv, HandsInv, NEW w \in EmbedWorker, NEW p \in Pair, NEW k \in Kind,
           ~row[p].live, ~Locked(p), UNCHANGED <<row, forward, faults, stops>>,
           reverse'[w].found = reverse[w].found \cup {<<p, row[p].gen + 1>>},
           reverse'[w].tx = reverse[w].tx \cup {<<p, k>>},
           \A v \in EmbedWorker \ {w} : reverse'[v] = reverse[v]
    PROVE  IdsInv' /\ HandsInv'
<1>0. row[p].gen \in Nat /\ row[p].gen + 1 \in Nat
  BY DEF TypeIInv, TypeOK, Match
<1> PICK new \in Pair \X Nat : new = <<p, row[p].gen + 1>>
  BY <1>0
<1>1. row[p].gen \in Nat /\ new[1] = p /\ new[2] = row[p].gen + 1 /\ new \in Pair \X Nat
  BY <1>0
<1>2. \A v \in EmbedWorker : ~Opened(v, new)
  BY <1>1 DEF Locked, Opened
<1>3. ~Unpushed(new)
  BY <1>1 DEF Unpushed
<1>4. /\ \A v \in EmbedWorker : new \notin reverse[v].found
      /\ \A v \in JobWorker : new \notin forward[v].found
  BY <1>2, <1>3 DEF IdsInv, Held
<1>5. reverse'[w].found = reverse[w].found \cup {new}
  OBVIOUS
<1>6. Opened(w, new)'
  BY <1>1 DEF Opened
<1>7. Apart'
  BY <1>4, <1>5 DEF IdsInv, Apart
<1>8. ASSUME NEW v \in EmbedWorker, NEW id \in reverse'[v].found
      PROVE  (Unpushed(id) \/ Opened(v, id))'
  <2>1. CASE v = w /\ id = new
    BY <1>6, <2>1 DEF Opened
  <2>2. CASE id \in reverse[v].found
    <3>1. Unpushed(id) \/ Opened(v, id)
      BY <2>2 DEF IdsInv, Held
    <3>2. reverse[v].tx \subseteq reverse'[v].tx
      OBVIOUS
    <3> QED BY <3>1, <3>2 DEF Unpushed, Opened
  <2> QED BY <1>5, <1>8, <2>1, <2>2
<1>9. ASSUME NEW v \in EmbedWorker, NEW q \in Pair, NEW l \in Kind, <<q, l>> \in reverse'[v].tx
      PROVE  ~row'[q].live /\ <<q, row'[q].gen + 1>> \in reverse'[v].found
  <2>1. CASE <<q, l>> \in reverse[v].tx
    BY <1>5, <2>1 DEF IdsInv, Held
  <2>2. CASE v = w /\ q = p
    BY <2>2
  <2> QED BY <1>9, <2>1, <2>2
<1>10. Held'
  BY <1>8, <1>9 DEF IdsInv, Held, Unpushed
<1>11. HandsInv'
  BY <1>5 DEF HandsInv, InHands, Undamaged
<1> QED BY <1>7, <1>10, <1>11 DEF IdsInv, QueuedOnce

\* An INSERT that commits at once; the matcher that fails after it forgets it.
LEMMA TakenByForward ==
    ASSUME TypeIInv, IdsInv, HandsInv, NEW w \in JobWorker, NEW p \in Pair, Damages,
           ~row[p].live, ~Locked(p), UNCHANGED reverse,
           row'[p].live, row'[p].gen = row[p].gen + 1, row'[p].queued = 0,
           \A q \in Pair \ {p} : row'[q] = row[q],
           \/ forward'[w].found = forward[w].found \cup {<<p, row[p].gen + 1>>}
           \/ ~Undamaged' /\ forward'[w].found = {},
           \A v \in JobWorker \ {w} : forward'[v] = forward[v]
    PROVE  IdsInv' /\ HandsInv'
<1>0. row[p].gen \in Nat /\ row[p].gen + 1 \in Nat
  BY DEF TypeIInv, TypeOK, Match
<1> PICK new \in Pair \X Nat : new = <<p, row[p].gen + 1>>
  BY <1>0
<1>1. /\ row[p].gen \in Nat /\ new[1] = p /\ new[2] = row[p].gen + 1 /\ new \in Pair \X Nat
      /\ faults \in Nat /\ faults' \in Nat /\ faults' >= faults
      /\ \A q \in Pair : row[q].queued \in Nat
  BY <1>0 DEF TypeIInv, TypeOK, Match, Damages
<1>2. \A v \in EmbedWorker, k \in Kind : <<p, k>> \notin reverse[v].tx
  BY DEF Locked
<1>3. ~Unpushed(new) /\ \A v \in EmbedWorker : ~Opened(v, new)
  <2>1. ~Unpushed(new)
    BY <1>1 DEF Unpushed
  <2>2. \A v \in EmbedWorker : ~Opened(v, new)
    BY <1>1, <1>2 DEF Opened
  <2> QED BY <2>1, <2>2
<1>4. /\ \A v \in EmbedWorker : new \notin reverse[v].found
      /\ \A v \in JobWorker : new \notin forward[v].found
  BY <1>3 DEF IdsInv, Held
<1>5. forward'[w].found \subseteq forward[w].found \cup {new}
      /\ (Undamaged' => forward'[w].found = forward[w].found \cup {new})
  OBVIOUS
<1>6. row'[p].live /\ row'[p].gen = new[2] /\ row'[p].queued = 0
  BY <1>1
<1>7. ASSUME NEW id, id[1] \in Pair, id[2] \in Nat, Unpushed(id) PROVE Unpushed(id)'
  <2>1. CASE id[1] = p
    BY <1>1, <1>6, <1>7, <2>1 DEF Unpushed
  <2>2. CASE id[1] # p
    BY <1>7, <2>2 DEF Unpushed
  <2> QED BY <2>1, <2>2
<1>8. Unpushed(new)'
  BY <1>1, <1>6 DEF Unpushed
<1>9. HandsInv'
  <2> SUFFICES ASSUME Undamaged', NEW q \in Pair, row'[q].live, row'[q].queued = 0
               PROVE  \/ \E v \in EmbedWorker : <<q, row'[q].gen>> \in reverse'[v].found
                      \/ \E v \in JobWorker : <<q, row'[q].gen>> \in forward'[v].found
    BY DEF HandsInv, InHands
  <2>1. CASE q = p
    BY <1>5, <2>1
  <2>2. CASE q # p
    <3>1. row'[q] = row[q] /\ Undamaged
      BY <2>2 DEF Damages
    <3>2. InHands(<<q, row[q].gen>>)
      BY <3>1 DEF HandsInv
    <3> QED BY <1>5, <3>1, <3>2 DEF InHands
  <2> QED BY <2>1, <2>2
<1>10. Apart'
  BY <1>4, <1>5 DEF IdsInv, Apart
<1>11. ASSUME NEW v \in EmbedWorker, NEW id \in reverse'[v].found
       PROVE  (Unpushed(id) \/ Opened(v, id))'
  <2>1. id \in reverse[v].found /\ id[1] \in Pair /\ id[2] \in Nat
    BY HeldIds
  <2>2. Unpushed(id) \/ Opened(v, id)
    BY <2>1 DEF IdsInv, Held
  <2>3. CASE Opened(v, id)
    <3>1. id[1] # p
      BY <1>2, <2>3 DEF Opened
    <3> QED BY <2>1, <2>3, <3>1 DEF Opened
  <2> QED BY <1>7, <2>1, <2>2, <2>3
<1>12. ASSUME NEW v \in JobWorker, NEW id \in forward'[v].found PROVE Unpushed(id)'
  <2>1. CASE id = new
    BY <1>8, <2>1 DEF Unpushed
  <2>2. CASE id # new
    <3>1. id \in forward[v].found
      BY <1>5, <1>12, <2>2
    <3> QED BY <1>7, <3>1, HeldIds DEF IdsInv, Held
  <2> QED BY <2>1, <2>2
<1>13. ASSUME NEW v \in EmbedWorker, NEW q \in Pair, NEW k \in Kind, <<q, k>> \in reverse'[v].tx
       PROVE  ~row'[q].live /\ <<q, row'[q].gen + 1>> \in reverse'[v].found
  <2>1. q # p /\ row'[q] = row[q]
    BY <1>2, <1>13
  <2> QED BY <1>13, <2>1 DEF IdsInv, Held
<1>14. QueuedOnce'
  BY <1>1, <1>6 DEF IdsInv, QueuedOnce
<1> QED BY <1>9, <1>10, <1>11, <1>12, <1>13, <1>14 DEF IdsInv, Held

\* The COMMIT of a transaction.
LEMMA Commits ==
    ASSUME TypeIInv, IdsInv, HandsInv, NEW w \in EmbedWorker, Damages, UNCHANGED forward,
           \A p \in Pair :
             IF \E k \in Kind : <<p, k>> \in reverse[w].tx
             THEN row'[p].live /\ row'[p].gen = row[p].gen + 1 /\ row'[p].queued = 0
             ELSE row'[p] = row[p],
           reverse'[w].tx = {},
           reverse'[w].found = reverse[w].found \/ (~Undamaged' /\ reverse'[w].found = {}),
           \A v \in EmbedWorker \ {w} : reverse'[v] = reverse[v]
    PROVE  IdsInv' /\ HandsInv'
<1> DEFINE Mine(p) == \E k \in Kind : <<p, k>> \in reverse[w].tx
<1>1. /\ faults \in Nat /\ faults' \in Nat /\ faults' >= faults
      /\ \A q \in Pair : row[q].queued \in Nat /\ row[q].gen \in Nat
  BY DEF TypeIInv, TypeOK, Match, Damages
<1>2. \A p \in Pair : Mine(p) => ~row[p].live /\ <<p, row[p].gen + 1>> \in reverse[w].found
  BY DEF IdsInv, Held
<1>3. \A p \in Pair : IF Mine(p) THEN row'[p].live /\ row'[p].gen = row[p].gen + 1 /\ row'[p].queued = 0
                      ELSE row'[p] = row[p]
  OBVIOUS
<1>4. reverse'[w].found \subseteq reverse[w].found
      /\ (Undamaged' => reverse'[w].found = reverse[w].found)
  OBVIOUS
<1>5. ASSUME NEW id, id[1] \in Pair, id[2] \in Nat, Unpushed(id) PROVE Unpushed(id)'
  BY <1>1, <1>3, <1>5 DEF Unpushed
<1>6. ASSUME NEW v \in EmbedWorker \ {w}, NEW p \in Pair, NEW k \in Kind, <<p, k>> \in reverse[v].tx
      PROVE  ~Mine(p)
  <2>1. <<p, row[p].gen + 1>> \in reverse[v].found
    BY <1>6 DEF IdsInv, Held
  <2>2. reverse[v].found \cap reverse[w].found = {}
    BY DEF IdsInv, Apart
  <2> HIDE DEF Mine
  <2> QED BY <1>2, <2>1, <2>2
<1>7. ASSUME NEW v \in EmbedWorker, NEW id \in reverse'[v].found
      PROVE  (Unpushed(id) \/ Opened(v, id))'
  <2>1. id \in reverse[v].found /\ id[1] \in Pair /\ id[2] \in Nat
    BY <1>4, HeldIds
  <2>2. Unpushed(id) \/ Opened(v, id)
    BY <2>1 DEF IdsInv, Held
  <2>3. CASE Opened(v, id) /\ v = w
    <3>1. Mine(id[1])
      BY <2>3 DEF Opened
    <3> QED BY <1>3, <2>1, <2>3, <3>1 DEF Unpushed, Opened
  <2>4. CASE Opened(v, id) /\ v # w
    <3>1. ~Mine(id[1])
      BY <1>6, <2>1, <2>4 DEF Opened
    <3> QED BY <1>3, <2>1, <2>4, <3>1 DEF Opened
  <2> QED BY <1>5, <2>1, <2>2, <2>3, <2>4
<1>8. ASSUME NEW v \in JobWorker, NEW id \in forward'[v].found PROVE Unpushed(id)'
  BY <1>5, HeldIds DEF IdsInv, Held
<1>9. ASSUME NEW v \in EmbedWorker, NEW q \in Pair, NEW k \in Kind, <<q, k>> \in reverse'[v].tx
      PROVE  ~row'[q].live /\ <<q, row'[q].gen + 1>> \in reverse'[v].found
  <2>1. v # w /\ <<q, k>> \in reverse[v].tx /\ reverse'[v] = reverse[v]
    BY <1>9
  <2>2. row'[q] = row[q]
    BY <1>3, <1>6, <2>1
  <2> QED BY <2>1, <2>2 DEF IdsInv, Held
<1>10. HandsInv'
  <2> SUFFICES ASSUME Undamaged', NEW q \in Pair, row'[q].live, row'[q].queued = 0
               PROVE  \/ \E v \in EmbedWorker : <<q, row'[q].gen>> \in reverse'[v].found
                      \/ \E v \in JobWorker : <<q, row'[q].gen>> \in forward'[v].found
    BY DEF HandsInv, InHands
  <2>1. CASE Mine(q)
    BY <1>2, <1>3, <1>4, <2>1
  <2>2. CASE ~Mine(q)
    <3>1. row'[q] = row[q] /\ Undamaged
      BY <1>3, <2>2 DEF Damages
    <3>2. InHands(<<q, row[q].gen>>)
      BY <3>1 DEF HandsInv
    <3> QED BY <1>4, <3>1, <3>2 DEF InHands
  <2> QED BY <2>1, <2>2
<1>11. Apart'
  BY <1>4 DEF IdsInv, Apart
<1>12. QueuedOnce'
  BY <1>1, <1>3 DEF IdsInv, QueuedOnce
<1> QED BY <1>7, <1>8, <1>9, <1>10, <1>11, <1>12 DEF IdsInv, Held

\* A push by the matcher that holds the id.
LEMMA PushedBy ==
    ASSUME TypeIInv, IdsInv, NEW id \in Pair \X Nat, Damages, Unpushed(id),
           NEW times \in {1, 2}, times <= 1 + faults', row' = row \/ row' = Pushes(id, times)
    PROVE  /\ QueuedOnce'
           /\ \A p \in Pair : row'[p].gen = row[p].gen /\ row'[p].live = row[p].live
                              /\ (p # id[1] => row'[p] = row[p])
                              /\ (row[p].gen # id[2] => row'[p] = row[p])
           /\ row' = Pushes(id, times) /\ row[id[1]].live /\ row[id[1]].gen = id[2] =>
                row'[id[1]].queued = times
<1>1. /\ faults \in Nat /\ faults' \in Nat /\ faults' >= faults
      /\ \A p \in Pair : row[p].queued \in Nat /\ row[p].gen \in Nat /\ row[p].queued <= 1 + faults
  BY DEF TypeIInv, TypeOK, Match, Damages, IdsInv, QueuedOnce
<1>2. id[1] \in Pair /\ row[id[1]] \in Match /\ Rows(row)
  BY DEF TypeIInv, TypeOK, Rows
<1>3. CASE row' = Pushes(id, times) /\ row[id[1]].live /\ row[id[1]].gen = id[2]
  <2>1. \A p \in Pair : p # id[1] => row'[p] = row[p]
    BY <1>2, <1>3, PushedRows, ZenonT(30)
  <2>2. row'[id[1]] = [row[id[1]] EXCEPT !.queued = @ + times]
    BY <1>2, <1>3, PushedRows
  <2>3. row[id[1]].queued = 0 /\ 0 + times = times /\ times \in Nat
    BY <1>3 DEF Unpushed
  <2>4. row'[id[1]].queued = times /\ row'[id[1]].gen = row[id[1]].gen
        /\ row'[id[1]].live = row[id[1]].live
    BY <1>2, <2>2, <2>3 DEF Match
  <2>5. \A p \in Pair : row'[p].queued <= 1 + faults'
    <3>1. row'[id[1]].queued <= 1 + faults'
      BY <2>4
    <3>2. ASSUME NEW p \in Pair, p # id[1] PROVE row'[p].queued <= 1 + faults'
      <4>1. row'[p] = row[p] /\ row[p].queued \in Nat /\ row[p].queued <= 1 + faults
        BY <1>1, <2>1, <3>2
      <4> QED BY <1>1, <4>1
    <3> QED BY <3>1, <3>2
  <2> QED BY <1>3, <2>1, <2>4, <2>5 DEF QueuedOnce
<1>4. CASE ~(row' = Pushes(id, times) /\ row[id[1]].live /\ row[id[1]].gen = id[2])
  <2>1. \A p \in Pair : row'[p] = row[p]
    <3>1. /\ \A p \in Pair : p # id[1] => Pushes(id, times)[p] = row[p]
          /\ Pushes(id, times)[id[1]] =
                IF row[id[1]].live /\ row[id[1]].gen = id[2]
                THEN [row[id[1]] EXCEPT !.queued = @ + times] ELSE row[id[1]]
      BY <1>2, PushedRows
    <3>2. CASE row' = row
      BY <3>2
    <3>3. CASE row' = Pushes(id, times)
      BY <1>4, <3>1, <3>3
    <3> QED BY <3>2, <3>3
  <2>2. \A p \in Pair : row'[p].queued <= 1 + faults'
    BY <1>1, <2>1
  <2> QED BY <1>4, <2>1, <2>2 DEF QueuedOnce
<1> QED BY <1>3, <1>4

\* What every other id and row is after it.
LEMMA PushedHands ==
    ASSUME TypeIInv, IdsInv, HandsInv, NEW id \in Pair \X Nat, Damages, Unpushed(id),
           NEW times \in {1, 2}, times <= 1 + faults', row' = row \/ row' = Pushes(id, times),
           Undamaged' => row' = Pushes(id, times),
           \A w \in EmbedWorker : reverse'[w].found \subseteq reverse[w].found
                                  /\ (Undamaged' => reverse[w].found \ {id} \subseteq reverse'[w].found)
                                  /\ reverse'[w].tx = reverse[w].tx,
           \A w \in JobWorker : forward'[w].found \subseteq forward[w].found
                                /\ (Undamaged' => forward[w].found \ {id} \subseteq forward'[w].found),
           \A w \in EmbedWorker : id \notin reverse'[w].found,
           \A w \in JobWorker : id \notin forward'[w].found,
           \A w \in EmbedWorker : reverse'[w].tx # {} => reverse'[w].found = reverse[w].found
    PROVE  IdsInv' /\ HandsInv'
<1>1. /\ QueuedOnce'
      /\ \A p \in Pair : row'[p].gen = row[p].gen /\ row'[p].live = row[p].live
                         /\ (p # id[1] => row'[p] = row[p])
                         /\ (row[p].gen # id[2] => row'[p] = row[p])
      /\ row' = Pushes(id, times) /\ row[id[1]].live /\ row[id[1]].gen = id[2] =>
                row'[id[1]].queued = times
  BY PushedBy
<1>2. ASSUME NEW other \in Pair \X Nat, other # id, Unpushed(other) PROVE Unpushed(other)'
  <2>1. other[1] # id[1] \/ other[2] # id[2]
    BY <1>2
  <2> QED BY <1>1, <1>2, <2>1 DEF Unpushed
<1>3. ASSUME NEW w \in EmbedWorker, NEW other \in reverse'[w].found
      PROVE  (Unpushed(other) \/ Opened(w, other))'
  <2>1. other \in reverse[w].found /\ other \in Pair \X Nat /\ other # id
    BY DEF TypeIInv, TypeOK, ReverseState
  <2>2. Unpushed(other) \/ Opened(w, other)
    BY <2>1 DEF IdsInv, Held
  <2>3. CASE Opened(w, other)
    BY <1>1, <2>1, <2>3 DEF Opened
  <2> QED BY <1>2, <2>1, <2>2, <2>3
<1>4. ASSUME NEW w \in JobWorker, NEW other \in forward'[w].found PROVE Unpushed(other)'
  <2>1. forward[w] \in ForwardState
    BY DEF TypeIInv, TypeOK
  <2>2. other \in forward[w].found /\ other \in Pair \X Nat /\ other # id
    BY <2>1 DEF ForwardState
  <2> QED BY <1>2, <2>2 DEF IdsInv, Held
<1>5. ASSUME NEW w \in EmbedWorker, NEW p \in Pair, NEW k \in Kind, <<p, k>> \in reverse'[w].tx
      PROVE  ~row'[p].live /\ <<p, row'[p].gen + 1>> \in reverse'[w].found
  BY <1>1, <1>5 DEF IdsInv, Held
<1>6. Apart'
  BY DEF IdsInv, Apart
<1>7. HandsInv'
  <2> SUFFICES ASSUME Undamaged', NEW p \in Pair, row'[p].live, row'[p].queued = 0
               PROVE  \/ \E w \in EmbedWorker : <<p, row'[p].gen>> \in reverse'[w].found
                      \/ \E w \in JobWorker : <<p, row'[p].gen>> \in forward'[w].found
    BY DEF HandsInv, InHands
  <2>1. <<p, row[p].gen>> # id
    BY <1>1
  <2>2. row'[p] = row[p] /\ Undamaged
    BY <1>1, <2>1 DEF Damages
  <2>3. InHands(<<p, row[p].gen>>)
    BY <2>2 DEF HandsInv
  <2> QED BY <2>1, <2>2, <2>3 DEF InHands
<1> QED BY <1>1, <1>3, <1>4, <1>5, <1>6, <1>7 DEF IdsInv, Held

\* One push is within every count of faults.
LEMMA OnePlus ==
    ASSUME NEW n \in Nat
    PROVE  1 <= 1 + n
OBVIOUS

LEMMA Outcomes ==
    ASSUME TypeIInv
    PROVE  /\ Succeeds \/ Fails => Damages
           /\ Succeeds => (Undamaged' <=> Undamaged) /\ faults' = faults
           /\ Fails => ~Undamaged' /\ 2 <= 1 + faults'
<1>1. faults \in Nat
  BY DEF TypeIInv, TypeOK
<1> QED BY <1>1 DEF Succeeds, Fails, Damages, Undamaged

LEMMA RequestIds ==
    ASSUME TypeIInv, IdsInv, HandsInv, NEW u \in User,
           SaveDraft(u) \/ SubmitProfile(u) \/ PatchSettings(u) \/ Request(u)
    PROVE  IdsInv' /\ HandsInv'
<1> USE DEF DeletePendingPromisingMatches, DeletePendingStretchMatches
<1>1. UNCHANGED <<reverse, forward>>
  BY DEF SaveDraft, SubmitProfile, PatchSettings, Request, SubmitLoad, SubmitSave, SubmitDelete,
     SubmitEnqueue, SettingsSave, SelectPurge, DeletePurge
<1>2. row' = row \/ \E ids : row' = Deleted(ids)
  BY DEF SaveDraft, SubmitProfile, PatchSettings, Request, SubmitLoad, SubmitSave, SubmitDelete,
     SubmitEnqueue, SettingsSave, SelectPurge, DeletePurge
<1>3. Succeeds \/ Fails
  BY DEF SaveDraft, SubmitProfile, PatchSettings, Request, SubmitLoad, SubmitSave, SubmitDelete,
     SubmitEnqueue, SettingsSave, SelectPurge, DeletePurge, Succeeds
<1>4. RowsSettle
  <2>1. Rows(row) /\ \A p \in Pair : row[p].gen \in Nat
    BY DEF TypeIInv, TypeOK, Rows, Match
  <2>2. \A p \in Pair : row'[p] \in {row[p], NoMatch(row[p].gen)}
    BY <1>2, <2>1, DeletedRows
  <2> QED BY <2>1, <2>2, NoMatchType DEF RowsSettle
<1>5. (\A w \in EmbedWorker : ReverseKeeps(w)) /\ (\A w \in JobWorker : ForwardKeeps(w))
  BY <1>1 DEF ReverseKeeps, ForwardKeeps
<1> QED BY <1>3, <1>4, <1>5, Outcomes, Settles

LEMMA OtherIds ==
    ASSUME TypeIInv, IdsInv, HandsInv,
           (\E j \in Job : StoreJob(j)) \/ EnqueueProcessJob \/ (\E p \in Pair : Tailor(p)) \/ Crash
    PROVE  IdsInv' /\ HandsInv'
<1>1. RowsSettle
  <2>1. CASE \E p \in Pair : Tailor(p)
    BY <2>1 DEF Tailor, RowsSettle, TypeIInv, TypeOK, Match
  <2>2. CASE row' = row
    BY <2>2 DEF RowsSettle
  <2> QED BY <2>1, <2>2 DEF StoreJob, EnqueueProcessJob, Crash
<1>2. CASE ~Crash
  <2>1. UNCHANGED <<reverse, forward>> /\ (Succeeds \/ Fails)
    BY <1>2 DEF StoreJob, EnqueueProcessJob, Tailor, Succeeds
  <2>2. (\A w \in EmbedWorker : ReverseKeeps(w)) /\ (\A w \in JobWorker : ForwardKeeps(w))
    BY <2>1 DEF ReverseKeeps, ForwardKeeps
  <2> QED BY <1>1, <2>1, <2>2, Outcomes, Settles
<1>3. CASE Crash
  <2>1. faults' = faults /\ stops' = stops + 1 /\ faults \in Nat /\ stops \in Nat
    BY <1>3 DEF Crash, TypeIInv, TypeOK
  <2>2. Damages /\ ~Undamaged'
    BY <2>1 DEF Damages, Undamaged
  <2>3. \A w \in EmbedWorker : ReverseKeeps(w)
    BY <1>3, <2>2 DEF Crash, EndReverse, IdleReverse, ReverseKeeps, TypeIInv, TypeOK
  <2>4. \A w \in JobWorker : ForwardKeeps(w)
    BY <1>3, <2>2 DEF Crash, EndForward, IdleForward, ForwardKeeps, TypeIInv, TypeOK
  <2> QED BY <1>1, <2>2, <2>3, <2>4, Settles
<1> QED BY <1>2, <1>3

LEMMA ReverseIds ==
    ASSUME TypeIInv, IdsInv, HandsInv, NEW w \in EmbedWorker, ReverseStep(w)
    PROVE  IdsInv' /\ HandsInv'
<1> DEFINE old == reverse[w]
<1>1. /\ old \in ReverseState /\ ReverseBusy(old) /\ reverse \in [EmbedWorker -> ReverseState]
      /\ Rows(row)
  BY DEF TypeIInv, TypeOK, Rows
<1>2. ForwardFrame \/ UNCHANGED forward
  BY DEF ReverseStep, EmbedPop, EmbedRead, ReplaceChunks, ReversePrefs, ReverseList, ReverseScan,
         ReverseCommit, ReverseEnqueue, ReverseFrame
<1>3. forward' = forward /\ (Succeeds \/ Fails)
  BY DEF ReverseStep, EmbedPop, EmbedRead, EmbedFails, ReplaceChunks, ReversePrefs, ReverseList,
         ReverseScan, ReverseCommit, ReverseEnqueue, ReverseFrame
<1>4. Damages /\ \A v \in JobWorker : ForwardKeeps(v)
  BY <1>3, Outcomes DEF ForwardKeeps
<1>5. ASSUME row' = row, \A v \in EmbedWorker : ReverseKeeps(v) PROVE IdsInv' /\ HandsInv'
  <2>1. RowsSettle
    BY <1>5 DEF RowsSettle
  <2> QED BY <1>4, <1>5, <2>1, Settles
<1>6. CASE EmbedPop(w) \/ EmbedRead(w) \/ ReplaceChunks(w) \/ ReversePrefs(w) \/ ReverseList(w)
  <2>1. old.found = {} /\ old.tx = {}
    BY <1>1, <1>6 DEF EmbedPop, EmbedRead, ReplaceChunks, ReversePrefs, ReverseList, ReverseBusy
  <2>2. reverse'[w].found = {} /\ reverse'[w].tx = {}
    BY <1>1, <1>6, <2>1, SMTT(30) DEF EmbedPop, EmbedRead, EmbedFails, ReplaceChunks, ReversePrefs, ReverseList,
       EndReverse, GotoReverse, IdleReverse, ReverseState
  <2>3. row' = row /\ \A v \in EmbedWorker \ {w} : reverse'[v] = reverse[v]
    BY <1>1, <1>6 DEF EmbedPop, EmbedRead, EmbedFails, ReplaceChunks, ReversePrefs, ReverseList,
       EndReverse, GotoReverse
  <2> QED BY <1>5, <2>1, <2>2, <2>3 DEF ReverseKeeps
<1>7. CASE ReverseScan(w)
  <2> DEFINE p == <<old.user, Head(old.todo)>>
             added(kind) == IF row[p].live THEN {} ELSE {<<p, kind>>}
  <2>1. p \in Pair /\ row' = row
    <3>1. old.todo \in Seq(Job) /\ old.todo # <<>> /\ old.user \in User /\ row' = row
      BY <1>1, <1>7 DEF ReverseScan, ReverseBusy, ReverseState
    <3> QED BY <3>1, HeadTailProperties DEF Pair
  <2>2. \/ Succeeds /\ reverse' = [reverse EXCEPT ![w].todo = Tail(@)]
        \/ Succeeds /\ ~Locked(p) /\ \E kind \in Kind :
               reverse' = [reverse EXCEPT ![w].todo = Tail(@), ![w].tx = @ \cup added(kind),
                                          ![w].found = @ \cup Returned(p)]
        \/ Fails /\ EndReverse(w)
    BY <1>7 DEF ReverseScan
  <2> HIDE DEF p, added
  <2>3. CASE reverse' = [reverse EXCEPT ![w].todo = Tail(@)]
    <3>1. \A v \in EmbedWorker : ReverseKeeps(v)
      BY <1>1, <2>3 DEF ReverseKeeps, ReverseState
    <3> QED BY <1>5, <2>1, <3>1
  <2>4. CASE Fails /\ EndReverse(w)
    <3>1. \A v \in EmbedWorker : ReverseKeeps(v)
      BY <1>1, <2>4, Outcomes DEF ReverseKeeps, ReverseState, EndReverse, IdleReverse
    <3> QED BY <1>5, <2>1, <3>1
  <2>5. ASSUME NEW kind \in Kind, Succeeds, ~Locked(p),
               reverse' = [reverse EXCEPT ![w].todo = Tail(@), ![w].tx = @ \cup added(kind),
                                          ![w].found = @ \cup Returned(p)]
        PROVE  IdsInv' /\ HandsInv'
    <3>1. /\ reverse'[w].tx = old.tx \cup added(kind) /\ reverse'[w].found = old.found \cup Returned(p)
          /\ \A v \in EmbedWorker \ {w} : reverse'[v] = reverse[v]
      BY <1>1, <2>5 DEF ReverseState
    <3>2. CASE row[p].live
      <4>1. \A v \in EmbedWorker : ReverseKeeps(v)
        BY <3>1, <3>2 DEF added, Returned, ReverseKeeps
      <4> QED BY <1>5, <2>1, <4>1
    <3>3. CASE ~row[p].live
      <4>1. added(kind) = {<<p, kind>>} /\ Returned(p) = {<<p, row[p].gen + 1>>}
        BY <3>3 DEF added, Returned
      <4>2. UNCHANGED <<row, forward, faults, stops>>
        BY <1>3, <2>1, <2>5 DEF Succeeds
      <4> QED BY <2>1, <2>5, <3>1, <3>3, <4>1, <4>2, TakenByReverse
    <3> QED BY <3>2, <3>3
  <2> QED BY <2>2, <2>3, <2>4, <2>5
<1>8. CASE ReverseCommit(w)
  <2> DEFINE kindOf(p) == CHOOSE k \in Kind : <<p, k>> \in old.tx
             new(p) == IF \E k \in Kind : <<p, k>> \in old.tx
                       THEN Inserted(p, kindOf(p), old.prefs.ver) ELSE row[p]
  <2>1. \/ Succeeds /\ row' = [p \in Pair |-> new(p)]
           /\ reverse' = [reverse EXCEPT ![w] = [IdleReverse EXCEPT
                !.pc = "enqueue", !.user = old.user, !.found = old.found]]
        \/ Fails /\ EndReverse(w) /\ (row' = [p \in Pair |-> new(p)] \/ row' = row)
    BY <1>8 DEF ReverseCommit
  <2> HIDE DEF new
  <2>2. /\ reverse'[w].tx = {}
        /\ reverse'[w].found = old.found \/ (~Undamaged' /\ reverse'[w].found = {})
        /\ \A v \in EmbedWorker \ {w} : reverse'[v] = reverse[v]
    <3>1. CASE reverse' = [reverse EXCEPT ![w] = [IdleReverse EXCEPT
                            !.pc = "enqueue", !.user = old.user, !.found = old.found]]
      BY <1>1, <3>1 DEF IdleReverse
    <3>2. CASE Fails /\ EndReverse(w)
      BY <1>1, <3>2, Outcomes DEF EndReverse, IdleReverse
    <3> QED BY <2>1, <3>1, <3>2
  <2>3. CASE row' = [p \in Pair |-> new(p)]
    <3>1. old.prefs.ver \in Version /\ old.tx \subseteq Pair \X Kind
      BY <1>1, <1>8 DEF ReverseBusy, ReverseState, ReverseCommit
    <3>2. \A p \in Pair : (\E k \in Kind : <<p, k>> \in old.tx) => kindOf(p) \in Kind /\ ~row[p].live
      BY DEF IdsInv, Held
    <3> HIDE DEF kindOf
    <3>3. ASSUME NEW p \in Pair
          PROVE  IF \E k \in Kind : <<p, k>> \in old.tx
                 THEN row'[p].live /\ row'[p].gen = row[p].gen + 1 /\ row'[p].queued = 0
                 ELSE row'[p] = row[p]
      <4>1. row'[p] = new(p)
        BY <2>3
      <4>2. CASE \E k \in Kind : <<p, k>> \in old.tx
        <5>1. row'[p] = Inserted(p, kindOf(p), old.prefs.ver)
          BY <4>1, <4>2 DEF new
        <5>2. kindOf(p) \in Kind /\ ~row[p].live
          BY <3>2, <4>2
        <5> QED BY <1>1, <3>1, <4>2, <5>1, <5>2, InsertedRow
      <4> QED BY <4>1, <4>2 DEF new
    <3> QED BY <1>3, <1>4, <2>2, <3>3, Commits
  <2>4. CASE row' = row /\ Fails /\ EndReverse(w)
    <3>1. \A v \in EmbedWorker : ReverseKeeps(v)
      BY <1>1, <2>4, Outcomes DEF ReverseKeeps, EndReverse, IdleReverse
    <3> QED BY <1>5, <2>4, <3>1
  <2> QED BY <2>1, <2>3, <2>4
<1>9. CASE ReverseEnqueue(w)
  <2>1. old.tx = {} /\ old.found \subseteq Pair \X Nat
    BY <1>1, <1>9 DEF ReverseEnqueue, ReverseBusy, ReverseState
  <2>2. CASE old.found = {} /\ EndReverse(w) /\ row' = row
    <3>1. \A v \in EmbedWorker : ReverseKeeps(v)
      BY <1>1, <2>1, <2>2 DEF ReverseKeeps, EndReverse, IdleReverse
    <3> QED BY <1>5, <2>2, <3>1
  <2>3. ASSUME NEW id \in old.found, reverse' = [reverse EXCEPT ![w].found = @ \ {id}],
               \/ Succeeds /\ row' = Queued(id)
               \/ Fails /\ (row' = Queued(id) \/ UNCHANGED row \/ row' = QueuedTwice(id))
        PROVE  IdsInv' /\ HandsInv'
    <3>1. id \in Pair \X Nat /\ Unpushed(id)
      BY <2>1, <2>3 DEF IdsInv, Held, Opened
    <3>2. PICK times \in {1, 2} : /\ times <= 1 + faults' /\ (row' = row \/ row' = Pushes(id, times))
                                  /\ Undamaged' => row' = Pushes(id, times)
      <4>1. faults' \in Nat /\ 1 <= 1 + faults'
        <5>1. faults' \in Nat
          BY <1>4 DEF Damages
        <5> QED BY <5>1, OnePlus, Zenon
      <4>2. CASE row' = Pushes(id, 1)
        <5>1. 1 \in {1, 2}
          OBVIOUS
        <5> QED BY <4>1, <4>2, <5>1, Zenon
      <4>3. CASE Fails /\ (row' = row \/ row' = Pushes(id, 2))
        BY <4>3, Outcomes
      <4> QED BY <2>3, <4>2, <4>3 DEF Queued, QueuedTwice
    <3>3. /\ reverse'[w].found = old.found \ {id} /\ reverse'[w].tx = {}
          /\ \A v \in EmbedWorker \ {w} : reverse'[v] = reverse[v] /\ id \notin reverse[v].found
      BY <1>1, <2>1, <2>3 DEF IdsInv, Apart
    <3>4. \A v \in JobWorker : id \notin forward[v].found
      BY <2>3 DEF IdsInv, Apart
    <3> QED BY <1>3, <1>4, <2>1, <3>1, <3>2, <3>3, <3>4, PushedHands, ZenonT(30)
  <2> QED BY <1>9, <2>2, <2>3 DEF ReverseEnqueue
<1> QED BY <1>6, <1>7, <1>8, <1>9 DEF ReverseStep

LEMMA ForwardIds ==
    ASSUME TypeIInv, IdsInv, HandsInv, NEW w \in JobWorker, ForwardStep(w)
    PROVE  IdsInv' /\ HandsInv'
<1> DEFINE old == forward[w]
<1>1. /\ old \in ForwardState /\ ForwardBusy(old) /\ forward \in [JobWorker -> ForwardState]
      /\ Rows(row)
  BY DEF TypeIInv, TypeOK, Rows
<1>2. reverse' = reverse
  BY DEF ForwardStep, ForwardPop, ForwardList, ForwardScan, ForwardEnqueue, ForwardFrame
<1>3. Succeeds \/ Fails
  BY DEF ForwardStep, ForwardPop, ForwardList, ForwardScan, ForwardEnqueue, ForwardFails
<1>4. Damages /\ \A v \in EmbedWorker : ReverseKeeps(v)
  BY <1>2, <1>3, Outcomes DEF ReverseKeeps
<1>5. ASSUME row' = row, \A v \in JobWorker : ForwardKeeps(v) PROVE IdsInv' /\ HandsInv'
  <2>1. RowsSettle
    BY <1>5 DEF RowsSettle
  <2> QED BY <1>4, <1>5, <2>1, Settles
<1>6. ASSUME ForwardFails(w)
      PROVE  /\ ~Undamaged' /\ Damages /\ forward'[w].found = {} /\ 2 <= 1 + faults'
             /\ \A v \in JobWorker \ {w} : forward'[v] = forward[v]
  BY <1>1, <1>6, Outcomes DEF ForwardFails, EndForward, IdleForward
<1>7. CASE ForwardPop(w) \/ ForwardList(w)
  <2>1. old.found = {} /\ row' = row
    BY <1>1, <1>7 DEF ForwardPop, ForwardList, ForwardBusy
  <2>2. forward'[w].found = {} /\ \A v \in JobWorker \ {w} : forward'[v] = forward[v]
    <3>1. CASE ForwardPop(w)
      BY <1>1, <2>1, <3>1 DEF ForwardPop, ForwardState
    <3>2. CASE ForwardFails(w)
      BY <1>6, <3>2
    <3>3. CASE ForwardList(w) /\ ~ForwardFails(w)
      <4> DEFINE users == {u \in User : chunks[u].ver > 0}
                 loaded == [u \in User |-> IF u \in users THEN Loaded(u) ELSE NoPrefs]
                 f == [old EXCEPT !.pc = "scan", !.todo = users, !.prefs = loaded]
      <4>1. forward' = [forward EXCEPT ![w] = f]
        BY <1>1, <3>3 DEF ForwardList
      <4> HIDE DEF users, loaded
      <4>2. f.found = old.found
        BY <1>1 DEF ForwardState
      <4> HIDE DEF f
      <4> QED BY <1>1, <2>1, <4>1, <4>2
    <3> QED BY <1>7, <3>1, <3>2, <3>3
  <2> QED BY <1>5, <2>1, <2>2 DEF ForwardKeeps
<1>8. CASE ForwardScan(w)
  <2>1. PICK u \in old.todo :
         LET p == <<u, old.job>>
             Rest == [old EXCEPT !.todo = @ \ {u}, !.prefs[u] = NoPrefs]
             Added == /\ ~Locked(p)
                      /\ \E kind \in {k \in Kind : Allowed(old.prefs[u].set, k)} :
                           row' = [row EXCEPT ![p] = Inserted(p, kind, old.prefs[u].ver)]
         IN
         \/ /\ Succeeds /\ Judged(p, old.prefs[u].ver) /\ UNCHANGED deadJobs
            /\ \/ forward' = [forward EXCEPT ![w] = Rest] /\ UNCHANGED row
               \/ /\ Added
                  /\ forward' = [forward EXCEPT ![w] = [Rest EXCEPT !.found = @ \cup Returned(p)]]
         \/ /\ ForwardFails(w) /\ UNCHANGED considered
            /\ UNCHANGED row \/ Added
    BY <1>8 DEF ForwardScan
  <2> DEFINE rest == [old EXCEPT !.todo = @ \ {u}, !.prefs[u] = NoPrefs]
  <2>2. u \in User /\ old.job \in Job /\ old.prefs[u].ver \in Version
    BY <1>1, <1>8, <2>1 DEF ForwardScan, ForwardBusy, ForwardState
  <2>3. PICK p \in Pair : p = <<u, old.job>>
    BY <2>2 DEF Pair
  <2>4. rest.found = old.found
    BY <1>1 DEF ForwardState
  <2>5. \/ Succeeds /\ forward' = [forward EXCEPT ![w] = rest] /\ row' = row
        \/ /\ ~Locked(p)
           /\ \E kind \in Kind : row' = [row EXCEPT ![p] = Inserted(p, kind, old.prefs[u].ver)]
           /\ \/ forward' = [forward EXCEPT ![w] = [rest EXCEPT !.found = @ \cup Returned(p)]]
              \/ ForwardFails(w)
        \/ ForwardFails(w) /\ row' = row
    BY <2>1, <2>3
  <2>6. rest \in ForwardState
    BY <1>1, <2>2, Idle DEF ForwardState
  <2> HIDE DEF rest
  <2>7. CASE forward' = [forward EXCEPT ![w] = rest] /\ row' = row
    <3>1. \A v \in JobWorker : ForwardKeeps(v)
      BY <1>1, <2>4, <2>7 DEF ForwardKeeps
    <3> QED BY <1>5, <2>7, <3>1
  <2>8. CASE ForwardFails(w) /\ row' = row
    <3>1. \A v \in JobWorker : ForwardKeeps(v)
      BY <1>6, <2>8 DEF ForwardKeeps
    <3> QED BY <1>5, <2>8, <3>1
  <2>9. ASSUME NEW kind \in Kind, ~Locked(p),
               row' = [row EXCEPT ![p] = Inserted(p, kind, old.prefs[u].ver)],
               \/ forward' = [forward EXCEPT ![w] = [rest EXCEPT !.found = @ \cup Returned(p)]]
               \/ ForwardFails(w)
        PROVE  IdsInv' /\ HandsInv'
    <3>1. /\ \/ forward'[w].found = old.found \cup Returned(p)
             \/ ~Undamaged' /\ forward'[w].found = {}
          /\ \A v \in JobWorker \ {w} : forward'[v] = forward[v]
      <4>1. CASE ForwardFails(w)
        BY <1>6, <4>1
      <4>2. CASE forward' = [forward EXCEPT ![w] = [rest EXCEPT !.found = @ \cup Returned(p)]]
        BY <1>1, <2>4, <2>6, <4>2 DEF ForwardState
      <4> QED BY <2>9, <4>1, <4>2
    <3>2. row'[p] = Inserted(p, kind, old.prefs[u].ver) /\ \A q \in Pair \ {p} : row'[q] = row[q]
      BY <1>1, <2>9 DEF Rows
    <3>3. CASE row[p].live
      <4>1. Returned(p) = {} /\ row' = row
        <5>1. row'[p] = row[p]
          BY <3>2, <3>3 DEF Inserted
        <5>2. row \in [Pair -> Match] /\ row' = [row EXCEPT ![p] = row[p]]
          BY <1>1, <2>9, <3>2, <5>1 DEF Rows
        <5> QED BY <3>3, <5>2 DEF Returned
      <4>2. \A v \in JobWorker : ForwardKeeps(v)
        BY <3>1, <4>1 DEF ForwardKeeps
      <4> QED BY <1>5, <4>1, <4>2
    <3>4. CASE ~row[p].live
      <4>1. Returned(p) = {<<p, row[p].gen + 1>>}
        BY <3>4 DEF Returned
      <4>2. row'[p].live /\ row'[p].gen = row[p].gen + 1 /\ row'[p].queued = 0
        BY <1>1, <2>2, <3>2, <3>4, InsertedRow
      <4> QED BY <1>2, <1>4, <2>9, <3>1, <3>2, <3>4, <4>1, <4>2, TakenByForward
    <3> QED BY <3>3, <3>4
  <2> QED BY <2>5, <2>7, <2>8, <2>9
<1>9. CASE ForwardEnqueue(w)
  <2>1. CASE old.found = {} /\ EndForward(w) /\ row' = row
    <3>1. \A v \in JobWorker : ForwardKeeps(v)
      BY <1>1, <2>1 DEF ForwardKeeps, EndForward, IdleForward
    <3> QED BY <1>5, <2>1, <3>1
  <2>2. ASSUME NEW id \in old.found,
               \/ /\ \/ Succeeds /\ row' = Queued(id)
                     \/ Fails /\ row' = QueuedTwice(id)
                  /\ forward' = [forward EXCEPT ![w].found = @ \ {id}]
               \/ ForwardFails(w) /\ (row' = Queued(id) \/ UNCHANGED row)
        PROVE  IdsInv' /\ HandsInv'
    <3>1. id \in Pair \X Nat /\ Unpushed(id)
      BY <1>1, <2>2 DEF IdsInv, Held, ForwardState
    <3>2. PICK times \in {1, 2} : /\ times <= 1 + faults' /\ (row' = row \/ row' = Pushes(id, times))
                                  /\ Undamaged' => row' = Pushes(id, times)
      <4>1. faults' \in Nat /\ 1 <= 1 + faults'
        <5>1. faults' \in Nat
          BY <1>4 DEF Damages
        <5> QED BY <5>1, OnePlus, Zenon
      <4>2. CASE row' = Pushes(id, 1)
        <5>1. 1 \in {1, 2}
          OBVIOUS
        <5> QED BY <4>1, <4>2, <5>1, Zenon
      <4>3. CASE Fails /\ row' = Pushes(id, 2)
        BY <4>3, Outcomes
      <4>4. CASE ForwardFails(w) /\ row' = row
        BY <1>6, <4>4
      <4> QED BY <2>2, <4>2, <4>3, <4>4 DEF Queued, QueuedTwice
    <3>3. /\ forward'[w].found = old.found \ {id} \/ (~Undamaged' /\ forward'[w].found = {})
          /\ \A v \in JobWorker \ {w} : forward'[v] = forward[v]
      <4>1. CASE ForwardFails(w)
        BY <1>6, <4>1
      <4>2. CASE forward' = [forward EXCEPT ![w].found = @ \ {id}]
        BY <1>1, <4>2 DEF ForwardState
      <4> QED BY <2>2, <4>1, <4>2
    <3>4. /\ \A v \in JobWorker \ {w} : id \notin forward[v].found
          /\ \A v \in EmbedWorker : id \notin reverse[v].found
      BY <2>2 DEF IdsInv, Apart
    <3>5. /\ \A v \in EmbedWorker : reverse'[v] = reverse[v] /\ id \notin reverse'[v].found
          /\ \A v \in JobWorker : id \notin forward'[v].found /\ forward'[v].found \subseteq forward[v].found
                                  /\ (Undamaged' => forward[v].found \ {id} \subseteq forward'[v].found)
      BY <1>2, <3>3, <3>4
    <3> QED BY <1>4, <3>1, <3>2, <3>5, PushedHands
  <2> QED BY <1>9, <2>1, <2>2 DEF ForwardEnqueue
<1> QED BY <1>7, <1>8, <1>9 DEF ForwardStep

LEMMA IdsStep == TypeIInv /\ IdsInv /\ HandsInv /\ [Next]_vars => IdsInv' /\ HandsInv'
<1>1. ASSUME TypeIInv, IdsInv, HandsInv, UNCHANGED vars PROVE IdsInv' /\ HandsInv'
  <2>1. Succeeds /\ RowsSettle /\ (\A w \in EmbedWorker : ReverseKeeps(w))
        /\ (\A w \in JobWorker : ForwardKeeps(w))
    BY <1>1 DEF vars, Succeeds, RowsSettle, ReverseKeeps, ForwardKeeps
  <2> QED BY <1>1, <2>1, Outcomes, Settles
<1>2. TypeIInv /\ IdsInv /\ HandsInv /\ Next => IdsInv' /\ HandsInv'
  BY RequestIds, ReverseIds, ForwardIds, OtherIds DEF Next
<1> QED BY <1>1, <1>2

LEMMA IdsInit == Init => IdsInv /\ HandsInv
<1> SUFFICES ASSUME Init PROVE IdsInv /\ HandsInv
  OBVIOUS
<1>1. \A p \in Pair : row[p] = NoMatch(0) /\ ~row[p].live /\ row[p].queued = 0
  BY NoMatchType DEF Init
<1>2. /\ \A w \in EmbedWorker : reverse[w].found = {} /\ reverse[w].tx = {}
      /\ \A w \in JobWorker : forward[w].found = {}
      /\ faults = 0
  BY DEF Init, IdleReverse, IdleForward
<1>3. QueuedOnce
  BY <1>1, <1>2 DEF QueuedOnce
<1> QED BY <1>1, <1>2, <1>3 DEF IdsInv, Held, Apart, HandsInv

THEOREM IdsInvariant == Spec => [](TypeIInv /\ IdsInv /\ HandsInv)
BY TypeInit, TypeStep, IdsInit, IdsStep, PTL DEF Spec

\* Whatever users, crawlers and matchers do, and whatever fails or crashes, a
\* match is queued for tailoring once, and once more at most for every fault.
THEOREM MatchesQueuedOnce == Spec => []QueuedOnce
<1>1. IdsInv => QueuedOnce
  BY DEF IdsInv
<1> QED BY <1>1, IdsInvariant, PTL

\* Without a fault or a crash every match has been queued when the work is
\* done, in any interleaving of requests and matchers.
THEOREM NoMatchOrphaned == Spec => []NoOrphanMatch
<1>1. TypeIInv /\ IdsInv /\ HandsInv => NoOrphanMatch
  <2> SUFFICES ASSUME TypeIInv, IdsInv, HandsInv, Quiet, Undamaged, NEW p \in Pair, row[p].live
               PROVE  row[p].queued = 1
    BY DEF NoOrphanMatch
  <2>1. row[p].queued \in Nat /\ row[p].queued <= 1 + faults /\ faults = 0
    BY DEF TypeIInv, TypeOK, Match, IdsInv, QueuedOnce, Undamaged
  <2>2. /\ \A w \in EmbedWorker : reverse[w].found = {}
        /\ \A w \in JobWorker : forward[w].found = {}
    BY DEF Quiet, TypeIInv, ReverseBusy, ForwardBusy, IdleReverse, IdleForward
  <2>3. row[p].queued # 0
    BY <2>2 DEF HandsInv, InHands
  <2> QED BY <2>1, <2>3
<1> QED BY <1>1, IdsInvariant, PTL

-----------------------------------------------------------------------------
(* What a step of a matcher does when nothing fails.                        *)

\* The step of cmd/worker, by the state it leaves.
ReversePops(w) ==
    /\ reverse[w].pc = "idle" /\ reverse'[w].pc = "read" /\ embedQ # <<>>
    /\ reverse'[w].user = Last(embedQ) /\ reverse'[w].tx = {} /\ embedQ' = Front(embedQ)
    /\ UNCHANGED <<chunks, row, considered>>
ReverseReads(w) ==
    /\ reverse[w].pc = "read" /\ reverse'[w].tx = {}
    /\ \/ reverse'[w].pc = "replace" /\ reverse'[w].user = reverse[w].user
       \/ reverse'[w] = IdleReverse /\ ~profile[reverse[w].user].complete
    /\ UNCHANGED <<chunks, row, embedQ, considered>>
ReverseEmbeds(w) ==
    /\ reverse[w].pc = "replace" /\ reverse'[w].pc = "prefs" /\ reverse'[w].tx = {}
    /\ reverse'[w].user = reverse[w].user
    /\ chunks' = [chunks EXCEPT ![reverse[w].user] = reverse[w].text]
    /\ UNCHANGED <<row, embedQ, considered>>
ReverseLoads(w) ==
    /\ reverse[w].pc = "prefs" /\ reverse'[w].pc = "list" /\ reverse'[w].tx = {}
    /\ reverse'[w].user = reverse[w].user /\ reverse'[w].prefs = Loaded(reverse[w].user)
    /\ Overlap \/ (submit[reverse[w].user].pc = "idle" /\ settings[reverse[w].user].pc = "idle")
    /\ UNCHANGED <<chunks, row, embedQ, considered>>
ReverseLists(w) ==
    /\ reverse[w].pc = "list" /\ reverse'[w].pc = "scan" /\ reverse'[w].tx = {}
    /\ reverse'[w].user = reverse[w].user /\ reverse'[w].prefs = reverse[w].prefs
    /\ reverse'[w].todo = NewestFirst(stored)
    /\ UNCHANGED <<chunks, row, embedQ, considered>>
ReverseJudges(w) ==
    LET p == <<reverse[w].user, Head(reverse[w].todo)>> IN
    /\ reverse[w].pc = "scan" /\ reverse'[w].pc = "scan" /\ reverse[w].todo # <<>>
    /\ reverse'[w].user = reverse[w].user /\ reverse'[w].prefs = reverse[w].prefs
    /\ reverse'[w].todo = Tail(reverse[w].todo)
    /\ \/ reverse'[w].tx = reverse[w].tx
       \/ \E k \in Kind : Allowed(reverse[w].prefs.set, k)
                          /\ reverse'[w].tx = reverse[w].tx \cup {<<p, k>>}
    /\ Judged(p, reverse[w].prefs.ver)
    /\ UNCHANGED <<chunks, row, embedQ>>
ReverseEnds(w) ==
    LET r == reverse[w]
        kindOf(p) == CHOOSE k \in Kind : <<p, k>> \in r.tx
    IN
    /\ r.pc = "scan" /\ r.todo = <<>>
    /\ reverse'[w].pc = "enqueue" /\ reverse'[w].user = r.user /\ reverse'[w].tx = {}
    /\ row' = [p \in Pair |-> IF \E k \in Kind : <<p, k>> \in r.tx
                              THEN Inserted(p, kindOf(p), r.prefs.ver) ELSE row[p]]
    /\ UNCHANGED <<chunks, embedQ, considered>>
ReversePushes(w) ==
    /\ reverse[w].pc = "enqueue" /\ reverse'[w].tx = {}
    /\ \/ reverse'[w] = IdleReverse
       \/ reverse'[w].pc = "enqueue" /\ reverse'[w].user = reverse[w].user
    /\ row' = row \/ \E id \in Pair \X Nat : row' = Pushes(id, 1)
    /\ UNCHANGED <<chunks, embedQ, considered>>

ReverseMoves(w) ==
    \/ ReversePops(w) \/ ReverseReads(w) \/ ReverseEmbeds(w) \/ ReverseLoads(w)
    \/ ReverseLists(w) \/ ReverseJudges(w) \/ ReverseEnds(w) \/ ReversePushes(w)

\* The same for cmd/jobworker.
ForwardPops(w) ==
    /\ forward[w].pc = "idle" /\ forward'[w].pc = "list" /\ processQ # <<>>
    /\ forward'[w].job = Last(processQ) /\ forward'[w].todo = {} /\ processQ' = Front(processQ)
    /\ UNCHANGED <<row, considered>>
ForwardLists(w) ==
    /\ forward[w].pc = "list" /\ forward'[w].pc = "scan" /\ forward'[w].job = forward[w].job
    /\ forward'[w].todo = {u \in User : chunks[u].ver > 0}
    /\ \A u \in forward'[w].todo :
         /\ forward'[w].prefs[u] = Loaded(u)
         /\ Overlap \/ (submit[u].pc = "idle" /\ settings[u].pc = "idle")
    /\ UNCHANGED <<row, processQ, considered>>
ForwardJudges(w, u) ==
    LET f == forward[w] IN
    /\ f.pc = "scan" /\ forward'[w].pc = "scan" /\ forward'[w].job = f.job /\ u \in f.todo
    /\ forward'[w].todo = f.todo \ {u}
    /\ \A v \in User \ {u} : forward'[w].prefs[v] = f.prefs[v]
    /\ Judged(<<u, f.job>>, f.prefs[u].ver)
    /\ \/ row' = row
       \/ \E kind \in {k \in Kind : Allowed(f.prefs[u].set, k)} :
            row' = [row EXCEPT ![<<u, f.job>>] = Inserted(<<u, f.job>>, kind, f.prefs[u].ver)]
    /\ UNCHANGED processQ
ForwardPushes(w) ==
    /\ forward[w].pc = "scan" /\ forward[w].todo = {} /\ forward'[w].todo = {}
    /\ forward'[w].pc \in {"idle", "scan"}
    /\ row' = row \/ \E id \in Pair \X Nat : row' = Pushes(id, 1)
    /\ UNCHANGED <<processQ, considered>>

ForwardMoves(w) ==
    \/ ForwardPops(w) \/ ForwardLists(w) \/ (\E u \in User : ForwardJudges(w, u)) \/ ForwardPushes(w)

LEMMA ReverseSucceeds ==
    ASSUME TypeIInv, NEW w \in EmbedWorker, ReverseStep(w), Undamaged'
    PROVE  /\ ReverseMoves(w) /\ ReverseFrame
           /\ \A v \in EmbedWorker \ {w} : reverse'[v] = reverse[v]
<1> DEFINE old == reverse[w]
<1>1. old \in ReverseState /\ ReverseBusy(old) /\ reverse \in [EmbedWorker -> ReverseState]
  BY DEF TypeIInv, TypeOK
<1>2. ~Fails /\ ~EmbedFails(w)
  BY Outcomes DEF EmbedFails
<1>3. CASE EmbedPop(w)
  <2>1. ReversePops(w)
    BY <1>1, <1>2, <1>3 DEF EmbedPop, ReversePops, ReverseState, ReverseBusy
  <2> QED BY <1>1, <1>2, <1>3, <2>1 DEF EmbedPop, ReverseMoves
<1>4. CASE EmbedRead(w)
  <2>1. ReverseReads(w)
    <3>1. /\ old.pc = "read" /\ old.tx = {} /\ UNCHANGED <<chunks, row, embedQ, considered>>
          /\ \/ reverse' = [reverse EXCEPT ![w].pc = "replace", ![w].text = profile[old.user]]
             \/ EndReverse(w) /\ ~profile[old.user].complete
      BY <1>1, <1>2, <1>4 DEF EmbedRead, ReverseBusy
    <3>2. CASE EndReverse(w) /\ ~profile[old.user].complete
      BY <1>1, <3>1, <3>2 DEF ReverseReads, EndReverse, IdleReverse
    <3>3. CASE reverse' = [reverse EXCEPT ![w].pc = "replace", ![w].text = profile[old.user]]
      <4>1. reverse'[w] = [old EXCEPT !.pc = "replace", !.text = profile[old.user]]
        BY <1>1, <3>3
      <4> QED BY <1>1, <3>1, <4>1 DEF ReverseReads, ReverseState
    <3> QED BY <3>1, <3>2, <3>3
  <2> QED BY <1>1, <1>2, <1>4, <2>1 DEF EmbedRead, EndReverse, ReverseMoves
<1>5. CASE ReplaceChunks(w)
  <2>1. ReverseEmbeds(w)
    BY <1>1, <1>2, <1>5 DEF ReplaceChunks, ReverseEmbeds, ReverseState, ReverseBusy, GotoReverse
  <2> QED BY <1>1, <1>2, <1>5, <2>1 DEF ReplaceChunks, GotoReverse, ReverseMoves
<1>6. CASE ReversePrefs(w)
  <2>1. ReverseLoads(w)
    BY <1>1, <1>2, <1>6 DEF ReversePrefs, ReverseLoads, ReverseState, ReverseBusy
  <2> QED BY <1>1, <1>2, <1>6, <2>1 DEF ReversePrefs, ReverseMoves
<1>7. CASE ReverseList(w)
  <2>1. ReverseLists(w)
    BY <1>1, <1>2, <1>7 DEF ReverseList, ReverseLists, ReverseState, ReverseBusy
  <2> QED BY <1>1, <1>2, <1>7, <2>1 DEF ReverseList, ReverseMoves
<1>8. CASE ReverseScan(w)
  <2> DEFINE p == <<old.user, Head(old.todo)>>
             added(kind) == IF row[p].live THEN {} ELSE {<<p, kind>>}
  <2>1. /\ old.pc = "scan" /\ old.todo # <<>> /\ ReverseFrame /\ UNCHANGED <<chunks, row, embedQ>>
        /\ Judged(p, old.prefs.ver)
        /\ \/ reverse' = [reverse EXCEPT ![w].todo = Tail(@)]
           \/ \E kind \in {k \in Kind : Allowed(old.prefs.set, k)} :
                reverse' = [reverse EXCEPT ![w].todo = Tail(@), ![w].tx = @ \cup added(kind),
                                           ![w].found = @ \cup Returned(p)]
    BY <1>2, <1>8 DEF ReverseScan
  <2> HIDE DEF p
  <2>2. CASE reverse' = [reverse EXCEPT ![w].todo = Tail(@)]
    <3>1. /\ reverse'[w] = [old EXCEPT !.todo = Tail(@)]
          /\ \A v \in EmbedWorker \ {w} : reverse'[v] = reverse[v]
      BY <1>1, <2>2
    <3> QED BY <1>1, <2>1, <3>1 DEF ReverseJudges, ReverseMoves, ReverseState, p
  <2>3. ASSUME NEW kind \in Kind, Allowed(old.prefs.set, kind),
               reverse' = [reverse EXCEPT ![w].todo = Tail(@), ![w].tx = @ \cup added(kind),
                                          ![w].found = @ \cup Returned(p)]
        PROVE  ReverseJudges(w) /\ \A v \in EmbedWorker \ {w} : reverse'[v] = reverse[v]
    <3>1. /\ reverse'[w] = [old EXCEPT !.todo = Tail(@), !.tx = @ \cup added(kind),
                                       !.found = @ \cup Returned(p)]
          /\ \A v \in EmbedWorker \ {w} : reverse'[v] = reverse[v]
      BY <1>1, <2>3
    <3>2. old.tx \cup added(kind) \in {old.tx, old.tx \cup {<<p, kind>>}}
      OBVIOUS
    <3>3. /\ reverse'[w].pc = old.pc /\ reverse'[w].user = old.user /\ reverse'[w].prefs = old.prefs
          /\ reverse'[w].todo = Tail(old.todo) /\ reverse'[w].tx = old.tx \cup added(kind)
      BY <1>1, <3>1 DEF ReverseState
    <3>4. \/ reverse'[w].tx = old.tx
          \/ \E k \in Kind : Allowed(old.prefs.set, k) /\ reverse'[w].tx = old.tx \cup {<<p, k>>}
      BY <2>3, <3>2, <3>3
    <3> HIDE DEF added
    <3> QED BY <2>1, <3>1, <3>3, <3>4 DEF ReverseJudges, p
  <2> QED BY <2>1, <2>2, <2>3 DEF ReverseMoves
<1>9. CASE ReverseCommit(w)
  <2>1. reverse' = [reverse EXCEPT ![w] = [IdleReverse EXCEPT
                      !.pc = "enqueue", !.user = old.user, !.found = old.found]]
    BY <1>2, <1>9 DEF ReverseCommit
  <2>2. /\ reverse'[w].pc = "enqueue" /\ reverse'[w].user = old.user /\ reverse'[w].tx = {}
        /\ \A v \in EmbedWorker \ {w} : reverse'[v] = reverse[v]
    BY <1>1, <2>1 DEF IdleReverse
  <2> QED BY <1>2, <1>9, <2>2 DEF ReverseCommit, ReverseEnds, ReverseMoves
<1>10. CASE ReverseEnqueue(w)
  <2>1. \/ EndReverse(w) /\ row' = row
        \/ \E id \in old.found : /\ reverse' = [reverse EXCEPT ![w].found = @ \ {id}]
                                 /\ row' = Pushes(id, 1)
    BY <1>2, <1>10 DEF ReverseEnqueue, Queued
  <2>2. old.found \subseteq Pair \X Nat
    BY <1>1 DEF ReverseState
  <2>3. row' = row \/ \E id \in Pair \X Nat : row' = Pushes(id, 1)
    BY <2>1, <2>2
  <2>4. /\ old.pc = "enqueue" /\ old.tx = {} /\ ReverseFrame
        /\ UNCHANGED <<chunks, embedQ, considered>>
    BY <1>1, <1>10 DEF ReverseEnqueue, ReverseBusy
  <2>5. /\ \/ reverse'[w] = IdleReverse
           \/ reverse'[w].pc = old.pc /\ reverse'[w].user = old.user
        /\ reverse'[w].tx = {} /\ \A v \in EmbedWorker \ {w} : reverse'[v] = reverse[v]
    <3>1. CASE EndReverse(w)
      BY <1>1, <3>1 DEF EndReverse, IdleReverse
    <3>2. CASE \E id \in old.found : reverse' = [reverse EXCEPT ![w].found = @ \ {id}]
      BY <1>1, <2>4, <3>2 DEF ReverseState
    <3> QED BY <2>1, <3>1, <3>2
  <2> QED BY <2>3, <2>4, <2>5 DEF ReversePushes, ReverseMoves
<1> QED BY <1>3, <1>4, <1>5, <1>6, <1>7, <1>8, <1>9, <1>10 DEF ReverseStep

LEMMA ForwardSucceeds ==
    ASSUME TypeIInv, NEW w \in JobWorker, ForwardStep(w), Undamaged'
    PROVE  /\ ForwardMoves(w) /\ ForwardFrame
           /\ \A v \in JobWorker \ {w} : forward'[v] = forward[v]
<1> DEFINE old == forward[w]
<1>1. old \in ForwardState /\ ForwardBusy(old) /\ forward \in [JobWorker -> ForwardState]
  BY DEF TypeIInv, TypeOK
<1>2. ~Fails /\ ~ForwardFails(w)
  BY Outcomes DEF ForwardFails
<1>3. CASE ForwardPop(w)
  <2>1. /\ forward' = [forward EXCEPT ![w].pc = "list", ![w].job = Last(processQ)]
        /\ old = IdleForward /\ old.pc = "idle" /\ old.todo = {}
    BY <1>1, <1>2, <1>3 DEF ForwardPop, ForwardBusy, IdleForward
  <2>2. ForwardPops(w)
    BY <1>1, <1>3, <2>1 DEF ForwardPop, ForwardPops, ForwardState
  <2> QED BY <1>1, <1>3, <2>1, <2>2 DEF ForwardPop, ForwardMoves
<1>4. CASE ForwardList(w)
  <2> DEFINE users == {u \in User : chunks[u].ver > 0}
             loaded == [u \in User |-> IF u \in users THEN Loaded(u) ELSE NoPrefs]
             f == [old EXCEPT !.pc = "scan", !.todo = users, !.prefs = loaded]
  <2>1. /\ forward' = [forward EXCEPT ![w] = f] /\ old.pc = "list"
        /\ Overlap \/ \A u \in users : submit[u].pc = "idle" /\ settings[u].pc = "idle"
        /\ ForwardFrame /\ UNCHANGED <<row, processQ, considered>>
    BY <1>1, <1>2, <1>4 DEF ForwardList
  <2>2. \A u \in users : loaded[u] = Loaded(u)
    OBVIOUS
  <2>3. users = {u \in User : chunks[u].ver > 0}
    OBVIOUS
  <2> HIDE DEF users, loaded
  <2>4. f.pc = "scan" /\ f.job = old.job /\ f.todo = users /\ f.prefs = loaded
    BY <1>1 DEF ForwardState
  <2> HIDE DEF f
  <2>5. forward'[w] = f /\ \A v \in JobWorker \ {w} : forward'[v] = forward[v]
    BY <1>1, <2>1
  <2> QED BY <2>1, <2>2, <2>3, <2>4, <2>5 DEF ForwardLists, ForwardMoves
<1>5. CASE ForwardScan(w)
  <2>1. PICK u \in old.todo :
         LET p == <<u, old.job>>
             Rest == [old EXCEPT !.todo = @ \ {u}, !.prefs[u] = NoPrefs]
             Added == /\ ~Locked(p)
                      /\ \E kind \in {k \in Kind : Allowed(old.prefs[u].set, k)} :
                           row' = [row EXCEPT ![p] = Inserted(p, kind, old.prefs[u].ver)]
         IN
         /\ Judged(p, old.prefs[u].ver)
         /\ \/ forward' = [forward EXCEPT ![w] = Rest] /\ UNCHANGED row
            \/ /\ Added
               /\ forward' = [forward EXCEPT ![w] = [Rest EXCEPT !.found = @ \cup Returned(p)]]
    BY <1>2, <1>5 DEF ForwardScan
  <2> DEFINE p == <<u, old.job>>
             rest == [old EXCEPT !.todo = @ \ {u}, !.prefs[u] = NoPrefs]
             more == [rest EXCEPT !.found = @ \cup Returned(p)]
  <2>2. u \in User /\ old.pc = "scan" /\ ForwardFrame /\ UNCHANGED processQ
    BY <1>1, <1>5 DEF ForwardScan, ForwardState
  <2>3. /\ forward' = [forward EXCEPT ![w] = rest] \/ forward' = [forward EXCEPT ![w] = more]
        /\ Judged(p, old.prefs[u].ver)
        /\ \/ row' = row
           \/ \E kind \in {k \in Kind : Allowed(old.prefs[u].set, k)} :
                row' = [row EXCEPT ![p] = Inserted(p, kind, old.prefs[u].ver)]
    BY <2>1
  <2> HIDE DEF p
  <2>4. /\ rest.pc = "scan" /\ rest.job = old.job /\ rest.todo = old.todo \ {u}
        /\ \A v \in User \ {u} : rest.prefs[v] = old.prefs[v]
        /\ rest \in ForwardState
    BY <1>1, <2>2, Idle DEF ForwardState
  <2> HIDE DEF rest
  <2>5. /\ more.pc = "scan" /\ more.job = old.job /\ more.todo = old.todo \ {u}
        /\ \A v \in User \ {u} : more.prefs[v] = old.prefs[v]
    BY <2>4 DEF ForwardState
  <2> HIDE DEF more
  <2>6. /\ forward'[w] \in {rest, more}
        /\ \A v \in JobWorker \ {w} : forward'[v] = forward[v]
    BY <1>1, <2>3
  <2>7. ForwardJudges(w, u)
    BY <2>2, <2>3, <2>4, <2>5, <2>6 DEF ForwardJudges, p
  <2> QED BY <2>2, <2>6, <2>7 DEF ForwardMoves
<1>6. CASE ForwardEnqueue(w)
  <2>1. \/ EndForward(w) /\ row' = row
        \/ \E id \in old.found : /\ forward' = [forward EXCEPT ![w].found = @ \ {id}]
                                 /\ row' = Pushes(id, 1)
    BY <1>2, <1>6 DEF ForwardEnqueue, Queued
  <2>2. old.found \subseteq Pair \X Nat
    BY <1>1 DEF ForwardState
  <2>3. row' = row \/ \E id \in Pair \X Nat : row' = Pushes(id, 1)
    BY <2>1, <2>2
  <2>4. /\ old.pc = "scan" /\ old.todo = {} /\ ForwardFrame /\ UNCHANGED <<processQ, considered>>
    BY <1>6 DEF ForwardEnqueue
  <2>5. /\ forward'[w].todo = {} /\ forward'[w].pc \in {"idle", "scan"}
        /\ \A v \in JobWorker \ {w} : forward'[v] = forward[v]
    <3>1. CASE EndForward(w)
      BY <1>1, <3>1 DEF EndForward, IdleForward
    <3>2. CASE \E id \in old.found : forward' = [forward EXCEPT ![w].found = @ \ {id}]
      BY <1>1, <2>4, <3>2 DEF ForwardState
    <3> QED BY <2>1, <3>1, <3>2
  <2> QED BY <2>3, <2>4, <2>5 DEF ForwardPushes, ForwardMoves
<1> QED BY <1>3, <1>4, <1>5, <1>6 DEF ForwardStep

-----------------------------------------------------------------------------
(* Every pair is judged.                                                    *)

\* Users who never change their settings, or requests that do not overlap.
Serial == ~Overlap \/ MaxPatches = 0

\* The preferences a matcher loads are those of the last complete submit,
\* unless the submit has yet to save them.
Versions(u) ==
    /\ last[u] <= profile[u].ver
    /\ last[u] > 0 => profile[u].complete /\ (submit[u].pc # "idle" => submit[u].complete)
    /\ submit[u].pc # "idle" => submit[u].prefs.ver >= last[u] /\ submit[u].prefs.ver >= 1
    /\ submit[u].pc \notin {"load", "save"} => Loaded(u).ver >= last[u]
    /\ settings[u].pc # "idle" => MaxPatches # 0 /\ submit[u].pc = "idle"
    /\ settings[u].pc = "save" => settings[u].prefs.ver >= last[u]

Among(x, q) == \E i \in 1..Len(q) : q[i] = x

\* A reverse match that will load the preferences of the last submit ...
Coming(u) ==
    \/ submit[u].pc # "idle"
    \/ Among(u, embedQ)
    \/ \E w \in EmbedWorker : reverse[w].user = u /\ reverse[w].pc \in {"read", "replace", "prefs"}
\* ... or has loaded them and will come to the job ...
ByUser(w, u, j) ==
    /\ reverse[w].user = u /\ reverse[w].prefs.ver >= last[u]
    /\ reverse[w].pc = "list" \/ (reverse[w].pc = "scan" /\ Among(j, reverse[w].todo))
\* ... or a forward match that will come to the user.
ByJob(w, u, j) ==
    /\ forward[w].job = j
    /\ \/ forward[w].pc = "list"
       \/ u \in forward[w].todo /\ forward[w].prefs[u].ver >= last[u]

Served(u, j) ==
    \/ considered[<<u, j>>] >= last[u]
    \/ Coming(u) \/ \E w \in EmbedWorker : ByUser(w, u, j)
    \/ crawl = j \/ Among(j, processQ) \/ \E w \in JobWorker : ByJob(w, u, j)

Due(u, j) == last[u] > 0 /\ chunks[u].ver > 0 /\ Among(j, stored)

VersionsInv == \A u \in User : Versions(u)
JudgedInv == \A u \in User, j \in Job : Due(u, j) => Served(u, j)
MissInv == Undamaged => VersionsInv /\ JudgedInv

LEMMA AmongLaws ==
    ASSUME NEW S, NEW q \in Seq(S), NEW x \in S
    PROVE  /\ \A y \in S : Among(x, Append(q, y)) <=> Among(x, q) \/ x = y
           /\ q # <<>> => (Among(x, q) <=> Among(x, Front(q)) \/ x = Last(q))
           /\ q # <<>> => (Among(x, q) <=> x = Head(q) \/ Among(x, Tail(q)))
<1>1. ASSUME NEW y \in S PROVE Among(x, Append(q, y)) <=> Among(x, q) \/ x = y
  <2>1. /\ Len(q) \in Nat /\ Len(Append(q, y)) = Len(q) + 1 /\ Append(q, y)[Len(q) + 1] = y
        /\ \A i \in 1..Len(q) : Append(q, y)[i] = q[i]
    OBVIOUS
  <2>2. \A i : i \in 1..(Len(q) + 1) <=> i \in 1..Len(q) \/ i = Len(q) + 1
    BY <2>1
  <2> QED BY <2>1, <2>2 DEF Among
<1>2. ASSUME q # <<>> PROVE Among(x, q) <=> Among(x, Front(q)) \/ x = Last(q)
  <2>1. /\ Len(q) \in Nat \ {0} /\ Len(Front(q)) = Len(q) - 1 /\ Last(q) = q[Len(q)]
        /\ \A i \in 1..(Len(q) - 1) : Front(q)[i] = q[i]
    BY <1>2, Queues DEF Last
  <2>2. \A i : i \in 1..Len(q) <=> i \in 1..(Len(q) - 1) \/ i = Len(q)
    BY <2>1
  <2> QED BY <2>1, <2>2 DEF Among
<1>3. ASSUME q # <<>> PROVE Among(x, q) <=> x = Head(q) \/ Among(x, Tail(q))
  <2>1. /\ Len(q) \in Nat \ {0} /\ Len(Tail(q)) = Len(q) - 1 /\ Head(q) = q[1]
        /\ \A i \in 1..(Len(q) - 1) : Tail(q)[i] = q[i + 1]
    BY <1>3, EmptySeq, HeadTailProperties
  <2>2. \A i \in 1..Len(q) : i = 1 \/ (i - 1 \in 1..(Len(q) - 1) /\ (i - 1) + 1 = i)
    BY <2>1
  <2>3. 1 \in 1..Len(q) /\ \A i \in 1..(Len(q) - 1) : i + 1 \in 1..Len(q)
    BY <2>1
  <2> QED BY <2>1, <2>2, <2>3, ZenonT(30) DEF Among
<1> QED BY <1>1, <1>2, <1>3

LEMMA Unhurt == TypeIInv /\ [Next]_vars /\ Undamaged' => Undamaged /\ ~Fails /\ ~Crash
<1> SUFFICES ASSUME TypeIInv, [Next]_vars, Undamaged' PROVE Undamaged /\ ~Fails /\ ~Crash
  OBVIOUS
<1>1. faults \in Nat /\ stops \in Nat
  BY DEF TypeIInv, TypeOK
<1>2. ~Fails /\ ~Crash
  BY <1>1 DEF Fails, Crash, Undamaged
<1>3. Succeeds \/ Fails \/ Crash
  <2>1. ASSUME NEW u \in User, SaveDraft(u) \/ SubmitProfile(u) \/ PatchSettings(u) \/ Request(u)
        PROVE  Succeeds \/ Fails
    BY <2>1 DEF SaveDraft, SubmitProfile, PatchSettings, Request, SubmitLoad, SubmitSave,
       SubmitDelete, SubmitEnqueue, SettingsSave, DeletePendingPromisingMatches,
       DeletePendingStretchMatches, SelectPurge, DeletePurge, Succeeds
  <2>2. ASSUME NEW w \in EmbedWorker, ReverseStep(w) PROVE Succeeds \/ Fails
    BY <2>2 DEF ReverseStep, EmbedPop, EmbedRead, EmbedFails, ReplaceChunks, ReversePrefs,
       ReverseList, ReverseScan, ReverseCommit, ReverseEnqueue
  <2>3. ASSUME NEW w \in JobWorker, ForwardStep(w) PROVE Succeeds \/ Fails
    BY <2>3 DEF ForwardStep, ForwardPop, ForwardList, ForwardScan, ForwardEnqueue, ForwardFails
  <2>4. ASSUME (\E j \in Job : StoreJob(j)) \/ EnqueueProcessJob \/ (\E p \in Pair : Tailor(p))
               \/ UNCHANGED vars
        PROVE  Succeeds \/ Fails
    BY <2>4 DEF StoreJob, EnqueueProcessJob, Tailor, Succeeds, vars
  <2> QED BY <2>1, <2>2, <2>3, <2>4 DEF Next
<1> QED BY <1>2, <1>3, Outcomes

LEMMA SettingsGoes ==
    ASSUME TypeOK, NEW u \in User, NEW pc, NEW ids, SettingsGoto(u, pc, ids)
    PROVE  /\ settings'[u].pc = pc
           /\ pc = "idle" => settings'[u] = IdleSettings
           /\ pc # "idle" => settings'[u].prefs = settings[u].prefs /\ settings'[u].ids = ids
           /\ \A v \in User \ {u} : settings'[v] = settings[v]
<1> DEFINE new == IF pc = "idle" THEN IdleSettings ELSE [settings[u] EXCEPT !.pc = pc, !.ids = ids]
<1>1. settings \in [User -> SettingsState] /\ settings' = [settings EXCEPT ![u] = new]
  BY DEF TypeOK, SettingsGoto
<1>2. /\ new.pc = pc
      /\ pc = "idle" => new = IdleSettings
      /\ pc # "idle" => new.prefs = settings[u].prefs /\ new.ids = ids
  BY <1>1 DEF SettingsState, IdleSettings
<1> HIDE DEF new
<1> QED BY <1>1, <1>2

\* A request of one user changes nothing of another's.
Private(u) ==
    /\ UNCHANGED <<chunks, stored, considered, crawl, processQ, reverse, forward>>
    /\ \A v \in User \ {u} : /\ profile'[v] = profile[v] /\ prefs'[v] = prefs[v]
                             /\ submit'[v] = submit[v] /\ settings'[v] = settings[v]
                             /\ last'[v] = last[v] /\ chosen'[v] = chosen[v]
    /\ embedQ' \in {embedQ, Append(embedQ, u)}

LEMMA RequestIsPrivate ==
    ASSUME TypeIInv, NEW u \in User, Undamaged',
           SaveDraft(u) \/ SubmitProfile(u) \/ PatchSettings(u) \/ Request(u)
    PROVE  Private(u)
<1> USE DEF TypeIInv, TypeOK, Private, queueVars, userVars, apiVars
<1>1. ~Fails
  BY Outcomes
<1>2. CASE SaveDraft(u)
  BY <1>2 DEF SaveDraft
<1>3. CASE SubmitProfile(u)
  BY <1>3 DEF SubmitProfile
<1>4. CASE SubmitLoad(u)
  BY <1>4 DEF SubmitLoad
<1>5. CASE SubmitSave(u)
  BY <1>5 DEF SubmitSave
<1>6. CASE SubmitDelete(u)
  BY <1>6 DEF SubmitDelete
<1>7. CASE SubmitEnqueue(u)
  BY <1>1, <1>7 DEF SubmitEnqueue
<1>8. CASE PatchSettings(u)
  BY <1>8 DEF PatchSettings
<1>9. CASE SettingsSave(u)
  BY <1>9 DEF SettingsSave, SettingsGoto
<1>10. CASE DeletePendingPromisingMatches(u) \/ DeletePendingStretchMatches(u)
  BY <1>10 DEF DeletePendingPromisingMatches, DeletePendingStretchMatches, SelectPurge, DeletePurge,
     SettingsGoto
<1> QED BY <1>2, <1>3, <1>4, <1>5, <1>6, <1>7, <1>8, <1>9, <1>10 DEF Request

\* A request keeps every pair served if it keeps its own user's.
LEMMA RequestServes ==
    ASSUME TypeIInv, JudgedInv, NEW u \in User, Private(u),
           \/ last'[u] = 0
           \/ submit'[u].pc # "idle"
           \/ Among(u, embedQ')
           \/ submit[u].pc = "idle" /\ last'[u] = last[u]
    PROVE  JudgedInv'
<1> SUFFICES ASSUME NEW v \in User, NEW j \in Job, Due(v, j)' PROVE Served(v, j)'
  BY DEF JudgedInv
<1>1. embedQ \in Seq(User)
  BY DEF TypeIInv, TypeOK
<1>2. Among(v, embedQ) => Among(v, embedQ')
  <2>1. Among(v, Append(embedQ, u)) <=> Among(v, embedQ) \/ v = u
    BY <1>1, AmongLaws
  <2> QED BY <2>1 DEF Private
<1>3. Coming(v)' \/ (last'[v] = last[v] /\ (Coming(v) => Coming(v)'))
  BY <1>2 DEF Private, Coming, Due
<1>4. last'[v] = last[v] => Due(v, j)
  BY DEF Due, Private
<1> QED BY <1>3, <1>4 DEF JudgedInv, Served, ByUser, ByJob, Private

LEMMA VersionsOfOthers ==
    ASSUME VersionsInv, NEW u \in User, Private(u), Versions(u)'
    PROVE  VersionsInv'
<1> SUFFICES ASSUME NEW v \in User \ {u} PROVE Versions(v)'
  BY DEF VersionsInv
<1> QED BY DEF VersionsInv, Versions, Private, Loaded

LEMMA RequestJudged ==
    ASSUME TypeIInv, VersionsInv, JudgedInv, Serial, Undamaged', NEW u \in User,
           SaveDraft(u) \/ SubmitProfile(u) \/ PatchSettings(u) \/ Request(u)
    PROVE  VersionsInv' /\ JudgedInv'
<1> USE DEF apiVars, userVars, queueVars
<1>1. /\ Versions(u) /\ Private(u) /\ ~Fails /\ MaxPatches \in Nat /\ patches[u] \in Nat
      /\ profile \in [User -> Profile] /\ last \in [User -> Version] /\ prefs \in [User -> Prefs]
      /\ submit \in [User -> SubmitState] /\ settings \in [User -> SettingsState]
      /\ submit[u] \in SubmitState /\ settings[u] \in SettingsState /\ profile[u] \in Profile
      /\ prefs[u] \in Prefs
  BY RequestIsPrivate, Outcomes, MatchingAssumption DEF VersionsInv, TypeIInv, TypeOK
<1>2. /\ profile[u].ver \in Nat /\ last[u] \in Nat /\ submit[u].prefs.ver \in Int
      /\ settings[u].prefs.ver \in Int /\ prefs[u].ver \in Int
  BY <1>1 DEF Profile, Version, SubmitState, SettingsState, Prefs
<1>3. CASE SaveDraft(u)
  <2>1. PICK c \in BOOLEAN :
          /\ profile' = [profile EXCEPT ![u] = [ver |-> @.ver + 1, complete |-> c]]
          /\ last' = [last EXCEPT ![u] = IF c THEN @ ELSE 0]
    BY <1>3 DEF SaveDraft
  <2>2. /\ profile'[u].ver = profile[u].ver + 1 /\ profile'[u].complete = c
        /\ last'[u] = (IF c THEN last[u] ELSE 0) /\ UNCHANGED <<submit, settings, prefs>>
    BY <1>1, <1>3, <2>1 DEF SaveDraft
  <2>3. last'[u] <= last[u] /\ Loaded(u)'.ver \in {Loaded(u).ver, Loaded(u).ver + 1}
        /\ Loaded(u).ver \in Int /\ last'[u] \in Nat
    BY <1>1, <1>2, <2>2 DEF Loaded, NoPrefs
  <2>4. Versions(u)'
    BY <1>1, <1>2, <2>2, <2>3 DEF Versions
  <2>5. JudgedInv'
    <3>1. ASSUME NEW v \in User PROVE last'[v] = last[v] \/ last'[v] = 0
      BY <1>1, <2>2 DEF Private
    <3>2. UNCHANGED <<submit, embedQ>>
      BY <1>3 DEF SaveDraft
    <3>3. ASSUME NEW v \in User, NEW j \in Job, Due(v, j)' PROVE Served(v, j)'
      <4>1. last'[v] = last[v]
        BY <3>1, <3>3 DEF Due
      <4> QED BY <1>1, <3>2, <3>3, <4>1 DEF JudgedInv, Due, Served, Coming, ByUser, ByJob, Private
    <3> QED BY <3>3 DEF JudgedInv
  <2> QED BY <1>1, <2>4, <2>5, VersionsOfOthers
<1>4. CASE SubmitProfile(u)
  <2> DEFINE ver == profile[u].ver + 1
  <2>1. PICK c \in BOOLEAN :
         /\ profile' = [profile EXCEPT ![u] = [ver |-> ver, complete |-> c]]
         /\ last' = [last EXCEPT ![u] = IF c THEN ver ELSE 0]
         /\ submit' = [submit EXCEPT ![u] =
              [pc |-> "load", prefs |-> [NoPrefs EXCEPT !.ver = ver], complete |-> c]]
    BY <1>4 DEF SubmitProfile
  <2>2. ver \in Nat /\ ver >= 1
    BY <1>2
  <2> HIDE DEF ver
  <2>3. /\ profile'[u].ver = ver /\ profile'[u].complete = c /\ last'[u] = (IF c THEN ver ELSE 0)
        /\ submit'[u].pc = "load" /\ submit'[u].complete = c /\ submit'[u].prefs.ver = ver
    BY <1>1, <2>1 DEF NoPrefs
  <2>4. settings'[u].pc = "idle"
    BY <1>1, <1>4 DEF SubmitProfile, Undisturbed, Serial, Versions
  <2>5. Versions(u)'
    BY <2>2, <2>3, <2>4 DEF Versions
  <2> QED BY <1>1, <2>3, <2>5, VersionsOfOthers, RequestServes
<1>5. CASE SubmitLoad(u) \/ SubmitDelete(u)
  <2>1. /\ UNCHANGED <<profile, prefs, last, settings>> /\ submit[u].pc \in {"load", "delete"}
        /\ submit'[u].pc = (IF submit[u].pc = "load" THEN "save" ELSE "enqueue")
        /\ submit'[u].complete = submit[u].complete
    BY <1>1, <1>5 DEF SubmitLoad, SubmitDelete, SubmitState
  <2>2. submit'[u].prefs.ver = submit[u].prefs.ver
    BY <1>1, <1>5 DEF SubmitLoad, SubmitDelete, SubmitState, Prefs
  <2>3. Versions(u)'
    BY <1>1, <1>2, <2>1, <2>2 DEF Versions, Loaded
  <2>4. submit'[u].pc # "idle"
    BY <2>1
  <2> QED BY <1>1, <2>3, <2>4, VersionsOfOthers, RequestServes
<1>6. CASE SubmitSave(u)
  <2>1. /\ UNCHANGED <<profile, last, settings>> /\ submit[u].pc = "save"
        /\ submit' = [submit EXCEPT ![u].pc = "delete"] /\ prefs' = [prefs EXCEPT ![u] = submit[u].prefs]
    BY <1>1, <1>6 DEF SubmitSave
  <2>2. /\ submit'[u].pc = "delete" /\ submit'[u].complete = submit[u].complete
        /\ submit'[u].prefs = submit[u].prefs /\ prefs'[u] = submit[u].prefs
    BY <1>1, <2>1 DEF SubmitState
  <2>3. submit[u].prefs.ver >= last[u] /\ submit[u].prefs.ver >= 1 /\ settings[u].pc = "idle"
    BY <1>1, <2>1 DEF Versions
  <2>4. submit[u].prefs # NoPrefs
    BY <2>3 DEF NoPrefs
  <2>5. Loaded(u)' = submit[u].prefs
    BY <2>2, <2>4 DEF Loaded
  <2>6. Versions(u)'
    BY <1>1, <2>1, <2>2, <2>3, <2>5 DEF Versions
  <2>7. submit'[u].pc # "idle"
    BY <2>2
  <2> QED BY <1>1, <2>6, <2>7, VersionsOfOthers, RequestServes
<1>7. CASE SubmitEnqueue(u)
  <2>1. /\ UNCHANGED <<profile, prefs, last, settings>> /\ submit[u].pc = "enqueue"
        /\ submit'[u] = IdleSubmit /\ submit'[u].pc = "idle"
        /\ submit[u].complete => embedQ' = Append(embedQ, u)
    BY <1>1, <1>7 DEF SubmitEnqueue, IdleSubmit
  <2>2. last[u] > 0 => submit[u].complete
    BY <1>1, <2>1 DEF Versions
  <2>3. Versions(u)'
    BY <1>1, <2>1 DEF Versions, Loaded
  <2>4. last'[u] = 0 \/ Among(u, embedQ')
    <3>1. embedQ \in Seq(User)
      BY DEF TypeIInv, TypeOK
    <3>2. Among(u, Append(embedQ, u)) <=> Among(u, embedQ) \/ u = u
      BY <3>1, AmongLaws
    <3>3. last[u] = 0 \/ last[u] > 0
      BY <1>2
    <3>4. CASE last[u] > 0
      BY <2>1, <2>2, <3>2, <3>4
    <3> QED BY <2>1, <3>3, <3>4
  <2> QED BY <1>1, <2>3, <2>4, VersionsOfOthers, RequestServes
<1>8. CASE PatchSettings(u)
  <2>1. MaxPatches # 0 /\ submit[u].pc = "idle" /\ UNCHANGED <<profile, prefs, last, submit>>
    BY <1>1, <1>8 DEF PatchSettings, Serial, Undisturbed
  <2>2. settings'[u].prefs.ver = Loaded(u).ver
    <3>1. PICK set \in Settings : settings' = [settings EXCEPT ![u].pc = "save",
                                            ![u].prefs = [Loaded(u) EXCEPT !.set = set]]
      BY <1>1, <1>8 DEF PatchSettings
    <3>2. Loaded(u) \in Prefs
      BY LoadedType DEF TypeIInv
    <3>3. settings'[u].prefs = [Loaded(u) EXCEPT !.set = set]
      BY <1>1, <3>1 DEF SettingsState
    <3> QED BY <3>2, <3>3 DEF Prefs
  <2>3. Versions(u)'
    BY <1>1, <2>1, <2>2 DEF Versions, Loaded
  <2> QED BY <1>1, <2>1, <2>3, VersionsOfOthers, RequestServes
<1>9. CASE SettingsSave(u)
  <2>1. /\ settings[u].pc = "save" /\ prefs'[u] = settings[u].prefs
        /\ UNCHANGED <<profile, last, submit>>
    BY <1>1, <1>9 DEF SettingsSave
  <2>2. settings[u].prefs.ver >= last[u] /\ settings[u].prefs.ver \in Version /\ submit[u].pc = "idle"
        /\ MaxPatches # 0
    BY <1>1, <2>1 DEF Versions, TypeIInv, SettingsBusy
  <2>3. settings[u].prefs # NoPrefs
    BY <2>2 DEF NoPrefs, Version
  <2>4. Loaded(u)' = settings[u].prefs
    BY <2>1, <2>3 DEF Loaded
  <2>5. settings'[u].pc # "save"
    <3>1. ASSUME NEW pc \in {"idle", "tier", "stretch"}, SettingsGoto(u, pc, {})
          PROVE  settings'[u].pc # "save"
      BY <3>1, SettingsGoes DEF TypeIInv
    <3> QED BY <1>1, <1>9, <3>1 DEF SettingsSave, AfterTier
  <2>6. Versions(u)'
    BY <1>1, <2>1, <2>2, <2>4, <2>5 DEF Versions
  <2> QED BY <1>1, <2>1, <2>2, <2>6, VersionsOfOthers, RequestServes
<1>10. CASE DeletePendingPromisingMatches(u) \/ DeletePendingStretchMatches(u)
  <2>1. UNCHANGED <<profile, prefs, last, submit>>
    BY <1>10 DEF DeletePendingPromisingMatches, DeletePendingStretchMatches, SelectPurge, DeletePurge
  <2>2. settings'[u].pc # "save" /\ settings[u].pc # "idle"
    <3>1. ASSUME NEW pc \in {"idle", "drop", "stretch", "dropStretch"}, NEW ids, SettingsGoto(u, pc, ids)
          PROVE  settings'[u].pc # "save"
      BY <3>1, SettingsGoes DEF TypeIInv
    <3> QED BY <1>1, <1>10, <3>1 DEF DeletePendingPromisingMatches, DeletePendingStretchMatches,
            SelectPurge, DeletePurge, AfterTier
  <2>3. submit[u].pc = "idle" /\ MaxPatches # 0
    BY <1>1, <2>2 DEF Versions
  <2>4. Versions(u)'
    BY <1>1, <2>1, <2>2, <2>3 DEF Versions, Loaded
  <2> QED BY <1>1, <2>1, <2>3, <2>4, VersionsOfOthers, RequestServes
<1> QED BY <1>3, <1>4, <1>5, <1>6, <1>7, <1>8, <1>9, <1>10 DEF Request

LEMMA JudgedGrows ==
    ASSUME TypeIInv, NEW p \in Pair, NEW ver \in Version, Judged(p, ver)
    PROVE  considered'[p] >= ver /\ \A q \in Pair : considered'[q] >= considered[q]
<1>1. considered \in [Pair -> Version] /\ (\A q \in Pair : considered[q] \in Nat) /\ ver \in Nat
  BY DEF TypeIInv, TypeOK, Version
<1> QED BY <1>1 DEF Judged

LEMMA ReverseJudged ==
    ASSUME TypeIInv, VersionsInv, JudgedInv, Undamaged', NEW w \in EmbedWorker, ReverseStep(w)
    PROVE  JudgedInv'
<1> SUFFICES ASSUME NEW v \in User, NEW j \in Job, Due(v, j)' PROVE Served(v, j)'
  BY DEF JudgedInv
<1>1. /\ ReverseMoves(w) /\ \A x \in EmbedWorker \ {w} : reverse'[x] = reverse[x]
      /\ UNCHANGED <<last, submit, stored, crawl, processQ, forward, prefs, profile>>
  BY ReverseSucceeds DEF ReverseFrame, apiVars
<1>2. /\ reverse[w] \in ReverseState /\ ReverseBusy(reverse[w]) /\ <<v, j>> \in Pair
      /\ \A q \in Pair : considered[q] \in Nat
      /\ last[v] \in Nat /\ chunks \in [User -> Profile] /\ embedQ \in Seq(User) /\ stored \in Seq(Job)
  BY DEF TypeIInv, TypeOK, Pair, Version
<1>3. ASSUME Due(v, j), considered'[<<v, j>>] >= considered[<<v, j>>],
             considered'[<<v, j>>] \in Nat,
             Among(v, embedQ) => Coming(v)',
             reverse[w].user = v /\ reverse[w].pc \in {"read", "replace", "prefs"} => Served(v, j)',
             ByUser(w, v, j) => Served(v, j)'
      PROVE  Served(v, j)'
  <2>1. Served(v, j)
    BY <1>3 DEF JudgedInv
  <2>2. CASE considered[<<v, j>>] >= last[v]
    BY <1>1, <1>2, <1>3, <2>2 DEF Served
  <2>3. CASE Coming(v)
    BY <1>1, <1>3, <2>3 DEF Served, Coming
  <2>4. CASE \E x \in EmbedWorker : ByUser(x, v, j)
    BY <1>1, <1>3, <2>4 DEF Served, ByUser
  <2>5. CASE crawl = j \/ Among(j, processQ) \/ \E x \in JobWorker : ByJob(x, v, j)
    BY <1>1, <2>5 DEF Served, ByJob
  <2> QED BY <2>1, <2>2, <2>3, <2>4, <2>5 DEF Served
<1>4. ASSUME UNCHANGED chunks PROVE Due(v, j)
  BY <1>1, <1>4 DEF Due
<1>5. Coming(v)' => Served(v, j)'
  BY DEF Served
<1>6. ASSUME embedQ' = embedQ, Among(v, embedQ) PROVE Coming(v)'
  BY <1>6 DEF Coming
<1>7. CASE ReversePops(w)
  <2>1. Among(v, embedQ) => Coming(v)'
    <3>1. Among(v, embedQ) => Among(v, Front(embedQ)) \/ v = Last(embedQ)
      BY <1>2, <1>7, AmongLaws DEF ReversePops
    <3> QED BY <1>7, <3>1 DEF ReversePops, Coming
  <2>2. reverse[w].pc = "idle" /\ ~ByUser(w, v, j)
    BY <1>7 DEF ReversePops, ByUser
  <2> QED BY <1>2, <1>3, <1>4, <1>7, <2>1, <2>2 DEF ReversePops
<1>8. CASE ReverseReads(w)
  <2>1. ~ByUser(w, v, j) /\ reverse[w].pc = "read"
    BY <1>8 DEF ReverseReads, ByUser
  <2>2. ASSUME reverse[w].user = v PROVE Coming(v)'
    <3>1. profile[v].complete
      BY <1>1, <1>2, <1>4, <1>8 DEF ReverseReads, Due, VersionsInv, Versions
    <3> QED BY <1>8, <2>2, <3>1 DEF ReverseReads, Coming
  <2> QED BY <1>2, <1>3, <1>4, <1>5, <1>6, <1>8, <2>1, <2>2 DEF ReverseReads
<1>9. CASE ReverseEmbeds(w)
  <2>1. CASE v = reverse[w].user
    BY <1>5, <1>9, <2>1 DEF ReverseEmbeds, Coming
  <2>2. CASE v # reverse[w].user
    <3>1. Due(v, j) /\ ~ByUser(w, v, j)
      BY <1>1, <1>2, <1>9, <2>2 DEF Due, ReverseEmbeds, ByUser
    <3> QED BY <1>2, <1>3, <1>6, <1>9, <2>2, <3>1 DEF ReverseEmbeds
  <2> QED BY <2>1, <2>2
<1>10. CASE ReverseLoads(w)
  <2>1. ~ByUser(w, v, j) /\ reverse[w].pc = "prefs"
    BY <1>10 DEF ReverseLoads, ByUser
  <2>2. ASSUME reverse[w].user = v PROVE Served(v, j)'
    <3>1. CASE submit[v].pc \in {"load", "save"}
      BY <1>1, <1>5, <3>1 DEF Coming
    <3>2. CASE submit[v].pc \notin {"load", "save"}
      <4>1. Loaded(v).ver >= last[v]
        BY <3>2 DEF VersionsInv, Versions
      <4> QED BY <1>1, <1>10, <2>2, <4>1 DEF ReverseLoads, Served, ByUser
    <3> QED BY <3>1, <3>2
  <2> QED BY <1>2, <1>3, <1>4, <1>6, <1>10, <2>1, <2>2 DEF ReverseLoads
<1>11. CASE ReverseLists(w)
  <2>1. Among(j, NewestFirst(stored))
    <3>1. Among(j, stored)
      BY <1>1 DEF Due
    <3> QED BY <1>2, <3>1, Newest, ZenonT(30) DEF Among
  <2>2. ByUser(w, v, j) => Served(v, j)'
    BY <1>1, <1>11, <2>1 DEF ReverseLists, ByUser, Served
  <2>3. reverse[w].pc = "list"
    BY <1>11 DEF ReverseLists
  <2> QED BY <1>2, <1>3, <1>4, <1>6, <1>11, <2>2, <2>3 DEF ReverseLists
<1>12. CASE ReverseJudges(w)
  <2> DEFINE p == <<reverse[w].user, Head(reverse[w].todo)>>
  <2>1. /\ reverse[w].pc = "scan" /\ reverse[w].todo \in Seq(Job) /\ reverse[w].todo # <<>>
        /\ reverse[w].prefs.ver \in Version /\ Judged(p, reverse[w].prefs.ver) /\ embedQ' = embedQ
        /\ chunks' = chunks
    BY <1>2, <1>12 DEF ReverseJudges, ReverseBusy, ReverseState
  <2>2. p \in Pair
    BY <1>2, <2>1, HeadTailProperties DEF Pair, ReverseBusy
  <2> HIDE DEF p
  <2>3. considered'[p] >= reverse[w].prefs.ver /\ \A q \in Pair : considered'[q] >= considered[q]
    BY <2>1, <2>2, JudgedGrows
  <2>4. considered' \in [Pair -> Version]
    BY <1>2, <2>1, <2>2, Scanned DEF TypeIInv
  <2>5. considered'[<<v, j>>] \in Nat
    BY <1>2, <2>4 DEF Version
  <2>6. ASSUME ByUser(w, v, j) PROVE Served(v, j)'
    <3>1. /\ reverse[w].user = v /\ reverse[w].prefs.ver >= last[v]
          /\ j = Head(reverse[w].todo) \/ Among(j, Tail(reverse[w].todo))
      <4>1. Among(j, reverse[w].todo) <=> j = Head(reverse[w].todo) \/ Among(j, Tail(reverse[w].todo))
        BY <2>1, AmongLaws
      <4> QED BY <2>1, <2>6, <4>1 DEF ByUser
    <3>2. CASE j = Head(reverse[w].todo)
      <4>1. p = <<v, j>>
        BY <3>1, <3>2 DEF p
      <4>2. reverse[w].prefs.ver \in Nat
        BY <2>1 DEF Version
      <4> QED BY <1>1, <1>2, <2>3, <2>5, <3>1, <4>1, <4>2 DEF Served
    <3>3. CASE Among(j, Tail(reverse[w].todo))
      BY <1>1, <1>12, <3>1, <3>3 DEF ReverseJudges, Served, ByUser
    <3> QED BY <3>1, <3>2, <3>3
  <2> QED BY <1>2, <1>3, <1>4, <1>6, <2>1, <2>3, <2>5, <2>6
<1>13. CASE ReverseEnds(w)
  <2>1. reverse[w].pc = "scan" /\ reverse[w].todo = <<>> /\ UNCHANGED <<chunks, embedQ, considered>>
    BY <1>13 DEF ReverseEnds
  <2>2. ~Among(j, <<>>)
    BY DEF Among
  <2>3. ~ByUser(w, v, j)
    BY <2>1, <2>2 DEF ByUser
  <2> QED BY <1>2, <1>3, <1>4, <1>6, <2>1, <2>3
<1>14. CASE ReversePushes(w)
  <2>1. reverse[w].pc = "enqueue" /\ ~ByUser(w, v, j) /\ UNCHANGED <<chunks, embedQ, considered>>
    BY <1>14 DEF ReversePushes, ByUser
  <2> QED BY <1>2, <1>3, <1>4, <1>6, <2>1
<1> QED BY <1>1, <1>7, <1>8, <1>9, <1>10, <1>11, <1>12, <1>13, <1>14 DEF ReverseMoves

LEMMA ForwardJudged ==
    ASSUME TypeIInv, VersionsInv, JudgedInv, Undamaged', NEW w \in JobWorker, ForwardStep(w)
    PROVE  JudgedInv'
<1> SUFFICES ASSUME NEW v \in User, NEW j \in Job, Due(v, j)' PROVE Served(v, j)'
  BY DEF JudgedInv
<1>1. /\ ForwardMoves(w) /\ \A x \in JobWorker \ {w} : forward'[x] = forward[x]
      /\ UNCHANGED <<last, submit, stored, crawl, embedQ, reverse, prefs, profile, chunks>>
  BY ForwardSucceeds DEF ForwardFrame, apiVars, userVars
<1>2. /\ forward[w] \in ForwardState /\ ForwardBusy(forward[w]) /\ <<v, j>> \in Pair
      /\ \A q \in Pair : considered[q] \in Nat
      /\ last[v] \in Nat /\ processQ \in Seq(Job) /\ j # None
  BY MatchingAssumption DEF TypeIInv, TypeOK, Pair, Version
<1>3. Due(v, j)
  BY <1>1 DEF Due
<1>4. ASSUME considered'[<<v, j>>] >= considered[<<v, j>>], considered'[<<v, j>>] \in Nat,
             Among(j, processQ) => Served(v, j)',
             ByJob(w, v, j) => Served(v, j)'
      PROVE  Served(v, j)'
  <2>1. Served(v, j)
    BY <1>3 DEF JudgedInv
  <2>2. CASE considered[<<v, j>>] >= last[v]
    BY <1>1, <1>2, <1>4, <2>2 DEF Served
  <2>3. CASE Coming(v) \/ crawl = j \/ \E x \in EmbedWorker : ByUser(x, v, j)
    BY <1>1, <2>3 DEF Served, Coming, ByUser
  <2>4. CASE \E x \in JobWorker : ByJob(x, v, j)
    BY <1>1, <1>4, <2>4 DEF Served, ByJob
  <2> QED BY <1>4, <2>1, <2>2, <2>3, <2>4 DEF Served
<1>5. ASSUME processQ' = processQ, Among(j, processQ) PROVE Served(v, j)'
  BY <1>5 DEF Served
<1>6. CASE ForwardPops(w)
  <2>1. Among(j, processQ) => Served(v, j)'
    <3>1. Among(j, processQ) => Among(j, Front(processQ)) \/ j = Last(processQ)
      BY <1>2, <1>6, AmongLaws DEF ForwardPops
    <3> QED BY <1>6, <3>1 DEF ForwardPops, Served, ByJob
  <2>2. ~ByJob(w, v, j) /\ UNCHANGED considered
    BY <1>2, <1>6 DEF ForwardPops, ByJob, ForwardBusy, IdleForward
  <2> QED BY <1>2, <1>4, <2>1, <2>2
<1>7. CASE ForwardLists(w)
  <2>1. ASSUME ByJob(w, v, j) PROVE Served(v, j)'
    <3>1. CASE submit[v].pc \in {"load", "save"}
      BY <1>1, <3>1 DEF Served, Coming
    <3>2. CASE submit[v].pc \notin {"load", "save"}
      <4>1. Loaded(v).ver >= last[v] /\ v \in forward'[w].todo
        BY <1>3, <1>7, <3>2 DEF VersionsInv, Versions, ForwardLists, Due
      <4>2. forward'[w].job = j
        BY <1>7, <2>1 DEF ByJob, ForwardLists
      <4>3. forward'[w].prefs[v].ver >= last'[v]
        BY <1>1, <1>7, <4>1 DEF ForwardLists
      <4> QED BY <4>1, <4>2, <4>3 DEF Served, ByJob
    <3> QED BY <3>1, <3>2
  <2>2. UNCHANGED <<processQ, considered>>
    BY <1>7 DEF ForwardLists
  <2> QED BY <1>2, <1>4, <1>5, <2>1, <2>2
<1>8. ASSUME NEW u \in User, ForwardJudges(w, u) PROVE Served(v, j)'
  <2>1. /\ forward[w].pc = "scan" /\ u \in forward[w].todo /\ processQ' = processQ
        /\ Judged(<<u, forward[w].job>>, forward[w].prefs[u].ver)
    BY <1>8 DEF ForwardJudges
  <2>2. /\ forward[w].prefs[u].ver \in Version /\ <<u, forward[w].job>> \in Pair
    BY <1>2, <2>1 DEF ForwardBusy, Pair
  <2>3. /\ considered'[<<u, forward[w].job>>] >= forward[w].prefs[u].ver
        /\ \A q \in Pair : considered'[q] >= considered[q]
    BY <2>1, <2>2, JudgedGrows
  <2>4. considered' \in [Pair -> Version]
    BY <1>2, <2>1, <2>2, Scanned DEF TypeIInv
  <2>5. considered'[<<v, j>>] \in Nat
    BY <1>2, <2>4 DEF Version
  <2>6. ASSUME ByJob(w, v, j) PROVE Served(v, j)'
    <3>1. forward[w].job = j /\ v \in forward[w].todo /\ forward[w].prefs[v].ver >= last[v]
      BY <2>1, <2>6 DEF ByJob
    <3>2. CASE v = u
      <4>1. forward[w].prefs[u].ver \in Nat
        BY <2>2 DEF Version
      <4> QED BY <1>1, <1>2, <2>3, <2>5, <3>1, <3>2, <4>1 DEF Served
    <3>3. CASE v # u
      BY <1>1, <1>8, <3>1, <3>3 DEF ForwardJudges, Served, ByJob
    <3> QED BY <3>2, <3>3
  <2> QED BY <1>2, <1>4, <1>5, <2>1, <2>3, <2>5, <2>6
<1>9. CASE ForwardPushes(w)
  <2>1. ~ByJob(w, v, j) /\ UNCHANGED <<processQ, considered>>
    BY <1>9 DEF ForwardPushes, ByJob
  <2> QED BY <1>2, <1>4, <1>5, <2>1
<1> QED BY <1>1, <1>6, <1>7, <1>8, <1>9 DEF ForwardMoves

LEMMA OtherJudged ==
    ASSUME TypeIInv, VersionsInv, JudgedInv, Undamaged',
           (\E j \in Job : StoreJob(j)) \/ EnqueueProcessJob \/ (\E p \in Pair : Tailor(p))
           \/ UNCHANGED vars
    PROVE  VersionsInv' /\ JudgedInv'
<1> USE DEF apiVars, userVars, queueVars, vars
<1>1. UNCHANGED <<userVars, apiVars, reverse, forward, considered, embedQ>>
  BY DEF StoreJob, EnqueueProcessJob, Tailor
<1>2. VersionsInv'
  BY <1>1 DEF VersionsInv, Versions, Loaded
<1>3. stored \in Seq(Job) /\ processQ \in Seq(Job) /\ crawl \in Job \cup {None} /\ None \notin Job
      /\ ~Fails
  BY Outcomes, MatchingAssumption DEF TypeIInv, TypeOK
<1> SUFFICES ASSUME NEW v \in User, NEW j \in Job, Due(v, j)' PROVE Served(v, j)'
  BY <1>2 DEF JudgedInv
<1>4. ASSUME Due(v, j), crawl = j \/ Among(j, processQ) => crawl' = j \/ Among(j, processQ')
      PROVE  Served(v, j)'
  BY <1>1, <1>4 DEF JudgedInv, Served, Coming, ByUser, ByJob
<1>5. ASSUME NEW new \in Job, StoreJob(new) PROVE Served(v, j)'
  <2>1. stored' = Append(stored, new) /\ crawl = None /\ crawl' = new /\ processQ' = processQ
    BY <1>3, <1>5 DEF StoreJob
  <2>2. Among(j, Append(stored, new)) <=> Among(j, stored) \/ j = new
    BY <1>3, AmongLaws
  <2>3. CASE j = new
    BY <2>1, <2>3 DEF Served
  <2>4. CASE j # new
    <3>1. Due(v, j)
      BY <1>1, <2>1, <2>2, <2>4 DEF Due
    <3> QED BY <1>3, <1>4, <2>1, <3>1
  <2> QED BY <2>3, <2>4
<1>6. CASE EnqueueProcessJob
  <2>1. crawl \in Job /\ processQ' = Append(processQ, crawl) /\ stored' = stored
    BY <1>3, <1>6 DEF EnqueueProcessJob
  <2>2. Among(j, Append(processQ, crawl)) <=> Among(j, processQ) \/ j = crawl
    BY <1>3, <2>1, AmongLaws
  <2>3. Due(v, j)
    BY <1>1, <2>1 DEF Due
  <2> QED BY <1>4, <2>1, <2>2, <2>3
<1>7. CASE (\E p \in Pair : Tailor(p)) \/ UNCHANGED vars
  <2>1. UNCHANGED <<stored, crawl, processQ>>
    BY <1>7 DEF Tailor
  <2>2. Due(v, j)
    BY <1>1, <2>1 DEF Due
  <2> QED BY <1>4, <2>1, <2>2
<1> QED BY <1>5, <1>6, <1>7

LEMMA MissStep == Serial /\ TypeIInv /\ MissInv /\ [Next]_vars => MissInv'
<1> SUFFICES ASSUME Serial, TypeIInv, MissInv, [Next]_vars, Undamaged' PROVE VersionsInv' /\ JudgedInv'
  BY DEF MissInv
<1>1. VersionsInv /\ JudgedInv /\ ~Crash
  BY Unhurt DEF MissInv
<1>2. ASSUME NEW w \in EmbedWorker, ReverseStep(w) PROVE VersionsInv' /\ JudgedInv'
  <2>1. UNCHANGED <<profile, prefs, apiVars>>
    BY <1>2, ReverseSucceeds DEF ReverseFrame
  <2>2. VersionsInv'
    BY <1>1, <2>1 DEF apiVars, VersionsInv, Versions, Loaded
  <2> QED BY <1>1, <1>2, <2>2, ReverseJudged
<1>3. ASSUME NEW w \in JobWorker, ForwardStep(w) PROVE VersionsInv' /\ JudgedInv'
  <2>1. UNCHANGED <<profile, prefs, apiVars>>
    BY <1>3, ForwardSucceeds DEF ForwardFrame, userVars
  <2>2. VersionsInv'
    BY <1>1, <2>1 DEF apiVars, VersionsInv, Versions, Loaded
  <2> QED BY <1>1, <1>3, <2>2, ForwardJudged
<1> QED BY <1>1, <1>2, <1>3, RequestJudged, OtherJudged DEF Next

LEMMA MissInit == Init => MissInv
<1> SUFFICES ASSUME Init PROVE VersionsInv /\ JudgedInv
  BY DEF MissInv
<1>1. /\ \A u \in User : last[u] = 0 /\ profile[u] = NoProfile /\ prefs[u] = NoPrefs
      /\ \A u \in User : submit[u] = IdleSubmit /\ settings[u] = IdleSettings
  BY DEF Init
<1>2. VersionsInv
  BY <1>1 DEF VersionsInv, Versions, Loaded, NoProfile, NoPrefs, IdleSubmit, IdleSettings
<1>3. JudgedInv
  BY <1>1 DEF JudgedInv, Due
<1> QED BY <1>2, <1>3

\* Users' and jobs' matchers never both miss a pair, and no new match goes
\* unpushed: with any number of matchers, in any interleaving of submits,
\* drafts, crawls and matchers, when the work is done and nothing failed.  Only
\* settings changes must not overlap the requests of the same user: one that
\* does may write older preferences back.
THEOREM NothingIsMissed == Serial => (Spec => []NothingMissed)
<1> SUFFICES ASSUME Serial PROVE Spec => []NothingMissed
  OBVIOUS
<1>1. TypeIInv /\ MissInv => NoPairMissed
  <2> SUFFICES ASSUME TypeIInv, MissInv, Quiet, Undamaged, NEW u \in User,
                      NEW i \in 1..Len(stored), chunks[u].ver > 0
               PROVE  considered[<<u, stored[i]>>] >= last[u]
    BY DEF NoPairMissed
  <2>1. PICK j \in Job : j = stored[i]
    BY DEF TypeIInv, TypeOK
  <2>2. last[u] \in Nat /\ considered[<<u, j>>] \in Nat /\ j # None
    BY MatchingAssumption DEF TypeIInv, TypeOK, Pair, Version
  <2>3. /\ ~Coming(u) /\ crawl # j /\ ~Among(j, processQ)
        /\ \A w \in EmbedWorker : ~ByUser(w, u, j)
        /\ \A w \in JobWorker : ~ByJob(w, u, j)
    <3>1. \A x : ~Among(x, <<>>)
      BY DEF Among
    <3>2. \A w \in JobWorker : forward[w].todo = {} /\ forward[w].pc = "idle"
      BY DEF Quiet, TypeIInv, ForwardBusy
    <3> QED BY <2>2, <3>1, <3>2 DEF Quiet, Coming, ByUser, ByJob
  <2>4. CASE last[u] > 0
    BY <2>1, <2>3, <2>4 DEF MissInv, JudgedInv, Due, Among, Served
  <2> QED BY <2>1, <2>2, <2>4
<1>2. TypeIInv => TypeOK
  BY DEF TypeIInv
<1> QED BY <1>1, <1>2, MissInit, MissStep, MatchingTypes, NoMatchOrphaned, PTL DEF Spec, NothingMissed

-----------------------------------------------------------------------------
(* Pending matches are those of the preferences in force.                   *)

\* New settings are saved while a submit holds the ones before them, which it
\* will save in its turn: the lost update.
LostUpdate(u) == SettingsSave(u) /\ submit[u].pc = "save"
\* Preferences are saved while the user's other request or a matcher still goes
\* by the ones before them.
Overtakes(u) ==
    \/ LostUpdate(u)
    \/ SubmitSave(u) /\ settings[u].pc = "save"
    \/ (SubmitSave(u) \/ SettingsSave(u)) /\ Straddled(u)

\* Whoever has been submitted, embedded or matched has stored preferences.
Known(u) ==
    \/ Among(u, embedQ) \/ chunks[u].ver > 0 \/ submit[u].pc \in {"delete", "enqueue"}
    \/ \E w \in EmbedWorker : reverse[w].user = u
    \/ \E w \in JobWorker : u \in forward[w].todo
    \/ \E p \in Pair : p[1] = u /\ row[p].live

\* What a request of u has in hand; the settings in force are those chosen last.
InHand(u) ==
    /\ Known(u) => prefs[u].ver # -1
    /\ prefs[u].set = chosen[u]
    /\ submit[u].pc # "idle" => submit[u].prefs.ver >= 1
    /\ submit[u].pc = "save" => submit[u].prefs.set = chosen[u]
    /\ settings[u].pc = "save" => /\ settings[u].prefs.ver >= 0
                                  /\ prefs[u].ver # -1 => settings[u].prefs.ver = prefs[u].ver
    /\ settings[u].pc \notin {"idle", "save"} => settings[u].prefs.set = prefs[u].set
    /\ settings[u].pc \in {"tier", "drop"} => prefs[u].set.mode = "strong_only"
    /\ settings[u].pc \in {"stretch", "dropStretch"} => ~prefs[u].set.stretch

\* What a matcher has loaded is in force until it is done with the user.
ReverseCurrent(w) ==
    /\ reverse[w].pc \in {"list", "scan"} => reverse[w].prefs = prefs[reverse[w].user]
    /\ \A p \in Pair, k \in Kind : <<p, k>> \in reverse[w].tx =>
         p[1] = reverse[w].user /\ Allowed(reverse[w].prefs.set, k)
ForwardCurrent(w) == \A u \in forward[w].todo : forward[w].prefs[u] = prefs[u]

\* The pending row of p between the steps of a request of its user.
IsPending(p) == row[p].live /\ ~row[p].app
PendingOK(p) ==
    LET u == p[1] IN
    submit[u].pc # "delete" =>
      /\ row[p].ver = prefs[u].ver
      /\ settings[u].pc \in {"idle", "save"} => Allowed(prefs[u].set, row[p].kind)
      /\ settings[u].pc = "drop" =>
           row[p].kind = "strong" \/ <<p, row[p].gen>> \in settings[u].ids
      /\ settings[u].pc \in {"stretch", "dropStretch"} /\ prefs[u].set.mode = "strong_only" =>
           row[p].kind = "strong"
      /\ settings[u].pc = "dropStretch" /\ row[p].kind = "stretch" =>
           <<p, row[p].gen>> \in settings[u].ids

Current ==
    /\ \A u \in User : InHand(u)
    /\ \A w \in EmbedWorker : ReverseCurrent(w)
    /\ \A w \in JobWorker : ForwardCurrent(w)
    /\ \A p \in Pair : IsPending(p) => PendingOK(p)
CurrentInv == Undamaged => Current

\* What a request must show, given that it is one user's.
LEMMA RequestKeeps ==
    ASSUME TypeIInv, Current, NEW u \in User, Private(u),
           \A p \in Pair : row'[p].live => row'[p] = row[p],
           prefs'[u] = prefs[u] \/ ~Straddled(u),
           InHand(u)',
           \A p \in Pair : p[1] = u /\ IsPending(p) /\ row'[p] = row[p] => PendingOK(p)'
    PROVE  Current'
<1>1. \A w \in EmbedWorker : reverse[w].pc # "idle" => reverse[w].user \in User
  BY DEF TypeIInv, ReverseBusy
<1>2. ASSUME NEW v \in User \ {u} PROVE InHand(v)'
  <2>1. InHand(v)
    BY DEF Current
  <2>3. Known(v)' => Known(v)
    <3>1. embedQ \in Seq(User)
      BY DEF TypeIInv, TypeOK
    <3>2. Among(v, Append(embedQ, u)) <=> Among(v, embedQ) \/ v = u
      BY <3>1, AmongLaws
    <3>3. Among(v, embedQ') => Among(v, embedQ)
      BY <3>2 DEF Private
    <3> QED BY <3>3 DEF Known, Private
  <2>4. InHand(v)'
    BY <2>1, <2>3 DEF InHand, Private
  <2> QED BY <2>4
<1>3. ASSUME NEW w \in EmbedWorker PROVE ReverseCurrent(w)'
  <2>1. ReverseCurrent(w) /\ reverse'[w] = reverse[w]
    BY DEF Current, Private
  <2>2. reverse[w].pc \in {"list", "scan"} => prefs'[reverse[w].user] = prefs[reverse[w].user]
    BY <1>1 DEF Private, Straddled
  <2> QED BY <2>1, <2>2 DEF ReverseCurrent
<1>4. ASSUME NEW w \in JobWorker PROVE ForwardCurrent(w)'
  <2>1. ForwardCurrent(w) /\ forward'[w] = forward[w] /\ forward[w] \in ForwardState
    BY DEF Current, Private, TypeIInv, TypeOK
  <2>2. \A v \in forward[w].todo : v \in User /\ prefs'[v] = prefs[v]
    BY <2>1 DEF Private, Straddled, ForwardState
  <2> QED BY <2>1, <2>2 DEF ForwardCurrent
<1>5. ASSUME NEW p \in Pair, IsPending(p)' PROVE PendingOK(p)'
  <2>1. row'[p] = row[p] /\ IsPending(p) /\ PendingOK(p) /\ p[1] \in User
    BY <1>5 DEF IsPending, Current, Pair
  <2>2. CASE p[1] = u
    BY <2>1, <2>2
  <2>3. CASE p[1] # u
    BY <2>1, <2>3 DEF PendingOK, Private
  <2> QED BY <2>2, <2>3
<1> QED BY <1>2, <1>3, <1>4, <1>5 DEF Current

\* What a step of a matcher must show.
LEMMA MatcherKeeps ==
    ASSUME TypeIInv, Current, UNCHANGED <<prefs, chosen, submit, settings>>,
           \A u \in User : Known(u)' => Known(u),
           \A w \in EmbedWorker : ReverseCurrent(w)',
           \A w \in JobWorker : ForwardCurrent(w)',
           \A p \in Pair : IsPending(p)' =>
             \/ /\ IsPending(p) /\ row'[p].ver = row[p].ver
                /\ row'[p].kind = row[p].kind /\ row'[p].gen = row[p].gen
             \/ /\ row'[p].ver = prefs[p[1]].ver /\ Allowed(prefs[p[1]].set, row'[p].kind)
    PROVE  Current'
<1>1. ASSUME NEW u \in User PROVE InHand(u)'
  BY DEF Current, InHand
<1>2. ASSUME NEW p \in Pair, IsPending(p)' PROVE PendingOK(p)'
  <2>1. CASE /\ IsPending(p) /\ row'[p].ver = row[p].ver
             /\ row'[p].kind = row[p].kind /\ row'[p].gen = row[p].gen
    BY <2>1 DEF Current, PendingOK
  <2>2. CASE row'[p].ver = prefs[p[1]].ver /\ Allowed(prefs[p[1]].set, row'[p].kind)
    <3>1. p[1] \in User /\ InHand(p[1])
      BY DEF Pair, Current
    <3> QED BY <2>2, <3>1 DEF PendingOK, InHand, Allowed
  <2> QED BY <1>2, <2>1, <2>2
<1> QED BY <1>1, <1>2 DEF Current

\* Deleting rows leaves the others as they are.
LEMMA DeletesOnly ==
    ASSUME TypeIInv, NEW ids, row' = Deleted(ids)
    PROVE  \A p \in Pair : row'[p].live => row'[p] = row[p] /\ <<p, row[p].gen>> \notin ids
<1>1. Rows(row) /\ \A p \in Pair : row[p].gen \in Nat
  BY DEF TypeIInv, TypeOK, Rows, Match
<1> QED BY <1>1, DeletedRows, NoMatchType

LEMMA RequestCurrent ==
    ASSUME TypeIInv, Current, Undamaged', NEW u \in User, ~Overtakes(u),
           SaveDraft(u) \/ SubmitProfile(u) \/ PatchSettings(u) \/ Request(u)
    PROVE  Current'
<1> USE DEF apiVars, userVars, queueVars
<1>1. /\ InHand(u) /\ Private(u) /\ ~Fails
      /\ profile \in [User -> Profile] /\ prefs \in [User -> Prefs] /\ chosen \in [User -> Settings]
      /\ submit \in [User -> SubmitState] /\ settings \in [User -> SettingsState]
      /\ submit[u] \in SubmitState /\ settings[u] \in SettingsState /\ profile[u] \in Profile
      /\ prefs[u] \in Prefs /\ TypeOK
      /\ \A p \in Pair : row[p] \in Match
  BY RequestIsPrivate, Outcomes DEF Current, TypeIInv, TypeOK
<1>2. \A p \in Pair : p[1] = u /\ IsPending(p) => PendingOK(p) /\ Known(u)
  BY DEF Current, IsPending, Known
<1>4. ASSUME \A p \in Pair : row'[p].live => row'[p] = row[p], embedQ' = embedQ,
             submit'[u].pc \notin {"delete", "enqueue"} \/ submit[u].pc \in {"delete", "enqueue"}
      PROVE  Known(u)' => Known(u)
  BY <1>1, <1>4 DEF Known, Private
<1>5. CASE SaveDraft(u)
  <2>1. /\ UNCHANGED <<prefs, chosen, submit, settings, row, embedQ>>
    BY <1>5 DEF SaveDraft
  <2>2. InHand(u)'
    BY <1>1, <1>4, <2>1 DEF InHand
  <2>3. \A p \in Pair : p[1] = u /\ IsPending(p) => PendingOK(p)'
    BY <1>2, <2>1 DEF PendingOK
  <2> QED BY <1>1, <2>1, <2>2, <2>3, RequestKeeps
<1>6. CASE SubmitProfile(u)
  <2> DEFINE ver == profile[u].ver + 1
  <2>1. PICK c \in BOOLEAN : submit' = [submit EXCEPT ![u] =
              [pc |-> "load", prefs |-> [NoPrefs EXCEPT !.ver = ver], complete |-> c]]
    BY <1>6 DEF SubmitProfile
  <2>2. ver >= 1
    BY <1>1 DEF Profile, Version
  <2> HIDE DEF ver
  <2>3. submit'[u].pc = "load" /\ submit'[u].prefs.ver = ver
    BY <1>1, <2>1 DEF NoPrefs
  <2>4. /\ UNCHANGED <<prefs, chosen, settings, row, embedQ>> /\ submit[u].pc = "idle"
    BY <1>6 DEF SubmitProfile
  <2>5. InHand(u)'
    BY <1>1, <1>4, <2>2, <2>3, <2>4 DEF InHand
  <2>6. \A p \in Pair : p[1] = u /\ IsPending(p) => PendingOK(p)'
    BY <1>2, <2>3, <2>4 DEF PendingOK
  <2> QED BY <1>1, <2>4, <2>5, <2>6, RequestKeeps
<1>7. CASE SubmitLoad(u)
  <2>1. /\ UNCHANGED <<prefs, chosen, settings, row, embedQ>> /\ submit[u].pc = "load"
        /\ submit' = [submit EXCEPT ![u].pc = "save", ![u].prefs.set = Loaded(u).set]
    BY <1>1, <1>7 DEF SubmitLoad
  <2>2. /\ submit'[u].pc = "save" /\ submit'[u].prefs.set = Loaded(u).set
        /\ submit'[u].prefs.ver = submit[u].prefs.ver
    BY <1>1, <2>1 DEF SubmitState, Prefs
  <2>3. Loaded(u).set = prefs[u].set
    BY LoadedType DEF TypeIInv
  <2>4. InHand(u)'
    BY <1>1, <1>4, <2>1, <2>2, <2>3 DEF InHand
  <2>5. \A p \in Pair : p[1] = u /\ IsPending(p) => PendingOK(p)'
    BY <1>2, <2>1, <2>2 DEF PendingOK
  <2> QED BY <1>1, <2>1, <2>4, <2>5, RequestKeeps
<1>8. CASE SubmitSave(u)
  <2>1. /\ UNCHANGED <<chosen, settings, row, embedQ>> /\ submit[u].pc = "save"
        /\ prefs' = [prefs EXCEPT ![u] = submit[u].prefs]
        /\ submit' = [submit EXCEPT ![u].pc = "delete"]
    BY <1>1, <1>8 DEF SubmitSave
  <2>2. prefs'[u] = submit[u].prefs /\ submit'[u].pc = "delete" /\ submit'[u].prefs = submit[u].prefs
    BY <1>1, <2>1 DEF SubmitState
  <2>3. submit[u].prefs.ver >= 1 /\ submit[u].prefs.ver # -1 /\ submit[u].prefs.set = chosen[u]
        /\ settings[u].pc # "save" /\ ~Straddled(u)
    BY <1>1, <1>8, <2>1 DEF InHand, Overtakes
  <2>4. InHand(u)'
    BY <1>1, <2>1, <2>2, <2>3 DEF InHand
  <2>5. \A p \in Pair : p[1] = u /\ IsPending(p) => PendingOK(p)'
    BY <1>2, <2>1, <2>2, <2>3 DEF PendingOK
  <2> QED BY <1>1, <2>1, <2>3, <2>4, <2>5, RequestKeeps
<1>9. CASE SubmitDelete(u)
  <2>1. /\ UNCHANGED <<prefs, chosen, settings, embedQ>> /\ submit[u].pc = "delete"
        /\ row' = Deleted(Pending(u)) /\ submit' = [submit EXCEPT ![u].pc = "enqueue"]
    BY <1>1, <1>9 DEF SubmitDelete
  <2>2. submit'[u].pc = "enqueue" /\ submit'[u].prefs = submit[u].prefs
    BY <1>1, <2>1 DEF SubmitState
  <2>3. \A p \in Pair : row'[p].live => row'[p] = row[p] /\ <<p, row[p].gen>> \notin Pending(u)
    BY <2>1, DeletesOnly
  <2>4. InHand(u)'
    BY <1>1, <1>4, <2>1, <2>2, <2>3 DEF InHand
  <2>5. \A p \in Pair : p[1] = u /\ IsPending(p) => row'[p] # row[p]
    BY <2>3 DEF Pending, IsPending
  <2> QED BY <1>1, <2>1, <2>3, <2>4, <2>5, RequestKeeps
<1>10. CASE SubmitEnqueue(u)
  <2>1. /\ UNCHANGED <<prefs, chosen, settings, row>> /\ submit[u].pc = "enqueue"
        /\ submit'[u] = IdleSubmit /\ submit'[u].pc = "idle"
    BY <1>1, <1>10 DEF SubmitEnqueue, IdleSubmit
  <2>2. prefs[u].ver # -1
    BY <1>1, <2>1 DEF InHand, Known
  <2>3. InHand(u)'
    BY <1>1, <2>1, <2>2 DEF InHand
  <2>4. \A p \in Pair : p[1] = u /\ IsPending(p) => PendingOK(p)'
    BY <1>2, <2>1 DEF PendingOK
  <2> QED BY <1>1, <2>1, <2>3, <2>4, RequestKeeps
<1>11. CASE PatchSettings(u)
  <2>1. PICK set \in Settings : settings' = [settings EXCEPT ![u].pc = "save",
                                          ![u].prefs = [Loaded(u) EXCEPT !.set = set]]
    BY <1>1, <1>11 DEF PatchSettings
  <2>2. /\ UNCHANGED <<prefs, chosen, submit, row, embedQ>> /\ settings[u].pc = "idle"
    BY <1>11 DEF PatchSettings
  <2>3. Loaded(u) \in Prefs /\ Loaded(u).ver \in Version /\ (prefs[u].ver # -1 => Loaded(u) = prefs[u])
    BY LoadedType DEF TypeIInv
  <2>4. settings'[u].pc = "save" /\ settings'[u].prefs.ver = Loaded(u).ver
    BY <1>1, <2>1, <2>3 DEF SettingsState, Prefs
  <2>5. settings'[u].prefs.ver >= 0 /\ (prefs[u].ver # -1 => settings'[u].prefs.ver = prefs[u].ver)
    BY <2>3, <2>4 DEF Version
  <2>6. InHand(u)'
    BY <1>1, <1>4, <2>2, <2>4, <2>5 DEF InHand
  <2>7. \A p \in Pair : p[1] = u /\ IsPending(p) => PendingOK(p)'
    BY <1>2, <2>2, <2>4 DEF PendingOK
  <2> QED BY <1>1, <2>2, <2>6, <2>7, RequestKeeps
<1>12. CASE SettingsSave(u)
  <2> DEFINE new == settings[u].prefs
             next == IF new.set.mode = "strong_only" THEN "tier" ELSE AfterTier(u)
  <2>1. /\ UNCHANGED <<submit, row, embedQ>> /\ settings[u].pc = "save"
        /\ prefs' = [prefs EXCEPT ![u] = new] /\ chosen' = [chosen EXCEPT ![u] = new.set]
        /\ SettingsGoto(u, next, {})
    BY <1>1, <1>12 DEF SettingsSave
  <2>2. prefs'[u] = new /\ chosen'[u] = new.set /\ new.set \in Settings
    BY <1>1, <2>1 DEF SettingsState, Prefs
  <2>3. /\ next \in {"idle", "tier", "stretch"}
        /\ next = "tier" => new.set.mode = "strong_only"
        /\ next # "tier" => new.set.mode = "strong_and_promising"
        /\ next = "stretch" => ~new.set.stretch
        /\ next = "idle" => new.set.stretch
    BY <2>2 DEF AfterTier, Settings, Mode
  <2> HIDE DEF next
  <2>4. settings'[u].pc = next /\ (next # "idle" => settings'[u].prefs = new)
    BY <1>1, <2>1, SettingsGoes
  <2> HIDE DEF new
  <2>5. /\ submit[u].pc # "save" /\ ~Straddled(u) /\ new.ver >= 0 /\ new.ver # -1
        /\ prefs[u].ver # -1 => new.ver = prefs[u].ver
    BY <1>1, <1>12, <2>1 DEF Overtakes, LostUpdate, InHand, new
  <2>6. InHand(u)'
    BY <1>1, <2>1, <2>2, <2>3, <2>4, <2>5 DEF InHand
  <2>7. ASSUME NEW p \in Pair, p[1] = u, IsPending(p) PROVE PendingOK(p)'
    <3>1. submit[u].pc # "delete" => row[p].ver = new.ver
      BY <1>1, <1>2, <2>5, <2>7 DEF PendingOK, InHand
    <3>2. next = "idle" => Allowed(new.set, row[p].kind)
      BY <2>3 DEF Allowed
    <3> QED BY <2>1, <2>2, <2>3, <2>4, <2>5, <2>7, <3>1, <3>2 DEF PendingOK
  <2> QED BY <1>1, <2>1, <2>5, <2>6, <2>7, RequestKeeps
<1>13. ASSUME settings[u].pc \notin {"idle", "save"}, NEW pc, NEW ids, SettingsGoto(u, pc, ids),
              UNCHANGED <<prefs, chosen, submit, embedQ>>,
              \A p \in Pair : row'[p].live => row'[p] = row[p],
              pc \in {"idle", "drop", "stretch", "dropStretch"},
              pc = "drop" => prefs[u].set.mode = "strong_only",
              pc \in {"stretch", "dropStretch"} => ~prefs[u].set.stretch,
              \A p \in Pair :
                p[1] = u /\ IsPending(p) /\ row'[p] = row[p] /\ submit[u].pc # "delete" =>
                /\ pc = "idle" => Allowed(prefs[u].set, row[p].kind)
                /\ pc = "drop" => row[p].kind = "strong" \/ <<p, row[p].gen>> \in ids
                /\ pc \in {"stretch", "dropStretch"} /\ prefs[u].set.mode = "strong_only" =>
                     row[p].kind = "strong"
                /\ pc = "dropStretch" /\ row[p].kind = "stretch" => <<p, row[p].gen>> \in ids
       PROVE  Current'
  <2>1. /\ settings'[u].pc = pc
        /\ pc # "idle" => settings'[u].prefs = settings[u].prefs /\ settings'[u].ids = ids
    BY <1>1, <1>13, SettingsGoes
  <2>2. settings[u].prefs.set = prefs[u].set
    BY <1>1, <1>13 DEF InHand
  <2>3. InHand(u)'
    BY <1>1, <1>4, <1>13, <2>1, <2>2 DEF InHand
  <2>4. ASSUME NEW p \in Pair, p[1] = u, IsPending(p), row'[p] = row[p] PROVE PendingOK(p)'
    <3>1. submit[u].pc # "delete" => row[p].ver = prefs[u].ver
      BY <1>2, <2>4 DEF PendingOK
    <3> QED BY <1>13, <2>1, <2>4, <3>1 DEF PendingOK
  <2> QED BY <1>1, <1>13, <2>3, <2>4, RequestKeeps
<1>14. ASSUME settings[u].pc \notin {"idle", "save"}
       PROVE  /\ AfterTier(u) \in {"idle", "stretch"} /\ prefs[u].set \in Settings
              /\ AfterTier(u) = "stretch" <=> ~prefs[u].set.stretch
  BY <1>1, <1>14 DEF AfterTier, InHand, Prefs
<1>15. CASE DeletePendingPromisingMatches(u)
  <2>1. CASE SelectPurge(u, "tier", {"promising", "stretch"}, "drop", AfterTier(u))
    <3> DEFINE ids == OfKind(Pending(u), {"promising", "stretch"})
    <3>1. /\ settings[u].pc = "tier" /\ SettingsGoto(u, "drop", ids)
          /\ UNCHANGED <<prefs, chosen, submit, embedQ, row>>
      BY <1>1, <2>1 DEF SelectPurge
    <3>2. ASSUME NEW p \in Pair, p[1] = u, IsPending(p)
          PROVE  row[p].kind = "strong" \/ <<p, row[p].gen>> \in ids
      BY <1>1, <3>2 DEF OfKind, Pending, IsPending, Match, Kind
    <3> HIDE DEF ids
    <3>3. prefs[u].set.mode = "strong_only"
      BY <1>1, <3>1 DEF InHand
    <3> QED BY <1>13, <3>1, <3>2, <3>3
  <2>2. CASE DeletePurge(u, "drop", AfterTier(u))
    <3>1. /\ settings[u].pc = "drop" /\ SettingsGoto(u, AfterTier(u), {})
          /\ UNCHANGED <<prefs, chosen, submit, embedQ>> /\ row' = Deleted(settings[u].ids)
      BY <1>1, <2>2 DEF DeletePurge
    <3>2. \A p \in Pair : row'[p].live => row'[p] = row[p] /\ <<p, row[p].gen>> \notin settings[u].ids
      BY <3>1, DeletesOnly
    <3>3. ASSUME NEW p \in Pair, p[1] = u, IsPending(p), row'[p] = row[p], submit[u].pc # "delete"
          PROVE  row[p].kind = "strong"
      BY <1>2, <3>1, <3>2, <3>3 DEF PendingOK, IsPending
    <3>4. \A p \in Pair : row[p].kind = "strong" => Allowed(prefs[u].set, row[p].kind)
      BY DEF Allowed
    <3> QED BY <1>13, <1>14, <3>1, <3>2, <3>3, <3>4, ZenonT(30)
  <2> QED BY <1>15, <2>1, <2>2 DEF DeletePendingPromisingMatches
<1>16. CASE DeletePendingStretchMatches(u)
  <2>1. CASE SelectPurge(u, "stretch", {"stretch"}, "dropStretch", "idle")
    <3> DEFINE ids == OfKind(Pending(u), {"stretch"})
    <3>1. /\ settings[u].pc = "stretch" /\ SettingsGoto(u, "dropStretch", ids)
          /\ UNCHANGED <<prefs, chosen, submit, embedQ, row>>
      BY <1>1, <2>1 DEF SelectPurge
    <3>2. ASSUME NEW p \in Pair, p[1] = u, IsPending(p)
          PROVE  /\ submit[u].pc # "delete" /\ prefs[u].set.mode = "strong_only" =>
                      row[p].kind = "strong"
                 /\ row[p].kind = "stretch" => <<p, row[p].gen>> \in ids
      BY <1>2, <3>1, <3>2 DEF OfKind, Pending, IsPending, PendingOK
    <3> HIDE DEF ids
    <3>3. ~prefs[u].set.stretch
      BY <1>1, <3>1 DEF InHand
    <3> QED BY <1>13, <3>1, <3>2, <3>3
  <2>2. CASE DeletePurge(u, "dropStretch", "idle")
    <3>1. /\ settings[u].pc = "dropStretch" /\ SettingsGoto(u, "idle", {})
          /\ UNCHANGED <<prefs, chosen, submit, embedQ>> /\ row' = Deleted(settings[u].ids)
      BY <1>1, <2>2 DEF DeletePurge
    <3>2. \A p \in Pair : row'[p].live => row'[p] = row[p] /\ <<p, row[p].gen>> \notin settings[u].ids
      BY <3>1, DeletesOnly
    <3>3. prefs[u].set.mode \in {"strong_only", "strong_and_promising"}
      BY <1>1 DEF Prefs, Settings, Mode
    <3>4. ASSUME NEW p \in Pair, p[1] = u, IsPending(p), row'[p] = row[p], submit[u].pc # "delete"
          PROVE  Allowed(prefs[u].set, row[p].kind)
      <4>1. row[p].kind # "stretch" /\ (prefs[u].set.mode = "strong_only" => row[p].kind = "strong")
        <5>1. PendingOK(p) /\ <<p, row[p].gen>> \notin settings[u].ids
          BY <1>2, <3>2, <3>4 DEF IsPending
        <5>2. ~(row[p].kind = "stretch")
          BY <3>1, <3>4, <5>1 DEF PendingOK
        <5>3. prefs[u].set.mode = "strong_only" => row[p].kind = "strong"
          BY <3>1, <3>4, <5>1 DEF PendingOK
        <5> QED BY <5>2, <5>3
      <4> QED BY <3>3, <4>1 DEF Allowed
    <3>5. settings[u].pc \notin {"idle", "save"} /\ \A p \in Pair : row'[p].live => row'[p] = row[p]
      BY <3>1, <3>2
    <3> DEFINE pc == "idle"
    <3>6. pc = "idle" /\ SettingsGoto(u, pc, {})
      BY <3>1
    <3> HIDE DEF pc
    <3> QED BY <1>13, <3>1, <3>4, <3>5, <3>6
  <2> QED BY <1>16, <2>1, <2>2 DEF DeletePendingStretchMatches
<1> QED BY <1>5, <1>6, <1>7, <1>8, <1>9, <1>10, <1>11, <1>12, <1>15, <1>16 DEF Request

\* A pushed row is the same match.
LEMMA PushesOnly ==
    ASSUME TypeIInv, row' = row \/ \E id \in Pair \X Nat : row' = Pushes(id, 1)
    PROVE  \A p \in Pair : /\ row'[p].live = row[p].live /\ row'[p].app = row[p].app
                           /\ row'[p].ver = row[p].ver /\ row'[p].kind = row[p].kind
                           /\ row'[p].gen = row[p].gen
<1>1. Rows(row) /\ \A p \in Pair : row[p] \in Match
  BY DEF TypeIInv, TypeOK, Rows
<1>2. ASSUME NEW id \in Pair \X Nat, row' = Pushes(id, 1), NEW p \in Pair
      PROVE  row'[p] = row[p] \/ row'[p] = [row[p] EXCEPT !.queued = @ + 1]
  BY <1>1, <1>2, PushedRows, ZenonT(30)
<1>3. \A p \in Pair : row'[p] = row[p] \/ row'[p] = [row[p] EXCEPT !.queued = @ + 1]
  BY <1>2
<1> QED BY <1>1, <1>3 DEF Match

LEMMA InsertedPending ==
    ASSUME TypeIInv, NEW p \in Pair, NEW kind \in Kind, NEW ver \in Version,
           row'[p] = Inserted(p, kind, ver)
    PROVE  \/ row'[p] = row[p] /\ row[p].live
           \/ ~row[p].live /\ row'[p].ver = ver /\ row'[p].kind = kind
<1>1. Rows(row)
  BY DEF TypeIInv, TypeOK, Rows
<1> QED BY <1>1, InsertedRow

LEMMA ReverseKeepsCurrent ==
    ASSUME TypeIInv, Current, Undamaged', NEW w \in EmbedWorker, ReverseStep(w)
    PROVE  Current'
<1>1. /\ ReverseMoves(w) /\ \A x \in EmbedWorker \ {w} : reverse'[x] = reverse[x]
      /\ UNCHANGED <<submit, settings, prefs, chosen, forward, stored, profile>>
  BY ReverseSucceeds DEF ReverseFrame, apiVars
<1>2. /\ reverse[w] \in ReverseState /\ ReverseBusy(reverse[w]) /\ ReverseCurrent(w)
      /\ embedQ \in Seq(User) /\ chunks \in [User -> Profile] /\ None \notin User
      /\ \A u \in User : InHand(u)
      /\ \A p \in Pair : p[1] \in User
  BY MatchingAssumption DEF TypeIInv, TypeOK, Current, Pair
<1>3. \A x \in JobWorker : ForwardCurrent(x)'
  BY <1>1 DEF Current, ForwardCurrent
<1>4. \A x \in EmbedWorker \ {w} : ReverseCurrent(x)'
  BY <1>1 DEF Current, ReverseCurrent
\* A step that leaves the rows alone.
<1>6. ASSUME ReverseCurrent(w)',
             \/ reverse'[w].user = reverse[w].user
             \/ reverse'[w].user = None
             \/ reverse'[w].user \in User /\ Known(reverse'[w].user),
             \A u \in User : Among(u, embedQ') => Among(u, embedQ),
             \A u \in User : chunks'[u].ver > 0 => Known(u),
             \A p \in Pair : row'[p].live => Known(p[1]),
             \A p \in Pair : IsPending(p)' =>
               \/ /\ IsPending(p) /\ row'[p].ver = row[p].ver
                  /\ row'[p].kind = row[p].kind /\ row'[p].gen = row[p].gen
               \/ /\ row'[p].ver = prefs[p[1]].ver /\ Allowed(prefs[p[1]].set, row'[p].kind)
      PROVE  Current'
  <2>1. ASSUME NEW u \in User, Known(u)' PROVE Known(u)
    <3>1. CASE Among(u, embedQ') \/ chunks'[u].ver > 0 \/ submit'[u].pc \in {"delete", "enqueue"}
      BY <1>1, <1>6, <3>1 DEF Known
    <3>2. CASE \E x \in EmbedWorker : reverse'[x].user = u
      BY <1>1, <1>2, <1>6, <3>2 DEF Known
    <3>3. CASE \E x \in JobWorker : u \in forward'[x].todo
      BY <1>1, <3>3 DEF Known
    <3>4. CASE \E p \in Pair : p[1] = u /\ row'[p].live
      BY <1>6, <3>4
    <3> QED BY <2>1, <3>1, <3>2, <3>3, <3>4 DEF Known
  <2>2. \A x \in EmbedWorker : ReverseCurrent(x)'
    BY <1>4, <1>6
  <2> QED BY <1>1, <1>3, <1>6, <2>1, <2>2, MatcherKeeps
<1>7. ASSUME row' = row
      PROVE  /\ \A p \in Pair : row'[p].live => Known(p[1])
             /\ \A p \in Pair : IsPending(p)' =>
                  /\ IsPending(p) /\ row'[p].ver = row[p].ver
                  /\ row'[p].kind = row[p].kind /\ row'[p].gen = row[p].gen
  BY <1>7 DEF Known, IsPending
<1>8. \A u \in User : chunks[u].ver > 0 => Known(u)
  BY DEF Known
<1>9. CASE ReversePops(w)
  <2>1. embedQ # <<>> /\ embedQ' = Front(embedQ) /\ reverse'[w].user = Last(embedQ)
        /\ reverse'[w].pc = "read" /\ reverse'[w].tx = {} /\ UNCHANGED <<chunks, row>>
    BY <1>9 DEF ReversePops
  <2>2. Last(embedQ) \in User
    BY <1>2, <2>1, Queues
  <2>3. ASSUME NEW u \in User
        PROVE  /\ Among(u, Front(embedQ)) => Among(u, embedQ)
               /\ u = Last(embedQ) => Among(u, embedQ)
    BY <1>2, <2>1, AmongLaws
  <2>4. Known(Last(embedQ))
    BY <2>2, <2>3 DEF Known
  <2>5. ReverseCurrent(w)'
    BY <2>1 DEF ReverseCurrent
  <2> QED BY <1>6, <1>7, <1>8, <2>1, <2>2, <2>3, <2>4, <2>5
<1>10. CASE ReverseReads(w)
  <2>1. /\ reverse'[w].user = reverse[w].user \/ reverse'[w].user = None
        /\ reverse'[w].pc \in {"idle", "replace"} /\ reverse'[w].tx = {}
        /\ UNCHANGED <<chunks, row, embedQ>>
    BY <1>10 DEF ReverseReads, IdleReverse
  <2>2. ReverseCurrent(w)'
    BY <2>1 DEF ReverseCurrent
  <2> QED BY <1>6, <1>7, <1>8, <2>1, <2>2
<1>11. CASE ReverseEmbeds(w)
  <2>1. /\ reverse'[w].user = reverse[w].user /\ reverse'[w].pc = "prefs" /\ reverse'[w].tx = {}
        /\ chunks' = [chunks EXCEPT ![reverse[w].user] = reverse[w].text]
        /\ UNCHANGED <<row, embedQ>>
    BY <1>11 DEF ReverseEmbeds
  <2>2. \A u \in User : chunks'[u].ver > 0 => Known(u)
    BY <1>2, <2>1 DEF Known
  <2>3. ReverseCurrent(w)'
    BY <2>1 DEF ReverseCurrent
  <2> QED BY <1>6, <1>7, <2>1, <2>2, <2>3
<1>12. CASE ReverseLoads(w)
  <2> DEFINE u == reverse[w].user
  <2>1. /\ reverse'[w].user = u /\ reverse'[w].pc = "list" /\ reverse'[w].tx = {} /\ u \in User
        /\ reverse'[w].prefs = Loaded(u)
        /\ UNCHANGED <<chunks, row, embedQ>>
    BY <1>2, <1>12 DEF ReverseLoads, ReverseBusy
  <2>2. prefs[u].ver # -1
    BY <1>2, <2>1 DEF InHand, Known
  <2>3. Loaded(u) = prefs[u]
    BY <2>1, <2>2, LoadedType DEF TypeIInv
  <2>4. ReverseCurrent(w)'
    BY <1>1, <2>1, <2>3 DEF ReverseCurrent
  <2> QED BY <1>6, <1>7, <1>8, <2>1, <2>4
<1>13. CASE ReverseLists(w) \/ ReverseJudges(w)
  <2> DEFINE u == reverse[w].user
             j == Head(reverse[w].todo)
  <2>1. /\ reverse[w].pc \in {"list", "scan"} /\ reverse'[w].user = u /\ reverse'[w].pc = "scan"
        /\ reverse'[w].prefs = reverse[w].prefs /\ u \in User /\ UNCHANGED <<chunks, row, embedQ>>
    BY <1>2, <1>13 DEF ReverseLists, ReverseJudges, ReverseBusy
  <2>2. \/ reverse'[w].tx \subseteq reverse[w].tx
        \/ \E k \in Kind : Allowed(reverse[w].prefs.set, k)
                           /\ reverse'[w].tx = reverse[w].tx \cup {<< <<u, j>>, k>>}
    BY <1>13 DEF ReverseLists, ReverseJudges
  <2> HIDE DEF j
  <2>3. ReverseCurrent(w)'
    BY <1>1, <1>2, <2>1, <2>2 DEF ReverseCurrent
  <2> QED BY <1>6, <1>7, <1>8, <2>1, <2>3
<1>14. CASE ReverseEnds(w)
  <2> DEFINE u == reverse[w].user
             r == reverse[w]
             opened(p) == \E k \in Kind : <<p, k>> \in r.tx
             kindOf(p) == CHOOSE k \in Kind : <<p, k>> \in r.tx
  <2>1. /\ r.pc = "scan" /\ reverse'[w].user = u /\ reverse'[w].pc = "enqueue"
        /\ reverse'[w].tx = {} /\ u \in User /\ UNCHANGED <<chunks, embedQ>>
        /\ row' = [p \in Pair |-> IF opened(p) THEN Inserted(p, kindOf(p), r.prefs.ver) ELSE row[p]]
    BY <1>2, <1>14 DEF ReverseEnds, ReverseBusy
  <2>2. r.prefs = prefs[u]
        /\ r.prefs.ver \in Version /\ Known(u)
    BY <1>2, <2>1 DEF ReverseCurrent, ReverseBusy, Known
  <2>3. ASSUME NEW p \in Pair, opened(p)
        PROVE  /\ kindOf(p) \in Kind /\ p[1] = u /\ Allowed(prefs[u].set, kindOf(p))
               /\ row'[p] = Inserted(p, kindOf(p), r.prefs.ver)
    <3>1. kindOf(p) \in Kind /\ <<p, kindOf(p)>> \in r.tx
      BY <2>3
    <3> QED BY <1>2, <2>1, <2>2, <2>3, <3>1 DEF ReverseCurrent
  <2> HIDE DEF kindOf
  <2>4. ASSUME NEW p \in Pair, opened(p)
        PROVE  \/ row'[p] = row[p] /\ row[p].live
               \/ ~row[p].live /\ row'[p].ver = r.prefs.ver /\ row'[p].kind = kindOf(p)
    BY <2>2, <2>3, <2>4, InsertedPending
  <2>5. ASSUME NEW p \in Pair, ~opened(p) PROVE row'[p] = row[p]
    BY <2>1, <2>5
  <2> HIDE DEF opened
  <2>6. \A p \in Pair : row'[p].live => Known(p[1])
    BY <2>2, <2>3, <2>5 DEF Known
  <2>7. ASSUME NEW p \in Pair, IsPending(p)'
        PROVE  \/ /\ IsPending(p) /\ row'[p].ver = row[p].ver
                  /\ row'[p].kind = row[p].kind /\ row'[p].gen = row[p].gen
               \/ /\ row'[p].ver = prefs[p[1]].ver /\ Allowed(prefs[p[1]].set, row'[p].kind)
    <3>1. CASE row'[p] = row[p]
      BY <2>7, <3>1 DEF IsPending
    <3>2. CASE opened(p) /\ row'[p].ver = r.prefs.ver /\ row'[p].kind = kindOf(p)
      BY <2>2, <2>3, <3>2
    <3> QED BY <2>4, <2>5, <3>1, <3>2
  <2>8. ReverseCurrent(w)'
    BY <2>1 DEF ReverseCurrent
  <2> QED BY <1>6, <1>8, <2>1, <2>6, <2>7, <2>8
<1>15. CASE ReversePushes(w)
  <2>1. /\ reverse'[w].user = reverse[w].user \/ reverse'[w].user = None
        /\ reverse'[w].pc \in {"idle", "enqueue"} /\ reverse'[w].tx = {}
        /\ UNCHANGED <<chunks, embedQ>>
        /\ row' = row \/ \E id \in Pair \X Nat : row' = Pushes(id, 1)
    BY <1>15 DEF ReversePushes, IdleReverse
  <2>2. \A p \in Pair : /\ row'[p].live = row[p].live /\ row'[p].app = row[p].app
                        /\ row'[p].ver = row[p].ver /\ row'[p].kind = row[p].kind
                        /\ row'[p].gen = row[p].gen
    BY <2>1, PushesOnly
  <2>3. ReverseCurrent(w)'
    BY <2>1 DEF ReverseCurrent
  <2>4. \A p \in Pair : row'[p].live => Known(p[1])
    BY <2>2 DEF Known
  <2> QED BY <1>6, <1>8, <2>1, <2>2, <2>3, <2>4 DEF IsPending
<1> QED BY <1>1, <1>9, <1>10, <1>11, <1>12, <1>13, <1>14, <1>15 DEF ReverseMoves

LEMMA ForwardKeepsCurrent ==
    ASSUME TypeIInv, Current, Undamaged', NEW w \in JobWorker, ForwardStep(w)
    PROVE  Current'
<1>1. /\ ForwardMoves(w) /\ \A x \in JobWorker \ {w} : forward'[x] = forward[x]
      /\ UNCHANGED <<submit, settings, prefs, chosen, reverse, profile, chunks, embedQ>>
  BY ForwardSucceeds DEF ForwardFrame, apiVars, userVars
<1>2. /\ forward[w] \in ForwardState /\ ForwardBusy(forward[w]) /\ ForwardCurrent(w)
      /\ row \in [Pair -> Match]
      /\ \A u \in User : InHand(u)
      /\ \A p \in Pair : p[1] \in User
  BY DEF TypeIInv, TypeOK, Current, Pair
<1>3. \A x \in EmbedWorker : ReverseCurrent(x)'
  BY <1>1 DEF Current, ReverseCurrent
<1>4. \A x \in JobWorker \ {w} : ForwardCurrent(x)'
  BY <1>1 DEF Current, ForwardCurrent
<1>5. ASSUME ForwardCurrent(w)',
             \A u \in forward'[w].todo : Known(u),
             \A p \in Pair : row'[p].live => Known(p[1]),
             \A p \in Pair : IsPending(p)' =>
               \/ /\ IsPending(p) /\ row'[p].ver = row[p].ver
                  /\ row'[p].kind = row[p].kind /\ row'[p].gen = row[p].gen
               \/ /\ row'[p].ver = prefs[p[1]].ver /\ Allowed(prefs[p[1]].set, row'[p].kind)
      PROVE  Current'
  <2>1. ASSUME NEW u \in User, Known(u)' PROVE Known(u)
    <3>1. CASE \E x \in JobWorker : u \in forward'[x].todo
      BY <1>1, <1>5, <3>1 DEF Known
    <3>2. CASE \E p \in Pair : p[1] = u /\ row'[p].live
      BY <1>5, <3>2
    <3> QED BY <1>1, <2>1, <3>1, <3>2 DEF Known
  <2>2. \A x \in JobWorker : ForwardCurrent(x)'
    BY <1>4, <1>5
  <2> QED BY <1>1, <1>3, <1>5, <2>1, <2>2, MatcherKeeps
<1>6. ASSUME row' = row
      PROVE  /\ \A p \in Pair : row'[p].live => Known(p[1])
             /\ \A p \in Pair : IsPending(p)' =>
                  /\ IsPending(p) /\ row'[p].ver = row[p].ver
                  /\ row'[p].kind = row[p].kind /\ row'[p].gen = row[p].gen
  BY <1>6 DEF Known, IsPending
<1>7. CASE ForwardPops(w)
  <2>1. forward'[w].todo = {} /\ row' = row
    BY <1>7 DEF ForwardPops
  <2>2. ForwardCurrent(w)'
    BY <2>1 DEF ForwardCurrent
  <2> QED BY <1>5, <1>6, <2>1, <2>2
<1>8. CASE ForwardLists(w)
  <2>1. /\ forward'[w].todo = {u \in User : chunks[u].ver > 0} /\ row' = row
        /\ \A u \in forward'[w].todo : forward'[w].prefs[u] = Loaded(u)
    BY <1>8 DEF ForwardLists
  <2>2. ASSUME NEW u \in forward'[w].todo PROVE Known(u) /\ Loaded(u) = prefs[u]
    <3>1. u \in User /\ Known(u)
      BY <2>1, <2>2 DEF Known
    <3>2. prefs[u].ver # -1
      BY <1>2, <3>1 DEF InHand
    <3> QED BY <3>1, <3>2, LoadedType DEF TypeIInv
  <2>3. ForwardCurrent(w)'
    BY <1>1, <2>1, <2>2 DEF ForwardCurrent
  <2> QED BY <1>5, <1>6, <2>1, <2>2, <2>3
<1>9. ASSUME NEW u \in User, ForwardJudges(w, u) PROVE Current'
  <2> DEFINE f == forward[w]
             p == <<u, f.job>>
  <2>1. /\ f.pc = "scan" /\ u \in f.todo /\ forward'[w].todo = f.todo \ {u}
        /\ \A v \in User \ {u} : forward'[w].prefs[v] = f.prefs[v]
        /\ \/ row' = row
           \/ \E kind \in {k \in Kind : Allowed(f.prefs[u].set, k)} :
                row' = [row EXCEPT ![p] = Inserted(p, kind, f.prefs[u].ver)]
    BY <1>9 DEF ForwardJudges
  <2>2. f.job \in Job /\ p \in Pair /\ f.prefs[u].ver \in Version /\ f.prefs[u] = prefs[u] /\ p[1] = u
    BY <1>2, <2>1 DEF ForwardBusy, Pair, ForwardCurrent
  <2>3. \A v \in f.todo : v \in User /\ Known(v)
    BY <1>2 DEF ForwardState, Known
  <2>4. ForwardCurrent(w)'
    BY <1>1, <1>2, <2>1, <2>3 DEF ForwardCurrent
  <2>5. \A v \in forward'[w].todo : Known(v)
    BY <2>1, <2>3
  <2>6. CASE row' = row
    BY <1>5, <1>6, <2>4, <2>5, <2>6
  <2>7. ASSUME NEW kind \in Kind, Allowed(f.prefs[u].set, kind),
               row' = [row EXCEPT ![p] = Inserted(p, kind, f.prefs[u].ver)]
        PROVE  Current'
    <3> HIDE DEF p, f
    <3>1. row'[p] = Inserted(p, kind, f.prefs[u].ver) /\ \A q \in Pair \ {p} : row'[q] = row[q]
      BY <1>2, <2>2, <2>7
    <3>2. \/ row'[p] = row[p] /\ row[p].live
          \/ ~row[p].live /\ row'[p].ver = f.prefs[u].ver /\ row'[p].kind = kind
      BY <2>2, <3>1, InsertedPending
    <3>3. \A q \in Pair : row'[q].live => Known(q[1])
      <4>1. Known(u)
        BY <2>1, <2>3
      <4> QED BY <2>2, <3>1, <4>1 DEF Known
    <3>4. ASSUME NEW q \in Pair, IsPending(q)'
          PROVE  \/ /\ IsPending(q) /\ row'[q].ver = row[q].ver
                    /\ row'[q].kind = row[q].kind /\ row'[q].gen = row[q].gen
                 \/ /\ row'[q].ver = prefs[q[1]].ver /\ Allowed(prefs[q[1]].set, row'[q].kind)
      <4>1. CASE row'[q] = row[q]
        BY <3>4, <4>1 DEF IsPending
      <4>2. CASE q = p /\ row'[p].ver = f.prefs[u].ver /\ row'[p].kind = kind
        BY <2>1, <2>2, <2>3, <2>7, <4>2
      <4> QED BY <3>1, <3>2, <4>1, <4>2
    <3> QED BY <1>5, <2>4, <2>5, <3>3, <3>4
  <2> QED BY <2>1, <2>6, <2>7
<1>10. CASE ForwardPushes(w)
  <2>1. /\ forward'[w].todo = {}
        /\ row' = row \/ \E id \in Pair \X Nat : row' = Pushes(id, 1)
    BY <1>10 DEF ForwardPushes
  <2>2. \A p \in Pair : /\ row'[p].live = row[p].live /\ row'[p].app = row[p].app
                        /\ row'[p].ver = row[p].ver /\ row'[p].kind = row[p].kind
                        /\ row'[p].gen = row[p].gen
    BY <2>1, PushesOnly
  <2>3. ForwardCurrent(w)'
    BY <2>1 DEF ForwardCurrent
  <2>4. \A p \in Pair : row'[p].live => Known(p[1])
    BY <2>2 DEF Known
  <2> QED BY <1>5, <2>1, <2>2, <2>3, <2>4 DEF IsPending
<1> QED BY <1>1, <1>7, <1>8, <1>9, <1>10 DEF ForwardMoves

LEMMA OtherCurrent ==
    ASSUME TypeIInv, Current,
           (\E j \in Job : StoreJob(j)) \/ EnqueueProcessJob \/ (\E p \in Pair : Tailor(p))
           \/ UNCHANGED vars
    PROVE  Current'
<1> USE DEF apiVars, userVars, queueVars, vars
<1>1. UNCHANGED <<userVars, apiVars, reverse, forward, embedQ>>
  BY DEF StoreJob, EnqueueProcessJob, Tailor
<1>2. ASSUME NEW p \in Pair
      PROVE  row'[p] = row[p] \/ (row'[p].app /\ row[p].live)
  <2>1. CASE \E q \in Pair : Tailor(q)
    BY <2>1 DEF Tailor, TypeIInv, TypeOK, Match
  <2>2. CASE row' = row
    BY <2>2
  <2> QED BY <2>1, <2>2 DEF StoreJob, EnqueueProcessJob
<1>3. \A u \in User : Known(u)' => Known(u)
  BY <1>1, <1>2 DEF Known
<1>4. /\ \A w \in EmbedWorker : ReverseCurrent(w)'
      /\ \A w \in JobWorker : ForwardCurrent(w)'
  BY <1>1 DEF Current, ReverseCurrent, ForwardCurrent
<1>5. \A p \in Pair : IsPending(p)' => IsPending(p) /\ row'[p] = row[p]
  BY <1>2 DEF IsPending
<1> QED BY <1>1, <1>3, <1>4, <1>5, MatcherKeeps

LEMMA CurrentStep ==
    TypeIInv /\ CurrentInv /\ [Next]_vars /\ [\A u \in User : ~Overtakes(u)]_vars => CurrentInv'
<1> SUFFICES ASSUME TypeIInv, CurrentInv, [Next]_vars, [\A u \in User : ~Overtakes(u)]_vars, Undamaged'
             PROVE  Current'
  BY DEF CurrentInv
<1>1. Current /\ ~Crash
  BY Unhurt DEF CurrentInv
<1>2. CASE UNCHANGED vars
  BY <1>1, <1>2, OtherCurrent
<1>3. CASE Next /\ \A u \in User : ~Overtakes(u)
  BY <1>1, <1>3, RequestCurrent, ReverseKeepsCurrent, ForwardKeepsCurrent, OtherCurrent DEF Next
<1> QED BY <1>2, <1>3

LEMMA CurrentInit == Init => CurrentInv
<1> SUFFICES ASSUME Init PROVE Current
  BY DEF CurrentInv
<1>1. /\ \A u \in User : /\ prefs[u] = NoPrefs /\ chosen[u] = Defaults /\ chunks[u] = NoProfile
                         /\ submit[u] = IdleSubmit /\ settings[u] = IdleSettings
      /\ \A w \in EmbedWorker : reverse[w] = IdleReverse
      /\ \A w \in JobWorker : forward[w] = IdleForward
      /\ embedQ = <<>> /\ None \notin User
  BY MatchingAssumption DEF Init
<1>2. \A p \in Pair : ~row[p].live
  BY NoMatchType DEF Init
<1>3. \A u \in User : ~Among(u, embedQ)
  BY <1>1 DEF Among
<1>4. \A u \in User : ~Known(u)
  BY <1>1, <1>2, <1>3 DEF Known, NoProfile, IdleSubmit, IdleReverse, IdleForward
<1>5. \A u \in User : InHand(u)
  BY <1>1, <1>4 DEF InHand, IdleSubmit, IdleSettings, NoPrefs
<1> QED BY <1>1, <1>2, <1>5 DEF Current, ReverseCurrent, ForwardCurrent, IsPending, IdleReverse, IdleForward

\* With any overlap of requests and matchers: when nothing failed and the work
\* is done, a pending match was judged with the preferences in force and is of a
\* kind the settings allow, unless preferences were saved while a matcher or the
\* user's other request still went by the ones before them.  Nothing in the code
\* prevents that; the theorem says that nothing else can leave a stale match.
THEOREM PendingStaysCurrent ==
    Spec /\ [][\A u \in User : ~Overtakes(u)]_vars => []PendingIsCurrent
<1>1. TypeIInv /\ CurrentInv => PendingIsCurrent
  <2> SUFFICES ASSUME TypeIInv, CurrentInv, Quiet, Undamaged, NEW p \in Pair, IsPending(p)
               PROVE  row[p].ver = prefs[p[1]].ver /\ Allowed(prefs[p[1]].set, row[p].kind)
    BY DEF PendingIsCurrent, IsPending
  <2>1. PendingOK(p) /\ p[1] \in User
    BY DEF CurrentInv, Current, Pair
  <2> QED BY <2>1 DEF PendingOK, Quiet
<1> QED BY <1>1, TypeInit, TypeStep, CurrentInit, CurrentStep, PTL DEF Spec

-----------------------------------------------------------------------------
(* The settings are those chosen last.                                      *)

Carried(u) ==
    /\ prefs[u].set = chosen[u]
    /\ submit[u].pc = "save" => submit[u].prefs.set = chosen[u]
CarriedInv == Undamaged => \A u \in User : Carried(u)

LEMMA RequestCarries ==
    ASSUME TypeIInv, NEW u \in User, Carried(u), Undamaged', ~LostUpdate(u),
           SaveDraft(u) \/ SubmitProfile(u) \/ PatchSettings(u) \/ Request(u)
    PROVE  Carried(u)'
<1>1. /\ prefs \in [User -> Prefs] /\ chosen \in [User -> Settings] /\ ~Fails
      /\ submit \in [User -> SubmitState] /\ submit[u] \in SubmitState
  BY Outcomes DEF TypeIInv, TypeOK
<1>2. CASE SubmitProfile(u)
  <2>1. PICK p, c : submit' = [submit EXCEPT ![u] = [pc |-> "load", prefs |-> p, complete |-> c]]
    BY <1>2 DEF SubmitProfile
  <2>2. submit'[u].pc = "load"
    BY <1>1, <2>1
  <2> QED BY <1>2, <2>2 DEF SubmitProfile, Carried
<1>3. CASE SubmitLoad(u)
  <2>1. /\ UNCHANGED <<prefs, chosen>>
        /\ submit' = [submit EXCEPT ![u].pc = "save", ![u].prefs.set = Loaded(u).set]
    BY <1>1, <1>3 DEF SubmitLoad, userVars
  <2>2. submit'[u].prefs.set = Loaded(u).set
    BY <1>1, <2>1 DEF SubmitState, Prefs
  <2>3. Loaded(u).set = prefs[u].set
    BY LoadedType DEF TypeIInv
  <2> QED BY <2>1, <2>2, <2>3 DEF Carried
<1>4. CASE SubmitSave(u)
  <2>1. /\ UNCHANGED chosen /\ prefs' = [prefs EXCEPT ![u] = submit[u].prefs]
        /\ submit[u].pc = "save" /\ submit' = [submit EXCEPT ![u].pc = "delete"]
    BY <1>1, <1>4 DEF SubmitSave
  <2>2. prefs'[u] = submit[u].prefs /\ submit'[u].pc = "delete"
    BY <1>1, <2>1 DEF SubmitState
  <2> QED BY <2>1, <2>2 DEF Carried
<1>5. CASE SettingsSave(u)
  <2>1. /\ UNCHANGED submit /\ prefs' = [prefs EXCEPT ![u] = settings[u].prefs]
        /\ chosen' = [chosen EXCEPT ![u] = settings[u].prefs.set]
    BY <1>1, <1>5 DEF SettingsSave
  <2>2. prefs'[u].set = chosen'[u] /\ submit'[u].pc # "save"
    BY <1>1, <1>5, <2>1 DEF LostUpdate
  <2> QED BY <2>2 DEF Carried
<1>6. CASE SubmitDelete(u) \/ SubmitEnqueue(u)
  <2>1. UNCHANGED <<prefs, chosen>> /\ submit'[u].pc # "save"
    BY <1>1, <1>6 DEF SubmitDelete, SubmitEnqueue, userVars, IdleSubmit, SubmitState
  <2> QED BY <2>1 DEF Carried
<1>7. CASE \/ SaveDraft(u) \/ PatchSettings(u)
           \/ DeletePendingPromisingMatches(u) \/ DeletePendingStretchMatches(u)
  BY <1>7 DEF Carried, SaveDraft, PatchSettings, DeletePendingPromisingMatches,
     DeletePendingStretchMatches, SelectPurge, DeletePurge, userVars
<1> QED BY <1>2, <1>3, <1>4, <1>5, <1>6, <1>7 DEF Request

LEMMA CarriedStep ==
    TypeIInv /\ CarriedInv /\ [Next]_vars /\ [\A u \in User : ~LostUpdate(u)]_vars => CarriedInv'
<1> SUFFICES ASSUME TypeIInv, CarriedInv, [Next]_vars, [\A u \in User : ~LostUpdate(u)]_vars,
                    Undamaged', NEW u \in User
             PROVE  Carried(u)'
  BY DEF CarriedInv
<1>1. Carried(u) /\ ~Crash
  BY Unhurt DEF CarriedInv
<1>2. CASE UNCHANGED <<prefs, chosen, submit>>
  BY <1>1, <1>2 DEF Carried
<1>3. ASSUME NEW v \in User, SaveDraft(v) \/ SubmitProfile(v) \/ PatchSettings(v) \/ Request(v),
             ~LostUpdate(v)
      PROVE  Carried(u)'
  <2>1. CASE v = u
    BY <1>1, <1>3, <2>1, RequestCarries
  <2>2. CASE v # u
    <3>1. Private(v)
      BY <1>3, RequestIsPrivate
    <3> QED BY <1>1, <2>2, <3>1 DEF Private, Carried
  <2> QED BY <2>1, <2>2
<1>4. ASSUME \/ \E w \in EmbedWorker : ReverseStep(w)
             \/ \E w \in JobWorker : ForwardStep(w)
             \/ (\E j \in Job : StoreJob(j)) \/ EnqueueProcessJob \/ \E p \in Pair : Tailor(p)
             \/ UNCHANGED vars
      PROVE  UNCHANGED <<prefs, chosen, submit>>
  <2>1. ASSUME NEW w \in EmbedWorker, ReverseStep(w) PROVE UNCHANGED <<prefs, chosen, submit>>
    BY <2>1, ReverseSucceeds DEF ReverseFrame, apiVars
  <2>2. ASSUME NEW w \in JobWorker, ForwardStep(w) PROVE UNCHANGED <<prefs, chosen, submit>>
    BY <2>2, ForwardSucceeds DEF ForwardFrame, apiVars, userVars
  <2> QED BY <1>4, <2>1, <2>2 DEF StoreJob, EnqueueProcessJob, Tailor, vars, userVars, apiVars
<1>5. CASE Next /\ \A v \in User : ~LostUpdate(v)
  BY <1>1, <1>2, <1>3, <1>4, <1>5 DEF Next
<1> QED BY <1>2, <1>4, <1>5

\* With any overlap of requests and matchers: while nothing failed and no request
\* of the user is under way, the settings in force are those the user chose last,
\* unless new settings were saved while a submit held the ones before them.
\* Nothing in the code prevents that lost update; nothing else loses settings.
THEOREM SettingsStay ==
    Spec /\ [][\A u \in User : ~LostUpdate(u)]_vars => []SettingsKept
<1>1. Init => CarriedInv
  BY DEF Init, CarriedInv, Carried, NoPrefs, IdleSubmit
<1>2. CarriedInv => SettingsKept
  BY DEF CarriedInv, Carried, SettingsKept
<1> QED BY <1>1, <1>2, TypeInit, TypeStep, CarriedStep, PTL DEF Spec
=============================================================================
