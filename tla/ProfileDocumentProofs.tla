----------------------- MODULE ProfileDocumentProofs -----------------------
(***************************************************************************)
(* Theorems about ProfileDocument for any documents, analyses and number   *)
(* of edits, visits and resumes.                                           *)
(***************************************************************************)
EXTENDS ProfileDocument, FiniteSetTheorems, WellFoundedInduction, TLAPS

-----------------------------------------------------------------------------
(* Positions of a list.                                                     *)

\* A finite set of numbers that is not empty has a least one: what is below a
\* number, in the set, cannot get smaller for ever.
LEMMA LeastElement ==
    ASSUME NEW I, I # {}, IsFiniteSet(I), \A i \in I : i \in Int
    PROVE  First(I) \in I /\ \A j \in I : First(I) <= j
<1> DEFINE UpTo(i) == {j \in I : j <= i}
<1>1. {UpTo(i) : i \in I} \subseteq FiniteSubsetsOf(I) /\ {UpTo(i) : i \in I} # {}
  <2>1. ASSUME NEW i \in I PROVE UpTo(i) \in FiniteSubsetsOf(I)
    <3>1. UpTo(i) \in SUBSET I
      OBVIOUS
    <3>2. IsFiniteSet(UpTo(i))
      BY <3>1, FS_Subset
    <3> QED BY <3>1, <3>2 DEF FiniteSubsetsOf
  <2> HIDE DEF UpTo
  <2> QED BY <2>1
<1>2. PICK S \in {UpTo(i) : i \in I} : \A T \in {UpTo(i) : i \in I} :
           ~(<<T, S>> \in StrictSubsetOrdering(I))
  <2>1. IsWellFoundedOn(StrictSubsetOrdering(I), FiniteSubsetsOf(I))
    BY FS_StrictSubsetOrderingWellFounded
  <2> DEFINE T == {UpTo(i) : i \in I}
             R == StrictSubsetOrdering(I)
             D == FiniteSubsetsOf(I)
  <2>2. T \subseteq D /\ T # {} /\ IsWellFoundedOn(R, D)
    BY <1>1, <2>1
  <2> HIDE DEF T, R, D
  <2>3. \E x \in T : \A y \in T : ~(<<y, x>> \in R)
    BY <2>2, WFMin
  <2> QED BY <2>3 DEF T, R
<1>3. PICK i \in I : S = UpTo(i)
  BY <1>2
<1>4. ASSUME NEW j \in I, j < i PROVE FALSE
  <2>1. UpTo(j) \subseteq S /\ i \in S /\ i \notin UpTo(j)
    BY <1>3, <1>4
  <2>2. UpTo(j) \in SUBSET I /\ S \in SUBSET I
    BY <1>3
  <2> HIDE DEF UpTo
  <2> QED BY <1>2, <2>1, <2>2 DEF StrictSubsetOrdering
<1>5. \A j \in I : i <= j
  BY <1>4
<1> QED BY <1>5 DEF First

LEMMA FirstPosition ==
    ASSUME NEW n \in Nat, NEW I \in SUBSET (1..n), I # {}
    PROVE  First(I) \in I /\ \A j \in I : First(I) <= j
<1>1. IsFiniteSet(1..n)
  BY FS_Interval
<1>2. IsFiniteSet(I)
  BY <1>1, FS_Subset
<1>3. \A i \in I : i \in Int
  OBVIOUS
<1> QED BY <1>2, <1>3, LeastElement

\* Each number up to the size of a set of positions is the rank of one of them.
LEMMA NthPosition ==
    ASSUME NEW n \in Nat, NEW I \in SUBSET (1..n)
    PROVE  Cardinality(I) \in Nat /\ \A k \in 1..Cardinality(I) : Nth(I, k) \in I
<1> DEFINE Ranked(k) == \E i \in I : Cardinality(Before(I, i)) = k - 1
           Unranked == {k \in 1..Cardinality(I) : ~Ranked(k)}
<1>1. IsFiniteSet(I) /\ Cardinality(I) \in Nat /\ \A i \in I : i \in Int
  <2>1. IsFiniteSet(1..n)
    BY FS_Interval
  <2>2. IsFiniteSet(I)
    BY <2>1, FS_Subset
  <2> QED BY <2>2, FS_CardinalityType
<1>2. SUFFICES Unranked = {}
  <2> SUFFICES ASSUME Unranked = {}, NEW k \in 1..Cardinality(I) PROVE Nth(I, k) \in I
    BY <1>1
  <2>1. \E i \in I : Cardinality(Before(I, i)) = k - 1
    OBVIOUS
  <2> QED BY <2>1 DEF Nth
<1>3. SUFFICES ASSUME Unranked # {} PROVE FALSE
  OBVIOUS
<1>4. IsFiniteSet(Unranked) /\ \A k \in Unranked : k \in Int
  <2>1. IsFiniteSet(1..Cardinality(I)) /\ Unranked \in SUBSET (1..Cardinality(I))
    BY <1>1, FS_Interval
  <2> QED BY <1>1, <2>1, FS_Subset
<1>5. PICK k \in Unranked : \A l \in Unranked : k <= l
  <2> HIDE DEF Unranked
  <2> QED BY <1>3, <1>4, LeastElement
<1>6. k \in 1..Cardinality(I) /\ k \in Int /\ ~Ranked(k)
  BY <1>1, <1>5
<1>7. ASSUME NEW J \in SUBSET I, Cardinality(J) = k - 1, \A j \in J, i \in I \ J : j < i
      PROVE  FALSE
  <2>1. I \ J # {} /\ IsFiniteSet(I \ J)
    <3>1. I # J
      BY <1>1, <1>6, <1>7
    <3> QED BY <1>1, <3>1, FS_Subset
  <2>2. PICK i \in I \ J : \A j \in I \ J : i <= j
    BY <1>1, <2>1, LeastElement
  <2>3. Before(I, i) = J
    <3>1. \A j \in I : j \in Int
      BY <1>1
    <3>2. \A j \in J : j < i
      BY <1>7
    <3>3. \A j \in I : j < i => j \in J
      BY <2>2, <3>1
    <3> QED BY <3>2, <3>3 DEF Before
  <2> QED BY <1>6, <1>7, <2>3
<1>8. k # 1
  BY <1>7, FS_EmptySet
<1>9. Ranked(k - 1)
  BY <1>1, <1>5, <1>6, <1>8
<1>10. PICK i \in I : Cardinality(Before(I, i)) = k - 2
  BY <1>6, <1>9
<1> DEFINE J == Before(I, i) \cup {i}
<1>11. J \in SUBSET I /\ \A j \in J, m \in I \ J : j < m
  BY <1>1 DEF Before
<1>12. Cardinality(J) = k - 1
  <2>1. IsFiniteSet(Before(I, i)) /\ i \notin Before(I, i)
    BY <1>1, FS_Subset DEF Before
  <2> QED BY <1>6, <1>10, <2>1, FS_AddElement
<1> QED BY <1>7, <1>11, <1>12

\* What is picked from a list has its elements.
LEMMA PickedType ==
    ASSUME NEW S, NEW s \in Seq(S), NEW I \in SUBSET DOMAIN s
    PROVE  Picked(s, I) \in Seq(S) /\ Len(Picked(s, I)) = Cardinality(I)
<1>1. Len(s) \in Nat /\ I \in SUBSET (1..Len(s)) /\ \A i \in I : s[i] \in S
  OBVIOUS
<1>2. Cardinality(I) \in Nat /\ \A k \in 1..Cardinality(I) : Nth(I, k) \in I
  BY <1>1, NthPosition
<1>3. Picked(s, I) \in [1..Cardinality(I) -> S]
  BY <1>1, <1>2 DEF Picked
<1> QED BY <1>2, <1>3

-----------------------------------------------------------------------------
(* The rules keep the types of documents.                                   *)

LEMMA RolesType == ASSUME NEW work \in Seq(States) PROVE Roles(work) \in Seq(States)
BY PickedType DEF Roles

LEMMA NamedType ==
    ASSUME NEW S, NEW projects \in Seq(S) PROVE Named(projects) \in Seq(S)
BY PickedType DEF Named

LEMMA ReorderType ==
    ASSUME NEW d, d.projects \in Seq(Project), d.featured \in Nat
    PROVE  /\ reorderFeaturedProject(d) \in Seq(Project)
           /\ Len(reorderFeaturedProject(d)) = Len(d.projects)
<1>1. CASE d.featured = 0 \/ Featured(d) = {}
  BY <1>1 DEF reorderFeaturedProject
<1>2. CASE ~(d.featured = 0 \/ Featured(d) = {})
  <2> DEFINE p == d.projects
             k == First(Featured(d))
             moved == [i \in DOMAIN p |-> IF i = 1 THEN p[k]
                                          ELSE IF i <= k THEN p[i - 1] ELSE p[i]]
  <2>1. Featured(d) \in SUBSET (1..Len(p)) /\ Len(p) \in Nat
    BY DEF Featured
  <2>2. k \in 1..Len(p)
    BY <1>2, <2>1, FirstPosition
  <2>3. moved \in [1..Len(p) -> Project]
    BY <2>1, <2>2
  <2>4. reorderFeaturedProject(d) = moved
    BY <1>2 DEF reorderFeaturedProject
  <2> QED BY <2>1, <2>3, <2>4
<1> QED BY <1>1, <1>2

LEMMA DerivedTypes ==
    ASSUME NEW d \in Document
    PROVE  /\ DeriveProfileMode(d) \in Modes /\ DeriveResumeLayout(d) \in Layouts
           /\ \A worked : PaidFor(d, worked) \in Paid
           /\ FromWork(d) \in {"", "own", "roles", "headline"}
           /\ Visa(d) \in {"need_sponsorship", "citizen_pr"}
<1> USE DEF Document
<1>1. DeriveProfileMode(d) \in Modes
  BY DEF DeriveProfileMode, Modes
<1>2. DeriveResumeLayout(d) \in Layouts
  BY DEF DeriveResumeLayout, Layouts
<1>3. \A worked : PaidFor(d, worked) \in Paid
  BY DEF PaidFor, Paid
<1>4. FromWork(d) \in {"", "own", "roles", "headline"}
  BY DEF FromWork
<1>5. Visa(d) \in {"need_sponsorship", "citizen_pr"}
  BY DEF Visa
<1> QED BY <1>1, <1>2, <1>3, <1>4, <1>5

\* Compiling puts a part in front, if it does anything.
LEMMA CompileKeeps ==
    ASSUME NEW d \in Document
    PROVE  /\ CompileResumePlainText(d) \in Seq(Part)
           /\ d.text # <<>> =>
                /\ CompileResumePlainText(d) # <<>>
                /\ CompileResumePlainText(d)[Len(CompileResumePlainText(d))] = d.text[Len(d.text)]
<1>1. Compiled(d) \in Part
  <2>1. Roles(d.work) \in Seq(States) /\ Named(d.projects) \in Seq(Project)
    BY RolesType, NamedType DEF Document
  <2>2. d.skills \in {"", "own", "tools"} /\ d.tools \in BOOLEAN
    BY DEF Document
  <2> DEFINE work == IF DeriveResumeLayout(d) = "hybrid" THEN Roles(d.work) ELSE <<>>
  <2>3. work \in Seq(States)
    BY <2>1
  <2> HIDE DEF work
  <2>4. [resume |-> 0, skills |-> d.skills, tools |-> d.tools, work |-> work,
         projects |-> Named(d.projects)] \in Part
    BY <2>1, <2>2, <2>3 DEF Part
  <2> QED BY <2>4 DEF Compiled, work
<1>2. d.text \in Seq(Part)
  BY DEF Document
<1> HIDE DEF Part
<1>3. CompileResumePlainText(d) \in {d.text, <<Compiled(d)>> \o d.text}
  BY DEF CompileResumePlainText
<1>4. ASSUME NEW x \in Part, NEW t \in Seq(Part)
      PROVE  /\ <<x>> \o t \in Seq(Part) /\ <<x>> \o t # <<>>
             /\ t # <<>> => (<<x>> \o t)[Len(<<x>> \o t)] = t[Len(t)]
  OBVIOUS
<1> QED BY <1>1, <1>2, <1>3, <1>4

LEMMA EnrichedType ==
    ASSUME NEW d \in Document, NEW skills \in {"", "own", "tools"},
           NEW career \in {"", "own", "roles", "headline"},
           NEW visa \in {"need_sponsorship", "citizen_pr"}, NEW projects \in Seq(Project)
    PROVE  [d EXCEPT !.skills = skills, !.career = career, !.visa = visa,
                     !.projects = projects] \in Document
BY ZenonT(60) DEF Document

\* The fields that nothing derives.
Same(d, n) ==
    /\ n.years = d.years /\ n.seniority = d.seniority /\ n.filled = d.filled
    /\ n.tools = d.tools /\ n.needs = d.needs /\ n.markets = d.markets
    /\ n.countries = d.countries /\ n.work = d.work /\ n.featured = d.featured
    /\ n.flags = d.flags /\ n.stamp = d.stamp

\* What is stored: the derivations, one after the other.
LEMMA Normalized ==
    ASSUME NEW d \in Document, NEW n, n = NormalizeProfileJSON(d)
    PROVE  /\ n \in Document
           /\ n.paid = PaidFor(d, HasFull(d.work)) /\ n.visa = Visa(d)
           /\ n.mode = DeriveProfileMode(n) /\ n.layout = DeriveResumeLayout(n)
           /\ n.career = FromWork(d) /\ n.projects = reorderFeaturedProject(d)
           /\ n.skills = IF d.skills = "" /\ d.tools THEN "tools" ELSE d.skills
           /\ n.text = CompileResumePlainText([n EXCEPT !.text = d.text])
           /\ [n EXCEPT !.text = d.text] \in Document
           /\ Same(d, n)
<1> DEFINE paid == PaidFor(d, HasFull(d.work))
           p == [d EXCEPT !.paid = paid]
           mode == DeriveProfileMode(p)
           layout == DeriveResumeLayout(p)
           q == [p EXCEPT !.mode = mode, !.layout = layout]
           skills == IF d.skills = "" /\ d.tools THEN "tools" ELSE d.skills
           e == [q EXCEPT !.skills = skills, !.career = FromWork(d), !.visa = Visa(d),
                          !.projects = reorderFeaturedProject(d)]
           text == CompileResumePlainText(e)
<1>1. paid \in Paid /\ p \in Document
  BY DerivedTypes DEF Document
<1>2. mode \in Modes /\ layout \in Layouts
  BY <1>1, DerivedTypes
<1>3. /\ skills \in {"", "own", "tools"} /\ FromWork(d) \in {"", "own", "roles", "headline"}
      /\ Visa(d) \in {"need_sponsorship", "citizen_pr"}
      /\ reorderFeaturedProject(d) \in Seq(Project)
  BY DerivedTypes, ReorderType DEF Document
<1>4. enrichLeanProfile(q) = e
  <2> HIDE DEF paid, mode, layout
  <2>1. /\ q.skills = d.skills /\ q.tools = d.tools /\ q.career = d.career /\ q.work = d.work
        /\ q.filled = d.filled /\ q.visa = d.visa /\ q.needs = d.needs
        /\ q.projects = d.projects /\ q.featured = d.featured
    BY DEF Document
  <2> HIDE DEF q
  <2>2. FromWork(q) = FromWork(d)
    BY <2>1 DEF FromWork
  <2>3. Visa(q) = Visa(d)
    BY <2>1 DEF Visa
  <2>4. reorderFeaturedProject(q) = reorderFeaturedProject(d)
    BY <2>1 DEF reorderFeaturedProject, Featured
  <2> QED BY <2>1, <2>2, <2>3, <2>4 DEF enrichLeanProfile
<1>5. n = [e EXCEPT !.text = CompileResumePlainText(e)]
  BY <1>4 DEF NormalizeProfileJSON
<1> HIDE DEF paid, mode, layout, skills
<1>6. e \in Document
  <2>1. q \in Document
    <3> HIDE DEF p
    <3> QED BY <1>1, <1>2 DEF Document
  <2> HIDE DEF q
  <2> QED BY <1>3, <2>1, EnrichedType
<1>7. text \in Seq(Part)
  BY <1>6, CompileKeeps
<1>8. n = [d EXCEPT !.paid = paid, !.visa = Visa(d), !.mode = mode, !.layout = layout,
                    !.career = FromWork(d), !.skills = skills,
                    !.projects = reorderFeaturedProject(d), !.text = text]
  <2> HIDE DEF text
  <2> QED BY <1>5 DEF Document, text
<1>9. n \in Document
  <2> HIDE DEF e
  <2> QED BY <1>5, <1>6, <1>7 DEF Document, text
<1> HIDE DEF text, e
<1>10. /\ n.paid = paid /\ n.visa = Visa(d) /\ n.mode = mode /\ n.layout = layout
       /\ n.career = FromWork(d) /\ n.skills = skills /\ n.projects = reorderFeaturedProject(d)
       /\ n.text = text /\ n.years = d.years /\ n.seniority = d.seniority
  BY <1>8 DEF Document
<1>11. p.paid = paid /\ p.years = d.years /\ p.seniority = d.seniority
  BY DEF Document
<1>12. mode = DeriveProfileMode(n)
  BY <1>10, <1>11 DEF mode, DeriveProfileMode
<1>13. layout = DeriveResumeLayout(n)
  BY <1>10, <1>11 DEF layout, DeriveResumeLayout
<1>14. e = [n EXCEPT !.text = d.text]
  <2>1. e.text = d.text
    BY DEF Document, e
  <2> QED BY <1>5, <1>6, <2>1 DEF Document
<1>15. Same(d, n)
  BY <1>8 DEF Document, Same
<1> QED BY <1>5, <1>6, <1>9, <1>10, <1>12, <1>13, <1>14, <1>15 DEF paid, skills, text

-----------------------------------------------------------------------------
(* Deriving twice.                                                          *)

\* The one's projects are among the other's.
NoneLost(d, n) ==
    \A i \in DOMAIN d.projects : \E j \in DOMAIN n.projects : n.projects[j] = d.projects[i]

\* The featured project goes first, and stays there; none is lost.
LEMMA ReorderSettles ==
    ASSUME NEW d, d.projects \in Seq(Project), d.featured \in Nat,
           NEW e, e.projects = reorderFeaturedProject(d), e.featured = d.featured
    PROVE  /\ reorderFeaturedProject(e) = e.projects
           /\ NoneLost(d, e)
<1> USE DEF NoneLost
<1>1. CASE d.featured = 0 \/ Featured(d) = {}
  <2>1. e.projects = d.projects
    BY <1>1 DEF reorderFeaturedProject
  <2>2. Featured(e) = Featured(d)
    BY <2>1 DEF Featured
  <2> QED BY <1>1, <2>1, <2>2 DEF reorderFeaturedProject
<1>2. CASE ~(d.featured = 0 \/ Featured(d) = {})
  <2> DEFINE p == d.projects
             k == First(Featured(d))
  <2>1. Featured(d) \in SUBSET (1..Len(p)) /\ Len(p) \in Nat /\ DOMAIN p = 1..Len(p)
    BY DEF Featured
  <2>2. k \in 1..Len(p) /\ p[k].id = d.featured
    <3>1. k \in Featured(d)
      BY <1>2, <2>1, FirstPosition
    <3> QED BY <2>1, <3>1 DEF Featured
  <2>3. e.projects = [i \in DOMAIN p |-> IF i = 1 THEN p[k]
                                         ELSE IF i <= k THEN p[i - 1] ELSE p[i]]
    BY <1>2 DEF reorderFeaturedProject
  <2> HIDE DEF k
  <2>4. DOMAIN e.projects = 1..Len(p) /\ 1 \in 1..Len(p) /\ e.projects[1] = p[k]
    BY <2>1, <2>2, <2>3
  <2>5. Featured(e) \in SUBSET (1..Len(p)) /\ 1 \in Featured(e)
    BY <2>2, <2>4 DEF Featured
  <2>6. First(Featured(e)) = 1
    <3>1. First(Featured(e)) \in 1..Len(p) /\ First(Featured(e)) <= 1
      BY <2>1, <2>5, FirstPosition
    <3> QED BY <2>1, <3>1
  <2>7. reorderFeaturedProject(e) =
            [i \in DOMAIN e.projects |->
                IF i = 1 THEN e.projects[1]
                ELSE IF i <= 1 THEN e.projects[i - 1] ELSE e.projects[i]]
    BY <1>2, <2>5, <2>6 DEF reorderFeaturedProject
  <2>8. reorderFeaturedProject(e) = e.projects
    <3>1. e.projects = [i \in DOMAIN e.projects |-> e.projects[i]]
      BY <2>3
    <3>2. \A i \in DOMAIN e.projects : i # 1 => ~(i <= 1)
      BY <2>1, <2>4
    <3> QED BY <2>7, <3>1, <3>2
  <2>9. ASSUME NEW i \in 1..Len(p) PROVE \E j \in 1..Len(p) : e.projects[j] = p[i]
    <3>1. CASE i = k
      BY <2>4, <3>1
    <3>2. CASE i < k
      <4>1. i + 1 \in 1..Len(p) /\ i + 1 # 1 /\ i + 1 <= k /\ i + 1 - 1 = i
        BY <2>1, <2>2, <3>2
      <4>2. e.projects[i + 1] = p[i]
        BY <2>1, <2>3, <4>1
      <4> QED BY <4>1, <4>2
    <3>3. CASE i > k
      <4>1. i # 1 /\ ~(i <= k)
        BY <2>1, <2>2, <3>3
      <4> QED BY <2>1, <2>3, <4>1
    <3> QED BY <2>1, <2>2, <3>1, <3>2, <3>3
  <2> QED BY <2>1, <2>4, <2>8, <2>9
<1> QED BY <1>1, <1>2

Fields ==
    {"years", "seniority", "paid", "mode", "layout", "filled", "tools", "skills", "career",
     "needs", "visa", "markets", "countries", "work", "projects", "featured", "text", "flags",
     "stamp"}

LEMMA SameFields ==
    ASSUME NEW d \in Document, NEW n \in Document, Same(d, n),
           n.paid = d.paid, n.visa = d.visa, n.mode = d.mode, n.layout = d.layout,
           n.career = d.career, n.skills = d.skills, n.projects = d.projects
    PROVE  n = [d EXCEPT !.text = n.text] /\ d = [n EXCEPT !.text = d.text]
<1>1. n = [f \in Fields |-> n[f]] /\ d = [f \in Fields |-> d[f]]
  BY DEF Document, Fields
<1>2. \A f \in Fields \ {"text"} : n[f] = d[f]
  BY DEF Same, Fields
<1>3. "text" \in Fields
  BY DEF Fields
<1> QED BY <1>1, <1>2, <1>3

\* A document with the fields that one side derived: the server, deriving them
\* again, changes the text and nothing else.
LEMMA DerivedSettles ==
    ASSUME NEW d \in Document, NEW n \in Document,
           n.paid = PaidFor(d, HasFull(d.work)), n.visa = Visa(d), n.career = FromWork(d),
           n.skills = IF d.skills = "" /\ d.tools THEN "tools" ELSE d.skills,
           n.years = d.years, n.work = d.work, n.filled = d.filled, n.tools = d.tools,
           n.mode = DeriveProfileMode(n), n.layout = DeriveResumeLayout(n),
           reorderFeaturedProject(n) = n.projects
    PROVE  SettledBy(n)
<1>0. SUFFICES ASSUME NEW m, m = NormalizeProfileJSON(n)
               PROVE  m = [n EXCEPT !.text = CompileResumePlainText(n)]
  BY DEF SettledBy
<1>1. m.paid = n.paid
  <2>1. m.paid = PaidFor(n, HasFull(n.work))
    BY <1>0, Normalized
  <2> QED BY <2>1 DEF PaidFor
<1>2. m.visa = n.visa
  <2>1. m.visa = Visa(n) /\ n.visa # ""
    BY <1>0, Normalized, DerivedTypes
  <2> QED BY <2>1 DEF Visa
<1>3. m.career = n.career
  <2>1. m.career = FromWork(n)
    BY <1>0, Normalized
  <2> QED BY <2>1 DEF FromWork
<1>4. m.skills = n.skills
  <2>1. m.skills = IF n.skills = "" /\ n.tools THEN "tools" ELSE n.skills
    BY <1>0, Normalized
  <2>2. n.tools \in BOOLEAN /\ d.tools \in BOOLEAN
    BY DEF Document
  <2>3. CASE d.skills = "" /\ d.tools
    BY <2>1, <2>3
  <2>4. CASE ~(d.skills = "" /\ d.tools)
    BY <2>1, <2>4
  <2> QED BY <2>3, <2>4
<1>5. m.projects = n.projects
  BY <1>0, Normalized
<1>6. /\ m.text = CompileResumePlainText([m EXCEPT !.text = n.text])
      /\ m \in Document /\ Same(n, m)
  BY <1>0, Normalized
<1>7. m.mode = DeriveProfileMode(m) /\ m.layout = DeriveResumeLayout(m)
  BY <1>0, Normalized
<1>8. m.mode = n.mode /\ m.layout = n.layout
  <2>1. m.years = n.years /\ m.seniority = n.seniority
    BY <1>6 DEF Same
  <2> QED BY <1>1, <1>7, <2>1 DEF DeriveProfileMode, DeriveResumeLayout
<1>9. m = [n EXCEPT !.text = m.text] /\ n = [m EXCEPT !.text = n.text]
  BY <1>1, <1>2, <1>3, <1>4, <1>5, <1>6, <1>8, SameFields
<1> QED BY <1>6, <1>9

\* What was normalised settles ...
LEMMA NormalizedSettles ==
    ASSUME NEW d \in Document, NEW n, n = NormalizeProfileJSON(d)
    PROVE  /\ SettledBy(n)
           /\ n.layout = "employment_led" => NormalizeProfileJSON(n) = n
<1>1. /\ n \in Document /\ n.paid = PaidFor(d, HasFull(d.work)) /\ n.visa = Visa(d)
      /\ n.mode = DeriveProfileMode(n) /\ n.layout = DeriveResumeLayout(n)
      /\ n.career = FromWork(d) /\ n.projects = reorderFeaturedProject(d)
      /\ n.skills = IF d.skills = "" /\ d.tools THEN "tools" ELSE d.skills
      /\ Same(d, n)
  BY Normalized
<1>2. /\ n.text = CompileResumePlainText([n EXCEPT !.text = d.text])
      /\ [n EXCEPT !.text = d.text] \in Document
  BY Normalized
<1>3. reorderFeaturedProject(n) = n.projects
  <2>1. d.projects \in Seq(Project) /\ d.featured \in Nat
    BY DEF Document
  <2>2. n.featured = d.featured
    BY <1>1 DEF Same
  <2> QED BY <1>1, <2>1, <2>2, ReorderSettles
<1>4. SettledBy(n)
  <2>1. n.years = d.years /\ n.work = d.work /\ n.filled = d.filled /\ n.tools = d.tools
    BY <1>1 DEF Same
  <2> QED BY <1>1, <1>3, <2>1, DerivedSettles
<1>5. ASSUME n.layout = "employment_led" PROVE CompileResumePlainText(n) = n.text
  <2>1. CASE n.text # <<>>
    BY <1>1, <1>5, <2>1 DEF CompileResumePlainText
  <2>2. CASE n.text = <<>>
    <3>1. d.text = <<>>
      <4> DEFINE e == [n EXCEPT !.text = d.text]
      <4>1. e.text = d.text /\ e \in Document /\ n.text = CompileResumePlainText(e)
        BY <1>1, <1>2 DEF Document
      <4> HIDE DEF e
      <4>2. e.text # <<>> => CompileResumePlainText(e) # <<>>
        BY <4>1, CompileKeeps
      <4> QED BY <2>2, <4>1, <4>2
    <3>2. [n EXCEPT !.text = d.text] = n
      BY <1>1, <2>2, <3>1 DEF Document
    <3> QED BY <1>2, <3>2
  <2> QED BY <2>1, <2>2
<1>6. [n EXCEPT !.text = n.text] = n
  BY <1>1 DEF Document
<1>7. ASSUME n.layout = "employment_led" PROVE NormalizeProfileJSON(n) = n
  <2>1. NormalizeProfileJSON(n) = [n EXCEPT !.text = CompileResumePlainText(n)]
    BY <1>4 DEF SettledBy
  <2> QED BY <1>5, <1>6, <1>7, <2>1
<1> QED BY <1>4, <1>7

\* The form's featured project is one of its projects.
LEMMA FeaturedFound ==
    ASSUME NEW d \in Document, getFeaturedProject(d) # 0
    PROVE  /\ getFeaturedProject(d) \in DOMAIN d.projects
           /\ d.featured # 0 => d.projects[getFeaturedProject(d)].id = d.featured
<1> DEFINE found == IF d.featured # 0 THEN Featured(d)
                    ELSE {i \in DOMAIN d.projects : d.projects[i].state = "full"}
<1>1. found \in SUBSET (1..Len(d.projects)) /\ Len(d.projects) \in Nat
      /\ DOMAIN d.projects = 1..Len(d.projects)
  <2>1. d.projects \in Seq(Project)
    BY DEF Document
  <2>2. Len(d.projects) \in Nat /\ DOMAIN d.projects = 1..Len(d.projects)
    BY <2>1
  <2> QED BY <2>2 DEF Featured
<1>2. getFeaturedProject(d) = First(found) /\ found # {}
  BY DEF getFeaturedProject
<1>3. First(found) \in found
  <2> HIDE DEF found
  <2> QED BY <1>1, <1>2, FirstPosition
<1> QED BY <1>1, <1>2, <1>3 DEF Featured

LEMMA PreparedType ==
    ASSUME NEW d \in Document, NEW featured \in Nat, NEW paid \in Paid,
           NEW visa \in {"need_sponsorship", "citizen_pr"}, NEW skills \in {"", "own", "tools"},
           NEW career \in {"", "own", "roles", "headline"}
    PROVE  [d EXCEPT !.featured = featured, !.paid = paid, !.visa = visa, !.skills = skills,
                     !.career = career, !.stamp = TRUE] \in Document
BY ZenonT(60) DEF Document

LEMMA PlacedType ==
    ASSUME NEW d \in Document, NEW projects \in Seq(Project), NEW mode \in Modes,
           NEW layout \in Layouts
    PROVE  [d EXCEPT !.projects = projects, !.mode = mode, !.layout = layout] \in Document
BY ZenonT(60) DEF Document

\* ... and so does what the form prepared.
LEMMA Prepared ==
    ASSUME NEW d \in Document, NEW n, n = prepareProfileForSubmit(d)
    PROVE  /\ n \in Document /\ SettledBy(n)
           /\ n.paid = PaidFor(d, HasFull(d.work)) /\ n.visa = Visa(d)
           /\ n.text = d.text /\ n.years = d.years /\ n.work = d.work /\ n.filled = d.filled
           /\ n.tools = d.tools /\ n.needs = d.needs /\ n.countries = d.countries
           /\ n.seniority = d.seniority /\ n.stamp = TRUE
           /\ n.featured = IF getFeaturedProject(d) = 0 THEN d.featured
                           ELSE d.projects[getFeaturedProject(d)].id
           /\ NoneLost(d, n)
<1> DEFINE g == getFeaturedProject(d)
           featured == IF g = 0 THEN d.featured ELSE d.projects[g].id
           paid == PaidFor(d, HasFull(d.work))
           visa == Visa(d)
           skills == IF d.skills = "" /\ d.tools THEN "tools" ELSE d.skills
           career == FromWork(d)
           p == [d EXCEPT !.featured = featured, !.paid = paid, !.visa = visa,
                          !.skills = skills, !.career = career, !.stamp = TRUE]
           projects == reorderFeaturedProject(p)
           mode == DeriveProfileMode(p)
           layout == DeriveResumeLayout(p)
<1>1. n = [p EXCEPT !.projects = projects, !.mode = mode, !.layout = layout]
  <2> HIDE DEF paid, visa, career, featured, projects, mode, layout
  <2>1. [d EXCEPT !.featured = IF g = 0 THEN @ ELSE d.projects[g].id,
                  !.paid = PaidFor(d, HasFull(d.work)), !.visa = Visa(d),
                  !.skills = IF @ = "" /\ d.tools THEN "tools" ELSE @,
                  !.career = FromWork(d), !.stamp = TRUE] = p
    BY DEF Document, paid, visa, career, featured
  <2> HIDE DEF p
  <2> QED BY <2>1 DEF prepareProfileForSubmit, projects, mode, layout
<1>2. /\ featured \in Nat /\ paid \in Paid /\ visa \in {"need_sponsorship", "citizen_pr"}
      /\ skills \in {"", "own", "tools"} /\ career \in {"", "own", "roles", "headline"}
  <2>1. featured \in Nat
    <3>1. d.projects \in Seq(Project) /\ d.featured \in Nat
      BY DEF Document
    <3>2. g # 0 => g \in DOMAIN d.projects
      BY FeaturedFound
    <3>3. g # 0 => d.projects[g] \in Project
      BY <3>1, <3>2
    <3> QED BY <3>1, <3>3 DEF Project
  <2> QED BY <2>1, DerivedTypes DEF Document
<1> HIDE DEF paid, visa, skills, career, featured
<1>3. p \in Document
  BY <1>2, PreparedType, ZenonT(60)
<1>4. projects \in Seq(Project) /\ mode \in Modes /\ layout \in Layouts
  <2>1. p.projects \in Seq(Project) /\ p.featured \in Nat
    BY <1>3 DEF Document
  <2> QED BY <1>3, <2>1, ReorderType, DerivedTypes
<1> HIDE DEF projects, mode, layout
<1>5. n \in Document
  <2> HIDE DEF p
  <2>1. [p EXCEPT !.projects = projects, !.mode = mode, !.layout = layout] \in Document
    BY <1>3, <1>4, PlacedType
  <2> QED BY <1>1, <2>1
<1>6. /\ p.featured = featured /\ p.paid = paid /\ p.visa = visa /\ p.skills = skills
      /\ p.career = career /\ p.stamp = TRUE /\ p.text = d.text /\ p.years = d.years
      /\ p.seniority = d.seniority /\ p.work = d.work /\ p.filled = d.filled
      /\ p.tools = d.tools /\ p.needs = d.needs /\ p.countries = d.countries
      /\ p.projects = d.projects
  BY DEF Document
<1> HIDE DEF p
<1>7. /\ n.featured = p.featured /\ n.paid = p.paid /\ n.visa = p.visa /\ n.skills = p.skills
      /\ n.career = p.career /\ n.stamp = p.stamp /\ n.text = p.text /\ n.years = p.years
      /\ n.seniority = p.seniority /\ n.work = p.work /\ n.filled = p.filled
      /\ n.tools = p.tools /\ n.needs = p.needs /\ n.countries = p.countries
      /\ n.projects = projects /\ n.mode = mode /\ n.layout = layout
  BY <1>1, <1>3 DEF Document
<1>8. reorderFeaturedProject(n) = n.projects /\ NoneLost(d, n)
  <2>1. p.projects \in Seq(Project) /\ p.featured \in Nat
    BY <1>3 DEF Document
  <2>2. reorderFeaturedProject(n) = n.projects /\ NoneLost(p, n)
    BY <1>6, <1>7, <2>1, ReorderSettles DEF projects
  <2> QED BY <1>6, <2>2 DEF NoneLost
<1>9. n.mode = DeriveProfileMode(n) /\ n.layout = DeriveResumeLayout(n)
  BY <1>7 DEF mode, layout, DeriveProfileMode, DeriveResumeLayout
<1>10. SettledBy(n)
  <2>1. /\ n.paid = PaidFor(d, HasFull(d.work)) /\ n.visa = Visa(d) /\ n.career = FromWork(d)
        /\ n.skills = IF d.skills = "" /\ d.tools THEN "tools" ELSE d.skills
    BY <1>6, <1>7 DEF paid, visa, skills, career
  <2>2. n.years = d.years /\ n.work = d.work /\ n.filled = d.filled /\ n.tools = d.tools
    BY <1>6, <1>7
  <2> QED BY <1>5, <1>8, <1>9, <2>1, <2>2, DerivedSettles
<1> QED BY <1>5, <1>6, <1>7, <1>8, <1>10 DEF paid, visa, featured

-----------------------------------------------------------------------------
(* Drafts and merges.                                                       *)

LEMMA EmptyType == Empty \in Document
<1>1. <<>> \in Seq(States) /\ <<>> \in Seq(Project) /\ <<>> \in Seq(Part)
  OBVIOUS
<1> QED BY <1>1 DEF Empty, Document, Years, Seniorities, Paid

\* A draft has a role and a project to fill in.
LEMMA DraftType ==
    ASSUME NEW d \in Document, nextId \in Nat,
           NEW n, n = normalizeProfileDraftFromUnknown(d)
    PROVE  /\ n \in Document /\ n.work # <<>> /\ n.projects # <<>>
           /\ n.text = d.text /\ n.visa = d.visa /\ n.needs = d.needs
           /\ n.countries = d.countries
<1> DEFINE paid == PaidFor(d, d.career # "")
           some == IF d.projects = <<>> THEN <<Blank>> ELSE d.projects
           two == IF Len(some) < 2 /\ paid \in {"none", "internship_only"}
                  THEN Append(some, Blank) ELSE some
           work == IF d.work = <<>> THEN <<"blank">> ELSE d.work
<1>1. d.projects \in Seq(Project) /\ d.work \in Seq(States) /\ Blank \in Project
  BY DEF Document, Blank, Project, States
<1>2. some \in Seq(Project) /\ some # <<>>
  BY <1>1
<1>3. two \in Seq(Project) /\ two # <<>>
  <2> HIDE DEF some, paid
  <2>1. Append(some, Blank) \in Seq(Project) /\ Append(some, Blank) # <<>>
    BY <1>1, <1>2
  <2> QED BY <1>2, <2>1
<1>4. WithIds(two) \in Seq(Project) /\ WithIds(two) # <<>>
  <2> HIDE DEF two
  <2>1. Len(two) \in Nat \ {0} /\ DOMAIN two = 1..Len(two) /\ \A i \in DOMAIN two : two[i] \in Project
    BY <1>3
  <2>2. ASSUME NEW p \in Project, NEW k \in Nat PROVE [p EXCEPT !.id = k] \in Project
    BY DEF Project
  <2>3. \A i \in 1..Len(two) : WithIds(two)[i] \in Project
    BY <2>1, <2>2 DEF WithIds
  <2>4. WithIds(two) \in [1..Len(two) -> Project]
    BY <2>1, <2>3 DEF WithIds
  <2> QED BY <2>1, <2>4
<1>5. work \in Seq(States) /\ work # <<>> /\ paid \in Paid
  <2>1. <<"blank">> \in Seq(States) /\ <<"blank">> # <<>>
    BY DEF States
  <2>2. paid \in Paid
    BY DerivedTypes
  <2> QED BY <1>1, <2>1, <2>2
<1>6. n = [d EXCEPT !.paid = paid, !.projects = WithIds(two), !.work = work]
  <2> HIDE DEF paid, two
  <2>1. n = [d EXCEPT !.paid = paid, !.projects = WithIds(two),
                      !.work = IF @ = <<>> THEN <<"blank">> ELSE @]
    BY DEF normalizeProfileDraftFromUnknown, paid, two
  <2> QED BY <2>1 DEF Document
<1> HIDE DEF paid, two, work
<1> QED BY <1>4, <1>5, <1>6 DEF Document


LEMMA MergedType ==
    ASSUME NEW d \in Document, NEW years \in Years, NEW seniority \in Seniorities,
           NEW career \in {"", "own", "roles", "headline"}, NEW skills \in {"", "own", "tools"}
    PROVE  [d EXCEPT !.years = years, !.seniority = seniority, !.career = career,
                     !.skills = skills] \in Document
BY ZenonT(60) DEF Document

LEMMA MergedListsType ==
    ASSUME NEW d \in Document, NEW text \in Seq(Part), NEW tools \in BOOLEAN,
           NEW work \in Seq(States), NEW projects \in Seq(Project), NEW featured \in Nat
    PROVE  [d EXCEPT !.text = text, !.tools = tools, !.work = work, !.projects = projects,
                     !.featured = featured] \in Document
BY ZenonT(60) DEF Document

\* No answer or list that the one has is empty in the other.
Fills(d, n) ==
    /\ d.years # "" => n.years # ""
    /\ d.seniority # "" => n.seniority # ""
    /\ d.career # "" => n.career # ""
    /\ d.skills # "" => n.skills # ""
    /\ d.text # <<>> => n.text # <<>>
    /\ d.work # <<>> => n.work # <<>>
    /\ d.projects # <<>> => n.projects # <<>>

\* The form's merge empties nothing and takes the text.
LEMMA MergeKeeps ==
    ASSUME NEW d \in Document, NEW a \in Document, NEW n, n = mergeParsedProfile(d, a)
    PROVE  /\ n \in Document
           /\ Fills(d, n)
           /\ a.text # <<>> => n.text = a.text
           /\ n.paid = d.paid /\ n.visa = d.visa
<1> DEFINE years == Or(a.years, d.years, "")
           seniority == Or(a.seniority, d.seniority, "")
           career == Or(a.career, d.career, "")
           skills == Or(a.skills, d.skills, "")
           text == Or(a.text, d.text, <<>>)
           tools == d.tools \/ a.tools
           work == Or(Roles(a.work), d.work, <<>>)
           named == Named(a.projects)
           projects == Or(named, d.projects, <<>>)
           featured == IF d.featured = 0 /\ named # <<>> THEN named[1].id ELSE d.featured
<1>1. Roles(a.work) \in Seq(States) /\ named \in Seq(Project)
  BY RolesType, NamedType DEF Document
<1>2. featured \in Nat
  <2>1. named # <<>> => named[1] \in Project
    BY <1>1
  <2> HIDE DEF named
  <2> QED BY <2>1 DEF Document, Project
<1>3. /\ years \in Years /\ (d.years # "" => years # "")
      /\ seniority \in Seniorities /\ (d.seniority # "" => seniority # "")
      /\ career \in {"", "own", "roles", "headline"} /\ (d.career # "" => career # "")
      /\ skills \in {"", "own", "tools"} /\ (d.skills # "" => skills # "")
  <2>1. /\ d.years \in Years /\ a.years \in Years
        /\ d.seniority \in Seniorities /\ a.seniority \in Seniorities
        /\ d.career \in {"", "own", "roles", "headline"}
        /\ a.career \in {"", "own", "roles", "headline"}
        /\ d.skills \in {"", "own", "tools"} /\ a.skills \in {"", "own", "tools"}
    BY DEF Document
  <2> QED BY <2>1 DEF Or
<1>4. /\ text \in Seq(Part) /\ (d.text # <<>> => text # <<>>) /\ (a.text # <<>> => text = a.text)
      /\ work \in Seq(States) /\ (d.work # <<>> => work # <<>>)
      /\ projects \in Seq(Project) /\ (d.projects # <<>> => projects # <<>>)
  <2>1. /\ d.text \in Seq(Part) /\ a.text \in Seq(Part) /\ d.work \in Seq(States)
        /\ d.projects \in Seq(Project)
    BY DEF Document
  <2> HIDE DEF named
  <2> QED BY <1>1, <2>1 DEF Or
<1>5. tools \in BOOLEAN
  OBVIOUS
<1>6. n = [d EXCEPT !.years = years, !.seniority = seniority, !.career = career,
                    !.skills = skills, !.text = text, !.tools = tools, !.work = work,
                    !.projects = projects, !.featured = featured]
  BY DEF mergeParsedProfile, Document
<1> HIDE DEF years, seniority, career, skills, text, tools, work, projects, featured
<1>7. n \in Document
  <2> DEFINE m == [d EXCEPT !.years = years, !.seniority = seniority, !.career = career,
                            !.skills = skills]
  <2>1. m \in Document
    BY <1>3, MergedType
  <2>2. n = [m EXCEPT !.text = text, !.tools = tools, !.work = work, !.projects = projects,
                      !.featured = featured]
    BY <1>6 DEF Document
  <2> HIDE DEF m
  <2>3. [m EXCEPT !.text = text, !.tools = tools, !.work = work, !.projects = projects,
                  !.featured = featured] \in Document
    BY <1>2, <1>4, <1>5, <2>1, MergedListsType
  <2> QED BY <2>2, <2>3
<1>8. /\ n.years = years /\ n.seniority = seniority /\ n.career = career /\ n.skills = skills
      /\ n.text = text /\ n.work = work /\ n.projects = projects
      /\ n.paid = d.paid /\ n.visa = d.visa
  BY <1>6, ZenonT(60) DEF Document
<1>9. Fills(d, n)
  BY <1>3, <1>4, <1>8 DEF Fills
<1> QED BY <1>4, <1>7, <1>8, <1>9


LEMMA ReadListsType ==
    ASSUME NEW d \in Document, NEW tools \in BOOLEAN, NEW work \in Seq(States),
           NEW projects \in Seq(Project), NEW needs \in BOOLEAN, NEW flags \in {"own", "reset"},
           NEW text \in Seq(Part)
    PROVE  [d EXCEPT !.tools = tools, !.work = work, !.projects = projects, !.needs = needs,
                     !.flags = flags, !.text = text] \in Document
BY ZenonT(60) DEF Document

LEMMA SameButFlags ==
    ASSUME NEW d \in Document, NEW n \in Document,
           n.paid = d.paid, n.visa = d.visa, n.mode = d.mode, n.layout = d.layout,
           n.career = d.career, n.skills = d.skills, n.projects = d.projects,
           n.years = d.years, n.seniority = d.seniority, n.filled = d.filled,
           n.tools = d.tools, n.markets = d.markets, n.countries = d.countries,
           n.work = d.work, n.featured = d.featured, n.stamp = d.stamp
    PROVE  n = [d EXCEPT !.text = n.text, !.needs = n.needs, !.flags = n.flags]
<1>1. n = [f \in Fields |-> n[f]] /\ d = [f \in Fields |-> d[f]]
  BY DEF Document, Fields
<1>2. \A f \in Fields \ {"text", "needs", "flags"} : n[f] = d[f]
  BY DEF Fields
<1>3. {"text", "needs", "flags"} \subseteq Fields
  BY DEF Fields
<1> QED BY <1>1, <1>2, <1>3

\* The text of a resume alone, and all that a failed analysis changes.
TextOf(k) == <<[resume |-> k]>>
Failed(d, n) == n = [d EXCEPT !.text = n.text, !.needs = FALSE, !.flags = "reset"]

\* The server's merge empties nothing, but the text is the resume's alone; of a
\* failed analysis it takes the booleans.
LEMMA ResumeMerged ==
    ASSUME NEW d \in Document, NEW a \in Reading, NEW k \in Nat \ {0},
           NEW n, n = mergeParsedProfileMaps(d, a, k)
    PROVE  /\ n \in Document
           /\ Fills(d, n)
           /\ n.text = TextOf(k)
           /\ n.paid = d.paid /\ n.visa = d.visa /\ n.stamp = d.stamp
           /\ n.countries = d.countries /\ n.layout = d.layout
           /\ a = fallbackProfile => Failed(d, n)
<1> DEFINE years == Or(a.years, d.years, "")
           seniority == Or(a.seniority, d.seniority, "")
           career == Or(a.career, d.career, "")
           skills == Or(a.skills, d.skills, "")
           tools == d.tools \/ a.tools
           work == Or(normalizeParsedWorkEntries(a.work), d.work, <<>>)
           projects == Or(a.projects, d.projects, <<>>)
           needs == d.needs /\ ~a.failed
           flags == IF a.failed THEN "reset" ELSE d.flags
           text == <<[resume |-> k]>>
<1>1. a.work \in Seq(States) /\ a.projects \in Seq(Project)
  <2> DEFINE Read == [id : {0}, state : States]
  <2>1. a.work \in Seq(States) /\ a.projects \in Seq(Read)
    BY DEF Reading
  <2>2. Read \subseteq Project
    BY DEF Project
  <2> HIDE DEF Read
  <2>3. Len(a.projects) \in Nat /\ \A i \in 1..Len(a.projects) : a.projects[i] \in Project
    BY <2>1, <2>2
  <2>4. a.projects = [i \in 1..Len(a.projects) |-> a.projects[i]]
    BY <2>1
  <2>5. [i \in 1..Len(a.projects) |-> a.projects[i]] \in Seq(Project)
    BY <2>3
  <2> QED BY <2>1, <2>4, <2>5
<1>2. normalizeParsedWorkEntries(a.work) \in Seq(States)
  BY <1>1, RolesType DEF normalizeParsedWorkEntries
<1>3. text \in Seq(Part)
  <2>1. [resume |-> k] \in Part
    BY DEF Part
  <2> HIDE DEF Part
  <2> QED BY <2>1
<1>4. /\ years \in Years /\ (d.years # "" => years # "")
      /\ seniority \in Seniorities /\ (d.seniority # "" => seniority # "")
      /\ career \in {"", "own", "roles", "headline"} /\ (d.career # "" => career # "")
      /\ skills \in {"", "own", "tools"} /\ (d.skills # "" => skills # "")
  <2>1. /\ d.years \in Years /\ a.years \in Years
        /\ d.seniority \in Seniorities /\ a.seniority \in Seniorities
        /\ d.career \in {"", "own", "roles", "headline"} /\ a.career \in {"", "own"}
        /\ d.skills \in {"", "own", "tools"} /\ a.skills \in {"", "own"}
    BY DEF Document, Reading
  <2> QED BY <2>1 DEF Or
<1>5. /\ work \in Seq(States) /\ (d.work # <<>> => work # <<>>)
      /\ projects \in Seq(Project) /\ (d.projects # <<>> => projects # <<>>)
  <2>1. d.work \in Seq(States) /\ d.projects \in Seq(Project)
    BY DEF Document
  <2> QED BY <1>1, <1>2, <2>1 DEF Or
<1>6. tools \in BOOLEAN /\ needs \in BOOLEAN /\ flags \in {"own", "reset"}
  BY DEF Document, Reading
<1>7. n = [d EXCEPT !.years = years, !.seniority = seniority, !.career = career,
                    !.skills = skills, !.tools = tools, !.work = work, !.projects = projects,
                    !.needs = needs, !.flags = flags, !.text = text]
  BY DEF mergeParsedProfileMaps, Document
<1>8. ASSUME a = fallbackProfile
      PROVE  /\ years = d.years /\ seniority = d.seniority /\ career = d.career
             /\ skills = d.skills /\ work = d.work /\ projects = d.projects
             /\ flags = "reset" /\ tools = d.tools /\ needs = FALSE
  <2>1. /\ a.years = "" /\ a.seniority = "" /\ a.career = "" /\ a.skills = ""
        /\ a.tools = FALSE /\ a.work = <<>> /\ a.projects = <<>> /\ a.failed = TRUE
    BY <1>8 DEF fallbackProfile
  <2>2. normalizeParsedWorkEntries(a.work) = <<>>
    <3> DEFINE I == {i \in DOMAIN a.work : a.work[i] # "blank"}
    <3>1. I = {}
      <4>1. DOMAIN <<>> = {}
        OBVIOUS
      <4> QED BY <2>1, <4>1
    <3>2. I \in SUBSET DOMAIN a.work /\ Roles(a.work) = Picked(a.work, I)
      BY DEF Roles
    <3> HIDE DEF I
    <3>3. Picked(a.work, I) \in Seq(States) /\ Len(Picked(a.work, I)) = Cardinality(I)
      BY <1>1, <3>2, PickedType
    <3>4. Len(Picked(a.work, I)) = 0
      BY <3>1, <3>3, FS_EmptySet
    <3>5. Roles(a.work) = <<>>
      BY <3>2, <3>3, <3>4
    <3> QED BY <2>1, <3>5 DEF normalizeParsedWorkEntries
  <2>3. /\ years = d.years /\ seniority = d.seniority /\ career = d.career /\ skills = d.skills
        /\ work = d.work /\ projects = d.projects /\ flags = "reset"
    BY <2>1, <2>2 DEF Or
  <2>4. d.tools \in BOOLEAN /\ d.needs \in BOOLEAN
    BY DEF Document
  <2>5. tools = d.tools /\ needs = FALSE
    BY <2>1, <2>4
  <2> QED BY <2>3, <2>5
<1> HIDE DEF years, seniority, career, skills, tools, work, projects, needs, flags, text
<1>9. n \in Document
  <2> DEFINE m == [d EXCEPT !.years = years, !.seniority = seniority, !.career = career,
                            !.skills = skills]
  <2>1. m \in Document
    BY <1>4, MergedType
  <2>2. n = [m EXCEPT !.tools = tools, !.work = work, !.projects = projects, !.needs = needs,
                      !.flags = flags, !.text = text]
    BY <1>7 DEF Document
  <2> HIDE DEF m
  <2>3. [m EXCEPT !.tools = tools, !.work = work, !.projects = projects, !.needs = needs,
                  !.flags = flags, !.text = text] \in Document
    BY <1>3, <1>5, <1>6, <2>1, ReadListsType
  <2> QED BY <2>2, <2>3
<1>10. /\ n.years = years /\ n.seniority = seniority /\ n.career = career /\ n.skills = skills
       /\ n.text = text /\ n.work = work /\ n.projects = projects
       /\ n.paid = d.paid /\ n.visa = d.visa /\ n.stamp = d.stamp
       /\ n.countries = d.countries /\ n.layout = d.layout /\ n.mode = d.mode
       /\ n.tools = tools /\ n.needs = needs /\ n.flags = flags /\ n.filled = d.filled
       /\ n.markets = d.markets /\ n.featured = d.featured
  BY <1>7, ZenonT(60) DEF Document
<1>11. a = fallbackProfile => Failed(d, n)
  <2> SUFFICES ASSUME a = fallbackProfile
               PROVE  n = [d EXCEPT !.text = n.text, !.needs = FALSE, !.flags = "reset"]
    BY DEF Failed
  <2>1. n = [d EXCEPT !.text = n.text, !.needs = n.needs, !.flags = n.flags]
    BY <1>8, <1>9, <1>10, SameButFlags, ZenonT(60)
  <2> QED BY <1>8, <1>10, <2>1
<1>12. n.text = TextOf(k)
  BY <1>10 DEF text, TextOf
<1>13. n.text # <<>>
  BY <1>12 DEF TextOf
<1>14. Fills(d, n)
  BY <1>4, <1>5, <1>10, <1>13 DEF Fills
<1> QED BY <1>9, <1>10, <1>11, <1>12, <1>14
-----------------------------------------------------------------------------
(* The inductive invariant.                                                 *)

Kinds == {"parse", "upload"}
Calls ==
    {NoCall}
    \cup [at : {"analysis"}, kind : Kinds, draft : Document, visit : Nat, seen : Document]
    \cup [at : {"write"}, kind : Kinds, draft : Document, visit : Nat, seen : Document,
          found : Reading]
    \cup [at : {"answer"}, draft : Document, visit : Nat, profile : Document]

\* An analysis that failed is the empty one, and what a handler read has the
\* layout of its paid work, as every stored profile: it will be stored in turn.
CallInv ==
    /\ call \in Calls /\ (call # NoCall => resumes # 0)
    /\ call.at = "write" /\ call.found.failed => call.found = fallbackProfile
    /\ call.at \in {"analysis", "write"} => call.seen.layout \in {"", DeriveResumeLayout(call.seen)}

\* A form that was loaded without derived fields has none yet.
FreshInv == form # NoForm /\ ~loaded => form.visa = "" /\ form.paid = ""

\* What a form wrote is normalised.
WrittenInv ==
    writer \in {"fresh", "pinned"} => \E d \in Document : row = NormalizeProfileJSON(d)

\* While a resume is analysed its form stays open, unless the user is excused,
\* and the answer is the resume's text.
KeepInv ==
    /\ ResumeIsKept
    /\ call # NoCall /\ ~excused => form # NoForm /\ call.visit = visits
    /\ call.at = "answer" => call.profile.text = TextOf(resumes)

Inv == DerivedInv /\ CallInv

LEMMA CallShapes ==
    ASSUME NEW c \in Calls
    PROVE  /\ c = NoCall <=> c.at = "none"
           /\ c.at \in {"none", "analysis", "write", "answer"}
           /\ c.at \in {"analysis", "write"} =>
                c.kind \in Kinds /\ c.draft \in Document /\ c.visit \in Nat /\ c.seen \in Document
           /\ c.at = "write" => c.found \in Reading
           /\ c.at = "answer" =>
                c.draft \in Document /\ c.visit \in Nat /\ c.profile \in Document
<1> DEFINE Analysis == [at : {"analysis"}, kind : Kinds, draft : Document, visit : Nat,
                        seen : Document]
           Write == [at : {"write"}, kind : Kinds, draft : Document, visit : Nat,
                     seen : Document, found : Reading]
           Answer == [at : {"answer"}, draft : Document, visit : Nat, profile : Document]
<1> HIDE DEF Document, Reading, Kinds
<1>1. c = NoCall \/ c \in Analysis \/ c \in Write \/ c \in Answer
  BY DEF Calls
<1>2. CASE c = NoCall
  <2>1. c.at = "none"
    BY <1>2 DEF NoCall
  <2> QED BY <1>2, <2>1
<1>3. CASE c \in Analysis
  <2>1. /\ c.at = "analysis" /\ c.kind \in Kinds /\ c.draft \in Document
        /\ c.visit \in Nat /\ c.seen \in Document
    BY <1>3
  <2> QED BY <2>1 DEF NoCall
<1>4. CASE c \in Write
  <2>1. /\ c.at = "write" /\ c.kind \in Kinds /\ c.draft \in Document
        /\ c.visit \in Nat /\ c.seen \in Document /\ c.found \in Reading
    BY <1>4
  <2> QED BY <2>1 DEF NoCall
<1>5. CASE c \in Answer
  <2>1. c.at = "answer" /\ c.draft \in Document /\ c.visit \in Nat /\ c.profile \in Document
    BY <1>5
  <2> QED BY <2>1 DEF NoCall
<1> QED BY <1>1, <1>2, <1>3, <1>4, <1>5

\* An edit leaves the derived fields, and the text.
LEMMA Edited ==
    ASSUME form \in Document, nextId \in Nat, form.work # <<>>, form.projects # <<>>, Edit
    PROVE  /\ form' \in Document /\ form'.work # <<>> /\ form'.projects # <<>>
           /\ form'.text = form.text /\ form'.visa = form.visa /\ form'.paid = form.paid
<1> DEFINE Ok(e) == /\ e \in Document /\ e.work # <<>> /\ e.projects # <<>>
                    /\ e.text = form.text /\ e.visa = form.visa /\ e.paid = form.paid
<1>1. ASSUME NEW y \in Years PROVE Ok([form EXCEPT !.years = y])
  BY DEF Document
<1>2. Ok([form EXCEPT !.filled = "all", !.tools = TRUE, !.seniority = Or(@, "junior", "")])
  <2>1. Or(form.seniority, "junior", "") \in Seniorities
    BY DEF Document, Or, Seniorities
  <2>2. ASSUME NEW s \in Seniorities
        PROVE  Ok([form EXCEPT !.filled = "all", !.tools = TRUE, !.seniority = s])
    BY DEF Document
  <2>3. [form EXCEPT !.filled = "all", !.tools = TRUE, !.seniority = Or(@, "junior", "")] =
        [form EXCEPT !.filled = "all", !.tools = TRUE,
                     !.seniority = Or(form.seniority, "junior", "")]
    BY DEF Document
  <2> HIDE DEF Ok
  <2> QED BY <2>1, <2>2, <2>3
<1>3. ASSUME NEW m \in Majors, NEW v \in {"yes", "needs_sponsorship"}
      PROVE  Ok(applyMajorMarketAuth(form, m, v))
  <2> DEFINE of == [k \in Majors |-> IF k = m THEN v ELSE readMajorMarketAuth(form, k)]
             yes == {k \in Majors : of[k] = "yes"}
             countries == (form.countries \ Majors) \cup yes
             needs == \E k \in Majors : of[k] = "needs_sponsorship"
  <2>1. yes \in SUBSET Majors /\ countries \in SUBSET Countries /\ needs \in BOOLEAN
    BY DEF Document, Countries
  <2>2. applyMajorMarketAuth(form, m, v) =
            [form EXCEPT !.markets = yes, !.countries = countries, !.needs = needs]
    BY DEF applyMajorMarketAuth, Document
  <2> HIDE DEF of, yes, countries, needs
  <2> QED BY <2>1, <2>2, ZenonT(60) DEF Document
<1>4. Ok([form EXCEPT !.countries = form.markets \cup ({"uk"} \ @)])
  <2> DEFINE countries == form.markets \cup ({"uk"} \ form.countries)
  <2>1. countries \in SUBSET Countries
    BY DEF Document, Countries
  <2>2. [form EXCEPT !.countries = form.markets \cup ({"uk"} \ @)] =
        [form EXCEPT !.countries = countries]
    BY DEF Document
  <2> HIDE DEF countries
  <2> QED BY <2>1, <2>2 DEF Document
<1>5. ASSUME NEW s \in NewRoles PROVE Ok([form EXCEPT !.work = <<s>>])
  <2>1. s \in States
    BY <1>5, AddedAssumption
  <2>2. <<s>> \in Seq(States) /\ <<s>> # <<>>
    BY <2>1
  <2> QED BY <2>2 DEF Document
<1>6. ASSUME NEW s \in NewProjects PROVE Ok(AddProject(s))
  <2> DEFINE projects == Append(form.projects, [id |-> nextId + 1, state |-> s])
  <2>1. s \in States
    BY <1>6, AddedAssumption
  <2>2. form.projects \in Seq(Project) /\ nextId + 1 \in Nat
    <3>1. form.projects \in Seq(Project)
      BY DEF Document
    <3> QED BY <3>1
  <2>3. projects \in Seq(Project) /\ projects # <<>>
    <3>1. [id |-> nextId + 1, state |-> s] \in Project
      BY <2>1, <2>2 DEF Project
    <3> QED BY <2>2, <3>1
  <2>4. AddProject(s) = [form EXCEPT !.projects = projects, !.featured = nextId + 1]
    BY DEF AddProject, Document
  <2> HIDE DEF projects
  <2>5. ASSUME NEW k \in Nat
        PROVE  Ok([form EXCEPT !.projects = projects, !.featured = k])
    BY <2>3 DEF Document
  <2> HIDE DEF Ok
  <2> QED BY <2>2, <2>4, <2>5
<1>7. ASSUME NEW i \in DOMAIN form.projects
      PROVE  Ok([form EXCEPT !.featured = form.projects[i].id])
  <2>1. form.projects \in Seq(Project)
    BY DEF Document
  <2>2. form.projects[i].id \in Nat
    <3>1. form.projects[i] \in Project
      BY <2>1
    <3> QED BY <3>1 DEF Project
  <2> QED BY <2>2 DEF Document
<1>8. Ok(form')
  <2>1. \/ \E y \in Years : form' = [form EXCEPT !.years = y]
        \/ form' = [form EXCEPT !.filled = "all", !.tools = TRUE, !.seniority = Or(@, "junior", "")]
        \/ \E m \in Majors, v \in {"yes", "needs_sponsorship"} :
              form' = applyMajorMarketAuth(form, m, v)
        \/ form' = [form EXCEPT !.countries = form.markets \cup ({"uk"} \ @)]
        \/ \E s \in NewRoles : form' = [form EXCEPT !.work = <<s>>]
        \/ \E s \in NewProjects : form' = AddProject(s)
        \/ \E i \in DOMAIN form.projects : form' = [form EXCEPT !.featured = form.projects[i].id]
    BY DEF Edit
  <2> HIDE DEF Ok
  <2> QED BY <1>1, <1>2, <1>3, <1>4, <1>5, <1>6, <1>7, <2>1
<1> QED BY <1>8

\* A document that is saved gets the mode and layout of its paid work, and keeps
\* the resume at its end.
LEMMA Saved ==
    ASSUME NEW d \in Document, NEW n, n = NormalizeProfileJSON(d)
    PROVE  /\ n \in Document /\ n.layout # "" /\ n.layout = DeriveResumeLayout(n)
           /\ n.mode = DeriveProfileMode(n)
           /\ \A k : EndsWith(d, k) => EndsWith(n, k)
<1>1. n \in Document /\ n.layout = DeriveResumeLayout(n) /\ n.mode = DeriveProfileMode(n)
      /\ n.text = CompileResumePlainText([n EXCEPT !.text = d.text])
      /\ [n EXCEPT !.text = d.text] \in Document
  BY Normalized
<1>2. n.layout # ""
  BY <1>1, DerivedTypes DEF Layouts
<1>3. d.text # <<>> => n.text # <<>> /\ n.text[Len(n.text)] = d.text[Len(d.text)]
  <2> DEFINE e == [n EXCEPT !.text = d.text]
  <2>1. e.text = d.text /\ e \in Document /\ n.text = CompileResumePlainText(e)
    BY <1>1 DEF Document
  <2> HIDE DEF e
  <2> QED BY <2>1, CompileKeeps
<1> QED BY <1>1, <1>2, <1>3 DEF EndsWith
\* Visa and paid work are what a document's own answers say.
Agrees(n) ==
    /\ n.visa = "need_sponsorship" <=> n.needs
    /\ n.paid = PaidFor([n EXCEPT !.paid = ""], HasFull(n.work))

\* What is saved does, if the document had none (o), or what was derived for it.
LEMMA SavedAgrees ==
    ASSUME NEW d \in Document, NEW n, n = NormalizeProfileJSON(d),
           NEW o, d.years = o.years, d.work = o.work, d.needs = o.needs,
           o.visa = "", o.paid = "",
           d.visa = "" \/ d.visa = Visa(o),
           d.paid = "" \/ d.paid = PaidFor(o, HasFull(o.work))
    PROVE  Agrees(n)
<1>1. n \in Document /\ n.paid = PaidFor(d, HasFull(d.work)) /\ n.visa = Visa(d) /\ Same(d, n)
  BY Normalized
<1>2. n.years = d.years /\ n.work = d.work /\ n.needs = d.needs
  BY <1>1 DEF Same
<1>3. n.visa = "need_sponsorship" <=> n.needs
  <2>1. d.visa = "" => n.visa = IF d.needs THEN "need_sponsorship" ELSE "citizen_pr"
    BY <1>1 DEF Visa
  <2>2. d.visa # "" => n.visa = IF d.needs THEN "need_sponsorship" ELSE "citizen_pr"
    BY <1>1 DEF Visa
  <2>3. d.needs \in BOOLEAN
    BY DEF Document
  <2> QED BY <1>2, <2>1, <2>2, <2>3
<1>4. n.paid = PaidFor(o, HasFull(o.work))
  BY <1>1 DEF PaidFor
<1>5. PaidFor([n EXCEPT !.paid = ""], HasFull(n.work)) = PaidFor(o, HasFull(o.work))
  <2> DEFINE e == [n EXCEPT !.paid = ""]
  <2>1. e.paid = "" /\ e.years = n.years
    BY <1>1 DEF Document
  <2> HIDE DEF e
  <2>2. PaidFor(e, HasFull(n.work)) = PaidFor(o, HasFull(o.work))
    BY <1>2, <2>1 DEF PaidFor
  <2> QED BY <2>2 DEF e
<1> QED BY <1>3, <1>4, <1>5 DEF Agrees

-----------------------------------------------------------------------------
(* Each action keeps the invariant.                                         *)

LEMMA InvInit == Init => Inv
<1> SUFFICES ASSUME Init PROVE Inv
  OBVIOUS
<1> USE DEF Init
<1>1. row \in Document /\ row.layout = ""
  BY EmptyType DEF Empty
<1>2. call \in Calls /\ call.at = "none"
  BY DEF Calls, NoCall
<1>3. TypeOK
  <2>1. /\ latest \in 0..resumes /\ resumes \in 0..MaxResumes
        /\ edits \in 0..MaxEdits /\ visits \in 0..MaxVisits /\ nextId \in Nat
    BY BoundsAssumption
  <2>2. /\ loaded \in BOOLEAN /\ embed \in BOOLEAN /\ excused \in BOOLEAN
        /\ form \in Document \cup {NoForm} /\ form = NoForm
        /\ writer \in {"none", "fresh", "pinned", "resume"}
    OBVIOUS
  <2> QED BY <1>1, <1>2, <2>1, <2>2 DEF TypeOK
<1>4. DerivedFits
  BY <1>1 DEF DerivedFits
<1>5. CallInv
  BY <1>2 DEF CallInv
<1> QED BY <1>3, <1>4, <1>5 DEF Inv, DerivedInv

LEMMA InvLoad == Inv /\ Load => Inv'
<1> SUFFICES ASSUME Inv, Load PROVE Inv'
  OBVIOUS
<1> USE DEF Inv, DerivedInv
<1>1. row \in Document /\ nextId \in Nat /\ visits \in Nat /\ MaxVisits \in Nat
  BY BoundsAssumption DEF TypeOK
<1>2. form' = normalizeProfileDraftFromUnknown(row) /\ UsedIds(row)
  BY DEF Load
<1>3. form' \in Document /\ form'.work # <<>> /\ form'.projects # <<>>
  BY <1>1, <1>2, DraftType
<1>4. nextId' \in Nat
  <2>1. form'.projects \in Seq(Project)
    BY <1>3 DEF Document
  <2>2. Len(form'.projects) \in Nat
    BY <2>1
  <2> QED BY <1>1, <1>2, <2>2 DEF UsedIds
<1>5. visits' \in 0..MaxVisits /\ loaded' \in BOOLEAN
  <2>1. visits' = visits + 1 /\ visits < MaxVisits
    BY DEF Load
  <2>2. loaded' \in BOOLEAN
    BY DEF Load
  <2> QED BY <1>1, <2>1, <2>2
<1>6. UNCHANGED <<row, call, embed, writer, latest, excused, edits, resumes>>
  BY DEF Load
<1>7. TypeOK'
  BY <1>3, <1>4, <1>5, <1>6 DEF TypeOK
<1>8. DerivedFits' /\ CallInv'
  BY <1>6 DEF DerivedFits, CallInv
<1> QED BY <1>7, <1>8

LEMMA InvEdit == Inv /\ Edit => Inv'
<1> SUFFICES ASSUME Inv, Edit PROVE Inv'
  OBVIOUS
<1> USE DEF Inv, DerivedInv
<1>1. form \in Document /\ form.work # <<>> /\ form.projects # <<>> /\ nextId \in Nat
  BY DEF TypeOK, Edit
<1>2. form' \in Document /\ form'.work # <<>> /\ form'.projects # <<>>
  BY <1>1, Edited
<1>3. nextId' \in Nat
  <2>1. nextId' = IF Len(form'.projects) > Len(form.projects) THEN nextId + 1 ELSE nextId
    BY DEF Edit
  <2>2. nextId' \in {nextId + 1, nextId}
    BY <2>1
  <2> QED BY <1>1, <2>2
<1>4. edits' \in 0..MaxEdits
  <2>1. edits' = edits + 1 /\ edits < MaxEdits
    BY DEF Edit
  <2>2. edits \in 0..MaxEdits
    BY DEF TypeOK
  <2> QED BY <2>1, <2>2, BoundsAssumption
<1>5. UNCHANGED <<row, loaded, call, embed, writer, latest, excused, visits, resumes>>
  BY DEF Edit
<1>6. TypeOK'
  BY <1>2, <1>3, <1>4, <1>5 DEF TypeOK
<1>7. DerivedFits' /\ CallInv'
  BY <1>5 DEF DerivedFits, CallInv
<1> QED BY <1>6, <1>7

\* What is saved, whatever else a save does.
LEMMA InvWrites ==
    ASSUME Inv, NEW d \in Document, Writes(d)
    PROVE  row' \in Document /\ DerivedFits' /\ writer' \in {"none", "fresh", "pinned", "resume"}
<1>1. row' = NormalizeProfileJSON(d) /\ writer' \in {"fresh", "pinned"}
  BY DEF Writes
<1>2. row' \in Document /\ row'.layout # "" /\ row'.layout = DeriveResumeLayout(row')
      /\ row'.mode = DeriveProfileMode(row')
  BY <1>1, Saved
<1> QED BY <1>1, <1>2 DEF DerivedFits

LEMMA InvPutProfile == Inv /\ PutProfile => Inv'
<1> SUFFICES ASSUME Inv, PutProfile PROVE Inv'
  OBVIOUS
<1>1. form \in Document /\ Writes(form)
  BY DEF Inv, DerivedInv, TypeOK, PutProfile
<1>2. row' \in Document /\ DerivedFits' /\ writer' \in {"none", "fresh", "pinned", "resume"}
  BY <1>1, InvWrites
<1>3. UNCHANGED <<form, loaded, call, embed, latest, excused, edits, visits, resumes, nextId>>
  BY DEF PutProfile
<1>4. TypeOK' /\ CallInv'
  BY <1>2, <1>3 DEF Inv, DerivedInv, TypeOK, CallInv
<1> QED BY <1>2, <1>4 DEF Inv, DerivedInv

LEMMA InvPostProfileSubmit == Inv /\ PostProfileSubmit => Inv'
<1> SUFFICES ASSUME Inv, PostProfileSubmit PROVE Inv'
  OBVIOUS
<1>1. form \in Document /\ Writes(prepareProfileForSubmit(form))
  BY DEF Inv, DerivedInv, TypeOK, PostProfileSubmit
<1>2. prepareProfileForSubmit(form) \in Document
  BY <1>1, Prepared
<1>3. row' \in Document /\ DerivedFits' /\ writer' \in {"none", "fresh", "pinned", "resume"}
  BY <1>1, <1>2, InvWrites
<1>4. /\ UNCHANGED <<loaded, call, latest, edits, visits, resumes, nextId>>
      /\ form' = NoForm /\ embed' = ProfileComplete(row') /\ excused' = (excused \/ call # NoCall)
  BY DEF PostProfileSubmit
<1>5. embed' \in BOOLEAN /\ excused' \in BOOLEAN
  <2>1. ProfileComplete(row') \in BOOLEAN
    BY DEF ProfileComplete
  <2>2. (excused \/ call # NoCall) \in BOOLEAN
    OBVIOUS
  <2> QED BY <1>4, <2>1, <2>2
<1>6. TypeOK' /\ CallInv'
  BY <1>3, <1>4, <1>5 DEF Inv, DerivedInv, TypeOK, CallInv
<1> QED BY <1>3, <1>6 DEF Inv, DerivedInv

LEMMA InvLeave == Inv /\ Leave => Inv'
<1> SUFFICES ASSUME Inv, Leave PROVE Inv'
  OBVIOUS
<1>1. UNCHANGED <<row, loaded, call, embed, writer, latest, edits, visits, resumes, nextId>>
      /\ form' = NoForm
  BY DEF Leave
<1>2. excused' \in BOOLEAN
  BY DEF Leave
<1> QED BY <1>1, <1>2 DEF Inv, DerivedInv, TypeOK, CallInv, DerivedFits

LEMMA InvPostResume == ASSUME NEW kind \in Kinds, Inv, PostResume(kind) PROVE Inv'
<1> USE DEF Inv, DerivedInv
<1> DEFINE seen == IF kind = "parse" THEN row ELSE Empty
<1>1. seen \in Document /\ seen.layout \in {"", DeriveResumeLayout(seen)}
  BY EmptyType DEF TypeOK, DerivedFits, Empty
<1>2. form \in Document /\ visits \in Nat /\ resumes \in Nat
  BY BoundsAssumption DEF TypeOK, PostResume
<1>3. call' = [at |-> "analysis", kind |-> kind, draft |-> form, visit |-> visits, seen |-> seen]
  BY DEF PostResume
<1>4. UNCHANGED <<row, form, loaded, embed, writer, latest, excused, edits, visits, nextId>>
      /\ resumes' = resumes + 1 /\ resumes < MaxResumes
  BY DEF PostResume
<1> HIDE DEF seen
<1>5. call' \in Calls /\ call'.at = "analysis" /\ call'.seen = seen
  BY <1>1, <1>2, <1>3 DEF Calls
<1>6. resumes' \in 0..MaxResumes /\ resumes' # 0 /\ latest' \in 0..resumes'
  BY <1>4, BoundsAssumption DEF TypeOK
<1>7. TypeOK'
  BY <1>4, <1>5, <1>6 DEF TypeOK
<1>8. DerivedFits'
  BY <1>4 DEF DerivedFits
<1>9. CallInv'
  BY <1>1, <1>5, <1>6 DEF CallInv
<1> QED BY <1>7, <1>8, <1>9

\* What an analysis finds.
LEMMA FoundType ==
    ASSUME NEW a \in Analyses \cup {fallbackProfile}
    PROVE  a \in Reading /\ (a.failed => a = fallbackProfile)
<1>1. fallbackProfile \in Reading
  <2>1. <<>> \in Seq(States) /\ <<>> \in Seq([id : {0}, state : States])
    OBVIOUS
  <2> QED BY <2>1 DEF fallbackProfile, Reading, Years, Seniorities
<1> QED BY <1>1, AnalysesAssumption

LEMMA InvAnalyze ==
    ASSUME NEW a \in Analyses \cup {fallbackProfile}, Inv, analyzeResumeWithAI(a) PROVE Inv'
<1> USE DEF Inv, DerivedInv
<1> DEFINE seen == IF call.kind = "parse" THEN call.seen ELSE row
<1>1. call \in Calls /\ call.at = "analysis" /\ resumes # 0
      /\ call.seen.layout \in {"", DeriveResumeLayout(call.seen)}
  <2>1. call \in Calls /\ call.at = "analysis"
    BY DEF analyzeResumeWithAI, CallInv
  <2>2. call # NoCall
    BY <2>1 DEF NoCall
  <2> QED BY <2>1, <2>2 DEF CallInv
<1>2. call.kind \in Kinds /\ call.draft \in Document /\ call.visit \in Nat /\ call.seen \in Document
  BY <1>1, CallShapes
<1>3. seen \in Document /\ seen.layout \in {"", DeriveResumeLayout(seen)}
  BY <1>1, <1>2 DEF TypeOK, DerivedFits
<1>4. call' = [at |-> "write", kind |-> call.kind, draft |-> call.draft, visit |-> call.visit,
               seen |-> seen, found |-> a]
  BY DEF analyzeResumeWithAI
<1>5. UNCHANGED <<row, form, loaded, embed, writer, latest, excused, edits, visits, resumes, nextId>>
  BY DEF analyzeResumeWithAI
<1>6. a \in Reading /\ (a.failed => a = fallbackProfile)
  BY FoundType
<1> HIDE DEF seen
<1>7. call' \in Calls /\ call'.at = "write" /\ call'.seen = seen /\ call'.found = a
  BY <1>2, <1>3, <1>4, <1>6 DEF Calls
<1>8. TypeOK' /\ DerivedFits'
  BY <1>5, <1>7 DEF TypeOK, DerivedFits
<1>9. CallInv'
  BY <1>1, <1>3, <1>5, <1>6, <1>7 DEF CallInv
<1> QED BY <1>8, <1>9

\* What a handler stores.
LEMMA Stored ==
    ASSUME Inv, ResumeStored
    PROVE  /\ call.seen \in Document /\ call.found \in Reading /\ call.draft \in Document
           /\ call.visit \in Nat /\ resumes \in Nat \ {0}
           /\ call.found.failed => call.found = fallbackProfile
           /\ call.seen.layout \in {"", DeriveResumeLayout(call.seen)}
           /\ row' = mergeParsedProfileMaps(call.seen, call.found, resumes)
<1>1. call \in Calls /\ call.at = "write"
  BY DEF Inv, CallInv, ResumeStored
<1>2. call # NoCall
  BY <1>1 DEF NoCall
<1>3. resumes # 0 /\ resumes \in Nat
  <2>1. resumes # 0
    BY <1>2 DEF Inv, CallInv
  <2>2. resumes \in 0..MaxResumes
    BY DEF Inv, DerivedInv, TypeOK
  <2> QED BY <2>1, <2>2, BoundsAssumption
<1> QED BY <1>1, <1>3, CallShapes DEF Inv, CallInv, ResumeStored

LEMMA InvResumeStored == Inv /\ ResumeStored => Inv'
<1> SUFFICES ASSUME Inv, ResumeStored PROVE Inv'
  OBVIOUS
<1>0. /\ call.seen \in Document /\ call.found \in Reading /\ resumes \in Nat \ {0}
      /\ row' = mergeParsedProfileMaps(call.seen, call.found, resumes)
  BY Stored
<1>1. row' \in Document /\ row'.paid = call.seen.paid /\ row'.layout = call.seen.layout
  BY <1>0, ResumeMerged
<1>2. row'.layout \in {"", DeriveResumeLayout(row')}
  BY <1>1, Stored DEF DeriveResumeLayout
<1>3. call' = [at |-> "answer", draft |-> call.draft, visit |-> call.visit, profile |-> row']
      /\ writer' = "resume"
      /\ UNCHANGED <<form, loaded, embed, latest, excused, edits, visits, resumes, nextId>>
  BY DEF ResumeStored
<1>4. call' \in Calls /\ call'.at = "answer"
  BY <1>1, <1>3, Stored DEF Calls
<1>5. TypeOK'
  BY <1>1, <1>3, <1>4 DEF Inv, DerivedInv, TypeOK
<1>6. DerivedFits'
  BY <1>2, <1>3 DEF DerivedFits
<1>7. CallInv'
  BY <1>3, <1>4, Stored DEF CallInv
<1> QED BY <1>5, <1>6, <1>7 DEF Inv, DerivedInv

\* What an answer makes of an open form.
LEMMA Answered ==
    ASSUME Inv, ResumeAnswered, form # NoForm, call.visit = visits
    PROVE  /\ form \in Document /\ form' \in Document /\ form' = Parsed
           /\ nextId' \in Nat
           /\ Fills(form, form')
           /\ form'.paid = form.paid /\ form'.visa = form.visa
           /\ call.profile.text # <<>> => form'.text = call.profile.text
<1>1. form \in Document /\ nextId \in Nat /\ call \in Calls /\ call.at = "answer"
  BY DEF Inv, DerivedInv, TypeOK, CallInv, ResumeAnswered
<1>2. call.draft \in Document /\ call.profile \in Document
  BY <1>1, CallShapes
<1> DEFINE p == normalizeProfileDraftFromUnknown(call.profile)
           m == mergeParsedProfile(call.draft, p)
<1>3. p \in Document /\ p.text = call.profile.text
  BY <1>1, <1>2, DraftType
<1>4. form' = mergeParsedProfile(form, m) /\ form' = Parsed /\ UsedIds(call.profile)
  BY DEF ResumeAnswered, Parsed
<1>5. nextId' \in Nat
  <2>1. p.projects \in Seq(Project) /\ nextId' = nextId + Len(p.projects)
    BY <1>3, <1>4 DEF Document, UsedIds
  <2> HIDE DEF p
  <2>2. Len(p.projects) \in Nat
    BY <2>1
  <2> QED BY <1>1, <2>1, <2>2
<1> HIDE DEF p
<1>6. m \in Document /\ (p.text # <<>> => m.text = p.text)
  <2>1. ASSUME NEW n, n = mergeParsedProfile(call.draft, p)
        PROVE  n \in Document /\ (p.text # <<>> => n.text = p.text)
    BY <1>2, <1>3, <2>1, MergeKeeps
  <2> QED BY <2>1
<1> HIDE DEF m
<1>7. /\ form' \in Document
      /\ Fills(form, form')
      /\ m.text # <<>> => form'.text = m.text
      /\ form'.paid = form.paid /\ form'.visa = form.visa
  BY <1>1, <1>4, <1>6, MergeKeeps, ZenonT(60)
<1> QED BY <1>1, <1>3, <1>4, <1>5, <1>6, <1>7

LEMMA InvResumeAnswered == Inv /\ ResumeAnswered => Inv'
<1> SUFFICES ASSUME Inv, ResumeAnswered PROVE Inv'
  OBVIOUS
<1>1. call' = NoCall
      /\ UNCHANGED <<row, loaded, embed, writer, excused, edits, visits, resumes>>
  BY DEF ResumeAnswered
<1>2. call' \in Calls /\ call'.at = "none"
  BY <1>1 DEF Calls, NoCall
<1>3. /\ form' \in Document \cup {NoForm}
      /\ form' # NoForm => form'.work # <<>> /\ form'.projects # <<>>
      /\ latest' \in 0..resumes /\ nextId' \in Nat
  <2>1. CASE form # NoForm /\ call.visit = visits
    <3>1. latest' = resumes
      BY <2>1 DEF ResumeAnswered
    <3>2. form.work # <<>> /\ form.projects # <<>> /\ resumes \in Nat
      BY <2>1, BoundsAssumption DEF Inv, DerivedInv, TypeOK
    <3>3. form' \in Document /\ form'.work # <<>> /\ form'.projects # <<>> /\ nextId' \in Nat
      BY <2>1, <3>2, Answered DEF Fills
    <3> QED BY <3>1, <3>2, <3>3
  <2>2. CASE ~(form # NoForm /\ call.visit = visits)
    <3>1. UNCHANGED <<form, nextId, latest>>
      BY <2>2 DEF ResumeAnswered
    <3> QED BY <3>1 DEF Inv, DerivedInv, TypeOK
  <2> QED BY <2>1, <2>2
<1>4. TypeOK'
  BY <1>1, <1>2, <1>3 DEF Inv, DerivedInv, TypeOK
<1>5. DerivedFits'
  BY <1>1 DEF Inv, DerivedInv, DerivedFits
<1>6. CallInv'
  BY <1>1, <1>2 DEF CallInv
<1> QED BY <1>4, <1>5, <1>6 DEF Inv, DerivedInv

LEMMA InvStep == Inv /\ [Next]_vars => Inv'
<1> SUFFICES ASSUME Inv, [Next]_vars PROVE Inv'
  OBVIOUS
<1>1. CASE UNCHANGED vars
  BY <1>1 DEF vars, Inv, DerivedInv, TypeOK, DerivedFits, CallInv
<1>2. ASSUME NEW kind \in {"parse", "upload"}, PostResume(kind) PROVE Inv'
  BY <1>2, InvPostResume DEF Kinds
<1>3. ASSUME NEW a \in Analyses \cup {fallbackProfile}, analyzeResumeWithAI(a) PROVE Inv'
  BY <1>3, InvAnalyze
<1> QED
  BY <1>1, <1>2, <1>3, InvLoad, InvEdit, InvPutProfile, InvPostProfileSubmit, InvLeave,
     InvResumeStored, InvResumeAnswered DEF Next

LEMMA InvAlways == Spec => []Inv
BY InvInit, InvStep, PTL DEF Spec

\* The documents keep their shape, and the stored layout and mode are those of
\* the stored paid work, years and seniority, whoever wrote last.
THEOREM DerivedAlways == Spec => []DerivedInv
<1>1. Inv => DerivedInv
  BY DEF Inv
<1> QED BY <1>1, InvAlways, PTL
-----------------------------------------------------------------------------
(* The answers of a form.                                                   *)

\* What a save writes is normalised from a document that has the form's
\* answers.
LEMMA WritesAnswers ==
    ASSUME Inv, FreshInv, PutProfile \/ PostProfileSubmit
    PROVE  /\ \E d \in Document : row' = NormalizeProfileJSON(d) /\ d.text = form.text
           /\ writer' = "fresh" => AnswersAgree'
           /\ form \in Document
<1>1. form \in Document /\ form # NoForm
  BY DEF Inv, DerivedInv, TypeOK, PutProfile, PostProfileSubmit
<1>2. writer' = "fresh" => ~loaded
  BY DEF PutProfile, PostProfileSubmit, Writes
<1>3. PICK d \in Document :
        /\ row' = NormalizeProfileJSON(d) /\ d.text = form.text
        /\ d.years = form.years /\ d.work = form.work /\ d.needs = form.needs
        /\ d.visa = form.visa \/ d.visa = Visa(form)
        /\ d.paid = form.paid \/ d.paid = PaidFor(form, HasFull(form.work))
  <2>1. CASE PutProfile
    <3>1. row' = NormalizeProfileJSON(form)
      BY <2>1 DEF PutProfile, Writes
    <3> QED BY <1>1, <3>1
  <2>2. CASE PostProfileSubmit
    <3>1. row' = NormalizeProfileJSON(prepareProfileForSubmit(form))
      BY <2>2 DEF PostProfileSubmit, Writes
    <3>2. ASSUME NEW p, p = prepareProfileForSubmit(form)
          PROVE  /\ p \in Document /\ p.text = form.text
                 /\ p.years = form.years /\ p.work = form.work /\ p.needs = form.needs
                 /\ p.visa = Visa(form) /\ p.paid = PaidFor(form, HasFull(form.work))
      BY <1>1, <3>2, Prepared
    <3> QED BY <3>1, <3>2
  <2> QED BY <2>1, <2>2
<1>4. ASSUME writer' = "fresh" PROVE Agrees(row')
  <2>1. form.visa = "" /\ form.paid = ""
    BY <1>1, <1>2, <1>4 DEF FreshInv
  <2> QED BY <1>3, <2>1, SavedAgrees
<1>5. writer' = "fresh" => AnswersAgree'
  BY <1>4 DEF AnswersAgree, Agrees
<1> QED BY <1>1, <1>3, <1>5

\* Only a save and a resume's handler write the stored profile.
LEMMA RowWrites ==
    ASSUME [Next]_vars
    PROVE  \/ PutProfile \/ PostProfileSubmit
           \/ ResumeStored /\ writer' = "resume"
           \/ UNCHANGED <<row, writer>>
BY DEF Next, vars, Load, Edit, Leave, PostResume, analyzeResumeWithAI, ResumeStored, ResumeAnswered

LEMMA FreshStep == Inv /\ FreshInv /\ [Next]_vars => FreshInv'
<1> SUFFICES ASSUME Inv, FreshInv, [Next]_vars PROVE FreshInv'
  OBVIOUS
<1>0. row \in Document /\ form \in Document \cup {NoForm} /\ nextId \in Nat
  BY DEF Inv, DerivedInv, TypeOK
<1>1. CASE Load
  <2>1. form' = normalizeProfileDraftFromUnknown(row)
        /\ loaded' = (row.visa # "" \/ form'.paid # "")
    BY <1>1 DEF Load
  <2>2. form'.visa = row.visa
    BY <1>0, <2>1, DraftType
  <2> QED BY <2>1, <2>2 DEF FreshInv
<1>2. CASE Edit
  <2>1. form \in Document /\ form # NoForm /\ form.work # <<>> /\ form.projects # <<>>
        /\ loaded' = loaded
    BY <1>2 DEF Edit, Inv, DerivedInv, TypeOK
  <2>2. form'.visa = form.visa /\ form'.paid = form.paid
    BY <1>0, <1>2, <2>1, Edited
  <2> QED BY <2>1, <2>2 DEF FreshInv
<1>3. CASE ResumeAnswered
  <2>1. CASE form # NoForm /\ call.visit = visits
    <3>1. form'.visa = form.visa /\ form'.paid = form.paid /\ loaded' = loaded
      BY <1>3, <2>1, Answered DEF ResumeAnswered
    <3> QED BY <2>1, <3>1 DEF FreshInv
  <2>2. CASE ~(form # NoForm /\ call.visit = visits)
    BY <1>3, <2>2 DEF ResumeAnswered, FreshInv
  <2> QED BY <2>1, <2>2
<1>4. CASE ~(Load \/ Edit \/ ResumeAnswered)
  <2>1. form' = NoForm \/ UNCHANGED <<form, loaded>>
    BY <1>4 DEF Next, vars, PutProfile, PostProfileSubmit, Leave, PostResume,
                analyzeResumeWithAI, ResumeStored
  <2> QED BY <2>1 DEF FreshInv
<1> QED BY <1>1, <1>2, <1>3, <1>4

LEMMA FreshAlways == Spec => [](Inv /\ FreshInv)
<1>1. Init => FreshInv
  BY DEF Init, FreshInv
<1> QED BY <1>1, InvInit, InvStep, FreshStep, PTL DEF Spec

\* A document saved by a form opened without derived fields says of visa and
\* paid work what its answers say, however often they were changed.
THEOREM AnswersAlwaysAgree == Spec => []AnswersAgree
<1>1. Init => AnswersAgree
  BY DEF Init, AnswersAgree
<1>2. Inv /\ FreshInv /\ AnswersAgree /\ [Next]_vars => AnswersAgree'
  <2> SUFFICES ASSUME Inv, FreshInv, AnswersAgree, [Next]_vars PROVE AnswersAgree'
    OBVIOUS
  <2>1. CASE PutProfile \/ PostProfileSubmit
    <3>1. writer' # "fresh" => AnswersAgree'
      BY DEF AnswersAgree
    <3> QED BY <2>1, <3>1, WritesAnswers
  <2>2. CASE writer' = "resume"
    BY <2>2 DEF AnswersAgree
  <2>3. CASE UNCHANGED <<row, writer>>
    BY <2>3 DEF AnswersAgree
  <2> QED BY <2>1, <2>2, <2>3, RowWrites
<1> QED BY <1>1, <1>2, FreshAlways, PTL DEF Spec

-----------------------------------------------------------------------------
(* The rules of the two sides.                                              *)

LEMMA WrittenAlways == Spec => []WrittenInv
<1>1. Init => WrittenInv
  BY DEF Init, WrittenInv
<1>2. Inv /\ FreshInv /\ WrittenInv /\ [Next]_vars => WrittenInv'
  <2> SUFFICES ASSUME Inv, FreshInv, WrittenInv, [Next]_vars PROVE WrittenInv'
    OBVIOUS
  <2>1. CASE PutProfile \/ PostProfileSubmit
    BY <2>1, WritesAnswers DEF WrittenInv
  <2>2. CASE writer' = "resume"
    BY <2>2 DEF WrittenInv
  <2>3. CASE UNCHANGED <<row, writer>>
    BY <2>3 DEF WrittenInv
  <2> QED BY <2>1, <2>2, <2>3, RowWrites
<1> QED BY <1>1, <1>2, FreshAlways, PTL DEF Spec

\* The server changes nothing but the text of what the form prepared, and of
\* what a form had it store; nor the text, where employment leads.
THEOREM NormalizeAlwaysSettles == Spec => []NormalizeSettles
<1>1. Inv /\ WrittenInv => NormalizeSettles
  <2> SUFFICES ASSUME Inv, WrittenInv PROVE NormalizeSettles
    OBVIOUS
  <2>1. ASSUME form # NoForm PROVE SettledBy(prepareProfileForSubmit(form))
    <3>1. form \in Document
      BY <2>1 DEF Inv, DerivedInv, TypeOK
    <3> QED BY <3>1, Prepared
  <2>2. ASSUME writer \in {"fresh", "pinned"}
        PROVE  /\ SettledBy(row)
               /\ row.layout = "employment_led" => NormalizeProfileJSON(row) = row
    <3>1. PICK d \in Document : row = NormalizeProfileJSON(d)
      BY <2>2 DEF WrittenInv
    <3> QED BY <3>1, NormalizedSettles
  <2> QED BY <2>1, <2>2 DEF NormalizeSettles
<1> QED BY <1>1, InvAlways, WrittenAlways, PTL

-----------------------------------------------------------------------------
(* Resumes.                                                                 *)

LEMMA KeepStep == Inv /\ FreshInv /\ KeepInv /\ [Next]_vars => KeepInv'
<1> SUFFICES ASSUME Inv, FreshInv, KeepInv, [Next]_vars PROVE KeepInv'
  OBVIOUS
<1>0. /\ row \in Document /\ form \in Document \cup {NoForm} /\ nextId \in Nat
      /\ visits \in 0..MaxVisits /\ resumes \in 0..MaxResumes
  BY DEF Inv, DerivedInv, TypeOK
<1>1. CASE Load
  <2>1. /\ form = NoForm /\ form' = normalizeProfileDraftFromUnknown(row)
        /\ UNCHANGED <<row, call, latest, excused, resumes>>
    BY <1>1 DEF Load
  <2>2. form'.text = row.text /\ form' \in Document
    BY <1>0, <2>1, DraftType
  <2>3. form' # NoForm
    BY <2>2, NoFormAssumption
  <2>4. excused \/ call = NoCall
    BY <2>1 DEF KeepInv
  <2> QED BY <2>1, <2>2, <2>3, <2>4 DEF KeepInv, ResumeIsKept, EndsWith
<1>2. CASE Edit
  <2>1. /\ form \in Document /\ form # NoForm /\ form.work # <<>> /\ form.projects # <<>>
        /\ UNCHANGED <<row, call, latest, excused, visits, resumes>>
    BY <1>2 DEF Edit, Inv, DerivedInv, TypeOK
  <2>2. form'.text = form.text /\ form' \in Document
    BY <1>0, <1>2, <2>1, Edited
  <2>3. form' # NoForm
    BY <2>2, NoFormAssumption
  <2> QED BY <2>1, <2>2, <2>3 DEF KeepInv, ResumeIsKept, EndsWith
<1>3. CASE PutProfile
  <2>1. form # NoForm /\ UNCHANGED <<form, call, latest, excused, visits, resumes>>
    BY <1>3 DEF PutProfile
  <2> QED BY <2>1 DEF KeepInv, ResumeIsKept, EndsWith
<1>4. CASE PostProfileSubmit
  <2>1. /\ form # NoForm /\ form' = NoForm /\ excused' = (excused \/ call # NoCall)
        /\ UNCHANGED <<call, latest, resumes>>
    BY <1>4 DEF PostProfileSubmit
  <2>2. PICK d \in Document : row' = NormalizeProfileJSON(d) /\ d.text = form.text
    BY <1>4, WritesAnswers
  <2>3. \A k : EndsWith(form, k) => EndsWith(row', k)
    <3>1. \A k : EndsWith(d, k) => EndsWith(row', k)
      BY <2>2, Saved
    <3> QED BY <2>2, <3>1 DEF EndsWith
  <2>4. ResumeIsKept'
    BY <2>1, <2>3 DEF KeepInv, ResumeIsKept
  <2> QED BY <2>1, <2>4 DEF KeepInv
<1>5. CASE Leave
  <2>1. /\ form # NoForm /\ form' = NoForm /\ UNCHANGED <<row, call, latest, resumes>>
        /\ excused' = (excused \/ call # NoCall \/ row # NormalizeProfileJSON(form))
    BY <1>5 DEF Leave
  <2>2. ASSUME ~excused' PROVE \A k : EndsWith(form, k) => EndsWith(row, k)
    <3>1. form \in Document /\ row = NormalizeProfileJSON(form)
      BY <1>0, <2>1, <2>2
    <3> QED BY <3>1, Saved
  <2>3. ResumeIsKept'
    BY <2>1, <2>2 DEF KeepInv, ResumeIsKept
  <2> QED BY <2>1, <2>3 DEF KeepInv
<1>6. ASSUME NEW kind \in Kinds, PostResume(kind) PROVE KeepInv'
  <2>1. form # NoForm /\ UNCHANGED <<form, visits>> /\ call'.at = "analysis" /\ call'.visit = visits
    BY <1>6 DEF PostResume
  <2>2. call' # NoCall
    BY <2>1 DEF NoCall
  <2> QED BY <2>1, <2>2 DEF KeepInv, ResumeIsKept
<1>7. ASSUME NEW a, analyzeResumeWithAI(a) PROVE KeepInv'
  <2>1. /\ UNCHANGED <<form, visits, excused>> /\ call.at = "analysis"
        /\ call'.at = "write" /\ call'.visit = call.visit
    BY <1>7 DEF analyzeResumeWithAI
  <2>2. call # NoCall /\ call' # NoCall
    BY <2>1 DEF NoCall
  <2> QED BY <2>1, <2>2 DEF KeepInv, ResumeIsKept
<1>8. CASE ResumeStored
  <2>1. /\ UNCHANGED <<form, visits, excused, resumes>> /\ call.at = "write"
        /\ call'.at = "answer" /\ call'.visit = call.visit /\ call'.profile = row'
    BY <1>8 DEF ResumeStored
  <2>2. call # NoCall /\ call' # NoCall
    BY <2>1 DEF NoCall
  <2>3. row'.text = TextOf(resumes)
    <3>1. /\ call.seen \in Document /\ call.found \in Reading /\ resumes \in Nat \ {0}
          /\ row' = mergeParsedProfileMaps(call.seen, call.found, resumes)
      BY <1>8, Stored
    <3> QED BY <3>1, ResumeMerged
  <2> QED BY <2>1, <2>2, <2>3 DEF KeepInv, ResumeIsKept
<1>9. CASE ResumeAnswered
  <2>1. /\ call.at = "answer" /\ call' = NoCall
        /\ UNCHANGED <<row, excused, visits, resumes>>
    BY <1>9 DEF ResumeAnswered
  <2>2. call # NoCall /\ call'.at = "none"
    BY <2>1 DEF NoCall
  <2>3. ASSUME ~excused PROVE form' # NoForm /\ EndsWith(form', latest')
    <3>1. form # NoForm /\ call.visit = visits /\ call.profile.text = TextOf(resumes)
      BY <2>1, <2>2, <2>3 DEF KeepInv
    <3>2. call.profile.text # <<>>
      BY <3>1 DEF TextOf
    <3>3. form' \in Document /\ form'.text = TextOf(resumes)
      BY <1>9, <3>1, <3>2, Answered
    <3>4. latest' = resumes
      BY <1>9, <3>1 DEF ResumeAnswered
    <3> QED BY <3>3, <3>4, NoFormAssumption DEF EndsWith, TextOf
  <2> QED BY <2>1, <2>2, <2>3 DEF KeepInv, ResumeIsKept
<1>10. CASE UNCHANGED vars
  BY <1>10 DEF vars, KeepInv, ResumeIsKept
<1> QED
  BY <1>1, <1>2, <1>3, <1>4, <1>5, <1>6, <1>7, <1>8, <1>9, <1>10 DEF Next, Kinds

\* The newest resume that the form heard of ends the text of the open form, and
\* of the stored document once the form is left.
THEOREM ResumeIsAlwaysKept == Spec => []ResumeIsKept
<1>1. Init => KeepInv
  BY DEF Init, KeepInv, ResumeIsKept, NoCall
<1>2. KeepInv => ResumeIsKept
  BY DEF KeepInv
<1> QED BY <1>1, <1>2, KeepStep, FreshAlways, PTL DEF Spec
-----------------------------------------------------------------------------
(* Completion, and what an analysis may overwrite.                          *)

\* A submit is queued for matching exactly when it names a country.
THEOREM CompletionAlwaysAgrees == Spec => CompletionAgrees
<1>1. ASSUME Inv, PostProfileSubmit PROVE embed' <=> row'.countries # {}
  <2>1. form \in Document /\ isApplicantProfileComplete(form)
    BY <1>1 DEF Inv, DerivedInv, TypeOK, PostProfileSubmit
  <2>2. embed' = ProfileComplete(row') /\ row' = NormalizeProfileJSON(prepareProfileForSubmit(form))
    BY <1>1 DEF PostProfileSubmit, Writes
  <2> DEFINE g == getFeaturedProject(form)
  <2>3. g # 0 /\ form.projects[g].state = "full"
    BY <2>1 DEF isApplicantProfileComplete
  <2>4. g \in DOMAIN form.projects
    BY <2>1, <2>3, FeaturedFound
  <2>5. PICK p : p = prepareProfileForSubmit(form)
    OBVIOUS
  <2>6. /\ p \in Document /\ p.text = form.text /\ p.years = form.years /\ p.filled = form.filled
        /\ p.tools = form.tools /\ p.countries = form.countries /\ p.seniority = form.seniority
        /\ p.featured = form.projects[g].id
        /\ \E j \in DOMAIN p.projects : p.projects[j] = form.projects[g]
    <3>1. /\ p \in Document /\ p.text = form.text /\ p.years = form.years
          /\ p.filled = form.filled /\ p.tools = form.tools /\ p.countries = form.countries
          /\ p.seniority = form.seniority
      BY <2>1, <2>5, Prepared
    <3>2. p.featured = IF g = 0 THEN form.featured ELSE form.projects[g].id
      BY <2>1, <2>5, Prepared
    <3>3. NoneLost(form, p)
      BY <2>1, <2>5, Prepared
    <3> QED BY <2>3, <2>4, <3>1, <3>2, <3>3 DEF NoneLost
  <2>7. /\ row' \in Document /\ row'.projects = reorderFeaturedProject(p) /\ Same(p, row')
        /\ \A k : EndsWith(p, k) => EndsWith(row', k)
    BY <2>2, <2>5, <2>6, Normalized, Saved
  <2>8. row'.years = p.years /\ row'.filled = p.filled /\ row'.tools = p.tools
        /\ row'.countries = p.countries /\ row'.seniority = p.seniority
        /\ row'.featured = p.featured
    BY <2>7 DEF Same
  <2>9. featuredProjectComplete(row')
    <3>1. p.projects \in Seq(Project) /\ p.featured \in Nat
      BY <2>6 DEF Document
    <3>2. NoneLost(p, row')
      BY <2>7, <2>8, <3>1, ReorderSettles
    <3>3. \E j \in DOMAIN row'.projects : row'.projects[j] = form.projects[g]
      BY <2>6, <3>2 DEF NoneLost
    <3> QED BY <2>3, <2>6, <2>8, <3>3 DEF featuredProjectComplete
  <2>10. CompileResumePlainText(row') # <<>>
    <3>1. row'.text # <<>>
      <4> DEFINE e == [row' EXCEPT !.text = p.text]
      <4>1. row'.text = CompileResumePlainText(e) /\ e \in Document
        BY <2>2, <2>5, <2>6, Normalized
      <4>2. e.text # <<>>
        BY <2>1, <2>6, <2>7 DEF Document, isApplicantProfileComplete
      <4> HIDE DEF e
      <4> QED BY <4>1, <4>2, CompileKeeps
    <3> QED BY <2>7, <3>1, CompileKeeps
  <2>11. form.filled # "no" /\ form.years # "" /\ form.seniority # "" /\ form.tools
    BY <2>1 DEF isApplicantProfileComplete
  <2> QED BY <2>2, <2>6, <2>8, <2>9, <2>10, <2>11 DEF ProfileComplete
<1>2. Inv /\ [Next]_vars => [PostProfileSubmit => (embed' <=> row'.countries # {})]_vars
  BY <1>1
<1> QED BY <1>2, InvAlways, PTL DEF Spec, CompletionAgrees

LEMMA FilledStays ==
    ASSUME NEW d, NEW n, Fills(d, n), n.paid = d.paid, n.visa = d.visa
    PROVE  Filled(d) \subseteq Filled(n)
<1>1. ASSUME NEW f \in {"years", "seniority", "career", "skills", "paid", "visa"}, d[f] # ""
      PROVE  n[f] # ""
  BY <1>1 DEF Fills
<1>2. ASSUME NEW f \in {"work", "projects", "text"}, d[f] # <<>> PROVE n[f] # <<>>
  BY <1>2 DEF Fills
<1> QED BY <1>1, <1>2 DEF Filled

\* What a resume's handler stores lacks nothing that the profile it read had,
\* nor does its answer empty what the form holds by then.
THEOREM AnalysisAlwaysOnlyFills == Spec => AnalysisOnlyFills
<1> DEFINE Kept ==
      /\ ResumeStored =>
           /\ Filled(call.seen) \subseteq Filled(row')
           /\ row'.stamp = call.seen.stamp /\ row'.countries = call.seen.countries
           /\ call.found.failed =>
                row' = [call.seen EXCEPT !.text = row'.text, !.needs = FALSE, !.flags = "reset"]
      /\ ResumeAnswered /\ form # NoForm => Filled(form) \subseteq Filled(form')
<1>1. ASSUME Inv, ResumeStored
      PROVE  /\ Filled(call.seen) \subseteq Filled(row')
             /\ row'.stamp = call.seen.stamp /\ row'.countries = call.seen.countries
             /\ call.found.failed => Failed(call.seen, row')
  <2>1. /\ call.seen \in Document /\ call.found \in Reading /\ resumes \in Nat \ {0}
        /\ row' = mergeParsedProfileMaps(call.seen, call.found, resumes)
        /\ call.found.failed => call.found = fallbackProfile
    BY <1>1, Stored
  <2>2. /\ Fills(call.seen, row') /\ row'.paid = call.seen.paid /\ row'.visa = call.seen.visa
        /\ row'.stamp = call.seen.stamp /\ row'.countries = call.seen.countries
        /\ call.found = fallbackProfile => Failed(call.seen, row')
    BY <2>1, ResumeMerged
  <2> QED BY <2>1, <2>2, FilledStays
<1>2. ASSUME Inv, ResumeAnswered, form # NoForm PROVE Filled(form) \subseteq Filled(form')
  <2>1. CASE call.visit = visits
    <3>1. Fills(form, form') /\ form'.paid = form.paid /\ form'.visa = form.visa
      BY <1>2, <2>1, Answered
    <3> QED BY <3>1, FilledStays
  <2>2. CASE call.visit # visits
    BY <1>2, <2>2 DEF ResumeAnswered
  <2> QED BY <2>1, <2>2
<1>3. Inv /\ [Next]_vars => [Kept]_vars
  BY <1>1, <1>2 DEF Failed
<1>4. AnalysisOnlyFills <=> [][Kept]_vars
  BY DEF AnalysisOnlyFills
<1> QED BY <1>3, InvAlways, PTL DEF Spec, AnalysisOnlyFills
=============================================================================
