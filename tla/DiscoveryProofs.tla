--------------------------- MODULE DiscoveryProofs ---------------------------
(***************************************************************************)
(* Theorems about Discovery for any listings, boards, queries and number   *)
(* of crawlers: what two overlapping crawlers and a crash can do to the    *)
(* rows and to the queue of the matcher.                                   *)
(***************************************************************************)
EXTENDS Discovery, FiniteSetTheorems, TLAPS

-----------------------------------------------------------------------------
(* Positions of a sequence, and what is picked from them.                   *)

LEMMA FinitePositions ==
    ASSUME NEW n \in Nat, NEW I \in SUBSET (1..n)
    PROVE  IsFiniteSet(I) /\ Cardinality(I) \in Nat
<1>1. IsFiniteSet(1..n)
  BY FS_Interval
<1>2. IsFiniteSet(I)
  BY <1>1, FS_Subset
<1> QED BY <1>2, FS_CardinalityType

\* How many come before a position tells the positions apart ...
LEMMA Ranks ==
    ASSUME NEW n \in Nat, NEW I \in SUBSET (1..n), NEW i \in I
    PROVE  /\ Cardinality(Before(I, i)) \in 0..(Cardinality(I) - 1)
           /\ \A k \in I : i < k => Cardinality(Before(I, i)) < Cardinality(Before(I, k))
<1>1. IsFiniteSet(I) /\ Cardinality(I) \in Nat
  BY FinitePositions
<1>2. ASSUME NEW T \in SUBSET I, i \in T, NEW S \in SUBSET T, i \notin S
      PROVE  Cardinality(S) \in Nat /\ Cardinality(S) < Cardinality(T)
  <2>1. IsFiniteSet(T) /\ IsFiniteSet(T \ {i}) /\ S \in SUBSET (T \ {i})
    BY <1>1, <1>2, FS_Subset, FS_RemoveElement
  <2>2. /\ Cardinality(T \ {i}) = Cardinality(T) - 1 /\ Cardinality(S) <= Cardinality(T \ {i})
        /\ IsFiniteSet(S)
    BY <1>2, <2>1, FS_Subset, FS_RemoveElement
  <2>3. Cardinality(S) \in Nat /\ Cardinality(T) \in Nat
    BY <2>1, <2>2, FS_CardinalityType
  <2> QED BY <2>2, <2>3
<1>3. \A j \in I : j \in Int
  OBVIOUS
<1>4. Before(I, i) \in SUBSET I /\ i \notin Before(I, i)
  BY <1>3 DEF Before
<1>5. Cardinality(Before(I, i)) \in Nat /\ Cardinality(Before(I, i)) < Cardinality(I)
  BY <1>2, <1>4
<1>6. ASSUME NEW k \in I, i < k
      PROVE  Cardinality(Before(I, i)) < Cardinality(Before(I, k))
  <2>1. \A j \in I : j < i => j < k
    <3> SUFFICES ASSUME NEW j \in I, j < i PROVE j < k
      OBVIOUS
    <3>1. i \in Int /\ j \in Int /\ k \in Int
      BY <1>3
    <3> QED BY <1>6, <3>1
  <2>2. Before(I, i) \in SUBSET Before(I, k) /\ i \in Before(I, k) /\ Before(I, k) \in SUBSET I
    BY <1>6, <2>1 DEF Before
  <2> QED BY <1>2, <1>4, <2>2
<1> QED BY <1>1, <1>5, <1>6

\* ... so that counting runs through all of them, once and in order.
LEMMA NthPosition ==
    ASSUME NEW n \in Nat, NEW I \in SUBSET (1..n)
    PROVE  /\ Cardinality(I) \in Nat
           /\ \A k \in 1..Cardinality(I) : Nth(I, k) \in I
           /\ \A i \in I : \E k \in 1..Cardinality(I) : Nth(I, k) = i
           /\ \A k, l \in 1..Cardinality(I) : k < l => Nth(I, k) < Nth(I, l)
<1> DEFINE c == Cardinality(I)
           rank == [i \in I |-> Cardinality(Before(I, i)) + 1]
<1>1. IsFiniteSet(I) /\ c \in Nat /\ \A i \in I : i \in Int
  BY FinitePositions
<1>2. \A i \in I : rank[i] \in 1..c /\ rank[i] = Cardinality(Before(I, i)) + 1
  <2> SUFFICES ASSUME NEW i \in I
               PROVE  rank[i] \in 1..c /\ rank[i] = Cardinality(Before(I, i)) + 1
    OBVIOUS
  <2>1. Cardinality(Before(I, i)) \in 0..(c - 1)
    BY Ranks
  <2>2. Cardinality(Before(I, i)) + 1 \in 1..c
    BY <1>1, <2>1
  <2> QED BY <2>2
<1>3. \A i, k \in I : i < k => rank[i] < rank[k]
  <2> SUFFICES ASSUME NEW i \in I, NEW k \in I, i < k PROVE rank[i] < rank[k]
    OBVIOUS
  <2>1. /\ Cardinality(Before(I, i)) < Cardinality(Before(I, k))
        /\ Cardinality(Before(I, i)) \in 0..(c - 1) /\ Cardinality(Before(I, k)) \in 0..(c - 1)
    BY Ranks
  <2> QED BY <1>1, <2>1
<1>4. rank \in [I -> 1..c]
  BY <1>2
<1> HIDE DEF rank
<1>5. \A i, k \in I : rank[i] = rank[k] => i = k
  <2> SUFFICES ASSUME NEW i \in I, NEW k \in I, rank[i] = rank[k], i # k PROVE FALSE
    OBVIOUS
  <2>1. i \in Int /\ k \in Int /\ rank[i] \in Int /\ rank[k] \in Int
    BY <1>1, <1>2
  <2>2. i < k \/ k < i
    BY <2>1
  <2>3. rank[i] < rank[k] \/ rank[k] < rank[i]
    BY <1>3, <2>2
  <2> QED BY <2>1, <2>3
<1>6. rank \in Injection(I, 1..c)
  BY <1>4, <1>5 DEF Injection, IsInjective
<1>7. IsFiniteSet(1..c) /\ Cardinality(1..c) = c
  BY <1>1, FS_Interval
<1>8. rank \in Surjection(I, 1..c)
  BY <1>6, <1>7, FS_Injection
<1>9. ASSUME NEW k \in 1..c PROVE Nth(I, k) \in I /\ rank[Nth(I, k)] = k
  <2>1. PICK i \in I : rank[i] = k
    BY <1>8 DEF Surjection
  <2>2. Cardinality(Before(I, i)) \in 0..(c - 1) /\ k = Cardinality(Before(I, i)) + 1
    BY <1>2, <2>1, Ranks
  <2>3. Cardinality(Before(I, i)) = k - 1
    BY <1>1, <2>2
  <2>4. Nth(I, k) \in I /\ Cardinality(Before(I, Nth(I, k))) = k - 1
    BY <2>3 DEF Nth
  <2>5. k - 1 + 1 = k
    BY <1>1
  <2> QED BY <1>2, <2>4, <2>5
<1>10. \A i \in I : Nth(I, rank[i]) = i /\ rank[i] \in 1..c
  BY <1>2, <1>5, <1>9
<1>11. ASSUME NEW k \in 1..c, NEW l \in 1..c, k < l PROVE Nth(I, k) < Nth(I, l)
  <2>0. Nth(I, k) \in I /\ Nth(I, l) \in I
    BY <1>9
  <2>1. k \in Int /\ l \in Int /\ Nth(I, k) \in Int /\ Nth(I, l) \in Int
    <3>1. k \in Int /\ l \in Int
      BY <1>1
    <3>2. Nth(I, k) \in Int /\ Nth(I, l) \in Int
      BY <1>1, <2>0
    <3> QED BY <3>1, <3>2
  <2>2. Nth(I, l) < Nth(I, k) => l < k
    BY <1>3, <1>9, <2>0, <2>1
  <2>3. Nth(I, k) = Nth(I, l) => k = l
    BY <1>9
  <2> QED BY <1>11, <2>1, <2>2, <2>3
<1> QED BY <1>1, <1>9, <1>10, <1>11

\* What is picked are the elements at the positions, each position once.
LEMMA PickedElements ==
    ASSUME NEW n \in Nat, NEW I \in SUBSET (1..n), NEW seq
    PROVE  /\ Picked(seq, I) \in Seq({seq[i] : i \in I})
           /\ Len(Picked(seq, I)) = Cardinality(I) /\ Cardinality(I) \in Nat
           /\ \A k \in 1..Cardinality(I) : Picked(seq, I)[k] = seq[Nth(I, k)] /\ Nth(I, k) \in I
           /\ \A i \in I : \E k \in 1..Cardinality(I) : Picked(seq, I)[k] = seq[i]
<1>1. Cardinality(I) \in Nat /\ \A k \in 1..Cardinality(I) : Nth(I, k) \in I
  BY NthPosition
<1>2. Picked(seq, I) \in [1..Cardinality(I) -> {seq[i] : i \in I}]
  BY <1>1 DEF Picked
<1>3. Picked(seq, I) \in Seq({seq[i] : i \in I}) /\ Len(Picked(seq, I)) = Cardinality(I)
  BY <1>1, <1>2
<1>4. \A k \in 1..Cardinality(I) : Picked(seq, I)[k] = seq[Nth(I, k)]
  BY DEF Picked
<1>5. \A i \in I : \E k \in 1..Cardinality(I) : Nth(I, k) = i
  BY NthPosition
<1> QED BY <1>1, <1>3, <1>4, <1>5

\* Their type is that of the elements.
LEMMA PickedType ==
    ASSUME NEW n \in Nat, NEW I \in SUBSET (1..n), NEW seq, NEW S, \A i \in I : seq[i] \in S
    PROVE  Picked(seq, I) \in Seq(S) /\ Len(Picked(seq, I)) = Cardinality(I)
<1>1. Cardinality(I) \in Nat /\ \A k \in 1..Cardinality(I) : Nth(I, k) \in I
  BY NthPosition
<1>2. Picked(seq, I) \in [1..Cardinality(I) -> S]
  BY <1>1 DEF Picked
<1> QED BY <1>1, <1>2

\* No position is counted twice ...
LEMMA NthOnce ==
    ASSUME NEW n \in Nat, NEW I \in SUBSET (1..n)
    PROVE  \A k, l \in 1..Cardinality(I) : Nth(I, k) = Nth(I, l) => k = l
<1> SUFFICES ASSUME NEW k \in 1..Cardinality(I), NEW l \in 1..Cardinality(I), k # l,
                    Nth(I, k) = Nth(I, l)
             PROVE  FALSE
  OBVIOUS
<1>1. Nth(I, k) \in I /\ Cardinality(I) \in Nat
  BY NthPosition
<1>2. k \in Int /\ l \in Int /\ Nth(I, k) \in Int
  <2>1. \A j \in I : j \in Int
    OBVIOUS
  <2>2. Nth(I, k) \in Int
    BY <1>1, <2>1
  <2>3. \A c \in Nat : 1..c \subseteq Int
    OBVIOUS
  <2> QED BY <1>1, <2>2, <2>3
<1>3. k < l \/ l < k
  BY <1>2
<1>4. ~(Nth(I, k) < Nth(I, k))
  BY <1>2
<1> QED BY <1>3, <1>4, NthPosition

\* ... so two picked elements differ if those at different positions do.
LEMMA PickedOnce ==
    ASSUME NEW n \in Nat, NEW I \in SUBSET (1..n), NEW seq,
           \A i, j \in I : seq[i] = seq[j] => i = j
    PROVE  \A k, l \in 1..Cardinality(I) : Picked(seq, I)[k] = Picked(seq, I)[l] => k = l
<1> SUFFICES ASSUME NEW k \in 1..Cardinality(I), NEW l \in 1..Cardinality(I),
                    Picked(seq, I)[k] = Picked(seq, I)[l]
             PROVE  k = l
  OBVIOUS
<1>1. Nth(I, k) \in I /\ Nth(I, l) \in I
  BY NthPosition
<1>2. Picked(seq, I)[k] = seq[Nth(I, k)] /\ Picked(seq, I)[l] = seq[Nth(I, l)]
  BY DEF Picked
<1>3. Nth(I, k) = Nth(I, l)
  BY <1>1, <1>2
<1> QED BY <1>3, NthOnce

\* A set of positions that is not empty has a first one.
LEMMA FirstPosition ==
    ASSUME NEW n \in Nat, NEW I \in SUBSET (1..n), I # {}
    PROVE  First(I) \in I /\ \A j \in I : First(I) <= j
<1>1. Cardinality(I) \in Nat /\ IsFiniteSet(I) /\ \A j \in I : j \in Int
  BY FinitePositions
<1>2. 1 \in 1..Cardinality(I)
  BY <1>1, FS_EmptySet
<1>3. Nth(I, 1) \in I
  BY <1>2, NthPosition
<1>4. ASSUME NEW j \in I PROVE Nth(I, 1) <= j
  <2>1. PICK k \in 1..Cardinality(I) : Nth(I, k) = j
    BY NthPosition
  <2>2. k = 1 \/ 1 < k
    BY <1>1
  <2>3. 1 < k => Nth(I, 1) < j
    BY <1>2, <2>1, NthPosition
  <2>4. Nth(I, 1) \in Int /\ j \in Int
    BY <1>1, <1>3
  <2> QED BY <2>1, <2>2, <2>3, <2>4
<1> QED BY <1>3, <1>4 DEF First

-----------------------------------------------------------------------------
(* Forms.                                                                   *)

\* What may be read of a listing's form, with the browser or without.
Read(p, browser) == IF browser THEN extractFormFields[p] ELSE Forms[p]

\* A form asks what controls of the page ask, and as they require it ...
OfPage(form, page) ==
    /\ form \in Seq(FieldSet)
    /\ \A i \in DOMAIN form : \E k \in DOMAIN page :
         page[k].label = form[i].label /\ page[k].required = form[i].required
\* ... and for a document that the page has uploaded, with a file at least once.
Uploads(page, label) ==
    Upload(label) /\ \E k \in DOMAIN page :
        page[k].label = label /\ page[k].type = "file" /\ ~page[k].card
AsksAllUploads(form, page) ==
    \A label : Uploads(page, label) =>
        \E j \in DOMAIN form : form[j].label = label /\ form[j].type = "file"
AsksUploads(form, page) ==
    \A i \in DOMAIN form : Uploads(page, form[i].label) =>
        \E j \in DOMAIN form : form[j].label = form[i].label /\ form[j].type = "file"

AsksOnce(form) == \A i, j \in DOMAIN form : form[i].label = form[j].label => i = j

\* The preferred one of several fields is one of them, a file when they ask for
\* a document and one is.
LEMMA Preferred ==
    ASSUME NEW n \in Nat, NEW same \in SUBSET (1..n), same # {}, NEW fields, NEW label,
           \A i \in same : fields[i].label = label
    PROVE  /\ \E j \in same : pickPreferredFormField(fields, same) = fields[j]
           /\ Upload(label) /\ (\E f \in same : fields[f].type = "file") =>
                 pickPreferredFormField(fields, same).type = "file"
<1> DEFINE files == {i \in same : fields[i].type = "file"}
           short == {i \in same : fields[i].type # "textarea"}
           from == IF Upload(label) /\ files # {} THEN files ELSE IF short # {} THEN short ELSE same
<1>1. First(same) \in same
  BY FirstPosition
<1>2. from \in SUBSET same /\ from # {} /\ from \in SUBSET (1..n)
  OBVIOUS
<1>3. First(from) \in from
  BY <1>2, FirstPosition
<1>4. pickPreferredFormField(fields, same) = fields[First(from)]
  BY <1>1 DEF pickPreferredFormField
<1>5. Upload(label) /\ (\E f \in same : fields[f].type = "file") => fields[First(from)].type = "file"
  BY <1>3
<1> QED BY <1>2, <1>3, <1>4, <1>5

\* DedupeFormFieldsByLabel keeps what the form asks, each question once.
LEMMA DedupeKeeps ==
    ASSUME NEW form \in Seq(FieldSet), NEW page, OfPage(form, page), AsksUploads(form, page)
    PROVE  /\ OfPage(DedupeFormFieldsByLabel(form), page)
           /\ AsksUploads(DedupeFormFieldsByLabel(form), page)
           /\ AsksOnce(DedupeFormFieldsByLabel(form))
<1> DEFINE n == Len(form)
           Same(i) == {j \in DOMAIN form : form[j].label = form[i].label}
           picks == [i \in DOMAIN form |-> pickPreferredFormField(form, Same(i))]
           I == {i \in DOMAIN form : i = First(Same(i))}
           out == DedupeFormFieldsByLabel(form)
<1>1. n \in Nat /\ DOMAIN form = 1..n /\ I \in SUBSET (1..n)
  OBVIOUS
<1>2. out = Picked(picks, I)
  BY DEF DedupeFormFieldsByLabel
<1>3. ASSUME NEW i \in 1..n
      PROVE  /\ \E j \in Same(i) : picks[i] = form[j]
             /\ Upload(form[i].label) /\ (\E f \in Same(i) : form[f].type = "file") =>
                   picks[i].type = "file"
  <2>1. Same(i) \in SUBSET (1..n) /\ Same(i) # {} /\ \A j \in Same(i) : form[j].label = form[i].label
    BY <1>1
  <2>2. picks[i] = pickPreferredFormField(form, Same(i))
    BY <1>1
  <2> DEFINE same == Same(i)  label == form[i].label
  <2> HIDE DEF same, label
  <2>3. same \in SUBSET (1..n) /\ same # {} /\ \A j \in same : form[j].label = label
    BY <2>1 DEF same, label
  <2>4. /\ \E j \in same : pickPreferredFormField(form, same) = form[j]
        /\ Upload(label) /\ (\E f \in same : form[f].type = "file") =>
              pickPreferredFormField(form, same).type = "file"
    BY <1>1, <2>3, Preferred
  <2> QED BY <2>2, <2>4 DEF same, label
<1>4. \A i \in 1..n : picks[i].label = form[i].label /\ picks[i] \in FieldSet
  BY <1>1, <1>3
<1>5. \A i \in I : picks[i] \in FieldSet
  BY <1>1, <1>4
<1> HIDE DEF picks, I, out
<1>6. out \in Seq(FieldSet) /\ Len(out) = Cardinality(I) /\ Cardinality(I) \in Nat
  BY <1>1, <1>2, <1>5, PickedType, NthPosition
<1>7. ASSUME NEW k \in DOMAIN out
      PROVE  Nth(I, k) \in I /\ Nth(I, k) \in 1..n /\ out[k] = picks[Nth(I, k)]
  <2>1. k \in 1..Cardinality(I)
    BY <1>6
  <2> QED BY <1>1, <1>2, <2>1, NthPosition DEF Picked
<1>8. OfPage(out, page)
  <2> SUFFICES ASSUME NEW k \in DOMAIN out
               PROVE  \E c \in DOMAIN page :
                        page[c].label = out[k].label /\ page[c].required = out[k].required
    BY <1>6 DEF OfPage
  <2>1. PICK j \in 1..n : out[k] = form[j]
    BY <1>1, <1>3, <1>7
  <2> QED BY <1>1, <2>1 DEF OfPage
<1>9. AsksUploads(out, page)
  <2> SUFFICES ASSUME NEW k \in DOMAIN out, Uploads(page, out[k].label)
               PROVE  out[k].type = "file"
    BY DEF AsksUploads
  <2>1. PICK i \in 1..n : i = Nth(I, k) /\ out[k] = picks[i] /\ out[k].label = form[i].label
    BY <1>4, <1>7
  <2>2. PICK f \in 1..n : form[f].label = form[i].label /\ form[f].type = "file"
    BY <1>1, <2>1 DEF AsksUploads
  <2>3. f \in Same(i) /\ Upload(form[i].label)
    BY <1>1, <2>1, <2>2 DEF Uploads
  <2> QED BY <1>3, <2>1, <2>2, <2>3
<1>10. AsksOnce(out)
  <2> SUFFICES ASSUME NEW k \in DOMAIN out, NEW l \in DOMAIN out, out[k].label = out[l].label
               PROVE  k = l
    BY DEF AsksOnce
  <2> DEFINE i == Nth(I, k)  j == Nth(I, l)
  <2>1. i \in I /\ j \in I /\ i \in 1..n /\ j \in 1..n /\ form[i].label = form[j].label
    BY <1>4, <1>7
  <2>2. Same(i) = Same(j)
    BY <2>1
  <2>3. i = j
    BY <2>1, <2>2 DEF I
  <2>4. k \in 1..Cardinality(I) /\ l \in 1..Cardinality(I)
    BY <1>6
  <2> QED BY <1>1, <2>3, <2>4, NthOnce
<1> QED BY <1>8, <1>9, <1>10 DEF out

\* Of a form that is no page's it leaves each question once.
LEMMA DedupeOnce ==
    ASSUME NEW form \in Seq(FieldSet)
    PROVE  /\ DedupeFormFieldsByLabel(form) \in Seq(FieldSet)
           /\ AsksOnce(DedupeFormFieldsByLabel(form))
<1> DEFINE page == [i \in DOMAIN form |-> [label |-> form[i].label, required |-> form[i].required,
                                           type |-> "text", card |-> TRUE]]
<1>1. OfPage(form, page)
  BY DEF OfPage
<1>2. AsksUploads(form, page)
  BY DEF AsksUploads, Uploads
<1> HIDE DEF page
<1> QED BY <1>1, <1>2, DedupeKeeps DEF OfPage

\* The fields read of some of a page's controls are of that page ...
LEMMA FieldsRead ==
    ASSUME NEW page \in Seq(Control), NEW I \in SUBSET DOMAIN page, NEW fields,
           \A i \in DOMAIN page : /\ fields[i] \in FieldSet /\ fields[i].label = page[i].label
                                  /\ fields[i].required = page[i].required
    PROVE  OfPage(Picked(fields, I), page)
<1>1. Len(page) \in Nat /\ DOMAIN page = 1..Len(page)
  OBVIOUS
<1>2. Picked(fields, I) \in Seq(FieldSet) /\ Len(Picked(fields, I)) = Cardinality(I)
  BY <1>1, PickedType
<1>3. ASSUME NEW k \in DOMAIN Picked(fields, I)
      PROVE  \E i \in DOMAIN page : Picked(fields, I)[k] = fields[i]
  <2>1. k \in 1..Cardinality(I)
    BY <1>2
  <2> QED BY <1>1, <2>1, NthPosition DEF Picked
<1> QED BY <1>2, <1>3 DEF OfPage

\* ... and ask for its documents if each control that uploads one is among them.
LEMMA UploadsRead ==
    ASSUME NEW page \in Seq(Control), NEW I \in SUBSET DOMAIN page, NEW fields,
           \A i \in DOMAIN page : fields[i].label = page[i].label,
           \A i \in DOMAIN page : Upload(page[i].label) /\ page[i].type = "file" /\ ~page[i].card =>
               i \in I /\ fields[i].type = "file"
    PROVE  AsksAllUploads(Picked(fields, I), page)
<1> SUFFICES ASSUME NEW label, Uploads(page, label)
             PROVE  \E j \in DOMAIN Picked(fields, I) :
                   Picked(fields, I)[j].label = label /\ Picked(fields, I)[j].type = "file"
  BY DEF AsksAllUploads
<1>1. Len(page) \in Nat /\ DOMAIN page = 1..Len(page)
  OBVIOUS
<1>2. PICK i \in I : fields[i].label = label /\ fields[i].type = "file"
  BY DEF Uploads
<1>3. PICK j \in 1..Cardinality(I) : Nth(I, j) = i
  BY <1>1, NthPosition
<1>4. j \in DOMAIN Picked(fields, I) /\ Picked(fields, I)[j] = fields[i]
  BY <1>3 DEF Picked
<1> QED BY <1>2, <1>4

LEMMA EmptyForm == ASSUME NEW page PROVE OfPage(<<>>, page) /\ AsksUploads(<<>>, page)
BY DEF OfPage, AsksUploads

\* Whether a form is read by the board's interface or from its page.
LEMMA FormsRead ==
    ASSUME NEW p \in Listings, NEW form \in Forms[p]
    PROVE  OfPage(form, Controls[p]) /\ AsksUploads(form, Controls[p])
<1> DEFINE page == Controls[p]
<1>1. page \in Seq(Control) /\ LabelledOf(page) \in SUBSET DOMAIN page
  BY ListingsAssumption DEF LabelledOf
<1>2. \A i \in DOMAIN page : page[i] \in Control
  BY <1>1
<1> HIDE DEF page
<1> DEFINE Faithful(f) == OfPage(f, page) /\ AsksUploads(f, page)
<1>3. \A f : Faithful(f) => Faithful(DedupeFormFieldsByLabel(f))
  BY DedupeKeeps DEF OfPage
<1>4. ASSUME NEW f, f = FieldsOf(page, LabelledOf(page), mapGreenhouseFieldType)
      PROVE  Faithful(f)
  <2> DEFINE fields == [i \in DOMAIN page |-> Field(page[i], mapGreenhouseFieldType(page[i].type))]
  <2>1. f = Picked(fields, LabelledOf(page))
    BY <1>4 DEF FieldsOf
  <2>2. \A i \in DOMAIN page : /\ fields[i] \in FieldSet /\ fields[i].label = page[i].label
                               /\ fields[i].required = page[i].required
                               /\ (page[i].type = "file" => fields[i].type = "file")
    BY <1>2 DEF Field, FieldSet, FieldTypes, Control, mapGreenhouseFieldType
  <2>3. \A i \in DOMAIN page : Upload(page[i].label) => i \in LabelledOf(page)
    BY DEF LabelledOf, Labelled, Upload
  <2> HIDE DEF fields
  <2> QED BY <1>1, <2>1, <2>2, <2>3, FieldsRead, UploadsRead DEF AsksUploads, AsksAllUploads
<1>5. ASSUME NEW f, f = FieldsOf(page, LabelledOf(page), mapAshbyFieldType)
      PROVE  Faithful(f)
  <2> DEFINE fields == [i \in DOMAIN page |-> Field(page[i], mapAshbyFieldType(page[i].type))]
  <2>1. f = Picked(fields, LabelledOf(page))
    BY <1>5 DEF FieldsOf
  <2>2. \A i \in DOMAIN page : /\ fields[i] \in FieldSet /\ fields[i].label = page[i].label
                               /\ fields[i].required = page[i].required
                               /\ (page[i].type = "file" => fields[i].type = "file")
    BY <1>2 DEF Field, FieldSet, FieldTypes, Control, mapAshbyFieldType
  <2>3. \A i \in DOMAIN page : Upload(page[i].label) => i \in LabelledOf(page)
    BY DEF LabelledOf, Labelled, Upload
  <2> HIDE DEF fields
  <2> QED BY <1>1, <2>1, <2>2, <2>3, FieldsRead, UploadsRead DEF AsksUploads, AsksAllUploads
<1>6. Faithful(leverFormFieldsFromApplyHTML(page))
  <2> DEFINE S == {i \in DOMAIN page : Standard(page[i])}
             C == {i \in DOMAIN page : Custom(page[i])}
             std == [i \in DOMAIN page |-> Field(page[i], mapLeverInputType(page[i].type))]
             cst == [i \in DOMAIN page |-> Field(page[i], mapLeverCustomFieldType(page[i].type))]
             a == Picked(std, S)
             b == Picked(cst, C)
             f == a \o b
  <2>1. leverFormFieldsFromApplyHTML(page) = DedupeFormFieldsByLabel(f)
    BY DEF leverFormFieldsFromApplyHTML, FieldsOf
  <2>2. \A i \in DOMAIN page : /\ std[i] \in FieldSet /\ std[i].label = page[i].label
                               /\ std[i].required = page[i].required
                               /\ (page[i].type = "file" => std[i].type = "file")
    BY <1>2 DEF Field, FieldSet, FieldTypes, Control, mapLeverInputType
  <2>3. \A i \in DOMAIN page : /\ cst[i] \in FieldSet /\ cst[i].label = page[i].label
                               /\ cst[i].required = page[i].required
    BY <1>2 DEF Field, FieldSet, FieldTypes, Control, mapLeverCustomFieldType
  <2>4. \A i \in DOMAIN page : Upload(page[i].label) /\ page[i].type = "file" /\ ~page[i].card => i \in S
    BY DEF Standard, Upload
  <2>5. S \in SUBSET DOMAIN page /\ C \in SUBSET DOMAIN page
    OBVIOUS
  <2> HIDE DEF S, C, std, cst
  <2>6. OfPage(a, page) /\ OfPage(b, page)
    BY <1>1, <2>2, <2>3, <2>5, FieldsRead
  <2>7. AsksAllUploads(a, page)
    <3>1. \A i \in DOMAIN page : std[i].label = page[i].label
      BY <2>2
    <3>2. \A i \in DOMAIN page : Upload(page[i].label) /\ page[i].type = "file" /\ ~page[i].card =>
            i \in S /\ std[i].type = "file"
      BY <2>2, <2>4
    <3> QED BY <1>1, <2>5, <3>1, <3>2, UploadsRead
  <2> HIDE DEF a, b
  <2>8. /\ a \in Seq(FieldSet) /\ b \in Seq(FieldSet) /\ f \in Seq(FieldSet)
        /\ \A j \in DOMAIN a : j \in DOMAIN f /\ f[j] = a[j]
        /\ \A i \in DOMAIN f : (\E j \in DOMAIN a : f[i] = a[j]) \/ \E j \in DOMAIN b : f[i] = b[j]
    <3>1. a \in Seq(FieldSet) /\ b \in Seq(FieldSet)
      BY <2>6 DEF OfPage
    <3>2. /\ f \in Seq(FieldSet) /\ Len(f) = Len(a) + Len(b)
          /\ \A i \in 1..(Len(a) + Len(b)) : f[i] = IF i <= Len(a) THEN a[i] ELSE b[i - Len(a)]
      BY <3>1
    <3> QED BY <3>1, <3>2
  <2> HIDE DEF f
  <2>9. Faithful(f)
    BY <2>6, <2>7, <2>8, SMTT(30) DEF OfPage, AsksUploads, AsksAllUploads
  <2> QED BY <1>3, <2>1, <2>9
<1>7. Faithful(greenhouseFormFields(page)) /\ Faithful(ashbyFormFieldsFromApplyHTML(page))
  BY <1>3, <1>4, <1>5 DEF greenhouseFormFields, ashbyFormFieldsFromApplyHTML
<1>8. \/ form = greenhouseFormFields(page) \/ form = ashbyFormFieldsFromApplyHTML(page)
      \/ form = leverFormFieldsFromApplyHTML(page) \/ form = <<>>
  BY DEF Forms, page
<1> QED BY <1>6, <1>7, <1>8, EmptyForm DEF page

LEMMA AllRead ==
    ASSUME NEW p \in Listings, NEW browser, NEW form \in Read(p, browser)
    PROVE  form \in Seq(FieldSet) /\ form \in Forms[p] \cup extractFormFields[p]
<1>1. CASE form \in Forms[p]
  BY <1>1, FormsRead DEF OfPage
<1>2. CASE form \in extractFormFields[p]
  <2>1. extractFormFields[p] = Readings[p] \cup {<<>>} /\ Readings[p] \subseteq Seq(FieldSet)
    BY ListingsAssumption DEF extractFormFields
  <2>2. <<>> \in Seq(FieldSet)
    OBVIOUS
  <2> QED BY <1>2, <2>1, <2>2
<1> QED BY <1>1, <1>2 DEF Read

-----------------------------------------------------------------------------
(* Rows and pushes.                                                         *)

Steps == DOMAIN Idle

\* The state's shape, as far as the theorems need it: they do not ask what the
\* lists hold.
Shape ==
    /\ jobs = [p \in Listings |-> jobs[p]]
    /\ pushed \in [Listings -> Nat]
    /\ crawl = [c \in Crawlers |-> crawl[c]]
    /\ \A c \in Crawlers : crawl[c] = [f \in Steps |-> crawl[c][f]]

\* A stored form was read at the listing's own address.
ReadFrom(p) ==
    IF jobs[p] = NoJob THEN p \notin guessed
    ELSE \E form \in Read(p, p \in guessed) : jobs[p] = DedupeFormFieldsByLabel(form)

\* A crawler reads and stores only listings it did not know when it looked ...
Unknown(c) == At(c, "scrape") \/ At(c, "store") => Item(c) \notin Known
\* ... with a form of that listing ...
ItsForm(c) ==
    At(c, "store") /\ Item(c) \in Listings =>
        crawl[c].form \in Read(Item(c), crawl[c].browser)
\* ... and is the only one to push what it has stored.
Owns(c) ==
    At(c, "push") /\ Item(c) \in Listings =>
        /\ jobs[Item(c)] # NoJob /\ pushed[Item(c)] = 0
        /\ \A d \in Crawlers : At(d, "push") /\ Item(d) = Item(c) => d = c

StoreInv ==
    /\ Shape
    /\ \A p \in Listings : ReadFrom(p)
    /\ \A c \in Crawlers : Unknown(c) /\ ItsForm(c) /\ Owns(c)
    /\ OneRowPerAddress /\ QueuedOnce /\ StoredIsQueuedOrLost

LEMMA StoreInit == Init => StoreInv
<1> SUFFICES ASSUME Init PROVE StoreInv
  OBVIOUS
<1>1. Shape
  BY DEF Init, Shape, Steps, Idle
<1>2. /\ \A c \in Crawlers : crawl[c].at = "idle"
      /\ \A p \in Listings : jobs[p] = NoJob /\ pushed[p] = 0
  BY DEF Init, Idle
<1>3. \A c \in Crawlers : Unknown(c) /\ ItsForm(c) /\ Owns(c)
  BY <1>2 DEF Unknown, ItsForm, Owns, At
<1>4. OneRowPerAddress /\ QueuedOnce /\ StoredIsQueuedOrLost
  BY <1>2 DEF OneRowPerAddress, QueuedOnce, StoredIsQueuedOrLost, Known
<1>5. \A p \in Listings : ReadFrom(p)
  BY <1>2 DEF Init, ReadFrom
<1> QED BY <1>1, <1>3, <1>4, <1>5 DEF StoreInv

\* A crawler's step that stores and pushes nothing.
Looks(c) ==
    /\ UNCHANGED <<jobs, guessed, pushed, resent>> /\ lost \subseteq lost'
    /\ crawl' = [crawl EXCEPT ![c] = crawl'[c]]
    /\ crawl'[c] = [f \in Steps |-> crawl'[c][f]]
    /\ ~At(c, "push") /\ ~At(c, "push")'
    /\ Unknown(c)' /\ ItsForm(c)'

LEMMA LooksKeeps == ASSUME StoreInv, NEW c \in Crawlers, Looks(c) PROVE StoreInv'
<1>1. Shape'
  BY DEF StoreInv, Shape, Looks
<1>2. \A d \in Crawlers \ {c} : crawl'[d] = crawl[d]
  BY DEF StoreInv, Shape, Looks
<1>3. \A d \in Crawlers : At(d, "push")' <=> At(d, "push")
  BY <1>2 DEF Looks, At
<1>4. \A d \in Crawlers : At(d, "push") => Item(d)' = Item(d)
  BY <1>2 DEF Looks, At, Item
<1>5. \A d \in Crawlers : Unknown(d)' /\ ItsForm(d)'
  BY <1>2 DEF Looks, StoreInv, Unknown, ItsForm, At, Item
<1>6. \A d \in Crawlers : Owns(d)'
  BY <1>3, <1>4 DEF StoreInv, Owns, Looks
<1>7. \A p \in Listings : ReadFrom(p)'
  BY DEF StoreInv, ReadFrom, Looks
<1>8. OneRowPerAddress' /\ QueuedOnce' /\ StoredIsQueuedOrLost'
  BY <1>3, <1>4 DEF StoreInv, Looks, OneRowPerAddress, QueuedOnce, StoredIsQueuedOrLost
<1> QED BY <1>1, <1>5, <1>6, <1>7, <1>8 DEF StoreInv

LEMMA LookingSteps ==
    ASSUME StoreInv, NEW c \in Crawlers,
           Run(c) \/ SearchGoogle(c) \/ DedupJobURLs(c) \/ NextPosting(c) \/ ScrapeAndEnrichJob(c)
    PROVE  Looks(c)
<1> USE DEF Tables, At, Item, Looks, Unknown, ItsForm, Goes, NextItem, NextQuery
<1>1. /\ crawl = [d \in Crawlers |-> crawl[d]] /\ crawl[c] = [f \in Steps |-> crawl[c][f]]
      /\ Steps = {"at", "query", "links", "queue", "scraped", "form", "browser"}
  BY DEF StoreInv, Shape, Steps, Idle
<1>2. Idle = [f \in Steps |-> Idle[f]] /\ Idle.at = "idle"
  BY DEF Steps, Idle
<1>3. CASE Run(c)
  BY <1>1, <1>2, <1>3 DEF Run
<1>4. CASE SearchGoogle(c)
  BY <1>1, <1>2, <1>4 DEF SearchGoogle
<1>5. CASE DedupJobURLs(c)
  BY <1>1, <1>2, <1>5 DEF DedupJobURLs
<1>6. CASE NextPosting(c)
  BY <1>1, <1>2, <1>6 DEF NextPosting, LookupDiscoveredJobID, Known
<1>7. CASE ScrapeAndEnrichJob(c)
  <2>1. CASE NextItem(c) /\ UNCHANGED Tables
    BY <1>1, <1>7, <2>1 DEF ScrapeAndEnrichJob
  <2>2. ASSUME NEW browser \in BOOLEAN, NEW form \in Read(Item(c), browser),
               Scraped(c, form, browser), UNCHANGED Tables
        PROVE  Looks(c)
    <3>1. /\ crawl' = [crawl EXCEPT ![c] = crawl'[c]]
          /\ crawl'[c] = [f \in Steps |-> crawl'[c][f]]
          /\ crawl'[c].at = "store" /\ crawl'[c].form = form /\ crawl'[c].browser = browser
          /\ crawl'[c].queue = crawl[c].queue
      BY <1>1, <2>2 DEF Scraped
    <3>2. crawl[c].at = "scrape"
      BY <1>7 DEF ScrapeAndEnrichJob
    <3> QED BY <2>2, <3>1, <3>2 DEF StoreInv, Known
  <2> QED BY <1>7, <2>1, <2>2 DEF ScrapeAndEnrichJob, Read
<1> QED BY <1>3, <1>4, <1>5, <1>6, <1>7

\* A step of a crawler leaves every other crawler where it is.
LEMMA OthersStay ==
    ASSUME Shape, NEW c \in Crawlers, NEW x,
           \/ Goes(c, x) \/ NextItem(c) \/ crawl' = [crawl EXCEPT ![c] = Idle]
    PROVE  /\ crawl' = [d \in Crawlers |-> crawl'[d]]
           /\ \A d \in Crawlers : crawl'[d] = [f \in Steps |-> crawl'[d][f]]
           /\ \A d \in Crawlers \ {c} : crawl'[d] = crawl[d]
           /\ Goes(c, x) => crawl'[c].at = x /\ crawl'[c].queue = crawl[c].queue
           /\ NextItem(c) => crawl'[c].at = "item"
           /\ crawl' = [crawl EXCEPT ![c] = Idle] => crawl'[c].at = "idle"
<1>1. Steps = {"at", "query", "links", "queue", "scraped", "form", "browser"} /\ Idle = [f \in Steps |-> Idle[f]]
  BY DEF Steps, Idle
<1>2. Idle.at = "idle"
  BY DEF Idle
<1> QED BY <1>1, <1>2 DEF Shape, Goes, NextItem

\* What holds of the other crawlers, and of c once it is neither reading nor
\* storing, when rows are only added and no row of theirs is pushed.
LEMMA StoreKeeps ==
    ASSUME StoreInv, NEW c \in Crawlers, InsertDiscoveredJob(c)
    PROVE  StoreInv'
<1> DEFINE p == Item(c)
<1>1. Shape /\ At(c, "store") /\ UNCHANGED <<pushed, resent>> /\ lost \subseteq lost'
  BY DEF InsertDiscoveredJob, StoreInv
<1>2. CASE NextItem(c) /\ StoresNot
  <2>1. /\ \A d \in Crawlers \ {c} : crawl'[d] = crawl[d]
        /\ crawl'[c].at = "item" /\ Shape'
    BY <1>1, <1>2, OthersStay DEF Shape, StoresNot
  <2>2. UNCHANGED <<jobs, guessed, pushed, resent>> /\ lost \subseteq lost'
    BY <1>1, <1>2 DEF StoresNot
  <2>3. \A d \in Crawlers \ {c} : Item(d)' = Item(d) /\ (\A x : At(d, x)' <=> At(d, x))
    BY <2>1 DEF Item, At
  <2>4. \A x \in {"scrape", "store", "push"} : ~At(c, x)'
    BY <2>1 DEF At
  <2>5. \A d \in Crawlers : Unknown(d)' /\ ItsForm(d)' /\ Owns(d)'
    <3>1. Unknown(c)' /\ ItsForm(c)' /\ Owns(c)'
      BY <2>4 DEF Unknown, ItsForm, Owns
    <3>2. ASSUME NEW d \in Crawlers \ {c} PROVE Unknown(d)' /\ ItsForm(d)' /\ Owns(d)'
      BY <2>1, <2>2, <2>3, <2>4 DEF StoreInv, Unknown, ItsForm, Owns, Known
    <3> QED BY <3>1, <3>2
  <2>6. OneRowPerAddress' /\ QueuedOnce' /\ \A q \in Listings : ReadFrom(q)'
    BY <2>2 DEF StoreInv, OneRowPerAddress, QueuedOnce, Known, ReadFrom
  <2>7. StoredIsQueuedOrLost'
    BY <1>1, <2>2, <2>3 DEF StoreInv, StoredIsQueuedOrLost, At
  <2> QED BY <2>1, <2>5, <2>6, <2>7 DEF StoreInv
<1>3. ASSUME Stores(c), Goes(c, "push") \/ (NextItem(c) /\ Item(c) \in lost') PROVE StoreInv'
  <2>1. /\ \A d \in Crawlers \ {c} : crawl'[d] = crawl[d]
        /\ \/ crawl'[c].at = "push" /\ Item(c)' = p
           \/ crawl'[c].at = "item" /\ p \in lost'
        /\ Shape' /\ jobs[p] = NoJob
    BY <1>1, <1>3, OthersStay DEF Shape, Item, Stores
  <2>2. \A d \in Crawlers \ {c} : Item(d)' = Item(d) /\ (\A x : At(d, x)' <=> At(d, x))
    BY <2>1 DEF Item, At
  <2>3. p \in Listings => /\ crawl[c].form \in Read(p, crawl[c].browser) /\ jobs'[p] # NoJob
                          /\ jobs'[p] = DedupeFormFieldsByLabel(crawl[c].form)
    <3>1. p \in Listings => crawl[c].form \in Read(p, crawl[c].browser)
      BY <1>1 DEF StoreInv, ItsForm
    <3>2. p \in Listings => jobs'[p] = DedupeFormFieldsByLabel(crawl[c].form)
      BY <1>1, <1>3 DEF Shape, Stores
    <3> QED BY <3>1, <3>2, AllRead, NoJobAssumption
  <2>4. \A q \in Listings : q # p => jobs'[q] = jobs[q] /\ (q \in guessed' <=> q \in guessed)
    BY <1>1, <1>3 DEF Shape, Stores
  <2>5. p \in Listings => pushed[p] = 0
    BY <1>1, <2>1, SMTT(30) DEF StoreInv, QueuedOnce, Shape
  <2>6. p \notin Known
    BY <1>1 DEF StoreInv, Unknown
  <2>7. \A q \in Listings : ReadFrom(q)'
    <3> SUFFICES ASSUME NEW q \in Listings PROVE ReadFrom(q)'
      OBVIOUS
    <3>1. CASE q = p
      <4>1. p \notin guessed
        BY <2>1, <3>1 DEF StoreInv, ReadFrom
      <4>2. Read(p, p \in guessed') = Read(p, crawl[c].browser)
        BY <1>3, <4>1 DEF Stores, Read
      <4> QED BY <2>3, <3>1, <4>2 DEF ReadFrom
    <3>2. CASE q # p
      BY <2>4, <3>2 DEF StoreInv, ReadFrom, Read
    <3> QED BY <3>1, <3>2
  <2>8. \A d \in Crawlers : Unknown(d)' /\ ItsForm(d)'
    BY <2>1, <2>2 DEF StoreInv, Unknown, ItsForm, At, Known
  <2>9. \A d \in Crawlers \ {c} : At(d, "push") /\ Item(d) \in Listings => Item(d) # p
    BY <2>1 DEF StoreInv, Owns
  <2>10. \A d \in Crawlers : Owns(d)'
    <3>1. Owns(c)'
      BY <1>1, <2>1, <2>2, <2>3, <2>5, <2>9 DEF Owns, At
    <3>2. ASSUME NEW d \in Crawlers \ {c} PROVE Owns(d)'
      <4>1. Owns(d)
        BY DEF StoreInv
      <4>2. At(c, "push")' => Item(c)' = p
        BY <2>1 DEF At
      <4> QED BY <1>1, <2>2, <2>4, <2>9, <4>1, <4>2 DEF Owns
    <3> QED BY <3>1, <3>2
  <2>11. OneRowPerAddress' /\ QueuedOnce'
    BY <1>1, <2>3, <2>4, <2>6 DEF StoreInv, OneRowPerAddress, QueuedOnce, Known
  <2>12. StoredIsQueuedOrLost'
    BY <1>1, <2>1, <2>2, <2>4 DEF StoreInv, StoredIsQueuedOrLost, At
  <2> QED BY <2>1, <2>7, <2>8, <2>10, <2>11, <2>12 DEF StoreInv
<1>4. \/ NextItem(c) /\ StoresNot
      \/ Stores(c) /\ Goes(c, "push")
      \/ Stores(c) /\ NextItem(c) /\ lost' = lost \cup {Item(c)}
  BY DEF InsertDiscoveredJob
<1>5. CASE Stores(c) /\ NextItem(c) /\ lost' = lost \cup {Item(c)}
  BY <1>3, <1>5
<1> QED BY <1>2, <1>3, <1>4, <1>5

LEMMA PushKeeps ==
    ASSUME StoreInv, NEW c \in Crawlers, EnqueueProcessJob(c) \/ Crash(c)
    PROVE  StoreInv'
<1> DEFINE p == Item(c)
<1>1. Shape /\ UNCHANGED <<jobs, guessed>> /\ lost \subseteq lost' /\ resent \subseteq resent'
  BY DEF EnqueueProcessJob, Crash, StoreInv
<1>2. /\ \A d \in Crawlers \ {c} : crawl'[d] = crawl[d]
      /\ crawl'[c].at \in {"item", "idle"}
      /\ crawl' = [d \in Crawlers |-> crawl'[d]]
      /\ \A d \in Crawlers : crawl'[d] = [f \in Steps |-> crawl'[d][f]]
  BY <1>1, OthersStay DEF EnqueueProcessJob, Crash
<1>3. \/ pushed' = pushed /\ (At(c, "push") => p \in lost')
      \/ pushed' = [pushed EXCEPT ![p] = @ + 1] /\ At(c, "push")
      \/ pushed' = [pushed EXCEPT ![p] = @ + 2] /\ At(c, "push") /\ p \in resent'
  BY DEF EnqueueProcessJob, Crash
<1>4. Shape'
  BY <1>1, <1>2, <1>3 DEF Shape
<1>5. \A d \in Crawlers \ {c} : Item(d)' = Item(d) /\ (\A x : At(d, x)' <=> At(d, x))
  BY <1>2 DEF Item, At
<1>6. \A x \in {"scrape", "store", "push"} : ~At(c, x)'
  BY <1>2 DEF At
<1>7. \A q \in Listings : ReadFrom(q)'
  BY <1>1 DEF StoreInv, ReadFrom
<1>8. \A d \in Crawlers : Unknown(d)' /\ ItsForm(d)'
  BY <1>2, <1>5, <1>6 DEF StoreInv, Unknown, ItsForm, Known
<1>9. \A q \in Listings : q # p \/ pushed' = pushed => pushed'[q] = pushed[q]
  BY <1>3 DEF Shape, StoreInv
<1>10. \A d \in Crawlers : Owns(d)'
  <2> SUFFICES ASSUME NEW d \in Crawlers, At(d, "push")', Item(d)' \in Listings
               PROVE  /\ jobs'[Item(d)'] # NoJob /\ pushed'[Item(d)'] = 0
                      /\ \A e \in Crawlers : At(e, "push")' /\ Item(e)' = Item(d)' => e = d
    BY DEF Owns
  <2>1. d # c /\ At(d, "push") /\ Item(d)' = Item(d)
    BY <1>5, <1>6
  <2>2. Owns(d)
    BY DEF StoreInv
  <2>3. At(c, "push") => Item(d) # p
    BY <2>1, <2>2 DEF Owns
  <2>4. pushed'[Item(d)] = pushed[Item(d)]
    BY <1>3, <1>9, <2>1, <2>3
  <2> QED BY <1>1, <1>5, <1>6, <2>1, <2>2, <2>4 DEF Owns
<1>11. OneRowPerAddress'
  BY <1>1 DEF StoreInv, OneRowPerAddress, Known
<1>12. QueuedOnce'
  <2>1. p \in Listings /\ At(c, "push") => pushed[p] = 0 /\ jobs[p] # NoJob
    BY DEF StoreInv, Owns
  <2> QED BY <1>1, <1>3, <2>1 DEF StoreInv, QueuedOnce, Shape
<1>13. StoredIsQueuedOrLost'
  <2> SUFFICES ASSUME NEW q \in Listings, jobs[q] # NoJob, pushed'[q] = 0
               PROVE  q \in lost' \/ \E d \in Crawlers : At(d, "push")' /\ Item(d)' = q
    BY <1>1 DEF StoredIsQueuedOrLost
  <2>1. pushed[q] = 0
    BY <1>3 DEF StoreInv, Shape
  <2>2. q \in lost \/ \E d \in Crawlers : At(d, "push") /\ Item(d) = q
    BY <2>1 DEF StoreInv, StoredIsQueuedOrLost
  <2>3. CASE At(c, "push") /\ p = q
    BY <1>3, <2>1, <2>3 DEF StoreInv, Shape
  <2> QED BY <1>1, <1>5, <2>2, <2>3
<1> QED BY <1>4, <1>7, <1>8, <1>10, <1>11, <1>12, <1>13 DEF StoreInv

LEMMA BackfillKeeps ==
    ASSUME StoreInv, NEW p \in Listings, ReplaceJobFormFields(p)
    PROVE  StoreInv'
<1>1. PICK form \in Forms[p] : jobs' = [jobs EXCEPT ![p] = DedupeFormFieldsByLabel(form)]
  BY DEF ReplaceJobFormFields, ReadAgain
<1>2. /\ UNCHANGED <<pushed, resent, crawl, lost>> /\ guessed' = guessed \ {p}
      /\ Shape /\ jobs[p] # NoJob /\ p \notin Known
  BY DEF ReplaceJobFormFields, StoreInv, OneRowPerAddress
<1>3. DedupeFormFieldsByLabel(form) # NoJob /\ form \in Read(p, FALSE)
  BY NoJobAssumption DEF Read
<1>4. /\ \A q \in Listings : q # p => jobs'[q] = jobs[q]
      /\ jobs'[p] = DedupeFormFieldsByLabel(form) /\ jobs' = [q \in Listings |-> jobs'[q]]
  BY <1>1, <1>2 DEF Shape
<1>5. Shape'
  BY <1>2, <1>4 DEF Shape
<1>6. \A q \in Listings : ReadFrom(q)' /\ (jobs'[q] = NoJob <=> jobs[q] = NoJob)
  BY <1>2, <1>3, <1>4 DEF StoreInv, ReadFrom, Read
<1>7. \A c \in Crawlers : Unknown(c)' /\ ItsForm(c)'
  BY <1>2 DEF StoreInv, Unknown, ItsForm, At, Item, Known
<1>8. \A c \in Crawlers : Owns(c)'
  BY <1>2, <1>6 DEF StoreInv, Owns, At, Item
<1>9. OneRowPerAddress' /\ QueuedOnce' /\ StoredIsQueuedOrLost'
  BY <1>2, <1>6
     DEF StoreInv, OneRowPerAddress, Known, QueuedOnce, StoredIsQueuedOrLost, At, Item
<1> QED BY <1>5, <1>6, <1>7, <1>8, <1>9 DEF StoreInv

LEMMA StoreStep == StoreInv /\ [Next]_vars => StoreInv'
<1> SUFFICES ASSUME StoreInv, [Next]_vars PROVE StoreInv'
  OBVIOUS
<1>1. CASE UNCHANGED vars
  BY <1>1 DEF vars, StoreInv, Shape, ReadFrom, Unknown, ItsForm, Owns, At, Item, Known,
          OneRowPerAddress, QueuedOnce, StoredIsQueuedOrLost
<1>2. CASE \E c \in Crawlers : Crawls(c) \/ Crash(c)
  BY <1>2, LookingSteps, LooksKeeps, StoreKeeps, PushKeeps DEF Crawls
<1>3. CASE \E p \in Listings : ReplaceJobFormFields(p)
  BY <1>3, BackfillKeeps
<1> QED BY <1>1, <1>2, <1>3 DEF Next

LEMMA StoreInvariant == Spec => []StoreInv
BY StoreInit, StoreStep, PTL DEF Spec

\* A listing is queued for matching only once stored, and by one crawler, however
\* many find it: InsertDiscoveredJob tells all but one that they have not stored
\* it, and only who has stored it pushes.  The queue has it once, or twice when
\* the client repeated that push.
THEOREM PostingQueuedOnce == Spec => []QueuedOnce
<1>1. StoreInv => QueuedOnce
  BY DEF StoreInv
<1> QED BY <1>1, StoreInvariant, PTL

\* A stored listing is never forgotten before its commit nor after its push: every
\* row is queued, about to be, or its commit was answered with an error, its push
\* failed or its crawler died between the two.
THEOREM NothingElseLoses == Spec => []StoredIsQueuedOrLost
<1>1. StoreInv => StoredIsQueuedOrLost
  BY DEF StoreInv
<1> QED BY <1>1, StoreInvariant, PTL

\* A listing stored under its address with "/application" gets no second row.
THEOREM NoSecondRow == Spec => []OneRowPerAddress
<1>1. StoreInv => OneRowPerAddress
  BY DEF StoreInv
<1> QED BY <1>1, StoreInvariant, PTL

\* The form stored with a listing is what a reader of its board makes of its own
\* controls, or, where the language model read it, what that answered for this
\* listing; and it has passed through DedupeFormFieldsByLabel.
THEOREM FormsAreTheirPages == Spec => [](\A p \in Listings : ReadFrom(p))
<1>1. StoreInv => \A p \in Listings : ReadFrom(p)
  BY DEF StoreInv
<1> QED BY <1>1, StoreInvariant, PTL

\* What is stored of a form asks each question once, whoever read it: nothing is
\* stored that DedupeFormFieldsByLabel has not passed.  Where a reader of the
\* board did, it asks as the page does, and for an upload where the page does.
THEOREM FormsAskOnce == Spec => []FormAsksOnce
<1>1. ASSUME StoreInv, NEW p \in Listings, jobs[p] # NoJob
      PROVE  /\ AsksOnce(jobs[p])
             /\ p \notin guessed =>
                  OfPage(jobs[p], Controls[p]) /\ AsksUploads(jobs[p], Controls[p])
  <2>1. PICK form \in Read(p, p \in guessed) : jobs[p] = DedupeFormFieldsByLabel(form)
    BY <1>1 DEF StoreInv, ReadFrom
  <2>2. form \in Seq(FieldSet)
    BY AllRead
  <2>3. AsksOnce(jobs[p])
    BY <2>1, <2>2, DedupeOnce
  <2>4. CASE p \notin guessed
    <3>1. OfPage(form, Controls[p]) /\ AsksUploads(form, Controls[p])
      BY <2>4, FormsRead DEF Read
    <3> QED BY <2>1, <2>2, <2>3, <3>1, DedupeKeeps
  <2> QED BY <2>3, <2>4
<1>2. ASSUME StoreInv PROVE FormAsksOnce
  <2> SUFFICES ASSUME NEW p \in Listings, jobs[p] # NoJob, NEW i \in DOMAIN jobs[p]
               PROVE  /\ \A j \in DOMAIN jobs[p] : jobs[p][i].label = jobs[p][j].label => i = j
                      /\ p \notin guessed => \E c \in Range(Controls[p]) :
                           c.label = jobs[p][i].label /\ c.required = jobs[p][i].required
                      /\ p \notin guessed /\ Upload(jobs[p][i].label)
                         /\ (\E c \in Range(Controls[p]) :
                               c.label = jobs[p][i].label /\ c.type = "file" /\ ~c.card) =>
                            jobs[p][i].type = "file"
    BY DEF FormAsksOnce
  <2>1. /\ AsksOnce(jobs[p])
        /\ p \notin guessed => OfPage(jobs[p], Controls[p]) /\ AsksUploads(jobs[p], Controls[p])
    BY <1>1, <1>2
  <2>2. \A c : c \in Range(Controls[p]) <=> \E k \in DOMAIN Controls[p] : c = Controls[p][k]
    BY DEF Range
  <2> QED BY <2>1, <2>2 DEF OfPage, AsksUploads, AsksOnce, Uploads
<1>3. StoreInv => FormAsksOnce
  BY <1>2
<1> QED BY <1>3, StoreInvariant, PTL

-----------------------------------------------------------------------------
(* What a crawler holds.                                                    *)

Distinct(seq) == \A i, j \in DOMAIN seq : seq[i] = seq[j] => i = j

\* FilterATSJobURLs yields postings of the boards, each once.
LEMMA FilterOnce ==
    ASSUME NEW q \in DOMAIN Queries
    PROVE  /\ FilterATSJobURLs(Queries[q]) \in Seq(Listings)
           /\ Distinct(FilterATSJobURLs(Queries[q]))
<1> DEFINE links == Queries[q]
           n == Len(links)
           normal == [i \in DOMAIN links |-> NormalizeListingURL(links[i])]
           I == {i \in DOMAIN links :
                   DetectSource(links[i]) /\ \A j \in 1..(i - 1) : normal[j] # normal[i]}
           out == Picked(normal, I)
<1>1. n \in Nat /\ DOMAIN links = 1..n /\ I \in SUBSET (1..n)
  BY QueriesAssumption
<1>2. \A i \in I : normal[i] \in Listings
  BY DEF DetectSource, NormalizeListingURL
<1>3. \A i, j \in I : normal[i] = normal[j] => i = j
  <2> SUFFICES ASSUME NEW i \in I, NEW j \in I, normal[i] = normal[j], i # j PROVE FALSE
    OBVIOUS
  <2>1. i \in 1..n /\ j \in 1..n /\ i \in Int /\ j \in Int
    BY <1>1
  <2>2. i \in 1..(j - 1) \/ j \in 1..(i - 1)
    BY <2>1
  <2> QED BY <2>2
<1>4. FilterATSJobURLs(Queries[q]) = out
  BY DEF FilterATSJobURLs
<1> HIDE DEF normal, I, n
<1>5. out \in Seq(Listings) /\ Len(out) = Cardinality(I)
  BY <1>1, <1>2, PickedType
<1>6. \A k, l \in 1..Cardinality(I) : out[k] = out[l] => k = l
  BY <1>1, <1>3, PickedOnce
<1> HIDE DEF out
<1>7. DOMAIN out = 1..Cardinality(I)
  BY <1>5
<1> QED BY <1>4, <1>5, <1>6, <1>7 DEF Distinct

\* What a query adds to a run's postings is new to it, and within the limit.
LEMMA QueuedOnceEach ==
    ASSUME NEW queue \in Seq(Listings), NEW links \in Seq(Listings), Distinct(queue), Distinct(links)
    PROVE  /\ Queued(queue, links) \in Seq(Listings)
           /\ Distinct(Queued(queue, links)) /\ Len(Queued(queue, links)) <= MaxScrapes
<1> DEFINE I == NewIn(queue, links)
           more == Picked(links, I)
           all == queue \o more
<1>1. Len(links) \in Nat /\ DOMAIN links = 1..Len(links) /\ I \in SUBSET (1..Len(links))
  BY DEF NewIn
<1>2. \A i \in I : links[i] \in Listings /\ \A j \in DOMAIN queue : links[i] # queue[j]
  BY <1>1 DEF NewIn, Range
<1>3. \A i, j \in I : links[i] = links[j] => i = j
  BY <1>1 DEF Distinct
<1> HIDE DEF I
<1>4. more \in Seq(Listings) /\ Len(more) = Cardinality(I)
  BY <1>1, <1>2, PickedType
<1>5. \A k, l \in 1..Cardinality(I) : more[k] = more[l] => k = l
  BY <1>1, <1>3, PickedOnce
<1>6. \A k \in 1..Cardinality(I) : \A j \in DOMAIN queue : more[k] # queue[j]
  <2> SUFFICES ASSUME NEW k \in 1..Cardinality(I), NEW j \in DOMAIN queue PROVE more[k] # queue[j]
    OBVIOUS
  <2>1. Nth(I, k) \in I
    BY <1>1, NthPosition
  <2> QED BY <1>2, <2>1 DEF Picked
<1> HIDE DEF more
<1>7. /\ all \in Seq(Listings) /\ Len(all) = Len(queue) + Len(more)
      /\ \A i \in 1..Len(queue) : all[i] = queue[i]
      /\ \A i \in 1..Len(all) : i > Len(queue) =>
           i - Len(queue) \in 1..Cardinality(I) /\ all[i] = more[i - Len(queue)]
  BY <1>4
<1> HIDE DEF all
<1>8. ASSUME NEW i \in 1..Len(all), NEW j \in 1..Len(all), all[i] = all[j] PROVE i = j
  <2>1. Len(queue) \in Nat /\ Len(all) \in Nat /\ i \in Int /\ j \in Int
        /\ DOMAIN queue = 1..Len(queue)
    BY <1>7
  <2>2. CASE i <= Len(queue) /\ j <= Len(queue)
    <3>1. i \in DOMAIN queue /\ j \in DOMAIN queue
      BY <2>1, <2>2
    <3> QED BY <1>7, <1>8, <2>1, <3>1 DEF Distinct
  <2>3. CASE i > Len(queue) /\ j > Len(queue)
    <3>1. i - Len(queue) = j - Len(queue)
      BY <1>5, <1>7, <1>8, <2>3
    <3> QED BY <2>1, <3>1
  <2>4. ASSUME NEW a \in 1..Len(all), NEW b \in 1..Len(all), a <= Len(queue), b > Len(queue)
        PROVE  all[a] # all[b]
    <3>1. a \in DOMAIN queue
      BY <2>1, <2>4
    <3> QED BY <1>6, <1>7, <2>1, <2>4, <3>1
  <2>5. (i <= Len(queue) \/ i > Len(queue)) /\ (j <= Len(queue) \/ j > Len(queue))
    BY <2>1
  <2> QED BY <1>8, <2>2, <2>3, <2>4, <2>5
<1>9. Queued(queue, links) = IF Len(all) <= MaxScrapes THEN all ELSE SubSeq(all, 1, MaxScrapes)
  BY DEF Queued, all, more, I
<1>10. DOMAIN all = 1..Len(all) /\ Len(all) \in Nat /\ MaxScrapes \in Nat
  BY <1>7, BoundsAssumption
<1>11. CASE Len(all) <= MaxScrapes
  BY <1>7, <1>8, <1>9, <1>10, <1>11 DEF Distinct
<1>12. CASE ~(Len(all) <= MaxScrapes)
  <2> DEFINE cut == SubSeq(all, 1, MaxScrapes)
  <2>1. /\ cut \in Seq(Listings) /\ Len(cut) = MaxScrapes /\ DOMAIN cut = 1..MaxScrapes
        /\ \A i \in 1..MaxScrapes : cut[i] = all[i] /\ i \in 1..Len(all)
    BY <1>7, <1>10, <1>12
  <2> HIDE DEF cut
  <2>2. \A i, j \in 1..MaxScrapes : cut[i] = cut[j] => i = j
    BY <1>8, <2>1
  <2>3. Distinct(cut) /\ Len(cut) <= MaxScrapes
    BY <1>10, <2>1, <2>2 DEF Distinct
  <2> QED BY <1>9, <1>12, <2>1, <2>3 DEF cut
<1> QED BY <1>11, <1>12

\* Between a posting's reading and the next one it is still first in the queue.
Reading(r) == r.at \in {"store", "push"}

\* What a crawler holds: lists of postings, each once; none that it has read is
\* still to be read; and all of them within the limit.
Held(r) ==
    /\ r.at \in Places /\ r.query \in 0..(Len(Queries) + 1)
    /\ r.at \in {"search", "dedup"} => r.query >= 1 /\ r.scraped = <<>>
    /\ r.at = "dedup" => r.query <= Len(Queries)
    /\ r.links \in Seq(Listings) /\ r.queue \in Seq(Listings) /\ r.scraped \in Seq(Listings)
    /\ r.form \in Seq(FieldSet) /\ r.browser \in BOOLEAN
    /\ Distinct(r.links) /\ Distinct(r.queue) /\ Distinct(r.scraped)
    /\ r.at \in {"scrape", "store", "push"} => r.queue # <<>>
    /\ Len(r.scraped) + Len(r.queue) <= MaxScrapes + (IF Reading(r) THEN 1 ELSE 0)
    /\ \A i \in DOMAIN r.scraped : \A j \in DOMAIN r.queue :
         r.scraped[i] = r.queue[j] => Reading(r) /\ j = 1

HeldInv ==
    /\ \A c \in Crawlers : Held(crawl[c])
    /\ guessed \subseteq Listings /\ resent \subseteq Listings /\ lost \subseteq Listings
    /\ faults \in 0..MaxFaults /\ crashes \in 0..MaxCrashes

LEMMA EmptyHeld == Held(Idle)
<1>1. Len(Queries) \in Nat /\ MaxScrapes \in Nat
  BY QueriesAssumption, BoundsAssumption
<1> QED BY <1>1 DEF Held, Idle, Places, Reading, Distinct

\* The first of the queue is done with.
LEMMA ItemDone ==
    ASSUME NEW r, Held(r), r.queue # <<>>, NEW s, s.at = "item", s.queue = Tail(r.queue),
           s.form = <<>>, s.browser = FALSE, s.query = r.query, s.links = r.links,
           s.scraped = r.scraped
    PROVE  Held(s)
<1> DEFINE q == r.queue  t == Tail(r.queue)
<1>1. q \in Seq(Listings) /\ q # <<>> /\ Distinct(q)
  BY DEF Held
<1>2. t \in Seq(Listings) /\ Len(t) = Len(q) - 1 /\ Len(q) \in Nat /\ Len(q) >= 1
      /\ DOMAIN q = 1..Len(q) /\ DOMAIN t = 1..Len(t)
      /\ \A j \in 1..Len(t) : t[j] = q[j + 1] /\ j + 1 \in 1..Len(q) /\ j + 1 # 1
  BY <1>1
<1> HIDE DEF q, t
<1>3. Distinct(t)
  <2> SUFFICES ASSUME NEW i \in 1..Len(t), NEW j \in 1..Len(t), t[i] = t[j] PROVE i = j
    BY <1>2 DEF Distinct
  <2>1. i + 1 = j + 1
    BY <1>1, <1>2, SMTT(30) DEF Distinct
  <2>2. i \in Int /\ j \in Int
    BY <1>2
  <2> QED BY <2>1, <2>2
<1>4. \A i \in DOMAIN r.scraped : \A j \in DOMAIN t : r.scraped[i] # t[j]
  BY <1>2, ZenonT(30) DEF Held, q
<1>5. Len(r.scraped) + Len(t) <= MaxScrapes
  <2>1. r.scraped \in Seq(Listings) /\ MaxScrapes \in Nat
    BY BoundsAssumption DEF Held
  <2>2. Len(r.scraped) + Len(q) <= MaxScrapes + (IF Reading(r) THEN 1 ELSE 0)
    BY DEF Held, q
  <2>3. Len(r.scraped) + Len(q) <= MaxScrapes + 1
    BY <1>2, <2>1, <2>2
  <2> QED BY <1>2, <2>1, <2>3
<1>6. s.queue = t /\ ~Reading(s) /\ s.at \in Places /\ <<>> \in Seq(FieldSet)
  BY DEF t, Reading, Places
<1>7. /\ s.query \in 0..(Len(Queries) + 1) /\ s.links \in Seq(Listings) /\ s.scraped \in Seq(Listings)
      /\ Distinct(s.links) /\ Distinct(s.scraped)
  BY DEF Held
<1>8. Len(s.scraped) + Len(s.queue) <= MaxScrapes + (IF Reading(s) THEN 1 ELSE 0)
  <2>1. Len(s.scraped) + Len(s.queue) <= MaxScrapes
    BY <1>5, <1>6
  <2>2. MaxScrapes + 0 = MaxScrapes
    BY BoundsAssumption
  <2> QED BY <1>6, <2>1, <2>2
<1>9. \A i \in DOMAIN s.scraped : \A j \in DOMAIN s.queue :
        s.scraped[i] = s.queue[j] => Reading(s) /\ j = 1
  BY <1>4, <1>6
<1> QED BY <1>2, <1>3, <1>6, <1>7, <1>8, <1>9 DEF Held

\* The first of the queue was read.
LEMMA ItemRead ==
    ASSUME NEW r, Held(r), r.at = "scrape",
           NEW s, s.at = "store", s.form \in Seq(FieldSet), s.browser \in BOOLEAN,
           s.query = r.query, s.links = r.links, s.queue = r.queue,
           s.scraped = Append(r.scraped, Head(r.queue))
    PROVE  Held(s)
<1> DEFINE q == r.queue  a == r.scraped  b == s.scraped
<1>1. /\ q \in Seq(Listings) /\ q # <<>> /\ Distinct(q) /\ a \in Seq(Listings) /\ Distinct(a)
      /\ ~Reading(r) /\ Reading(s)
  BY DEF Held, Reading
<1>2. /\ Head(q) = q[1] /\ Head(q) \in Listings /\ 1 \in DOMAIN q /\ Len(q) \in Nat /\ Len(a) \in Nat
      /\ b \in Seq(Listings) /\ Len(b) = Len(a) + 1 /\ DOMAIN a = 1..Len(a) /\ DOMAIN b = 1..Len(b)
      /\ b[Len(a) + 1] = q[1] /\ \A i \in 1..Len(a) : b[i] = a[i]
  BY <1>1
<1>3. \A i \in DOMAIN a : \A j \in DOMAIN q : a[i] # q[j]
  BY <1>1 DEF Held
<1> HIDE DEF q, a, b
<1>4. \A i \in 1..Len(b) : i = Len(a) + 1 \/ i \in 1..Len(a)
  BY <1>2
<1>5. Distinct(b)
  <2> SUFFICES ASSUME NEW i \in 1..Len(b), NEW j \in 1..Len(b), b[i] = b[j] PROVE i = j
    BY <1>2 DEF Distinct
  <2>1. CASE i \in 1..Len(a) /\ j \in 1..Len(a)
    BY <1>1, <1>2, <2>1, SMTT(30) DEF Distinct
  <2> QED BY <1>2, <1>3, <1>4, <2>1
<1>6. \A i \in DOMAIN b : \A j \in DOMAIN q : b[i] = q[j] => j = 1
  BY <1>1, <1>2, <1>3, <1>4 DEF Distinct
<1>7. Len(b) + Len(q) <= MaxScrapes + 1
  <2>1. Len(a) + Len(q) <= MaxScrapes + (IF Reading(r) THEN 1 ELSE 0)
    BY DEF Held, a, q
  <2>2. Len(a) + Len(q) <= MaxScrapes
    BY <1>1, <2>1, BoundsAssumption
  <2> QED BY <1>2, <2>2, BoundsAssumption
<1>8. s.queue = q /\ s.at \in Places
  BY DEF q, Places
<1> QED BY <1>1, <1>2, <1>5, <1>6, <1>7, <1>8 DEF Held, b, q

\* Another query: what it found is taken up, or dropped.
LEMMA QueryDone ==
    ASSUME NEW r, Held(r), r.at \in {"search", "dedup"}, r.query <= Len(Queries),
           NEW queue \in Seq(Listings), Distinct(queue), Len(queue) <= MaxScrapes,
           NEW s, s.at = "search", s.query = r.query + 1, s.links = <<>>, s.queue = queue,
           s.scraped = r.scraped, s.form = r.form, s.browser = r.browser
    PROVE  Held(s)
<1>1. Len(Queries) \in Nat /\ MaxScrapes \in Nat /\ r.query \in Nat /\ r.query >= 1
  BY QueriesAssumption, BoundsAssumption DEF Held
<1>2. r.scraped = <<>> /\ ~Reading(s) /\ s.at \in Places
  BY DEF Held, Reading, Places
<1>3. Len(r.scraped) + Len(queue) <= MaxScrapes
  BY <1>1, <1>2
<1>4. <<>> \in Seq(Listings) /\ Distinct(<<>>)
  BY DEF Distinct
<1>5. s.query \in 0..(Len(Queries) + 1) /\ s.query >= 1
  BY <1>1
<1>6. \A i \in DOMAIN s.scraped : FALSE
  BY <1>2
<1> QED BY <1>1, <1>2, <1>3, <1>4, <1>5, <1>6 DEF Held

\* A crawler in the middle of a posting has it first in its queue.
LEMMA ItemIsPosting ==
    ASSUME NEW c \in Crawlers, Held(crawl[c]), crawl[c].queue # <<>>
    PROVE  Item(c) \in Listings
BY DEF Held, Item

LEMMA SearchHeld ==
    ASSUME StoreInv, HeldInv, NEW c \in Crawlers, Run(c) \/ SearchGoogle(c) \/ DedupJobURLs(c)
    PROVE  Held(crawl'[c])
<1> DEFINE r == crawl[c]  s == crawl'[c]
<1>1. Held(r) /\ crawl = [d \in Crawlers |-> crawl[d]] /\ r = [f \in Steps |-> r[f]]
      /\ Steps = {"at", "query", "links", "queue", "scraped", "form", "browser"}
  BY DEF HeldInv, StoreInv, Shape, Steps, Idle
<1>2. Len(Queries) \in Nat /\ MaxScrapes \in Nat /\ DOMAIN Queries = 1..Len(Queries)
  BY QueriesAssumption, BoundsAssumption
<1>3. CASE Run(c)
  <2>1. s = [Idle EXCEPT !.at = "search", !.query = 1]
    BY <1>1, <1>3 DEF Run
  <2> QED BY <1>2, <2>1, EmptyHeld DEF Held, Idle, Places, Reading, Distinct
<1>4. CASE SearchGoogle(c) \/ DedupJobURLs(c)
  <2>1. r.at \in {"search", "dedup"} /\ r.query \in Nat /\ r.query >= 1
        /\ (r.at = "dedup" => r.query <= Len(Queries))
    BY <1>1, <1>2, <1>4 DEF SearchGoogle, DedupJobURLs, At, Held
  <2>2. CASE Goes(c, "item")
    <3>1. s.at = "item" /\ \A f \in Steps \ {"at"} : s[f] = r[f]
      BY <1>1, <2>2 DEF Goes
    <3>2. ~Reading(r) /\ ~Reading(s) /\ s.at \in Places
      BY <2>1, <3>1 DEF Reading, Places
    <3> QED BY <1>1, <3>1, <3>2 DEF Held
  <2>3. CASE More(c) /\ crawl' = [crawl EXCEPT ![c].at = "dedup",
                                     ![c].links = Listed[crawl[c].query]]
    <3>1. s.at = "dedup" /\ s.links = Listed[r.query]
          /\ \A f \in Steps \ {"at", "links"} : s[f] = r[f]
      BY <1>1, <2>3
    <3>2. r.query <= Len(Queries) /\ r.query \in DOMAIN Queries
      BY <1>2, <2>1, <2>3 DEF More
    <3>3. s.links \in Seq(Listings) /\ Distinct(s.links)
      BY <3>1, <3>2, FilterOnce DEF Listed
    <3>4. ~Reading(r) /\ ~Reading(s) /\ s.at \in Places
      BY <2>1, <3>1 DEF Reading, Places
    <3> QED BY <1>1, <2>1, <3>1, <3>2, <3>3, <3>4 DEF Held
  <2>4. ASSUME NEW queue \in Seq(Listings), Distinct(queue), Len(queue) <= MaxScrapes,
               r.query <= Len(Queries), NextQuery(c, queue)
        PROVE  Held(s)
    <3>1. /\ s.at = "search" /\ s.query = r.query + 1 /\ s.links = <<>> /\ s.queue = queue
          /\ s.scraped = r.scraped /\ s.form = r.form /\ s.browser = r.browser
      BY <1>1, <2>4 DEF NextQuery
    <3> QED BY <1>1, <2>1, <2>4, <3>1, QueryDone
  <2>5. CASE More(c) /\ NextQuery(c, crawl[c].queue)
    <3>1. r.queue \in Seq(Listings) /\ Distinct(r.queue)
      BY <1>1 DEF Held
    <3>2. r.query <= Len(Queries) /\ Len(r.queue) <= MaxScrapes
      BY <1>2, <2>5, <3>1 DEF More
    <3> QED BY <2>4, <2>5, <3>1, <3>2
  <2>6. CASE DedupJobURLs(c) /\ NextQuery(c, Queued(crawl[c].queue, crawl[c].links))
    <3>1. /\ r.queue \in Seq(Listings) /\ Distinct(r.queue) /\ r.links \in Seq(Listings)
          /\ Distinct(r.links) /\ r.query <= Len(Queries)
      BY <1>1, <2>1, <2>6 DEF Held, DedupJobURLs, At
    <3>2. /\ Queued(r.queue, r.links) \in Seq(Listings)
          /\ Distinct(Queued(r.queue, r.links)) /\ Len(Queued(r.queue, r.links)) <= MaxScrapes
      BY <3>1, QueuedOnceEach
    <3> QED BY <2>4, <2>6, <3>1, <3>2
  <2>7. CASE crawl' = [crawl EXCEPT ![c] = Idle]
    BY <1>1, <2>7, EmptyHeld
  <2> QED BY <1>4, <2>2, <2>3, <2>5, <2>6, <2>7 DEF SearchGoogle, DedupJobURLs
<1> QED BY <1>3, <1>4

\* NextItem takes what ItemDone says of it.
LEMMA NextItemHeld ==
    ASSUME StoreInv, HeldInv, NEW c \in Crawlers, crawl[c].queue # <<>>, NextItem(c)
    PROVE  Held(crawl'[c])
<1>1. Held(crawl[c]) /\ crawl = [d \in Crawlers |-> crawl[d]]
      /\ crawl[c] = [f \in Steps |-> crawl[c][f]]
      /\ Steps = {"at", "query", "links", "queue", "scraped", "form", "browser"}
  BY DEF HeldInv, StoreInv, Shape, Steps, Idle
<1> DEFINE r == crawl[c]  s == crawl'[c]
<1>2. /\ s.at = "item" /\ s.queue = Tail(r.queue) /\ s.form = <<>> /\ s.browser = FALSE
      /\ s.query = r.query /\ s.links = r.links /\ s.scraped = r.scraped
  BY <1>1 DEF NextItem
<1> HIDE DEF s
<1> QED BY <1>1, <1>2, ItemDone DEF s

LEMMA PostingHeld ==
    ASSUME StoreInv, HeldInv, NEW c \in Crawlers,
           \/ NextPosting(c) \/ ScrapeAndEnrichJob(c) \/ InsertDiscoveredJob(c)
           \/ EnqueueProcessJob(c) \/ Crash(c)
    PROVE  Held(crawl'[c]) /\ guessed' \subseteq Listings /\ resent' \subseteq Listings
           /\ lost' \subseteq Listings
<1> DEFINE r == crawl[c]  s == crawl'[c]
<1>1. Held(r) /\ crawl = [d \in Crawlers |-> crawl[d]] /\ r = [f \in Steps |-> r[f]]
      /\ Steps = {"at", "query", "links", "queue", "scraped", "form", "browser"}
  BY DEF HeldInv, StoreInv, Shape, Steps, Idle
<1>2. r.at \in {"scrape", "store", "push"} => r.queue # <<>> /\ Item(c) \in Listings
  BY <1>1, ItemIsPosting DEF Held
<1>3. guessed' \subseteq Listings /\ resent' \subseteq Listings /\ lost' \subseteq Listings
  BY <1>2 DEF HeldInv, NextPosting, ScrapeAndEnrichJob, InsertDiscoveredJob, EnqueueProcessJob,
         Crash, Tables, At, Stores, StoresNot
<1>4. CASE NextItem(c) /\ r.queue # <<>>
  BY <1>3, <1>4, NextItemHeld
<1>5. CASE crawl' = [crawl EXCEPT ![c] = Idle]
  BY <1>1, <1>3, <1>5, EmptyHeld
<1>6. CASE Goes(c, "scrape") /\ At(c, "item") /\ r.queue # <<>>
  <2>1. s.at = "scrape" /\ \A f \in Steps \ {"at"} : s[f] = r[f]
    BY <1>1, <1>6 DEF Goes
  <2>2. ~Reading(r) /\ ~Reading(s) /\ s.at \in Places
    BY <1>6, <2>1 DEF Reading, Places, At
  <2>3. Held(s)
    BY <1>1, <1>6, <2>1, <2>2 DEF Held
  <2> QED BY <1>3, <2>3
<1>7. CASE Goes(c, "push") /\ At(c, "store")
  <2>1. s.at = "push" /\ \A f \in Steps \ {"at"} : s[f] = r[f]
    BY <1>1, <1>7 DEF Goes
  <2>2. Reading(r) /\ Reading(s) /\ s.at \in Places
    BY <1>7, <2>1 DEF Reading, Places, At
  <2>3. s.queue = r.queue /\ s.scraped = r.scraped /\ s.queue # <<>>
    BY <1>1, <1>2, <1>7, <2>1 DEF At
  <2>4. Len(s.scraped) + Len(s.queue) <= MaxScrapes + (IF Reading(s) THEN 1 ELSE 0)
    BY <1>1, <2>2, <2>3 DEF Held
  <2>5. \A i \in DOMAIN s.scraped : \A j \in DOMAIN s.queue :
          s.scraped[i] = s.queue[j] => Reading(s) /\ j = 1
    BY <1>1, <2>2, <2>3 DEF Held
  <2>6. Held(s)
    BY <1>1, <2>1, <2>2, <2>3, <2>4, <2>5 DEF Held
  <2> QED BY <1>3, <2>6
<1>8. ASSUME At(c, "scrape"), NEW browser \in BOOLEAN, NEW form \in Read(Item(c), browser),
             Scraped(c, form, browser)
      PROVE  Held(s)
  <2>1. r.at = "scrape" /\ Item(c) \in Listings /\ form \in Seq(FieldSet)
    BY <1>2, <1>8, AllRead DEF At
  <2>2. /\ s.at = "store" /\ s.form = form /\ s.browser = browser
        /\ s.query = r.query /\ s.links = r.links
        /\ s.queue = r.queue /\ s.scraped = Append(r.scraped, Head(r.queue))
    BY <1>1, <1>8 DEF Scraped, Item
  <2> HIDE DEF s
  <2> QED BY <1>1, <2>1, <2>2, ItemRead
<1>9. CASE NextPosting(c)
  BY <1>4, <1>5, <1>6, <1>9 DEF NextPosting
<1>10. CASE ScrapeAndEnrichJob(c)
  <2>1. At(c, "scrape") /\ r.queue # <<>>
    BY <1>2, <1>10 DEF ScrapeAndEnrichJob, At
  <2>2. NextItem(c) \/ \E browser \in BOOLEAN :
                          \E form \in Read(Item(c), browser) : Scraped(c, form, browser)
    BY <1>10 DEF ScrapeAndEnrichJob, Read
  <2> QED BY <1>3, <1>4, <1>8, <2>1, <2>2
<1>11. CASE InsertDiscoveredJob(c)
  BY <1>2, <1>4, <1>7, <1>11 DEF InsertDiscoveredJob, At
<1>12. CASE EnqueueProcessJob(c)
  BY <1>2, <1>4, <1>12 DEF EnqueueProcessJob, At
<1>13. CASE Crash(c)
  BY <1>5, <1>13 DEF Crash
<1> QED BY <1>9, <1>10, <1>11, <1>12, <1>13

LEMMA HeldStep == StoreInv /\ HeldInv /\ [Next]_vars => HeldInv'
<1> SUFFICES ASSUME StoreInv, HeldInv, [Next]_vars PROVE HeldInv'
  OBVIOUS
<1>1. CASE UNCHANGED vars
  BY <1>1 DEF vars, HeldInv
<1>2. ASSUME NEW c \in Crawlers, Crawls(c) \/ Crash(c) PROVE HeldInv'
  <2>1. \A d \in Crawlers \ {c} : crawl'[d] = crawl[d]
    <3>1. Shape
      BY DEF StoreInv
    <3>2. CASE Looks(c)
      BY <3>1, <3>2 DEF Looks, Shape
    <3>3. CASE InsertDiscoveredJob(c) \/ EnqueueProcessJob(c) \/ Crash(c)
      BY <3>1, <3>3, OthersStay DEF InsertDiscoveredJob, EnqueueProcessJob, Crash
    <3> QED BY <1>2, <3>2, <3>3, LookingSteps DEF Crawls
  <2>2. Held(crawl'[c])
    BY <1>2, SearchHeld, PostingHeld DEF Crawls
  <2>3. guessed' \subseteq Listings /\ resent' \subseteq Listings /\ lost' \subseteq Listings
    <3>1. CASE Run(c) \/ SearchGoogle(c) \/ DedupJobURLs(c)
      BY <3>1 DEF HeldInv, Run, SearchGoogle, DedupJobURLs, Tables
    <3> QED BY <1>2, <3>1, PostingHeld DEF Crawls
  <2>4. faults' \in 0..MaxFaults /\ crashes' \in 0..MaxCrashes
    <3>1. CASE Crash(c)
      BY <3>1, BoundsAssumption DEF HeldInv, Crash
    <3>2. CASE Crawls(c)
      <4>1. crashes' = crashes
        BY <3>2 DEF Crawls, Run, SearchGoogle, DedupJobURLs, NextPosting, ScrapeAndEnrichJob,
               InsertDiscoveredJob, EnqueueProcessJob, Tables
      <4>2. faults' = faults \/ Fault
        BY <3>2 DEF Crawls, Run, SearchGoogle, DedupJobURLs, NextPosting, ScrapeAndEnrichJob,
               InsertDiscoveredJob, EnqueueProcessJob
      <4> QED BY <4>1, <4>2, BoundsAssumption DEF HeldInv, Fault
    <3> QED BY <1>2, <3>1, <3>2
  <2> QED BY <2>1, <2>2, <2>3, <2>4 DEF HeldInv
<1>3. CASE \E p \in Listings : ReplaceJobFormFields(p)
  BY <1>3 DEF HeldInv, ReplaceJobFormFields
<1> QED BY <1>1, <1>2, <1>3 DEF Next

\* What a crawler holds and has stored are listings of known boards, each once
\* and within its limit: neither several queries that find a listing nor listings
\* met again in the next run let it read more, or one twice.
THEOREM CrawlStaysBounded == Spec => []CrawlInv
<1>1. Init => HeldInv
  <2> SUFFICES ASSUME Init PROVE HeldInv
    OBVIOUS
  <2> QED BY EmptyHeld, BoundsAssumption DEF Init, HeldInv
<1>2. StoreInv /\ HeldInv => CrawlInv
  <2> SUFFICES ASSUME StoreInv, HeldInv PROVE CrawlInv
    OBVIOUS
  <2>1. ASSUME NEW p \in Listings, jobs[p] # NoJob PROVE jobs[p] \in Seq(FieldSet)
    <3>1. PICK form \in Read(p, p \in guessed) : jobs[p] = DedupeFormFieldsByLabel(form)
      BY <2>1 DEF StoreInv, ReadFrom
    <3> QED BY <3>1, AllRead, DedupeOnce
  <2>2. TypeOK
    BY <2>1 DEF TypeOK, StoreInv, Shape, HeldInv, Held, At
  <2>3. ScrapesBounded
    <3> SUFFICES ASSUME NEW c \in Crawlers
                 PROVE  /\ Len(crawl[c].scraped) + Len(crawl[c].queue) <= MaxScrapes + 1
                        /\ Len(crawl[c].scraped) <= MaxScrapes /\ Distinct(crawl[c].scraped)
      BY DEF ScrapesBounded, Distinct
    <3> DEFINE a == crawl[c].scraped  q == crawl[c].queue
    <3>1. /\ a \in Seq(Listings) /\ q \in Seq(Listings) /\ Distinct(a)
          /\ Len(a) + Len(q) <= MaxScrapes + (IF Reading(crawl[c]) THEN 1 ELSE 0)
          /\ (Reading(crawl[c]) => q # <<>>)
      BY DEF HeldInv, Held, Reading
    <3>2. Len(a) \in Nat /\ Len(q) \in Nat /\ MaxScrapes \in Nat /\ (q # <<>> => Len(q) >= 1)
      BY <3>1, BoundsAssumption
    <3> HIDE DEF a, q
    <3>3. Len(a) + Len(q) <= MaxScrapes + 1 /\ Len(a) <= MaxScrapes
      BY <3>1, <3>2
    <3> QED BY <3>1, <3>3 DEF a, q
  <2> QED BY <2>2, <2>3 DEF CrawlInv, StoreInv
<1> QED BY <1>1, <1>2, HeldStep, StoreInvariant, PTL DEF Spec
=============================================================================
