--------------------------- MODULE AttachmentsProofs ---------------------------
(***************************************************************************)
(* What a row remembers, shows and reverts (Attachments), for any number   *)
(* of documents, categories and overlapping saves.                         *)
(***************************************************************************)
EXTENDS Attachments, TLAPS

-----------------------------------------------------------------------------
(* Lists                                                                   *)

\* The row found for a document is one of its rows.
LEMMA RowFound ==
  ASSUME NEW list, NEW d \in Docs(list)
  PROVE  RowOf(list, d) \in DOMAIN list /\ list[RowOf(list, d)].doc = d
<1>1. \E i \in DOMAIN list : list[i].doc = d
  BY DEF Docs
<1> QED BY <1>1, Zenon DEF RowOf

\* Lists that name the same documents in the same places find the same rows.
LEMMA SameRow ==
  ASSUME NEW one, NEW other, NEW d, DOMAIN one = DOMAIN other,
         \A i \in DOMAIN one : one[i].doc = other[i].doc
  PROVE  RowOf(one, d) = RowOf(other, d) /\ Docs(one) = Docs(other)
<1>1. RowOf(one, d) = RowOf(other, d)
  BY DEF RowOf
<1>2. Docs(one) = Docs(other)
  BY DEF Docs
<1> QED BY <1>1, <1>2

\* In a list without duplicates any row of a document is the one found.
LEMMA OnlyRow ==
  ASSUME NEW list, NoDocTwice(list), NEW i \in DOMAIN list
  PROVE  list[i].doc \in Docs(list) /\ RowOf(list, list[i].doc) = i
<1>1. list[i].doc \in Docs(list)
  BY DEF Docs
<1> QED BY <1>1, RowFound DEF NoDocTwice

LEMMA CategoryType ==
  ASSUME NEW list \in Seq(Row), NEW d \in Docs(list)
  PROVE  d \in Doc /\ CategoryIn(list, d) \in Category
<1>1. list[RowOf(list, d)] \in Row /\ list[RowOf(list, d)].doc = d
  BY RowFound
<1> QED BY <1>1 DEF CategoryIn, Row

\* Put changes the category of one document.
LEMMA PutOne ==
  ASSUME NEW list \in Seq(Row), NEW d \in Docs(list), NEW c \in Category
  PROVE  /\ Put(list, d, c) \in Seq(Row)
         /\ Docs(Put(list, d, c)) = Docs(list)
         /\ CategoryIn(Put(list, d, c), d) = c
         /\ \A e \in Docs(list) \ {d} :
              CategoryIn(Put(list, d, c), e) = CategoryIn(list, e)
         /\ NoDocTwice(list) => NoDocTwice(Put(list, d, c))
<1> DEFINE k == RowOf(list, d)
           new == Put(list, d, c)
<1>1. k \in DOMAIN list /\ list[k].doc = d /\ k \in 1 .. Len(list)
  BY RowFound
<1>2. PICK row \in Row : row = list[k]
  BY <1>1
<1>3. new = [list EXCEPT ![k] = [row EXCEPT !.category = c]]
  BY <1>2, Zenon DEF Put
<1>4. [row EXCEPT !.category = c] \in Row /\ [row EXCEPT !.category = c].doc = d
        /\ [row EXCEPT !.category = c].category = c
  BY <1>1, <1>2 DEF Row
<1> DEFINE changed == [row EXCEPT !.category = c]
<1> HIDE DEF changed
<1>5. /\ new \in Seq(Row) /\ DOMAIN new = DOMAIN list
      /\ \A i \in DOMAIN list : new[i] = IF i = k THEN changed ELSE list[i]
  BY <1>1, <1>3, <1>4 DEF changed
<1>6. \A i \in DOMAIN list : new[i].doc = list[i].doc
  BY <1>1, <1>4, <1>5 DEF changed
<1> HIDE DEF new
<1>7. Docs(new) = Docs(list) /\ \A e : RowOf(new, e) = RowOf(list, e)
  BY <1>5, <1>6, SameRow
<1>8. CategoryIn(new, d) = c
  BY <1>1, <1>4, <1>5, <1>7 DEF CategoryIn, changed
<1>9. ASSUME NEW e \in Docs(list) \ {d} PROVE CategoryIn(new, e) = CategoryIn(list, e)
  <2>1. RowOf(list, e) \in DOMAIN list /\ RowOf(list, e) # k
    BY <1>1, RowFound
  <2> QED BY <2>1, <1>5, <1>7 DEF CategoryIn
<1>10. NoDocTwice(list) => NoDocTwice(new)
  BY <1>5, <1>6 DEF NoDocTwice
<1> QED BY <1>5, <1>7, <1>8, <1>9, <1>10 DEF new

\* Without a document a list keeps its others, each with its category.
LEMMA WithoutType ==
  ASSUME NEW list \in Seq(Row), NEW d
  PROVE  Without(list, d) \in Seq(Row)
<1>1. CASE d \in Docs(list)
  <2>1. RowOf(list, d) \in 1 .. Len(list)
    BY <1>1, RowFound
  <2> DEFINE i == RowOf(list, d)
  <2> HIDE DEF i
  <2>2. SubSeq(list, 1, i - 1) \in Seq(Row) /\ SubSeq(list, i + 1, Len(list)) \in Seq(Row)
    BY <2>1 DEF i
  <2>3. Without(list, d) = SubSeq(list, 1, i - 1) \o SubSeq(list, i + 1, Len(list))
    BY <1>1 DEF Without, RemoveAt, i
  <2> QED BY <2>2, <2>3
<1>2. CASE d \notin Docs(list)
  BY <1>2 DEF Without
<1> QED BY <1>1, <1>2

LEMMA WithoutOne ==
  ASSUME NEW list \in Seq(Row), NEW d, NoDocTwice(list)
  PROVE  /\ Docs(Without(list, d)) = Docs(list) \ {d}
         /\ NoDocTwice(Without(list, d))
         /\ \A e \in Docs(list) \ {d} :
              CategoryIn(Without(list, d), e) = CategoryIn(list, e)
<1>1. CASE d \notin Docs(list)
  BY <1>1 DEF Without
<1>2. CASE d \in Docs(list)
  <2> DEFINE k == RowOf(list, d)
             new == Without(list, d)
             front == SubSeq(list, 1, k - 1)
             back == SubSeq(list, k + 1, Len(list))
             was(j) == IF j < k THEN j ELSE j + 1
  <2>1. k \in 1 .. Len(list) /\ list[k].doc = d /\ Len(list) \in Nat
    BY <1>2, RowFound
  <2>2. new = front \o back
    BY <1>2 DEF Without, RemoveAt
  <2> HIDE DEF k, new
  <2>3. front \in Seq(Row) /\ Len(front) = k - 1
          /\ \A j \in 1 .. k - 1 : front[j] = list[j]
    BY <2>1
  <2>4. back \in Seq(Row) /\ Len(back) = Len(list) - k
          /\ \A j \in 1 .. Len(list) - k : back[j] = list[k + j]
    BY <2>1
  <2> HIDE DEF front, back
  <2>5. new \in Seq(Row) /\ Len(new) = Len(list) - 1
    <3>1. front \o back \in Seq(Row) /\ Len(front \o back) = Len(front) + Len(back)
      BY <2>3, <2>4
    <3>2. Len(new) = (k - 1) + (Len(list) - k)
      BY <3>1, <2>2, <2>3, <2>4
    <3>3. (k - 1) + (Len(list) - k) = Len(list) - 1
      BY <2>1
    <3> QED BY <3>1, <3>2, <3>3, <2>2
  <2>6. ASSUME NEW j \in 1 .. Len(new)
        PROVE  was(j) \in 1 .. Len(list) /\ was(j) # k /\ new[j] = list[was(j)]
    <3>1. CASE j < k
      <4>1. j \in 1 .. Len(front)
        BY <3>1, <2>1, <2>3
      <4>2. (front \o back)[j] = front[j]
        BY <4>1, <2>3, <2>4
      <4> QED BY <3>1, <4>1, <4>2, <2>1, <2>2, <2>3
    <3>2. CASE ~(j < k)
      <4>1. j - k + 1 \in 1 .. Len(list) - k /\ k + (j - k + 1) = j + 1
        BY <3>2, <2>1, <2>5
      <4>2. back[j - k + 1] = list[k + (j - k + 1)]
        BY <4>1, <2>4
      <4>3. j \in Len(front) + 1 .. Len(front) + Len(back)
        BY <3>2, <2>1, <2>3, <2>4, <2>5
      <4>4. (front \o back)[j] = back[j - Len(front)]
        BY <4>3, <2>3, <2>4
      <4>5. j - Len(front) = j - k + 1
        BY <2>1, <2>3
      <4>6. new[j] = list[j + 1]
        BY <4>1, <4>2, <4>4, <4>5, <2>2
      <4> QED BY <3>2, <4>1, <4>6, <2>1
    <3> QED BY <3>1, <3>2
  <2>7. ASSUME NEW i \in 1 .. Len(list), i # k
        PROVE  \E j \in 1 .. Len(new) : was(j) = i
    <3>1. CASE i < k
      BY <3>1, <2>1, <2>5, <2>7
    <3>2. CASE ~(i < k)
      <4>1. i - 1 \in 1 .. Len(new) /\ ~(i - 1 < k) /\ (i - 1) + 1 = i
        BY <3>2, <2>1, <2>5, <2>7
      <4> QED BY <4>1
    <3> QED BY <3>1, <3>2
  <2>8. DOMAIN new = 1 .. Len(new) /\ DOMAIN list = 1 .. Len(list)
    BY <2>5
  <2>9. \A i, j \in 1 .. Len(new) : was(i) = was(j) => i = j
    BY <2>1, <2>5
  <2> HIDE DEF was
  <2>10. NoDocTwice(new)
    BY <2>6, <2>8, <2>9 DEF NoDocTwice
  <2>11. Docs(new) = Docs(list) \ {d}
    <3>1. ASSUME NEW e \in Docs(new) PROVE e \in Docs(list) \ {d}
      <4>1. PICK j \in 1 .. Len(new) : new[j].doc = e
        BY <2>8 DEF Docs
      <4>2. list[was(j)].doc = e /\ was(j) \in DOMAIN list /\ was(j) # k
        BY <4>1, <2>6, <2>8
      <4>3. e # d
        BY <4>2, <2>1, <2>8 DEF NoDocTwice
      <4> QED BY <4>2, <4>3 DEF Docs
    <3>2. ASSUME NEW e \in Docs(list) \ {d} PROVE e \in Docs(new)
      <4>1. PICK i \in 1 .. Len(list) : list[i].doc = e
        BY <2>8 DEF Docs
      <4>2. i # k
        BY <4>1, <2>1
      <4>3. PICK j \in 1 .. Len(new) : was(j) = i
        BY <4>2, <2>7
      <4>4. new[j].doc = e
        BY <4>1, <4>3, <2>6
      <4> QED BY <4>4, <2>8 DEF Docs
    <3> QED BY <3>1, <3>2
  <2>12. ASSUME NEW e \in Docs(list) \ {d}
         PROVE  CategoryIn(new, e) = CategoryIn(list, e)
    <3>1. e \in Docs(new)
      BY <2>11
    <3>2. RowOf(new, e) \in DOMAIN new /\ new[RowOf(new, e)].doc = e
      BY <3>1, RowFound
    <3> DEFINE j == RowOf(new, e)
    <3>3. new[j] = list[was(j)] /\ was(j) \in DOMAIN list
      BY <3>2, <2>6, <2>8
    <3>4. RowOf(list, e) = was(j)
      BY <3>2, <3>3, OnlyRow
    <3> QED BY <3>3, <3>4 DEF CategoryIn
  <2> QED BY <2>10, <2>11, <2>12 DEF new
<1> QED BY <1>1, <1>2

\* The values on display change no document of a list.
LEMMA ShownValues ==
  ASSUME NEW list \in Seq(Row), rows \in Seq(Row)
  PROVE  /\ WithShownValues(list) \in Seq(Row)
         /\ Docs(WithShownValues(list)) = Docs(list)
         /\ NoDocTwice(list) => NoDocTwice(WithShownValues(list))
<1> DEFINE new == WithShownValues(list)
<1>1. ASSUME NEW i \in DOMAIN list
      PROVE  new[i] \in Row /\ new[i].doc = list[i].doc
  <2>1. CASE list[i].doc \in Docs(rows)
    <3>1. /\ RowOf(rows, list[i].doc) \in DOMAIN rows
          /\ rows[RowOf(rows, list[i].doc)].doc = list[i].doc
      BY <2>1, RowFound
    <3>2. rows[RowOf(rows, list[i].doc)] \in Row
      BY <3>1
    <3> QED BY <2>1, <3>1, <3>2 DEF WithShownValues
  <2>2. CASE list[i].doc \notin Docs(rows)
    BY <2>2 DEF WithShownValues
  <2> QED BY <2>1, <2>2
<1>2. DOMAIN new = DOMAIN list /\ DOMAIN list = 1 .. Len(list) /\ Len(list) \in Nat
  BY DEF WithShownValues
<1>3. new \in [1 .. Len(list) -> Row]
  <2>1. new = [i \in 1 .. Len(list) |-> new[i]]
    BY <1>2 DEF WithShownValues
  <2> HIDE DEF new
  <2> QED BY <2>1, <1>1, <1>2
<1> HIDE DEF new
<1>4. new \in Seq(Row)
  BY <1>2, <1>3
<1>5. Docs(new) = Docs(list)
  BY <1>1, <1>2, SameRow
<1>6. NoDocTwice(list) => NoDocTwice(new)
  BY <1>1, <1>2 DEF NoDocTwice
<1> QED BY <1>4, <1>5, <1>6 DEF new

-----------------------------------------------------------------------------
(* Saves                                                                   *)

\* What becomes of the other fields when one save moves on.
LEMMA SaveMoves ==
  ASSUME saves \in Seq(SaveRecords), NEW n \in DOMAIN saves,
         NEW phase \in Phases \cup {"done"}, NEW ok \in BOOLEAN,
         \/ saves' = [saves EXCEPT ![n].phase = phase, ![n].ok = ok]
         \/ saves' = [saves EXCEPT ![n].phase = phase] /\ ok = saves[n].ok
         \/ saves' = [saves EXCEPT ![n].ok = ok] /\ phase = saves[n].phase
  PROVE  /\ saves' \in Seq(SaveRecords) /\ Len(saves') = Len(saves)
         /\ \A m \in DOMAIN saves :
              /\ saves'[m].doc = saves[m].doc
              /\ saves'[m].category = saves[m].category
              /\ saves'[m].token = saves[m].token
              /\ saves'[m].live = saves[m].live
              /\ m # n => /\ saves'[m].phase = saves[m].phase
                          /\ saves'[m].ok = saves[m].ok
         /\ saves'[n].phase = phase /\ saves'[n].ok = ok
<1>1. PICK s \in SaveRecords : s = saves[n]
  OBVIOUS
<1>2. ASSUME NEW t \in SaveRecords, t.phase = phase, t.ok = ok, t.doc = s.doc,
             t.category = s.category, t.token = s.token, t.live = s.live,
             saves' = [saves EXCEPT ![n] = t]
      PROVE  /\ saves' \in Seq(SaveRecords) /\ Len(saves') = Len(saves)
             /\ \A m \in DOMAIN saves :
                  /\ saves'[m].doc = saves[m].doc
                  /\ saves'[m].category = saves[m].category
                  /\ saves'[m].token = saves[m].token
                  /\ saves'[m].live = saves[m].live
                  /\ m # n => /\ saves'[m].phase = saves[m].phase
                              /\ saves'[m].ok = saves[m].ok
             /\ saves'[n].phase = phase /\ saves'[n].ok = ok
  <2>1. /\ saves' \in Seq(SaveRecords) /\ Len(saves') = Len(saves)
        /\ \A m \in DOMAIN saves : saves'[m] = IF m = n THEN t ELSE saves[m]
    BY <1>2
  <2> QED BY <1>1, <1>2, <2>1
<1>3. CASE saves' = [saves EXCEPT ![n].phase = phase, ![n].ok = ok]
  <2> DEFINE t == [s EXCEPT !.phase = phase, !.ok = ok]
  <2>1. /\ t \in SaveRecords /\ t.phase = phase /\ t.ok = ok /\ t.doc = s.doc
        /\ t.category = s.category /\ t.token = s.token /\ t.live = s.live
    BY DEF SaveRecords
  <2>2. saves' = [saves EXCEPT ![n] = [saves[n] EXCEPT !.phase = phase, !.ok = ok]]
    BY <1>3
  <2>3. saves' = [saves EXCEPT ![n] = t]
    BY <1>1, <2>2, Zenon
  <2> HIDE DEF t
  <2> QED BY <1>2, <2>1, <2>3
<1>4. CASE saves' = [saves EXCEPT ![n].phase = phase] /\ ok = saves[n].ok
  <2> DEFINE t == [s EXCEPT !.phase = phase]
  <2>1. /\ t \in SaveRecords /\ t.phase = phase /\ t.ok = s.ok /\ t.doc = s.doc
        /\ t.category = s.category /\ t.token = s.token /\ t.live = s.live
    BY DEF SaveRecords
  <2>2. saves' = [saves EXCEPT ![n] = t]
    BY <1>1, <1>4, Zenon
  <2> HIDE DEF t
  <2> QED BY <1>1, <1>2, <1>4, <2>1, <2>2
<1>5. CASE saves' = [saves EXCEPT ![n].ok = ok] /\ phase = saves[n].phase
  <2> DEFINE t == [s EXCEPT !.ok = ok]
  <2>1. /\ t \in SaveRecords /\ t.phase = s.phase /\ t.ok = ok /\ t.doc = s.doc
        /\ t.category = s.category /\ t.token = s.token /\ t.live = s.live
    BY DEF SaveRecords
  <2>2. saves' = [saves EXCEPT ![n] = t]
    BY <1>1, <1>5, Zenon
  <2> HIDE DEF t
  <2> QED BY <1>1, <1>2, <1>5, <2>1, <2>2
<1> QED BY <1>3, <1>4, <1>5

\* The saves are as they were, but only those of some documents can still
\* change anything.
Unmount(docs) ==
  /\ saves' \in Seq(SaveRecords) /\ Len(saves') = Len(saves)
  /\ \A m \in DOMAIN saves :
       /\ saves'[m].doc = saves[m].doc
       /\ saves'[m].category = saves[m].category
       /\ saves'[m].token = saves[m].token
       /\ saves'[m].phase = saves[m].phase
       /\ saves'[m].ok = saves[m].ok
       /\ saves'[m].live <=> saves[m].live /\ saves[m].doc \in docs

\* Rows that unmount take their saves' right to answer with them.
LEMMA SavesUnmount ==
  ASSUME saves \in Seq(SaveRecords), NEW docs,
         \/ saves' = [n \in DOMAIN saves |->
                        [saves[n] EXCEPT !.live = @ /\ saves[n].doc \in docs]]
         \/ /\ saves' = [n \in DOMAIN saves |-> [saves[n] EXCEPT !.live = FALSE]]
            /\ docs = {}
  PROVE  Unmount(docs)
<1> DEFINE Same(s, t, live) ==
             /\ t \in SaveRecords
             /\ t.doc = s.doc /\ t.category = s.category /\ t.token = s.token
             /\ t.phase = s.phase /\ t.ok = s.ok /\ (t.live <=> live)
<1>1. ASSUME NEW s \in SaveRecords, NEW live \in BOOLEAN
      PROVE  Same(s, [s EXCEPT !.live = live], live)
  BY DEF SaveRecords
<1>2. DOMAIN saves = 1 .. Len(saves) /\ Len(saves) \in Nat
        /\ \A m \in DOMAIN saves : saves[m] \in SaveRecords
  OBVIOUS
<1>3. DOMAIN saves' = DOMAIN saves
  OBVIOUS
<1>4. ASSUME NEW m \in DOMAIN saves
      PROVE  Same(saves[m], saves'[m], saves[m].live /\ saves[m].doc \in docs)
  <2>1. PICK s \in SaveRecords : s = saves[m]
    BY <1>2
  <2>2. s.live \in BOOLEAN
    BY DEF SaveRecords
  <2> HIDE DEF Same
  <2>3. CASE saves' = [n \in DOMAIN saves |->
                         [saves[n] EXCEPT !.live = @ /\ saves[n].doc \in docs]]
    <3> DEFINE live == s.live /\ s.doc \in docs
    <3>1. live \in BOOLEAN
      BY <2>2
    <3>2. saves'[m] = [saves[m] EXCEPT !.live = @ /\ saves[m].doc \in docs]
      BY <2>3, Zenon
    <3>3. saves'[m] = [saves[m] EXCEPT !.live = saves[m].live /\ saves[m].doc \in docs]
      BY <3>2, Zenon
    <3>4. saves'[m] = [s EXCEPT !.live = live]
      BY <3>3, <2>1, Zenon
    <3>5. Same(s, [s EXCEPT !.live = live], live)
      <4> HIDE DEF live
      <4> QED BY <3>1, <1>1, Zenon
    <3> QED BY <3>4, <3>5, <2>1, Zenon
  <2>4. CASE /\ saves' = [n \in DOMAIN saves |-> [saves[n] EXCEPT !.live = FALSE]]
             /\ docs = {}
    <3>1. saves'[m] = [s EXCEPT !.live = FALSE]
      BY <2>1, <2>4, Zenon
    <3>2. Same(s, saves'[m], FALSE)
      <4>1. FALSE \in BOOLEAN
        OBVIOUS
      <4> QED BY <3>1, <4>1, <1>1, Zenon
    <3> QED BY <2>1, <2>4, <3>2 DEF Same
  <2> QED BY <2>3, <2>4
<1>5. saves' \in [1 .. Len(saves) -> SaveRecords]
  <2>1. saves' = [m \in DOMAIN saves |-> saves'[m]]
    BY Zenon
  <2> QED BY <2>1, <1>2, <1>4
<1>6. saves' \in Seq(SaveRecords) /\ Len(saves') = Len(saves)
  BY <1>2, <1>5
<1> QED BY <1>4, <1>6 DEF Unmount

\* A choice of a category that is not blank adds one save.
LEMMA SaveAdded ==
  ASSUME saves \in Seq(SaveRecords), NEW d \in Doc, NEW c \in Category,
         NEW token \in Nat, NEW at \in Nat,
         saves' = Append(saves, [phase |-> "sent", doc |-> d, category |-> c,
                    token |-> token, at |-> at, ok |-> FALSE, live |-> TRUE])
  PROVE  LET n == Len(saves) + 1
         IN /\ saves' \in Seq(SaveRecords) /\ Len(saves') = n
            /\ \A m \in DOMAIN saves : saves'[m] = saves[m] /\ m < n
            /\ DOMAIN saves' = DOMAIN saves \cup {n}
            /\ saves'[n].phase = "sent" /\ saves'[n].doc = d
            /\ saves'[n].category = c /\ saves'[n].token = token
            /\ saves'[n].ok = FALSE /\ saves'[n].live = TRUE
<1> DEFINE t == [phase |-> "sent", doc |-> d, category |-> c, token |-> token,
                 at |-> at, ok |-> FALSE, live |-> TRUE]
<1>1. /\ t \in SaveRecords /\ t.phase = "sent" /\ t.doc = d /\ t.category = c
      /\ t.token = token /\ t.ok = FALSE /\ t.live = TRUE
  BY DEF SaveRecords, Phases
<1>2. saves' = Append(saves, t)
  OBVIOUS
<1> HIDE DEF t
<1>3. /\ saves' \in Seq(SaveRecords) /\ Len(saves') = Len(saves) + 1
      /\ saves'[Len(saves) + 1] = t
      /\ \A m \in 1 .. Len(saves) : saves'[m] = saves[m]
      /\ Len(saves) \in Nat /\ DOMAIN saves = 1 .. Len(saves)
  BY <1>1, <1>2
<1>4. DOMAIN saves' = 1 .. Len(saves) + 1
  BY <1>3
<1> QED BY <1>1, <1>3, <1>4

-----------------------------------------------------------------------------
(* What each operation of a row does                                       *)

LiveRows == \A n \in DOMAIN saves : saves[n].live => saves[n].doc \in Docs(rows)

RowRefs == [saved : Category, latest : Nat, last : Nat]

LEMMA FreshType ==
  ASSUME NEW list \in Seq(Row), NEW d \in Doc
  PROVE  FreshRefs(list, d) \in RowRefs
BY CategoryType, CategoryAssumption DEF FreshRefs, RowRefs

LEMMA Lists ==
  ASSUME TypeOK
  PROVE  /\ rows \in Seq(Row) /\ held \in Seq(Row)
         /\ saves \in Seq(SaveRecords) /\ Len(saves) \in Nat
         /\ DOMAIN saves = 1 .. Len(saves)
         /\ refs \in [Doc -> RowRefs]
         /\ \A n \in DOMAIN saves :
              /\ saves[n].doc \in Doc /\ saves[n].category \in Category
              /\ saves[n].token \in Nat /\ saves[n].ok \in BOOLEAN
              /\ saves[n].live \in BOOLEAN
         /\ \A d \in Doc : /\ refs[d].saved \in Category
                           /\ refs[d].latest \in Nat /\ refs[d].last \in Nat
<1>1. /\ saves \in Seq(SaveRecords) /\ refs \in [Doc -> RowRefs]
      /\ rows \in Seq(Row) /\ held \in Seq(Row)
  BY DEF TypeOK, RowRefs
<1>2. \A n \in DOMAIN saves : saves[n] \in SaveRecords
  BY <1>1
<1>3. \A d \in Doc : refs[d] \in RowRefs
  BY <1>1
<1> QED BY <1>1, <1>2, <1>3 DEF SaveRecords, RowRefs

\* A choice of category changes the row, its token, and adds a save; a blank
\* one counts as saved.
LEMMA Chosen ==
  ASSUME TypeOK, NEW d \in Doc, NEW c \in Category, ChooseCategory(d, c)
  PROVE  /\ listShown /\ d \in Docs(rows)
         /\ rows' \in Seq(Row) /\ Docs(rows') = Docs(rows)
         /\ CategoryIn(rows', d) = c
         /\ \A e \in Docs(rows) \ {d} : CategoryIn(rows', e) = CategoryIn(rows, e)
         /\ NoDocTwice(rows) => NoDocTwice(rows')
         /\ refs' \in [Doc -> RowRefs]
         /\ \A e \in Doc \ {d} : refs'[e] = refs[e]
         /\ refs'[d].latest = refs[d].latest + 1
         /\ \/ /\ c = Blank /\ saves' = saves
               /\ refs'[d].saved = c /\ refs'[d].last = refs[d].latest + 1
            \/ /\ refs'[d].saved = refs[d].saved /\ refs'[d].last = refs[d].last
               /\ LET n == Len(saves) + 1
                  IN /\ saves' \in Seq(SaveRecords) /\ Len(saves') = n
                     /\ Len(saves) < setting.maxSaves
                     /\ \A m \in DOMAIN saves : saves'[m] = saves[m] /\ m < n
                     /\ DOMAIN saves' = DOMAIN saves \cup {n}
                     /\ saves'[n].phase = "sent" /\ saves'[n].doc = d
                     /\ saves'[n].category = c
                     /\ saves'[n].token = refs[d].latest + 1
                     /\ saves'[n].ok = FALSE /\ saves'[n].live = TRUE
<1> DEFINE token == refs[d].latest + 1
<1>1. listShown /\ d \in Docs(rows) /\ rows' = Put(rows, d, c)
  BY DEF ChooseCategory, Mounted
<1>2. /\ rows' \in Seq(Row) /\ Docs(rows') = Docs(rows) /\ CategoryIn(rows', d) = c
      /\ \A e \in Docs(rows) \ {d} : CategoryIn(rows', e) = CategoryIn(rows, e)
      /\ NoDocTwice(rows) => NoDocTwice(rows')
  BY <1>1, Lists, PutOne
<1>3. PICK r \in RowRefs : r = refs[d]
  BY Lists
<1>4. token \in Nat /\ r.latest \in Nat /\ r.last \in Nat
  BY <1>3, Lists
<1>5. ASSUME NEW t \in RowRefs, refs' = [refs EXCEPT ![d] = t]
      PROVE  /\ refs' \in [Doc -> RowRefs] /\ refs'[d] = t
             /\ \A e \in Doc \ {d} : refs'[e] = refs[e]
  BY <1>5, Lists
<1>6. CASE c = Blank /\ saves' = saves /\
           refs' = [refs EXCEPT ![d] = [saved |-> c, latest |-> token, last |-> token]]
  <2> DEFINE t == [saved |-> c, latest |-> token, last |-> token]
  <2>1. t \in RowRefs /\ t.saved = c /\ t.latest = token /\ t.last = token
    BY <1>4 DEF RowRefs
  <2> HIDE DEF t
  <2>2. refs' = [refs EXCEPT ![d] = t]
    BY <1>6 DEF t
  <2> QED BY <1>1, <1>2, <1>5, <1>6, <2>1, <2>2
<1>7. CASE /\ c # Blank /\ Len(saves) < setting.maxSaves
           /\ refs' = [refs EXCEPT ![d].latest = token]
           /\ saves' = Append(saves, [phase |-> "sent", doc |-> d,
                         category |-> c, token |-> token,
                         at |-> RowOf(rows, d), ok |-> FALSE, live |-> TRUE])
  <2> DEFINE t == [r EXCEPT !.latest = token]
  <2>1. t \in RowRefs /\ t.saved = r.saved /\ t.latest = token /\ t.last = r.last
    BY <1>4 DEF RowRefs
  <2>2. refs' = [refs EXCEPT ![d] = t]
    BY <1>3, <1>7, Zenon
  <2>3. RowOf(rows, d) \in Nat
    BY <1>1, RowFound, Lists
  <2> HIDE DEF t
  <2>4. /\ refs' \in [Doc -> RowRefs] /\ refs'[d] = t
        /\ \A e \in Doc \ {d} : refs'[e] = refs[e]
    BY <1>5, <2>1, <2>2
  <2>5. LET n == Len(saves) + 1
        IN /\ saves' \in Seq(SaveRecords) /\ Len(saves') = n
           /\ \A m \in DOMAIN saves : saves'[m] = saves[m] /\ m < n
           /\ DOMAIN saves' = DOMAIN saves \cup {n}
           /\ saves'[n].phase = "sent" /\ saves'[n].doc = d
           /\ saves'[n].category = c /\ saves'[n].token = token
           /\ saves'[n].ok = FALSE /\ saves'[n].live = TRUE
    <3> HIDE DEF token
    <3> QED BY <1>4, <1>7, <2>3, Lists, SaveAdded
  <2> QED BY <1>1, <1>2, <1>3, <1>7, <2>1, <2>4, <2>5
<1> QED BY <1>6, <1>7 DEF ChooseCategory

\* An answer to a save ends it; a success it may remember becomes what is
\* saved, a failure of the newest puts the row back to that.
LEMMA Arrived ==
  ASSUME TypeOK, LiveRows, NEW n \in DOMAIN saves, SaveArrives(n)
  PROVE  LET d == saves[n].doc
         IN /\ saves[n].phase = "answered"
            /\ saves' \in Seq(SaveRecords) /\ Len(saves') = Len(saves)
            /\ \A m \in DOMAIN saves :
                 /\ saves'[m].doc = saves[m].doc
                 /\ saves'[m].category = saves[m].category
                 /\ saves'[m].token = saves[m].token
                 /\ saves'[m].live = saves[m].live
                 /\ saves'[m].ok = saves[m].ok
                 /\ m # n => saves'[m].phase = saves[m].phase
            /\ saves'[n].phase = "done"
            /\ rows' \in Seq(Row) /\ Docs(rows') = Docs(rows)
            /\ \A e \in Docs(rows) \ {d} : CategoryIn(rows', e) = CategoryIn(rows, e)
            /\ NoDocTwice(rows) => NoDocTwice(rows')
            /\ refs' \in [Doc -> RowRefs]
            /\ \A e \in Doc \ {d} : refs'[e] = refs[e]
            /\ refs'[d].latest = refs[d].latest
            /\ IF saves[n].live /\ saves[n].ok /\ saves[n].token > refs[d].last
               THEN /\ refs'[d].saved = saves[n].category
                    /\ refs'[d].last = saves[n].token
               ELSE refs'[d] = refs[d]
            /\ IF saves[n].live /\ ~saves[n].ok /\ saves[n].token = refs[d].latest
               THEN CategoryIn(rows', d) = refs[d].saved
               ELSE rows' = rows
<1> DEFINE d == saves[n].doc
<1>1. /\ saves \in Seq(SaveRecords) /\ "done" \in Phases \cup {"done"}
      /\ saves[n].ok \in BOOLEAN /\ d \in Doc /\ saves[n].category \in Category
      /\ saves[n].token \in Nat
      /\ refs \in [Doc -> RowRefs] /\ refs[d].saved \in Category /\ rows \in Seq(Row)
  BY Lists
<1>2. saves' = [saves EXCEPT ![n].phase = "done"] /\ saves[n].phase = "answered"
  BY DEF SaveArrives
<1>3. /\ saves' \in Seq(SaveRecords) /\ Len(saves') = Len(saves)
      /\ \A m \in DOMAIN saves :
           /\ saves'[m].doc = saves[m].doc
           /\ saves'[m].category = saves[m].category
           /\ saves'[m].token = saves[m].token
           /\ saves'[m].live = saves[m].live
           /\ m # n => /\ saves'[m].phase = saves[m].phase
                       /\ saves'[m].ok = saves[m].ok
      /\ saves'[n].phase = "done" /\ saves'[n].ok = saves[n].ok
  BY <1>1, <1>2, SaveMoves
<1>4. /\ refs' \in [Doc -> RowRefs]
      /\ \A e \in Doc \ {d} : refs'[e] = refs[e]
      /\ refs'[d].latest = refs[d].latest
      /\ IF saves[n].live /\ saves[n].ok /\ saves[n].token > refs[d].last
         THEN refs'[d].saved = saves[n].category /\ refs'[d].last = saves[n].token
         ELSE refs'[d] = refs[d]
  <2>1. CASE saves[n].live /\ saves[n].ok /\ saves[n].token > refs[d].last
    <3>1. refs' = [refs EXCEPT ![d].saved = saves[n].category,
                               ![d].last = saves[n].token]
      BY <2>1 DEF SaveArrives, Remembers
    <3>2. PICK r \in RowRefs : r = refs[d]
      BY <1>1
    <3> DEFINE t == [r EXCEPT !.saved = saves[n].category, !.last = saves[n].token]
    <3>3. /\ t \in RowRefs /\ t.saved = saves[n].category
          /\ t.last = saves[n].token /\ t.latest = r.latest
      BY <1>1 DEF RowRefs
    <3>4. refs' = [refs EXCEPT ![d] = [refs[d] EXCEPT !.saved = saves[n].category,
                                                      !.last = saves[n].token]]
      BY <3>1
    <3>5. refs' = [refs EXCEPT ![d] = t]
      BY <3>2, <3>4, Zenon
    <3> HIDE DEF t
    <3>6. /\ refs' \in [Doc -> RowRefs] /\ refs'[d] = t
          /\ \A e \in Doc \ {d} : refs'[e] = refs[e]
      BY <1>1, <3>3, <3>5
    <3> QED BY <2>1, <3>2, <3>3, <3>6
  <2>2. CASE ~(saves[n].live /\ saves[n].ok /\ saves[n].token > refs[d].last)
    <3>1. refs' = refs
      BY <2>2 DEF SaveArrives, Remembers
    <3> QED BY <1>1, <2>2, <3>1
  <2> QED BY <2>1, <2>2
<1>5. /\ rows' \in Seq(Row) /\ Docs(rows') = Docs(rows)
      /\ \A e \in Docs(rows) \ {d} : CategoryIn(rows', e) = CategoryIn(rows, e)
      /\ NoDocTwice(rows) => NoDocTwice(rows')
      /\ IF saves[n].live /\ ~saves[n].ok /\ saves[n].token = refs[d].latest
         THEN CategoryIn(rows', d) = refs[d].saved
         ELSE rows' = rows
  <2>1. CASE saves[n].live /\ ~saves[n].ok /\ saves[n].token = refs[d].latest
    <3>1. rows' = Put(rows, d, refs[d].saved)
      BY <2>1 DEF SaveArrives, Reverts, RevertTo
    <3>2. d \in Docs(rows)
      BY <2>1 DEF LiveRows
    <3> QED BY <1>1, <2>1, <3>1, <3>2, PutOne
  <2>2. CASE ~(saves[n].live /\ ~saves[n].ok /\ saves[n].token = refs[d].latest)
    <3>1. rows' = rows
      BY <2>2 DEF SaveArrives, Reverts
    <3> QED BY <1>1, <2>2, <3>1
  <2> QED BY <2>1, <2>2
<1> QED BY <1>2, <1>3, <1>4, <1>5

\* A new list leaves the refs of the rows that stay.
LEMMA ListSet ==
  ASSUME TypeOK, NEW list \in Seq(Row), SetList(list)
  PROVE  /\ rows' = list
         /\ refs' \in [Doc -> RowRefs]
         /\ \A d \in Doc : Mounted(d) /\ d \in Docs(list) => refs'[d] = refs[d]
         /\ saves' \in Seq(SaveRecords) /\ Len(saves') = Len(saves)
         /\ \A m \in DOMAIN saves :
              /\ saves'[m].doc = saves[m].doc
              /\ saves'[m].category = saves[m].category
              /\ saves'[m].token = saves[m].token
              /\ saves'[m].phase = saves[m].phase
              /\ saves'[m].ok = saves[m].ok
              /\ saves'[m].live <=> saves[m].live /\ saves[m].doc \in Docs(list)
<1>1. refs' = [d \in Doc |-> IF Mounted(d) /\ d \in Docs(list) THEN refs[d]
                             ELSE FreshRefs(list, d)]
  BY DEF SetList
<1>2. \A d \in Doc : refs[d] \in RowRefs /\ FreshRefs(list, d) \in RowRefs
  BY Lists, FreshType
<1>3. refs' \in [Doc -> RowRefs]
  BY <1>1, <1>2
<1>4. /\ saves' \in Seq(SaveRecords) /\ Len(saves') = Len(saves)
      /\ \A m \in DOMAIN saves :
           /\ saves'[m].doc = saves[m].doc
           /\ saves'[m].category = saves[m].category
           /\ saves'[m].token = saves[m].token
           /\ saves'[m].phase = saves[m].phase
           /\ saves'[m].ok = saves[m].ok
           /\ saves'[m].live <=> saves[m].live /\ saves[m].doc \in Docs(list)
  <2>1. saves' = [n \in DOMAIN saves |->
                    [saves[n] EXCEPT !.live = @ /\ saves[n].doc \in Docs(list)]]
    BY DEF SetList
  <2>2. Unmount(Docs(list))
    BY <2>1, Lists, SavesUnmount
  <2> QED BY <2>2 DEF Unmount
<1> QED BY <1>1, <1>3, <1>4 DEF SetList

\* One call has become what is said, the others are as they were.
OneCall(new, calls, d, phase, ok, list) ==
  /\ new \in [Doc -> ListCalls]
  /\ \A e \in Doc \ {d} : new[e] = calls[e]
  /\ new[d].phase = phase /\ new[d].ok = ok /\ new[d].list = list

\* A call on the list is answered.
LEMMA CallAnswered ==
  ASSUME NEW calls \in [Doc -> ListCalls], NEW d \in Doc, NEW new,
         NEW ok \in BOOLEAN,
         \/ new = [calls EXCEPT ![d].phase = "answered", ![d].ok = TRUE] /\ ok = TRUE
         \/ new = [calls EXCEPT ![d].phase = "answered"] /\ ok = calls[d].ok
  PROVE  OneCall(new, calls, d, "answered", ok, calls[d].list)
<1>1. PICK c \in ListCalls : c = calls[d]
  OBVIOUS
<1>2. ASSUME NEW t \in ListCalls, t.phase = "answered", t.ok = ok, t.list = c.list,
             new = [calls EXCEPT ![d] = t]
      PROVE  OneCall(new, calls, d, "answered", ok, calls[d].list)
  <2>1. new \in [Doc -> ListCalls] /\ new[d] = t /\ \A e \in Doc \ {d} : new[e] = calls[e]
    BY <1>2
  <2> QED BY <1>1, <1>2, <2>1 DEF OneCall
<1>3. CASE new = [calls EXCEPT ![d].phase = "answered", ![d].ok = TRUE] /\ ok = TRUE
  <2> DEFINE t == [c EXCEPT !.phase = "answered", !.ok = TRUE]
  <2>1. t \in ListCalls /\ t.phase = "answered" /\ t.ok = TRUE /\ t.list = c.list
    BY DEF ListCalls, Phases
  <2>2. new = [calls EXCEPT ![d] = [calls[d] EXCEPT !.phase = "answered", !.ok = TRUE]]
    BY <1>3
  <2>3. new = [calls EXCEPT ![d] = t]
    BY <1>1, <2>2, Zenon
  <2> HIDE DEF t
  <2> QED BY <1>2, <1>3, <2>1, <2>3
<1>4. CASE new = [calls EXCEPT ![d].phase = "answered"] /\ ok = calls[d].ok
  <2> DEFINE t == [c EXCEPT !.phase = "answered"]
  <2>1. t \in ListCalls /\ t.phase = "answered" /\ t.ok = c.ok /\ t.list = c.list
    BY DEF ListCalls, Phases
  <2>2. new = [calls EXCEPT ![d] = t]
    BY <1>1, <1>4, Zenon
  <2> HIDE DEF t
  <2> QED BY <1>1, <1>2, <1>4, <2>1, <2>2
<1> QED BY <1>3, <1>4

\* A call on the list is sent, over, or answered with a list.
LEMMA CallBecomes ==
  ASSUME NEW calls \in [Doc -> ListCalls], NEW d \in Doc, NEW new,
         NEW phase \in Phases, NEW ok \in BOOLEAN, NEW list \in Seq(Row),
         new = [calls EXCEPT ![d] = [phase |-> phase, ok |-> ok, list |-> list]]
  PROVE  OneCall(new, calls, d, phase, ok, list)
<1> DEFINE t == [phase |-> phase, ok |-> ok, list |-> list]
<1>1. t \in ListCalls /\ t.phase = phase /\ t.ok = ok /\ t.list = list
  BY DEF ListCalls
<1>2. new = [calls EXCEPT ![d] = t]
  OBVIOUS
<1> HIDE DEF t
<1>3. new \in [Doc -> ListCalls] /\ new[d] = t /\ \A e \in Doc \ {d} : new[e] = calls[e]
  BY <1>1, <1>2
<1> QED BY <1>1, <1>3 DEF OneCall

LEMMA Calls ==
  ASSUME TypeOK, NEW d \in Doc
  PROVE  /\ deletes \in [Doc -> ListCalls] /\ uploads \in [Doc -> ListCalls]
         /\ deletes[d].ok \in BOOLEAN /\ deletes[d].list \in Seq(Row)
         /\ uploads[d].ok \in BOOLEAN /\ uploads[d].list \in Seq(Row)
<1>1. deletes \in [Doc -> ListCalls] /\ uploads \in [Doc -> ListCalls]
  BY DEF TypeOK
<1>2. deletes[d] \in ListCalls /\ uploads[d] \in ListCalls
  BY <1>1
<1> QED BY <1>1, <1>2 DEF ListCalls

\* The answer to a deletion sets the list its handler closed over, in one of
\* two states, without the document; a refused one changes nothing.
LEMMA Deleted ==
  ASSUME TypeOK, NEW d \in Doc, DeleteArrives(d)
  PROVE  /\ deletes[d].phase = "answered"
         /\ deletes' \in [Doc -> ListCalls]
         /\ \A e \in Doc \ {d} : deletes'[e] = deletes[e]
         /\ deletes'[d].phase = "idle" /\ deletes'[d].list = << >>
         /\ \/ /\ deletes[d].ok
               /\ \E list \in Seq(Row) :
                    /\ Docs(list) = Docs(deletes[d].list)
                    /\ NoDocTwice(deletes[d].list) => NoDocTwice(list)
                    /\ Without(list, d) \in Seq(Row)
                    /\ SetList(Without(list, d))
            \/ UNCHANGED <<rows, refs, saves>>
<1>1. deletes' = [deletes EXCEPT ![d] = [phase |-> "idle", ok |-> FALSE, list |-> <<>>]]
  BY DEF DeleteArrives, IdleCall
<1>2. /\ deletes' \in [Doc -> ListCalls]
      /\ \A e \in Doc \ {d} : deletes'[e] = deletes[e]
      /\ deletes'[d].phase = "idle" /\ deletes'[d].list = << >>
  <2>1. << >> \in Seq(Row) /\ "idle" \in Phases /\ FALSE \in BOOLEAN
    BY DEF Phases
  <2>2. deletes \in [Doc -> ListCalls]
    BY Calls
  <2>3. OneCall(deletes', deletes, d, "idle", FALSE, << >>)
    BY <1>1, <2>1, <2>2, CallBecomes
  <2> QED BY <2>3 DEF OneCall
<1>3. CASE UNCHANGED <<rows, refs, saves>>
  BY <1>2, <1>3 DEF DeleteArrives
<1>4. CASE /\ deletes[d].ok
           /\ \E list \in {deletes[d].list, WithShownValues(deletes[d].list)} :
                SetList(Without(list, d))
  <2>1. PICK list \in {deletes[d].list, WithShownValues(deletes[d].list)} :
          SetList(Without(list, d))
    BY <1>4
  <2>2. deletes[d].list \in Seq(Row) /\ rows \in Seq(Row)
    BY Calls, Lists
  <2>3. /\ list \in Seq(Row) /\ Docs(list) = Docs(deletes[d].list)
        /\ NoDocTwice(deletes[d].list) => NoDocTwice(list)
    BY <2>1, <2>2, ShownValues
  <2>4. Without(list, d) \in Seq(Row)
    BY <2>3, WithoutType
  <2> QED BY <1>2, <1>4, <2>1, <2>3, <2>4 DEF DeleteArrives
<1> QED BY <1>3, <1>4 DEF DeleteArrives

\* The server takes or refuses a save; what it takes it holds.
LEMMA Served ==
  ASSUME TypeOK, NEW n \in DOMAIN saves, ServeSave(n)
  PROVE  LET d == saves[n].doc
         IN /\ saves[n].phase = "sent" /\ InItsTurn(n)
            /\ saves' \in Seq(SaveRecords) /\ Len(saves') = Len(saves)
            /\ \A m \in DOMAIN saves :
                 /\ saves'[m].doc = saves[m].doc
                 /\ saves'[m].category = saves[m].category
                 /\ saves'[m].token = saves[m].token
                 /\ saves'[m].live = saves[m].live
                 /\ m # n => /\ saves'[m].phase = saves[m].phase
                             /\ saves'[m].ok = saves[m].ok
            /\ saves'[n].phase = "answered"
            /\ held' \in Seq(Row) /\ Docs(held') = Docs(held)
            /\ NoDocTwice(held) => NoDocTwice(held')
            /\ \A e \in Docs(held) \ {d} : CategoryIn(held', e) = CategoryIn(held, e)
            /\ \/ /\ saves'[n].ok = TRUE /\ d \in Docs(held)
                  /\ CategoryIn(held', d) = saves[n].category
               \/ saves'[n].ok = saves[n].ok /\ held' = held
<1> DEFINE d == saves[n].doc
<1>1. /\ saves \in Seq(SaveRecords) /\ "answered" \in Phases \cup {"done"}
      /\ saves[n].ok \in BOOLEAN /\ saves[n].category \in Category
      /\ held \in Seq(Row) /\ TRUE \in BOOLEAN
  BY Lists DEF Phases
<1>2. CASE /\ d \in Docs(held) /\ held' = Put(held, d, saves[n].category)
           /\ saves' = [saves EXCEPT ![n].phase = "answered", ![n].ok = TRUE]
  <2>1. /\ held' \in Seq(Row) /\ Docs(held') = Docs(held)
        /\ NoDocTwice(held) => NoDocTwice(held')
        /\ \A e \in Docs(held) \ {d} : CategoryIn(held', e) = CategoryIn(held, e)
        /\ CategoryIn(held', d) = saves[n].category
    BY <1>1, <1>2, PutOne
  <2>2. /\ saves' \in Seq(SaveRecords) /\ Len(saves') = Len(saves)
        /\ \A m \in DOMAIN saves :
             /\ saves'[m].doc = saves[m].doc
             /\ saves'[m].category = saves[m].category
             /\ saves'[m].token = saves[m].token
             /\ saves'[m].live = saves[m].live
             /\ m # n => /\ saves'[m].phase = saves[m].phase
                         /\ saves'[m].ok = saves[m].ok
        /\ saves'[n].phase = "answered" /\ saves'[n].ok = TRUE
    BY <1>1, <1>2, SaveMoves
  <2> QED BY <1>2, <2>1, <2>2 DEF ServeSave
<1>3. CASE saves' = [saves EXCEPT ![n].phase = "answered"] /\ held' = held
  <2>1. /\ saves' \in Seq(SaveRecords) /\ Len(saves') = Len(saves)
        /\ \A m \in DOMAIN saves :
             /\ saves'[m].doc = saves[m].doc
             /\ saves'[m].category = saves[m].category
             /\ saves'[m].token = saves[m].token
             /\ saves'[m].live = saves[m].live
             /\ m # n => /\ saves'[m].phase = saves[m].phase
                         /\ saves'[m].ok = saves[m].ok
        /\ saves'[n].phase = "answered" /\ saves'[n].ok = saves[n].ok
    BY <1>1, <1>3, SaveMoves
  <2> QED BY <1>1, <1>3, <2>1 DEF ServeSave
<1> QED BY <1>2, <1>3 DEF ServeSave

LEMMA AnswerLost ==
  ASSUME TypeOK, NEW n \in DOMAIN saves, LoseAnswer(n)
  PROVE  /\ setting.lossy
         /\ saves' \in Seq(SaveRecords) /\ Len(saves') = Len(saves)
         /\ \A m \in DOMAIN saves :
              /\ saves'[m].doc = saves[m].doc
              /\ saves'[m].category = saves[m].category
              /\ saves'[m].token = saves[m].token
              /\ saves'[m].phase = saves[m].phase
              /\ saves'[m].live = saves[m].live
<1>1. /\ saves \in Seq(SaveRecords) /\ saves[n].phase \in Phases \cup {"done"}
      /\ FALSE \in BOOLEAN
  BY Lists DEF LoseAnswer, Phases
<1>2. saves' = [saves EXCEPT ![n].ok = FALSE]
  BY DEF LoseAnswer
<1>3. /\ saves' \in Seq(SaveRecords) /\ Len(saves') = Len(saves)
      /\ \A m \in DOMAIN saves :
           /\ saves'[m].doc = saves[m].doc
           /\ saves'[m].category = saves[m].category
           /\ saves'[m].token = saves[m].token
           /\ saves'[m].live = saves[m].live
           /\ m # n => saves'[m].phase = saves[m].phase
      /\ saves'[n].phase = saves[n].phase
  BY <1>1, <1>2, SaveMoves
<1> QED BY <1>3 DEF LoseAnswer

-----------------------------------------------------------------------------
(* Types, rows that are there, and documents named once                    *)

NamedOnce ==
  /\ NoDocTwice(rows) /\ NoDocTwice(held)
  /\ \A d \in Doc : /\ NoDocTwice(deletes[d].list) /\ NoDocTwice(uploads[d].list)
                    /\ uploads[d].phase = "sent" => d \notin Docs(held)

Base == TypeOK /\ LiveRows /\ NamedOnce

LEMMA BaseStarts == Init => Base
<1> SUFFICES ASSUME Init PROVE Base
  OBVIOUS
<1>1. /\ setting \in Settings /\ rows \in Seq(Row) /\ held \in Seq(Row)
      /\ NoDocTwice(rows) /\ NoDocTwice(held) /\ setting.maxSaves \in Nat
  BY SettingsAssumption DEF Init
<1>2. refs \in [Doc -> [saved : Category, latest : Nat, last : Nat]]
  BY <1>1, FreshType DEF Init, RowRefs
<1>3. IdleCall \in ListCalls /\ NoDocTwice(IdleCall.list) /\ IdleCall.phase = "idle"
  BY DEF IdleCall, ListCalls, Phases, NoDocTwice
<1>4. deletes \in [Doc -> ListCalls] /\ uploads \in [Doc -> ListCalls]
  BY <1>3 DEF Init
<1>5. saves \in Seq(SaveRecords) /\ Len(saves) = 0 /\ DOMAIN saves = {}
  BY DEF Init
<1>6. TypeOK
  BY <1>1, <1>2, <1>4, <1>5 DEF TypeOK, Init
<1>7. LiveRows
  BY <1>5 DEF LiveRows
<1>8. NamedOnce
  BY <1>1, <1>3 DEF NamedOnce, Init
<1> QED BY <1>6, <1>7, <1>8 DEF Base

LEMMA LiveRowsKept ==
  ASSUME TypeOK, LiveRows, saves' \in Seq(SaveRecords), Len(saves') = Len(saves),
         Docs(rows') = Docs(rows),
         \A m \in DOMAIN saves :
           saves'[m].doc = saves[m].doc /\ saves'[m].live = saves[m].live
  PROVE  LiveRows'
<1>1. DOMAIN saves' = DOMAIN saves
  BY Lists
<1> QED BY <1>1, Zenon DEF LiveRows

LEMMA BaseSaves ==
  ASSUME Base, NEW n \in DOMAIN saves, SaveStep(n)
  PROVE  Base'
<1>1. CASE ServeSave(n)
  <2>1. TypeOK /\ LiveRows /\ NamedOnce
    BY DEF Base
  <2>2. /\ saves' \in Seq(SaveRecords) /\ Len(saves') = Len(saves)
        /\ \A m \in DOMAIN saves :
             saves'[m].doc = saves[m].doc /\ saves'[m].live = saves[m].live
        /\ held' \in Seq(Row) /\ Docs(held') = Docs(held) /\ NoDocTwice(held')
    BY <1>1, <2>1, Served DEF NamedOnce
  <2>3. UNCHANGED <<setting, rows, listShown, refs, deletes, uploads>>
    BY <1>1 DEF ServeSave
  <2>4. TypeOK'
    BY <2>1, <2>2, <2>3 DEF TypeOK
  <2>5. LiveRows'
    BY <2>1, <2>2, <2>3, LiveRowsKept
  <2>6. NamedOnce'
    BY <2>1, <2>2, <2>3 DEF NamedOnce
  <2> QED BY <2>4, <2>5, <2>6 DEF Base
<1>2. CASE LoseAnswer(n)
  <2>1. TypeOK /\ LiveRows /\ NamedOnce
    BY DEF Base
  <2>2. /\ saves' \in Seq(SaveRecords) /\ Len(saves') = Len(saves)
        /\ \A m \in DOMAIN saves :
             saves'[m].doc = saves[m].doc /\ saves'[m].live = saves[m].live
    BY <1>2, <2>1, AnswerLost
  <2>3. UNCHANGED <<setting, rows, listShown, refs, deletes, uploads, held>>
    BY <1>2 DEF LoseAnswer
  <2>4. TypeOK'
    BY <2>1, <2>2, <2>3 DEF TypeOK
  <2>5. LiveRows'
    BY <2>1, <2>2, <2>3, LiveRowsKept
  <2>6. NamedOnce'
    BY <2>1, <2>3 DEF NamedOnce
  <2> QED BY <2>4, <2>5, <2>6 DEF Base
<1>3. CASE SaveArrives(n)
  <2>1. TypeOK /\ LiveRows /\ NamedOnce
    BY DEF Base
  <2>2. /\ saves' \in Seq(SaveRecords) /\ Len(saves') = Len(saves)
        /\ \A m \in DOMAIN saves :
             saves'[m].doc = saves[m].doc /\ saves'[m].live = saves[m].live
        /\ rows' \in Seq(Row) /\ Docs(rows') = Docs(rows)
        /\ NoDocTwice(rows) => NoDocTwice(rows')
        /\ refs' \in [Doc -> RowRefs]
    BY <1>3, <2>1, Arrived
  <2>3. UNCHANGED <<setting, listShown, deletes, uploads, held>>
    BY <1>3 DEF SaveArrives
  <2>4. TypeOK'
    BY <2>1, <2>2, <2>3 DEF TypeOK, RowRefs
  <2>5. LiveRows'
    BY <2>1, <2>2, LiveRowsKept
  <2>6. NamedOnce'
    BY <2>1, <2>2, <2>3 DEF NamedOnce
  <2> QED BY <2>4, <2>5, <2>6 DEF Base
<1> QED BY <1>1, <1>2, <1>3 DEF SaveStep

LEMMA BaseChoice ==
  ASSUME Base, NEW d \in Doc, NEW c \in Category, ChooseCategory(d, c)
  PROVE  Base'
<1>1. TypeOK /\ LiveRows /\ NamedOnce
  BY DEF Base
<1>2. /\ d \in Docs(rows)
      /\ rows' \in Seq(Row) /\ Docs(rows') = Docs(rows) /\ NoDocTwice(rows')
      /\ refs' \in [Doc -> RowRefs]
  BY <1>1, Chosen DEF NamedOnce
<1>3. UNCHANGED <<setting, listShown, deletes, uploads, held>>
  BY DEF ChooseCategory
<1>4. NamedOnce'
  BY <1>1, <1>2, <1>3 DEF NamedOnce
<1>5. CASE saves' = saves
  <2>1. TypeOK'
    BY <1>1, <1>2, <1>3, <1>5 DEF TypeOK, RowRefs
  <2>2. LiveRows'
    BY <1>1, <1>2, <1>5, Zenon DEF LiveRows
  <2> QED BY <1>4, <2>1, <2>2 DEF Base
<1>6. CASE LET n == Len(saves) + 1
           IN /\ saves' \in Seq(SaveRecords) /\ Len(saves') = n
              /\ Len(saves) < setting.maxSaves
              /\ \A m \in DOMAIN saves : saves'[m] = saves[m] /\ m < n
              /\ DOMAIN saves' = DOMAIN saves \cup {n}
              /\ saves'[n].doc = d
  <2>1. setting.maxSaves \in Nat /\ Len(saves) \in Nat
    BY <1>1, Lists, SettingsAssumption DEF TypeOK
  <2>2. TypeOK'
    BY <1>1, <1>2, <1>3, <1>6, <2>1 DEF TypeOK, RowRefs
  <2>3. LiveRows'
    BY <1>1, <1>2, <1>6, Zenon DEF LiveRows
  <2> QED BY <1>4, <2>2, <2>3 DEF Base
<1> QED BY <1>1, <1>5, <1>6, Chosen

\* Enough for an action that sets a list of documents named once.
LEMMA BaseList ==
  ASSUME Base, NEW list \in Seq(Row), NoDocTwice(list), SetList(list),
         UNCHANGED <<setting, listShown, held>>,
         deletes' \in [Doc -> ListCalls], uploads' \in [Doc -> ListCalls],
         \A d \in Doc : /\ NoDocTwice(deletes'[d].list)
                        /\ NoDocTwice(uploads'[d].list)
                        /\ uploads'[d].phase = "sent" => d \notin Docs(held)
  PROVE  Base'
<1>1. TypeOK /\ LiveRows /\ NamedOnce
  BY DEF Base
<1>2. /\ rows' = list /\ refs' \in [Doc -> RowRefs]
      /\ saves' \in Seq(SaveRecords) /\ Len(saves') = Len(saves)
      /\ \A m \in DOMAIN saves :
           /\ saves'[m].doc = saves[m].doc
           /\ saves'[m].live => saves[m].doc \in Docs(list)
  BY <1>1, ListSet
<1>3. TypeOK'
  BY <1>1, <1>2 DEF TypeOK, RowRefs
<1>4. DOMAIN saves' = DOMAIN saves
  BY <1>1, <1>2, Lists
<1>5. LiveRows'
  BY <1>2, <1>4, Zenon DEF LiveRows
<1>6. NamedOnce'
  BY <1>1, <1>2 DEF NamedOnce
<1> QED BY <1>3, <1>5, <1>6 DEF Base

\* Enough for an action that leaves the rows alone.
LEMMA BaseCalls ==
  ASSUME Base, UNCHANGED <<setting, rows, listShown, refs, saves>>,
         deletes' \in [Doc -> ListCalls], uploads' \in [Doc -> ListCalls],
         held' \in Seq(Row), NoDocTwice(held'),
         \A d \in Doc : /\ NoDocTwice(deletes'[d].list)
                        /\ NoDocTwice(uploads'[d].list)
                        /\ uploads'[d].phase = "sent" => d \notin Docs(held')
  PROVE  Base'
<1>1. TypeOK /\ LiveRows /\ NamedOnce
  BY DEF Base
<1>2. TypeOK'
  BY <1>1 DEF TypeOK
<1>3. LiveRows'
  BY <1>1 DEF LiveRows
<1>4. NamedOnce'
  BY <1>1 DEF NamedOnce
<1> QED BY <1>2, <1>3, <1>4 DEF Base

\* Confirming a deletion sends it, with the rows of the moment.
LEMMA Confirmed ==
  ASSUME TypeOK, NEW d \in Doc, ConfirmDelete(d)
  PROVE  OneCall(deletes', deletes, d, "sent", FALSE, rows)
<1>1. deletes \in [Doc -> ListCalls] /\ rows \in Seq(Row) /\ FALSE \in BOOLEAN
  BY Calls, Lists
<1>2. "sent" \in Phases
  BY DEF Phases
<1>3. deletes' = [deletes EXCEPT ![d] = [phase |-> "sent", ok |-> FALSE, list |-> rows]]
  BY DEF ConfirmDelete
<1> QED BY <1>1, <1>2, <1>3, CallBecomes

\* The server takes the document off its list, or refuses.
LEMMA DeleteServed ==
  ASSUME TypeOK, NEW d \in Doc, ServeDelete(d)
  PROVE  /\ deletes[d].phase = "sent"
         /\ \/ /\ OneCall(deletes', deletes, d, "answered", TRUE, deletes[d].list)
               /\ held' = Without(held, d)
            \/ /\ OneCall(deletes', deletes, d, "answered", deletes[d].ok,
                          deletes[d].list)
               /\ held' = held
<1>1. /\ deletes \in [Doc -> ListCalls] /\ deletes[d].ok \in BOOLEAN
      /\ TRUE \in BOOLEAN
  BY Calls
<1>2. CASE /\ deletes' = [deletes EXCEPT ![d].phase = "answered", ![d].ok = TRUE]
           /\ held' = Without(held, d)
  <2>1. OneCall(deletes', deletes, d, "answered", TRUE, deletes[d].list)
    BY <1>1, <1>2, CallAnswered
  <2> QED BY <1>2, <2>1 DEF ServeDelete
<1>3. CASE deletes' = [deletes EXCEPT ![d].phase = "answered"] /\ held' = held
  <2>1. OneCall(deletes', deletes, d, "answered", deletes[d].ok, deletes[d].list)
    BY <1>1, <1>3, CallAnswered
  <2> QED BY <1>3, <2>1 DEF ServeDelete
<1> QED BY <1>2, <1>3 DEF ServeDelete

LEMMA BaseDocument ==
  ASSUME Base, NEW d \in Doc, DocumentStep(d)
  PROVE  Base'
<1>1. TypeOK /\ LiveRows /\ NamedOnce
  BY DEF Base
<1>2. /\ deletes \in [Doc -> ListCalls] /\ uploads \in [Doc -> ListCalls]
      /\ rows \in Seq(Row) /\ held \in Seq(Row)
      /\ NoDocTwice(rows) /\ NoDocTwice(held)
      /\ \A e \in Doc : /\ NoDocTwice(deletes[e].list) /\ NoDocTwice(uploads[e].list)
                        /\ uploads[e].phase = "sent" => e \notin Docs(held)
                        /\ deletes[e].list \in Seq(Row) /\ uploads[e].list \in Seq(Row)
  BY <1>1, Calls, Lists DEF NamedOnce
<1>3. NoDocTwice(<<>>) /\ <<>> \in Seq(Row) /\ FALSE \in BOOLEAN /\ TRUE \in BOOLEAN
        /\ "idle" \in Phases /\ "sent" \in Phases /\ "answered" \in Phases
  BY DEF NoDocTwice, Phases
<1>11. /\ deletes \in [Doc -> ListCalls] /\ uploads \in [Doc -> ListCalls]
       /\ deletes[d].ok \in BOOLEAN /\ uploads[d].ok \in BOOLEAN
       /\ TRUE \in BOOLEAN /\ FALSE \in BOOLEAN
  BY <1>1, Calls
<1>12. rows \in Seq(Row) /\ <<>> \in Seq(Row)
  BY <1>2
<1>13. "idle" \in Phases /\ "sent" \in Phases /\ "answered" \in Phases
  BY DEF Phases
<1>4. CASE \E c \in Category : ChooseCategory(d, c)
  BY <1>4, BaseChoice
<1>5. CASE ConfirmDelete(d)
  <2>1. OneCall(deletes', deletes, d, "sent", FALSE, rows)
    BY <1>1, <1>5, Confirmed
  <2>2. /\ deletes' \in [Doc -> ListCalls]
        /\ \A e \in Doc \ {d} : deletes'[e] = deletes[e]
        /\ deletes'[d].list = rows
    BY <2>1 DEF OneCall
  <2>3. UNCHANGED <<setting, rows, listShown, refs, saves, uploads, held>>
    BY <1>5 DEF ConfirmDelete
  <2> QED BY <1>2, <2>2, <2>3, BaseCalls
<1>6. CASE DeleteArrives(d)
  <2>1. /\ deletes' \in [Doc -> ListCalls]
        /\ \A e \in Doc \ {d} : deletes'[e] = deletes[e]
        /\ deletes'[d].list = << >>
    BY <1>1, <1>6, Deleted
  <2>2. UNCHANGED <<setting, listShown, uploads, held>>
    BY <1>6 DEF DeleteArrives
  <2>3. \A e \in Doc : NoDocTwice(deletes'[e].list)
    BY <1>2, <1>3, <2>1
  <2>4. CASE \E list \in Seq(Row) :
               /\ NoDocTwice(deletes[d].list) => NoDocTwice(list)
               /\ Without(list, d) \in Seq(Row)
               /\ SetList(Without(list, d))
    <3>1. PICK list \in Seq(Row) :
            NoDocTwice(list) /\ Without(list, d) \in Seq(Row) /\ SetList(Without(list, d))
      BY <1>2, <2>4
    <3>2. NoDocTwice(Without(list, d))
      BY <3>1, WithoutOne
    <3> QED BY <1>2, <2>1, <2>2, <2>3, <3>1, <3>2, BaseList
  <2>5. CASE UNCHANGED <<rows, refs, saves>>
    BY <1>2, <2>1, <2>2, <2>3, <2>5, BaseCalls
  <2> QED BY <1>1, <1>6, <2>4, <2>5, Deleted
<1>7. CASE ServeDelete(d)
  <2>1. UNCHANGED <<setting, rows, listShown, refs, saves, uploads>>
    BY <1>7 DEF ServeDelete
  <2>2. /\ deletes' \in [Doc -> ListCalls]
        /\ \A e \in Doc \ {d} : deletes'[e] = deletes[e]
        /\ deletes'[d].list = deletes[d].list
    BY <1>1, <1>7, DeleteServed DEF OneCall
  <2>3. held' = Without(held, d) \/ held' = held
    BY <1>7 DEF ServeDelete
  <2>4. held' \in Seq(Row) /\ NoDocTwice(held') /\ Docs(held') \subseteq Docs(held)
    BY <1>2, <2>3, WithoutType, WithoutOne
  <2> QED BY <1>2, <2>1, <2>2, <2>4, BaseCalls
<1>8. CASE SelectFile(d)
  <2>1. d \notin Docs(held)
    BY <1>8 DEF SelectFile
  <2>2. uploads' = [uploads EXCEPT ![d] = [phase |-> "sent", ok |-> FALSE, list |-> <<>>]]
    BY <1>8 DEF SelectFile
  <2>3. /\ uploads' \in [Doc -> ListCalls]
        /\ \A e \in Doc \ {d} : uploads'[e] = uploads[e]
        /\ uploads'[d].list = <<>>
    <3>1. OneCall(uploads', uploads, d, "sent", FALSE, <<>>)
      BY <1>11, <1>12, <1>13, <2>2, CallBecomes
    <3> QED BY <3>1 DEF OneCall
  <2>4. UNCHANGED <<setting, rows, listShown, refs, saves, deletes, held>>
    BY <1>8 DEF SelectFile
  <2> QED BY <1>2, <1>3, <2>1, <2>3, <2>4, BaseCalls
<1>9. CASE UploadArrives(d)
  <2>1. uploads' = [uploads EXCEPT ![d] = [phase |-> "idle", ok |-> FALSE, list |-> <<>>]]
    BY <1>9 DEF UploadArrives, IdleCall
  <2>2. /\ uploads' \in [Doc -> ListCalls]
        /\ \A e \in Doc \ {d} : uploads'[e] = uploads[e]
        /\ uploads'[d].list = <<>> /\ uploads'[d].phase = "idle"
    <3>1. OneCall(uploads', uploads, d, "idle", FALSE, <<>>)
      BY <1>11, <1>12, <1>13, <2>1, CallBecomes
    <3> QED BY <3>1 DEF OneCall
  <2>3. UNCHANGED <<setting, listShown, deletes, held>> /\ SetList(uploads[d].list)
    BY <1>9 DEF UploadArrives
  <2>4. \A e \in Doc : /\ NoDocTwice(deletes'[e].list) /\ NoDocTwice(uploads'[e].list)
                       /\ uploads'[e].phase = "sent" => e \notin Docs(held)
    BY <1>2, <1>3, <2>2, <2>3
  <2>5. deletes' \in [Doc -> ListCalls]
    BY <1>2, <2>3
  <2> QED BY <1>2, <2>2, <2>3, <2>4, <2>5, BaseList
<1>10. CASE ServeUpload(d)
  <2>1. UNCHANGED <<setting, rows, listShown, refs, saves, deletes>>
          /\ uploads[d].phase = "sent" /\ d \notin Docs(held)
    BY <1>2, <1>10 DEF ServeUpload
  <2>2. CASE uploads' = [uploads EXCEPT ![d].phase = "answered"] /\ held' = held
    <3>1. /\ uploads' \in [Doc -> ListCalls]
          /\ \A e \in Doc \ {d} : uploads'[e] = uploads[e]
          /\ uploads'[d].list = uploads[d].list /\ uploads'[d].phase = "answered"
      <4>1. uploads' = [uploads EXCEPT ![d].phase = "answered"]
        BY <2>2
      <4>2. OneCall(uploads', uploads, d, "answered", uploads[d].ok, uploads[d].list)
        BY <1>11, <4>1, CallAnswered
      <4> QED BY <4>2 DEF OneCall
    <3> QED BY <1>2, <2>1, <2>2, <3>1, BaseCalls
  <2>3. CASE LET list == Append(held, [doc |-> d, category |-> Blank])
             IN /\ held' = list
                /\ uploads' = [uploads EXCEPT ![d] =
                                 [phase |-> "answered", ok |-> TRUE, list |-> list]]
    <3> DEFINE row == [doc |-> d, category |-> Blank]
               list == Append(held, row)
    <3>1. row \in Row /\ row.doc = d
      BY CategoryAssumption DEF Row
    <3>2. held' = list /\ uploads' = [uploads EXCEPT ![d] =
                             [phase |-> "answered", ok |-> TRUE, list |-> list]]
      BY <2>3
    <3> HIDE DEF row
    <3>3. /\ list \in Seq(Row) /\ Len(list) = Len(held) + 1
          /\ DOMAIN list = 1 .. Len(held) + 1 /\ DOMAIN held = 1 .. Len(held)
          /\ list[Len(held) + 1] = row /\ Len(held) \in Nat
          /\ \A i \in 1 .. Len(held) : list[i] = held[i]
      BY <1>2, <3>1
    <3> HIDE DEF list
    <3>4. NoDocTwice(list)
      <4>1. \A i \in 1 .. Len(held) : held[i].doc # d
        BY <2>1, <3>3 DEF Docs
      <4>2. \A i, j \in 1 .. Len(held) : held[i].doc = held[j].doc => i = j
        BY <1>2, <3>3 DEF NoDocTwice
      <4>3. ASSUME NEW i \in 1 .. Len(held) + 1, NEW j \in 1 .. Len(held) + 1,
                   list[i].doc = list[j].doc
            PROVE  i = j
        <5>1. i \in 1 .. Len(held) \/ i = Len(held) + 1
          BY <3>3
        <5>2. j \in 1 .. Len(held) \/ j = Len(held) + 1
          BY <3>3
        <5> QED BY <3>1, <3>3, <4>1, <4>2, <4>3, <5>1, <5>2
      <4> QED BY <3>3, <4>3 DEF NoDocTwice
    <3>5. \A e \in Docs(list) : e \in Docs(held) \cup {d}
      <4>1. ASSUME NEW i \in 1 .. Len(held) + 1 PROVE list[i].doc \in Docs(held) \cup {d}
        <5>1. CASE i = Len(held) + 1
          BY <3>1, <3>3, <5>1
        <5>2. CASE i # Len(held) + 1
          <6>1. i \in 1 .. Len(held)
            BY <3>3, <5>2
          <6> QED BY <3>3, <6>1 DEF Docs
        <5> QED BY <5>1, <5>2
      <4> QED BY <3>3, <4>1 DEF Docs
    <3>6. /\ uploads' \in [Doc -> ListCalls]
          /\ \A e \in Doc \ {d} : uploads'[e] = uploads[e]
          /\ uploads'[d].list = list /\ uploads'[d].phase = "answered"
      <4>1. list \in Seq(Row)
        BY <3>3
      <4>2. OneCall(uploads', uploads, d, "answered", TRUE, list)
        BY <1>11, <1>13, <3>2, <4>1, CallBecomes
      <4> QED BY <4>2 DEF OneCall
    <3>7. \A e \in Doc : /\ NoDocTwice(deletes'[e].list) /\ NoDocTwice(uploads'[e].list)
                         /\ uploads'[e].phase = "sent" => e \notin Docs(held')
      BY <1>2, <2>1, <3>2, <3>4, <3>5, <3>6
    <3> QED BY <1>2, <2>1, <3>2, <3>3, <3>4, <3>6, <3>7, BaseCalls
  <2> QED BY <1>10, <2>2, <2>3 DEF ServeUpload
<1> QED BY <1>4, <1>5, <1>6, <1>7, <1>8, <1>9, <1>10 DEF DocumentStep

LEMMA BaseProgress == Base /\ ShowOrHideProgress => Base'
<1> SUFFICES ASSUME Base, ShowOrHideProgress PROVE Base'
  OBVIOUS
<1>1. TypeOK /\ LiveRows /\ NamedOnce
  BY DEF Base
<1>2. rows \in Seq(Row) /\ saves \in Seq(SaveRecords)
  BY <1>1, Lists
<1>3. refs' \in [Doc -> RowRefs]
  BY <1>2, FreshType DEF ShowOrHideProgress
<1>4. /\ saves' \in Seq(SaveRecords) /\ Len(saves') = Len(saves)
      /\ \A m \in DOMAIN saves : ~saves'[m].live
  <2>1. saves' = [n \in DOMAIN saves |-> [saves[n] EXCEPT !.live = FALSE]]
    BY DEF ShowOrHideProgress
  <2> DEFINE none == {}
  <2>2. none = {}
    OBVIOUS
  <2> HIDE DEF none
  <2>3. Unmount(none)
    BY <1>2, <2>1, <2>2, SavesUnmount
  <2> QED BY <2>2, <2>3 DEF Unmount
<1>5. UNCHANGED <<setting, rows, deletes, uploads, held>> /\ listShown' \in BOOLEAN
  BY <1>1 DEF ShowOrHideProgress, TypeOK
<1>6. TypeOK'
  BY <1>1, <1>3, <1>4, <1>5 DEF TypeOK, RowRefs
<1>7. DOMAIN saves' = DOMAIN saves
  BY <1>1, <1>4, Lists
<1>8. LiveRows'
  BY <1>4, <1>7 DEF LiveRows
<1>9. NamedOnce'
  BY <1>1, <1>5 DEF NamedOnce
<1> QED BY <1>6, <1>8, <1>9 DEF Base

\* Besides the types: no list names a document twice, neither the form's nor
\* one a handler closed over (RhfAttachment/index.tsx:75, 173).
THEOREM BaseIsInductive == Spec => []Base
<1>1. Base /\ [Next]_vars => Base'
  <2> SUFFICES ASSUME Base, [Next]_vars PROVE Base'
    OBVIOUS
  <2>1. CASE Next
    BY <2>1, BaseDocument, BaseSaves, BaseProgress DEF Next
  <2>2. CASE UNCHANGED vars
    BY <2>2 DEF vars, Base, TypeOK, LiveRows, NamedOnce
  <2> QED BY <2>1, <2>2
<1> QED BY <1>1, BaseStarts, PTL DEF Spec

\* The list, the refs of the rows, the calls and what the server holds keep
\* their types (RhfAttachment/index.tsx:75, RhfAttachmentItem.tsx:55).
THEOREM AttachmentTypes == Spec => []TypeOK
<1>1. Base => TypeOK
  BY DEF Base
<1> QED BY <1>1, BaseIsInductive, PTL

\* A save that fails late puts back the category of its own document, wherever
\* its row is by then, and of no other (RhfAttachmentItem.tsx:93).
THEOREM OthersKeepTheirs == Spec => RevertsItsOwnDocument
<1>1. Base /\ [Next]_vars =>
        [\A n \in DOMAIN saves : SaveArrives(n) =>
           /\ Docs(rows') = Docs(rows)
           /\ \A d \in Docs(rows) \ {saves[n].doc} :
                CategoryIn(rows', d) = CategoryIn(rows, d)]_vars
  <2> SUFFICES ASSUME Base, NEW n \in DOMAIN saves, SaveArrives(n)
               PROVE  /\ Docs(rows') = Docs(rows)
                      /\ \A d \in Docs(rows) \ {saves[n].doc} :
                           CategoryIn(rows', d) = CategoryIn(rows, d)
    BY Zenon
  <2> QED BY Arrived DEF Base
<1> QED BY <1>1, BaseIsInductive, PTL DEF Spec, RevertsItsOwnDocument

-----------------------------------------------------------------------------
(* A list without uploads or deletions                                     *)

LeftAlone ==
  /\ setting.uploadable = {} =>
       listShown /\ \A d \in Doc : uploads[d].phase = "idle"
  /\ setting.deletable = {} => \A d \in Doc : deletes[d].phase = "idle"

LEMMA SettingStays == [Next]_vars => setting' = setting
BY DEF Next, DocumentStep, SaveStep, ChooseCategory, ConfirmDelete, DeleteArrives,
   ServeDelete, SelectFile, UploadArrives, ServeUpload, ServeSave, LoseAnswer,
   SaveArrives, ShowOrHideProgress, vars

LEMMA AloneStarts == Init => LeftAlone
BY DEF Init, LeftAlone, IdleCall

LEMMA AloneStays == Base /\ LeftAlone /\ [Next]_vars => LeftAlone'
<1> SUFFICES ASSUME Base, LeftAlone, [Next]_vars PROVE LeftAlone'
  OBVIOUS
<1>1. setting' = setting
  BY SettingStays
<1>2. TypeOK
  BY DEF Base
<1>3. ASSUME UNCHANGED <<listShown, uploads, deletes>> PROVE LeftAlone'
  BY <1>1, <1>3 DEF LeftAlone
<1>4. ASSUME NEW d \in Doc, DocumentStep(d) PROVE LeftAlone'
  <2>1. CASE \E c \in Category : ChooseCategory(d, c)
    BY <1>3, <2>1 DEF ChooseCategory
  <2>2. CASE SelectFile(d)
    BY <1>1, <2>2 DEF SelectFile, LeftAlone
  <2>3. CASE UploadArrives(d) \/ ServeUpload(d)
    <3>1. setting.uploadable # {}
      BY <2>3 DEF UploadArrives, ServeUpload, LeftAlone
    <3>2. deletes' = deletes
      BY <2>3 DEF UploadArrives, ServeUpload
    <3> QED BY <1>1, <3>1, <3>2 DEF LeftAlone
  <2>4. CASE ConfirmDelete(d) \/ DeleteArrives(d) \/ ServeDelete(d)
    <3>1. setting.deletable # {}
      BY <2>4 DEF ConfirmDelete, DeleteArrives, ServeDelete, LeftAlone
    <3>2. uploads' = uploads /\ listShown' = listShown
      BY <2>4 DEF ConfirmDelete, DeleteArrives, ServeDelete
    <3> QED BY <1>1, <3>1, <3>2 DEF LeftAlone
  <2> QED BY <1>4, <2>1, <2>2, <2>3, <2>4 DEF DocumentStep
<1>5. ASSUME NEW n \in DOMAIN saves, SaveStep(n) PROVE LeftAlone'
  BY <1>3, <1>5 DEF SaveStep, ServeSave, LoseAnswer, SaveArrives
<1>6. CASE ShowOrHideProgress
  <2>1. setting.uploadable # {}
    BY <1>6 DEF ShowOrHideProgress, LeftAlone
  <2>2. deletes' = deletes
    BY <1>6 DEF ShowOrHideProgress
  <2> QED BY <1>1, <2>1, <2>2 DEF LeftAlone
<1>7. CASE UNCHANGED vars
  BY <1>3, <1>7 DEF vars
<1> QED BY <1>4, <1>5, <1>6, <1>7 DEF Next

\* Without uploads and deletions only choices and saves are left to happen.
LEMMA OnlySaves ==
  ASSUME LeftAlone, ListIsLeftAlone, [Next]_vars
  PROVE  \/ \E d \in Doc, c \in Category : ChooseCategory(d, c)
         \/ \E n \in DOMAIN saves : SaveStep(n)
         \/ UNCHANGED vars
<1>1. \A d \in Doc : uploads[d].phase = "idle" /\ deletes[d].phase = "idle"
  BY DEF LeftAlone, ListIsLeftAlone
<1>2. setting.uploadable = {} /\ setting.deletable = {} /\ listShown
  BY DEF LeftAlone, ListIsLeftAlone
<1>3. ASSUME NEW d \in Doc, DocumentStep(d)
      PROVE  \E c \in Category : ChooseCategory(d, c)
  BY <1>1, <1>2, <1>3 DEF DocumentStep, ConfirmDelete, DeleteArrives, ServeDelete,
     SelectFile, UploadArrives, ServeUpload
<1>4. ~ShowOrHideProgress
  BY <1>1, <1>2 DEF ShowOrHideProgress
<1> QED BY <1>3, <1>4 DEF Next

-----------------------------------------------------------------------------
(* What a row shows                                                        *)
(*                                                                         *)
(* Saves of a document have rising tokens.  The newest, as long as its     *)
(* answer is on the way, saves what is shown; after that the row shows     *)
(* what is saved, unless an older save was answered after it.              *)

Pending(n) == saves[n].phase # "done"
Newest(n) == saves[n].token = refs[saves[n].doc].latest

TokensRise ==
  /\ \A d \in Doc : refs[d].last <= refs[d].latest
  /\ \A n \in DOMAIN saves :
       saves[n].token >= 1 /\ saves[n].token <= refs[saves[n].doc].latest
  /\ \A m, n \in DOMAIN saves :
       saves[m].doc = saves[n].doc /\ m < n => saves[m].token < saves[n].token
  /\ \A n \in DOMAIN saves : Pending(n) => saves[n].token # refs[saves[n].doc].last
AllLive == \A n \in DOMAIN saves : saves[n].live
NewestIsShown ==
  \A n \in DOMAIN saves :
    Pending(n) /\ Newest(n) => CategoryIn(rows, saves[n].doc) = saves[n].category
NewestIsOver(d) ==
  \A n \in DOMAIN saves : saves[n].doc = d /\ Newest(n) => ~Pending(n)
SavedIsShown ==
  \A d \in Docs(rows) :
    NewestIsOver(d) /\ refs[d].last \in {0, refs[d].latest}
      => CategoryIn(rows, d) = refs[d].saved

ShownInv ==
  ListIsLeftAlone => TokensRise /\ AllLive /\ NewestIsShown /\ SavedIsShown

LEMMA ShownStarts == Init => ShownInv
<1> SUFFICES ASSUME Init PROVE ShownInv
  OBVIOUS
<1>1. DOMAIN saves = {}
  BY DEF Init
<1>2. rows \in Seq(Row)
  BY SettingsAssumption DEF Init
<1>3. ASSUME NEW d \in Docs(rows)
      PROVE  refs[d].saved = CategoryIn(rows, d)
  BY <1>2, <1>3, CategoryType DEF Init, FreshRefs
<1>4. \A d \in Doc : refs[d].last = 0 /\ refs[d].latest = 0
  BY DEF Init, FreshRefs
<1> QED BY <1>1, <1>3, <1>4
        DEF ShownInv, TokensRise, AllLive, NewestIsShown, SavedIsShown

\* Saves that are only served, or whose answer is lost, stay pending.
LEMMA ShownKept ==
  ASSUME TypeOK, ShownInv, UNCHANGED <<setting, rows, refs>>,
         saves' \in Seq(SaveRecords), Len(saves') = Len(saves),
         \A m \in DOMAIN saves :
           /\ saves'[m].doc = saves[m].doc /\ saves'[m].category = saves[m].category
           /\ saves'[m].token = saves[m].token /\ saves'[m].live = saves[m].live
           /\ saves'[m].phase = "done" <=> saves[m].phase = "done"
  PROVE  ShownInv'
<1>1. DOMAIN saves' = DOMAIN saves
  BY Lists
<1> SUFFICES ASSUME ListIsLeftAlone
             PROVE  TokensRise' /\ AllLive' /\ NewestIsShown' /\ SavedIsShown'
  BY DEF ShownInv, ListIsLeftAlone
<1>2. TokensRise /\ AllLive /\ NewestIsShown /\ SavedIsShown
  BY DEF ShownInv
<1>3. TokensRise'
  BY <1>1, <1>2 DEF TokensRise, Pending
<1>4. AllLive'
  BY <1>1, <1>2 DEF AllLive
<1>5. NewestIsShown'
  BY <1>1, <1>2 DEF NewestIsShown, Pending, Newest
<1>6. SavedIsShown'
  BY <1>1, <1>2 DEF SavedIsShown, NewestIsOver, Pending, Newest
<1> QED BY <1>3, <1>4, <1>5, <1>6

\* A choice makes its save the newest, and shows what it saves.
LEMMA ShownChosen ==
  ASSUME Base, ShownInv, NEW d \in Doc, NEW c \in Category, ChooseCategory(d, c)
  PROVE  ShownInv'
<1>1. TypeOK /\ LiveRows /\ setting' = setting
  BY DEF Base, ChooseCategory
<1> SUFFICES ASSUME ListIsLeftAlone
             PROVE  TokensRise' /\ AllLive' /\ NewestIsShown' /\ SavedIsShown'
  BY <1>1 DEF ShownInv, ListIsLeftAlone
<1>2. TokensRise /\ AllLive /\ NewestIsShown /\ SavedIsShown
  BY DEF ShownInv
<1>3. /\ Docs(rows') = Docs(rows) /\ CategoryIn(rows', d) = c
      /\ \A e \in Docs(rows) \ {d} : CategoryIn(rows', e) = CategoryIn(rows, e)
      /\ \A e \in Doc \ {d} : refs'[e] = refs[e]
      /\ refs'[d].latest = refs[d].latest + 1
  BY <1>1, Chosen
<1>4. \A n \in DOMAIN saves :
        /\ saves[n].doc \in Doc /\ saves[n].doc \in Docs(rows)
        /\ saves[n].token \in Nat /\ saves[n].token >= 1
        /\ saves[n].token <= refs[saves[n].doc].latest
  BY <1>1, <1>2, Lists DEF AllLive, LiveRows, TokensRise
<1>5. \A e \in Doc : refs[e].latest \in Nat /\ refs[e].last \in Nat
  BY <1>1, Lists
<1>6. Docs(rows) \subseteq Doc
  BY <1>1, Lists, CategoryType
<1>7. CASE saves' = saves /\ refs'[d].saved = c /\ refs'[d].last = refs[d].latest + 1
  <2>1. TokensRise'
    BY <1>2, <1>3, <1>4, <1>5, <1>7 DEF TokensRise, Pending
  <2>2. AllLive'
    BY <1>2, <1>7 DEF AllLive
  <2>3. NewestIsShown'
    BY <1>2, <1>3, <1>4, <1>5, <1>7 DEF NewestIsShown, Pending, Newest
  <2>4. ASSUME NEW e \in Docs(rows), NewestIsOver(e)',
               refs'[e].last \in {0, refs'[e].latest}
        PROVE  CategoryIn(rows', e) = refs'[e].saved
    <3>1. CASE e = d
      BY <1>3, <1>7, <3>1
    <3>2. CASE e # d
      <4>1. NewestIsOver(e)
        BY <1>3, <1>6, <1>7, <2>4, <3>2 DEF NewestIsOver, Newest, Pending
      <4> QED BY <1>2, <1>3, <1>6, <2>4, <3>2, <4>1 DEF SavedIsShown
    <3> QED BY <3>1, <3>2
  <2>5. SavedIsShown'
    BY <1>3, <2>4 DEF SavedIsShown
  <2> QED BY <2>1, <2>2, <2>3, <2>5
<1>8. CASE /\ refs'[d].saved = refs[d].saved /\ refs'[d].last = refs[d].last
           /\ LET n == Len(saves) + 1
              IN /\ \A m \in DOMAIN saves : saves'[m] = saves[m] /\ m < n
                 /\ DOMAIN saves' = DOMAIN saves \cup {n}
                 /\ saves'[n].phase = "sent" /\ saves'[n].doc = d
                 /\ saves'[n].category = c
                 /\ saves'[n].token = refs[d].latest + 1
                 /\ saves'[n].live = TRUE
  <2> DEFINE n == Len(saves) + 1
  <2>1. /\ \A m \in DOMAIN saves : saves'[m] = saves[m] /\ m < n /\ m \in Nat
        /\ DOMAIN saves' = DOMAIN saves \cup {n} /\ n \in Nat
        /\ saves'[n].phase = "sent" /\ saves'[n].doc = d /\ saves'[n].category = c
        /\ saves'[n].token = refs[d].latest + 1 /\ saves'[n].live = TRUE
    BY <1>1, <1>8, Lists
  <2> HIDE DEF n
  <2>2. TokensRise'
    <3>1. \A e \in Doc : refs'[e].last <= refs'[e].latest
      BY <1>2, <1>3, <1>5, <1>8 DEF TokensRise
    <3>2. \A m \in DOMAIN saves' :
            saves'[m].token >= 1 /\ saves'[m].token <= refs'[saves'[m].doc].latest
      BY <1>3, <1>4, <1>5, <2>1
    <3>3. \A m \in DOMAIN saves' : \A k \in DOMAIN saves' :
            saves'[m].doc = saves'[k].doc /\ m < k => saves'[m].token < saves'[k].token
      BY <1>2, <1>4, <1>5, <2>1 DEF TokensRise
    <3>4. \A m \in DOMAIN saves' :
            saves'[m].phase # "done" => saves'[m].token # refs'[saves'[m].doc].last
      <4>1. ASSUME NEW m \in DOMAIN saves, saves[m].phase # "done"
            PROVE  saves[m].token # refs'[saves[m].doc].last
        BY <1>2, <1>3, <1>4, <1>8, <4>1 DEF TokensRise, Pending
      <4>2. refs[d].latest + 1 # refs[d].last
        BY <1>2, <1>5 DEF TokensRise
      <4> QED BY <1>8, <2>1, <4>1, <4>2
    <3> QED BY <3>1, <3>2, <3>3, <3>4 DEF TokensRise, Pending
  <2>3. AllLive'
    BY <1>2, <2>1 DEF AllLive
  <2>4. NewestIsShown'
    <3>1. ASSUME NEW m \in DOMAIN saves, saves[m].phase # "done",
                 saves[m].token = refs'[saves[m].doc].latest
          PROVE  CategoryIn(rows', saves[m].doc) = saves[m].category
      <4>1. saves[m].doc # d
        BY <1>3, <1>4, <1>5, <3>1
      <4> QED BY <1>2, <1>3, <1>4, <3>1, <4>1 DEF NewestIsShown, Pending, Newest
    <3> QED BY <1>3, <2>1, <3>1 DEF NewestIsShown, Pending, Newest
  <2>5. ASSUME NEW e \in Docs(rows), NewestIsOver(e)',
               refs'[e].last \in {0, refs'[e].latest}
        PROVE  CategoryIn(rows', e) = refs'[e].saved
    <3>1. e # d
      BY <1>3, <2>1, <2>5 DEF NewestIsOver, Newest, Pending
    <3>2. NewestIsOver(e)
      BY <1>3, <1>6, <2>1, <2>5, <3>1 DEF NewestIsOver, Newest, Pending
    <3> QED BY <1>2, <1>3, <1>6, <2>5, <3>1, <3>2 DEF SavedIsShown
  <2>6. SavedIsShown'
    BY <1>3, <2>5 DEF SavedIsShown
  <2> QED BY <2>2, <2>3, <2>4, <2>6
<1> QED BY <1>1, <1>7, <1>8, Chosen

\* The answer to the newest save makes saved and shown agree, that to an older
\* one leaves both as they are or leaves a mark: it is the last one saved.
LEMMA ShownArrived ==
  ASSUME Base, ShownInv, NEW n \in DOMAIN saves, SaveArrives(n)
  PROVE  ShownInv'
<1> DEFINE d == saves[n].doc
<1>1. TypeOK /\ LiveRows /\ setting' = setting
  BY DEF Base, SaveArrives
<1> SUFFICES ASSUME ListIsLeftAlone
             PROVE  TokensRise' /\ AllLive' /\ NewestIsShown' /\ SavedIsShown'
  BY <1>1 DEF ShownInv, ListIsLeftAlone
<1>2. TokensRise /\ AllLive /\ NewestIsShown /\ SavedIsShown
  BY DEF ShownInv
<1>3. /\ saves[n].phase = "answered" /\ saves'[n].phase = "done"
      /\ Docs(rows') = Docs(rows)
      /\ \A e \in Docs(rows) \ {d} : CategoryIn(rows', e) = CategoryIn(rows, e)
      /\ \A e \in Doc \ {d} : refs'[e] = refs[e]
      /\ refs'[d].latest = refs[d].latest
      /\ \A m \in DOMAIN saves :
           /\ saves'[m].doc = saves[m].doc /\ saves'[m].category = saves[m].category
           /\ saves'[m].token = saves[m].token /\ saves'[m].live = saves[m].live
           /\ m # n => saves'[m].phase = saves[m].phase
  BY <1>1, Arrived
<1>4. /\ IF saves[n].ok /\ saves[n].token > refs[d].last
         THEN refs'[d].saved = saves[n].category /\ refs'[d].last = saves[n].token
         ELSE refs'[d] = refs[d]
      /\ IF ~saves[n].ok /\ saves[n].token = refs[d].latest
         THEN CategoryIn(rows', d) = refs[d].saved
         ELSE rows' = rows
  BY <1>1, <1>2, Arrived DEF AllLive
<1>5. DOMAIN saves' = DOMAIN saves /\ DOMAIN saves \subseteq Nat
  BY <1>1, Arrived, Lists
<1>6. \A m \in DOMAIN saves :
        /\ saves[m].doc \in Doc /\ saves[m].doc \in Docs(rows)
        /\ saves[m].token \in Nat /\ saves[m].token >= 1
        /\ saves[m].token <= refs[saves[m].doc].latest
  BY <1>1, <1>2, Lists DEF AllLive, LiveRows, TokensRise
<1>7. \A e \in Doc : refs[e].latest \in Nat /\ refs[e].last \in Nat
  BY <1>1, Lists
<1>8. Docs(rows) \subseteq Doc /\ saves[n].ok \in BOOLEAN
  BY <1>1, Lists, CategoryType
<1>9. saves[n].token # refs[d].last /\ refs[d].last <= refs[d].latest
  BY <1>2, <1>3, <1>6 DEF TokensRise, Pending
\* Another save of the document has another token.
<1>10. \A m \in DOMAIN saves : saves[m].doc = d /\ m # n => saves[m].token # saves[n].token
  BY <1>2, <1>5, <1>6 DEF TokensRise
<1>11. TokensRise'
  <2>1. \A e \in Doc : refs'[e].last <= refs'[e].latest
    BY <1>2, <1>3, <1>4, <1>6, <1>7 DEF TokensRise
  <2>2. \A m \in DOMAIN saves' :
          saves'[m].token >= 1 /\ saves'[m].token <= refs'[saves'[m].doc].latest
    BY <1>3, <1>5, <1>6
  <2>3. \A m \in DOMAIN saves' : \A k \in DOMAIN saves' :
          saves'[m].doc = saves'[k].doc /\ m < k => saves'[m].token < saves'[k].token
    BY <1>2, <1>3, <1>5 DEF TokensRise
  <2>4. ASSUME NEW m \in DOMAIN saves, saves'[m].phase # "done"
        PROVE  saves[m].token # refs'[saves[m].doc].last
    <3>1. m # n /\ saves[m].phase # "done"
      BY <1>3, <2>4
    <3>2. saves[m].token # refs[saves[m].doc].last
      BY <1>2, <3>1 DEF TokensRise, Pending
    <3> QED BY <1>3, <1>4, <1>6, <1>10, <3>1, <3>2
  <2> QED BY <1>3, <1>5, <2>1, <2>2, <2>3, <2>4 DEF TokensRise, Pending
<1>12. AllLive'
  BY <1>2, <1>3, <1>5 DEF AllLive
<1>13. NewestIsShown'
  <2>1. ASSUME NEW m \in DOMAIN saves, saves'[m].phase # "done",
               saves[m].token = refs'[saves[m].doc].latest
        PROVE  CategoryIn(rows', saves[m].doc) = saves[m].category
    <3>1. /\ m # n /\ saves[m].phase # "done"
          /\ saves[m].token = refs[saves[m].doc].latest
      BY <1>3, <1>6, <2>1
    <3>2. CategoryIn(rows, saves[m].doc) = saves[m].category
      BY <1>2, <3>1 DEF NewestIsShown, Pending, Newest
    <3> QED BY <1>3, <1>4, <1>6, <1>10, <3>1, <3>2
  <2> QED BY <1>3, <1>5, <2>1 DEF NewestIsShown, Pending, Newest
<1>14. ASSUME NEW e \in Docs(rows), NewestIsOver(e)',
              refs'[e].last \in {0, refs'[e].latest}
       PROVE  CategoryIn(rows', e) = refs'[e].saved
  <2>1. e # d \/ ~Newest(n) => NewestIsOver(e)
    BY <1>3, <1>5, <1>6, <1>8, <1>14 DEF NewestIsOver, Newest, Pending
  <2>2. CASE e # d
    BY <1>2, <1>3, <1>8, <1>14, <2>1, <2>2 DEF SavedIsShown
  <2>3. CASE e = d /\ Newest(n)
    <3>1. CategoryIn(rows, d) = saves[n].category
      BY <1>2, <1>3, <2>3 DEF NewestIsShown, Pending
    <3>2. saves[n].token = refs[d].latest /\ saves[n].token > refs[d].last
      BY <1>6, <1>7, <1>9, <2>3 DEF Newest
    <3>3. CASE saves[n].ok
      BY <1>4, <2>3, <3>1, <3>2, <3>3
    <3>4. CASE ~saves[n].ok
      BY <1>4, <2>3, <3>2, <3>4
    <3> QED BY <3>3, <3>4
  <2>4. CASE e = d /\ ~Newest(n)
    <3>1. saves[n].token # refs[d].latest /\ saves[n].token # 0
      BY <1>6, <2>4 DEF Newest
    <3>2. refs'[d] = refs[d] /\ rows' = rows
      BY <1>3, <1>4, <1>14, <2>4, <3>1
    <3> QED BY <1>2, <1>14, <2>1, <2>4, <3>2 DEF SavedIsShown
  <2> QED BY <2>2, <2>3, <2>4
<1>15. SavedIsShown'
  BY <1>3, <1>14 DEF SavedIsShown
<1> QED BY <1>11, <1>12, <1>13, <1>15

LEMMA ShownStays ==
  Base /\ LeftAlone /\ ShownInv /\ [Next]_vars => ShownInv'
<1> SUFFICES ASSUME Base, LeftAlone, ShownInv, [Next]_vars PROVE ShownInv'
  OBVIOUS
<1>1. setting' = setting /\ TypeOK
  BY SettingStays DEF Base
<1>2. CASE ~ListIsLeftAlone
  BY <1>1, <1>2 DEF ShownInv, ListIsLeftAlone
<1>3. CASE ListIsLeftAlone
  <2>1. ASSUME NEW d \in Doc, NEW c \in Category, ChooseCategory(d, c) PROVE ShownInv'
    BY <2>1, ShownChosen
  <2>2. ASSUME NEW n \in DOMAIN saves, SaveStep(n) PROVE ShownInv'
    <3>1. CASE SaveArrives(n)
      BY <3>1, ShownArrived
    <3>2. CASE ServeSave(n)
      <4>1. UNCHANGED <<setting, rows, refs>>
        BY <3>2 DEF ServeSave
      <4>2. /\ saves' \in Seq(SaveRecords) /\ Len(saves') = Len(saves)
            /\ saves[n].phase = "sent" /\ saves'[n].phase = "answered"
            /\ \A m \in DOMAIN saves :
                 /\ saves'[m].doc = saves[m].doc
                 /\ saves'[m].category = saves[m].category
                 /\ saves'[m].token = saves[m].token
                 /\ saves'[m].live = saves[m].live
                 /\ m # n => saves'[m].phase = saves[m].phase
        BY <1>1, <3>2, Served
      <4>3. \A m \in DOMAIN saves :
              saves'[m].phase = "done" <=> saves[m].phase = "done"
        BY <4>2
      <4> QED BY <1>1, <4>1, <4>2, <4>3, ShownKept
    <3>3. CASE LoseAnswer(n)
      <4>1. UNCHANGED <<setting, rows, refs>>
        BY <3>3 DEF LoseAnswer
      <4> QED BY <1>1, <3>3, <4>1, AnswerLost, ShownKept
    <3> QED BY <2>2, <3>1, <3>2, <3>3 DEF SaveStep
  <2>3. CASE UNCHANGED vars
    BY <1>1, <2>3, Lists, ShownKept DEF vars
  <2> QED BY <1>3, <2>1, <2>2, <2>3, OnlySaves
<1> QED BY <1>2, <1>3

\* Once the saves of a row are answered it shows what was last saved, in
\* whatever order the answers came (RhfAttachmentItem.tsx:75-104).
THEOREM TheRowShowsWhatIsSaved == Spec => []ShownIsSaved
<1>1. ShownInv => ShownIsSaved
  <2> SUFFICES ASSUME ShownInv, ListIsLeftAlone, NEW d \in Doc, Mounted(d), Settled(d),
                      refs[d].last \in {0, refs[d].latest}
               PROVE  CategoryIn(rows, d) = refs[d].saved
    BY DEF ShownIsSaved
  <2>1. NewestIsOver(d)
    BY DEF Settled, NewestIsOver, Pending
  <2> QED BY <2>1 DEF ShownInv, SavedIsShown, Mounted
<1> QED BY <1>1, ShownStarts, ShownStays, BaseIsInductive, AloneStarts, AloneStays,
           PTL DEF Spec

-----------------------------------------------------------------------------
(* What a row believes to be saved                                         *)
(*                                                                         *)
(* Saves of a document are handled in the order of their tokens, so the    *)
(* server holds what the greatest answered save carries that the row has   *)
(* not seen yet and, when it has seen them all, what the row believes.     *)

Carried(n) == /\ saves[n].phase = "answered" /\ saves[n].ok
              /\ saves[n].token > refs[saves[n].doc].last

InTurns ==
  /\ \A m, n \in DOMAIN saves :
       saves[m].doc = saves[n].doc /\ m < n /\ saves[m].phase = "sent"
         => saves[n].phase = "sent"
  /\ \A n \in DOMAIN saves : saves[n].phase = "sent" => ~saves[n].ok
DeletedInTurn ==
  /\ Docs(held) \subseteq Docs(rows)
  /\ \A d \in Doc :
       /\ deletes[d].phase = "sent" => ~deletes[d].ok
       /\ deletes[d].phase = "answered" /\ deletes[d].ok => d \notin Docs(held)
       /\ deletes[d].phase # "idle" => Docs(held) \subseteq Docs(deletes[d].list)
HeldLive == \A n \in DOMAIN saves : saves[n].doc \in Docs(held) => saves[n].live
Numbered(d) ==
  /\ refs[d].last <= refs[d].latest
  /\ \A n \in DOMAIN saves :
       saves[n].doc = d => saves[n].token >= 1 /\ saves[n].token <= refs[d].latest
  /\ \A m, n \in DOMAIN saves :
       saves[m].doc = d /\ saves[n].doc = d /\ m < n => saves[m].token < saves[n].token
HeldIsCarried(d) ==
  /\ \A n \in DOMAIN saves :
       saves[n].doc = d /\ saves[n].phase = "sent" /\ saves[n].token <= refs[d].last
         => refs[d].saved = Blank
  /\ \A n \in DOMAIN saves :
       (/\ saves[n].doc = d /\ Carried(n)
        /\ \A m \in DOMAIN saves : saves[m].doc = d /\ Carried(m) => m <= n)
         => CategoryIn(held, d) = saves[n].category
  /\ (\A n \in DOMAIN saves : saves[n].doc = d => ~Carried(n))
       => (refs[d].saved # Blank => CategoryIn(held, d) = refs[d].saved)

HeldInv ==
  ServedWell => /\ InTurns /\ DeletedInTurn /\ HeldLive
                /\ \A d \in Docs(held) : Numbered(d) /\ HeldIsCarried(d)

LEMMA HeldStarts == Init => HeldInv
<1> SUFFICES ASSUME Init PROVE HeldInv
  OBVIOUS
<1>1. DOMAIN saves = {} /\ held = rows
  BY DEF Init
<1>2. \A d \in Doc : deletes[d].phase = "idle"
  BY DEF Init, IdleCall
<1>3. rows \in Seq(Row)
  BY SettingsAssumption DEF Init
<1>4. ASSUME NEW d \in Docs(rows)
      PROVE  /\ refs[d].saved = CategoryIn(rows, d)
             /\ refs[d].last = 0 /\ refs[d].latest = 0
  BY <1>3, <1>4, CategoryType DEF Init, FreshRefs
<1> QED BY <1>1, <1>2, <1>4
        DEF HeldInv, InTurns, DeletedInTurn, HeldLive, Numbered, HeldIsCarried

\* The saves of a document are as they were.
SavesStay(d) ==
  /\ DOMAIN saves \subseteq DOMAIN saves'
  /\ \A n \in DOMAIN saves' : saves'[n].doc = d => n \in DOMAIN saves
  /\ \A n \in DOMAIN saves :
       /\ saves'[n].doc = saves[n].doc /\ saves'[n].token = saves[n].token
       /\ saves'[n].category = saves[n].category
       /\ saves[n].doc = d => saves'[n].phase = saves[n].phase
                             /\ saves'[n].ok = saves[n].ok

\* What a row believes is not touched by what happens to others.
LEMMA OthersHeld ==
  ASSUME NEW d, SavesStay(d), refs'[d] = refs[d],
         CategoryIn(held', d) = CategoryIn(held, d),
         Numbered(d), HeldIsCarried(d)
  PROVE  Numbered(d)' /\ HeldIsCarried(d)'
<1>1. \A n \in DOMAIN saves' : saves'[n].doc = d =>
        /\ n \in DOMAIN saves /\ saves[n].doc = d
        /\ saves'[n].token = saves[n].token /\ saves'[n].category = saves[n].category
        /\ saves'[n].phase = saves[n].phase /\ saves'[n].ok = saves[n].ok
  BY DEF SavesStay
<1>2. \A n \in DOMAIN saves : saves[n].doc = d => n \in DOMAIN saves' /\ saves'[n].doc = d
  BY DEF SavesStay
<1>3. Numbered(d)'
  BY <1>1 DEF Numbered
<1>4. HeldIsCarried(d)'
  BY <1>1, <1>2 DEF HeldIsCarried, Carried
<1> QED BY <1>3, <1>4

LEMMA HeldChosen ==
  ASSUME Base, ServedWell, HeldInv, NEW d \in Doc, NEW c \in Category,
         ChooseCategory(d, c)
  PROVE  HeldInv'
<1>1. TypeOK /\ UNCHANGED <<setting, deletes, held>>
  BY DEF Base, ChooseCategory
<1>2. /\ InTurns /\ DeletedInTurn /\ HeldLive
      /\ \A e \in Docs(held) : Numbered(e) /\ HeldIsCarried(e)
  BY DEF HeldInv
<1>3. /\ Docs(rows') = Docs(rows)
      /\ \A e \in Doc \ {d} : refs'[e] = refs[e]
      /\ refs'[d].latest = refs[d].latest + 1
  BY <1>1, Chosen
<1>4. \A n \in DOMAIN saves : saves[n].doc \in Doc /\ saves[n].token \in Nat /\ n \in Nat
  BY <1>1, Lists
<1>5. refs[d].latest \in Nat /\ refs[d].last \in Nat
  BY <1>1, Lists
<1>6. Docs(held) \subseteq Doc
  BY <1>1, Lists, CategoryType
<1>7. DeletedInTurn'
  BY <1>1, <1>2, <1>3 DEF DeletedInTurn
<1>8. CASE saves' = saves /\ c = Blank /\ refs'[d].saved = c /\ refs'[d].last = refs[d].latest + 1
  <2>1. InTurns' /\ HeldLive'
    BY <1>1, <1>2, <1>8 DEF InTurns, HeldLive
  <2>2. ASSUME NEW e \in Docs(held) PROVE Numbered(e)' /\ HeldIsCarried(e)'
    <3>1. CASE e # d
      <4>1. SavesStay(e)
        BY <1>8 DEF SavesStay
      <4> QED BY <1>1, <1>2, <1>3, <1>6, <3>1, <4>1, OthersHeld
    <3>2. CASE e = d
      <4>1. Numbered(d)
        BY <1>2, <3>2
      <4>2. Numbered(d)'
        BY <1>3, <1>4, <1>5, <1>8, <4>1 DEF Numbered
      <4>3. \A n \in DOMAIN saves : saves[n].doc = d => ~(saves[n].token > refs'[d].last)
        BY <1>4, <1>5, <1>8, <4>1 DEF Numbered
      <4>4. HeldIsCarried(d)'
        BY <1>8, <4>3 DEF HeldIsCarried, Carried
      <4> QED BY <3>2, <4>2, <4>4
    <3> QED BY <3>1, <3>2
  <2> QED BY <1>1, <1>7, <2>1, <2>2 DEF HeldInv
<1>9. CASE /\ refs'[d].saved = refs[d].saved /\ refs'[d].last = refs[d].last
           /\ LET n == Len(saves) + 1
              IN /\ \A m \in DOMAIN saves : saves'[m] = saves[m] /\ m < n
                 /\ DOMAIN saves' = DOMAIN saves \cup {n}
                 /\ saves'[n].phase = "sent" /\ saves'[n].doc = d
                 /\ saves'[n].token = refs[d].latest + 1
                 /\ saves'[n].ok = FALSE /\ saves'[n].live = TRUE
  <2> DEFINE n == Len(saves) + 1
  <2>1. /\ \A m \in DOMAIN saves : saves'[m] = saves[m] /\ m < n /\ m \in Nat
        /\ DOMAIN saves' = DOMAIN saves \cup {n} /\ n \in Nat
        /\ saves'[n].phase = "sent" /\ saves'[n].doc = d
        /\ saves'[n].token = refs[d].latest + 1
        /\ saves'[n].ok = FALSE /\ saves'[n].live = TRUE
    BY <1>1, <1>9, Lists
  <2> HIDE DEF n
  <2>2. InTurns'
    <3>1. \A m \in DOMAIN saves' : \A k \in DOMAIN saves' :
            saves'[m].doc = saves'[k].doc /\ m < k /\ saves'[m].phase = "sent"
              => saves'[k].phase = "sent"
      BY <1>2, <2>1 DEF InTurns
    <3>2. \A m \in DOMAIN saves' : saves'[m].phase = "sent" => ~saves'[m].ok
      BY <1>2, <2>1 DEF InTurns
    <3> QED BY <3>1, <3>2 DEF InTurns
  <2>3. HeldLive'
    BY <1>1, <1>2, <2>1 DEF HeldLive
  <2>4. ASSUME NEW e \in Docs(held) PROVE Numbered(e)' /\ HeldIsCarried(e)'
    <3>1. CASE e # d
      <4>1. SavesStay(e)
        BY <2>1, <3>1 DEF SavesStay
      <4> QED BY <1>1, <1>2, <1>3, <1>6, <3>1, <4>1, OthersHeld
    <3>2. CASE e = d
      <4>1. Numbered(d) /\ HeldIsCarried(d)
        BY <1>2, <3>2
      <4>2. Numbered(d)'
        <5>1. refs'[d].last <= refs'[d].latest
          BY <1>3, <1>5, <1>9, <4>1 DEF Numbered
        <5>2. \A m \in DOMAIN saves' : saves'[m].doc = d =>
                saves'[m].token >= 1 /\ saves'[m].token <= refs'[d].latest
          BY <1>3, <1>4, <1>5, <2>1, <4>1 DEF Numbered
        <5>3. \A m \in DOMAIN saves' : \A k \in DOMAIN saves' :
                saves'[m].doc = d /\ saves'[k].doc = d /\ m < k
                  => saves'[m].token < saves'[k].token
          BY <1>4, <1>5, <2>1, <4>1 DEF Numbered
        <5> QED BY <5>1, <5>2, <5>3 DEF Numbered
      <4>3. refs'[d].last = refs[d].last /\ refs'[d].saved = refs[d].saved
        BY <1>9
      <4>4. /\ refs[d].latest + 1 > refs[d].last
            /\ ~(refs[d].latest + 1 <= refs[d].last)
        BY <1>5, <4>1 DEF Numbered
      <4>5. HeldIsCarried(d)'
        BY <1>1, <2>1, <4>1, <4>3, <4>4 DEF HeldIsCarried, Carried
      <4> QED BY <3>2, <4>2, <4>5
    <3> QED BY <3>1, <3>2
  <2> QED BY <1>1, <1>7, <2>2, <2>3, <2>4 DEF HeldInv
<1> QED BY <1>1, <1>8, <1>9, Chosen

LEMMA HeldArrived ==
  ASSUME Base, ServedWell, HeldInv, NEW n \in DOMAIN saves, SaveArrives(n)
  PROVE  HeldInv'
<1> DEFINE d == saves[n].doc
<1>1. TypeOK /\ LiveRows /\ UNCHANGED <<setting, deletes, held>>
  BY DEF Base, SaveArrives
<1>2. /\ InTurns /\ DeletedInTurn /\ HeldLive
      /\ \A e \in Docs(held) : Numbered(e) /\ HeldIsCarried(e)
  BY DEF HeldInv
<1>3. /\ saves[n].phase = "answered" /\ saves'[n].phase = "done"
      /\ Docs(rows') = Docs(rows)
      /\ \A e \in Doc \ {d} : refs'[e] = refs[e]
      /\ refs'[d].latest = refs[d].latest
      /\ \A m \in DOMAIN saves :
           /\ saves'[m].doc = saves[m].doc /\ saves'[m].category = saves[m].category
           /\ saves'[m].token = saves[m].token /\ saves'[m].live = saves[m].live
           /\ saves'[m].ok = saves[m].ok
           /\ m # n => saves'[m].phase = saves[m].phase
  BY <1>1, Arrived
<1>4. IF saves[n].live /\ saves[n].ok /\ saves[n].token > refs[d].last
      THEN refs'[d].saved = saves[n].category /\ refs'[d].last = saves[n].token
      ELSE refs'[d] = refs[d]
  BY <1>1, Arrived
<1>5. DOMAIN saves' = DOMAIN saves /\ DOMAIN saves \subseteq Nat
  BY <1>1, Arrived, Lists
<1>6. /\ \A m \in DOMAIN saves : saves[m].doc \in Doc /\ saves[m].token \in Nat
      /\ refs[d].latest \in Nat /\ refs[d].last \in Nat
      /\ Docs(held) \subseteq Doc
  BY <1>1, Lists, CategoryType
<1>7. DeletedInTurn'
  BY <1>1, <1>2, <1>3 DEF DeletedInTurn
<1>8. InTurns'
  <2>1. ASSUME NEW m \in DOMAIN saves, saves'[m].phase = "sent"
        PROVE  /\ saves[m].phase = "sent" /\ ~saves'[m].ok
               /\ \A k \in DOMAIN saves :
                    saves[m].doc = saves[k].doc /\ m < k => saves'[k].phase = "sent"
    BY <1>2, <1>3, <2>1 DEF InTurns
  <2> QED BY <1>3, <1>5, <2>1 DEF InTurns
<1>9. HeldLive'
  BY <1>1, <1>2, <1>3, <1>5 DEF HeldLive
<1>10. ASSUME NEW e \in Docs(held), e # d PROVE Numbered(e)' /\ HeldIsCarried(e)'
  <2>1. SavesStay(e)
    BY <1>3, <1>5, <1>10 DEF SavesStay
  <2> QED BY <1>1, <1>2, <1>3, <1>6, <1>10, <2>1, OthersHeld
<1>11. ASSUME NEW e \in Docs(held), e = saves[n].doc PROVE Numbered(e)' /\ HeldIsCarried(e)'
  <2>1. Numbered(e) /\ HeldIsCarried(e) /\ saves[n].live
    BY <1>2, <1>11 DEF HeldLive
  <2>2. Numbered(e)'
    <3>1. refs'[e].last <= refs'[e].latest
      BY <1>3, <1>4, <1>6, <1>11, <2>1 DEF Numbered
    <3> QED BY <1>3, <1>5, <1>11, <2>1, <3>1 DEF Numbered
  <2>3. CASE Carried(n)
    <3>1. refs'[e].saved = saves[n].category /\ refs'[e].last = saves[n].token
      BY <1>4, <1>11, <2>1, <2>3 DEF Carried
    \* A save with a smaller token was sent, and answered, before.
    <3>2. \A m \in DOMAIN saves : saves[m].doc = e /\ saves[m].token <= saves[n].token
            => m <= n /\ saves[m].phase # "sent"
      <4>1. ASSUME NEW m \in DOMAIN saves, saves[m].doc = e,
                   saves[m].token <= saves[n].token
            PROVE  m <= n /\ saves[m].phase # "sent"
        <5>1. ~(n < m)
          BY <1>6, <1>11, <2>1, <4>1 DEF Numbered
        <5>2. m = n \/ m < n
          BY <1>5, <1>11, <5>1
        <5> QED BY <1>2, <1>3, <1>5, <1>11, <4>1, <5>2 DEF InTurns
      <4> QED BY <4>1
    <3>3. \A m \in DOMAIN saves : saves[m].doc = e /\ saves[m].token > saves[n].token
            => n <= m /\ m # n
      BY <1>5, <1>6, <1>11, <2>1 DEF Numbered
    <3>4. \A m \in DOMAIN saves : saves[m].doc = e =>
            (Carried(m)' <=> Carried(m) /\ saves[m].token > saves[n].token)
      BY <1>3, <1>6, <1>11, <2>3, <3>1, <3>3 DEF Carried
    <3>5. ASSUME NEW m \in DOMAIN saves, saves[m].doc = e, Carried(m)',
                 \A k \in DOMAIN saves : saves[k].doc = e /\ Carried(k)' => k <= m
          PROVE  CategoryIn(held, e) = saves[m].category
      <4>1. Carried(m) /\ n <= m
        BY <3>3, <3>4, <3>5
      <4>2. ASSUME NEW k \in DOMAIN saves, saves[k].doc = e, Carried(k) PROVE k <= m
        <5>1. CASE saves[k].token > saves[n].token
          BY <3>4, <3>5, <4>2, <5>1
        <5>2. CASE ~(saves[k].token > saves[n].token)
          BY <1>5, <1>6, <1>11, <3>2, <4>1, <4>2, <5>2
        <5> QED BY <5>1, <5>2
      <4> QED BY <2>1, <3>5, <4>1, <4>2 DEF HeldIsCarried
    <3>6. ASSUME \A m \in DOMAIN saves : saves[m].doc = e => ~Carried(m)'
          PROVE  CategoryIn(held, e) = saves[n].category
      <4>1. \A m \in DOMAIN saves : saves[m].doc = e /\ Carried(m) => m <= n
        BY <1>6, <1>11, <3>2, <3>4, <3>6
      <4> QED BY <1>11, <2>1, <2>3, <4>1 DEF HeldIsCarried
    <3>7. \A m \in DOMAIN saves :
            ~(saves[m].doc = e /\ saves'[m].phase = "sent" /\ saves[m].token <= saves[n].token)
      BY <1>3, <1>11, <3>2
    <3> QED BY <1>1, <1>3, <1>5, <1>11, <2>2, <3>1, <3>5, <3>6, <3>7 DEF HeldIsCarried
  <2>4. CASE ~Carried(n)
    <3>1. refs'[e] = refs[e]
      BY <1>3, <1>4, <1>11, <2>4 DEF Carried
    <3>2. \A m \in DOMAIN saves : saves[m].doc = e => (Carried(m)' <=> Carried(m))
      BY <1>3, <1>11, <2>4, <3>1 DEF Carried
    <3>3. \A m \in DOMAIN saves : saves'[m].phase = "sent" => saves[m].phase = "sent"
      BY <1>3, <1>11
    <3> QED BY <1>1, <1>3, <1>5, <1>11, <2>1, <2>2, <3>1, <3>2, <3>3 DEF HeldIsCarried
  <2> QED BY <2>3, <2>4
<1>12. ASSUME NEW e \in Docs(held) PROVE Numbered(e)' /\ HeldIsCarried(e)'
  <2>1. CASE e = d
    BY <1>11, <1>12, <2>1
  <2>2. CASE e # d
    BY <1>10, <1>12, <2>2
  <2> QED BY <2>1, <2>2
<1> QED BY <1>1, <1>7, <1>8, <1>9, <1>12 DEF HeldInv

LEMMA HeldServed ==
  ASSUME Base, ServedWell, HeldInv, NEW n \in DOMAIN saves, ServeSave(n)
  PROVE  HeldInv'
<1> DEFINE d == saves[n].doc
<1>1. TypeOK /\ UNCHANGED <<setting, rows, refs, deletes>>
  BY DEF Base, ServeSave
<1>2. /\ InTurns /\ DeletedInTurn /\ HeldLive
      /\ \A e \in Docs(held) : Numbered(e) /\ HeldIsCarried(e)
  BY DEF HeldInv
<1>3. /\ saves[n].phase = "sent" /\ saves'[n].phase = "answered"
      /\ Docs(held') = Docs(held)
      /\ \A e \in Docs(held) \ {d} : CategoryIn(held', e) = CategoryIn(held, e)
      /\ \A m \in DOMAIN saves :
           /\ saves'[m].doc = saves[m].doc /\ saves'[m].category = saves[m].category
           /\ saves'[m].token = saves[m].token /\ saves'[m].live = saves[m].live
           /\ m # n => saves'[m].phase = saves[m].phase /\ saves'[m].ok = saves[m].ok
      /\ \/ /\ saves'[n].ok = TRUE /\ CategoryIn(held', d) = saves[n].category
         \/ saves'[n].ok = saves[n].ok /\ held' = held
  BY <1>1, Served
<1>4. DOMAIN saves' = DOMAIN saves /\ DOMAIN saves \subseteq Nat
  <2>1. saves' \in Seq(SaveRecords) /\ Len(saves') = Len(saves)
    BY <1>1, Served
  <2> QED BY <1>1, <2>1, Lists
<1>5. /\ \A m \in DOMAIN saves : saves[m].doc \in Doc /\ saves[m].token \in Nat
      /\ refs[d].latest \in Nat /\ refs[d].last \in Nat
      /\ Docs(held) \subseteq Doc
  BY <1>1, Lists, CategoryType
\* The saves of the document before this one are answered, those after not.
<1>6. /\ \A m \in DOMAIN saves :
           saves[m].doc = d /\ m < n => saves[m].phase # "sent"
      /\ \A m \in DOMAIN saves :
           saves[m].doc = d /\ n < m => saves[m].phase = "sent" /\ ~saves[m].ok
      /\ ~saves[n].ok
  <2>1. InItsTurn(n)
    BY <1>1, Served
  <2>2. \A m \in 1 .. n - 1 : saves[m].doc = saves[n].doc => saves[m].phase # "sent"
    BY <2>1 DEF InItsTurn, ServedWell
  <2>3. DOMAIN saves = 1 .. Len(saves) /\ Len(saves) \in Nat
    BY <1>1, Lists
  <2>4. \A m \in DOMAIN saves : m < n => m \in 1 .. n - 1
    BY <2>3
  <2> QED BY <1>2, <1>3, <2>2, <2>4 DEF InTurns
<1>7. DeletedInTurn'
  BY <1>1, <1>2, <1>3 DEF DeletedInTurn
<1>8. InTurns'
  <2>1. ASSUME NEW m \in DOMAIN saves, saves'[m].phase = "sent"
        PROVE  /\ ~saves'[m].ok
               /\ \A k \in DOMAIN saves :
                    saves[m].doc = saves[k].doc /\ m < k => saves'[k].phase = "sent"
    <3>1. m # n /\ saves[m].phase = "sent"
      BY <1>3, <2>1
    <3>2. ~(saves[m].doc = d /\ m < n)
      BY <1>6, <3>1
    <3> QED BY <1>2, <1>3, <3>1, <3>2 DEF InTurns
  <2> QED BY <1>3, <1>4, <2>1 DEF InTurns
<1>9. HeldLive'
  BY <1>2, <1>3, <1>4 DEF HeldLive
<1>10. ASSUME NEW e \in Docs(held), e # d PROVE Numbered(e)' /\ HeldIsCarried(e)'
  <2>1. SavesStay(e)
    BY <1>3, <1>4, <1>10 DEF SavesStay
  <2> QED BY <1>1, <1>2, <1>3, <1>10, <2>1, OthersHeld
<1>11. ASSUME NEW e \in Docs(held), e = saves[n].doc PROVE Numbered(e)' /\ HeldIsCarried(e)'
  <2>1. Numbered(e) /\ HeldIsCarried(e)
    BY <1>2, <1>11
  <2>2. Numbered(e)'
    BY <1>1, <1>3, <1>4, <1>11, <2>1 DEF Numbered
  <2>3. /\ \A m \in DOMAIN saves : saves'[m].phase = "sent" => saves[m].phase = "sent"
        /\ \A m \in DOMAIN saves : saves[m].doc = e /\ m # n => (Carried(m)' <=> Carried(m))
        /\ ~Carried(n)
    BY <1>1, <1>3, <1>11 DEF Carried
  <2>4. \A m \in DOMAIN saves :
          saves[m].doc = e /\ saves'[m].phase = "sent" /\ saves[m].token <= refs[e].last
            => refs[e].saved = Blank
    BY <2>1, <2>3 DEF HeldIsCarried
  <2>5. \A m \in DOMAIN saves : saves[m].doc = e /\ Carried(m) => m < n
    BY <1>4, <1>6, <1>11, <2>3 DEF Carried
  <2>6. CASE held' = held /\ ~Carried(n)'
    <3>1. \A m \in DOMAIN saves : saves[m].doc = e => (Carried(m)' <=> Carried(m))
      BY <2>3, <2>6
    <3> QED BY <1>1, <1>3, <1>4, <1>11, <2>1, <2>2, <2>4, <2>6, <3>1 DEF HeldIsCarried
  <2>7. CASE CategoryIn(held', e) = saves[n].category /\ Carried(n)'
    <3>1. ASSUME NEW m \in DOMAIN saves, saves[m].doc = e, Carried(m)',
                 \A k \in DOMAIN saves : saves[k].doc = e /\ Carried(k)' => k <= m
          PROVE  m = n
      <4>1. n <= m
        BY <1>11, <2>7, <3>1
      <4>2. m # n => Carried(m) /\ m < n
        BY <2>3, <2>5, <3>1
      <4> QED BY <1>4, <1>11, <4>1, <4>2
    <3> QED BY <1>1, <1>3, <1>4, <1>11, <2>2, <2>4, <2>7, <3>1 DEF HeldIsCarried
  \* The save is older than what the row believes: the blank option.
  <2>8. CASE CategoryIn(held', e) = saves[n].category /\ ~Carried(n)' /\ saves'[n].ok = TRUE
    <3>1. saves[n].token <= refs[e].last
      BY <1>1, <1>3, <1>5, <1>11, <2>8 DEF Carried
    <3>2. refs[e].saved = Blank
      BY <1>3, <1>11, <2>1, <3>1 DEF HeldIsCarried
    <3>3. ASSUME NEW m \in DOMAIN saves, saves[m].doc = e, Carried(m)'
          PROVE  FALSE
      <4>1. m # n /\ Carried(m) /\ m < n
        BY <2>3, <2>5, <2>8, <3>3
      <4>2. saves[m].token < saves[n].token
        BY <1>11, <2>1, <3>3, <4>1 DEF Numbered
      <4>3. saves[m].token > refs[e].last
        BY <3>3, <4>1 DEF Carried
      <4> QED BY <1>5, <1>11, <3>1, <4>2, <4>3
    <3> QED BY <1>1, <1>3, <1>4, <1>11, <2>2, <2>4, <3>2, <3>3 DEF HeldIsCarried
  <2>9. \/ held' = held /\ ~Carried(n)'
        \/ CategoryIn(held', e) = saves[n].category /\ saves'[n].ok = TRUE
    BY <1>3, <1>6, <1>11 DEF Carried
  <2> QED BY <2>6, <2>7, <2>8, <2>9
<1>12. ASSUME NEW e \in Docs(held) PROVE Numbered(e)' /\ HeldIsCarried(e)'
  <2>1. CASE e = d
    BY <1>11, <1>12, <2>1
  <2>2. CASE e # d
    BY <1>10, <1>12, <2>2
  <2> QED BY <2>1, <2>2
<1> QED BY <1>1, <1>3, <1>7, <1>8, <1>9, <1>12 DEF HeldInv

LEMMA HeldDeletion ==
  ASSUME Base, LeftAlone, ServedWell, HeldInv, NEW d \in Doc,
         ConfirmDelete(d) \/ ServeDelete(d) \/ DeleteArrives(d)
  PROVE  HeldInv'
<1>1. /\ TypeOK /\ NamedOnce /\ listShown
      /\ UNCHANGED <<setting, listShown>>
  BY DEF Base, LeftAlone, ServedWell, ConfirmDelete, ServeDelete, DeleteArrives
<1>2. /\ InTurns /\ DeletedInTurn /\ HeldLive
      /\ \A e \in Docs(held) : Numbered(e) /\ HeldIsCarried(e)
  BY DEF HeldInv
<1>3. Docs(held) \subseteq Doc
  BY <1>1, Lists, CategoryType
<1>4. CASE ConfirmDelete(d)
  <2>1. UNCHANGED <<rows, refs, saves, held>>
    BY <1>4 DEF ConfirmDelete
  <2>2. DeletedInTurn'
    BY <1>1, <1>2, <1>4, <2>1, Confirmed DEF DeletedInTurn, OneCall
  <2>3. InTurns' /\ HeldLive'
    BY <1>2, <2>1 DEF InTurns, HeldLive
  <2>4. ASSUME NEW e \in Docs(held) PROVE Numbered(e)' /\ HeldIsCarried(e)'
    BY <1>2, <2>1 DEF Numbered, HeldIsCarried, Carried
  <2> QED BY <2>1, <2>2, <2>3, <2>4 DEF HeldInv
<1>5. CASE ServeDelete(d)
  <2>1. UNCHANGED <<rows, refs, saves>> /\ NoDocTwice(held) /\ held \in Seq(Row)
    BY <1>1, <1>5, Lists DEF ServeDelete, NamedOnce
  <2>2. /\ \A e \in Doc \ {d} : deletes'[e] = deletes[e]
        /\ deletes'[d].phase = "answered" /\ deletes'[d].list = deletes[d].list
        /\ deletes[d].phase = "sent"
        /\ \/ held' = Without(held, d)
           \/ held' = held /\ deletes'[d].ok = deletes[d].ok
    BY <1>1, <1>5, DeleteServed DEF OneCall
  <2>3. /\ Docs(held') \subseteq Docs(held)
        /\ \A e \in Docs(held') : CategoryIn(held', e) = CategoryIn(held, e)
        /\ d \in Docs(held') => held' = held
    BY <2>1, <2>2, WithoutOne
  <2>4. DeletedInTurn'
    <3>1. d \in Docs(held') => ~deletes'[d].ok
      <4>1. CASE held' = Without(held, d)
        BY <2>1, <4>1, WithoutOne
      <4>2. CASE held' = held /\ deletes'[d].ok = deletes[d].ok
        BY <1>2, <2>2, <4>2 DEF DeletedInTurn
      <4> QED BY <2>2, <4>1, <4>2
    <3>2. ASSUME NEW e \in Doc
          PROVE  /\ deletes'[e].phase = "sent" => ~deletes'[e].ok
                 /\ deletes'[e].phase = "answered" /\ deletes'[e].ok => e \notin Docs(held')
                 /\ deletes'[e].phase # "idle" => Docs(held') \subseteq Docs(deletes'[e].list)
      <4>1. CASE e = d
        BY <1>2, <2>2, <2>3, <3>1, <4>1 DEF DeletedInTurn
      <4>2. CASE e # d
        BY <1>2, <2>2, <2>3, <4>2 DEF DeletedInTurn
      <4> QED BY <4>1, <4>2
    <3> QED BY <1>2, <2>1, <2>3, <3>2 DEF DeletedInTurn
  <2>5. InTurns' /\ HeldLive'
    BY <1>2, <2>1, <2>3 DEF InTurns, HeldLive
  <2>6. ASSUME NEW e \in Docs(held') PROVE Numbered(e)' /\ HeldIsCarried(e)'
    BY <1>2, <2>1, <2>3 DEF Numbered, HeldIsCarried, Carried
  <2> QED BY <2>4, <2>5, <2>6 DEF HeldInv
<1>6. CASE DeleteArrives(d)
  <2>1. /\ deletes[d].phase = "answered" /\ deletes'[d].phase = "idle"
        /\ \A e \in Doc \ {d} : deletes'[e] = deletes[e]
        /\ held' = held
    BY <1>1, <1>6, Deleted DEF DeleteArrives
  <2>2. CASE UNCHANGED <<rows, refs, saves>>
    <3>1. DeletedInTurn'
      BY <1>2, <2>1, <2>2 DEF DeletedInTurn
    <3>2. InTurns' /\ HeldLive'
      BY <1>2, <2>1, <2>2 DEF InTurns, HeldLive
    <3>3. ASSUME NEW e \in Docs(held) PROVE Numbered(e)' /\ HeldIsCarried(e)'
      BY <1>2, <2>1, <2>2 DEF Numbered, HeldIsCarried, Carried
    <3> QED BY <2>1, <3>1, <3>2, <3>3 DEF HeldInv
  <2>3. CASE /\ deletes[d].ok
             /\ \E list \in Seq(Row) :
                  /\ Docs(list) = Docs(deletes[d].list)
                  /\ NoDocTwice(deletes[d].list) => NoDocTwice(list)
                  /\ Without(list, d) \in Seq(Row)
                  /\ SetList(Without(list, d))
    <3>1. PICK list \in Seq(Row) :
            /\ Docs(list) = Docs(deletes[d].list) /\ NoDocTwice(list)
            /\ Without(list, d) \in Seq(Row) /\ SetList(Without(list, d))
      BY <1>1, <2>3 DEF NamedOnce
    <3>2. d \notin Docs(held) /\ Docs(held) \subseteq Docs(deletes[d].list)
      BY <1>2, <2>1, <2>3 DEF DeletedInTurn
    <3>3. Docs(held) \subseteq Docs(Without(list, d))
      BY <3>1, <3>2, WithoutOne
    <3>4. /\ rows' = Without(list, d) /\ DOMAIN saves' = DOMAIN saves
          /\ \A m \in DOMAIN saves :
               /\ saves'[m].doc = saves[m].doc /\ saves'[m].category = saves[m].category
               /\ saves'[m].token = saves[m].token /\ saves'[m].phase = saves[m].phase
               /\ saves'[m].ok = saves[m].ok
               /\ saves'[m].live <=> saves[m].live /\ saves[m].doc \in Docs(Without(list, d))
      BY <1>1, <3>1, ListSet, Lists
    <3>5. \A e \in Docs(held) : refs'[e] = refs[e]
      <4>1. \A e \in Docs(held) : Mounted(e) /\ e \in Docs(Without(list, d)) /\ e \in Doc
        BY <1>1, <1>2, <1>3, <3>3 DEF Mounted, DeletedInTurn
      <4> QED BY <1>1, <3>1, <4>1, ListSet
    <3>6. DeletedInTurn'
      BY <1>2, <2>1, <3>3, <3>4 DEF DeletedInTurn
    <3>7. InTurns'
      BY <1>2, <3>4 DEF InTurns
    <3>8. HeldLive'
      BY <1>2, <2>1, <3>3, <3>4 DEF HeldLive
    <3>9. ASSUME NEW e \in Docs(held) PROVE Numbered(e)' /\ HeldIsCarried(e)'
      <4>1. SavesStay(e)
        BY <3>4 DEF SavesStay
      <4> QED BY <1>2, <2>1, <3>5, <4>1, OthersHeld
    <3> QED BY <2>1, <3>6, <3>7, <3>8, <3>9 DEF HeldInv
  <2> QED BY <1>1, <1>6, <2>2, <2>3, Deleted
<1> QED BY <1>4, <1>5, <1>6

LEMMA HeldStays == Base /\ LeftAlone /\ HeldInv /\ [Next]_vars => HeldInv'
<1> SUFFICES ASSUME Base, LeftAlone, HeldInv, [Next]_vars PROVE HeldInv'
  OBVIOUS
<1>1. setting' = setting
  BY SettingStays
<1>2. CASE ~ServedWell
  BY <1>1, <1>2 DEF HeldInv, ServedWell
<1>3. CASE ServedWell
  <2>1. /\ setting.uploadable = {} /\ ~setting.lossy /\ listShown
        /\ \A d \in Doc : uploads[d].phase = "idle"
    BY <1>3 DEF ServedWell, LeftAlone
  <2>2. ASSUME NEW d \in Doc, DocumentStep(d) PROVE HeldInv'
    <3>1. CASE \E c \in Category : ChooseCategory(d, c)
      BY <1>3, <3>1, HeldChosen
    <3>2. CASE ConfirmDelete(d) \/ ServeDelete(d) \/ DeleteArrives(d)
      BY <1>3, <3>2, HeldDeletion
    <3>3. ~SelectFile(d) /\ ~UploadArrives(d) /\ ~ServeUpload(d)
      BY <2>1 DEF SelectFile, UploadArrives, ServeUpload
    <3> QED BY <2>2, <3>1, <3>2, <3>3 DEF DocumentStep
  <2>3. ASSUME NEW n \in DOMAIN saves, SaveStep(n) PROVE HeldInv'
    <3>1. ~LoseAnswer(n)
      BY <2>1 DEF LoseAnswer
    <3> QED BY <1>3, <2>3, <3>1, HeldArrived, HeldServed DEF SaveStep
  <2>4. ~ShowOrHideProgress
    BY <2>1 DEF ShowOrHideProgress
  <2>5. CASE UNCHANGED vars
    BY <2>5 DEF vars, HeldInv, ServedWell, InTurns, DeletedInTurn, HeldLive, Numbered,
       HeldIsCarried, Carried
  <2> QED BY <2>2, <2>3, <2>4, <2>5 DEF Next
<1> QED BY <1>2, <1>3

\* What a row believes to be saved is what the server holds, once nothing is on
\* its way (lastSavedCategory, RhfAttachmentItem.tsx:55).
THEOREM TheRowBelievesRightly == Spec => []SavedIsHeld
<1>1. HeldInv => SavedIsHeld
  <2> SUFFICES ASSUME HeldInv, ServedWell, NEW d \in Doc, Settled(d), d \in Docs(held),
                      refs[d].saved # Blank
               PROVE  Believes(d)
    BY DEF SavedIsHeld
  <2>1. \A n \in DOMAIN saves : saves[n].doc = d => ~Carried(n)
    BY DEF Settled, Carried
  <2> QED BY <2>1 DEF HeldInv, HeldIsCarried, Believes
<1> QED BY <1>1, HeldStarts, HeldStays, BaseIsInductive, AloneStarts, AloneStays,
           PTL DEF Spec

===============================================================================
