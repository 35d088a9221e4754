----------------------------- MODULE Attachments -----------------------------
(***************************************************************************)
(* The document list of a form (RhfAttachment with RhfAttachmentItem) and  *)
(* what it asks of the server: upload files, delete a file, and save a     *)
(* document's category as soon as it is chosen, without waiting for the    *)
(* answer of an earlier choice.                                            *)
(*                                                                         *)
(* A row is a mounted component keyed by its document.  It keeps, outside  *)
(* the form, what it believes the server holds and which save is newest;   *)
(* these refs die with the row, and a save whose row is gone changes       *)
(* nothing any more.  Rows are not mounted while upload progress is shown. *)
(***************************************************************************)
EXTENDS Integers, SequencesExt

CONSTANTS
  Doc, Category,
  Blank,    \* the blank option of the category select
  Settings  \* the cases to look at, see below

Row == [doc : Doc, category : Category]

(* A document is in a list once.                                           *)
NoDocTwice(list) ==
  \A i, j \in DOMAIN list : list[i].doc = list[j].doc => i = j

ASSUME CategoryAssumption == Blank \in Category
ASSUME SettingsAssumption ==
  \A s \in Settings :
    /\ s.firstRows \in Seq(Row)     \* the list the form starts with
    /\ NoDocTwice(s.firstRows)
    /\ s.deletable \subseteq Doc    \* the documents the user may delete
    /\ s.uploadable \subseteq Doc   \* the documents the user may upload
    /\ s.maxSaves \in Nat           \* bound: category saves in one behaviour
    /\ s.inOrder \in BOOLEAN        \* are a document's saves handled in order?
    /\ s.lossy \in BOOLEAN          \* may an answer to a save get lost?

VARIABLES
  setting,    \* the case
  rows,       \* form value: the attachment list
  listShown,  \* FALSE while upload progress takes the list's place
  refs,       \* of each row: lastSavedCategory, latestSaveToken, lastSavedToken
  saves,      \* updateCategory calls, in the order they were sent
  deletes,    \* deleteDocument calls, with the list their handler closed over
  uploads,    \* addDocuments calls, one document each
  held        \* server: its document list

vars == <<setting, rows, listShown, refs, saves, deletes, uploads, held>>

-----------------------------------------------------------------------------
Docs(list) == {list[i].doc : i \in DOMAIN list}
RowOf(list, d) == CHOOSE i \in DOMAIN list : list[i].doc = d
CategoryIn(list, d) == list[RowOf(list, d)].category
Without(list, d) ==
  IF d \in Docs(list) THEN RemoveAt(list, RowOf(list, d)) ELSE list
Put(list, d, c) == [list EXCEPT ![RowOf(list, d)].category = c]

Phases == {"idle", "sent", "answered"}
SaveRecords == [phase : Phases \cup {"done"}, doc : Doc, category : Category,
                token : Nat, at : Nat, ok : BOOLEAN, live : BOOLEAN]
ListCalls == [phase : Phases, ok : BOOLEAN, list : Seq(Row)]
IdleCall == [phase |-> "idle", ok |-> FALSE, list |-> <<>>]

TypeOK ==
  /\ setting \in Settings
  /\ rows \in Seq(Row)
  /\ listShown \in BOOLEAN
  /\ refs \in [Doc -> [saved : Category, latest : Nat, last : Nat]]
  /\ saves \in Seq(SaveRecords) /\ Len(saves) <= setting.maxSaves
  /\ deletes \in [Doc -> ListCalls]
  /\ uploads \in [Doc -> ListCalls]
  /\ held \in Seq(Row)

Mounted(d) == listShown /\ d \in Docs(rows)

\* Mutant: no save yet is token -1.
FreshRefs_OffByOne(list, d) ==
  [saved |-> IF d \in Docs(list) THEN CategoryIn(list, d) ELSE Blank,
   latest |-> 0 - 1, last |-> 0 - 1]

(* A row that mounts takes the form's value for what the server holds.     *)
FreshRefs(list, d) ==
  [saved |-> IF d \in Docs(list) THEN CategoryIn(list, d) ELSE Blank,
   latest |-> 0, last |-> 0]

(* field.onChange(list): rows of documents that stay keep their refs.      *)
SetList(list) ==
  /\ rows' = list
  /\ refs' = [d \in Doc |-> IF Mounted(d) /\ d \in Docs(list) THEN refs[d]
                            ELSE FreshRefs(list, d)]
  /\ saves' = [n \in DOMAIN saves |->
                 [saves[n] EXCEPT !.live = @ /\ saves[n].doc \in Docs(list)]]

Init ==
  /\ setting \in Settings
  /\ rows = setting.firstRows
  /\ listShown = TRUE
  /\ refs = [d \in Doc |-> FreshRefs(rows, d)]
  /\ saves = <<>>
  /\ deletes = [d \in Doc |-> IdleCall]
  /\ uploads = [d \in Doc |-> IdleCall]
  /\ held = rows

-----------------------------------------------------------------------------
(* Categories                                                              *)

(* onCategoryChange: a save per choice; the blank choice is not sent to    *)
(* the server and counts as saved.                                         *)
ChooseCategory(d, c) ==
  LET token == refs[d].latest + 1
  IN /\ Mounted(d)
     /\ c # CategoryIn(rows, d)
     /\ rows' = Put(rows, d, c)
     /\ \/ /\ c = Blank
           /\ refs' = [refs EXCEPT ![d] = [saved |-> c, latest |-> token,
                                           last |-> token]]
           /\ UNCHANGED saves
        \/ /\ c # Blank
           /\ Len(saves) < setting.maxSaves
           /\ refs' = [refs EXCEPT ![d].latest = token]
           /\ saves' = Append(saves, [phase |-> "sent", doc |-> d,
                         category |-> c, token |-> token,
                         at |-> RowOf(rows, d), ok |-> FALSE, live |-> TRUE])
     /\ UNCHANGED <<setting, listShown, deletes, uploads, held>>

\* Mutant: the revert writes to the row where the save was started.
RevertTo_ByIndex(save) ==
  IF save.at \in DOMAIN rows
  THEN [rows EXCEPT ![save.at].category = refs[save.doc].saved]
  ELSE rows

(* revertCategory: finds the document again, wherever its row is by now.   *)
RevertTo(save) == Put(rows, save.doc, refs[save.doc].saved)

\* Mutant: any save that succeeds becomes the last one saved.
Remembers_Any(save) == TRUE
\* An older save that succeeds late does not replace a newer one.
Remembers(save) == save.token > refs[save.doc].last

\* Mutant: every failed save puts the saved category back.
Reverts_Any(save) == TRUE
\* Only the newest save may undo itself.
Reverts(save) == save.token = refs[save.doc].latest

(* saveCategory after its await, in its try and in its catch.              *)
SaveArrives(n) ==
  LET save == saves[n]
  IN /\ save.phase = "answered"
     /\ saves' = [saves EXCEPT ![n].phase = "done"]
     /\ refs' = IF save.live /\ save.ok /\ Remembers(save)
                THEN [refs EXCEPT ![save.doc].saved = save.category,
                                  ![save.doc].last = save.token]
                ELSE refs
     /\ rows' = IF save.live /\ ~save.ok /\ Reverts(save)
                THEN RevertTo(save) ELSE rows
     /\ UNCHANGED <<setting, listShown, deletes, uploads, held>>

-----------------------------------------------------------------------------
(* Deletions and uploads                                                   *)

(* "Yes, delete" runs the handler of the last render, with its list.       *)
ConfirmDelete(d) ==
  /\ d \in setting.deletable
  /\ Mounted(d)
  /\ deletes[d].phase = "idle"
  /\ deletes' = [deletes EXCEPT ![d] = [phase |-> "sent", ok |-> FALSE,
                                        list |-> rows]]
  /\ UNCHANGED <<setting, rows, listShown, refs, saves, uploads, held>>

(* The library may hand the handler its list as it was or with the values  *)
(* written since: either is taken, for all rows alike.                     *)
WithShownValues(list) ==
  [i \in DOMAIN list |-> IF list[i].doc \in Docs(rows)
                         THEN rows[RowOf(rows, list[i].doc)] ELSE list[i]]

DeleteArrives(d) ==
  /\ deletes[d].phase = "answered"
  /\ deletes' = [deletes EXCEPT ![d] = IdleCall]
  /\ \/ /\ deletes[d].ok
        /\ \E list \in {deletes[d].list, WithShownValues(deletes[d].list)} :
             SetList(Without(list, d))
     \/ ~deletes[d].ok /\ UNCHANGED <<rows, refs, saves>>
  /\ UNCHANGED <<setting, listShown, uploads, held>>

SelectFile(d) ==
  /\ d \in setting.uploadable
  /\ d \notin Docs(setting.firstRows) \cup Docs(held)
  /\ uploads[d].phase = "idle"
  /\ uploads' = [uploads EXCEPT ![d] = [phase |-> "sent", ok |-> FALSE,
                                        list |-> <<>>]]
  /\ UNCHANGED <<setting, rows, listShown, refs, saves, deletes, held>>

(* The list becomes the server's answer, or the empty list that            *)
(* onUploadAttachments returns when the call was refused.                  *)
UploadArrives(d) ==
  /\ uploads[d].phase = "answered"
  /\ uploads' = [uploads EXCEPT ![d] = IdleCall]
  /\ SetList(uploads[d].list)
  /\ UNCHANGED <<setting, listShown, deletes, held>>

(* Progress of an upload replaces the list, and later gives way to it.     *)
ShowOrHideProgress ==
  /\ listShown => \E d \in Doc : uploads[d].phase # "idle"
  /\ listShown' = ~listShown
  /\ refs' = [d \in Doc |-> FreshRefs(rows, d)]
  /\ saves' = [n \in DOMAIN saves |-> [saves[n] EXCEPT !.live = FALSE]]
  /\ UNCHANGED <<setting, rows, deletes, uploads, held>>

-----------------------------------------------------------------------------
(* The server                                                              *)

InItsTurn(n) ==
  setting.inOrder => \A m \in 1 .. n - 1 : saves[m].doc = saves[n].doc
                                             => saves[m].phase # "sent"

ServeSave(n) ==
  LET save == saves[n]
  IN /\ save.phase = "sent"
     /\ InItsTurn(n)
     /\ \/ /\ save.doc \in Docs(held)
           /\ held' = Put(held, save.doc, save.category)
           /\ saves' = [saves EXCEPT ![n].phase = "answered", ![n].ok = TRUE]
        \/ /\ saves' = [saves EXCEPT ![n].phase = "answered"]
           /\ UNCHANGED held
     /\ UNCHANGED <<setting, rows, listShown, refs, deletes, uploads>>

LoseAnswer(n) ==
  /\ setting.lossy
  /\ saves[n].phase = "answered"
  /\ saves[n].ok
  /\ saves' = [saves EXCEPT ![n].ok = FALSE]
  /\ UNCHANGED <<setting, rows, listShown, refs, deletes, uploads, held>>

ServeDelete(d) ==
  /\ deletes[d].phase = "sent"
  /\ \/ /\ d \in Docs(held)
        /\ held' = Without(held, d)
        /\ deletes' = [deletes EXCEPT ![d].phase = "answered", ![d].ok = TRUE]
     \/ /\ deletes' = [deletes EXCEPT ![d].phase = "answered"]
        /\ UNCHANGED held
  /\ UNCHANGED <<setting, rows, listShown, refs, saves, uploads>>

ServeUpload(d) ==
  /\ uploads[d].phase = "sent"
  /\ \/ LET list == Append(held, [doc |-> d, category |-> Blank])
        IN /\ held' = list
           /\ uploads' = [uploads EXCEPT ![d] =
                            [phase |-> "answered", ok |-> TRUE, list |-> list]]
     \/ /\ uploads' = [uploads EXCEPT ![d].phase = "answered"]
        /\ UNCHANGED held
  /\ UNCHANGED <<setting, rows, listShown, refs, saves, deletes>>

-----------------------------------------------------------------------------
DocumentStep(d) ==
  \/ \E c \in Category : ChooseCategory(d, c)
  \/ ConfirmDelete(d) \/ DeleteArrives(d) \/ ServeDelete(d)
  \/ SelectFile(d) \/ UploadArrives(d) \/ ServeUpload(d)

SaveStep(n) == ServeSave(n) \/ LoseAnswer(n) \/ SaveArrives(n)

Next == \/ \E d \in Doc : DocumentStep(d)
        \/ \E n \in DOMAIN saves : SaveStep(n)
        \/ ShowOrHideProgress

Spec == Init /\ [][Next]_vars

-----------------------------------------------------------------------------
(* Properties                                                              *)

(* No save of the document is on its way.                                  *)
Settled(d) == \A n \in DOMAIN saves : saves[n].doc = d
                                         => saves[n].phase = "done"

(* Once the saves of a row are answered it shows what was last saved, if   *)
(* its newest save succeeded or all of them failed: however the answers    *)
(* overtake each other and whichever get lost.  Uploads and deletions are  *)
(* set apart: their answers replace the list under the rows' refs.         *)
ListIsLeftAlone == setting.uploadable = {} /\ setting.deletable = {}
ShownIsSaved ==
  ListIsLeftAlone => \A d \in Doc : (/\ Mounted(d) /\ Settled(d)
                  /\ refs[d].last \in {0, refs[d].latest})
                   => CategoryIn(rows, d) = refs[d].saved

(* What a row believes to be saved is what the server holds, once nothing  *)
(* is on its way, if the server handles a document's saves in order and no *)
(* answer is lost: lastSavedCategory is sound without the blank choice.    *)
(* Rows may be deleted meanwhile; uploads are set apart.                   *)
Believes(d) == refs[d].saved = CategoryIn(held, d)
ServedWell == setting.inOrder /\ ~setting.lossy /\ setting.uploadable = {}
SavedIsHeld ==
  ServedWell => \A d \in Doc : (/\ Mounted(d) /\ Settled(d) /\ d \in Docs(held)
                               /\ refs[d].saved # Blank) => Believes(d)

(* The answer to a save touches the row of no other document, also when    *)
(* rows were deleted or replaced since it was sent.                        *)
RevertsItsOwnDocument ==
  [][\A n \in DOMAIN saves : SaveArrives(n) =>
       /\ Docs(rows') = Docs(rows)
       /\ \A d \in Docs(rows) \ {saves[n].doc} :
            CategoryIn(rows', d) = CategoryIn(rows, d)]_vars

(* "files uploaded": with no call on its way the list names the documents  *)
(* the server holds.                                                       *)
ListIsHeld ==
  (\A d \in Doc : deletes[d].phase = "idle" /\ uploads[d].phase = "idle")
    => Docs(rows) = Docs(held)
=============================================================================
