---------------------------- MODULE MCAttachments ----------------------------
(* Instances of Attachments: one document with several saves, a list whose  *)
(* rows come and go over a bad network, and one upload.                     *)
EXTENDS Attachments

CONSTANTS d1, d2, d3, manuals

OneRow == <<[doc |-> d1, category |-> manuals]>>
TwoRows == OneRow \o <<[doc |-> d2, category |-> manuals]>>

\* One document, three overlapping saves, handled in order and answered.
Overlapping ==
  [firstRows |-> OneRow, deletable |-> {}, uploadable |-> {}, maxSaves |-> 3,
   inOrder |-> TRUE, lossy |-> FALSE]

\* Two documents with a save each, or two of one, while the other is deleted.
Deleted ==
  [Overlapping EXCEPT !.firstRows = TwoRows, !.deletable = {d1, d2}, !.maxSaves = 2]

\* Two documents and an upload, rows deleted and replaced, answers lost.
Replaced ==
  [firstRows |-> TwoRows, deletable |-> {d1}, uploadable |-> {d3},
   maxSaves |-> 1, inOrder |-> FALSE, lossy |-> TRUE]

\* One document and uploads only.
Uploads == [Overlapping EXCEPT !.maxSaves = 0, !.uploadable = {d2}]

SavesAndRows == {Overlapping, Deleted, Replaced}
UploadsOnly == {Uploads}
=============================================================================
