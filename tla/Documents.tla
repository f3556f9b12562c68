----------------------------- MODULE Documents -----------------------------
(***************************************************************************)
(* Documents: their metadata in PostgreSQL, their content in a directory   *)
(* (api/routes/documents.py over services/storage.py).  An upload writes   *)
(* the content before the row, a deletion deletes the row before the       *)
(* content, and nothing makes the two one step.                            *)
(***************************************************************************)
CONSTANTS
  Ids,        \* document ids uuid4 can draw; each names its own directory
  Handlers,   \* requests in flight at once
  None

VARIABLES
  rows,          \* the documents with a committed row
  temporary,     \* the documents with an .uploading file
  content,       \* content[d]: the file at the storage key of d
  used,          \* ids that have been drawn
  pc, doc,       \* per handler: the step, and the document
  crashed,       \* history: documents of requests that were cut off
  unanswered     \* history: documents of commits that took effect and raised

files == <<temporary, content>>
lost == <<crashed, unanswered>>
vars == <<rows, files, used, pc, doc, lost>>

Init ==
  /\ rows = {} /\ temporary = {} /\ used = {}
  /\ crashed = {} /\ unanswered = {}
  /\ content = [d \in Ids |-> "none"]
  /\ pc = [h \in Handlers |-> "idle"]
  /\ doc = [h \in Handlers |-> None]

Begin(h, d, step) ==
  /\ pc[h] = "idle"
  /\ pc' = [pc EXCEPT ![h] = step]
  /\ doc' = [doc EXCEPT ![h] = d]
Goto(h, step) == pc' = [pc EXCEPT ![h] = step] /\ UNCHANGED doc
End(h) ==
  /\ pc' = [pc EXCEPT ![h] = "idle"]
  /\ doc' = [doc EXCEPT ![h] = None]
-----------------------------------------------------------------------------
\* upload_document draws an id, store_upload opens the temporary file.
StartUpload(h) ==
  /\ \E d \in Ids \ used : /\ Begin(h, d, "write")
                           /\ used' = used \cup {d}
                           /\ temporary' = temporary \cup {d}
  /\ UNCHANGED <<rows, content, lost>>

\* Too large, or the body or the disk fails: the temporary file is unlinked.
Unlinked(d) == temporary \ {d}
RejectUpload(h) ==
  /\ pc[h] = "write"
  /\ temporary' = Unlinked(doc[h])
  /\ End(h)
  /\ UNCHANGED <<rows, content, used, lost>>

\* The whole body has been written: the file gets its name.
WrittenInPlace(d) == [content EXCEPT ![d] = "partial"]
NotRenamed(d) == content
Renamed(d) == [content EXCEPT ![d] = "whole"]
FinishWrite(h) ==
  /\ pc[h] = "write"
  /\ temporary' = temporary \ {doc[h]}
  /\ content' = Renamed(doc[h])
  /\ Goto(h, "insert")
  /\ UNCHANGED <<rows, used, lost>>

CommitUpload(h) ==
  /\ pc[h] = "insert"
  /\ rows' = rows \cup {doc[h]}
  /\ End(h)
  /\ UNCHANGED <<files, used, lost>>

\* The commit raises, and the content is unlinked.  The database may have
\* committed all the same, if it was its answer that got lost.
FailUpload(h) ==
  /\ pc[h] = "insert"
  /\ \/ UNCHANGED <<rows, unanswered>>
     \/ rows' = rows \cup {doc[h]} /\ unanswered' = unanswered \cup {doc[h]}
  /\ content' = [content EXCEPT ![doc[h]] = "none"]
  /\ End(h)
  /\ UNCHANGED <<temporary, used, crashed>>
-----------------------------------------------------------------------------
\* delete_document reads the row; two deletions of a document may both do.
FindToDelete(h) ==
  /\ \E d \in rows : Begin(h, d, "delete")
  /\ UNCHANGED <<rows, files, used, lost>>

\* A DELETE that finds no row any more commits as well.
ContentIsLeft == "idle"
AfterDelete == "unlink"
CommitDelete(h) ==
  /\ pc[h] = "delete"
  /\ rows' = rows \ {doc[h]}
  /\ Goto(h, AfterDelete)
  /\ UNCHANGED <<files, used, lost>>

\* The commit raises, with or without effect; the content stays.
FailDelete(h) ==
  /\ pc[h] = "delete"
  /\ \/ UNCHANGED <<rows, unanswered>>
     \/ rows' = rows \ {doc[h]} /\ unanswered' = unanswered \cup {doc[h]}
  /\ End(h)
  /\ UNCHANGED <<files, used, crashed>>

\* path.unlink(missing_ok=True).
Unlink(h) ==
  /\ pc[h] = "unlink"
  /\ content' = [content EXCEPT ![doc[h]] = "none"]
  /\ End(h)
  /\ UNCHANGED <<rows, temporary, used, lost>>

\* The process dies, the task is cancelled or an unlink raises: nothing of the
\* code runs any more for this request.
Crash(h) ==
  /\ pc[h] # "idle"
  /\ crashed' = crashed \cup {doc[h]}
  /\ End(h)
  /\ UNCHANGED <<rows, files, used, unanswered>>

Next ==
  \E h \in Handlers :
    \/ StartUpload(h) \/ RejectUpload(h) \/ FinishWrite(h)
    \/ CommitUpload(h) \/ FailUpload(h)
    \/ FindToDelete(h) \/ CommitDelete(h) \/ FailDelete(h) \/ Unlink(h)
    \/ Crash(h)

Spec == Init /\ [][Next]_vars
-----------------------------------------------------------------------------
\* Type invariant.
TypeOK ==
  /\ rows \subseteq Ids /\ temporary \subseteq Ids
  /\ used \subseteq Ids /\ crashed \subseteq Ids /\ unanswered \subseteq Ids
  /\ content \in [Ids -> {"none", "whole"}]
  /\ pc \in [Handlers -> {"idle", "write", "insert", "delete", "unlink"}]
  /\ doc \in [Handlers -> Ids \cup {None}]

\* A document that can be found can be downloaded, through failed and overlapping
\* requests and crashes at any point, unless a commit that raised took effect.
RowHasContent == \A d \in rows : content[d] = "whole" \/ d \in unanswered

\* ADR 0006: failed writes remove staged content.  A file that no row and no
\* request knows of is there only after a crash or a commit that raised and
\* took effect.
NoOrphans ==
  \A d \in Ids \ rows :
    d \in temporary \/ content[d] # "none" =>
      d \in crashed \cup unanswered \/ \E h \in Handlers : doc[h] = d
=============================================================================
