--------------------------- MODULE DocumentStore ---------------------------
(***************************************************************************)
(* Source documents (apps/api/src/modules/documents, lib/storage and the   *)
(* uploads of intake and intelligence): a row of source_documents for each *)
(* version of a document, and its bytes under a storage key.  An upload    *)
(* puts the bytes first and inserts the row in the transaction that it is  *)
(* part of; bytes are not undone when that transaction fails.              *)
(*                                                                         *)
(* The content of an upload is named by the id its row gets: no two        *)
(* uploads are taken to have the same bytes.                               *)
(***************************************************************************)
EXTENDS Naturals, FiniteSets

CONSTANTS
  Docs,     \* ids of documents, drawn at random by randomUUID
  NoDoc,
  Uploads   \* connections serving uploads

ASSUME DocumentsAssumption == NoDoc \notin Docs

VARIABLES
  docs,    \* source_documents, by id
  files,   \* the storage backend: content by key
  upload   \* what each upload has done so far

storeVars == <<docs, files, upload>>

NoRow    == [version |-> 0, parent |-> NoDoc, current |-> FALSE]
NoUpload == [id |-> NoDoc, from |-> NoDoc, version |-> 0, put |-> FALSE]

HasRow(d)  == docs[d] # NoRow
Current(d) == d \in Docs /\ docs[d].current

\* buildStorageKey: tenant, type and file name add nothing to what tells keys
\* apart.  (The evidence of a batch has the batch's id in place of the row's.)
Key(d, v) == <<d, v>>

\* randomUUID: an id nothing has used.
Unused(d) ==
  /\ ~HasRow(d) /\ \A u \in Uploads : upload[u].id # d
  /\ \A k \in DOMAIN files : files[k] # d

StoreInit ==
  /\ docs = [d \in Docs |-> NoRow]
  /\ files = [k \in {} |-> NoDoc]
  /\ upload = [u \in Uploads |-> NoUpload]

Begin(u, d, from, version) ==
  /\ upload[u] = NoUpload /\ Unused(d)
  /\ upload' = [upload EXCEPT ![u] = [id |-> d, from |-> from, version |-> version, put |-> FALSE]]
  /\ UNCHANGED files

\* POST /documents, the workbook upload and the evidence of a batch: version 1.
BeginUpload(u, d) == Begin(u, d, NoDoc, 1) /\ UNCHANGED docs

\* Wrong on purpose: the old version is superseded before there is a new one.
BeginReplaceAtOnce(u, d, old) ==
  /\ HasRow(old)
  /\ Begin(u, d, old, docs[old].version + 1)
  /\ docs' = [docs EXCEPT ![old].current = FALSE]

\* POST /documents/:id/replace reads the row without a lock, current or not.
BeginReplace(u, d, old) ==
  /\ HasRow(old)
  /\ Begin(u, d, old, docs[old].version + 1)
  /\ UNCHANGED docs

\* LocalStorageBackend.put creates or overwrites.
Put(u) ==
  LET key == Key(upload[u].id, upload[u].version) IN
  /\ upload[u] # NoUpload /\ ~upload[u].put
  /\ files' = [k \in DOMAIN files \cup {key} |-> IF k = key THEN upload[u].id ELSE files[k]]
  /\ upload' = [upload EXCEPT ![u].put = TRUE]
  /\ UNCHANGED docs

\* The row of the new version, the mark on the version it replaces, the commit.
Insert(u) ==
  LET up == upload[u] IN
  /\ up.put
  /\ docs' = [d \in Docs |->
       IF d = up.id THEN [version |-> up.version, parent |-> up.from, current |-> TRUE]
       ELSE IF d = up.from THEN [docs[d] EXCEPT !.current = FALSE]
       ELSE docs[d]]
  /\ upload' = [upload EXCEPT ![u] = NoUpload]
  /\ UNCHANGED files

\* The transaction fails.  The bytes stay, unless it is the insert that fails and
\* the upload is intake's or intelligence's, which delete them.
Fail(u) ==
  /\ upload[u] # NoUpload
  /\ upload' = [upload EXCEPT ![u] = NoUpload]
  /\ \/ UNCHANGED files
     \/ /\ upload[u].put /\ upload[u].from = NoDoc
        /\ files' = [k \in DOMAIN files \ {Key(upload[u].id, 1)} |-> files[k]]
  /\ UNCHANGED docs

StoreNext ==
  \E u \in Uploads :
    \/ \E d \in Docs : BeginUpload(u, d) \/ \E old \in Docs : BeginReplace(u, d, old)
    \/ Put(u) \/ Insert(u) \/ Fail(u)

-----------------------------------------------------------------------------
(* Properties. *)

StoreTypeOK ==
  /\ docs \in [Docs -> [version : Nat, parent : Docs \cup {NoDoc}, current : BOOLEAN]]
  /\ DOMAIN files \subseteq Docs \X Nat
  /\ \A k \in DOMAIN files : files[k] \in Docs
  /\ upload \in [Uploads -> [id : Docs \cup {NoDoc}, from : Docs \cup {NoDoc},
                             version : Nat, put : BOOLEAN]]

\* The download route sends the row's sha256 with the bytes under its key: for
\* every row, superseded ones too and whatever uploads failed meanwhile, those
\* are the bytes that were hashed when it was uploaded.
RowHashesItsBytes ==
  \A d \in Docs : HasRow(d) =>
    LET k == Key(d, docs[d].version) IN k \in DOMAIN files /\ files[k] = d

\* However replaces of one document overlap or fail, a document is current exactly as
\* long as no version has been made from it, and a version made from another comes next
\* after it: from every document the replacements lead to a current one.  They may
\* lead to several of the same number: replace neither locks the row nor asks whether
\* it is current.
VersionsFollow ==
  \A d \in Docs : HasRow(d) =>
    /\ docs[d].current <=> \A e \in Docs : docs[e].parent # d
    /\ docs[d].parent # NoDoc =>
         HasRow(docs[d].parent) /\ docs[d].version = docs[docs[d].parent].version + 1

\* The store as a reader of it relies on it: what a row says was hashed can be
\* read, and what is superseded has its next version.
DocumentsSound == RowHashesItsBytes /\ VersionsFollow
=============================================================================
