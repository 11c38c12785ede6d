------------------------ MODULE FilingHandoffProofs ------------------------
(***************************************************************************)
(* Proofs about FilingHandoff for any number of runs, documents, uploads   *)
(* and filings, and any bounds.  A filing keeps describing its run though  *)
(* items are reopened, documents replaced and runs marked and locked anew; *)
(* that rests on what the record-filing in flight has compared, on the run *)
(* being locked as long as it is marked ready, and on no export ever       *)
(* having a confirmation in its index.                                     *)
(***************************************************************************)
EXTENDS FilingHandoff, TLAPS

-----------------------------------------------------------------------------
(***************************************************************************)
(* The document store, for any number of documents and of overlapping      *)
(* uploads: each of its steps keeps the rows' bytes and the chains of      *)
(* versions.  The invariant adds what an upload in flight promises: the id *)
(* is its own and no row has it, its bytes are there once they were put,   *)
(* and the version it replaces is a row.                                   *)
(***************************************************************************)
\* An upload in flight.
UploadSound(u) ==
  upload[u] # NoUpload =>
    /\ upload[u].id \in Docs /\ ~HasRow(upload[u].id)
    /\ upload[u].version > 0
    /\ upload[u].from # NoDoc =>
         HasRow(upload[u].from) /\ upload[u].version = docs[upload[u].from].version + 1
    /\ upload[u].put =>
         LET k == Key(upload[u].id, upload[u].version) IN k \in DOMAIN files /\ files[k] = upload[u].id
    /\ \A v \in Uploads : upload[v].id = upload[u].id => v = u

\* A version's number tells a row from none.
Numbered == \A d \in Docs : HasRow(d) => docs[d].version > 0

StoreInv ==
  /\ StoreTypeOK
  /\ Numbered
  /\ \A u \in Uploads : UploadSound(u)
  /\ RowHashesItsBytes
  /\ VersionsFollow

\* What a step may do to rows: a new one, or a version that stops being current.
RowsOnlyAge ==
  \A d \in Docs : HasRow(d) =>
    /\ docs'[d] # NoRow /\ docs'[d].version = docs[d].version /\ docs'[d].parent = docs[d].parent
    /\ docs'[d].current => docs[d].current

DocRows    == [version : Nat, parent : Docs \cup {NoDoc}, current : BOOLEAN]
UploadRows == [id : Docs \cup {NoDoc}, from : Docs \cup {NoDoc}, version : Nat, put : BOOLEAN]

\* The rows of documents and uploads have their types.
LEMMA StoreTyped ==
  ASSUME StoreTypeOK
  PROVE  /\ docs \in [Docs -> DocRows] /\ upload \in [Uploads -> UploadRows]
         /\ \A d \in Docs : docs[d] \in DocRows
         /\ \A u \in Uploads : upload[u] \in UploadRows
BY DEF StoreTypeOK, DocRows, UploadRows

\* A document that has a row is an id of one, and so is its version's number.
LEMMA RowOfDoc == ASSUME StoreInv, NEW d, Current(d) PROVE d \in Docs /\ HasRow(d)
<1>1. d \in Docs /\ docs[d].current
  BY DEF Current
<1> QED
  BY <1>1 DEF HasRow, NoRow

\* The document store starts sound.
LEMMA StoreInitOK == StoreInit => StoreInv
<1> SUFFICES ASSUME StoreInit PROVE StoreInv
  OBVIOUS
<1>1. StoreTypeOK
  BY DEF StoreInit, StoreTypeOK, NoRow, NoUpload
<1>2. \A d \in Docs : ~HasRow(d)
  BY DEF StoreInit, HasRow
<1>3. \A u \in Uploads : UploadSound(u)
  BY DEF StoreInit, UploadSound
<1> QED
  BY <1>1, <1>2, <1>3 DEF StoreInv, Numbered, RowHashesItsBytes, VersionsFollow

\* An upload begins with an id of its own.
LEMMA BeginOK ==
  ASSUME StoreInv, DocumentsAssumption, NEW u \in Uploads, NEW d \in Docs,
         NEW from \in Docs \cup {NoDoc}, NEW version \in Nat \ {0},
         from # NoDoc => HasRow(from) /\ version = docs[from].version + 1,
         Begin(u, d, from, version), docs' = docs
  PROVE  StoreInv'
<1> DEFINE new == [id |-> d, from |-> from, version |-> version, put |-> FALSE]
<1>1. /\ Unused(d) /\ upload[u] = NoUpload
      /\ upload' = [upload EXCEPT ![u] = new] /\ files' = files
  BY DEF Begin
<1>2. /\ upload'[u] = new /\ \A v \in Uploads \ {u} : upload'[v] = upload[v]
      /\ upload' \in [Uploads -> UploadRows]
  BY <1>1, StoreTyped DEF StoreInv, UploadRows
<1>3. StoreTypeOK'
  BY <1>1, <1>2 DEF StoreInv, StoreTypeOK, UploadRows
<1>4. ~HasRow(d) /\ \A v \in Uploads : upload[v].id # d
  BY <1>1 DEF Unused
<1>5. ASSUME NEW v \in Uploads PROVE UploadSound(v)'
  <2>1. CASE v = u
    BY <1>1, <1>2, <1>4, <2>1 DEF UploadSound, HasRow
  <2>2. CASE v # u
    <3>1. UploadSound(v) /\ upload'[v] = upload[v]
      BY <1>2, <2>2 DEF StoreInv
    <3> QED
      BY <1>1, <1>2, <1>4, <2>2, <3>1 DEF UploadSound, HasRow
  <2> QED
    BY <2>1, <2>2
<1>6. Numbered' /\ RowHashesItsBytes' /\ VersionsFollow'
  BY <1>1 DEF StoreInv, Numbered, RowHashesItsBytes, VersionsFollow, HasRow
<1> QED
  BY <1>3, <1>5, <1>6 DEF StoreInv

\* The bytes are put under the upload's own key.
LEMMA PutOK ==
  ASSUME StoreInv, NEW u \in Uploads, Put(u)
  PROVE  StoreInv'
<1> DEFINE id == upload[u].id
           key == Key(id, upload[u].version)
<1>1. /\ upload[u] # NoUpload /\ upload' = [upload EXCEPT ![u].put = TRUE] /\ docs' = docs
      /\ files' = [k \in DOMAIN files \cup {key} |-> IF k = key THEN id ELSE files[k]]
  BY DEF Put
<1>2. id \in Docs /\ upload[u] \in UploadRows /\ UploadSound(u) /\ key \in Docs \X Nat
  BY <1>1, StoreTyped DEF StoreInv, UploadSound, UploadRows, Key
<1>3. /\ upload' \in [Uploads -> UploadRows] /\ upload'[u] = [upload[u] EXCEPT !.put = TRUE]
      /\ \A v \in Uploads \ {u} : upload'[v] = upload[v]
  BY <1>1, <1>2, StoreTyped DEF StoreInv, UploadRows
<1>4. \A v \in Uploads : /\ upload'[v].id = upload[v].id /\ upload'[v].from = upload[v].from
                         /\ upload'[v].version = upload[v].version
  BY <1>2, <1>3 DEF UploadRows
<1>5. /\ DOMAIN files' = DOMAIN files \cup {key} /\ files'[key] = id
      /\ \A k \in DOMAIN files : k # key => files'[k] = files[k]
  BY <1>1
<1>6. \A d \in Docs, v \in Nat : Key(d, v) \in DOMAIN files /\ files[Key(d, v)] = d =>
                                   Key(d, v) \in DOMAIN files' /\ files'[Key(d, v)] = d
  BY <1>2, <1>5 DEF Key
<1>7. StoreTypeOK'
  BY <1>1, <1>2, <1>3, <1>5 DEF StoreInv, StoreTypeOK, UploadRows
<1> HIDE DEF key
<1>8. ASSUME NEW v \in Uploads PROVE UploadSound(v)'
  <2>1. CASE v = u
    BY <1>1, <1>2, <1>4, <1>5, <2>1 DEF UploadSound, HasRow, key
  <2>2. CASE v # u
    <3>1. UploadSound(v) /\ upload'[v] = upload[v] /\ upload[v] \in UploadRows
      BY <1>3, <2>2, StoreTyped DEF StoreInv
    <3> QED
      BY <1>1, <1>4, <1>6, <3>1 DEF UploadSound, HasRow, UploadRows
  <2> QED
    BY <2>1, <2>2
<1>9. RowHashesItsBytes'
  BY <1>1, <1>6, StoreTyped DEF StoreInv, RowHashesItsBytes, HasRow, DocRows
<1>10. Numbered' /\ VersionsFollow'
  BY <1>1 DEF StoreInv, Numbered, VersionsFollow, HasRow
<1> QED
  BY <1>7, <1>8, <1>9, <1>10 DEF StoreInv

\* The row of a new version; the one it replaces stops being current.
LEMMA InsertOK ==
  ASSUME StoreInv, DocumentsAssumption, NEW u \in Uploads, Insert(u)
  PROVE  StoreInv' /\ RowsOnlyAge
<1> DEFINE up == upload[u]
           new == [version |-> up.version, parent |-> up.from, current |-> TRUE]
<1>1. /\ up.put /\ upload' = [upload EXCEPT ![u] = NoUpload] /\ files' = files
      /\ docs' = [d \in Docs |-> IF d = up.id THEN new
                                ELSE IF d = up.from THEN [docs[d] EXCEPT !.current = FALSE]
                                ELSE docs[d]]
  BY DEF Insert
<1>2. up \in UploadRows /\ up # NoUpload
  BY <1>1, StoreTyped DEF StoreInv, NoUpload
<1>3. /\ up.id \in Docs /\ ~HasRow(up.id) /\ up.version > 0
      /\ up.from # NoDoc => HasRow(up.from) /\ up.version = docs[up.from].version + 1
      /\ Key(up.id, up.version) \in DOMAIN files /\ files[Key(up.id, up.version)] = up.id
      /\ \A v \in Uploads : upload[v].id = up.id => v = u
  BY <1>1, <1>2 DEF StoreInv, UploadSound
<1>4. new \in DocRows /\ new # NoRow /\ up.from \in Docs \cup {NoDoc}
  BY <1>2 DEF UploadRows, DocRows, NoRow
<1>5. ASSUME NEW d \in Docs, d # up.id
      PROVE  /\ docs'[d] \in DocRows /\ docs'[d].version = docs[d].version
             /\ docs'[d].parent = docs[d].parent
             /\ docs'[d].current = (docs[d].current /\ d # up.from)
  <2>1. docs[d] \in DocRows
    BY StoreTyped DEF StoreInv
  <2>2. docs'[d] = IF d = up.from THEN [docs[d] EXCEPT !.current = FALSE] ELSE docs[d]
    BY <1>1, <1>5
  <2>3. /\ [docs[d] EXCEPT !.current = FALSE] \in DocRows
        /\ [docs[d] EXCEPT !.current = FALSE].version = docs[d].version
        /\ [docs[d] EXCEPT !.current = FALSE].parent = docs[d].parent
        /\ [docs[d] EXCEPT !.current = FALSE].current = FALSE
    BY <2>1 DEF DocRows
  <2>4. CASE d = up.from
    BY <2>2, <2>3, <2>4
  <2>5. CASE d # up.from
    BY <2>1, <2>2, <2>5 DEF DocRows
  <2> QED
    BY <2>4, <2>5
<1>6. docs'[up.id] = new
  BY <1>1, <1>3
<1>7. ASSUME NEW d \in Docs, d # up.id, d # up.from PROVE docs'[d] = docs[d]
  BY <1>1, <1>7
<1> HIDE DEF up, new
<1>8. \A d \in Docs : HasRow(d)' => d = up.id \/ HasRow(d)
  BY <1>3, <1>7 DEF HasRow, NoRow, DocumentsAssumption
<1>9. \A d \in Docs : HasRow(d) => d # up.id /\ HasRow(d)' /\ docs'[d].version > 0
  BY <1>3, <1>5 DEF StoreInv, Numbered, HasRow, NoRow
<1>10. RowsOnlyAge
  BY <1>5, <1>9 DEF RowsOnlyAge, HasRow
<1>11. /\ upload'[u] = NoUpload /\ \A v \in Uploads \ {u} : upload'[v] = upload[v]
       /\ upload' \in [Uploads -> UploadRows]
  BY <1>1, StoreTyped DEF StoreInv, UploadRows, NoUpload
<1>12. StoreTypeOK'
  <2>1. docs' \in [Docs -> DocRows]
    BY <1>1, <1>4, <1>5, <1>6
  <2> QED
    BY <1>1, <1>11, <2>1 DEF StoreInv, StoreTypeOK, DocRows, UploadRows
<1>13. Numbered'
  BY <1>3, <1>6, <1>8, <1>9 DEF Numbered, new
<1>14. ASSUME NEW v \in Uploads PROVE UploadSound(v)'
  <2>1. CASE v = u
    BY <1>11, <2>1 DEF UploadSound
  <2>2. CASE v # u
    <3>1. UploadSound(v) /\ upload'[v] = upload[v] /\ upload[v] \in UploadRows
      BY <1>11, <2>2, StoreTyped DEF StoreInv
    <3>2. upload[v].id # up.id
      BY <1>3, <2>2
    <3>3. upload[v] # NoUpload => ~HasRow(upload[v].id)'
      BY <1>8, <3>1, <3>2 DEF UploadSound
    <3>4. upload[v].from # NoDoc /\ HasRow(upload[v].from) =>
            HasRow(upload[v].from)' /\ docs'[upload[v].from].version = docs[upload[v].from].version
      BY <1>5, <1>9, <3>1 DEF UploadRows
    <3>5. \A w \in Uploads : upload[v] # NoUpload /\ upload'[w].id = upload[v].id => w = v
      BY <1>11, <3>1 DEF UploadSound, NoUpload, DocumentsAssumption
    <3> QED
      BY <1>1, <3>1, <3>3, <3>4, <3>5 DEF UploadSound
  <2> QED
    BY <2>1, <2>2
<1>15. RowHashesItsBytes'
  <2> SUFFICES ASSUME NEW d \in Docs, HasRow(d)'
               PROVE  Key(d, docs'[d].version) \in DOMAIN files /\ files[Key(d, docs'[d].version)] = d
    BY <1>1 DEF RowHashesItsBytes, Key
  <2>1. CASE d = up.id
    BY <1>3, <1>6, <2>1 DEF new
  <2>2. CASE d # up.id
    BY <1>5, <1>8, <2>2 DEF StoreInv, RowHashesItsBytes
  <2> QED
    BY <2>1, <2>2
<1>16. VersionsFollow'
  <2>1. ASSUME NEW d \in Docs, HasRow(d)', docs'[d].current, NEW e \in Docs PROVE docs'[e].parent # d
    <3>1. CASE e = up.id
      <4>1. docs'[e].parent = up.from
        BY <1>6, <3>1 DEF new
      <4>2. up.from # d
        <5>1. SUFFICES ASSUME up.from = d PROVE FALSE
          OBVIOUS
        <5>2. d # up.id /\ docs'[d].current = (docs[d].current /\ d # up.from)
          BY <1>3, <1>5, <5>1 DEF DocumentsAssumption
        <5> QED BY <2>1, <5>1, <5>2
      <4> QED BY <4>1, <4>2
    <3>2. CASE e # up.id
      <4>1. docs'[e].parent = docs[e].parent
        BY <1>5, <3>2
      <4>2. CASE d = up.id
        <5>1. CASE ~HasRow(e)
          BY <1>3, <4>1, <4>2, <5>1 DEF HasRow, NoRow, DocumentsAssumption
        <5>2. CASE HasRow(e)
          <6>1. docs[e].parent # NoDoc => HasRow(docs[e].parent)
            BY <5>2 DEF StoreInv, VersionsFollow
          <6> QED BY <1>3, <4>1, <4>2, <6>1 DEF DocumentsAssumption
        <5> QED BY <5>1, <5>2
      <4>3. CASE d # up.id
        <5>1. docs'[d].current = (docs[d].current /\ d # up.from) /\ HasRow(d)
          BY <1>5, <1>8, <2>1, <4>3
        <5>2. docs[d].current
          BY <2>1, <5>1
        <5> QED BY <4>1, <5>1, <5>2 DEF StoreInv, VersionsFollow
      <4> QED BY <4>2, <4>3
    <3> QED BY <3>1, <3>2
  <2>2. ASSUME NEW d \in Docs, HasRow(d)', ~docs'[d].current PROVE \E e \in Docs : docs'[e].parent = d
    <3>1. d # up.id /\ HasRow(d)
      BY <1>6, <1>8, <2>2 DEF new
    <3>2. CASE d = up.from
      <4>1. docs'[up.id].parent = d
        BY <1>6, <3>2 DEF new
      <4> QED BY <1>3, <4>1
    <3>3. CASE d # up.from
      <4>1. ~docs[d].current
        BY <1>7, <2>2, <3>1, <3>3
      <4>2. PICK e \in Docs : docs[e].parent = d
        BY <3>1, <4>1 DEF StoreInv, VersionsFollow
      <4>3. e # up.id
        BY <1>3, <4>2 DEF HasRow, NoRow, DocumentsAssumption
      <4> QED BY <1>5, <4>2, <4>3
    <3> QED BY <3>2, <3>3
  <2>3. ASSUME NEW d \in Docs, HasRow(d)', docs'[d].parent # NoDoc
        PROVE  HasRow(docs[d].parent)' /\ docs'[d].version = docs'[docs'[d].parent].version + 1
    <3>1. CASE d = up.id
      <4>1. PICK q : q = up.from
        OBVIOUS
      <4>2. docs'[d].parent = q /\ docs'[d].version = up.version
        BY <1>6, <3>1, <4>1 DEF new
      <4>3. q \in Docs /\ HasRow(q) /\ up.version = docs[q].version + 1
        BY <1>3, <1>4, <2>3, <4>1, <4>2
      <4>4. q # up.id /\ docs'[q].version = docs[q].version /\ HasRow(q)'
        BY <1>5, <1>9, <4>3
      <4> QED BY <4>2, <4>3, <4>4 DEF HasRow
    <3>2. CASE d # up.id
      <4>1. docs'[d].parent = docs[d].parent /\ docs'[d].version = docs[d].version /\ HasRow(d)
        BY <1>5, <1>8, <2>3, <3>2
      <4>2. PICK q : q = docs[d].parent
        OBVIOUS
      <4>3. docs[d] \in DocRows
        BY StoreTyped DEF StoreInv
      <4>4. q \in Docs /\ HasRow(q) /\ docs[d].version = docs[q].version + 1
        BY <2>3, <4>1, <4>2, <4>3 DEF StoreInv, VersionsFollow, DocRows
      <4>5. q # up.id /\ docs'[q].version = docs[q].version /\ HasRow(q)'
        BY <1>5, <1>9, <4>4
      <4> QED BY <4>1, <4>2, <4>4, <4>5 DEF HasRow
    <3> QED BY <3>1, <3>2
  <2> QED
    BY <2>1, <2>2, <2>3 DEF VersionsFollow
<1> QED
  BY <1>10, <1>12, <1>13, <1>14, <1>15, <1>16 DEF StoreInv

\* A failed upload may take away the bytes under its own key, no row's and no
\* other upload's.
LEMMA FailOK ==
  ASSUME StoreInv, DocumentsAssumption, NEW u \in Uploads, Fail(u)
  PROVE  StoreInv'
<1> DEFINE id == upload[u].id
<1>1. upload[u] # NoUpload /\ upload' = [upload EXCEPT ![u] = NoUpload] /\ docs' = docs
  BY DEF Fail
<1>2. id \in Docs /\ ~HasRow(id) /\ \A v \in Uploads : upload[v].id = id => v = u
  BY <1>1 DEF StoreInv, UploadSound
<1>3. \/ files' = files
      \/ files' = [k \in DOMAIN files \ {Key(id, 1)} |-> files[k]]
  BY DEF Fail
<1>4. /\ DOMAIN files' \subseteq DOMAIN files /\ \A k \in DOMAIN files' : files'[k] = files[k]
      /\ \A d \in Docs, v \in Nat : d # id /\ Key(d, v) \in DOMAIN files => Key(d, v) \in DOMAIN files'
  <2>1. CASE files' = files
    BY <2>1
  <2>2. CASE files' = [k \in DOMAIN files \ {Key(id, 1)} |-> files[k]]
    BY <2>2 DEF Key
  <2> QED
    BY <1>3, <2>1, <2>2
<1> HIDE DEF id
<1>5. /\ upload'[u] = NoUpload /\ \A v \in Uploads \ {u} : upload'[v] = upload[v]
      /\ upload' \in [Uploads -> UploadRows]
  BY <1>1, StoreTyped DEF StoreInv, UploadRows, NoUpload
<1>6. StoreTypeOK'
  BY <1>1, <1>4, <1>5 DEF StoreInv, StoreTypeOK, UploadRows
<1>7. ASSUME NEW v \in Uploads PROVE UploadSound(v)'
  <2>1. CASE v = u
    BY <1>5, <2>1 DEF UploadSound
  <2>2. CASE v # u
    <3>1. UploadSound(v) /\ upload'[v] = upload[v] /\ upload[v] \in UploadRows /\ upload[v].id # id
      BY <1>2, <1>5, <2>2, StoreTyped DEF StoreInv
    <3>2. \A w \in Uploads : upload[v] # NoUpload /\ upload'[w].id = upload[v].id => w = v
      BY <1>5, <3>1 DEF UploadSound, NoUpload, DocumentsAssumption
    <3>3. upload[v] # NoUpload /\ upload[v].put =>
            LET k == Key(upload[v].id, upload[v].version) IN k \in DOMAIN files' /\ files'[k] = upload[v].id
      BY <1>4, <3>1 DEF UploadSound, UploadRows
    <3> QED
      BY <1>1, <3>1, <3>2, <3>3 DEF UploadSound, HasRow
  <2> QED
    BY <2>1, <2>2
<1>8. RowHashesItsBytes'
  BY <1>1, <1>2, <1>4, StoreTyped DEF StoreInv, RowHashesItsBytes, HasRow, DocRows
<1>9. Numbered' /\ VersionsFollow'
  BY <1>1 DEF StoreInv, Numbered, VersionsFollow, HasRow
<1> QED
  BY <1>6, <1>7, <1>8, <1>9 DEF StoreInv

\* The store keeps its promises, and what a row said once it says for ever, but
\* for being current.
LEMMA StoreNextOK ==
  ASSUME StoreInv, DocumentsAssumption, StoreNext
  PROVE  StoreInv' /\ RowsOnlyAge
<1>1. ASSUME NEW u \in Uploads, NEW d \in Docs, BeginUpload(u, d) PROVE StoreInv' /\ docs' = docs
  BY <1>1, BeginOK DEF BeginUpload
<1>2. ASSUME NEW u \in Uploads, NEW d \in Docs, NEW old \in Docs, BeginReplace(u, d, old)
      PROVE  StoreInv' /\ docs' = docs
  <2>1. HasRow(old) /\ docs[old].version + 1 \in Nat \ {0}
    BY <1>2, StoreTyped DEF BeginReplace, StoreInv, DocRows
  <2> QED
    BY <1>2, <2>1, BeginOK DEF BeginReplace
<1>3. ASSUME NEW u \in Uploads, Put(u) \/ Fail(u) PROVE StoreInv' /\ docs' = docs
  BY <1>3, PutOK, FailOK DEF Put, Fail
<1>4. ASSUME NEW u \in Uploads, Insert(u) PROVE StoreInv' /\ RowsOnlyAge
  BY <1>4, InsertOK
<1>5. docs' = docs => RowsOnlyAge
  BY DEF RowsOnlyAge, HasRow
<1> QED
  BY <1>1, <1>2, <1>3, <1>4, <1>5 DEF StoreNext

-----------------------------------------------------------------------------
(* The handoff. *)

\* What record-filing has checked, and what stays so afterwards.
FilingSound(f) ==
  /\ f.run \in Runs /\ f.confirmation \in Docs \cup {NoDoc} /\ f.checksum \in Manifests
  /\ f.checksum.run = f.run
  /\ f.checksum.exports.index.source \in {NoDoc, run[f.run].source}
  /\ Locked(f.run) /\ Ready(f.run) /\ f.checksum.approvals.ready = run[f.run].ready
  /\ f.confirmation # NoDoc => f.confirmation \in Docs /\ HasRow(f.confirmation) /\ ~Current(f.confirmation)

\* A mark is made in a lock, and filed_at with a filing.
StampsSound ==
  \A r \in Runs :
    /\ Ready(r) => Locked(r)
    /\ Locked(r) => run[r].lock # 0
    /\ run[r].filed <=> \E f \in filings : f.run = r

HandoffInv ==
  /\ StoreInv
  /\ TypeOK
  /\ \A f \in filings : FilingSound(f)
  /\ tx # NoTx => FilingSound(tx)
  /\ StampsSound
  /\ held # NoManifest => held \in Manifests /\ held.exports.index.confirmation = NoDoc

-----------------------------------------------------------------------------
(* The manifest. *)

\* What a manifest takes from the run and its current document.
LEMMA ManifestTyped ==
  ASSUME TypeOK, HandoffAssumption, NEW r \in Runs, NEW d \in Docs \cup {NoDoc}
  PROVE  /\ Manifest(r, d) \in Manifests
         /\ Manifest(r, d).run = r
         /\ Manifest(r, d).approvals.ready = run[r].ready
         /\ Manifest(r, d).exports.index.source \in {NoDoc, run[r].source}
         /\ Manifest(r, d).exports.index.confirmation = IF Current(d) THEN d ELSE NoDoc
<1> DEFINE index == [source |-> Indexed(run[r].source), confirmation |-> Indexed(d)]
           approvals == [locked |-> LockedAt(r), ready |-> run[r].ready, filed |-> FALSE]
           entries == [e \in EventTypes \ AuditExcluded |-> trail[r][e]]
<1>1. run[r] \in RunRows /\ item[r] \in Decisions \cup {OpenItem} /\ trail[r] \in [EventTypes -> 0 .. MaxEvents]
  BY DEF TypeOK
<1>2. /\ Indexed(run[r].source) \in {NoDoc, run[r].source} /\ Indexed(run[r].source) \in Docs \cup {NoDoc}
      /\ Indexed(d) \in Docs \cup {NoDoc} /\ Indexed(d) = IF Current(d) THEN d ELSE NoDoc
  BY <1>1 DEF Indexed, RunRows
<1>3. index \in [source : Docs \cup {NoDoc}, confirmation : Docs \cup {NoDoc}]
  BY <1>2
<1>4. approvals \in Approvals
  BY <1>1, HandoffAssumption DEF Approvals, LockedAt, RunRows, HandoffAssumption
<1>5. entries \in [EventTypes \ AuditExcluded -> 0 .. MaxEvents]
  BY <1>1
<1>6. Manifest(r, d) = [generatedAt |-> approvals.locked, run |-> r, approvals |-> approvals,
                        reviewDecision |-> item[r], exports |-> [index |-> index, trail |-> entries]]
  BY DEF Manifest, PackageInput
<1>7. approvals.locked \in 0 .. MaxLocks /\ approvals.ready = run[r].ready
  BY <1>4 DEF Approvals
<1>8. index.source = Indexed(run[r].source) /\ index.confirmation = Indexed(d)
  OBVIOUS
<1> HIDE DEF index, approvals, entries
<1> QED
  BY <1>1, <1>2, <1>3, <1>4, <1>5, <1>6, <1>7, <1>8 DEF Manifests

\* TypeOK of a step, once the manifests and filings are known to be typed.
LEMMA Recorded ==
  ASSUME TypeOK, HandoffAssumption, NEW r \in Runs, NEW e \in EventTypes, Record(r, e)
  PROVE  /\ trail' \in [Runs -> [EventTypes -> 0 .. MaxEvents]]
         /\ \A q \in Runs \ {r} : trail'[q] = trail[q]
         /\ \A f \in EventTypes \ {e} : trail'[r][f] = trail[r][f]
<1> DEFINE n == IF trail[r][e] < MaxEvents THEN trail[r][e] + 1 ELSE trail[r][e]
<1>1. /\ trail \in [Runs -> [EventTypes -> 0 .. MaxEvents]] /\ trail[r][e] \in 0 .. MaxEvents
      /\ trail[r] \in [EventTypes -> 0 .. MaxEvents]
  BY DEF TypeOK
<1>2. n \in 0 .. MaxEvents
  BY <1>1, HandoffAssumption DEF HandoffAssumption
<1>3. trail' = [trail EXCEPT ![r] = [trail[r] EXCEPT ![e] = n]]
  BY <1>1 DEF Record
<1> HIDE DEF n
<1> QED
  BY <1>1, <1>2, <1>3

-----------------------------------------------------------------------------
(* The steps. *)

\* A filing stays sound while its run's row and the documents' age.
LEMMA FilingStays ==
  ASSUME NEW f, FilingSound(f), RowsOnlyAge,
         run'[f.run] = run[f.run] \/ run'[f.run] = [run[f.run] EXCEPT !.filed = TRUE],
         run[f.run] \in RunRows
  PROVE  FilingSound(f)'
<1>1. /\ run'[f.run].status = run[f.run].status /\ run'[f.run].source = run[f.run].source
      /\ run'[f.run].ready = run[f.run].ready
  BY DEF RunRows
<1>2. f.confirmation # NoDoc => HasRow(f.confirmation)' /\ ~Current(f.confirmation)'
  BY DEF FilingSound, RowsOnlyAge, HasRow, Current
<1> QED
  BY <1>1, <1>2 DEF FilingSound, Locked, Ready

\* The invariant holds at first.
LEMMA InitHandoffInv == DocumentsAssumption /\ HandoffAssumption /\ Init => HandoffInv
<1> SUFFICES ASSUME DocumentsAssumption, HandoffAssumption, Init PROVE HandoffInv
  OBVIOUS
<1>1. StoreInv
  BY StoreInitOK DEF Init
<1>2. Absent \in RunRows /\ NoEvents \in [EventTypes -> 0 .. MaxEvents]
  BY HandoffAssumption DEF Absent, RunRows, NoEvents, HandoffAssumption
<1>3. TypeOK
  BY <1>1, <1>2 DEF Init, TypeOK, StoreInv
<1>4. StampsSound
  BY DEF Init, StampsSound, Ready, Locked, Absent
<1> QED
  BY <1>1, <1>3, <1>4 DEF Init, HandoffInv

\* The filings' part of the invariant when neither they nor the run rows change.
LEMMA FilingsStay ==
  ASSUME HandoffInv, RowsOnlyAge, StoreInv', TypeOK', UNCHANGED <<run, filings, tx, held>>
  PROVE  HandoffInv'
<1>1. ASSUME NEW f, FilingSound(f) PROVE FilingSound(f)'
  BY <1>1, FilingStays DEF HandoffInv, TypeOK, FilingSound
<1>2. StampsSound'
  BY DEF HandoffInv, StampsSound, Ready, Locked
<1> QED
  BY <1>1, <1>2 DEF HandoffInv

\* A step of the store.
LEMMA StoreStepOK ==
  ASSUME HandoffInv, DocumentsAssumption, StoreNext, UNCHANGED handoffVars
  PROVE  HandoffInv'
<1>1. StoreInv' /\ RowsOnlyAge /\ UNCHANGED <<run, item, trail, held, filings, tx>>
  BY StoreNextOK DEF HandoffInv, handoffVars
<1>2. TypeOK'
  BY <1>1 DEF HandoffInv, TypeOK, StoreInv
<1> QED
  BY <1>1, <1>2, FilingsStay

\* Where the store does not move.
LEMMA StoreRests ==
  ASSUME HandoffInv, UNCHANGED storeVars
  PROVE  StoreInv' /\ RowsOnlyAge
BY DEF storeVars, HandoffInv, StoreInv, StoreTypeOK, Numbered, UploadSound, RowHashesItsBytes,
       VersionsFollow, RowsOnlyAge, HasRow, Key

\* A step on a run's row that no record-filing holds: it leaves what a filing
\* of the run rests on.
LEMMA RowStepOK ==
  ASSUME HandoffInv, UNCHANGED storeVars, NEW r \in Runs, NEW row \in RunRows,
         run' = [run EXCEPT ![r] = row],
         trail' \in [Runs -> [EventTypes -> 0 .. MaxEvents]],
         UNCHANGED <<item, filings, tx, held>>, tx # NoTx => tx.run # r,
         row.filed = run[r].filed, row.ready # 0 => row.status = "locked",
         row.status = "locked" => row.lock # 0,
         run[r].filed => /\ row.status = "locked" /\ row.source = run[r].source
                         /\ row.ready = run[r].ready
  PROVE  HandoffInv'
<1>1. StoreInv' /\ RowsOnlyAge
  BY StoreRests
<1>2. /\ run \in [Runs -> RunRows] /\ run' \in [Runs -> RunRows] /\ run'[r] = row
      /\ \A q \in Runs \ {r} : run'[q] = run[q]
  BY DEF HandoffInv, TypeOK
<1>3. TypeOK'
  BY <1>1, <1>2 DEF HandoffInv, TypeOK, StoreInv
<1>4. ASSUME NEW f, FilingSound(f), f.run # r PROVE FilingSound(f)'
  BY <1>1, <1>2, <1>4, FilingStays DEF FilingSound
<1>5. ASSUME NEW f \in filings PROVE FilingSound(f)'
  <2>1. FilingSound(f)
    BY DEF HandoffInv
  <2>2. CASE f.run = r
    <3>1. run[r].filed
      BY <2>2 DEF HandoffInv, StampsSound
    <3>2. row.status = "locked" /\ row.source = run[r].source /\ row.ready = run[r].ready
      BY <3>1
    <3>3. f.confirmation # NoDoc => HasRow(f.confirmation)' /\ ~Current(f.confirmation)'
      BY <1>1, <2>1 DEF FilingSound, RowsOnlyAge, HasRow, Current
    <3> QED
      BY <1>2, <2>1, <2>2, <3>2, <3>3 DEF FilingSound, Locked, Ready
  <2> QED
    BY <1>4, <2>1, <2>2
<1>6. tx' # NoTx => FilingSound(tx)'
  BY <1>4 DEF HandoffInv
<1>7. StampsSound'
  BY <1>2 DEF HandoffInv, StampsSound, Ready, Locked
<1> QED
  BY <1>1, <1>3, <1>5, <1>6, <1>7 DEF HandoffInv

\* The steps of a run's life.
LEMMA RunOK ==
  ASSUME HandoffInv, DocumentsAssumption, HandoffAssumption, UNCHANGED storeVars, NEW r \in Runs,
         \/ \E d \in Nameable : Create(r, d)
         \/ Finalize(r) \/ Lock(r) \/ Unlock(r) \/ HandoffReady(r)
  PROVE  HandoffInv'
<1>1. /\ run \in [Runs -> RunRows] /\ run[r] \in RunRows
      /\ trail \in [Runs -> [EventTypes -> 0 .. MaxEvents]]
  BY DEF HandoffInv, TypeOK
<1>2. /\ Ready(r) => Locked(r)
      /\ Locked(r) => run[r].lock # 0
      /\ run[r].filed => Locked(r) /\ Ready(r)
  BY DEF HandoffInv, StampsSound, FilingSound
<1>3. tx # NoTx => tx.run \in Runs /\ Locked(tx.run)
  BY DEF HandoffInv, FilingSound
<1>4. CASE \E d \in Nameable : Create(r, d)
  <2>1. PICK d \in Nameable : Create(r, d)
    BY <1>4
  <2> DEFINE row == [Absent EXCEPT !.status = "open", !.source = d]
  <2>2. /\ ~Exists(r) /\ run' = [run EXCEPT ![r] = row]
        /\ UNCHANGED <<item, trail, held, filings, tx>>
    BY <2>1 DEF Create
  <2>3. row \in RunRows /\ row.filed = FALSE /\ row.ready = 0 /\ row.status = "open"
    <3>1. d \in Docs \cup {NoDoc} /\ 0 \in 0 .. MaxLocks
      BY HandoffAssumption DEF Nameable, HandoffAssumption
    <3> QED
      BY <3>1 DEF Absent, RunRows
  <2>4. run[r].filed = FALSE /\ (tx # NoTx => tx.run # r)
    BY <1>1, <1>2, <1>3, <2>2 DEF Exists, Locked, RunRows
  <2> HIDE DEF row
  <2> QED
    BY <1>1, <2>2, <2>3, <2>4, RowStepOK
<1>5. CASE Finalize(r)
  <2> DEFINE row == [run[r] EXCEPT !.status = "finalized"]
  <2>1. /\ RowFree(r) /\ run[r].status = "open" /\ run' = [run EXCEPT ![r] = row]
        /\ UNCHANGED <<item, trail, held, filings, tx>>
    BY <1>1, <1>5 DEF Finalize
  <2>2. /\ row \in RunRows /\ row.filed = run[r].filed /\ row.status = "finalized"
        /\ row.ready = run[r].ready
    BY <1>1 DEF RunRows
  <2>3. run[r].filed = FALSE /\ run[r].ready = 0 /\ (tx # NoTx => tx.run # r)
    BY <1>1, <1>2, <2>1 DEF RowFree, Locked, Ready, RunRows
  <2> HIDE DEF row
  <2> QED
    BY <1>1, <2>1, <2>2, <2>3, RowStepOK
<1>6. CASE Lock(r)
  <2> DEFINE row == [run[r] EXCEPT !.status = "locked", !.lock = run[r].lock + 1]
  <2>1. /\ RowFree(r) /\ run[r].lock < MaxLocks /\ run' = [run EXCEPT ![r] = row]
        /\ UNCHANGED <<item, trail, held, filings, tx>>
    BY <1>1, <1>6 DEF Lock
  <2>2. run[r].lock + 1 \in 0 .. MaxLocks /\ run[r].lock + 1 # 0
    BY <1>1, <2>1, HandoffAssumption DEF RunRows, HandoffAssumption
  <2>3. /\ row \in RunRows /\ row.filed = run[r].filed /\ row.status = "locked"
        /\ row.ready = run[r].ready /\ row.source = run[r].source /\ row.lock # 0
    BY <1>1, <2>2 DEF RunRows
  <2>4. tx # NoTx => tx.run # r
    BY <2>1 DEF RowFree
  <2> HIDE DEF row
  <2> QED
    BY <1>1, <2>1, <2>3, <2>4, RowStepOK
<1>7. CASE Unlock(r)
  <2> DEFINE row == [run[r] EXCEPT !.status = "open", !.ready = 0]
  <2>1. /\ RowFree(r) /\ ~run[r].filed /\ run' = [run EXCEPT ![r] = row]
        /\ UNCHANGED <<item, trail, held, filings, tx>>
    BY <1>1, <1>7 DEF Unlock, RunRows
  <2>2. row \in RunRows /\ row.filed = run[r].filed /\ row.status = "open" /\ row.ready = 0
    <3>1. 0 \in 0 .. MaxLocks
      BY HandoffAssumption DEF HandoffAssumption
    <3> QED
      BY <1>1, <3>1 DEF RunRows
  <2>3. tx # NoTx => tx.run # r
    BY <2>1 DEF RowFree
  <2> HIDE DEF row
  <2> QED
    BY <1>1, <2>1, <2>2, <2>3, RowStepOK
<1>8. CASE HandoffReady(r)
  <2> DEFINE row == [run[r] EXCEPT !.ready = run[r].lock]
  <2>1. /\ RowFree(r) /\ run' = [run EXCEPT ![r] = row] /\ Record(r, "run.handoff_ready")
        /\ UNCHANGED <<item, held, filings, tx>>
    BY <1>1, <1>8 DEF HandoffReady, RunRows
  <2>2. Locked(r) /\ ~Ready(r)
    BY <1>8 DEF HandoffReady, Blockers
  <2>3. /\ row \in RunRows /\ row.filed = run[r].filed /\ row.status = "locked"
        /\ row.lock = run[r].lock
    BY <1>1, <2>2 DEF RunRows, Locked
  <2>4. trail' \in [Runs -> [EventTypes -> 0 .. MaxEvents]]
    BY <2>1, Recorded, HandoffAssumption DEF HandoffInv, EventTypes
  <2>5. tx # NoTx => tx.run # r
    BY <2>1 DEF RowFree
  <2>6. ~run[r].filed /\ run[r].lock # 0
    BY <1>2, <2>2
  <2> HIDE DEF row
  <2> QED
    BY <2>1, <2>3, <2>4, <2>5, <2>6, RowStepOK
<1> QED
  BY <1>4, <1>5, <1>6, <1>7, <1>8

\* The steps on a review item or the trail of a run, and looking at its package.
LEMMA LookOK ==
  ASSUME HandoffInv, DocumentsAssumption, HandoffAssumption, UNCHANGED storeVars, NEW r \in Runs,
         \/ \E d \in Decisions : Decide(r, d)
         \/ Reopen(r) \/ ExportWorkpaper(r) \/ ExportPackage(r)
  PROVE  HandoffInv'
<1>1. StoreInv' /\ RowsOnlyAge /\ UNCHANGED <<run, filings, tx>>
  BY StoreRests DEF Decide, Reopen, ExportWorkpaper, ExportPackage
<1>2. item' \in [Runs -> Decisions \cup {OpenItem}]
  BY DEF HandoffInv, TypeOK, Decide, Reopen, ExportWorkpaper, ExportPackage
<1>3. trail' \in [Runs -> [EventTypes -> 0 .. MaxEvents]]
  <2>1. \/ trail' = trail
        \/ Record(r, "export.workpaper") \/ Record(r, "export.handoff_package")
    BY DEF Decide, Reopen, ExportWorkpaper, ExportPackage
  <2> QED
    BY <2>1, Recorded, HandoffAssumption DEF HandoffInv, TypeOK, EventTypes
<1>4. /\ held' \in Manifests \cup {NoManifest}
      /\ held' # NoManifest => held' \in Manifests /\ held'.exports.index.confirmation = NoDoc
  <2>1. held' \in {held, Manifest(r, NoDoc)}
    BY DEF Decide, Reopen, ExportWorkpaper, ExportPackage
  <2>2. Manifest(r, NoDoc) \in Manifests /\ Manifest(r, NoDoc).exports.index.confirmation = NoDoc
    BY ManifestTyped, HandoffAssumption DEF HandoffInv
  <2> QED
    BY <2>1, <2>2 DEF HandoffInv
<1>5. TypeOK'
  BY <1>1, <1>2, <1>3, <1>4 DEF HandoffInv, TypeOK, StoreInv
<1>6. ASSUME NEW f, FilingSound(f) PROVE FilingSound(f)'
  BY <1>1, <1>6, FilingStays DEF HandoffInv, TypeOK, FilingSound
<1>7. StampsSound'
  BY <1>1 DEF HandoffInv, StampsSound, Ready, Locked
<1> QED
  BY <1>1, <1>4, <1>5, <1>6, <1>7 DEF HandoffInv

\* Up to its insert, record-filing compares what is filed with what was exported.
LEMMA ReadFilingOK ==
  ASSUME HandoffInv, HandoffAssumption, UNCHANGED storeVars, NEW r \in Runs, NEW d \in Nameable,
         ReadFiling(r, d)
  PROVE  HandoffInv'
<1>1. StoreInv' /\ RowsOnlyAge /\ UNCHANGED <<run, item, trail, held, filings>>
  BY StoreRests DEF ReadFiling
<1>2. /\ Locked(r) /\ Ready(r) /\ held # NoManifest /\ Manifest(r, d) = held
      /\ tx' = [run |-> r, confirmation |-> d, checksum |-> held]
  BY DEF ReadFiling
<1>3. d \in Docs \cup {NoDoc} /\ (d # NoDoc => d \in Docs /\ HasRow(d))
  BY DEF Nameable
<1>4. /\ held \in Manifests /\ held.run = r /\ held.approvals.ready = run[r].ready
      /\ held.exports.index.source \in {NoDoc, run[r].source}
      /\ d # NoDoc => ~Current(d)
  BY <1>2, <1>3, ManifestTyped, HandoffAssumption DEF HandoffInv
<1>5. FilingSound(tx')
  BY <1>2, <1>3, <1>4 DEF FilingSound
<1>6. FilingSound(tx)'
  BY <1>1, <1>5 DEF FilingSound, storeVars, HasRow, Current, Locked, Ready
<1>7. TypeOK'
  <2>1. tx' \in Filings
    BY <1>2, <1>3, <1>4 DEF Filings
  <2> QED
    BY <1>1, <2>1 DEF HandoffInv, TypeOK, StoreInv
<1>8. ASSUME NEW f \in filings PROVE FilingSound(f)'
  BY <1>1, FilingStays DEF HandoffInv, TypeOK, FilingSound
<1>9. StampsSound'
  BY <1>1 DEF HandoffInv, StampsSound, Ready, Locked
<1> QED
  BY <1>1, <1>6, <1>7, <1>8, <1>9 DEF HandoffInv

\* The insert and the stamps: nothing it rests on can have changed.
LEMMA CommitFilingOK ==
  ASSUME HandoffInv, HandoffAssumption, UNCHANGED storeVars, CommitFiling
  PROVE  HandoffInv'
<1>1. /\ StoreInv' /\ RowsOnlyAge /\ tx # NoTx /\ tx' = NoTx /\ filings' = filings \cup {tx}
      /\ run' = [run EXCEPT ![tx.run].filed = TRUE] /\ Record(tx.run, "run.filed_externally")
      /\ UNCHANGED <<item, held>>
  BY StoreRests DEF CommitFiling
<1>2. FilingSound(tx) /\ tx.run \in Runs /\ tx \in Filings
  BY <1>1 DEF HandoffInv, FilingSound, TypeOK
<1> DEFINE row == [run[tx.run] EXCEPT !.filed = TRUE]
<1>3. /\ run \in [Runs -> RunRows] /\ run[tx.run] \in RunRows /\ row \in RunRows
      /\ row.filed = TRUE /\ row.status = run[tx.run].status /\ row.lock = run[tx.run].lock
      /\ row.ready = run[tx.run].ready
  <2>1. run \in [Runs -> RunRows] /\ run[tx.run] \in RunRows
    BY <1>2 DEF HandoffInv, TypeOK
  <2> QED
    BY <2>1 DEF RunRows
<1>4. /\ run' \in [Runs -> RunRows] /\ run'[tx.run] = row
      /\ \A q \in Runs \ {tx.run} : run'[q] = run[q]
  BY <1>1, <1>2, <1>3
<1>5. ASSUME NEW f, FilingSound(f) PROVE FilingSound(f)'
  <2>1. run[f.run] \in RunRows /\ f.run \in Runs
    BY <1>3, <1>5 DEF FilingSound
  <2>2. run'[f.run] = run[f.run] \/ run'[f.run] = [run[f.run] EXCEPT !.filed = TRUE]
    BY <1>4, <2>1
  <2> QED
    BY <1>1, <1>5, <2>1, <2>2, FilingStays
<1>6. trail' \in [Runs -> [EventTypes -> 0 .. MaxEvents]]
  BY <1>1, <1>2, Recorded, HandoffAssumption DEF HandoffInv, EventTypes
<1>7. TypeOK'
  BY <1>1, <1>2, <1>4, <1>6 DEF HandoffInv, TypeOK, StoreInv
<1> HIDE DEF row
<1>8. StampsSound'
  BY <1>1, <1>2, <1>3, <1>4 DEF HandoffInv, StampsSound, FilingSound, Ready, Locked
<1> QED
  BY <1>1, <1>2, <1>5, <1>7, <1>8 DEF HandoffInv

\* A filing that is rolled back leaves the run and its documents alone.
LEMMA AbortFilingOK ==
  ASSUME HandoffInv, UNCHANGED storeVars, AbortFiling
  PROVE  HandoffInv'
<1>1. StoreInv' /\ RowsOnlyAge /\ tx' = NoTx /\ UNCHANGED <<run, item, trail, held, filings>>
  BY StoreRests DEF AbortFiling
<1>2. TypeOK' /\ StampsSound'
  BY <1>1 DEF HandoffInv, TypeOK, StoreInv, StampsSound, Ready, Locked
<1>3. ASSUME NEW f \in filings PROVE FilingSound(f)'
  BY <1>1, FilingStays DEF HandoffInv, TypeOK, FilingSound
<1> QED
  BY <1>1, <1>2, <1>3 DEF HandoffInv

-----------------------------------------------------------------------------
(* The theorems. *)

\* Every step keeps the invariant.
LEMMA NextHandoffInv ==
  HandoffInv /\ DocumentsAssumption /\ HandoffAssumption /\ [Next]_vars => HandoffInv'
<1> SUFFICES ASSUME HandoffInv, DocumentsAssumption, HandoffAssumption, [Next]_vars PROVE HandoffInv'
  OBVIOUS
<1>1. CASE StoreNext /\ UNCHANGED handoffVars
  BY <1>1, StoreStepOK
<1>2. ASSUME RunStep, UNCHANGED storeVars PROVE HandoffInv'
  BY <1>2, RunOK, LookOK, ReadFilingOK DEF RunStep
<1>3. ASSUME CommitFiling \/ AbortFiling, UNCHANGED storeVars PROVE HandoffInv'
  BY <1>3, CommitFilingOK, AbortFilingOK
<1>4. CASE UNCHANGED vars
  <2>1. UNCHANGED storeVars /\ UNCHANGED <<run, item, trail, held, filings, tx>>
    BY <1>4 DEF vars, storeVars
  <2>2. StoreInv' /\ RowsOnlyAge
    BY <2>1, StoreRests
  <2>3. TypeOK'
    BY <2>1, <2>2 DEF HandoffInv, TypeOK, StoreInv
  <2> QED
    BY <2>1, <2>2, <2>3, FilingsStay
<1> QED
  BY <1>1, <1>2, <1>3, <1>4 DEF Next

\* The invariant holds of everything the module describes.
THEOREM HandoffInvariant == Spec => []HandoffInv
<1>1. Init => HandoffInv
  BY InitHandoffInv, DocumentsAssumption, HandoffAssumption
<1>2. HandoffInv /\ [Next]_vars => HandoffInv'
  BY NextHandoffInv, DocumentsAssumption, HandoffAssumption
<1> QED
  BY <1>1, <1>2, PTL DEF Spec

\* Rows, manifests and filings are what their columns allow.
THEOREM HandoffTypeCorrect == Spec => []TypeOK
<1>1. HandoffInv => TypeOK
  BY DEF HandoffInv
<1> QED
  BY <1>1, HandoffInvariant, PTL

\* documents.routes.ts and lib/storage: the bytes under a row's key are those it
\* hashed, and a superseded document leads to a current one, whatever uploads
\* and replaces overlap or fail.
THEOREM StoredDocumentsAreSound == Spec => []DocumentsSound
<1>1. HandoffInv => DocumentsSound
  BY DEF HandoffInv, StoreInv, DocumentsSound
<1> QED
  BY <1>1, HandoffInvariant, PTL

\* handoff.routes.ts POST /record-filing: a filing is evidence about its run, in
\* the handoff it was recorded in, and the view shows it as long as it is there.
THEOREM FilingsDescribeTheirRuns == Spec => []FilingDescribesItsRun
<1>1. ASSUME HandoffInv, NEW r \in Runs
      PROVE  /\ (View(r).lifecycle = "filed_externally") = (View(r).externalFilings # {})
             /\ View(r).lifecycle = "filing_ready" => View(r).lockedAt # 0
  <2>1. /\ run[r] \in RunRows /\ (Ready(r) => Locked(r)) /\ (Locked(r) => run[r].lock # 0)
        /\ run[r].filed <=> \E f \in filings : f.run = r
    BY <1>1 DEF HandoffInv, TypeOK, StampsSound
  <2>2. /\ run[r].filed => Stage(r) = "filed_externally"
        /\ ~run[r].filed => Stage(r) # "filed_externally"
        /\ Stage(r) = "filing_ready" => Ready(r)
    BY <2>1 DEF Stage, RunRows
  <2>3. FilingsOf(r) # {} <=> \E f \in filings : f.run = r
    BY DEF FilingsOf
  <2>4. /\ View(r).lifecycle = Stage(r) /\ View(r).externalFilings = FilingsOf(r)
        /\ View(r).lockedAt = LockedAt(r)
    BY DEF View
  <2> QED
    BY <2>1, <2>2, <2>3, <2>4 DEF LockedAt
<1>2. ASSUME HandoffInv, NEW f \in filings
      PROVE  /\ f.checksum.run = f.run
             /\ f.checksum.exports.index.source \in {NoDoc, run[f.run].source}
             /\ Locked(f.run) /\ Ready(f.run) /\ f.checksum.approvals.ready = run[f.run].ready
             /\ f.confirmation # NoDoc => ~Current(f.confirmation)
  BY <1>2 DEF HandoffInv, FilingSound
<1>3. HandoffInv => FilingDescribesItsRun
  BY <1>1, <1>2 DEF FilingDescribesItsRun
<1> QED
  BY <1>3, HandoffInvariant, PTL

\* handoff.routes.ts loadPackageInput: looking at a package and recording a
\* filing leave every manifest as it was.
THEOREM FilingChangesNoManifest == Spec => FilingKeepsManifest
<1> DEFINE Keeps == \A r \in Runs :
             \A e \in {"export.handoff_package", "run.filed_externally"} :
               trail[r][e] # trail'[r][e] => Manifest(r, NoDoc)' = Manifest(r, NoDoc)
<1>1. HandoffInv /\ [Next]_vars => [Keeps]_vars
  <2> SUFFICES ASSUME HandoffInv, Next, NEW r \in Runs,
                      NEW e \in {"export.handoff_package", "run.filed_externally"},
                      trail[r][e] # trail'[r][e]
               PROVE  Manifest(r, NoDoc)' = Manifest(r, NoDoc)
    BY DEF Keeps
  <2>1. UNCHANGED storeVars
    BY DEF Next, handoffVars
  <2>2. /\ \A d : Indexed(d)' = Indexed(d)
        /\ TypeOK
    BY <2>1 DEF Indexed, Current, storeVars, HandoffInv
  <2>3. CASE \E q \in Runs : ExportPackage(q)
    <3>1. PICK q \in Runs : ExportPackage(q)
      BY <2>3
    <3>2. UNCHANGED <<run, item>> /\ Record(q, "export.handoff_package")
      BY <3>1 DEF ExportPackage
    <3>3. \A g \in EventTypes \ AuditExcluded : trail'[r][g] = trail[r][g]
      BY <2>2, <3>2, Recorded, HandoffAssumption DEF EventTypes, AuditExcluded
    <3> QED
      BY <2>2, <3>2, <3>3 DEF Manifest, PackageInput, LockedAt, Locked
  <2>4. CASE CommitFiling
    <3>1. /\ run' = [run EXCEPT ![tx.run].filed = TRUE] /\ UNCHANGED item
          /\ Record(tx.run, "run.filed_externally") /\ tx.run \in Runs
      BY <2>4 DEF CommitFiling, HandoffInv, FilingSound
    <3>2. run[r] \in RunRows /\ run \in [Runs -> RunRows]
      BY <2>2 DEF TypeOK
    <3>3. /\ run'[r].status = run[r].status /\ run'[r].source = run[r].source
          /\ run'[r].lock = run[r].lock /\ run'[r].ready = run[r].ready
      BY <3>1, <3>2 DEF RunRows
    <3>4. \A g \in EventTypes \ AuditExcluded : trail'[r][g] = trail[r][g]
      BY <2>2, <3>1, Recorded, HandoffAssumption DEF EventTypes, AuditExcluded
    <3> QED
      BY <2>2, <3>1, <3>3, <3>4 DEF Manifest, PackageInput, LockedAt, Locked
  <2>5. ASSUME NEW q \in Runs, HandoffReady(q) \/ ExportWorkpaper(q) PROVE FALSE
    <3>1. Record(q, "run.handoff_ready") \/ Record(q, "export.workpaper")
      BY <2>5 DEF HandoffReady, ExportWorkpaper
    <3> QED
      BY <2>2, <3>1, Recorded, HandoffAssumption DEF EventTypes
  <2>6. trail' # trail
    OBVIOUS
  <2> QED
    BY <2>3, <2>4, <2>5, <2>6 DEF Next, handoffVars, RunStep, Create, ReadFiling, Finalize, Lock,
                               Unlock, Decide, Reopen, AbortFiling
<1>2. [][Keeps]_vars => FilingKeepsManifest
  BY PTL DEF FilingKeepsManifest
<1> QED
  BY <1>1, <1>2, HandoffInvariant, PTL DEF Spec
=============================================================================
