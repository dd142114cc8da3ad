---------------------------- MODULE UploadProofs ----------------------------
(***************************************************************************)
(* Proofs about Upload, for any contents, sizes, uploads, files and        *)
(* requests, and every fault.  Inv is inductive: an open file belongs to   *)
(* one upload, what has been hashed of a file is still there unless other  *)
(* bytes raced with it, and what rows and tracks point to has been moved   *)
(* to the store unless lost says that it was not.                          *)
(***************************************************************************)
EXTENDS Upload, TLAPS

\* The two limits are numbers, and one is a hundred times the other.
LEMMA Limits == /\ ChunkBytes \in Nat \ {0} /\ MaxUpload \in Nat
                /\ MaxUpload = 100 * ChunkBytes
BY DEF ChunkBytes, MaxUpload

\* The chunks the server asks for are the places of the file: a chunk is one of them when
\* its first byte is a byte of the file, and no byte is left over.
THEOREM ChunksCoverTheFile ==
    ASSUME NEW size \in Nat \ {0}, NEW i \in Nat
    PROVE  /\ i < PlanUpload(size) <=> i * ChunkBytes < size
           /\ PlanUpload(size) >= 1
           /\ PlanUpload(size) * ChunkBytes >= size
BY DEF PlanUpload, ChunkBytes

\* No size InitUpload accepts needs more than a hundred chunks.
THEOREM AtMostHundredChunks ==
    ASSUME NEW size \in 1 .. MaxUpload
    PROVE  PlanUpload(size) \in 1 .. 100
<1>1. size \in Nat \ {0} /\ size <= 100 * ChunkBytes
  BY Limits
<1>2. PlanUpload(size) \in Int
  BY <1>1 DEF PlanUpload, ChunkBytes
<1>3. PlanUpload(size) >= 1 /\ ~(100 < PlanUpload(size))
  BY <1>1, Limits, ChunksCoverTheFile
<1> QED
  BY <1>2, <1>3

-----------------------------------------------------------------------------
(* Facts about the constants and about requests *)

\* What the constants are not.
LEMMA Apart ==
    /\ NoFile \notin Files /\ NoUpload \notin Uploads
    /\ NoContent \notin Contents /\ Other \notin Contents
    /\ Last \in Nat /\ 0 \in Places
    /\ Idle \in Calls /\ Idle.pc = "idle" /\ Idle.file = NoFile
BY UploadAssumption DEF Places, Idle, Calls

\* A chunk's place is in the file and not the last one.
LEMMA ChunkFits ==
    ASSUME NEW c \in Contents, NEW i \in Places, i < PlanUpload(Size[c])
    PROVE  i \in 0 .. Last - 1 /\ i + 1 \in Places /\ Whole(c)[i] = c
<1>1. Size[c] \in Nat \ {0} /\ Size[c] <= Last * ChunkBytes /\ Last \in Nat
  <2>1. Size[c] \in 1 .. MaxUpload
    BY UploadAssumption
  <2> QED
    BY <2>1, UploadAssumption, Limits
<1>2. i \in Nat /\ i <= Last
  BY <1>1 DEF Places
<1>3. i * ChunkBytes < Size[c]
  BY <1>1, <1>2, ChunksCoverTheFile
<1>4. i < Last
  BY <1>1, <1>2, <1>3 DEF ChunkBytes
<1> QED
  BY <1>1, <1>2, <1>3, <1>4 DEF Whole, Places

\* What a request is, by what it is doing.
LEMMA Shape ==
    ASSUME TypeOK, NEW e \in Requests
    PROVE  /\ call[e].pc \in {"idle", "attach", "create", "upsert", "track",
                              "copy", "copying", "hash", "rename"}
           /\ call[e].pc = "idle" => call[e] = Idle
           /\ call[e].pc \in {"attach", "create", "upsert", "track"} =>
                 /\ call[e].content \in Contents /\ call[e].file = NoFile
                 /\ call[e].up = NoUpload /\ call[e].at = 0 /\ call[e].body = NoContent
           /\ Open(e) => /\ call[e].up \in Uploads /\ call[e].content \in Contents
                         /\ call[e].file \in Files /\ call[e].at \in Nat
           /\ call[e].pc \in {"copy", "copying"} =>
                 /\ call[e].at \in 0 .. Last - 1 /\ call[e].body \in Contents \cup {Other}
           /\ call[e].pc = "hash" => call[e].at \in Places
           /\ call[e].pc = "rename" => call[e].at = Last + 1
           /\ Completing(e) => call[e].body = NoContent
<1>1. call[e] \in Calls
  BY DEF TypeOK
<1>2. Last \in Nat /\ Places = 0 .. Last
  BY UploadAssumption DEF Places
<1> QED
  BY <1>1, <1>2 DEF Calls, Idle, Open, Completing

\* A chunk's request that goes on is the same otherwise.
LEMMA GoesOn ==
    ASSUME TypeOK, NEW e \in Requests, call[e].pc \in {"copy", "copying"},
           NEW r, r = [call[e] EXCEPT !.pc = "copying"]
    PROVE  /\ r \in Calls /\ r.pc = "copying"
           /\ r.file = call[e].file /\ r.up = call[e].up /\ r.content = call[e].content
           /\ r.at = call[e].at /\ r.body = call[e].body
<1>1. call[e] \in Calls
  BY DEF TypeOK
<1>2. call[e] \in [pc : {"copy", "copying"}, up : Uploads, content : Contents,
                   file : Files, at : 0 .. Last - 1, body : Contents \cup {Other}]
  BY <1>1 DEF Calls, Idle
<1>3. r \in [pc : {"copy", "copying"}, up : Uploads, content : Contents,
             file : Files, at : 0 .. Last - 1, body : Contents \cup {Other}]
  BY <1>2
<1> QED
  BY <1>2, <1>3 DEF Calls

\* The file of an open request is used, so a free one is not it.
LEMMA FreeIsFree ==
    ASSUME TypeOK, NEW f \in Free
    PROVE  /\ f \in Files
           /\ \A u \in Uploads : tmp[u] # f
           /\ \A c \in Contents : blob[c] # f
           /\ \A e \in Requests : call[e].file # f
BY DEF Free, InUse

-----------------------------------------------------------------------------
(* The parts of Inv, and what leaves them alone *)

Parts(e) == Owned(e) /\ InPlace(e) /\ Hashed(e) /\ Backed(e)

\* A step of one request that opens nothing, and changes neither names nor files, keeps
\* everything, if what it next relies on is stored.
LEMMA QuietStep ==
    ASSUME Inv, NEW e \in Requests, NEW r \in Calls,
           call' = [call EXCEPT ![e] = r],
           r.pc \notin {"copy", "copying", "hash", "rename"},
           r.pc \in {"attach", "upsert", "track"} =>
               blob'[r.content] # NoFile \/ r.content \in lost',
           UNCHANGED <<upload, tmp, blob, disk, raced>>,
           mixed' \subseteq Requests, lost' \subseteq Contents,
           \A c \in Contents : Moved(c) => Moved(c)',
           rows' \subseteq Contents, tracks' \subseteq Contents,
           \A c \in rows' \cup tracks' : Moved(c)'
    PROVE  Inv'
<1>1. TypeOK /\ FilesApart /\ call \in [Requests -> Calls]
  BY DEF Inv, TypeOK
<1>2. TypeOK'
  BY <1>1 DEF TypeOK
<1>3. FilesApart'
  BY <1>1 DEF FilesApart
<1>4. \A d \in Requests : call'[d] = IF d = e THEN r ELSE call[d]
  BY <1>1
<1>5. ASSUME NEW d \in Requests PROVE Parts(d)'
  <2>1. CASE d = e
    BY <1>4, <2>1 DEF Parts, Owned, InPlace, Hashed, Backed, Moved, Open, Completing
  <2>2. CASE d # e
    <3>1. Parts(d) /\ call'[d] = call[d]
      BY <1>4, <2>2 DEF Inv, Parts
    <3>2. Owned(d)'
      BY <1>4, <3>1 DEF Parts, Owned, Open
    <3>3. /\ call[d].pc \in {"attach", "upsert", "track"} => call[d].content \in Contents
          /\ Completing(d) => call[d].content \in Contents
      BY <1>1, Shape DEF Completing, Open
    <3>4. Backed(d)'
      BY <3>1, <3>3 DEF Parts, Backed, Completing
    <3> QED
      BY <3>1, <3>2, <3>4 DEF Parts, InPlace, Hashed, Completing
  <2> QED
    BY <2>1, <2>2
<1> QED
  BY <1>2, <1>3, <1>5 DEF Inv, Parts, Stored

\* Bytes written to an open file do no harm that raced does not tell: they are declared
\* bytes at their place, which leave what has been hashed as it is, or change nothing that
\* has been hashed.
LEMMA WriteStep ==
    ASSUME Inv, NEW e \in Requests, call[e].pc \in {"copy", "copying"},
           NEW i \in Places, NEW piece \in Pieces, NEW other \in BOOLEAN,
           Write(e, i, piece), Races(e, i, other),
           ~other => /\ i = call[e].at /\ call[e].body # Other
                     /\ piece = call[e].content \/ disk[call[e].file][i] # call[e].content,
           NEW r \in Calls, r \in {Idle, [call[e] EXCEPT !.pc = "copying"]},
           call' = [call EXCEPT ![e] = r],
           mixed' \subseteq Requests, UNCHANGED <<upload, tmp, blob, rows, tracks, lost>>
    PROVE  Inv'
<1> DEFINE f == call[e].file
           c == call[e].content
<1>1. TypeOK /\ FilesApart /\ call \in [Requests -> Calls] /\ disk \in [Files -> [Places -> Pieces]]
  BY DEF Inv, TypeOK
<1>2. f \in Files /\ c \in Contents /\ Open(e)
  BY <1>1, Shape DEF Open
<1>3. \A d \in Requests : call'[d] = IF d = e THEN r ELSE call[d]
  BY <1>1
<1>0. /\ call'[e] = r /\ r.pc \in {"idle", "copying"}
      /\ r.pc = "copying" => /\ r.file = f /\ r.up = call[e].up /\ r.content = c
                             /\ r.at = call[e].at /\ r.body = call[e].body
  BY <1>1, <1>3, Apart, GoesOn
<1>4. /\ disk' = [disk EXCEPT ![f][i] = piece]
      /\ \A g \in Files, k \in Places :
            disk'[g][k] = IF g = f /\ k = i THEN piece ELSE disk[g][k]
      /\ disk' \in [Files -> [Places -> Pieces]]
  BY <1>1, <1>2 DEF Write
<1>5. raced \subseteq raced' /\ raced' \subseteq raced \cup {f}
  BY DEF Races
<1>6. TypeOK'
  BY <1>1, <1>2, <1>4, <1>5 DEF TypeOK
<1>7. FilesApart'
  BY <1>1 DEF FilesApart
<1>8. /\ Owned(e) /\ InPlace(e)
      /\ \A d \in Requests : Owned(d) /\ InPlace(d) /\ Hashed(d) /\ Backed(d)
  BY DEF Inv
<1>9. ASSUME ~other PROVE Whole(c)[i] = c
  <2>1. i < PlanUpload(Size[c])
    BY <1>2, <1>8, <1>9 DEF InPlace, Open
  <2> QED
    BY <1>2, <2>1, ChunkFits
<1>10. ASSUME Behind(f, i), f \notin raced', disk[f][i] = Whole(c)[i]
       PROVE  disk' = disk
  <2>1. ~other
    BY <1>10 DEF Races
  <2>2. piece = disk[f][i]
    BY <1>9, <1>10, <2>1
  <2> QED
    BY <1>1, <1>2, <1>4, <2>2
<1>11. ASSUME NEW d \in Contents, blob[d] # NoFile PROVE Stored(d)'
  <2> SUFFICES ASSUME blob[d] \notin raced' PROVE disk'[blob[d]] = Whole(d)
    BY <1>11 DEF Stored, Whole
  <2>1. blob[d] \in Files /\ disk[blob[d]] = Whole(d)
    BY <1>1, <1>5, <1>11 DEF Inv, Stored, TypeOK
  <2>2. CASE blob[d] = f
    <3>1. d = c
      BY <1>2, <1>8, <2>2 DEF Owned
    <3>2. Behind(f, i)
      BY <2>2 DEF Behind
    <3> QED
      BY <1>10, <2>1, <2>2, <3>1, <3>2
  <2>3. CASE blob[d] # f
    <3>1. disk'[blob[d]] = disk[blob[d]]
      BY <1>1, <1>2, <1>4, <2>1, <2>3
    <3> QED
      BY <2>1, <3>1
  <2> QED
    BY <2>2, <2>3
<1>12. ASSUME NEW d \in Requests PROVE Hashed(d)'
  <2> SUFFICES ASSUME Completing(d)', call'[d].file \notin raced'
               PROVE  \A k \in Places : k < call'[d].at =>
                          disk'[call'[d].file][k] = Whole(call'[d].content)[k]
    BY DEF Hashed, Whole
  <2>1. d # e /\ call'[d] = call[d]
    BY <1>0, <1>3 DEF Completing
  <2>2. Completing(d) /\ Open(d) /\ call[d].file \notin raced /\ call[d].file \in Files
        /\ call[d].content \in Contents
    BY <1>1, <1>5, <2>1, Shape DEF Completing, Open
  <2>3. \A k \in Places : k < call[d].at =>
            disk[call[d].file][k] = Whole(call[d].content)[k]
    BY <1>8, <2>2 DEF Hashed
  <2>4. CASE call[d].file = f /\ i < call[d].at
    <3>1. call[d].content = c
      BY <1>2, <1>8, <2>2, <2>4 DEF Owned
    <3>2. Behind(f, i)
      BY <1>1, <2>2, <2>4, Shape DEF Behind, Completing, Places
    <3> QED
      BY <1>10, <2>1, <2>3, <2>4, <3>1, <3>2
  <2>5. CASE ~(call[d].file = f /\ i < call[d].at)
    BY <1>4, <2>1, <2>2, <2>3, <2>5
  <2> QED
    BY <2>4, <2>5
<1>13. ASSUME NEW d \in Requests PROVE Owned(d)' /\ InPlace(d)' /\ Backed(d)'
  <2>1. Open(d)' => Open(d) /\ call'[d].file = call[d].file /\ call'[d].up = call[d].up
                    /\ call'[d].content = call[d].content
    BY <1>0, <1>2, <1>3 DEF Open
  <2>2. \A b \in Requests : Open(b)' => Open(b) /\ call'[b].file = call[b].file
                                        /\ call'[b].up = call[b].up
    BY <1>0, <1>2, <1>3 DEF Open
  <2>3. Owned(d)'
    BY <1>8, <2>1, <2>2 DEF Owned
  <2>4. InPlace(d)'
    BY <1>0, <1>3, <1>8 DEF InPlace
  <2>5. Backed(d)'
    BY <1>0, <1>3, <1>8 DEF Backed, Moved, Completing
  <2> QED
    BY <2>3, <2>4, <2>5
<1> QED
  BY <1>6, <1>7, <1>11, <1>12, <1>13 DEF Inv, Moved

-----------------------------------------------------------------------------
(* One lemma for each action, or for those alike: it preserves Inv. *)

\* Nothing is uploaded, stored or open.
LEMMA InitInv == Init => Inv
<1> SUFFICES ASSUME Init PROVE Inv
  OBVIOUS
<1>1. Empty \in [Places -> Pieces]
  BY DEF Empty, Pieces
<1>2. TypeOK
  BY <1>1, Apart DEF Init, TypeOK
<1>3. \A e \in Requests : call[e].pc = "idle"
  BY Apart DEF Init
<1> QED
  BY <1>2, <1>3 DEF Init, Inv, FilesApart, Owned, InPlace, Hashed, Backed, Open, Completing

\* The requests that only ask, and those that only note what is stored.
LEMMA AsideInv ==
    ASSUME Inv, NEW e \in Requests, NEW c \in Contents,
           InitUpload(e, c) \/ AttachExisting(e) \/ HangUp(e) \/ UpsertBlob(e) \/ CreateTrack(e)
    PROVE  Inv'
<1>1. /\ TypeOK /\ rows \subseteq Contents /\ tracks \subseteq Contents
      /\ \A d \in rows \cup tracks : Moved(d)
      /\ Backed(e) /\ mixed \subseteq Requests /\ lost \subseteq Contents
  BY DEF Inv, TypeOK
<1>7. UNCHANGED <<blob, lost>> /\ \A d : Moved(d)' <=> Moved(d)
  BY DEF Moved, InitUpload, AttachExisting, HangUp, UpsertBlob, CreateTrack
<1>2. CASE InitUpload(e, c)
  <2>1. PICK pc \in {"attach", "create"} :
            /\ pc = "attach" => c \in rows
            /\ call' = [call EXCEPT ![e] = [Idle EXCEPT !.pc = pc, !.content = c]]
    BY <1>2 DEF InitUpload
  <2> DEFINE r == [Idle EXCEPT !.pc = pc, !.content = c]
  <2>2. r \in Calls /\ r.pc = pc /\ r.content = c
    BY DEF Calls, Idle
  <2> QED
    BY <1>1, <1>2, <1>7, <2>1, <2>2, QuietStep DEF Moved, InitUpload
<1>3. CASE AttachExisting(e)
  <2>1. call[e].content \in Contents /\ Moved(call[e].content)
    BY <1>1, <1>3, Shape DEF AttachExisting, Backed
  <2> QED
    BY <1>1, <1>3, <1>7, <2>1, Apart, QuietStep DEF Moved, AttachExisting, End
<1>4. CASE HangUp(e)
  BY <1>1, <1>4, <1>7, Apart, QuietStep DEF Moved, HangUp, End
<1>5. CASE UpsertBlob(e)
  <2> DEFINE r == [call[e] EXCEPT !.pc = "track"]
  <2>1. call[e].content \in Contents /\ Moved(call[e].content)
    BY <1>1, <1>5, Shape DEF UpsertBlob, Backed
  <2>2. r \in Calls /\ r.pc = "track" /\ r.content = call[e].content
    BY <1>1, <1>5 DEF UpsertBlob, TypeOK, Calls, Idle
  <2> QED
    BY <1>1, <1>5, <1>7, <2>1, <2>2, QuietStep DEF Moved, UpsertBlob
<1>6. CASE CreateTrack(e)
  <2>1. call[e].content \in Contents /\ Moved(call[e].content)
    BY <1>1, <1>6, Shape DEF CreateTrack, Backed
  <2> QED
    BY <1>1, <1>6, <1>7, <2>1, Apart, QuietStep DEF Moved, CreateTrack, End
<1> QED
  BY <1>2, <1>3, <1>4, <1>5, <1>6

\* A new upload has no file, and no request works on it yet.
LEMMA CreateUploadInv ==
    ASSUME Inv, NEW e \in Requests, CreateUpload(e)
    PROVE  Inv'
<1>1. TypeOK /\ call \in [Requests -> Calls] /\ call[e].content \in Contents
  BY Shape DEF Inv, TypeOK, CreateUpload
<1>2. \A d \in Requests : call'[d] = IF d = e THEN Idle ELSE call[d]
  BY <1>1 DEF CreateUpload, End
<1>3. CASE UNCHANGED upload
  BY <1>1, <1>3, Apart, QuietStep DEF Inv, Moved, TypeOK, CreateUpload, End
<1>4. CASE \E u \in Uploads : /\ upload[u] = NoContent
                              /\ upload' = [upload EXCEPT ![u] = call[e].content]
  <2>1. PICK u \in Uploads : /\ upload[u] = NoContent
                             /\ upload' = [upload EXCEPT ![u] = call[e].content]
    BY <1>4
  <2>2. TypeOK'
    BY <1>1, <2>1, Apart DEF TypeOK, CreateUpload, End
  <2>3. FilesApart'
    BY DEF Inv, FilesApart, CreateUpload
  <2>4. \A v \in Uploads : upload'[v] = IF v = u THEN call[e].content ELSE upload[v]
    BY <1>1, <2>1 DEF TypeOK
  <2>5. \A v \in Uploads : tmp'[v] # NoFile => upload'[v] # NoContent
    BY <1>1, <2>4, Apart DEF Inv, CreateUpload
  <2>6. ASSUME NEW d \in Requests PROVE Owned(d)' /\ InPlace(d)' /\ Hashed(d)' /\ Backed(d)'
    <3>1. CASE d = e
      BY <1>2, <3>1, Apart DEF Owned, InPlace, Hashed, Backed, Open, Completing
    <3>2. CASE d # e
      <4>1. call'[d] = call[d] /\ Owned(d) /\ InPlace(d) /\ Hashed(d) /\ Backed(d)
        BY <1>2, <3>2 DEF Inv
      <4>2. Open(d) => call[d].up \in Uploads /\ upload[call[d].up] = call[d].content
                       /\ call[d].content # NoContent
        BY <1>1, <4>1, Shape, Apart DEF Owned
      <4>3. \A b \in Requests : Open(b)' => Open(b) /\ call'[b] = call[b]
        BY <1>2, Apart DEF Open
      <4>4. Open(d)' => upload'[call'[d].up] = call'[d].content
        BY <2>1, <2>4, <4>1, <4>2 DEF Open
      <4>5. Owned(d)'
        BY <4>1, <4>3, <4>4 DEF Owned, CreateUpload
      <4> QED
        BY <4>1, <4>5 DEF InPlace, Hashed, Backed, Moved, Completing, CreateUpload
    <3> QED
      BY <3>1, <3>2
  <2> QED
    BY <2>2, <2>3, <2>5, <2>6 DEF Inv, Stored, Moved, CreateUpload
<1> QED
  BY <1>3, <1>4 DEF CreateUpload

\* The three ways bytes are written.
LEMMA CopyInv ==
    ASSUME Inv, NEW e \in Requests, CopyPart(e) \/ CopyRest(e) \/ Overrun(e)
    PROVE  Inv'
<1>1. /\ TypeOK /\ call[e].pc \in {"copy", "copying"} /\ InPlace(e)
      /\ Last \in Nat
  BY Apart DEF Inv, CopyPart, CopyRest, Overrun
<1>2. /\ call[e].at \in Places /\ call[e].at + 1 \in Places
      /\ call[e].content \in Contents /\ call[e].body \in Pieces /\ Other \in Pieces
      /\ call[e].body \in {call[e].content, Other}
  BY <1>1, Shape DEF InPlace, Places, Pieces, Open
<1>6. \A i, other : Mixes(e, i, other) => mixed' \subseteq Requests
  BY DEF Inv, TypeOK, Mixes
<1>3. CASE CopyPart(e)
  <2> DEFINE r == [call[e] EXCEPT !.pc = "copying"]
             piece == IF disk[call[e].file][call[e].at] = call[e].body THEN call[e].body ELSE Other
  <2>1. r \in Calls
    BY <1>1, GoesOn
  <2>2. /\ Write(e, call[e].at, piece) /\ Races(e, call[e].at, call[e].body = Other)
        /\ Mixes(e, call[e].at, call[e].body = Other)
        /\ call' = [call EXCEPT ![e] = r]
        /\ UNCHANGED <<upload, tmp, blob, rows, tracks, lost>>
    BY <1>1, <1>3, GoesOn DEF CopyPart
  <2>3. piece \in Pieces
    BY <1>2
  <2>4. call[e].body # Other =>
            piece = call[e].content \/ disk[call[e].file][call[e].at] # call[e].content
    BY <1>2
  <2> HIDE DEF r, piece
  <2>5. r \in {Idle, [call[e] EXCEPT !.pc = "copying"]}
    BY DEF r
  <2> QED
    BY <1>1, <1>2, <1>6, <2>1, <2>2, <2>3, <2>4, <2>5, WriteStep
<1>4. CASE CopyRest(e)
  <2>1. PICK piece \in {call[e].body, Other} :
            /\ Write(e, call[e].at, piece) /\ Races(e, call[e].at, piece = Other)
            /\ Mixes(e, call[e].at, piece = Other)
    BY <1>4 DEF CopyRest
  <2>2. /\ call' = [call EXCEPT ![e] = Idle]
        /\ UNCHANGED <<upload, tmp, blob, rows, tracks, lost>>
    BY <1>4 DEF CopyRest, End
  <2>3. piece # Other => piece = call[e].content /\ call[e].body # Other
    BY <1>2
  <2> QED
    BY <1>1, <1>2, <1>6, <2>1, <2>2, <2>3, Apart, WriteStep
<1>5. CASE Overrun(e)
  <2>1. /\ Write(e, call[e].at + 1, Other) /\ Races(e, call[e].at + 1, TRUE)
        /\ Mixes(e, call[e].at + 1, TRUE)
        /\ call' = [call EXCEPT ![e] = Idle]
        /\ UNCHANGED <<upload, tmp, blob, rows, tracks, lost>>
    BY <1>5 DEF Overrun, End
  <2> QED
    BY <1>1, <1>2, <1>6, <2>1, Apart, WriteStep
<1> QED
  BY <1>3, <1>4, <1>5

\* A file that is opened belongs to the upload: it has its name, or is new.
LEMMA OpenChunkInv ==
    ASSUME Inv, NEW e \in Requests, NEW u \in Uploads, NEW i \in Places,
           NEW b \in Contents \cup {Other}, OpenChunk(e, u, i, b)
    PROVE  Inv'
<1> DEFINE k == upload[u]
<1>1. PICK f \in Files :
        /\ IF tmp[u] = NoFile THEN f \in Free ELSE f = tmp[u]
        /\ tmp'   = [tmp EXCEPT ![u] = f]
        /\ disk'  = IF tmp[u] = NoFile THEN [disk EXCEPT ![f] = Empty] ELSE disk
        /\ raced' = IF tmp[u] = NoFile THEN raced \ {f} ELSE raced
        /\ call'  = [call EXCEPT ![e] = [pc |-> "copy", up |-> u, content |-> upload[u],
                                         file |-> f, at |-> i, body |-> b]]
  BY DEF OpenChunk
<1> DEFINE r == [pc |-> "copy", up |-> u, content |-> k, file |-> f, at |-> i, body |-> b]
<1>2. /\ TypeOK /\ FilesApart /\ call \in [Requests -> Calls]
      /\ upload[u] # NoContent /\ k \in Contents /\ i < PlanUpload(Size[k]) /\ b \in {k, Other}
      /\ UNCHANGED <<upload, blob, rows, tracks, mixed, lost>>
      /\ f # NoFile
  BY Apart DEF Inv, TypeOK, OpenChunk, Bodies
<1>3. r \in Calls /\ i \in Nat
  BY <1>2, ChunkFits DEF Calls, Places
<1>4. \A d \in Requests : call'[d] = IF d = e THEN r ELSE call[d]
  BY <1>1, <1>2
<1>5. \A v \in Uploads : tmp'[v] = IF v = u THEN f ELSE tmp[v]
  BY <1>1, <1>2 DEF TypeOK
<1>6. Empty \in [Places -> Pieces]
  BY DEF Empty, Pieces
<1>7. TypeOK'
  BY <1>1, <1>2, <1>3, <1>6 DEF TypeOK
\* Nobody else has the file: no other upload, no other content, no request of another.
<1>8. /\ \A v \in Uploads : tmp[v] = f => v = u
      /\ \A c \in Contents : blob[c] # f
      /\ \A d \in Requests : Open(d) /\ call[d].file = f => call[d].up = u
  <2>1. CASE tmp[u] = NoFile
    BY <1>1, <1>2, <2>1, FreeIsFree
  <2>2. CASE tmp[u] # NoFile
    BY <1>1, <1>2, <2>2 DEF Inv, FilesApart, Owned
  <2> QED
    BY <2>1, <2>2
<1>9. FilesApart'
  <2>1. \A v, w \in Uploads : tmp'[v] = tmp'[w] /\ tmp'[v] # NoFile => v = w
    BY <1>2, <1>5, <1>8 DEF FilesApart
  <2>2. \A v \in Uploads, c \in Contents : tmp'[v] = blob'[c] => tmp'[v] = NoFile
    BY <1>2, <1>5, <1>8 DEF FilesApart
  <2> QED
    BY <1>2, <2>1, <2>2 DEF FilesApart
\* Files others look at are as they were.
<1>10. \A g \in Files : g # f \/ tmp[u] # NoFile =>
            disk'[g] = disk[g] /\ (g \in raced' <=> g \in raced)
  BY <1>1, <1>2 DEF TypeOK
<1>11. ASSUME NEW c \in Contents, blob'[c] # NoFile PROVE Stored(c)'
  <2>1. Stored(c) /\ blob[c] \in Files /\ blob[c] # f /\ blob'[c] = blob[c]
    BY <1>2, <1>8, <1>11 DEF Inv, TypeOK
  <2>2. disk'[blob[c]] = disk[blob[c]] /\ (blob[c] \in raced' <=> blob[c] \in raced)
    BY <1>10, <2>1
  <2> QED
    BY <2>1, <2>2 DEF Stored, Whole
<1>12. ASSUME NEW d \in Requests PROVE Owned(d)'
  <2>1. ASSUME NEW a \in Requests, Open(a)'
        PROVE  \/ call'[a].file = f /\ call'[a].up = u
               \/ Open(a) /\ call'[a] = call[a] /\ Owned(a)
    BY <1>4, <2>1 DEF Open, Inv
  <2> SUFFICES ASSUME Open(d)'
               PROVE  /\ upload'[call'[d].up] = call'[d].content
                      /\ \A v \in Uploads : tmp'[v] = call'[d].file => v = call'[d].up
                      /\ \A c \in Contents : blob'[c] = call'[d].file => c = call'[d].content
                      /\ \A a \in Requests :
                            Open(a)' /\ call'[a].file = call'[d].file => call'[a].up = call'[d].up
    BY DEF Owned
  <2>2. CASE d = e
    <3>1. call'[d] = r
      BY <1>4, <2>2
    <3>2. ASSUME NEW a \in Requests, Open(a)', call'[a].file = f PROVE call'[a].up = u
      BY <1>8, <2>1, <3>2
    <3> QED
      BY <1>2, <1>5, <1>8, <3>1, <3>2
  <2>3. CASE d # e
    <3>1. Open(d) /\ call'[d] = call[d] /\ Owned(d)
      BY <1>4, <2>3 DEF Open, Inv
    <3>2. \A v \in Uploads : tmp'[v] = call[d].file => v = call[d].up
      BY <1>5, <1>8, <3>1 DEF Owned
    <3>3. ASSUME NEW a \in Requests, Open(a)', call'[a].file = call[d].file
          PROVE  call'[a].up = call[d].up
      BY <1>8, <2>1, <3>1, <3>3 DEF Owned
    <3> QED
      BY <1>2, <3>1, <3>2, <3>3 DEF Owned
  <2> QED
    BY <2>2, <2>3
<1>13. ASSUME NEW d \in Requests PROVE InPlace(d)' /\ Backed(d)'
  <2>1. CASE d = e
    BY <1>2, <1>4, <2>1 DEF InPlace, Backed, Completing
  <2>2. CASE d # e
    <3>1. call'[d] = call[d] /\ InPlace(d) /\ Backed(d)
      BY <1>4, <2>2 DEF Inv
    <3> QED
      BY <1>2, <1>5, <3>1, Shape DEF InPlace, Backed, Moved, Completing, Open
  <2> QED
    BY <2>1, <2>2
<1>14. ASSUME NEW d \in Requests PROVE Hashed(d)'
  <2>1. CASE d = e
    BY <1>4, <2>1 DEF Hashed, Completing
  <2>2. CASE d # e /\ Completing(d)
    <3>1. call'[d] = call[d] /\ Hashed(d) /\ Open(d) /\ call[d].file \in Files
      BY <1>2, <1>4, <2>2, Shape DEF Inv, Completing, Open
    <3>2. call[d].file # f \/ tmp[u] # NoFile
      BY <1>1, <1>2, FreeIsFree
    <3>3. /\ disk'[call[d].file] = disk[call[d].file]
          /\ call[d].file \in raced' <=> call[d].file \in raced
      BY <1>10, <3>1, <3>2
    <3> QED
      BY <3>1, <3>3 DEF Hashed, Completing, Whole
  <2>3. CASE d # e /\ ~Completing(d)
    BY <1>4, <2>3 DEF Hashed, Completing
  <2> QED
    BY <2>1, <2>2, <2>3
<1>15. \A v \in Uploads : tmp'[v] # NoFile => upload'[v] # NoContent
  BY <1>2, <1>5 DEF Inv
<1>16. \A c \in rows' \cup tracks' : Moved(c)'
  BY <1>2 DEF Inv, Moved
<1> QED
  BY <1>7, <1>9, <1>11, <1>12, <1>13, <1>14, <1>15, <1>16 DEF Inv

\* A completion opens the file that has the temporary name; nothing is hashed yet.
LEMMA CompleteUploadInv ==
    ASSUME Inv, NEW e \in Requests, NEW u \in Uploads, CompleteUpload(e, u)
    PROVE  Inv'
<1> DEFINE r == [Idle EXCEPT !.pc = "hash", !.up = u, !.content = upload[u], !.file = tmp[u]]
<1>1. /\ TypeOK /\ FilesApart /\ call \in [Requests -> Calls]
      /\ call' = [call EXCEPT ![e] = r]
      /\ UNCHANGED <<upload, tmp, blob, disk, rows, tracks, mixed, raced, lost>>
      /\ tmp[u] # NoFile /\ tmp[u] \in Files /\ upload[u] \in Contents
  BY DEF Inv, TypeOK, CompleteUpload
<1>2. /\ r \in Calls /\ r.pc = "hash" /\ r.up = u /\ r.content = upload[u]
      /\ r.file = tmp[u] /\ r.at = 0
  BY <1>1, Apart DEF Calls, Idle
<1> HIDE DEF r
<1>3. \A d \in Requests : call'[d] = IF d = e THEN r ELSE call[d]
  BY <1>1
<1>4. TypeOK' /\ FilesApart'
  BY <1>1, <1>2 DEF TypeOK, FilesApart
<1>5. ASSUME NEW d \in Requests PROVE Owned(d)'
  <2>1. ASSUME NEW a \in Requests, Open(a)'
        PROVE  \/ call'[a] = r
               \/ Open(a) /\ call'[a] = call[a] /\ Owned(a)
    BY <1>3, <2>1 DEF Open, Inv
  <2> SUFFICES ASSUME Open(d)'
               PROVE  /\ upload[call'[d].up] = call'[d].content
                      /\ \A v \in Uploads : tmp[v] = call'[d].file => v = call'[d].up
                      /\ \A c \in Contents : blob[c] = call'[d].file => c = call'[d].content
                      /\ \A a \in Requests :
                            Open(a)' /\ call'[a].file = call'[d].file => call'[a].up = call'[d].up
    BY <1>1 DEF Owned
  <2>2. \A a \in Requests : Open(a) /\ Owned(a) /\ call[a].file = tmp[u] => call[a].up = u
    BY DEF Owned
  <2>3. CASE call'[d] = r
    BY <1>1, <1>2, <2>1, <2>2, <2>3 DEF FilesApart
  <2>4. CASE Open(d) /\ call'[d] = call[d] /\ Owned(d)
    <3>1. ASSUME NEW a \in Requests, Open(a)', call'[a].file = call[d].file
          PROVE  call'[a].up = call[d].up
      BY <1>2, <2>1, <2>2, <2>4, <3>1 DEF Owned
    <3> QED
      BY <2>4, <3>1 DEF Owned
  <2> QED
    BY <2>1, <2>3, <2>4
<1>6. ASSUME NEW d \in Requests PROVE InPlace(d)' /\ Hashed(d)' /\ Backed(d)'
  <2>1. CASE d = e
    BY <1>1, <1>2, <1>3, <2>1 DEF InPlace, Hashed, Backed, Completing, Places
  <2>2. CASE d # e
    BY <1>1, <1>3, <2>2 DEF Inv, InPlace, Hashed, Backed, Moved, Completing
  <2> QED
    BY <2>1, <2>2
<1> QED
  BY <1>1, <1>4, <1>5, <1>6 DEF Inv, Stored, Moved

\* One more piece has been found right.
LEMMA HashPieceInv ==
    ASSUME Inv, NEW e \in Requests, HashPiece(e)
    PROVE  Inv'
<1> DEFINE k  == call[e].content
           f  == call[e].file
           n  == call[e].at
           pc == IF n = Last THEN "rename" ELSE "hash"
           r  == [call[e] EXCEPT !.pc = pc, !.at = @ + 1]
<1>1. /\ TypeOK /\ FilesApart /\ call \in [Requests -> Calls]
      /\ UNCHANGED <<upload, tmp, blob, disk, rows, tracks, mixed, raced, lost>>
      /\ call[e].pc = "hash" /\ f \in Files /\ k \in Contents /\ n \in Places
  BY Shape DEF Inv, TypeOK, HashPiece, Open
<1>2. CASE End(e)
  BY <1>1, <1>2, Apart, QuietStep DEF Inv, Moved, TypeOK, End
<1>3. CASE disk[f][n] = Whole(k)[n] /\ call' = [call EXCEPT ![e] = r]
  <2>1. call[e] \in [pc : {"hash"}, up : Uploads, content : Contents,
                     file : Files, at : Places, body : {NoContent}]
    BY <1>1 DEF Calls, Idle
  <2>2. /\ r.pc \in {"hash", "rename"} /\ r.up = call[e].up /\ r.content = k
        /\ r.file = f /\ r.at = n + 1
        /\ r \in Calls
    <3>1. Last \in Nat /\ Places = 0 .. Last
      BY Apart DEF Places
    <3>2. CASE n = Last
      <4>1. r = [call[e] EXCEPT !.pc = "rename", !.at = @ + 1]
        BY <3>2
      <4>2. r \in [pc : {"rename"}, up : Uploads, content : Contents,
                   file : Files, at : {Last + 1}, body : {NoContent}]
        BY <2>1, <3>1, <3>2, <4>1
      <4>3. r.up = call[e].up /\ r.content = k /\ r.file = f
        BY <2>1, <4>1
      <4> HIDE DEF r
      <4> QED
        BY <3>2, <4>2, <4>3 DEF Calls
    <3>3. CASE n # Last
      <4>1. r = [call[e] EXCEPT !.pc = "hash", !.at = @ + 1]
        BY <3>3
      <4>2. n + 1 \in Places /\ r.at = n + 1
        BY <1>1, <2>1, <3>1, <3>3, <4>1
      <4>3. r \in [pc : {"hash"}, up : Uploads, content : Contents,
                   file : Files, at : Places, body : {NoContent}]
        BY <2>1, <4>1, <4>2
      <4>4. r.up = call[e].up /\ r.content = k /\ r.file = f
        BY <2>1, <4>1
      <4> HIDE DEF r
      <4> QED
        BY <4>2, <4>3, <4>4 DEF Calls
    <3> QED
      BY <3>2, <3>3
  <2> HIDE DEF r
  <2>3. \A d \in Requests : call'[d] = IF d = e THEN r ELSE call[d]
    BY <1>1, <1>3
  <2>4. TypeOK' /\ FilesApart'
    BY <1>1, <1>3, <2>2 DEF TypeOK, FilesApart
  <2>5. \A d \in Requests : /\ Open(d)' <=> Open(d)
                            /\ Completing(d)' <=> Completing(d)
                            /\ call'[d].file = call[d].file /\ call'[d].up = call[d].up
                            /\ call'[d].content = call[d].content
    BY <1>1, <2>2, <2>3 DEF Open, Completing
  <2>6. ASSUME NEW d \in Requests PROVE Owned(d)' /\ InPlace(d)' /\ Backed(d)'
    <3>1. Owned(d) /\ InPlace(d) /\ Backed(d)
      BY DEF Inv
    <3>2. Owned(d)'
      BY <1>1, <2>5, <3>1 DEF Owned
    <3> QED
      BY <1>1, <2>2, <2>3, <2>5, <3>1, <3>2 DEF InPlace, Backed, Moved
  <2>7. ASSUME NEW d \in Requests PROVE Hashed(d)'
    <3>1. CASE d = e
      <4>1. /\ Hashed(e) /\ Completing(e)
            /\ call'[e].at = n + 1 /\ n \in Nat /\ \A i \in Places : i \in Nat
        BY <1>1, <2>2, <2>3, Apart DEF Inv, Completing, Places
      <4>2. ASSUME f \notin raced, NEW i \in Places, i < n + 1
            PROVE  disk[f][i] = Whole(k)[i]
        <5>1. i < n \/ i = n
          BY <4>1, <4>2
        <5> QED
          BY <1>3, <4>1, <4>2, <5>1 DEF Hashed
      <4> QED
        BY <1>1, <2>5, <3>1, <4>1, <4>2 DEF Hashed, Whole
    <3>2. CASE d # e
      BY <1>1, <2>3, <3>2 DEF Inv, Hashed, Completing, Whole
    <3> QED
      BY <3>1, <3>2
  <2> QED
    BY <1>1, <2>4, <2>6, <2>7 DEF Inv, Stored, Moved
<1> QED
  BY <1>2, <1>3 DEF HashPiece

\* What is renamed or copied was hashed to its end, or raced says so; when there is nothing
\* left to rename, the content has been moved; and what is not moved is lost.
LEMMA RenameInv ==
    ASSUME Inv, NEW e \in Requests, Rename(e)
    PROVE  Inv'
<1> DEFINE u == call[e].up
           k == call[e].content
           f == call[e].file
           r == [Idle EXCEPT !.pc = "upsert", !.content = k]
<1>1. /\ TypeOK /\ FilesApart /\ call \in [Requests -> Calls]
      /\ UNCHANGED <<upload, rows, tracks, mixed>>
      /\ call' = [call EXCEPT ![e] = r]
      /\ call[e].pc = "rename" /\ f \in Files /\ k \in Contents /\ u \in Uploads
      /\ call[e].at = Last + 1 /\ Last \in Nat
      /\ Owned(e) /\ Hashed(e) /\ Backed(e) /\ Open(e) /\ Completing(e) /\ upload[u] = k
  BY Shape, Apart DEF Inv, TypeOK, Rename, Open, Completing, Owned
<1>2. r \in Calls /\ r.pc = "upsert" /\ r.content = k
  BY <1>1 DEF Calls, Idle
<1>3. \A d \in Requests : call'[d] = IF d = e THEN r ELSE call[d]
  BY <1>1
<1> HIDE DEF r
<1>6. f \notin raced => disk[f] = Whole(k)
  <2> SUFFICES ASSUME f \notin raced PROVE disk[f] = Whole(k)
    OBVIOUS
  <2>1. \A i \in Places : disk[f][i] = Whole(k)[i]
    BY <1>1 DEF Hashed, Places
  <2>2. disk[f] \in [Places -> Pieces] /\ Whole(k) \in [Places -> Pieces]
    BY <1>1 DEF TypeOK, Whole, Pieces
  <2> QED
    BY <2>1, <2>2
<1>7. lost' = IF tmp[u] # NoFile /\ blob'[k] = NoFile THEN lost \cup {k} ELSE lost \ {k}
  BY DEF Rename
<1>4. CASE WriteFile(k, tmp[u], tmp[u] = f) /\ UNCHANGED tmp
  <2>1. lost' \subseteq Contents
    BY <1>1, <1>7 DEF TypeOK
  <2>2. (blob'[k] # NoFile \/ k \in lost') /\ ((\A c \in Contents \ {k} : blob'[c] = blob[c])
                         => \A c \in Contents : Moved(c) => Moved(c)')
    <3>1. blob'[k] # NoFile \/ tmp[u] # NoFile
      BY <1>1, <1>4 DEF Backed, WriteFile, TypeOK, Free
    <3>2. blob'[k] # NoFile \/ k \in lost'
      BY <1>7, <3>1
    <3> QED
      BY <1>7, <3>2 DEF Moved
  <2>3. CASE UNCHANGED <<blob, disk, raced>>
    <3>1. \A c \in rows' \cup tracks' : Moved(c)'
      BY <1>1, <2>2, <2>3 DEF Inv, TypeOK
    <3> QED
      BY <1>1, <1>2, <1>4, <2>1, <2>2, <2>3, <3>1, QuietStep DEF Inv, TypeOK
  <2>4. ASSUME NEW g \in Files, NEW copy,
               IF blob[k] = NoFile THEN g \in Free ELSE g = blob[k],
               copy \in [Places -> Pieces],
               blob' = [blob EXCEPT ![k] = g], disk' = [disk EXCEPT ![g] = copy],
               raced' = raced \cup {g} \/ (copy = Whole(k) /\ raced' = raced \ {g})
        PROVE  Inv'
    <3>1. g # NoFile /\ \A c \in Contents : blob'[c] = IF c = k THEN g ELSE blob[c]
      BY <1>1, <2>4, Apart DEF TypeOK
    <3>2. /\ \A v \in Uploads : tmp[v] # g
          /\ \A c \in Contents \ {k} : blob[c] # g
          /\ \A d \in Requests : Open(d) /\ call[d].file = g => call[d].content = k
      <4>1. CASE blob[k] = NoFile
        BY <1>1, <2>4, <4>1, FreeIsFree
      <4>2. CASE blob[k] # NoFile
        BY <1>1, <2>4, <3>1, <4>2 DEF Inv, FilesApart, Owned
      <4> QED
        BY <4>1, <4>2
    \* A file that did not race is as it was, or is the copy, which is whole.
    <3>3. \A h \in Files : h \notin raced' =>
              IF h = g THEN disk'[h] = Whole(k) ELSE h \notin raced /\ disk'[h] = disk[h]
      BY <1>1, <2>4 DEF TypeOK
    <3>4. TypeOK'
      BY <1>1, <1>2, <1>4, <2>1, <2>4 DEF TypeOK
    <3>5. FilesApart'
      <4>1. \A c, d \in Contents : blob'[c] = blob'[d] /\ blob'[c] # NoFile => c = d
        BY <1>1, <3>1, <3>2 DEF FilesApart
      <4>2. \A v \in Uploads, c \in Contents : tmp'[v] = blob'[c] => tmp'[v] = NoFile
        BY <1>1, <1>4, <3>1, <3>2 DEF FilesApart
      <4> QED
        BY <1>1, <1>4, <4>1, <4>2 DEF FilesApart
    <3>6. ASSUME NEW c \in Contents, blob'[c] # NoFile PROVE Stored(c)'
      <4>1. Whole(c)' = Whole(c)
        BY DEF Whole
      <4>2. CASE c = k
        BY <3>1, <3>3, <3>6, <4>1, <4>2 DEF Stored
      <4>3. CASE c # k
        <5>1. Stored(c) /\ blob'[c] = blob[c] /\ blob[c] \in Files /\ blob[c] # g
          BY <1>1, <3>1, <3>2, <3>6, <4>3 DEF Inv, TypeOK
        <5> QED
          BY <3>3, <4>1, <5>1 DEF Stored
      <4> QED
        BY <4>2, <4>3
    <3>7. \A d \in Requests : Open(d)' => d # e /\ Open(d) /\ call'[d] = call[d] /\ Owned(d)
      BY <1>2, <1>3 DEF Inv, Open
    <3>8. ASSUME NEW d \in Requests PROVE Owned(d)'
      <4> SUFFICES ASSUME Open(d)'
                   PROVE  /\ upload[call[d].up] = call[d].content
                          /\ \A v \in Uploads : tmp[v] = call[d].file => v = call[d].up
                          /\ \A c \in Contents : blob'[c] = call[d].file => c = call[d].content
                          /\ \A a \in Requests :
                                Open(a)' /\ call[a].file = call[d].file => call[a].up = call[d].up
        BY <1>1, <1>4, <3>7 DEF Owned
      <4> QED
        BY <3>1, <3>2, <3>7 DEF Owned
    <3>9. ASSUME NEW d \in Requests PROVE Hashed(d)'
      <4> SUFFICES ASSUME Completing(d)', call'[d].file \notin raced', NEW i \in Places,
                          i < call'[d].at
                   PROVE  disk'[call'[d].file][i] = Whole(call'[d].content)[i]
        BY DEF Hashed, Whole
      <4>1. /\ call'[d] = call[d] /\ Completing(d) /\ Open(d) /\ Hashed(d)
            /\ call[d].file \in Files
        BY <1>1, <1>2, <1>3, Shape DEF Inv, Completing, Open
      <4> QED
        BY <3>2, <3>3, <4>1 DEF Hashed
    <3>10. ASSUME NEW d \in Requests PROVE InPlace(d)' /\ Backed(d)'
      <4>1. CASE d = e
        BY <1>2, <1>3, <2>2, <4>1 DEF InPlace, Backed, Moved, Completing
      <4>2. CASE d # e
        <5>1. call'[d] = call[d] /\ InPlace(d) /\ Backed(d)
          BY <1>3, <4>2 DEF Inv
        <5>2. \A c \in Contents : (Moved(c) => Moved(c)') /\ (blob[c] # NoFile => blob'[c] # NoFile)
          BY <2>2, <3>1
        <5>3. /\ call[d].pc \in {"attach", "upsert", "track"} => call[d].content \in Contents
              /\ Completing(d) => call[d].content \in Contents
          BY <1>1, Shape DEF Completing, Open
        <5> QED
          BY <1>4, <5>1, <5>2, <5>3 DEF InPlace, Backed, Completing
      <4> QED
        BY <4>1, <4>2
    <3>11. \A c \in rows' \cup tracks' : Moved(c)'
      BY <1>1, <2>2, <3>1 DEF Inv, TypeOK
    <3> QED
      BY <1>1, <1>4, <3>4, <3>5, <3>6, <3>8, <3>9, <3>10, <3>11 DEF Inv
  <2>5. CASE \E g \in Files, n \in 0 .. Last + 1 :
               LET source == IF tmp[u] = NoFile THEN Empty ELSE disk[tmp[u]]
                   copy   == [i \in Places |-> IF i < n THEN source[i] ELSE Hole]
               IN  /\ IF blob[k] = NoFile THEN g \in Free ELSE g = blob[k]
                   /\ blob'  = [blob EXCEPT ![k] = g]
                   /\ disk'  = [disk EXCEPT ![g] = copy]
                   /\ raced' = IF tmp[u] = f /\ tmp[u] \notin raced /\ copy = source
                               THEN raced \ {g} ELSE raced \cup {g}
    <3> DEFINE source  == IF tmp[u] = NoFile THEN Empty ELSE disk[tmp[u]]
               copy(n) == [i \in Places |-> IF i < n THEN source[i] ELSE Hole]
    <3>1. PICK g \in Files, n \in 0 .. Last + 1 :
            /\ IF blob[k] = NoFile THEN g \in Free ELSE g = blob[k]
            /\ blob'  = [blob EXCEPT ![k] = g]
            /\ disk'  = [disk EXCEPT ![g] = copy(n)]
            /\ raced' = IF tmp[u] = f /\ tmp[u] \notin raced /\ copy(n) = source
                        THEN raced \ {g} ELSE raced \cup {g}
      BY <2>5
    <3>2. source \in [Places -> Pieces]
      BY <1>1 DEF TypeOK, Empty, Pieces
    <3>3. copy(n) \in [Places -> Pieces]
      BY <3>2 DEF Pieces
    <3>4. raced' = raced \cup {g} \/ (copy(n) = Whole(k) /\ raced' = raced \ {g})
      <4>1. tmp[u] = f /\ tmp[u] \notin raced => source = Whole(k)
        BY <1>1, <1>6, Apart
      <4> QED
        BY <3>1, <4>1
    <3> HIDE DEF copy
    <3> QED
      BY <2>4, <3>1, <3>3, <3>4
  <2> QED
    BY <1>4, <2>3, <2>5 DEF WriteFile
<1>5. CASE /\ tmp[u] # NoFile
           /\ blob'  = [blob EXCEPT ![k] = tmp[u]]
           /\ tmp'   = [tmp EXCEPT ![u] = NoFile]
           /\ raced' = IF tmp[u] # f THEN raced \cup {tmp[u]} ELSE raced
           /\ UNCHANGED disk
  <2> DEFINE g == tmp[u]
  <2>1. /\ g \in Files /\ g # NoFile
        /\ blob'  = [blob EXCEPT ![k] = g]
        /\ tmp'   = [tmp EXCEPT ![u] = NoFile]
        /\ raced' = IF g # f THEN raced \cup {g} ELSE raced
        /\ disk'  = disk
        /\ lost'  = lost \ {k}
    BY <1>1, <1>5, <1>7, Apart DEF TypeOK
  <2>2. /\ \A c \in Contents : blob'[c] = IF c = k THEN g ELSE blob[c]
        /\ \A v \in Uploads : tmp'[v] = IF v = u THEN NoFile ELSE tmp[v]
    BY <1>1, <2>1 DEF TypeOK
  <2>3. TypeOK'
    BY <1>1, <1>2, <2>1 DEF TypeOK
  <2>4. FilesApart'
    <3>1. \A c, d \in Contents : blob'[c] = blob'[d] /\ blob'[c] # NoFile => c = d
      BY <1>1, <2>1, <2>2 DEF FilesApart
    <3>2. \A v, w \in Uploads : tmp'[v] = tmp'[w] /\ tmp'[v] # NoFile => v = w
      BY <1>1, <2>2 DEF FilesApart
    <3>3. \A v \in Uploads, c \in Contents : tmp'[v] = blob'[c] => tmp'[v] = NoFile
      BY <1>1, <2>1, <2>2 DEF FilesApart
    <3> QED
      BY <3>1, <3>2, <3>3 DEF FilesApart
  <2>5. g \notin raced' => disk[g] = Whole(k)
    BY <1>6, <2>1
  <2>6. ASSUME NEW c \in Contents, blob'[c] # NoFile PROVE Stored(c)'
    <3>1. Whole(c)' = Whole(c)
      BY DEF Whole
    <3>2. CASE c = k
      BY <2>1, <2>2, <2>5, <3>1, <3>2 DEF Stored
    <3>3. CASE c # k
      BY <2>1, <2>2, <2>6, <3>1, <3>3 DEF Inv, Stored
    <3> QED
      BY <3>2, <3>3
  <2>7. ASSUME NEW d \in Requests PROVE Owned(d)'
    <3>1. \A a \in Requests : Open(a)' => a # e /\ Open(a) /\ call'[a] = call[a] /\ Owned(a)
      BY <1>2, <1>3 DEF Inv, Open
    <3> SUFFICES ASSUME Open(d)'
                 PROVE  /\ upload[call[d].up] = call[d].content
                        /\ \A v \in Uploads : tmp'[v] = call[d].file => v = call[d].up
                        /\ \A c \in Contents : blob'[c] = call[d].file => c = call[d].content
                        /\ \A a \in Requests :
                              Open(a)' /\ call[a].file = call[d].file => call[a].up = call[d].up
      BY <1>1, <3>1 DEF Owned
    <3>2. call[d].file \in Files /\ call[d].file # NoFile
      BY <1>1, <3>1, Shape, Apart
    <3>3. \A c \in Contents : blob'[c] = call[d].file => c = call[d].content
      <4>1. g = call[d].file => call[d].up = u
        BY <1>1, <3>1 DEF Owned
      <4> QED
        BY <1>1, <2>2, <3>1, <4>1 DEF Owned
    <3> QED
      BY <2>2, <3>1, <3>2, <3>3 DEF Owned
  <2>11. \A c \in Contents : Moved(c) => Moved(c)'
    BY <2>1, <2>2 DEF Moved
  <2>8. ASSUME NEW d \in Requests PROVE InPlace(d)' /\ Hashed(d)' /\ Backed(d)'
    <3>1. CASE d = e
      <4>1. k' = k /\ blob'[k] # NoFile
        BY <1>1, <1>2, <1>3, <2>1, <2>2
      <4> QED
        BY <1>2, <1>3, <3>1, <4>1 DEF InPlace, Hashed, Backed, Moved, Completing
    <3>2. CASE d # e
      <4>1. /\ call'[d] = call[d] /\ Owned(d) /\ InPlace(d) /\ Hashed(d) /\ Backed(d)
        BY <1>3, <3>2 DEF Inv
      <4>2. InPlace(d)' /\ Hashed(d)'
        BY <2>1, <4>1 DEF InPlace, Hashed, Completing, Whole
      <4>3. Completing(d) => Open(d) /\ call[d].up \in Uploads /\ call[d].content \in Contents
        BY <1>1, Shape DEF Completing, Open
      <4>4. Completing(d) /\ call[d].up = u => call[d].content = k
        BY <1>1, <4>1, <4>3 DEF Owned
      <4>5. call[d].pc \in {"attach", "upsert", "track"} => call[d].content \in Contents
        BY <1>1, Shape
      <4>6. Backed(d)'
        BY <2>1, <2>2, <2>11, <4>1, <4>3, <4>4, <4>5 DEF Backed, Completing
      <4> QED
        BY <4>2, <4>6
    <3> QED
      BY <3>1, <3>2
  <2>9. \A c \in rows' \cup tracks' : Moved(c)'
    BY <1>1, <2>11 DEF Inv, TypeOK
  <2>10. \A v \in Uploads : tmp'[v] # NoFile => upload'[v] # NoContent
    BY <1>1, <2>2 DEF Inv
  <2> QED
    BY <2>3, <2>4, <2>6, <2>7, <2>8, <2>9, <2>10 DEF Inv
<1> QED
  BY <1>4, <1>5 DEF Rename

\* Every request is gone.
LEMMA CrashInv == Inv /\ Crash => Inv'
<1> SUFFICES ASSUME Inv, Crash PROVE Inv'
  OBVIOUS
<1>1. \A e \in Requests : call'[e] = Idle
  BY DEF Crash
<1>2. TypeOK' /\ FilesApart'
  BY Apart DEF Inv, TypeOK, FilesApart, Crash
<1> QED
  BY <1>1, <1>2, Apart
     DEF Inv, Stored, Moved, Crash, Owned, InPlace, Hashed, Backed, Open, Completing, Whole

\* Every step preserves the invariant.
LEMMA StepInv == Inv /\ [Next]_vars => Inv'
<1> SUFFICES ASSUME Inv, [Next]_vars PROVE Inv'
  OBVIOUS
<1>1. CASE UNCHANGED vars
  BY <1>1 DEF vars, Inv, TypeOK, FilesApart, Stored, Owned, InPlace, Hashed, Backed, Open,
              Completing, Whole, Moved
<1>2. ASSUME NEW e \in Requests, NEW c \in Contents, InitUpload(e, c) PROVE Inv'
  BY <1>2, AsideInv
<1>3. ASSUME NEW e \in Requests,
             AttachExisting(e) \/ HangUp(e) \/ UpsertBlob(e) \/ CreateTrack(e)
      PROVE  Inv'
  <2>1. call[e].content \in Contents
    BY <1>3, Shape DEF Inv, AttachExisting, HangUp, UpsertBlob, CreateTrack, Open
  <2> QED
    BY <1>3, <2>1, AsideInv
<1>4. ASSUME NEW e \in Requests, CreateUpload(e) PROVE Inv'
  BY <1>4, CreateUploadInv
<1>5. ASSUME NEW e \in Requests, NEW u \in Uploads, NEW i \in Places,
             NEW b \in Contents \cup {Other}, OpenChunk(e, u, i, b)
      PROVE  Inv'
  BY <1>5, OpenChunkInv
<1>6. ASSUME NEW e \in Requests, CopyPart(e) \/ CopyRest(e) \/ Overrun(e) PROVE Inv'
  BY <1>6, CopyInv
<1>7. ASSUME NEW e \in Requests, NEW u \in Uploads, CompleteUpload(e, u) PROVE Inv'
  BY <1>7, CompleteUploadInv
<1>8. ASSUME NEW e \in Requests, HashPiece(e) PROVE Inv'
  BY <1>8, HashPieceInv
<1>9. ASSUME NEW e \in Requests, Rename(e) PROVE Inv'
  BY <1>9, RenameInv
<1>10. CASE Crash
  BY <1>10, CrashInv
<1> QED
  BY <1>1, <1>2, <1>3, <1>4, <1>5, <1>6, <1>7, <1>8, <1>9, <1>10 DEF Next

-----------------------------------------------------------------------------
(* Theorems *)

\* The inductive invariant holds for any contents, uploads, files, requests and faults.
THEOREM Invariance == Spec => []Inv
<1>1. Init => Inv
  BY InitInv
<1>2. Inv /\ [Next]_vars => Inv'
  BY StepInv
<1> QED
  BY <1>1, <1>2, PTL DEF Spec

\* Names, files, rows and requests are what TypeOK says.
THEOREM TypeCorrect == Spec => []TypeOK
<1>1. Inv => TypeOK
  BY DEF Inv
<1> QED
  BY <1>1, Invariance, PTL

\* What asset_blobs and tracks say is in the store is there, every byte of it, whatever is
\* sent twice and whichever queries fail - unless the file system refused the move and the
\* copy too, or cut it short, which CompleteUpload does not look at, or one of the two races
\* hit the file.
THEOREM StoreIsHonest == Spec => []StoredIsDeclared
<1>1. Inv => StoredIsDeclared
  BY DEF Inv, TypeOK, StoredIsDeclared, Moved
<1> QED
  BY <1>1, Invariance, PTL

\* Uploads do not share files with one another nor with the store.
THEOREM UploadsAreApart == Spec => []FilesApart
<1>1. Inv => FilesApart
  BY DEF Inv
<1> QED
  BY <1>1, Invariance, PTL

\* What one step does to a piece that has arrived.
Progress(u, i) ==
    tmp[u] # NoFile /\ tmp'[u] = tmp[u] /\ disk[tmp[u]][i] = upload[u] =>
        \/ disk'[tmp[u]][i] = upload[u]
        \/ \E e \in Requests :
                /\ call[e].pc \in {"copy", "copying"} /\ call[e].file = tmp[u]
                /\ \/ call[e].body # upload[u]
                   \/ "body" \in Faults /\ call[e].at = i - 1

\* A body that does not stray writes what is there already.
LEMMA CopyProgress ==
    ASSUME Inv, NEW e \in Requests, CopyPart(e) \/ CopyRest(e) \/ Overrun(e),
           NEW u \in Uploads, NEW i \in Places
    PROVE  Progress(u, i)
<1> DEFINE f == call[e].file
<1>1. /\ TypeOK /\ disk \in [Files -> [Places -> Pieces]] /\ f \in Files
      /\ call[e].pc \in {"copy", "copying"} /\ call[e].at \in Int
  <2>1. TypeOK /\ call[e].pc \in {"copy", "copying"} /\ Last \in Nat
    BY Apart DEF Inv, CopyPart, CopyRest, Overrun
  <2>2. f \in Files /\ call[e].at \in 0 .. Last - 1
    BY <2>1, Shape DEF Open
  <2> QED
    BY <2>1, <2>2 DEF TypeOK
<1> SUFFICES ASSUME disk[tmp[u]][i] = upload[u], tmp[u] = f, tmp[u] # NoFile,
                    call[e].body = upload[u],
                    ~("body" \in Faults /\ call[e].at = i - 1)
             PROVE  disk'[f][i] = upload[u]
  <2>1. CASE tmp[u] # NoFile /\ tmp[u] # f
    <3>1. disk'[tmp[u]] = disk[tmp[u]]
      BY <1>1, <2>1 DEF TypeOK, CopyPart, CopyRest, Overrun, Write
    <3> QED
      BY <3>1 DEF Progress
  <2>2. CASE tmp[u] = f
    BY <1>1, <2>2 DEF Progress
  <2> QED
    BY <2>1, <2>2 DEF Progress
<1>2. CASE CopyPart(e) \/ CopyRest(e)
  <2>1. call[e].at = i \/ disk'[f][i] = disk[f][i]
    BY <1>1, <1>2 DEF CopyPart, CopyRest, Write
  <2>2. CASE call[e].at = i
    BY <1>1, <1>2, <2>2 DEF CopyPart, CopyRest, Write
  <2> QED
    BY <2>1, <2>2
<1>3. CASE Overrun(e)
  <2>1. call[e].at + 1 # i
    BY <1>1, <1>3 DEF Overrun, Places
  <2> QED
    BY <1>1, <1>3, <2>1 DEF Overrun, Write
<1> QED
  BY <1>2, <1>3

\* Nothing else writes to a file with a temporary name.
LEMMA StepProgress ==
    ASSUME Inv, [Next]_vars, NEW u \in Uploads, NEW i \in Places
    PROVE  Progress(u, i)
<1>1. CASE UNCHANGED disk
  BY <1>1 DEF Progress
<1>2. ASSUME NEW e \in Requests, NEW v \in Uploads, NEW j \in Places,
             NEW b \in Contents \cup {Other}, OpenChunk(e, v, j, b)
      PROVE  Progress(u, i)
  <2>1. PICK f \in Files :
          /\ tmp[v] = NoFile => f \in Free
          /\ disk' = IF tmp[v] = NoFile THEN [disk EXCEPT ![f] = Empty] ELSE disk
    BY <1>2 DEF OpenChunk
  <2>2. CASE tmp[v] = NoFile
    <3>1. tmp[u] # f
      BY <2>1, <2>2, FreeIsFree DEF Inv
    <3>2. tmp[u] # NoFile => disk'[tmp[u]] = disk[tmp[u]]
      BY <2>1, <2>2, <3>1 DEF Inv, TypeOK
    <3> QED
      BY <3>2 DEF Progress
  <2>3. CASE tmp[v] # NoFile
    BY <1>1, <2>1, <2>3
  <2> QED
    BY <2>2, <2>3
<1>3. ASSUME NEW e \in Requests, CopyPart(e) \/ CopyRest(e) \/ Overrun(e)
      PROVE  Progress(u, i)
  BY <1>3, CopyProgress
<1>4. ASSUME NEW e \in Requests, Rename(e) PROVE Progress(u, i)
  <2>1. call[e].content \in Contents
    BY <1>4, Shape DEF Inv, Rename, Open
  <2>2. \/ UNCHANGED disk
        \/ \E g, copy : /\ g \in Free \/ g = blob[call[e].content]
                        /\ disk' = [disk EXCEPT ![g] = copy]
    BY <1>4 DEF Rename, WriteFile
  <2>3. CASE UNCHANGED disk
    BY <1>1, <2>3
  <2>4. ASSUME NEW g, NEW copy, g \in Free \/ g = blob[call[e].content],
               disk' = [disk EXCEPT ![g] = copy]
        PROVE  Progress(u, i)
    <3>1. tmp[u] # NoFile => tmp[u] \in Files /\ tmp[u] # g
      BY <2>1, <2>4, FreeIsFree DEF Inv, TypeOK, FilesApart
    <3>2. tmp[u] # NoFile => disk'[tmp[u]] = disk[tmp[u]]
      BY <2>4, <3>1 DEF Inv, TypeOK
    <3> QED
      BY <3>2 DEF Progress
  <2> QED
    BY <2>2, <2>3, <2>4
<1>5. CASE Crash
  BY <1>1, <1>5 DEF Crash
<1> QED
  BY <1>1, <1>2, <1>3, <1>4, <1>5
     DEF Next, vars, InitUpload, AttachExisting, CreateUpload, HangUp, CompleteUpload,
         HashPiece, UpsertBlob, CreateTrack

\* Sending chunks again, in any order, twice at a time or in part, loses nothing of what has
\* arrived.
THEOREM ProgressIsKept == Spec => RetriesKeepProgress
<1>1. Inv /\ [Next]_vars =>
        [\A u \in Uploads, i \in Places :
            tmp[u] # NoFile /\ tmp'[u] = tmp[u] /\ disk[tmp[u]][i] = upload[u] =>
                \/ disk'[tmp[u]][i] = upload[u]
                \/ \E e \in Requests :
                        /\ call[e].pc \in {"copy", "copying"} /\ call[e].file = tmp[u]
                        /\ \/ call[e].body # upload[u]
                           \/ "body" \in Faults /\ call[e].at = i - 1]_vars
  BY StepProgress DEF Progress
<1> QED
  BY <1>1, Invariance, PTL DEF Spec, RetriesKeepProgress
=============================================================================
