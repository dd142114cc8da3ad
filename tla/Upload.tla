-------------------------------- MODULE Upload --------------------------------
(***************************************************************************)
(* Uploading a track in chunks (handler/track.go, service/upload.go):      *)
(* InitUpload, UploadChunk and CompleteUpload over one temporary file for  *)
(* each upload and one stored file, a blob, for each content.              *)
(*                                                                         *)
(* Nothing orders the requests of an upload.  A chunk's handler keeps its  *)
(* file open while the body arrives, and what it still writes lands in     *)
(* that file wherever CompleteUpload has moved it meanwhile; HashFile      *)
(* reads the file piece by piece, and the rename that follows moves        *)
(* whatever file then has the name.                                        *)
(*                                                                         *)
(* A file is modelled by what it holds at the place of each chunk: the     *)
(* piece of a content that belongs there, other bytes or part of them, or  *)
(* nothing.  Two contents have the same hash and size only if they are the *)
(* same.                                                                   *)
(***************************************************************************)
EXTENDS Integers, FiniteSets

ChunkBytes == 5 * 1024 * 1024
MaxUpload  == 500 * 1024 * 1024

CONSTANTS
    Contents,       \* the audio files people upload, named by their hash
    Size,           \* how many bytes each has
    Last,           \* the last place of a file: past the end of every content
    Uploads,        \* rows of upload_sessions
    Files,          \* files the disk has room for: a bound
    Requests,       \* requests being handled
    Faults          \* any of "db", "crash", "disk" (the file system refuses a call) and
                    \* "body" (other bytes are sent than declared)

\* PlanUpload, for a size it accepts: the number of chunks.
PlanUpload(size) == (size + ChunkBytes - 1) \div ChunkBytes

NoContent == "none"
NoUpload  == "no upload"
NoFile    == "no file"
Other     == "other"
Hole      == "hole"

ASSUME UploadAssumption ==
    /\ Size \in [Contents -> 1 .. MaxUpload]
    /\ Last \in Nat
    /\ \A c \in Contents : Size[c] <= Last * ChunkBytes
    /\ NoUpload \notin Uploads
    /\ {NoContent, Other, Hole} \cap Contents = {}
    /\ NoFile \notin Files
    /\ IsFiniteSet(Files)
    /\ Faults \subseteq {"db", "crash", "body", "disk"}

VARIABLES
    upload,         \* the content each upload declared
    tmp,            \* the file each upload's temporary name leads to
    blob,           \* the file each content's name in the store leads to
    disk,           \* what the files hold
    rows,           \* contents with a row in asset_blobs
    tracks,         \* contents with a track
    call,           \* what each request is doing
    mixed,          \* requests at whose place other bytes than theirs came between
    raced,          \* history: files stored without being what was hashed
    lost            \* history: contents whose file was to be stored, and none is

vars == <<upload, tmp, blob, disk, rows, tracks, call, mixed, raced, lost>>

Places == 0 .. Last
Pieces == Contents \cup {Other, Hole}

Empty == [i \in Places |-> Hole]

\* The file a content is, hashed and measured.
Whole(c) == [i \in Places |-> IF i * ChunkBytes < Size[c] THEN c ELSE Hole]

Idle == [pc |-> "idle", up |-> NoUpload, content |-> NoContent, file |-> NoFile,
         at |-> 0, body |-> NoContent]

Init ==
    /\ upload = [u \in Uploads |-> NoContent]
    /\ tmp    = [u \in Uploads |-> NoFile]
    /\ blob   = [c \in Contents |-> NoFile]
    /\ disk   = [f \in Files |-> Empty]
    /\ rows   = {}
    /\ tracks = {}
    /\ call   = [e \in Requests |-> Idle]
    /\ mixed  = {}
    /\ raced  = {}
    /\ lost   = {}

\* Files with a name, or open.
InUse ==
    {tmp[u] : u \in Uploads} \cup {blob[c] : c \in Contents} \cup {call[e].file : e \in Requests}

Free == Files \ InUse

DbFails == "db" \in Faults

End(e) == call' = [call EXCEPT ![e] = Idle]

-----------------------------------------------------------------------------
(* InitUpload *)

\* BlobBySHA; when it fails, the content is taken for a new one.
InitUpload(e, c) ==
    /\ call[e].pc = "idle"
    /\ \E pc \in {"attach", "create"} :
        /\ pc = "attach" => c \in rows
        /\ pc = "create" => c \notin rows \/ DbFails
        /\ call' = [call EXCEPT ![e] = [Idle EXCEPT !.pc = pc, !.content = c]]
    /\ UNCHANGED <<upload, tmp, blob, disk, rows, tracks, mixed, raced, lost>>

\* attachExisting: a track on the stored file, and its job (see Transcode).  No error is
\* looked at.
AttachExisting(e) ==
    /\ call[e].pc = "attach"
    /\ \/ tracks' = tracks \cup {call[e].content}
       \/ DbFails /\ UNCHANGED tracks
    /\ End(e)
    /\ UNCHANGED <<upload, tmp, blob, disk, rows, mixed, raced, lost>>

\* A row, and with it a temporary name of its own.
CreateUpload(e) ==
    /\ call[e].pc = "create"
    /\ \/ \E u \in Uploads :
            /\ upload[u] = NoContent
            /\ upload' = [upload EXCEPT ![u] = call[e].content]
       \/ /\ DbFails \/ \A u \in Uploads : upload[u] # NoContent
          /\ UNCHANGED upload
    /\ End(e)
    /\ UNCHANGED <<tmp, blob, disk, rows, tracks, mixed, raced, lost>>

-----------------------------------------------------------------------------
(* UploadChunk *)

\* A body that is sent is of the content declared, unless the file changed or the client
\* is mistaken.
Bodies(u) == {upload[u]} \cup (IF "body" \in Faults THEN {Other} ELSE {})

\* Faulty variant, for the mutation runs only: the file is truncated when it is opened.
OpenChunkTruncates(e, u, i, b) ==
    /\ call[e].pc = "idle"
    /\ upload[u] # NoContent /\ i < PlanUpload(Size[upload[u]])
    /\ b \in Bodies(u)
    /\ \E f \in Files :
        /\ IF tmp[u] = NoFile THEN f \in Free ELSE f = tmp[u]
        /\ tmp'   = [tmp EXCEPT ![u] = f]
        /\ disk'  = [disk EXCEPT ![f] = Empty]
        /\ raced' = IF tmp[u] = NoFile THEN raced \ {f} ELSE raced
        /\ call'  = [call EXCEPT ![e] = [pc |-> "copy", up |-> u, content |-> upload[u],
                                         file |-> f, at |-> i, body |-> b]]
    /\ UNCHANGED <<upload, blob, rows, tracks, mixed, lost>>
\* The index is checked, the file opened, or created when its name leads nowhere - before
\* the first chunk, and again after CompleteUpload took it away.
OpenChunk(e, u, i, b) ==
    /\ call[e].pc = "idle"
    /\ upload[u] # NoContent /\ i < PlanUpload(Size[upload[u]])
    /\ b \in Bodies(u)
    /\ \E f \in Files :
        /\ IF tmp[u] = NoFile THEN f \in Free ELSE f = tmp[u]
        /\ tmp'   = [tmp EXCEPT ![u] = f]
        /\ disk'  = IF tmp[u] = NoFile THEN [disk EXCEPT ![f] = Empty] ELSE disk
        /\ raced' = IF tmp[u] = NoFile THEN raced \ {f} ELSE raced
        /\ call'  = [call EXCEPT ![e] = [pc |-> "copy", up |-> u, content |-> upload[u],
                                         file |-> f, at |-> i, body |-> b]]
    /\ UNCHANGED <<upload, blob, rows, tracks, mixed, lost>>

\* The file has been stored, or the place has been hashed by a completion that is not done.
Behind(f, i) ==
    \/ \E c \in Contents : blob[c] = f
    \/ \E e \in Requests : call[e].pc \in {"hash", "rename"} /\ call[e].file = f /\ call[e].at > i

\* Bytes are written at place i of the file the request has open.
Write(e, i, piece) == disk' = [disk EXCEPT ![call[e].file][i] = piece]

\* Other bytes than it sends itself, at a place where a chunk is being copied.
Mixes(e, i, other) ==
    mixed' = (mixed \ {e}) \cup
        {d \in Requests \ {e} : /\ other /\ call[d].pc = "copying" /\ call[d].body # Other
                               /\ call[d].file = call[e].file /\ call[d].at = i}

\* Bytes that are not the declared ones, behind a completion's back.
Races(e, i, other) ==
    raced' = IF other /\ Behind(call[e].file, i) THEN raced \cup {call[e].file} ELSE raced

\* Some of the body, which may be all that ever arrives.  The same bytes over themselves
\* leave them as they are.
CopyPart(e) ==
    /\ call[e].pc = "copy"
    /\ LET c == call[e] IN
        /\ Write(e, c.at, IF disk[c.file][c.at] = c.body THEN c.body ELSE Other)
        /\ Races(e, c.at, c.body = Other)
        /\ Mixes(e, c.at, c.body = Other)
    /\ call' = [call EXCEPT ![e].pc = "copying"]
    /\ UNCHANGED <<upload, tmp, blob, rows, tracks, lost>>

\* The rest of it, which covers all the other bytes that came between, or not.  What
\* MarkChunk then notes, nobody reads.
CopyRest(e) ==
    /\ call[e].pc = "copying"
    /\ LET c == call[e] IN
        \E piece \in {c.body, Other} :
            /\ piece = c.body \/ (e \in mixed /\ disk[c.file][c.at] # c.body)
            /\ Write(e, c.at, piece)
            /\ Races(e, c.at, piece = Other)
            /\ Mixes(e, c.at, piece = Other)
    /\ End(e)
    /\ UNCHANGED <<upload, tmp, blob, rows, tracks, lost>>

\* A body longer than a chunk is refused when its first byte too many has been written.
Overrun(e) ==
    /\ call[e].pc = "copying" /\ "body" \in Faults
    /\ Write(e, call[e].at + 1, Other)
    /\ Races(e, call[e].at + 1, TRUE)
    /\ Mixes(e, call[e].at + 1, TRUE)
    /\ End(e)
    /\ UNCHANGED <<upload, tmp, blob, rows, tracks, lost>>

\* The body ends early, the client hangs up, or the disk is full.
HangUp(e) ==
    /\ call[e].pc \in {"copy", "copying"}
    /\ End(e)
    /\ mixed' = mixed \ {e}
    /\ UNCHANGED <<upload, tmp, blob, disk, rows, tracks, raced, lost>>

-----------------------------------------------------------------------------
(* CompleteUpload *)

\* HashFile opens the file; without one the request fails.
CompleteUpload(e, u) ==
    /\ call[e].pc = "idle"
    /\ upload[u] # NoContent /\ tmp[u] # NoFile
    /\ call' = [call EXCEPT ![e] = [Idle EXCEPT !.pc = "hash", !.up = u,
                                        !.content = upload[u], !.file = tmp[u]]]
    /\ UNCHANGED <<upload, tmp, blob, disk, rows, tracks, mixed, raced, lost>>

\* Faulty variant, for the mutation runs only: only the size is compared.
HashPieceSizeOnly(e) ==
    /\ call[e].pc = "hash"
    /\ LET c == call[e] IN
        \/ /\ (disk[c.file][c.at] = Hole) # (Whole(c.content)[c.at] = Hole) \/ "disk" \in Faults
           /\ End(e)
        \/ /\ (disk[c.file][c.at] = Hole) = (Whole(c.content)[c.at] = Hole)
           /\ call' = [call EXCEPT ![e].pc = IF c.at = Last THEN "rename" ELSE "hash",
                                  ![e].at = @ + 1]
    /\ UNCHANGED <<upload, tmp, blob, disk, rows, tracks, mixed, raced, lost>>

\* The next piece; one that differs is noticed when hash and size are compared.
HashPiece(e) ==
    /\ call[e].pc = "hash"
    /\ LET c == call[e] IN
        \/ /\ disk[c.file][c.at] # Whole(c.content)[c.at] \/ "disk" \in Faults
           /\ End(e)
        \/ /\ disk[c.file][c.at] = Whole(c.content)[c.at]
           /\ call' = [call EXCEPT ![e].pc = IF c.at = Last THEN "rename" ELSE "hash",
                                  ![e].at = @ + 1]
    /\ UNCHANGED <<upload, tmp, blob, disk, rows, tracks, mixed, raced, lost>>

\* WriteFile copies what it is given under the name of the content, a file if there is one:
\* nothing, only some pieces, or all of it.  Given no file it has nothing to copy, but may
\* have emptied what is there.
WriteFile(c, given, hashed) ==
    \/ UNCHANGED <<blob, disk, raced>>
    \/ \E f \in Files, n \in 0 .. Last + 1 :
        LET source == IF given = NoFile THEN Empty ELSE disk[given]
            copy   == [i \in Places |-> IF i < n THEN source[i] ELSE Hole]
        IN  /\ "disk" \in Faults
            /\ IF blob[c] = NoFile THEN f \in Free ELSE f = blob[c]
            /\ blob'  = [blob EXCEPT ![c] = f]
            /\ disk'  = [disk EXCEPT ![f] = copy]
            /\ raced' = IF hashed /\ given \notin raced /\ copy = source
                        THEN raced \ {f} ELSE raced \cup {f}

\* Faulty variant, for the mutation runs only: the temporary name is not taken away.
RenameKeepsName(e) ==
    /\ call[e].pc = "rename"
    /\ LET u == call[e].up  c == call[e].content IN
        /\ \/ /\ tmp[u] # NoFile
              /\ blob'  = [blob EXCEPT ![c] = tmp[u]]
              /\ UNCHANGED tmp
              /\ raced' = IF tmp[u] # call[e].file THEN raced \cup {tmp[u]} ELSE raced
              /\ UNCHANGED disk
           \/ /\ tmp[u] = NoFile \/ "disk" \in Faults
              /\ WriteFile(c, tmp[u], tmp[u] = call[e].file)
              /\ UNCHANGED tmp
        /\ lost' = IF tmp[u] # NoFile /\ blob'[c] = NoFile THEN lost \cup {c} ELSE lost \ {c}
    /\ call' = [call EXCEPT ![e] = [Idle EXCEPT !.pc = "upsert", !.content = call[e].content]]
    /\ UNCHANGED <<upload, rows, tracks, mixed>>

\* Whatever has the temporary name by now gets the name of the content.  If that fails -
\* another completion was first, the directory could not be made, the store is another file
\* system - the file that has the name is copied, and stays.  No error is looked at.
Rename(e) ==
    /\ call[e].pc = "rename"
    /\ LET u == call[e].up  c == call[e].content IN
        /\ \/ /\ tmp[u] # NoFile
              /\ blob'  = [blob EXCEPT ![c] = tmp[u]]
              /\ tmp'   = [tmp EXCEPT ![u] = NoFile]
              /\ raced' = IF tmp[u] # call[e].file THEN raced \cup {tmp[u]} ELSE raced
              /\ UNCHANGED disk
           \/ /\ tmp[u] = NoFile \/ "disk" \in Faults
              /\ WriteFile(c, tmp[u], tmp[u] = call[e].file)
              /\ UNCHANGED tmp
        /\ lost' = IF tmp[u] # NoFile /\ blob'[c] = NoFile THEN lost \cup {c} ELSE lost \ {c}
    /\ call' = [call EXCEPT ![e] = [Idle EXCEPT !.pc = "upsert", !.content = call[e].content]]
    /\ UNCHANGED <<upload, rows, tracks, mixed>>

\* Its error is not looked at.
UpsertBlob(e) ==
    /\ call[e].pc = "upsert"
    /\ \/ rows' = rows \cup {call[e].content}
       \/ DbFails /\ UNCHANGED rows
    /\ call' = [call EXCEPT ![e].pc = "track"]
    /\ UNCHANGED <<upload, tmp, blob, disk, tracks, mixed, raced, lost>>

\* The track, and its job.
CreateTrack(e) ==
    /\ call[e].pc = "track"
    /\ \/ tracks' = tracks \cup {call[e].content}
       \/ DbFails /\ UNCHANGED tracks
    /\ End(e)
    /\ UNCHANGED <<upload, tmp, blob, disk, rows, mixed, raced, lost>>

\* The process stops.  Files and rows are what they are.
Crash ==
    /\ "crash" \in Faults
    /\ \E e \in Requests : call[e].pc # "idle"
    /\ call'  = [e \in Requests |-> Idle]
    /\ mixed' = {}
    /\ UNCHANGED <<upload, tmp, blob, disk, rows, tracks, raced, lost>>

Next ==
    \/ \E e \in Requests :
        \/ \E c \in Contents : InitUpload(e, c)
        \/ AttachExisting(e)
        \/ CreateUpload(e)
        \/ \E u \in Uploads, i \in Places, b \in Contents \cup {Other} : OpenChunk(e, u, i, b)
        \/ CopyPart(e)
        \/ CopyRest(e)
        \/ Overrun(e)
        \/ HangUp(e)
        \/ \E u \in Uploads : CompleteUpload(e, u)
        \/ HashPiece(e)
        \/ Rename(e)
        \/ UpsertBlob(e)
        \/ CreateTrack(e)
    \/ Crash

Spec == Init /\ [][Next]_vars

-----------------------------------------------------------------------------
(* Properties                                                              *)

Calls ==
    {Idle}
    \cup [pc : {"attach", "create", "upsert", "track"}, up : {NoUpload}, content : Contents,
          file : {NoFile}, at : {0}, body : {NoContent}]
    \cup [pc : {"copy", "copying"}, up : Uploads, content : Contents,
          file : Files, at : 0 .. Last - 1, body : Contents \cup {Other}]
    \cup [pc : {"hash"}, up : Uploads, content : Contents,
          file : Files, at : Places, body : {NoContent}]
    \cup [pc : {"rename"}, up : Uploads, content : Contents,
          file : Files, at : {Last + 1}, body : {NoContent}]

\* The types of names, files, rows and requests; no chunk starts past the end.
TypeOK ==
    /\ upload \in [Uploads -> Contents \cup {NoContent}]
    /\ tmp \in [Uploads -> Files \cup {NoFile}]
    /\ blob \in [Contents -> Files \cup {NoFile}]
    /\ disk \in [Files -> [Places -> Pieces]]
    /\ rows \subseteq Contents
    /\ tracks \subseteq Contents
    /\ call \in [Requests -> Calls]
    /\ mixed \subseteq Requests
    /\ raced \subseteq Files
    /\ lost \subseteq Contents

Stored(c) == blob[c] # NoFile /\ (blob[c] \notin raced => disk[blob[c]] = Whole(c))

\* A content with a row in asset_blobs, which the next InitUpload hands out at once, or
\* with a track, which is transcoded and downloaded, has a file in the store that holds it
\* byte for byte.  There is none only where the move into the store failed and so did the
\* copy in its place, the errors of both dropped, and no later move succeeded; it holds
\* something else only where that copy was cut short, where bytes that were not declared
\* were written to it after they were hashed, or where it took the place of the one that
\* was hashed.  Sending the declared bytes again never harms, however late they are and
\* however many of them arrive.
StoredIsDeclared == \A c \in rows \cup tracks : c \in lost \/ Stored(c)

\* No two names lead to the same file: nothing that is written for one upload shows in
\* another, and what is stored can no longer be reached through a temporary name.
FilesApart ==
    /\ \A u, v \in Uploads : tmp[u] = tmp[v] /\ tmp[u] # NoFile => u = v
    /\ \A c, d \in Contents : blob[c] = blob[d] /\ blob[c] # NoFile => c = d
    /\ \A u \in Uploads, c \in Contents : tmp[u] = blob[c] => tmp[u] = NoFile

\* What a client sent is not lost by sending chunks again, in any order, twice at a time or
\* in part: a piece that has arrived only goes with its whole file, or under bytes that were
\* not declared.
RetriesKeepProgress ==
    [][\A u \in Uploads, i \in Places :
            tmp[u] # NoFile /\ tmp'[u] = tmp[u] /\ disk[tmp[u]][i] = upload[u] =>
                \/ disk'[tmp[u]][i] = upload[u]
                \/ \E e \in Requests :
                        /\ call[e].pc \in {"copy", "copying"} /\ call[e].file = tmp[u]
                        /\ \/ call[e].body # upload[u]
                           \/ "body" \in Faults /\ call[e].at = i - 1]_vars

-----------------------------------------------------------------------------
(* The inductive invariant                                                 *)

Open(e)       == call[e].pc \in {"copy", "copying", "hash", "rename"}
Completing(e) == call[e].pc \in {"hash", "rename"}

\* An open file is of one upload, whatever names it goes by.
Owned(e) == Open(e) =>
    /\ upload[call[e].up] = call[e].content
    /\ \A v \in Uploads : tmp[v] = call[e].file => v = call[e].up
    /\ \A c \in Contents : blob[c] = call[e].file => c = call[e].content
    /\ \A d \in Requests : Open(d) /\ call[d].file = call[e].file => call[d].up = call[e].up

\* A chunk is of the declared content, or not, and belongs to the file.
InPlace(e) == call[e].pc \in {"copy", "copying"} =>
    /\ call[e].body \in {call[e].content, Other}
    /\ call[e].at < PlanUpload(Size[call[e].content])

\* What has been hashed is still there.
Hashed(e) == Completing(e) /\ call[e].file \notin raced =>
    \A i \in Places : i < call[e].at => disk[call[e].file][i] = Whole(call[e].content)[i]

\* There is a file, or it was lost.
Moved(c) == blob[c] # NoFile \/ c \in lost

\* What a request relies on has been moved to the store, or lost on the way.
Backed(e) ==
    /\ call[e].pc \in {"attach", "upsert", "track"} => Moved(call[e].content)
    /\ Completing(e) /\ tmp[call[e].up] = NoFile => blob[call[e].content] # NoFile

Inv ==
    /\ TypeOK
    /\ FilesApart
    /\ \A u \in Uploads : tmp[u] # NoFile => upload[u] # NoContent
    /\ \A c \in Contents : blob[c] # NoFile => Stored(c)
    /\ \A c \in rows \cup tracks : Moved(c)
    /\ \A e \in Requests : Owned(e) /\ InPlace(e) /\ Hashed(e) /\ Backed(e)
=============================================================================
