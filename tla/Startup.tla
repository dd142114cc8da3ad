------------------------------- MODULE Startup -------------------------------
(***************************************************************************)
(* How a server starts: cmd/server/main.go, db/migrate.go, seed/seed.go.   *)
(* Servers share one database and one storage root; any of them may stop   *)
(* at any time and be started again.                                       *)
(*                                                                         *)
(* Migrations run under an advisory lock, which a database connection      *)
(* holds and a pool keeps.  The seed runs under none, and drops most of    *)
(* its errors: what an insert did not store is missed by the foreign keys  *)
(* of a later one.  Rows are known by the start that made them up.         *)
(***************************************************************************)
EXTENDS Integers, FiniteSets

CONSTANTS
    Servers,
    MaxStarts,      \* bound: so many starts in all
    Faults          \* which of "crash", "db", "ffmpeg" and "disk" (the file system
                    \* refuses a call) may happen

Nobody == "nobody"

ASSUME StartupAssumption ==
    /\ Nobody \notin Servers
    /\ MaxStarts \in Nat
    /\ Faults \subseteq {"crash", "db", "ffmpeg", "disk"}

VARIABLES
    pc,         \* the next call of each server
    late,       \* the servers whose 30 seconds for Connect and Migrate were over
                \* before they had unlocked
    lock,       \* whose connection holds the advisory lock
    starts,     \* starts so far
    me,         \* which of them each server is
    users,      \* the accounts by e-mail: the start whose id is stored, or None
    albums,     \* the starts whose album is stored
    track,      \* the content_sha256 of the track of a start, or NoFile
    jobs,       \* the starts whose track has a job
    comments,   \* the starts whose comment is stored
    tmp,        \* tmp/seed36.wav: the start that created the file, or None
    wav,        \* the file the ffmpeg of each server writes, or None
    blob,       \* the content store: the file under the name of a hash, or None
    disk,       \* what is in the file a start created
    sha,        \* the hash each server took
    faulted,    \* history: a call failed, the rename aside, or a server stopped during a seed
    overlapped, \* history: two seeds ran at the same time
    misfiled    \* history: the last rename into the store was refused, and nothing
                \* has the name there

rows    == <<users, albums, track, jobs, comments>>
files   == <<tmp, wav, blob, disk, sha>>
history == <<faulted, overlapped, misfiled>>
vars    == <<pc, late, lock, starts, me, rows, files, history>>

None     == 0
NoFile   == "none"
Ids      == 1 .. MaxStarts
Contents == {"partial", "whole"}

\* The calls of seed.Run in their order; the first three are accounts.
Emails == {"creator", "listener", "admin"}
Then ==
    [creator |-> "listener", listener |-> "admin", admin |-> "album",
     album |-> "ffmpeg", ffmpeg |-> "wav", wav |-> "hash", hash |-> "rename",
     rename |-> "track", track |-> "job", job |-> "comment", comment |-> "serve"]

Seeding == {s \in Servers : pc[s] \in DOMAIN Then}

Init ==
    /\ pc     = [s \in Servers |-> "down"]
    /\ late   = {}
    /\ lock   = Nobody
    /\ starts = 0
    /\ me     = [s \in Servers |-> None]
    /\ users  = [e \in Emails |-> None]
    /\ albums = {}
    /\ track  = [i \in Ids |-> NoFile]
    /\ jobs   = {}
    /\ comments = {}
    /\ tmp    = None
    /\ wav    = [s \in Servers |-> None]
    /\ blob   = [c \in Contents |-> None]
    /\ disk   = [i \in Ids |-> NoFile]
    /\ sha    = [s \in Servers |-> NoFile]
    /\ faulted    = FALSE
    /\ overlapped = FALSE
    /\ misfiled   = FALSE

Goto(s, where) == pc' = [pc EXCEPT ![s] = where]
Move(s)        == Goto(s, Then[pc[s]])

\* The process is gone, and the database ends its connections.
Down(s) ==
    /\ Goto(s, "down")
    /\ late' = late \ {s}
    /\ lock' = IF lock = s THEN Nobody ELSE lock
    /\ me'   = [me EXCEPT ![s] = None]
    /\ wav'  = [wav EXCEPT ![s] = None]
    /\ sha'  = [sha EXCEPT ![s] = NoFile]

-----------------------------------------------------------------------------
(* Faulty variants, for the mutation runs only *)

\* The unlock runs on another connection of the pool, and unlocks nothing.
UnlockElsewhere(s) ==
    /\ pc[s] = "unlock"
    /\ Goto(s, "lookup")
    /\ UNCHANGED <<late, lock, starts, me, rows, files, history>>

\* The lock is awaited without the deadline.
FailUnlessWaiting(s) ==
    /\ pc[s] = "migrate"
    /\ s \in late
    /\ Down(s)
    /\ UNCHANGED <<starts, rows, tmp, blob, disk, history>>

\* An account that is there already is overwritten.
StoredUserReplaces(e, i) == users' = [users EXCEPT ![e] = i]

\* The error of ffmpeg is dropped like those of the inserts.
FfmpegFailsUnnoticed(s) ==
    /\ "ffmpeg" \in Faults
    /\ pc[s] = "wav"
    /\ Move(s)
    /\ wav' = [wav EXCEPT ![s] = None]
    /\ faulted' = TRUE
    /\ UNCHANGED <<late, lock, starts, me, rows, tmp, blob, disk, sha, overlapped, misfiled>>

-----------------------------------------------------------------------------
(* main and Migrate *)

Start(s) ==
    /\ pc[s] = "down"
    /\ starts < MaxStarts
    /\ starts' = starts + 1
    /\ me'     = [me EXCEPT ![s] = starts + 1]
    /\ Goto(s, "lock")
    /\ UNCHANGED <<late, lock, rows, files, history>>

Deadline(s) ==
    /\ pc[s] \in {"lock", "migrate", "unlock"}
    /\ s \notin late
    /\ late' = late \cup {s}
    /\ UNCHANGED <<pc, lock, starts, me, rows, files, history>>

\* pg_advisory_lock waits until the lock is free.
Lock(s) ==
    /\ pc[s] = "lock"
    /\ s \notin late
    /\ lock = Nobody
    /\ lock' = s
    /\ Goto(s, "migrate")
    /\ UNCHANGED <<late, starts, me, rows, files, history>>

\* Every statement of the files says IF NOT EXISTS.
Apply(s) ==
    /\ pc[s] = "migrate"
    /\ s \notin late
    /\ Goto(s, "unlock")
    /\ UNCHANGED <<late, lock, starts, me, rows, files, history>>

\* The connection, the lock or a file fails, or the deadline is over: main exits.
FailMigration(s) ==
    /\ pc[s] \in {"lock", "migrate"}
    /\ s \in late \/ "db" \in Faults
    /\ Down(s)
    /\ UNCHANGED <<starts, rows, tmp, blob, disk, history>>

\* The deferred unlock has the same deadline.  If that is over, nothing is sent and
\* the connection goes back to the pool with the lock; Migrate has succeeded.
Unlock(s) ==
    /\ pc[s] = "unlock"
    /\ \/ lock' = Nobody /\ late' = late \ {s}
       \/ s \in late /\ UNCHANGED <<lock, late>>
    /\ Goto(s, "lookup")
    /\ UNCHANGED <<starts, me, rows, files, history>>

\* The pool closes a connection that has been idle, or open, for long enough.
Reap(s) ==
    /\ lock = s
    /\ pc[s] \notin {"migrate", "unlock"}
    /\ lock' = Nobody
    /\ late' = late \ {s}
    /\ UNCHANGED <<pc, starts, me, rows, files, history>>

-----------------------------------------------------------------------------
(* seed.Run *)

Enter(s) ==
    /\ Goto(s, "creator")
    /\ overlapped' = (overlapped \/ Seeding # {})

\* UserByEmail: any error counts as "no such user".
Lookup(s) ==
    /\ pc[s] = "lookup"
    /\ \/ /\ IF users["creator"] = None
             THEN Enter(s)
             ELSE Goto(s, "serve") /\ UNCHANGED overlapped
          /\ UNCHANGED faulted
       \/ /\ "db" \in Faults
          /\ Enter(s)
          /\ faulted' = TRUE
    /\ UNCHANGED <<late, lock, starts, me, rows, files, misfiled>>

\* Run returns an error, which main logs.
Return(s) == Goto(s, "serve") /\ UNCHANGED <<late, lock, starts, me>>

\* What an INSERT stores when its keys allow it; its error is dropped.
StoredUser(e, i) ==
    users' = IF users[e] = None THEN [users EXCEPT ![e] = i] ELSE users

CreateUser(s) ==
    /\ pc[s] \in Emails
    /\ Move(s)
    /\ \/ StoredUser(pc[s], me[s]) /\ UNCHANGED faulted
       \/ "db" \in Faults /\ UNCHANGED users /\ faulted' = TRUE
    /\ UNCHANGED <<late, lock, starts, me, albums, track, jobs, comments, files,
                   overlapped, misfiled>>

CreateAlbum(s) ==
    /\ pc[s] = "album"
    /\ Move(s)
    /\ \/ /\ albums' = IF users["creator"] = me[s] THEN albums \cup {me[s]} ELSE albums
          /\ UNCHANGED faulted
       \/ "db" \in Faults /\ UNCHANGED albums /\ faulted' = TRUE
    /\ UNCHANGED <<late, lock, starts, me, users, track, jobs, comments, files,
                   overlapped, misfiled>>

\* ffmpeg -y creates the file, or empties the one that has the name.
Ffmpeg(s) ==
    /\ pc[s] = "ffmpeg"
    /\ Move(s)
    /\ tmp'  = IF tmp = None THEN me[s] ELSE tmp
    /\ wav'  = [wav EXCEPT ![s] = tmp']
    /\ disk' = [disk EXCEPT ![tmp'] = "partial"]
    /\ UNCHANGED <<late, lock, starts, me, rows, blob, sha, history>>

\* It goes on writing the file it opened, whatever name that has by now.  Beside
\* another one on the same file it may leave a hole.
FfmpegEnds(s) ==
    /\ pc[s] = "wav"
    /\ Move(s)
    /\ \E c \in Contents :
        /\ c = "whole" \/ \E t \in Servers \ {s} : wav[t] = wav[s]
        /\ disk' = [disk EXCEPT ![wav[s]] = c]
    /\ wav' = [wav EXCEPT ![s] = None]
    /\ UNCHANGED <<late, lock, starts, me, rows, tmp, blob, sha, history>>

\* ffmpeg is missing, or stops half way.
FfmpegFails(s) ==
    /\ "ffmpeg" \in Faults
    /\ pc[s] \in {"ffmpeg", "wav"}
    /\ Return(s)
    /\ wav' = [wav EXCEPT ![s] = None]
    /\ faulted' = TRUE
    /\ UNCHANGED <<rows, tmp, blob, disk, sha, overlapped, misfiled>>

\* HashFile fails when another server has renamed the file, or it cannot be read.
HashFile(s) ==
    /\ pc[s] = "hash"
    /\ \/ /\ tmp # None
          /\ Move(s)
          /\ sha' = [sha EXCEPT ![s] = disk[tmp]]
          /\ UNCHANGED <<late, lock, starts, me, faulted>>
       \/ /\ tmp = None
          /\ Return(s)
          /\ UNCHANGED <<sha, faulted>>
       \/ /\ "disk" \in Faults
          /\ Return(s)
          /\ faulted' = TRUE
          /\ UNCHANGED sha
    /\ UNCHANGED <<rows, tmp, wav, blob, disk, overlapped, misfiled>>

\* The rename fails when another server was first, and when the directory could not be
\* made or is on another file system; the errors are dropped.  The row of the blob and the
\* track follow all the same.
Rename(s) ==
    /\ pc[s] = "rename"
    /\ Move(s)
    /\ \/ /\ tmp # None
          /\ blob' = [blob EXCEPT ![sha[s]] = tmp]
          /\ tmp'  = None
          /\ misfiled' = FALSE
       \/ /\ tmp = None
          /\ UNCHANGED <<blob, tmp, misfiled>>
       \/ /\ "disk" \in Faults /\ tmp # None
          /\ misfiled' = (blob[sha[s]] = None)
          /\ UNCHANGED <<blob, tmp>>
    /\ UNCHANGED <<late, lock, starts, me, rows, wav, disk, sha, faulted, overlapped>>

CreateTrack(s) ==
    /\ pc[s] = "track"
    /\ \/ /\ users["creator"] = me[s] /\ me[s] \in albums
          /\ track' = [track EXCEPT ![me[s]] = sha[s]]
          /\ Move(s)
          /\ UNCHANGED <<late, lock, starts, me, faulted>>
       \/ /\ ~(users["creator"] = me[s] /\ me[s] \in albums)
          /\ Return(s)
          /\ UNCHANGED <<track, faulted>>
       \/ /\ "db" \in Faults
          /\ Return(s)
          /\ faulted' = TRUE
          /\ UNCHANGED track
    /\ UNCHANGED <<users, albums, jobs, comments, files, overlapped, misfiled>>

Enqueue(s) ==
    /\ pc[s] = "job"
    /\ Move(s)
    /\ \/ jobs' = jobs \cup {me[s]} /\ UNCHANGED faulted
       \/ "db" \in Faults /\ UNCHANGED jobs /\ faulted' = TRUE
    /\ UNCHANGED <<late, lock, starts, me, users, albums, track, comments, files,
                   overlapped, misfiled>>

CreateComment(s) ==
    /\ pc[s] = "comment"
    /\ Move(s)
    /\ \/ /\ comments' = IF users["listener"] = me[s] THEN comments \cup {me[s]}
                         ELSE comments
          /\ UNCHANGED faulted
       \/ "db" \in Faults /\ UNCHANGED comments /\ faulted' = TRUE
    /\ UNCHANGED <<late, lock, starts, me, users, albums, track, jobs, files,
                   overlapped, misfiled>>

-----------------------------------------------------------------------------
(* A server stops: from a signal while it serves, or in the middle of its start. *)

Stop(s) ==
    /\ pc[s] # "down"
    /\ pc[s] = "serve" \/ "crash" \in Faults
    /\ Down(s)
    /\ faulted' = (faulted \/ s \in Seeding)
    /\ UNCHANGED <<starts, rows, tmp, blob, disk, overlapped, misfiled>>

Step(s) ==
    \/ Lock(s) \/ Apply(s) \/ FailMigration(s) \/ Unlock(s) \/ Lookup(s)
    \/ CreateUser(s) \/ CreateAlbum(s)
    \/ Ffmpeg(s) \/ FfmpegEnds(s) \/ FfmpegFails(s) \/ HashFile(s) \/ Rename(s)
    \/ CreateTrack(s) \/ Enqueue(s) \/ CreateComment(s)

Next == \E s \in Servers : Start(s) \/ Deadline(s) \/ Step(s) \/ Reap(s) \/ Stop(s)

Spec == Init /\ [][Next]_vars

\* Calls return, and 30 seconds pass.  No server has to be started, and no pool has
\* to give up its connections.
FairSpec == Spec /\ \A s \in Servers : WF_vars(Step(s)) /\ WF_vars(Deadline(s))

-----------------------------------------------------------------------------
(* Properties *)

\* "Serializes DDL with a session-scoped advisory lock" (migrate.go:15): who
\* migrates holds the lock, and nobody else does unless the deadline cut off his
\* unlock.
LockedWhileMigrating ==
    \A s \in Servers :
        /\ pc[s] \in {"migrate", "unlock"} => lock = s
        /\ lock = s => pc[s] \in {"migrate", "unlock"} \/ s \in late

\* However many servers seed at once, and whatever fails: there is one seed, of the
\* creator who is stored.  Without a fault the accounts of src/README.md:30-34 are
\* there once nobody seeds; the album, the track and the rest too, unless two seeds
\* met.
SeedWhole ==
    /\ \A i \in Ids : track[i] # NoFile => users["creator"] = i
    /\ ~faulted /\ Seeding = {} /\ users["creator"] # None =>
        /\ \A e \in Emails : users[e] # None
        /\ overlapped \/ \E i \in albums \cap jobs \cap comments : track[i] # NoFile

\* What the seed's track points to is a whole file with the content of its hash, after any
\* number of starts, stops and failing calls, unless two seeds shared the name of their
\* temporary file.  The hash is always that of a whole file; no file has its name only
\* when the last rename into the store was refused, which nobody looks at.
SeedHonest ==
    overlapped \/ \A i \in Ids :
        track[i] # NoFile =>
            /\ track[i] = "whole"
            /\ IF blob["whole"] = None THEN misfiled ELSE disk[blob["whole"]] = "whole"

\* A server that starts comes to serve or gives up: it waits for no other for longer
\* than its deadline, although a lock may be left behind.
StartsEnd == \A s \in Servers : pc[s] # "down" ~> pc[s] \in {"serve", "down"}

\* What makes these inductive.  A server that is up is a start of its own, and until
\* it runs ffmpeg no file is its own.
Early == {"lock", "migrate", "unlock", "lookup"} \cup Emails \cup {"album", "ffmpeg"}

TypeOK ==
    /\ pc     \in [Servers -> {"down", "lock", "migrate", "unlock", "lookup", "serve"}
                              \cup DOMAIN Then]
    /\ late   \subseteq Servers
    /\ lock   \in Servers \cup {Nobody}
    /\ starts \in 0 .. MaxStarts
    /\ me     \in [Servers -> 0 .. starts]
    /\ users  \in [Emails -> 0 .. starts]
    /\ albums \subseteq Ids /\ jobs \subseteq Ids /\ comments \subseteq Ids
    /\ track  \in [Ids -> Contents \cup {NoFile}]
    /\ tmp    \in 0 .. starts
    /\ wav    \in [Servers -> 0 .. starts]
    /\ blob   \in [Contents -> 0 .. starts]
    /\ disk   \in [Ids -> Contents \cup {NoFile}]
    /\ sha    \in [Servers -> Contents \cup {NoFile}]
    /\ faulted \in BOOLEAN /\ overlapped \in BOOLEAN /\ misfiled \in BOOLEAN

Named ==
    \A s \in Servers : pc[s] # "down" =>
        /\ me[s] # None
        /\ \A t \in Servers : me[t] = me[s] => t = s
        /\ pc[s] \in Early => tmp # me[s] /\ blob["whole"] # me[s]

\* What is hashed was written, and what is written is not in the store.
Written ==
    /\ tmp # None => disk[tmp] # NoFile /\ blob["whole"] # tmp
    /\ \A s \in Servers :
        /\ wav[s] # None => pc[s] = "wav"
        /\ pc[s] \in {"rename", "track"} => sha[s] # NoFile

\* The track is the stored creator's, and without a fault an account that is not
\* there yet is about to be created.
OneSeed == \A i \in Ids : track[i] # NoFile => users["creator"] = i

Accounts ==
    ~faulted /\ users["creator"] # None =>
        /\ users["listener"] # None \/ \E s \in Servers : pc[s] = "listener"
        /\ users["admin"] # None \/ \E s \in Servers : pc[s] \in {"listener", "admin"}

\* As long as no two seeds meet there is one, and without a fault it finds what it
\* stored.
Alone == overlapped \/ \A s, t \in Seeding : s = t

Blank    == \A e \in Emails : users[e] = None
Complete == \E i \in albums \cap jobs \cap comments : track[i] # NoFile

Found(s) ==
    /\ pc[s] = "creator" => Blank
    /\ pc[s] # "creator" => users["creator"] = me[s]
    /\ pc[s] = "listener" => users["listener"] = None
    /\ pc[s] \notin {"creator", "listener"} => users["listener"] = me[s]
    /\ pc[s] \notin Emails \cup {"album"} => me[s] \in albums
    /\ pc[s] \in {"wav", "hash", "rename"} => tmp # None
    /\ pc[s] \in {"job", "comment"} => track[me[s]] # NoFile
    /\ pc[s] = "comment" => me[s] \in jobs

Undisturbed ==
    faulted \/ overlapped \/
        /\ Seeding = {} => Blank \/ Complete
        /\ \A s \in Seeding : Found(s)

\* The file goes from ffmpeg to the store, whole once ffmpeg has ended - unless it is
\* refused there.
Stored == blob["whole"] # None /\ disk[blob["whole"]] = "whole"

Filed ==
    overlapped \/
        /\ blob["whole"] # None => Stored
        /\ \A s \in Servers :
            /\ pc[s] = "wav" => tmp # None /\ wav[s] = tmp
            /\ pc[s] \in {"hash", "rename"} => tmp # None /\ disk[tmp] = "whole"
            /\ pc[s] \in {"rename", "track"} => sha[s] = "whole"
            /\ pc[s] = "track" => Stored \/ misfiled

Inv ==
    /\ TypeOK /\ LockedWhileMigrating
    /\ Named /\ Written
    /\ OneSeed /\ Accounts /\ Alone /\ Undisturbed
    /\ Filed /\ SeedHonest
=============================================================================
