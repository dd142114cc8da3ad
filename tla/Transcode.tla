------------------------------ MODULE Transcode ------------------------------
(***************************************************************************)
(* The transcoding worker and the rows it shares with the API:             *)
(* transcode/worker.go, the upload and retry handlers of handler/track.go, *)
(* and every handler that reads a track row, changes a field of its own    *)
(* and writes the whole row back (OpenStream, PatchTrack, Fulfill).        *)
(*                                                                         *)
(* One goroutine runs the jobs, one after the other; it holds a copy of    *)
(* the track row while ffmpeg works.  Of a row only the fields of the      *)
(* transcoding are kept: transcode_status and hls_dir.                     *)
(***************************************************************************)
EXTENDS Integers, FiniteSets

CONSTANTS
    Tracks,         \* tracks that may be uploaded, numbered in the order they come
    Content,        \* content_sha256 of each
    NoDir,          \* no track: an hls_dir that is empty
    MaxAttempts,    \* runs of a job before it is left alone: 3
    MaxJobs,        \* bound on the jobs ever queued
    Requests,       \* API requests in flight
    Edited,         \* bound: tracks whose rows they read and write back
    Faults          \* which of "crash", "db" and "ffmpeg" may happen

ASSUME TranscodeAssumption ==
    /\ MaxAttempts \in Nat \ {0}
    /\ MaxJobs \in Nat
    /\ Tracks \subseteq Nat
    /\ NoDir \notin Tracks
    /\ Faults \subseteq {"crash", "db", "ffmpeg"}

VARIABLES
    row,            \* tracks: [status, hls], hls the track whose directory it is
    job,            \* transcode_jobs: [track, status, attempts]
    encoded,        \* tracks below whose hls/<track> the last run has left all segments
    wpc,            \* where the worker is
    todo,           \* the jobs its tick listed and it has not taken yet
    cur,            \* the job it runs
    tries,          \* j.Attempts, in memory
    copy,           \* tr, the row as the worker is about to write it
    pc,             \* where each API request is
    at,             \* the track it works on
    held,           \* its copy of the row
    unwritten,      \* history: an UpdateJob failed
    cut,            \* history: jobs that were running when the process stopped
    behind          \* history: pending tracks for which a write was lost: the worker's,
                    \* that of their job, or one an older copy was written over

worker == <<wpc, todo, cur, tries, copy>>
api    == <<pc, at, held>>
vars   == <<row, job, encoded, worker, api, unwritten, cut, behind>>

Jobs   == 1 .. MaxJobs

\* created_at grows with the number of a job and of a track.
Oldest(j, S) == j \in S /\ \A i \in S : j <= i

Rows   == [status : {"absent", "pending", "ready", "failed"}, hls : Tracks \cup {NoDir}]
NoRow  == [status |-> "absent", hls |-> NoDir]
NewRow == [status |-> "pending", hls |-> NoDir]
NoJob  == [track |-> NoDir, status |-> "absent", attempts |-> 0]

Uploaded == {t \in Tracks : row[t].status # "absent"}
Unused   == {j \in Jobs : job[j].status = "absent"}

Init ==
    /\ row   = [t \in Tracks |-> NoRow]
    /\ job   = [j \in Jobs |-> NoJob]
    /\ encoded = {}
    /\ wpc   = "idle"
    /\ todo  = {}
    /\ cur   = 0
    /\ tries = 0
    /\ copy  = NoRow
    /\ pc    = [e \in Requests |-> "idle"]
    /\ at    = [e \in Requests |-> NoDir]
    /\ held  = [e \in Requests |-> NoRow]
    /\ unwritten = FALSE
    /\ cut   = {}
    /\ behind = {}

-----------------------------------------------------------------------------
(* The database.  Nobody looks at the errors of these two. *)

UpdateTrack(t, r) == row' = [row EXCEPT ![t] = r] \/ ("db" \in Faults /\ UNCHANGED row)

\* Who last wrote a row, or should have, is told from what is in it.
Noted(t, lost) == behind' = IF row'[t].status # "pending" THEN behind \ {t}
                            ELSE IF lost THEN behind \cup {t} ELSE behind

CreateJob(t) ==
    \E j \in Unused :
        /\ Oldest(j, Unused)
        /\ job' = [job EXCEPT ![j] = [track |-> t, status |-> "pending", attempts |-> 0]]

\* The whole job row, from the worker's memory.
UpdateJob(j, status, n) ==
    \/ /\ job' = [job EXCEPT ![j].status = status, ![j].attempts = n]
       /\ UNCHANGED unwritten
    \/ /\ "db" \in Faults
       /\ unwritten' = TRUE
       /\ UNCHANGED job

\* Faulty variants, for the mutation runs only: a failed job is taken up for ever,
\* or never again, or one that a restart left running is taken up, too.
PendingForever == {j \in Jobs : job[j].status \in {"pending", "failed"}}
PendingOrRunning == {j \in Jobs : job[j].status \in {"pending", "failed", "running"}
                                  /\ job[j].attempts < MaxAttempts}
PendingOnly == {j \in Jobs : job[j].status = "pending" /\ job[j].attempts < MaxAttempts}

PendingJobs == {j \in Jobs : job[j].status \in {"pending", "failed"}
                             /\ job[j].attempts < MaxAttempts}

-----------------------------------------------------------------------------
(* The worker *)

Goto(where) == wpc' = where /\ UNCHANGED <<todo, cur, tries>>

\* runOne returns, to the next job of the tick.
Return ==
    /\ wpc'  = IF todo = {} THEN "idle" ELSE "take"
    /\ cur'  = 0
    /\ tries' = 0
    /\ copy' = NoRow
    /\ UNCHANGED todo

T == job[cur].track

\* Another track has the same bytes and is ready.
Siblings == {s \in Tracks \ {T} : /\ Content[s] = Content[T]
                                  /\ row[s].status = "ready"
                                  /\ row[s].hls # NoDir}

Tick ==
    /\ wpc \in {"idle", "down"}
    /\ PendingJobs # {}
    /\ todo' = PendingJobs
    /\ wpc'  = "take"
    /\ UNCHANGED <<row, job, encoded, cur, tries, copy, api, unwritten, cut,
                   behind>>

Take ==
    /\ wpc = "take"
    /\ \E j \in todo :
        /\ Oldest(j, todo)
        /\ cur'   = j
        /\ todo'  = todo \ {j}
        /\ tries' = job[j].attempts + 1
        /\ UpdateJob(j, "running", job[j].attempts + 1)
    /\ wpc'   = "read"
    /\ UNCHANGED <<row, encoded, copy, api, cut, behind>>

\* The copy is not kept yet: both fields are set before it is written.
TrackByID ==
    /\ wpc = "read"
    /\ Goto("cache") \/ ("db" \in Faults /\ Goto("fail"))
    /\ UNCHANGED <<row, job, encoded, copy, api, unwritten, cut, behind>>

\* Faulty variant, for the mutation runs only: a copied directory is not written down.
CacheHitUnwritten ==
    /\ wpc = "cache"
    /\ Siblings # {}
    /\ Goto("close")
    /\ UNCHANGED <<row, job, encoded, copy, api, unwritten, cut, behind>>

CacheHit ==
    /\ wpc = "cache"
    /\ \E s \in Siblings : copy' = [status |-> "ready", hls |-> row[s].hls]
    /\ Goto("write")
    /\ UNCHANGED <<row, job, encoded, api, unwritten, cut, behind>>

CacheMiss ==
    /\ wpc = "cache"
    /\ Siblings = {} \/ "db" \in Faults
    /\ Goto("probe")
    /\ UNCHANGED <<row, job, encoded, copy, api, unwritten, cut, behind>>

\* ffprobe.
Probe ==
    /\ wpc = "probe"
    /\ UpdateJob(cur, "running", tries)
    /\ Goto("encode")
    /\ UNCHANGED <<row, encoded, copy, api, cut, behind>>

\* ffmpeg begins: it writes over the segments that a former run of the track has left,
\* one after the other and where they are, also those that rows point to.
Overwrite ==
    /\ wpc = "encode"
    /\ encoded' = encoded \ {T}
    /\ Goto("encoding")
    /\ UNCHANGED <<row, job, copy, api, unwritten, cut, behind>>

\* It has run for both bit rates: all segments are there.
Encode ==
    /\ wpc = "encoding"
    /\ UpdateJob(cur, "running", tries)
    /\ encoded' = encoded \cup {T}
    /\ Goto("peaks")
    /\ UNCHANGED <<row, copy, api, cut, behind>>

Peaks ==
    /\ wpc = "peaks"
    /\ copy' = [status |-> "ready", hls |-> T]
    /\ Goto("write")
    /\ UNCHANGED <<row, job, encoded, api, unwritten, cut, behind>>

\* ffprobe, ffmpeg for the segments or ffmpeg for the peaks fails.  The segments stay as
\* ffmpeg left them.
EngineFails ==
    /\ "ffmpeg" \in Faults
    /\ wpc \in {"probe", "encode", "encoding", "peaks"}
    /\ Goto("fail")
    /\ UNCHANGED <<row, job, encoded, copy, api, unwritten, cut, behind>>

WriteTrack ==
    /\ wpc = "write"
    /\ UpdateTrack(T, copy)
    /\ Noted(T, TRUE)
    /\ Goto("close")
    /\ UNCHANGED <<job, encoded, copy, api, unwritten, cut>>

CloseJob ==
    /\ wpc = "close"
    /\ UpdateJob(cur, "ready", tries)
    /\ Return
    /\ UNCHANGED <<row, encoded, api, cut, behind>>

\* Faulty variant, for the mutation runs only: just the track is marked.
FailTrackOnly ==
    /\ wpc = "fail"
    /\ Goto("reread")
    /\ UNCHANGED <<row, job, encoded, copy, api, unwritten, cut, behind>>

\* fail: the job, then the track, read afresh.
FailJob ==
    /\ wpc = "fail"
    /\ UpdateJob(cur, "failed", tries)
    /\ Goto("reread")
    /\ UNCHANGED <<row, encoded, copy, api, cut, behind>>

\* The job has failed, and its track has yet to be told.
Failing == {"reread", "rewrite"}

Reread ==
    /\ wpc = "reread"
    /\ UNCHANGED <<row, job, encoded, api, unwritten, cut>>
    /\ \/ copy' = [row[T] EXCEPT !.status = "failed"] /\ Goto("rewrite") /\ UNCHANGED behind
       \/ "db" \in Faults /\ Return /\ Noted(T, TRUE)

FailTrack ==
    /\ wpc = "rewrite"
    /\ UpdateTrack(T, copy)
    /\ Noted(T, TRUE)
    /\ Return
    /\ UNCHANGED <<job, encoded, api, unwritten, cut>>

Worker ==
    \/ Tick \/ Take \/ TrackByID \/ CacheHit \/ CacheMiss \/ Probe \/ Overwrite
    \/ Encode \/ Peaks \/ EngineFails \/ WriteTrack \/ CloseJob \/ FailJob \/ Reread
    \/ FailTrack

-----------------------------------------------------------------------------
(* The API *)

Queuing(t) == \E e \in Requests : pc[e] = "enqueue" /\ at[e] = t

\* A job number is left for every request that is about to queue one.
MayQueue == Cardinality({e \in Requests : pc[e] = "enqueue"}) < Cardinality(Unused)

\* CompleteUpload, an instant upload, the seed.
CreateTrack(e, t) ==
    /\ pc[e] = "idle"
    /\ Oldest(t, Tracks \ Uploaded)
    /\ MayQueue
    /\ row' = [row EXCEPT ![t] = NewRow]
    /\ pc'  = [pc EXCEPT ![e] = "enqueue"]
    /\ at'  = [at EXCEPT ![e] = t]
    /\ UNCHANGED <<job, encoded, worker, held, unwritten, cut, behind>>

\* The row it reads first is there for good: nothing deletes a track.
RetryTranscode(t) ==
    /\ t \in Uploaded
    /\ MayQueue
    /\ CreateJob(t)
    /\ UNCHANGED <<row, encoded, worker, api, unwritten, cut, behind>>

EndRequest(e) ==
    /\ pc'   = [pc EXCEPT ![e] = "idle"]
    /\ at'   = [at EXCEPT ![e] = NoDir]
    /\ held' = [held EXCEPT ![e] = NoRow]

Enqueue(e) ==
    /\ pc[e] = "enqueue"
    /\ UNCHANGED <<row, encoded, worker, unwritten, cut>>
    /\ \/ CreateJob(at[e]) /\ UNCHANGED behind
       \/ "db" \in Faults /\ UNCHANGED job /\ Noted(at[e], TRUE)
    /\ EndRequest(e)

\* OpenStream, PatchTrack and Fulfill read the row ...
ReadTrack(e, t) ==
    /\ pc[e] = "idle"
    /\ t \in Uploaded \cap Edited
    /\ pc'   = [pc EXCEPT ![e] = "update"]
    /\ at'   = [at EXCEPT ![e] = t]
    /\ held' = [held EXCEPT ![e] = row[t]]
    /\ UNCHANGED <<row, job, encoded, worker, unwritten, cut, behind>>

\* ... and write it back, with the transcoding fields as they were.
WriteBack(e) ==
    /\ pc[e] = "update"
    /\ UpdateTrack(at[e], held[e])
    /\ Noted(at[e], row[at[e]].status # "pending")
    /\ EndRequest(e)
    /\ UNCHANGED <<job, encoded, worker, unwritten, cut>>

\* The process stops: ffmpeg, whatever it has written, and the requests with it.
Restart ==
    /\ "crash" \in Faults
    /\ wpc'  = "down"
    /\ todo' = {}
    /\ cur'  = 0
    /\ tries' = 0
    /\ copy' = NoRow
    /\ pc'   = [e \in Requests |-> "idle"]
    /\ at'   = [e \in Requests |-> NoDir]
    /\ held' = [e \in Requests |-> NoRow]
    /\ cut'  = cut \cup {j \in Jobs : job[j].status = "running"}
    /\ behind' = behind \cup {t \in Tracks : /\ row[t].status = "pending"
                                             /\ Queuing(t) \/ (wpc \in Failing /\ t = T)}
    /\ UNCHANGED <<row, job, encoded, unwritten>>

Next ==
    \/ Worker
    \/ \E t \in Tracks : RetryTranscode(t)
    \/ \E e \in Requests :
         \/ \E t \in Tracks : CreateTrack(e, t) \/ ReadTrack(e, t)
         \/ Enqueue(e)
         \/ WriteBack(e)
    \/ Restart

Spec == Init /\ [][Next]_vars

\* The worker's goroutine runs and ffmpeg ends.  Nothing makes a client come back.
FairSpec == Spec /\ WF_vars(Worker)

\* The worker is at a job.
Busy == wpc \notin {"down", "idle", "take"}

-----------------------------------------------------------------------------
(* Properties *)

TypeOK ==
    /\ row  \in [Tracks -> Rows]
    /\ job  \in [Jobs -> [track : Tracks \cup {NoDir},
                          status : {"absent", "pending", "running", "failed", "ready"},
                          attempts : 0 .. MaxAttempts]]
    /\ encoded \subseteq Tracks
    /\ wpc  \in {"down", "idle", "take", "read", "cache", "probe", "encode", "encoding",
                 "peaks", "write", "close", "fail", "reread", "rewrite"}
    /\ todo \subseteq Jobs
    /\ cur  \in Jobs \cup {0}
    /\ tries \in 0 .. MaxAttempts
    /\ copy \in Rows
    /\ pc   \in [Requests -> {"idle", "enqueue", "update"}]
    /\ at   \in [Requests -> Tracks \cup {NoDir}]
    /\ held \in [Requests -> Rows]
    /\ unwritten \in BOOLEAN
    /\ cut \subseteq Jobs
    /\ behind \subseteq Tracks

\* RetryTranscode was called for the track: CompleteUpload queues one job.
Retried(d) == \E j, k \in Jobs \ Unused : j # k /\ job[j].track = d /\ job[k].track = d

\* The last run has left all segments, unless it was a retry, or the job did not say that
\* it was over and ran again.
Whole(d) == d \in encoded \/ Retried(d) \/ unwritten

\* A row in the table or in a copy that says "ready" names a directory with the
\* segments of this very content.
Playable(t, r) ==
    r.status = "ready" =>
        /\ r.hls \in Tracks
        /\ Content[r.hls] = Content[t]
        /\ Whole(r.hls)

\* OpenStream hands out a token for every "ready" track (handler/stream.go:23):
\* whatever stale rows are written back, such a track has segments, and they are
\* those of its own content, be they cached ones of another track.  A job never runs
\* again once it has shown its segments, restarts and failures included, so that they
\* stay whole unless RetryTranscode is called for the track they lie with (a retry
\* writes over them in place and may fail or be killed half-way), or an UpdateJob failed.
ReadyPlayable == \A t \in Tracks : Playable(t, row[t])

\* Unless an UpdateJob failed, only the job the worker is at says "running", besides those
\* that a restart cut off and nobody takes up again: no path through runOne forgets one.
RunningIsRun ==
    unwritten \/ \A j \in Jobs : job[j].status = "running" => (Busy /\ cur = j) \/ j \in cut

\* A finished job is finished: neither a list of jobs that has aged nor a retry of
\* the track runs it again.
Finished(j) ==
    \/ job[j].status = "ready"
    \/ job[j].status = "failed" /\ job[j].attempts = MaxAttempts
FinishedStays == [][\A j \in Jobs : Finished(j) => job'[j] = job[j]]_vars

Ended(t)  == row[t].status \in {"ready", "failed"}
HasJob(t) == \E j \in Jobs : job[j].status # "absent" /\ job[j].track = t

\* A pending track has a job, or its upload is about to queue one.
JobQueued ==
    \A t \in Tracks : row[t].status = "pending" =>
        HasJob(t) \/ Queuing(t) \/ t \in behind

\* A track of which a job has ended says so, or the worker is about to tell it.
TrackTold ==
    \A j \in Jobs : LET t == job[j].track IN
        job[j].status \in {"ready", "failed"} =>
            Ended(t) \/ t \in behind \/ (cur = j /\ wpc \in Failing)

\* The studio lists the jobs, the listeners see the rows, and Enqueue, runOne and fail keep
\* the two in step.  The only exceptions are a write that failed or was cut off, and an
\* older copy of the row that an API request wrote over the worker's.
TracksFollowJobs == JobQueued /\ TrackTold

\* What the worker counts in memory is in the job's row, since nobody else writes one.
Counted ==
    /\ \A j \in Unused : job[j].attempts = 0
    /\ Busy => unwritten \/ job[cur].attempts = tries

\* The runs that are left, and how far the worker is with the one it is at.
RunsLeft == {r \in Jobs \X (1 .. MaxAttempts) : job[r[1]].attempts < r[2]}
StepsLeft ==
    [read |-> 12, cache |-> 11, probe |-> 10, encode |-> 9, encoding |-> 8, peaks |-> 7,
     write |-> 6, close |-> 5, fail |-> 4, reread |-> 3, rewrite |-> 2, idle |-> 1, down |-> 1,
     take |-> 0]

\* runOne writes the whole job row from memory, and a tick works through a list that ages:
\* yet no step gives a job a run back, and each step of the worker uses one up or comes
\* nearer to the end of the one it is at.  So the worker idles in the end, even if every
\* run fails, unless an UpdateJob failed or the process stopped.
GetsOn ==
    \/ wpc' = "down" \/ unwritten'
    \/ /\ RunsLeft' \subseteq RunsLeft
       /\ \/ wpc' = wpc
          \/ RunsLeft' # RunsLeft
          \/ StepsLeft[wpc'] < StepsLeft[wpc]

WorkerGetsOn == [][GetsOn]_vars

\* A queued job is run to its end or MaxAttempts times, however many jobs come along, unless
\* the process stops before that or an UpdateJob failed.
JobsSettle ==
    \A j \in Jobs : job[j].status = "pending" ~> (Finished(j) \/ wpc = "down" \/ unwritten)

-----------------------------------------------------------------------------
(* The inductive invariant *)

\* What the worker listed is still as it found it, and not what it is at.
Listed ==
    /\ \A j \in Jobs : job[j].status # "absent" => job[j].track \in Uploaded
    /\ \A j \in todo : /\ job[j].status \in {"pending", "failed"}
                       /\ job[j].attempts < MaxAttempts

\* The job it runs is not finished before the worker says so.
AtWork ==
    IF Busy
    THEN /\ cur \in Jobs \ todo
         /\ job[cur].status # "absent"
         /\ wpc \notin Failing => ~Finished(cur) /\ (unwritten \/ job[cur].status = "running")
         /\ wpc \in Failing => unwritten \/ job[cur].status # "running"
    ELSE cur = 0

\* Every copy of a row that may yet be written is as good as a row.
CopiesPlayable ==
    /\ wpc = "peaks" => T \in encoded
    /\ wpc = "write" => Playable(T, copy) /\ copy.status = "ready"
    /\ wpc = "rewrite" => copy.status = "failed"
    /\ wpc = "close" => Ended(T) \/ T \in behind
    /\ \A e \in Requests :
         /\ pc[e] # "idle" => at[e] \in Uploaded
         /\ pc[e] = "update" => Playable(at[e], held[e]) /\ held[e].status # "absent"

\* The segments below d are shown to listeners, or are about to be.
Names(r, d) == r.status = "ready" /\ r.hls = d
Shown(d) ==
    \/ \E t \in Tracks : Names(row[t], d)
    \/ \E e \in Requests : pc[e] = "update" /\ Names(held[e], d)
    \/ wpc = "write" /\ Names(copy, d)

\* The job has left its segments and will not run again.
Over(j) == job[j].status \in {"running", "ready"} /\ (cur = j => wpc \in {"write", "close"})

\* The job whose segments are shown is over.
ShownByOver ==
    unwritten \/ \A d \in Tracks : Shown(d) => \E j \in Jobs : job[j].track = d /\ Over(j)

\* A track without a job has been pending all the while, in every copy of its row too.
Untouched(t) ==
    /\ row[t].status = "pending"
    /\ \A e \in Requests : pc[e] = "update" /\ at[e] = t => held[e].status = "pending"
    /\ Queuing(t) \/ t \in behind

Queued == \A t \in Uploaded : HasJob(t) \/ Untouched(t)

\* These hold together, and ReadyPlayable with them: a row that is ready stays
\* playable through every stale copy of it.
Inv ==
    /\ TypeOK
    /\ Listed
    /\ AtWork
    /\ CopiesPlayable
    /\ ShownByOver
    /\ Queued
    /\ ReadyPlayable
    /\ RunningIsRun
    /\ TrackTold
=============================================================================
