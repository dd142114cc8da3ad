--------------------------- MODULE TranscodeProofs ---------------------------
(***************************************************************************)
(* Proofs about Transcode, for any tracks and contents, any number of jobs *)
(* and requests and any faults.  Inv is inductive: a row that may yet be   *)
(* written says "ready" only of segments that are whole, those shown were  *)
(* left by a job that will not run again, the worker's list and its own    *)
(* job are as it left them, and the track of a job that has ended has been *)
(* told, unless that write was lost.                                       *)
(***************************************************************************)
EXTENDS Transcode, TLAPS

\* The rows of the job table, as TypeOK has them.
JobRows == [track : Tracks \cup {NoDir},
            status : {"absent", "pending", "running", "failed", "ready"},
            attempts : 0 .. MaxAttempts]

-----------------------------------------------------------------------------
(* The two writes *)

\* Updating a job changes that job's status and attempts, or nothing and then it is
\* remembered that something went wrong.
LEMMA JobUpdated ==
    ASSUME TypeOK, NEW j \in Jobs, NEW n \in 0 .. MaxAttempts,
           NEW s \in {"running", "failed", "ready"}, UpdateJob(j, s, n)
    PROVE  /\ job' \in [Jobs -> JobRows]
           /\ unwritten' \in BOOLEAN
           /\ unwritten => unwritten'
           /\ \A i \in Jobs : job'[i].track = job[i].track
           /\ \A i \in Jobs \ {j} : job'[i] = job[i]
           /\ \/ job'[j].status = s /\ job'[j].attempts = n
              \/ job'[j] = job[j] /\ unwritten'
<1>1. job \in [Jobs -> JobRows] /\ unwritten \in BOOLEAN
  BY DEF TypeOK, JobRows
<1>2. s \in {"absent", "pending", "running", "failed", "ready"} /\ DOMAIN job = Jobs
  BY <1>1
<1>3. CASE job' = job /\ unwritten' = TRUE
  BY <1>1, <1>3
<1>4. CASE job' = [job EXCEPT ![j].status = s, ![j].attempts = n] /\ unwritten' = unwritten
  <2>1. job'[j] = [job[j] EXCEPT !.status = s, !.attempts = n]
    BY <1>1, <1>4
  <2>2. job[j] \in JobRows
    BY <1>1
  <2>3. job'[j] \in JobRows /\ job'[j].track = job[j].track
        /\ job'[j].status = s /\ job'[j].attempts = n
    BY <2>1, <2>2, <1>2 DEF JobRows
  <2>4. \A i \in Jobs \ {j} : job'[i] = job[i]
    BY <1>1, <1>4
  <2>5. job' = [i \in Jobs |-> job'[i]]
    BY <1>1, <1>4
  <2>6. job' \in [Jobs -> JobRows]
    BY <1>1, <2>3, <2>4, <2>5
  <2> QED
    BY <1>1, <1>4, <2>3, <2>4, <2>6
<1> QED
  BY <1>3, <1>4 DEF UpdateJob

\* A new job takes a number that was free; the others are left alone.
LEMMA JobCreated ==
    ASSUME TypeOK, NEW t \in Tracks, CreateJob(t)
    PROVE  /\ job' \in [Jobs -> JobRows]
           /\ \A i \in Jobs :
                \/ job'[i] = job[i]
                \/ /\ job[i].status = "absent"
                   /\ job'[i].track = t /\ job'[i].status = "pending"
<1>1. job \in [Jobs -> JobRows]
  BY DEF TypeOK, JobRows
<1>2. PICK j \in Unused :
        job' = [job EXCEPT ![j] = [track |-> t, status |-> "pending", attempts |-> 0]]
  BY DEF CreateJob
<1>3. j \in Jobs /\ job[j].status = "absent"
  BY DEF Unused
<1>4. 0 \in 0 .. MaxAttempts
  BY TranscodeAssumption
<1> QED
  BY <1>1, <1>2, <1>3, <1>4 DEF JobRows

\* A row is replaced by one that is as good, or stays.
LEMMA RowUpdated ==
    ASSUME TypeOK, ReadyPlayable, NEW t \in Uploaded, NEW r \in Rows, Playable(t, r),
           r.status # "absent", UpdateTrack(t, r), UNCHANGED <<encoded, job, unwritten>>
    PROVE  /\ row' \in [Tracks -> Rows] /\ ReadyPlayable'
           /\ row'[t] \in {r, row[t]} /\ row'[t].status # "absent"
           /\ \A s \in Tracks \ {t} : row'[s] = row[s]
           /\ Uploaded' = Uploaded
<1>1. row \in [Tracks -> Rows] /\ t \in Tracks /\ row[t].status # "absent"
  BY DEF TypeOK, Uploaded
<1>4. \A d \in Tracks : Whole(d)' = Whole(d)
  BY DEF Whole, Retried, Unused
<1>2. CASE row' = row
  BY <1>1, <1>2, <1>4 DEF ReadyPlayable, Playable, Uploaded
<1>3. CASE row' = [row EXCEPT ![t] = r]
  <2>1. row' \in [Tracks -> Rows] /\ row'[t] = r /\ \A s \in Tracks \ {t} : row'[s] = row[s]
    BY <1>1, <1>3
  <2>2. ReadyPlayable'
    BY <1>1, <1>4, <2>1 DEF ReadyPlayable, Playable
  <2>3. Uploaded' = Uploaded
    BY <1>1, <2>1 DEF Uploaded
  <2> QED
    BY <2>1, <2>2, <2>3
<1> QED
  BY <1>2, <1>3 DEF UpdateTrack

\* Whoever writes a row, or fails to, leaves no track pending unnoticed.
LEMMA WriteNoted ==
    ASSUME TypeOK, NEW t \in Tracks, NEW lost \in BOOLEAN, Noted(t, lost),
           row' \in [Tracks -> Rows], row'[t].status # "absent",
           \A s \in Tracks \ {t} : row'[s] = row[s], lost \/ ~Ended(t)
    PROVE  /\ behind' \subseteq Tracks
           /\ \A s \in Tracks : Ended(s) \/ s \in behind => Ended(s)' \/ s \in behind'
           /\ lost => Ended(t)' \/ t \in behind'
<1>1. behind \subseteq Tracks
  BY DEF TypeOK
<1>2. row'[t].status \in {"pending", "ready", "failed"}
  BY DEF Rows
<1>3. CASE row'[t].status # "pending"
  <2>1. behind' = behind \ {t} /\ Ended(t)'
    BY <1>2, <1>3 DEF Noted, Ended
  <2> QED
    BY <1>1, <2>1 DEF Ended
<1>4. CASE row'[t].status = "pending" /\ lost
  <2>1. behind' = behind \cup {t}
    BY <1>4 DEF Noted
  <2> QED
    BY <1>1, <2>1 DEF Ended
<1>5. CASE row'[t].status = "pending" /\ ~lost
  <2>1. behind' = behind
    BY <1>5 DEF Noted
  <2> QED
    BY <1>1, <1>5, <2>1 DEF Ended
<1> QED
  BY <1>3, <1>4, <1>5

\* A job keeps its track and is never removed.
LEMMA JobsKeep ==
    ASSUME \A i \in Jobs : job[i].status # "absent" =>
               job'[i].status # "absent" /\ job'[i].track = job[i].track
    PROVE  \A t \in Tracks : HasJob(t) => HasJob(t)'
  BY DEF HasJob

\* What JobsKeep is needed for, where neither a row nor a request changes.
LEMMA QueuedKept ==
    ASSUME Queued, UNCHANGED <<row, pc, at, held, behind>>, unwritten => unwritten',
           \A t \in Tracks : HasJob(t) => HasJob(t)'
    PROVE  Queued'
  BY DEF Queued, Untouched, Queuing, Uploaded

\* Segments stay whole where they are not written over.
LEMMA StaysWhole ==
    ASSUME encoded \subseteq encoded', unwritten => unwritten',
           \A i \in Jobs : job[i].status # "absent" =>
               job'[i].status # "absent" /\ job'[i].track = job[i].track
    PROVE  \A d \in Tracks : Whole(d) => Whole(d)'
  BY DEF Whole, Retried, Unused

\* No segments are shown that were not, and who is over is over.
LEMMA ShownKept ==
    ASSUME ShownByOver, unwritten => unwritten', \A d \in Tracks : Shown(d)' => Shown(d),
           \A j \in Jobs : Over(j) => Over(j)' /\ job'[j].track = job[j].track
    PROVE  ShownByOver'
  BY DEF ShownByOver

\* Where the rows and the copies of them stay, the same segments are shown.
LEMMA ShownAsBefore ==
    ASSUME UNCHANGED <<row, pc, held>>, wpc' # "write"
    PROVE  \A d \in Tracks : Shown(d)' => Shown(d)
  BY DEF Shown, Names

\* The worker is at a job of a track.
LEMMA WorkerTrack ==
    ASSUME Inv, Busy
    PROVE  cur \in Jobs /\ cur \notin todo /\ cur # 0 /\ T \in Tracks /\ T \in Uploaded /\ HasJob(T)
<1>1. cur \in Jobs /\ cur \notin todo /\ job[cur].status # "absent"
  BY DEF Inv, AtWork
<1>2. job[cur].track \in Uploaded /\ job[cur].track \in Tracks
  BY <1>1 DEF Inv, Listed, Uploaded
<1>3. cur # 0
  BY <1>1, TranscodeAssumption DEF Jobs
<1> QED
  BY <1>1, <1>2, <1>3 DEF T, HasJob

-----------------------------------------------------------------------------
(* One lemma per action, or per group of actions alike: it preserves Inv. *)

\* The tables are empty at first.
LEMMA InitInv == Init => Inv
<1> SUFFICES ASSUME Init PROVE Inv
  OBVIOUS
<1>1. NoRow \in Rows /\ NoRow.status = "absent"
  BY DEF NoRow, Rows
<1>2. \A j \in Jobs : job[j].status = "absent"
  BY DEF Init, NoJob
<1>3. TypeOK
  <2>1. 0 \in 0 .. MaxAttempts
    BY TranscodeAssumption
  <2>2. NoJob \in JobRows
    BY <2>1 DEF NoJob, JobRows
  <2>3. job \in [Jobs -> JobRows]
    BY <2>2 DEF Init
  <2> QED
    BY <1>1, <2>1, <2>3 DEF Init, TypeOK, JobRows
<1> QED
  BY <1>1, <1>2, <1>3
     DEF Init, Inv, Listed, AtWork, CopiesPlayable, Busy, ReadyPlayable, Playable, RunningIsRun,
         TrackTold, Queued, Uploaded, ShownByOver, Shown, Names

\* The worker moves on without a write: Tick, TrackByID, CacheHit, CacheMiss, Peaks,
\* EngineFails.  What it is about to write must be playable.
LEMMA TickInv == ASSUME Inv, Tick PROVE Inv'
<1>1. TypeOK'
  BY DEF Inv, TypeOK, Tick, PendingJobs, api
<1>2. Listed'
  BY DEF Inv, Listed, Tick, PendingJobs, Uploaded
<1>3. AtWork'
  BY DEF Inv, AtWork, Tick, Busy
<1>8. \A d \in Tracks : Whole(d) => Whole(d)'
  BY StaysWhole DEF Tick
<1>4. CopiesPlayable' /\ ReadyPlayable'
  BY <1>8 DEF Inv, CopiesPlayable, ReadyPlayable, Playable, Tick, api, Uploaded
<1>5. RunningIsRun'
  BY DEF Inv, RunningIsRun, Busy, Tick
<1>6. TrackTold'
  BY DEF Inv, TrackTold, Ended, Failing, Tick
<1>7. Queued'
  BY DEF Inv, Queued, Untouched, HasJob, Queuing, Uploaded, Tick, api
<1>9. ShownByOver'
  <2>1. \A d \in Tracks : Shown(d)' => Shown(d)
    BY ShownAsBefore DEF Tick, api
  <2>2. \A j \in Jobs : Over(j) => Over(j)'
    BY DEF Inv, AtWork, Busy, Over, Tick, Jobs
  <2> QED
    BY <2>1, <2>2, ShownKept DEF Inv, Tick
<1> QED
  BY <1>1, <1>2, <1>3, <1>4, <1>5, <1>6, <1>7, <1>9 DEF Inv

\* Starting a job makes it the worker's own.
LEMMA TakeInv == ASSUME Inv, Take PROVE Inv'
<1>1. PICK j \in todo :
        /\ cur' = j /\ todo' = todo \ {j} /\ tries' = job[j].attempts + 1
        /\ UpdateJob(j, "running", job[j].attempts + 1)
  BY DEF Take
<1>2. /\ TypeOK /\ j \in Jobs /\ job[j].status \in {"pending", "failed"}
      /\ job[j].attempts + 1 \in 0 .. MaxAttempts
  BY TranscodeAssumption DEF Inv, TypeOK, Listed
<1>3. /\ job' \in [Jobs -> JobRows]
      /\ unwritten' \in BOOLEAN
      /\ unwritten => unwritten'
      /\ \A i \in Jobs : job'[i].track = job[i].track
      /\ \A i \in Jobs \ {j} : job'[i] = job[i]
      /\ \/ job'[j].status = "running" /\ job'[j].attempts = job[j].attempts + 1
         \/ job'[j] = job[j] /\ unwritten'
  BY <1>1, <1>2, JobUpdated
<1>4. TypeOK'
  BY <1>1, <1>2, <1>3 DEF TypeOK, Take, JobRows, api
<1>5. Listed'
  BY <1>1, <1>2, <1>3 DEF Inv, TypeOK, Listed, Take, Uploaded
<1>6. AtWork'
  BY <1>1, <1>2, <1>3 DEF Inv, TypeOK, Listed, AtWork, Take, Busy, Finished, Failing
<1>11. \A d \in Tracks : Whole(d) => Whole(d)'
  BY <1>1, <1>2, <1>3, StaysWhole DEF Take
<1>7. CopiesPlayable' /\ ReadyPlayable'
  BY <1>11 DEF Inv, CopiesPlayable, ReadyPlayable, Playable, Take, api, Uploaded
<1>8. RunningIsRun'
  <2>1. unwritten \/ \A i \in Jobs : job[i].status = "running" => i \in cut
    BY DEF Inv, RunningIsRun, Busy, Take
  <2> QED
    BY <1>1, <1>3, <2>1 DEF RunningIsRun, Busy, Take
<1>9. TrackTold'
  <2>1. UNCHANGED <<row, behind>> /\ wpc \notin Failing
    BY DEF Take, Failing
  <2>2. \A i \in Jobs : /\ job'[i].track = job[i].track
                        /\ job'[i].status \in {"ready", "failed"} => job'[i].status = job[i].status
    BY <1>1, <1>3
  <2> QED
    BY <2>1, <2>2 DEF Inv, TrackTold, Ended
<1>10. Queued'
  <2>1. \A i \in Jobs : job[i].status # "absent" =>
                           job'[i].status # "absent" /\ job'[i].track = job[i].track
    BY <1>1, <1>3
  <2> QED
    BY <1>1, <1>3, <2>1, JobsKeep, QueuedKept DEF Inv, Take, api
<1>12. ShownByOver'
  <2>1. \A d \in Tracks : Shown(d)' => Shown(d)
    BY ShownAsBefore DEF Take, api
  <2>2. \A i \in Jobs : Over(i) => Over(i)'
    BY <1>1, <1>2, <1>3 DEF Over
  <2> QED
    BY <1>3, <2>1, <2>2, ShownKept DEF Inv
<1> QED
  BY <1>4, <1>5, <1>6, <1>7, <1>8, <1>9, <1>10, <1>12 DEF Inv

\* Reading on, with nothing to write yet.
LEMMA LookInv == ASSUME Inv, TrackByID \/ CacheMiss \/ EngineFails PROVE Inv'
<1>1. /\ Busy /\ Busy' /\ wpc \in {"read", "cache", "probe", "encode", "encoding", "peaks"}
      /\ wpc' \in {"cache", "probe", "fail"}
      /\ UNCHANGED <<row, job, encoded, todo, cur, tries, copy, pc, at, held, unwritten, cut,
                    behind>>
  BY DEF TrackByID, CacheMiss, EngineFails, Goto, Busy, api
<1>2. TypeOK'
  BY <1>1 DEF Inv, TypeOK
<1>3. Listed'
  BY <1>1 DEF Inv, Listed, Uploaded
<1>4. AtWork'
  BY <1>1 DEF Inv, AtWork, Finished, Failing
<1>9. \A d \in Tracks : Whole(d) => Whole(d)'
  BY <1>1, StaysWhole
<1>5. CopiesPlayable' /\ ReadyPlayable'
  BY <1>1, <1>9 DEF Inv, CopiesPlayable, ReadyPlayable, Playable, Uploaded
<1>6. RunningIsRun'
  BY <1>1 DEF Inv, RunningIsRun, Busy
<1>7. TrackTold'
  BY <1>1 DEF Inv, TrackTold, Ended, Failing
<1>8. Queued'
  BY <1>1 DEF Inv, Queued, Untouched, HasJob, Queuing, Uploaded
<1>10. ShownByOver'
  <2>1. \A d \in Tracks : Shown(d)' => Shown(d)
    BY <1>1, ShownAsBefore
  <2>2. \A i \in Jobs : Over(i) => Over(i)'
    BY <1>1 DEF Over
  <2> QED
    BY <1>1, <2>1, <2>2, ShownKept DEF Inv
<1> QED
  BY <1>2, <1>3, <1>4, <1>5, <1>6, <1>7, <1>8, <1>10 DEF Inv

\* The row about to be written is ready: the segments are a sibling's, which has them
\* and the same content, or those this run has just left.
LEMMA FoundInv == ASSUME Inv, CacheHit \/ Peaks PROVE Inv'
<1>1. /\ Busy /\ Busy' /\ wpc \in {"cache", "peaks"} /\ wpc' = "write"
      /\ UNCHANGED <<row, job, encoded, todo, cur, tries, pc, at, held, unwritten, cut, behind>>
  BY DEF CacheHit, Peaks, Goto, Busy, api
<1>2. T \in Tracks /\ T' = T
  BY <1>1, WorkerTrack DEF T
<1>3. copy' \in Rows /\ Playable(T, copy') /\ copy'.status = "ready"
  <2>1. CASE CacheHit
    <3>1. PICK s \in Siblings : copy' = [status |-> "ready", hls |-> row[s].hls]
      BY <2>1 DEF CacheHit
    <3>2. /\ s \in Tracks /\ Content[s] = Content[T]
          /\ row[s].status = "ready" /\ row[s] \in Rows
      BY <3>1 DEF Siblings, Inv, TypeOK
    <3>3. /\ row[s].hls \in Tracks /\ Whole(row[s].hls)
          /\ Content[row[s].hls] = Content[s]
      BY <3>2 DEF Inv, ReadyPlayable, Playable
    <3> QED
      BY <3>1, <3>2, <3>3 DEF Playable, Rows
  <2>2. CASE Peaks
    BY <2>2, <1>2 DEF Peaks, Inv, CopiesPlayable, Playable, Whole, Rows
  <2> QED
    BY <2>1, <2>2
<1>11. \A d \in Tracks : Whole(d) => Whole(d)'
  BY <1>1, StaysWhole
<1>4. TypeOK'
  BY <1>1, <1>3 DEF Inv, TypeOK
<1>5. Listed'
  BY <1>1 DEF Inv, Listed, Uploaded
<1>6. AtWork'
  BY <1>1 DEF Inv, AtWork, Finished, Failing
<1>7. CopiesPlayable' /\ ReadyPlayable'
  BY <1>1, <1>2, <1>3, <1>11 DEF Inv, CopiesPlayable, ReadyPlayable, Playable, Uploaded
<1>8. RunningIsRun'
  BY <1>1 DEF Inv, RunningIsRun, Busy
<1>9. TrackTold'
  BY <1>1 DEF Inv, TrackTold, Ended, Failing
<1>10. Queued'
  BY <1>1 DEF Inv, Queued, Untouched, HasJob, Queuing, Uploaded
<1>12. ShownByOver'
  <2>1. \A i \in Jobs : Over(i) => Over(i)'
    BY <1>1 DEF Over
  <2>2. \A d \in Tracks : Shown(d)' => Shown(d) \/ Names(copy', d)
    BY <1>1 DEF Shown, Names
  <2>3. CASE CacheHit
    <3>1. PICK s \in Tracks : /\ row[s].status = "ready"
                             /\ copy' = [status |-> "ready", hls |-> row[s].hls]
      BY <2>3 DEF CacheHit, Siblings
    <3>2. \A d \in Tracks : Names(copy', d) => Shown(d)
      BY <3>1 DEF Shown, Names
    <3> QED
      BY <1>1, <2>1, <2>2, <3>2, ShownKept DEF Inv
  <2>4. CASE Peaks
    <3>1. \A d \in Tracks : Names(copy', d) => d = T
      BY <2>4 DEF Peaks, Names
    <3>2. cur \in Jobs /\ (unwritten \/ job[cur].status = "running")
      BY <1>1, <2>4, WorkerTrack DEF Inv, AtWork, Failing, Peaks
    <3>3. job'[cur].track = T /\ (unwritten \/ Over(cur)')
      BY <1>1, <3>2 DEF Over, T
    <3> QED
      BY <1>1, <2>1, <2>2, <3>1, <3>2, <3>3 DEF Inv, ShownByOver
  <2> QED
    BY <2>3, <2>4
<1> QED
  BY <1>4, <1>5, <1>6, <1>7, <1>8, <1>9, <1>10, <1>12 DEF Inv

\* ffmpeg runs: the job says so, and in the end the segments are there.
LEMMA EngineInv == ASSUME Inv, Probe \/ Encode PROVE Inv'
<1>1. /\ Busy /\ Busy' /\ wpc \in {"probe", "encoding"} /\ wpc' \in {"encode", "peaks"}
      /\ UpdateJob(cur, "running", tries)
      /\ UNCHANGED <<row, todo, cur, tries, copy, pc, at, held, cut, behind>>
  BY DEF Probe, Encode, Goto, Busy, api
<1>2. cur \in Jobs /\ cur \notin todo /\ T \in Tracks
  BY <1>1, WorkerTrack
<1>3. TypeOK /\ tries \in 0 .. MaxAttempts
  BY DEF Inv, TypeOK
<1>4. /\ job' \in [Jobs -> JobRows]
      /\ unwritten' \in BOOLEAN
      /\ unwritten => unwritten'
      /\ \A i \in Jobs : job'[i].track = job[i].track
      /\ \A i \in Jobs \ {cur} : job'[i] = job[i]
      /\ \/ job'[cur].status = "running" /\ job'[cur].attempts = tries
         \/ job'[cur] = job[cur] /\ unwritten'
  BY <1>1, <1>2, <1>3, JobUpdated
<1>5. T' = T
  BY <1>1, <1>2, <1>4 DEF T
<1>6. /\ encoded \subseteq encoded' /\ encoded' \subseteq Tracks
      /\ wpc' = "peaks" => T \in encoded'
  BY <1>2, <1>3 DEF Probe, Encode, Goto, TypeOK
<1>14. job[cur].status # "absent" /\ job'[cur].status # "absent"
  BY <1>1, <1>4 DEF Inv, AtWork
<1>15. \A i \in Jobs : job[i].status # "absent" =>
                          job'[i].status # "absent" /\ job'[i].track = job[i].track
  BY <1>2, <1>4, <1>14
<1>16. \A d \in Tracks : Whole(d) => Whole(d)'
  BY <1>4, <1>6, <1>15, StaysWhole
<1>7. TypeOK'
  BY <1>1, <1>3, <1>4, <1>6 DEF TypeOK, JobRows
<1>8. Listed'
  <2>1. Uploaded' = Uploaded /\ todo' = todo
    BY <1>1 DEF Uploaded
  <2>2. job[cur].status # "absent"
    BY <1>1 DEF Inv, AtWork
  <2>3. \A i \in Jobs : job'[i].status # "absent" => job[i].status # "absent"
    BY <1>2, <1>4, <2>2
  <2>4. todo \subseteq Jobs \ {cur}
    BY <1>2, <1>3 DEF TypeOK
  <2> QED
    BY <1>4, <2>1, <2>3, <2>4 DEF Inv, Listed
<1>9. AtWork'
  BY <1>1, <1>2, <1>4 DEF Inv, AtWork, Finished, Failing
<1>10. CopiesPlayable' /\ ReadyPlayable'
  BY <1>1, <1>5, <1>6, <1>16 DEF Inv, CopiesPlayable, ReadyPlayable, Playable, Uploaded
<1>11. RunningIsRun'
  BY <1>1, <1>2, <1>4 DEF Inv, RunningIsRun, Busy
<1>12. TrackTold'
  <2>1. \A i \in Jobs : /\ job'[i].track = job[i].track
                        /\ job'[i].status \in {"ready", "failed"} => job'[i].status = job[i].status
    BY <1>2, <1>4
  <2> QED
    BY <1>1, <2>1 DEF Inv, TrackTold, Ended, Failing
<1>13. Queued'
  BY <1>1, <1>4, <1>15, JobsKeep, QueuedKept DEF Inv
<1>17. ShownByOver'
  <2>1. \A d \in Tracks : Shown(d)' => Shown(d)
    BY <1>1, ShownAsBefore
  <2>2. \A i \in Jobs : Over(i) => Over(i)'
    BY <1>1, <1>2, <1>4 DEF Over
  <2> QED
    BY <1>4, <2>1, <2>2, ShownKept DEF Inv
<1> QED
  BY <1>7, <1>8, <1>9, <1>10, <1>11, <1>12, <1>13, <1>17 DEF Inv

\* ffmpeg writes over the segments of the track: if they are shown then by a job that is
\* over, so that this one is a retry.
LEMMA OverwriteInv == ASSUME Inv, Overwrite PROVE Inv'
<1>1. /\ wpc = "encode" /\ wpc' = "encoding" /\ encoded' = encoded \ {T} /\ Busy /\ Busy'
      /\ UNCHANGED <<row, job, todo, cur, tries, copy, pc, at, held, unwritten, cut, behind>>
  BY DEF Overwrite, Goto, Busy, api
<1>2. cur \in Jobs /\ T \in Tracks /\ job[cur].status # "absent" /\ job[cur].track = T
  BY <1>1, WorkerTrack DEF Inv, AtWork, T
<1>3. \A d \in Tracks : Shown(d) /\ Whole(d) => Whole(d)'
  <2>1. ASSUME NEW d \in Tracks, d # T, Whole(d) PROVE Whole(d)'
    BY <1>1, <2>1 DEF Whole, Retried, Unused
  <2>2. ASSUME NEW d \in Tracks, d = T, Shown(d), ~unwritten PROVE Whole(d)'
    <3>1. PICK j \in Jobs : job[j].track = d /\ Over(j)
      BY <2>2 DEF Inv, ShownByOver
    <3>2. j # cur /\ job[j].status # "absent"
      BY <1>1, <3>1 DEF Over
    <3>3. job'[j].status # "absent" /\ job'[cur].status # "absent"
          /\ job'[j].track = d /\ job'[cur].track = d
      BY <1>1, <1>2, <2>2, <3>1, <3>2
    <3> QED
      BY <1>2, <3>2, <3>3 DEF Whole, Retried, Unused
  <2>3. ASSUME unwritten, NEW d \in Tracks PROVE Whole(d)'
    BY <1>1, <2>3 DEF Whole
  <2> QED
    BY <2>1, <2>2, <2>3
<1>4. TypeOK'
  BY <1>1 DEF Inv, TypeOK
<1>5. Listed'
  BY <1>1 DEF Inv, Listed, Uploaded
<1>6. AtWork'
  BY <1>1 DEF Inv, AtWork, Finished, Failing
<1>7. ReadyPlayable'
  <2>1. ASSUME NEW t \in Tracks, row[t].status = "ready" PROVE Shown(row[t].hls)
    BY <2>1 DEF Shown, Names
  <2> QED
    BY <1>1, <1>3, <2>1 DEF Inv, ReadyPlayable, Playable
<1>8. CopiesPlayable'
  <2>1. ASSUME NEW e \in Requests, pc[e] = "update", held[e].status = "ready"
        PROVE  Shown(held[e].hls)
    BY <2>1 DEF Shown, Names
  <2> QED
    BY <1>1, <1>3, <2>1 DEF Inv, CopiesPlayable, Playable, Uploaded
<1>9. RunningIsRun'
  BY <1>1 DEF Inv, RunningIsRun
<1>10. TrackTold'
  BY <1>1 DEF Inv, TrackTold, Ended, Failing
<1>11. Queued'
  BY <1>1 DEF Inv, Queued, Untouched, HasJob, Queuing, Uploaded
<1>12. ShownByOver'
  <2>1. \A d \in Tracks : Shown(d)' => Shown(d)
    BY <1>1, ShownAsBefore
  <2>2. \A i \in Jobs : Over(i) => Over(i)'
    BY <1>1 DEF Over
  <2> QED
    BY <1>1, <2>1, <2>2, ShownKept DEF Inv
<1> QED
  BY <1>4, <1>5, <1>6, <1>7, <1>8, <1>9, <1>10, <1>11, <1>12 DEF Inv

\* The track row of the job is replaced; after a failure runOne returns.
LEMMA WriteInv == ASSUME Inv, WriteTrack \/ FailTrack PROVE Inv'
<1>1. /\ Busy /\ wpc \in {"write", "rewrite"}
      /\ UpdateTrack(T, copy) /\ Noted(T, TRUE)
      /\ UNCHANGED <<job, encoded, todo, pc, at, held, unwritten, cut>>
      /\ \/ wpc = "write" /\ wpc' = "close" /\ UNCHANGED <<cur, tries, copy>>
         \/ /\ wpc = "rewrite" /\ wpc' \in {"idle", "take"} /\ cur' = 0 /\ tries' = 0
            /\ copy' = NoRow
            /\ wpc' = "idle" => todo = {}
  BY DEF WriteTrack, FailTrack, Goto, Return, Busy, api
<1>2. cur \in Jobs /\ T \in Tracks /\ T \in Uploaded
  BY <1>1, WorkerTrack
<1>3. TypeOK /\ copy \in Rows /\ Playable(T, copy) /\ ReadyPlayable
      /\ copy.status # "absent"
  BY <1>1 DEF Inv, TypeOK, CopiesPlayable, Playable
<1>4. /\ row' \in [Tracks -> Rows] /\ ReadyPlayable'
      /\ row'[T].status # "absent"
      /\ \A s \in Tracks \ {T} : row'[s] = row[s]
      /\ Uploaded' = Uploaded
  BY <1>1, <1>2, <1>3, RowUpdated
<1>5. NoRow \in Rows /\ 0 \in 0 .. MaxAttempts
  BY TranscodeAssumption DEF NoRow, Rows
<1>11. /\ behind' \subseteq Tracks
       /\ \A s \in Tracks : Ended(s) \/ s \in behind => Ended(s)' \/ s \in behind'
       /\ row'[T].status \in {"ready", "failed"} \/ T \in behind'
  <2>1. row'[T].status \in {"pending", "ready", "failed"}
    BY <1>2, <1>4 DEF Rows
  <2>2. behind \subseteq Tracks
    BY <1>3 DEF TypeOK
  <2>3. CASE row'[T].status = "pending"
    <3>1. behind' = behind \cup {T}
      BY <1>1, <2>3 DEF Noted
    <3> QED
      BY <1>2, <1>4, <2>2, <3>1 DEF Ended
  <2>4. CASE row'[T].status # "pending"
    <3>1. behind' = behind \ {T}
      BY <1>1, <2>4 DEF Noted
    <3> QED
      BY <1>2, <1>4, <2>1, <2>2, <2>4, <3>1 DEF Ended
  <2> QED
    BY <2>3, <2>4
<1>6. TypeOK'
  BY <1>1, <1>3, <1>4, <1>5, <1>11 DEF TypeOK
<1>7. Listed'
  BY <1>1, <1>4 DEF Inv, Listed
<1>8. AtWork'
  BY <1>1 DEF Inv, AtWork, Finished, Busy, Failing
<1>14. \A d \in Tracks : Whole(d) => Whole(d)'
  BY <1>1, StaysWhole
<1>9. CopiesPlayable'
  BY <1>1, <1>4, <1>11, <1>14 DEF Inv, CopiesPlayable, Playable, Ended, T
<1>10. RunningIsRun'
  BY <1>1, <1>2 DEF Inv, RunningIsRun, AtWork, Busy, Failing
<1>12. TrackTold'
  <2> SUFFICES ASSUME NEW j \in Jobs, job[j].status \in {"ready", "failed"}
               PROVE  Ended(job[j].track)' \/ job[j].track \in behind'
    BY <1>1 DEF TrackTold, Ended
  <2>1. job[j].track \in Tracks
    BY DEF Inv, Listed, Uploaded
  <2>2. CASE Ended(job[j].track) \/ job[j].track \in behind
    BY <1>1, <1>11, <2>1, <2>2 DEF Ended
  <2>3. CASE cur = j
    BY <1>1, <1>11, <2>3 DEF T, Ended
  <2> QED
    BY <2>2, <2>3 DEF Inv, TrackTold
<1>13. Queued'
  <2>1. HasJob(T) /\ \A t \in Tracks : HasJob(t)' <=> HasJob(t)
    BY <1>1, WorkerTrack DEF HasJob
  <2>2. \A t \in Tracks \ {T} : t \in behind => t \in behind'
    BY <1>1 DEF Noted
  <2> QED
    BY <1>1, <1>4, <2>1, <2>2 DEF Inv, Queued, Untouched, Queuing, Uploaded
<1>15. ShownByOver'
  <2>1. \A i \in Jobs : Over(i) => Over(i)'
    BY <1>1, <1>2, TranscodeAssumption DEF Over, Jobs
  <2>2. \A s \in Tracks : row'[s] = row[s] \/ (s = T /\ row'[s] = copy)
    BY <1>1, <1>2, <1>3, <1>4, RowUpdated
  <2>3. copy.status = "ready" => wpc = "write"
    BY <1>1 DEF Inv, CopiesPlayable
  <2>4. \A d \in Tracks : Shown(d)' => Shown(d)
    BY <1>1, <2>2, <2>3 DEF Shown, Names
  <2> QED
    BY <1>1, <2>1, <2>4, ShownKept DEF Inv
<1> QED
  BY <1>4, <1>6, <1>7, <1>8, <1>9, <1>10, <1>12, <1>13, <1>15 DEF Inv

\* The job ends, well or badly, and is the worker's no longer.
LEMMA EndJobInv == ASSUME Inv, CloseJob \/ FailJob PROVE Inv'
<1>1. PICK s \in {"ready", "failed"} :
        /\ Busy /\ wpc \in {"close", "fail"}
        /\ UpdateJob(cur, s, tries)
        /\ UNCHANGED <<row, encoded, todo, pc, at, held, cut, behind>>
        /\ \/ wpc = "fail" /\ wpc' = "reread" /\ UNCHANGED <<cur, tries, copy>>
           \/ /\ wpc = "close" /\ s = "ready" /\ wpc' \in {"idle", "take"}
            /\ cur' = 0 /\ tries' = 0 /\ copy' = NoRow
  BY DEF CloseJob, FailJob, Goto, Return, Busy, api
<1>2. cur \in Jobs /\ cur \notin todo /\ T \in Tracks
  BY <1>1, WorkerTrack
<1>3. TypeOK /\ tries \in 0 .. MaxAttempts
  BY DEF Inv, TypeOK
<1>4. /\ job' \in [Jobs -> JobRows]
      /\ unwritten' \in BOOLEAN
      /\ unwritten => unwritten'
      /\ \A i \in Jobs : job'[i].track = job[i].track
      /\ \A i \in Jobs \ {cur} : job'[i] = job[i]
      /\ \/ job'[cur].status = s /\ job'[cur].attempts = tries
         \/ job'[cur] = job[cur] /\ unwritten'
  BY <1>1, <1>2, <1>3, JobUpdated
<1>5. NoRow \in Rows /\ 0 \in 0 .. MaxAttempts
  BY TranscodeAssumption DEF NoRow, Rows
<1>13. \A i \in Jobs : job[i].status # "absent" =>
                          job'[i].status # "absent" /\ job'[i].track = job[i].track
  BY <1>2, <1>4
<1>14. \A d \in Tracks : Whole(d) => Whole(d)'
  BY <1>1, <1>4, <1>13, StaysWhole
<1>6. TypeOK'
  BY <1>1, <1>3, <1>4, <1>5 DEF TypeOK, JobRows
<1>7. Listed'
  <2>1. Uploaded' = Uploaded /\ todo' = todo
    BY <1>1 DEF Uploaded
  <2>2. job[cur].status # "absent"
    BY <1>1 DEF Inv, AtWork
  <2>3. \A i \in Jobs : job'[i].status # "absent" => job[i].status # "absent"
    BY <1>2, <1>4, <2>2
  <2>4. todo \subseteq Jobs \ {cur}
    BY <1>2, <1>3 DEF TypeOK
  <2> QED
    BY <1>4, <2>1, <2>3, <2>4 DEF Inv, Listed
<1>8. AtWork'
  BY <1>1, <1>2, <1>4 DEF Inv, AtWork, Finished, Busy, Failing
<1>9. CopiesPlayable' /\ ReadyPlayable'
  BY <1>1, <1>14 DEF Inv, CopiesPlayable, ReadyPlayable, Playable, Uploaded
<1>10. RunningIsRun'
  BY <1>1, <1>2, <1>4 DEF Inv, RunningIsRun, Busy
<1>11. TrackTold'
  <2> SUFFICES ASSUME NEW j \in Jobs, job'[j].status \in {"ready", "failed"}
               PROVE  \/ Ended(job[j].track) \/ job[j].track \in behind
                      \/ cur' = j /\ wpc' \in Failing
    BY <1>1, <1>4 DEF TrackTold, Ended
  <2>1. CASE j # cur \/ job'[j] = job[j]
    <3>1. job[j].status \in {"ready", "failed"} /\ wpc \notin Failing
      BY <1>1, <1>4, <2>1 DEF Failing
    <3> QED
      BY <3>1 DEF Inv, TrackTold
  <2>2. CASE j = cur
    BY <1>1, <2>2 DEF Inv, CopiesPlayable, T, Failing
  <2> QED
    BY <2>1, <2>2
<1>12. Queued'
  BY <1>1, <1>4, <1>13, JobsKeep, QueuedKept DEF Inv
<1>15. ShownByOver'
  <2>1. \A d \in Tracks : Shown(d)' => Shown(d)
    BY <1>1, ShownAsBefore
  <2>2. \A i \in Jobs : Over(i) => Over(i)'
    BY <1>1, <1>2, <1>4, TranscodeAssumption DEF Over, Jobs
  <2> QED
    BY <1>4, <2>1, <2>2, ShownKept DEF Inv
<1> QED
  BY <1>6, <1>7, <1>8, <1>9, <1>10, <1>11, <1>12, <1>15 DEF Inv

\* The failed row says "failed", of which Playable asks nothing.
LEMMA RereadInv == ASSUME Inv, Reread PROVE Inv'
<1>1. /\ Busy /\ wpc = "reread"
      /\ UNCHANGED <<row, job, encoded, todo, pc, at, held, unwritten, cut>>
      /\ \/ /\ wpc' = "rewrite" /\ UNCHANGED <<cur, tries>>
            /\ copy' = [row[T] EXCEPT !.status = "failed"] /\ UNCHANGED behind
         \/ wpc' \in {"idle", "take"} /\ cur' = 0 /\ tries' = 0 /\ copy' = NoRow
            /\ Noted(T, TRUE)
  BY DEF Reread, Goto, Return, Busy, api
<1>2. cur \in Jobs /\ T \in Tracks /\ T \in Uploaded
  BY <1>1, WorkerTrack
<1>3. row[T] \in Rows /\ NoRow \in Rows /\ 0 \in 0 .. MaxAttempts
  BY <1>2, TranscodeAssumption DEF Inv, TypeOK, NoRow, Rows
<1>4. copy' \in Rows /\ (wpc' = "rewrite" => copy'.status = "failed")
  BY <1>1, <1>3 DEF Rows
<1>10. /\ behind' \subseteq Tracks
       /\ \A s \in Tracks : Ended(s) \/ s \in behind => Ended(s) \/ s \in behind'
       /\ wpc' # "rewrite" => Ended(T) \/ T \in behind'
  <2>1. behind \subseteq Tracks
    BY DEF Inv, TypeOK
  <2>2. row[T].status \in {"pending", "ready", "failed"} /\ row' = row
    BY <1>1, <1>2, <1>3 DEF Uploaded, Rows
  <2> QED
    BY <1>1, <1>2, <2>1, <2>2 DEF Noted, Ended
<1>5. TypeOK'
  BY <1>1, <1>3, <1>4, <1>10 DEF Inv, TypeOK
<1>6. Listed'
  BY <1>1 DEF Inv, Listed, Uploaded
<1>7. AtWork'
  BY <1>1 DEF Inv, AtWork, Finished, Busy, Failing
<1>13. \A d \in Tracks : Whole(d) => Whole(d)'
  BY <1>1, StaysWhole
<1>8. CopiesPlayable' /\ ReadyPlayable'
  BY <1>1, <1>4, <1>13 DEF Inv, CopiesPlayable, ReadyPlayable, Playable, Uploaded
<1>9. RunningIsRun'
  BY <1>1, <1>2 DEF Inv, RunningIsRun, AtWork, Busy, Failing
<1>11. TrackTold'
  <2> SUFFICES ASSUME NEW j \in Jobs, job[j].status \in {"ready", "failed"}
               PROVE  \/ Ended(job[j].track) \/ job[j].track \in behind'
                      \/ cur' = j /\ wpc' \in Failing
    BY <1>1 DEF TrackTold, Ended
  <2>1. job[j].track \in Tracks
    BY DEF Inv, Listed, Uploaded
  <2>2. CASE Ended(job[j].track) \/ job[j].track \in behind
    BY <1>10, <2>1, <2>2
  <2>3. CASE cur = j
    BY <1>1, <1>10, <2>3 DEF T, Failing
  <2> QED
    BY <2>2, <2>3 DEF Inv, TrackTold
<1>12. Queued'
  <2>1. HasJob(T) /\ \A t \in Tracks : HasJob(t)' <=> HasJob(t)
    BY <1>1, WorkerTrack DEF HasJob
  <2>2. \A t \in Tracks \ {T} : t \in behind => t \in behind'
    BY <1>1 DEF Noted
  <2> QED
    BY <1>1, <2>1, <2>2 DEF Inv, Queued, Untouched, Queuing, Uploaded
<1>14. ShownByOver'
  <2>1. \A d \in Tracks : Shown(d)' => Shown(d)
    BY <1>1, ShownAsBefore
  <2>2. \A i \in Jobs : Over(i) => Over(i)'
    <3>1. job' = job /\ wpc = "reread" /\ cur' \in {cur, 0}
      BY <1>1
    <3>2. 0 \notin Jobs
      BY TranscodeAssumption DEF Jobs
    <3> QED
      BY <3>1, <3>2 DEF Over
  <2> QED
    BY <1>1, <2>1, <2>2, ShownKept DEF Inv
<1> QED
  BY <1>5, <1>6, <1>7, <1>8, <1>9, <1>11, <1>12, <1>14 DEF Inv

\* A new track is pending.
LEMMA CreateTrackInv ==
    ASSUME NEW e \in Requests, NEW t \in Tracks, Inv, CreateTrack(e, t) PROVE Inv'
<1>1. NewRow \in Rows /\ NewRow.status = "pending"
  BY DEF NewRow, Rows
<1>8. /\ \A s \in Tracks \ {t} : row'[s] = row[s]
      /\ row[t].status = "absent" /\ row'[t] = NewRow
      /\ Uploaded \subseteq Uploaded' /\ t \in Uploaded'
      /\ \A j \in Jobs : job[j].status # "absent" => job[j].track # t
  BY <1>1 DEF Inv, TypeOK, Listed, CreateTrack, Oldest, Uploaded
<1>2. TypeOK'
  BY <1>1 DEF Inv, TypeOK, CreateTrack, worker
<1>3. Listed'
  BY <1>8 DEF Inv, Listed, CreateTrack, worker
<1>4. AtWork'
  BY DEF Inv, AtWork, Finished, Busy, Failing, CreateTrack, worker
<1>11. \A d \in Tracks : Whole(d) => Whole(d)'
  BY StaysWhole DEF CreateTrack, worker
<1>5. CopiesPlayable'
  <2>1. Busy => T \in Tracks /\ T # t /\ T' = T
    BY <1>8, WorkerTrack DEF Inv, AtWork, CreateTrack, worker, T
  <2>2. UNCHANGED <<wpc, copy, encoded, behind, held>>
    BY DEF CreateTrack, worker
  <2>3. \A i \in Requests : /\ pc'[i] # "idle" => at'[i] \in Uploaded'
                            /\ pc'[i] = "update" => pc[i] = "update" /\ at'[i] = at[i]
    BY <1>8 DEF Inv, TypeOK, CopiesPlayable, CreateTrack
  <2> QED
    BY <1>8, <1>11, <2>1, <2>2, <2>3 DEF Inv, CopiesPlayable, Playable, Ended, Busy
<1>6. ReadyPlayable'
  BY <1>1, <1>11 DEF Inv, TypeOK, ReadyPlayable, Playable, CreateTrack
<1>7. RunningIsRun'
  BY DEF Inv, RunningIsRun, Busy, CreateTrack, worker
<1>9. TrackTold'
  <2>1. \A j \in Jobs : job[j].status # "absent" => job[j].track \in Tracks \ {t}
    BY <1>8 DEF Inv, Listed, Uploaded
  <2>2. UNCHANGED <<job, wpc, cur, behind>>
    BY DEF CreateTrack, worker
  <2> QED
    BY <1>8, <2>1, <2>2 DEF Inv, TrackTold, Ended
<1>10. Queued'
  <2>1. UNCHANGED <<job, behind, unwritten, cut, held>>
    BY DEF CreateTrack, worker
  <2>2. pc[e] = "idle" /\ pc'[e] = "enqueue" /\ at'[e] = t
        /\ \A i \in Requests \ {e} : pc'[i] = pc[i] /\ at'[i] = at[i]
    BY DEF Inv, TypeOK, CreateTrack
  <2>3. Untouched(t)'
    <3>1. \A i \in Requests : pc[i] = "update" => at[i] # t
      BY <1>8 DEF Inv, CopiesPlayable, Uploaded
    <3> QED
      BY <1>1, <1>8, <2>2, <3>1 DEF Untouched, Queuing
  <2>4. ASSUME NEW s \in Uploaded, s # t PROVE (HasJob(s) \/ Untouched(s))'
    <3>1. s \in Tracks /\ row'[s] = row[s] /\ (HasJob(s) \/ Untouched(s))
      BY <1>8, <2>4 DEF Inv, Queued, Uploaded
    <3> QED
      BY <2>1, <2>2, <2>4, <3>1 DEF HasJob, Untouched, Queuing
  <2>5. \A s \in Uploaded' : s = t \/ s \in Uploaded
    BY <1>8 DEF Uploaded
  <2> QED
    BY <2>3, <2>4, <2>5 DEF Queued
<1>12. ShownByOver'
  <2>1. UNCHANGED <<job, wpc, cur, copy, unwritten, held>>
    BY DEF CreateTrack, worker
  <2>2. \A i \in Requests : pc'[i] = "update" => pc[i] = "update"
    BY DEF Inv, TypeOK, CreateTrack
  <2>3. \A d \in Tracks : Shown(d)' => Shown(d)
    BY <1>1, <1>8, <2>1, <2>2 DEF Shown, Names
  <2>4. \A i \in Jobs : Over(i) => Over(i)'
    BY <2>1 DEF Over
  <2> QED
    BY <2>1, <2>3, <2>4, ShownKept DEF Inv
<1> QED
  BY <1>2, <1>3, <1>4, <1>5, <1>6, <1>7, <1>9, <1>10, <1>12 DEF Inv

\* Queuing a job touches no job the worker knows of; the request, if there is one,
\* is over.
LEMMA QueueInv ==
    ASSUME NEW t \in Uploaded, Inv,
           \/ CreateJob(t) /\ UNCHANGED behind
           \/ UNCHANGED job /\ Noted(t, TRUE),
           UNCHANGED <<row, encoded, worker, unwritten, cut>>,
           \/ UNCHANGED api
           \/ \E e \in Requests : at[e] = t /\ EndRequest(e)
    PROVE  Inv'
<1>0. t \in Tracks /\ row' = row
  BY DEF Uploaded
<1>9. /\ behind' \subseteq Tracks
      /\ \A s \in Tracks : Ended(s) \/ s \in behind => Ended(s) \/ s \in behind'
  <2>1. behind \subseteq Tracks /\ row[t].status \in {"pending", "ready", "failed"}
    BY <1>0 DEF Inv, TypeOK, Uploaded, Rows
  <2> QED
    BY <1>0, <2>1 DEF Noted, Ended
<1>1. /\ job' \in [Jobs -> JobRows]
      /\ \A i \in Jobs :
           \/ job'[i] = job[i]
           \/ /\ job[i].status = "absent"
              /\ job'[i].track = t /\ job'[i].status = "pending"
  <2>1. job \in [Jobs -> JobRows] /\ TypeOK
    BY DEF Inv, TypeOK, JobRows
  <2> QED
    BY <1>0, <2>1, JobCreated
<1>2. UNCHANGED <<wpc, todo, cur, tries, copy>>
  BY DEF worker
<1>3. /\ pc' \in [Requests -> {"idle", "enqueue", "update"}]
      /\ at' \in [Requests -> Tracks \cup {NoDir}]
      /\ held' \in [Requests -> Rows]
      /\ \A e \in Requests : /\ pc'[e] # "idle" => pc'[e] = pc[e]
                             /\ pc'[e] # "idle" => at'[e] = at[e] /\ held'[e] = held[e]
  <2>1. NoRow \in Rows
    BY DEF NoRow, Rows
  <2> QED
    BY <2>1 DEF Inv, TypeOK, EndRequest, api
<1>12. \A i \in Jobs : job[i].status # "absent" =>
                          job'[i].status # "absent" /\ job'[i].track = job[i].track
  BY <1>1
<1>13. \A d \in Tracks : Whole(d) => Whole(d)'
  BY <1>12, StaysWhole
<1>4. TypeOK'
  BY <1>1, <1>2, <1>3, <1>9 DEF Inv, TypeOK, JobRows
<1>5. Listed'
  BY <1>1, <1>2 DEF Inv, TypeOK, Listed, Uploaded
<1>6. AtWork' /\ (Busy => job'[cur] = job[cur])
  BY <1>1, <1>2 DEF Inv, AtWork, Finished, Busy, Failing
<1>7. CopiesPlayable' /\ ReadyPlayable'
  <2>1. Busy => T \in Tracks /\ T' = T
    BY <1>2, <1>6, WorkerTrack DEF T
  <2> QED
    BY <1>0, <1>2, <1>3, <1>9, <1>13, <2>1
       DEF Inv, CopiesPlayable, ReadyPlayable, Playable, Busy, Ended, Uploaded
<1>8. RunningIsRun'
  BY <1>1, <1>2 DEF Inv, RunningIsRun, Busy
<1>10. TrackTold'
  <2> SUFFICES ASSUME NEW j \in Jobs, job'[j].status \in {"ready", "failed"}
               PROVE  \/ Ended(job[j].track) \/ job[j].track \in behind'
                      \/ cur = j /\ wpc \in Failing
    BY <1>0, <1>1, <1>2 DEF TrackTold, Ended
  <2>1. job'[j] = job[j] /\ job[j].track \in Tracks
    BY <1>1 DEF Inv, Listed, Uploaded
  <2> QED
    BY <1>9, <2>1 DEF Inv, TrackTold
<1>11. Queued'
  <2>2. \A s \in Tracks : HasJob(s) => HasJob(s)'
    BY <1>12, JobsKeep
  <2>3. UNCHANGED unwritten
    OBVIOUS
  <2> SUFFICES ASSUME NEW s \in Uploaded, Untouched(s) PROVE (HasJob(s) \/ Untouched(s))'
    BY <1>0, <2>2 DEF Inv, Queued, Uploaded
  <2>4. CASE s = t /\ CreateJob(t)
    <3>1. HasJob(t)'
      BY <2>4 DEF CreateJob, HasJob, Unused, Inv, TypeOK
    <3> QED
      BY <2>4, <3>1
  <2>5. CASE s = t /\ Noted(t, TRUE)
    <3>1. t \in behind'
      BY <1>0, <2>5 DEF Noted, Untouched
    <3> QED
      BY <1>0, <1>3, <2>5, <3>1 DEF Untouched
  <2>6. CASE s # t
    <3>1. s \in behind => s \in behind'
      BY <2>6 DEF Noted
    <3>2. Queuing(s) => Queuing(s)'
      BY <2>6 DEF Queuing, EndRequest, api, Inv, TypeOK
    <3> QED
      BY <1>0, <1>3, <2>3, <3>1, <3>2 DEF Untouched
  <2> QED
    BY <2>4, <2>5, <2>6
<1>14. ShownByOver'
  <2>1. \A i \in Requests : pc'[i] = "update" => pc[i] = "update" /\ held'[i] = held[i]
    BY <1>3
  <2>2. \A d \in Tracks : Shown(d)' => Shown(d)
    BY <1>0, <1>2, <2>1 DEF Shown, Names
  <2>3. \A i \in Jobs : Over(i) => Over(i)' /\ job'[i].track = job[i].track
    BY <1>1, <1>2 DEF Over
  <2> QED
    BY <2>2, <2>3, ShownKept DEF Inv
<1> QED
  BY <1>4, <1>5, <1>6, <1>7, <1>8, <1>10, <1>11, <1>14 DEF Inv

\* A request copies a row, which is playable ...
LEMMA ReadTrackInv ==
    ASSUME NEW e \in Requests, NEW t \in Tracks, Inv, ReadTrack(e, t) PROVE Inv'
<1>1. TypeOK'
  BY DEF Inv, TypeOK, ReadTrack, worker
<1>2. Listed'
  BY DEF Inv, Listed, ReadTrack, worker, Uploaded
<1>3. AtWork'
  BY DEF Inv, AtWork, Finished, Busy, Failing, ReadTrack, worker
<1>8. \A d \in Tracks : Whole(d) => Whole(d)'
  BY StaysWhole DEF ReadTrack, worker
<1>4. CopiesPlayable' /\ ReadyPlayable'
  BY <1>8 DEF Inv, TypeOK, CopiesPlayable, ReadyPlayable, Playable, ReadTrack, worker, T,
         Uploaded, Ended
<1>5. RunningIsRun'
  BY DEF Inv, RunningIsRun, Busy, ReadTrack, worker
<1>6. TrackTold'
  BY DEF Inv, TrackTold, Ended, ReadTrack, worker
<1>7. Queued'
  <2>1. UNCHANGED <<row, job, behind, unwritten, cut>>
    BY DEF ReadTrack, worker
  <2>2. pc[e] = "idle" /\ pc'[e] = "update" /\ at'[e] = t /\ held'[e] = row[t]
        /\ \A i \in Requests \ {e} : pc'[i] = pc[i] /\ at'[i] = at[i] /\ held'[i] = held[i]
    BY DEF Inv, TypeOK, ReadTrack
  <2>3. \A s \in Tracks : Queuing(s) => Queuing(s)'
    BY <2>2 DEF Queuing
  <2>4. \A s \in Tracks : Untouched(s) => Untouched(s)'
    BY <2>1, <2>2, <2>3 DEF Untouched
  <2>5. \A s \in Tracks : HasJob(s) => HasJob(s)'
    BY <2>1 DEF HasJob
  <2> QED
    BY <2>1, <2>4, <2>5 DEF Inv, Queued, Uploaded
<1>9. ShownByOver'
  <2>1. UNCHANGED <<row, job, wpc, cur, copy, unwritten>>
    BY DEF ReadTrack, worker
  <2>2. \A i \in Requests : pc'[i] = "update" =>
            \/ pc[i] = "update" /\ held'[i] = held[i]
            \/ held'[i] = row[t]
    BY DEF Inv, TypeOK, ReadTrack
  <2>3. \A d \in Tracks : Shown(d)' => Shown(d)
    BY <2>1, <2>2 DEF Shown, Names
  <2>4. \A i \in Jobs : Over(i) => Over(i)'
    BY <2>1 DEF Over
  <2> QED
    BY <2>1, <2>3, <2>4, ShownKept DEF Inv
<1> QED
  BY <1>1, <1>2, <1>3, <1>4, <1>5, <1>6, <1>7, <1>9 DEF Inv

\* ... and writes it back, when it still is: only a retry writes over what it names.
LEMMA WriteBackInv ==
    ASSUME NEW e \in Requests, Inv, WriteBack(e) PROVE Inv'
<1>1. /\ pc[e] = "update" /\ at[e] \in Uploaded /\ at[e] \in Tracks
      /\ UpdateTrack(at[e], held[e])
      /\ UNCHANGED <<job, encoded, wpc, todo, cur, tries, copy, unwritten, cut>>
      /\ EndRequest(e) /\ Noted(at[e], row[at[e]].status # "pending")
  BY DEF Inv, CopiesPlayable, WriteBack, worker, Uploaded
<1>2. TypeOK /\ held[e] \in Rows /\ Playable(at[e], held[e]) /\ ReadyPlayable
      /\ held[e].status # "absent"
  BY <1>1 DEF Inv, TypeOK, CopiesPlayable
<1>3. /\ row' \in [Tracks -> Rows] /\ ReadyPlayable'
      /\ row'[at[e]].status # "absent"
      /\ \A s \in Tracks \ {at[e]} : row'[s] = row[s]
      /\ Uploaded' = Uploaded
  BY <1>1, <1>2, RowUpdated
<1>4. NoRow \in Rows
  BY DEF NoRow, Rows
<1>10. /\ behind' \subseteq Tracks
       /\ \A s \in Tracks : Ended(s) \/ s \in behind => Ended(s)' \/ s \in behind'
  BY <1>1, <1>2, <1>3, WriteNoted DEF Ended
<1>5. TypeOK'
  BY <1>1, <1>2, <1>3, <1>4, <1>10 DEF TypeOK, EndRequest
<1>6. Listed'
  BY <1>1, <1>3 DEF Inv, Listed
<1>7. AtWork'
  BY <1>1 DEF Inv, AtWork, Finished, Busy, Failing
<1>13. \A d \in Tracks : Whole(d) => Whole(d)'
  BY <1>1, StaysWhole
<1>8. CopiesPlayable'
  <2>1. wpc = "close" => T \in Tracks
    BY WorkerTrack DEF Busy
  <2>2. T' = T
    BY <1>1 DEF T
  <2>3. wpc = "close" => row'[T].status \in {"ready", "failed"} \/ T \in behind'
    BY <1>10, <2>1 DEF Inv, CopiesPlayable, Ended
  <2>4. \A i \in Requests : /\ pc'[i] # "idle" => pc[i] # "idle" /\ at'[i] = at[i]
                            /\ pc'[i] = "update" => pc[i] = "update" /\ held'[i] = held[i]
    BY <1>1, <1>2 DEF TypeOK, EndRequest
  <2> QED
    BY <1>1, <1>3, <1>13, <2>2, <2>3, <2>4 DEF Inv, CopiesPlayable, Playable, Ended
<1>9. RunningIsRun'
  BY <1>1 DEF Inv, RunningIsRun, Busy
<1>11. TrackTold'
  <2>1. \A j \in Jobs : job[j].status # "absent" => job[j].track \in Tracks
    BY DEF Inv, Listed, Uploaded
  <2> QED
    BY <1>1, <1>10, <2>1 DEF Inv, TrackTold, Ended
<1>12. Queued'
  <2>1. \A s \in Tracks : HasJob(s) => HasJob(s)'
    BY <1>1 DEF HasJob
  <2>2. \A i \in Requests : /\ pc'[i] = "update" => /\ pc[i] = "update" /\ at'[i] = at[i]
                                                    /\ held'[i] = held[i]
                            /\ pc[i] = "enqueue" => pc'[i] = "enqueue" /\ at'[i] = at[i]
    BY <1>1, <1>2 DEF TypeOK, EndRequest
  <2>3. \A s \in Tracks : Queuing(s) => Queuing(s)'
    BY <2>2 DEF Queuing
  <2>4. ASSUME NEW s \in Tracks, Untouched(s) PROVE Untouched(s)'
    <3>1. row'[s].status = "pending"
      BY <1>1, <1>2, <1>3, <2>4, RowUpdated DEF Untouched
    <3>2. s \in behind => s \in behind'
      BY <2>4, <3>1 DEF Noted, WriteBack, Untouched
    <3> QED
      BY <1>1, <2>2, <2>3, <2>4, <3>1, <3>2 DEF Untouched
  <2> QED
    BY <1>3, <2>1, <2>4 DEF Inv, Queued, Uploaded
<1>14. ShownByOver'
  <2>1. \A i \in Requests : pc'[i] = "update" => pc[i] = "update" /\ held'[i] = held[i]
    BY <1>1, <1>2 DEF TypeOK, EndRequest
  <2>2. \A s \in Tracks : row'[s] \in {row[s], held[e]}
    BY <1>1, <1>2, <1>3, RowUpdated
  <2>3. \A d \in Tracks : Shown(d)' => Shown(d)
    BY <1>1, <2>1, <2>2 DEF Shown, Names
  <2>4. \A i \in Jobs : Over(i) => Over(i)'
    BY <1>1 DEF Over
  <2> QED
    BY <1>1, <2>3, <2>4, ShownKept DEF Inv
<1> QED
  BY <1>3, <1>5, <1>6, <1>7, <1>8, <1>9, <1>11, <1>12, <1>14 DEF Inv

\* A restart forgets every copy; what it leaves running is noted.
LEMMA RestartInv == ASSUME Inv, Restart PROVE Inv'
<1>1. NoRow \in Rows /\ 0 \in 0 .. MaxAttempts
  BY TranscodeAssumption DEF NoRow, Rows
<1>5. /\ behind' \subseteq Tracks /\ behind \subseteq behind' /\ row' = row
      /\ wpc \in Failing => Ended(T) \/ T \in behind'
      /\ \A s \in Tracks : row[s].status = "pending" /\ Queuing(s) => s \in behind'
  <2>1. behind \subseteq Tracks
    BY DEF Inv, TypeOK
  <2>2. wpc \in Failing => T \in Tracks /\ row[T].status \in {"pending", "ready", "failed"}
    BY WorkerTrack DEF Inv, TypeOK, Busy, Failing, Uploaded, Rows
  <2> QED
    BY <2>1, <2>2 DEF Restart, Ended
<1>2. TypeOK'
  BY <1>1, <1>5 DEF Inv, TypeOK, Restart
<1>8. \A d \in Tracks : Whole(d) => Whole(d)'
  BY StaysWhole DEF Restart
<1>3. Listed' /\ AtWork' /\ RunningIsRun'
  BY DEF Inv, Listed, AtWork, Busy, RunningIsRun, Restart, Uploaded
<1>4. CopiesPlayable' /\ ReadyPlayable'
  BY <1>8 DEF Inv, CopiesPlayable, ReadyPlayable, Playable, Restart
<1>6. TrackTold'
  <2> SUFFICES ASSUME NEW j \in Jobs, job[j].status \in {"ready", "failed"}
               PROVE  Ended(job[j].track) \/ job[j].track \in behind'
    BY DEF TrackTold, Ended, Restart
  <2>1. job[j].track \in Tracks
    BY DEF Inv, Listed, Uploaded
  <2> QED
    BY <1>5, <2>1 DEF Inv, TrackTold, T
<1>7. Queued'
  BY <1>5 DEF Inv, Queued, Untouched, HasJob, Uploaded, Restart
<1>9. ShownByOver'
  <2>1. \A d \in Tracks : Shown(d)' => Shown(d)
    BY DEF Shown, Names, Restart
  <2>2. \A i \in Jobs : Over(i) => Over(i)'
    BY TranscodeAssumption DEF Over, Jobs, Restart
  <2> QED
    BY <2>1, <2>2, ShownKept DEF Inv, Restart
<1> QED
  BY <1>2, <1>3, <1>4, <1>6, <1>7, <1>9 DEF Inv

\* Inv mentions no variable outside vars.
LEMMA StutterInv == ASSUME Inv, UNCHANGED vars PROVE Inv'
<1>1. UNCHANGED <<row, job, encoded, wpc, todo, cur, tries, copy, pc, at, held, unwritten,
               cut, behind>>
  BY DEF vars, worker, api
<1> QED
  BY <1>1 DEF Inv, TypeOK, Listed, AtWork, Busy, Finished, CopiesPlayable, ReadyPlayable,
              Playable, RunningIsRun, T, TrackTold, Ended, Failing, Queued, Untouched,
              HasJob, Queuing, Uploaded, Whole,
              Retried, Unused, ShownByOver, Shown, Names, Over

\* Every step preserves Inv.
LEMMA NextInv == Inv /\ [Next]_vars => Inv'
<1> SUFFICES ASSUME Inv, [Next]_vars PROVE Inv'
  OBVIOUS
<1>1. CASE Worker
  BY <1>1, TickInv, TakeInv, LookInv, FoundInv, EngineInv, OverwriteInv, WriteInv,
     EndJobInv, RereadInv
     DEF Worker
<1>2. ASSUME NEW t \in Tracks, RetryTranscode(t) PROVE Inv'
  BY <1>2, QueueInv DEF RetryTranscode
<1>3. ASSUME NEW e \in Requests, Enqueue(e) PROVE Inv'
  <2>1. at[e] \in Uploaded
    BY <1>3 DEF Enqueue, Inv, CopiesPlayable
  <2> QED
    BY <1>3, <2>1, QueueInv DEF Enqueue
<1> QED
  BY <1>1, <1>2, <1>3, CreateTrackInv, ReadTrackInv, WriteBackInv, RestartInv, StutterInv
     DEF Next

-----------------------------------------------------------------------------
(* The theorems *)

\* The inductive invariant of the worker and of every copy of a track row.
THEOREM Invariance == Spec => []Inv
<1> QED
  BY InitInv, NextInv, PTL DEF Spec

\* Type correctness: no job runs more often than MaxAttempts.
THEOREM TypeCorrect == Spec => []TypeOK
<1>1. Inv => TypeOK
  BY DEF Inv
<1> QED
  BY <1>1, Invariance, PTL

\* A track that is "ready" has the segments of its own content (what OpenStream relies
\* on), whichever stale row was written back last and whichever call failed, and no run
\* that fails or is killed leaves them half written over, other than that of a retry of
\* the track they lie with or after an UpdateJob that failed.
THEOREM ReadyIsPlayable == Spec => []ReadyPlayable
<1>1. Inv => ReadyPlayable
  BY DEF Inv
<1> QED
  BY <1>1, Invariance, PTL

\* Without a failed UpdateJob, no path through runOne and fail leaves a job "running"; a
\* restart leaves the one it cut off.
THEOREM NoJobForgotten == Spec => []RunningIsRun
<1>1. Inv => RunningIsRun
  BY DEF Inv
<1> QED
  BY <1>1, Invariance, PTL

\* A stored track has a job, and no path through runOne, fail or a write-back leaves the
\* track of an ended job pending, other than by a write that failed, was cut off or
\* brought an older row back.
THEOREM TracksAreTold == Spec => []TracksFollowJobs
<1>1. Inv => JobQueued
  BY DEF Inv, Queued, Untouched, JobQueued, Uploaded
<1>2. Inv => TracksFollowJobs
  BY <1>1 DEF Inv, TracksFollowJobs
<1> QED
  BY <1>2, Invariance, PTL

\* A job that succeeded, or failed MaxAttempts times, is never written again: what
\* the worker lists and what it is at are not finished.
THEOREM FinishedIsFinal == Spec => FinishedStays
<1>1. ASSUME Inv, [Next]_vars, NEW j \in Jobs, Finished(j) PROVE job'[j] = job[j]
  <2>1. TypeOK /\ Listed /\ AtWork
    BY <1>1 DEF Inv
  <2>2. j \notin todo
    BY <1>1, <2>1, TranscodeAssumption DEF Listed, Finished
  <2>3. CASE Take
    <3>1. PICK k \in todo : UpdateJob(k, "running", job[k].attempts + 1)
      BY <2>3 DEF Take
    <3>2. k # j /\ job \in [Jobs -> JobRows]
      BY <2>1, <2>2, <3>1 DEF TypeOK, JobRows
    <3> QED
      BY <3>1, <3>2 DEF UpdateJob
  <2>4. CASE Probe \/ Encode \/ CloseJob \/ FailJob
    <3>1. PICK s \in {"running", "ready", "failed"} : UpdateJob(cur, s, tries)
      BY <2>4 DEF Probe, Encode, CloseJob, FailJob
    <3>2. cur # j /\ job \in [Jobs -> JobRows]
      BY <1>1, <2>1, <2>4
         DEF AtWork, Busy, Failing, TypeOK, JobRows, Probe, Encode, CloseJob, FailJob
    <3> QED
      BY <3>1, <3>2 DEF UpdateJob
  <2>5. ASSUME NEW t, CreateJob(t) PROVE job'[j] = job[j]
    <3>1. PICK k \in Unused :
            job' = [job EXCEPT ![k] = [track |-> t, status |-> "pending", attempts |-> 0]]
      BY <2>5 DEF CreateJob
    <3>2. k # j /\ job \in [Jobs -> JobRows]
      BY <1>1, <2>1 DEF Unused, Finished, TypeOK, JobRows
    <3> QED
      BY <3>1, <3>2
  <2>6. CASE UNCHANGED job
    BY <2>6
  <2> QED
    BY <1>1, <2>3, <2>4, <2>5, <2>6
       DEF Next, Worker, vars, Tick, TrackByID, CacheHit, CacheMiss, Peaks, EngineFails,
           Overwrite, WriteTrack, Reread, FailTrack, CreateTrack, RetryTranscode, Enqueue,
           ReadTrack, WriteBack, Restart
<1>2. Inv /\ [Next]_vars => [\A j \in Jobs : Finished(j) => job'[j] = job[j]]_vars
  BY <1>1
<1> QED
  BY <1>2, Invariance, PTL DEF Spec, FinishedStays

-----------------------------------------------------------------------------
(* The worker gets on *)

\* Unless something went wrong a step takes up a job, whose row then has one more
\* attempt, or leaves all attempts alone and brings the worker nearer to the end of its
\* run, or is not the worker's.
LEMMA WorkerSteps ==
    ASSUME Inv, Counted, [Next]_vars, ~unwritten', wpc' # "down"
    PROVE  \/ /\ wpc' = "read" /\ cur' \in Jobs /\ tries' \in 1 .. MaxAttempts
              /\ job[cur'].attempts < tries' /\ job'[cur'].attempts = tries'
              /\ \A j \in Jobs \ {cur'} : job'[j].attempts = job[j].attempts
           \/ /\ \A j \in Jobs : job'[j].attempts = job[j].attempts
              /\ UNCHANGED wpc \/ StepsLeft[wpc'] < StepsLeft[wpc]
              /\ \/ wpc' \in {"idle", "take"}
                 \/ Busy /\ UNCHANGED <<cur, tries>>
<1> DEFINE Same == \A j \in Jobs : job'[j].attempts = job[j].attempts
           Near == StepsLeft[wpc'] < StepsLeft[wpc]
           Stay == \/ wpc' \in {"idle", "take"}
                   \/ Busy /\ UNCHANGED <<cur, tries>>
<1>1. TypeOK /\ job \in [Jobs -> JobRows] /\ MaxAttempts \in Nat
  BY TranscodeAssumption DEF Inv, TypeOK, JobRows
<1>2. CASE Take
  <2>1. PICK j \in todo : /\ cur' = j /\ tries' = job[j].attempts + 1
                          /\ UpdateJob(j, "running", job[j].attempts + 1)
    BY <1>2 DEF Take
  <2>2. j \in Jobs /\ job[j].attempts \in 0 .. MaxAttempts /\ job[j].attempts < MaxAttempts
    BY <1>1, <2>1 DEF Inv, Listed, TypeOK, JobRows
  <2>3. job[j].attempts + 1 \in 0 .. MaxAttempts /\ tries' \in 1 .. MaxAttempts
    BY <1>1, <2>1, <2>2
  <2>4. /\ \A i \in Jobs \ {j} : job'[i] = job[i]
        /\ job'[j].attempts = tries'
    BY <1>1, <2>1, <2>2, <2>3, JobUpdated
  <2> QED
    BY <1>2, <2>1, <2>2, <2>3, <2>4 DEF Take
<1>3. CASE Probe \/ Encode \/ CloseJob \/ FailJob
  <2>1. PICK st \in {"running", "failed", "ready"} : UpdateJob(cur, st, tries)
    BY <1>3 DEF Probe, Encode, CloseJob, FailJob
  <2>2. Busy /\ cur \in Jobs /\ tries \in 0 .. MaxAttempts
    BY <1>1, <1>3 DEF Probe, Encode, CloseJob, FailJob, Busy, Inv, AtWork, TypeOK
  <2>3. /\ \A i \in Jobs \ {cur} : job'[i] = job[i]
        /\ job'[cur].attempts = tries /\ ~unwritten
    BY <1>1, <2>1, <2>2, JobUpdated
  <2>4. Same
    BY <2>2, <2>3 DEF Counted
  <2>5. Near /\ Stay
    BY <1>3 DEF Probe, Encode, CloseJob, FailJob, Goto, Return, Busy, StepsLeft
  <2> QED
    BY <2>4, <2>5
<1>4. CASE \/ Tick \/ TrackByID \/ CacheHit \/ CacheMiss \/ Peaks \/ EngineFails \/ Overwrite
           \/ WriteTrack \/ Reread \/ FailTrack
  <2>1. Same
    BY <1>4 DEF Tick, TrackByID, CacheHit, CacheMiss, Peaks, EngineFails, Overwrite, WriteTrack,
                Reread, FailTrack
  <2>2. Near
    <3>1. CASE Tick \/ TrackByID \/ CacheHit \/ CacheMiss
      BY <3>1 DEF Tick, TrackByID, CacheHit, CacheMiss, Goto, Return, StepsLeft
    <3>2. CASE Overwrite \/ Peaks \/ WriteTrack
      <4>1. <<wpc, wpc'>> \in {<<"encode", "encoding">>, <<"peaks", "write">>,
                              <<"write", "close">>}
        BY <3>2 DEF Overwrite, Peaks, WriteTrack, Goto
      <4> QED
        BY <4>1 DEF StepsLeft
    <3>3. CASE EngineFails
      <4>1. wpc \in {"probe", "encode", "encoding", "peaks"} /\ wpc' = "fail"
        BY <3>3 DEF EngineFails, Goto
      <4> QED
        BY <4>1 DEF StepsLeft
    <3>4. CASE Reread \/ FailTrack
      <4>1. \/ wpc = "reread" /\ wpc' \in {"rewrite", "idle", "take"}
            \/ wpc = "rewrite" /\ wpc' \in {"idle", "take"}
        BY <3>4 DEF Reread, FailTrack, Goto, Return
      <4> QED
        BY <4>1 DEF StepsLeft
    <3> QED
      BY <1>4, <3>1, <3>2, <3>3, <3>4
  <2>3. Stay
    BY <1>4 DEF Tick, TrackByID, CacheHit, CacheMiss, Peaks, EngineFails, Overwrite, WriteTrack,
                Reread, FailTrack, Goto, Return, Busy
  <2> QED
    BY <2>1, <2>2, <2>3
<1>5. ASSUME NEW t, CreateJob(t) PROVE Same
  <2>1. PICK k \in Unused :
          job' = [job EXCEPT ![k] = [track |-> t, status |-> "pending", attempts |-> 0]]
    BY <1>5 DEF CreateJob
  <2>2. k \in Jobs /\ job[k].attempts = 0
    BY <1>1, <2>1 DEF Unused, Counted
  <2> QED
    BY <1>1, <2>1, <2>2
<1>6. ASSUME NEW t \in Tracks, RetryTranscode(t) PROVE Same /\ UNCHANGED <<wpc, cur, tries>>
  BY <1>5, <1>6 DEF RetryTranscode, worker
<1>7. ASSUME NEW e \in Requests, NEW t \in Tracks, CreateTrack(e, t) \/ ReadTrack(e, t)
      PROVE  Same /\ UNCHANGED <<wpc, cur, tries>>
  BY <1>7 DEF CreateTrack, ReadTrack, worker
<1>8. ASSUME NEW e \in Requests, Enqueue(e) \/ WriteBack(e)
      PROVE  Same /\ UNCHANGED <<wpc, cur, tries>>
  BY <1>5, <1>8 DEF Enqueue, WriteBack, worker
<1>9. ASSUME UNCHANGED vars PROVE Same /\ UNCHANGED <<wpc, cur, tries>>
  BY <1>9 DEF vars, worker
<1>11. UNCHANGED <<wpc, cur, tries>> => Stay
  <2>1. wpc \in {"down", "idle", "take"} \/ Busy
    BY DEF Busy
  <2> QED
    BY <2>1
<1>10. ~Restart
  BY DEF Restart
<1> QED
  BY <1>2, <1>3, <1>4, <1>6, <1>7, <1>8, <1>9, <1>10, <1>11 DEF Next, Worker

\* A job that is not there has had no run, and who is at one has its count.
LEMMA CountedStep ==
    ASSUME Inv, Counted, [Next]_vars
    PROVE  Counted'
<1>1. TypeOK /\ job \in [Jobs -> JobRows]
  BY DEF Inv, TypeOK, JobRows
<1>2. ASSUME NEW j \in Jobs, job'[j].status = "absent" PROVE job'[j] = job[j]
  <2>1. CASE Take
    <3>1. PICK k \in Jobs : UpdateJob(k, "running", job[k].attempts + 1)
      BY <2>1 DEF Take, Inv, TypeOK
    <3> QED
      BY <1>1, <1>2, <3>1 DEF UpdateJob, JobRows
  <2>2. CASE Probe \/ Encode \/ CloseJob \/ FailJob
    <3>1. PICK st \in {"running", "failed", "ready"} : UpdateJob(cur, st, tries)
      BY <2>2 DEF Probe, Encode, CloseJob, FailJob
    <3> QED
      BY <1>1, <1>2, <3>1 DEF UpdateJob, JobRows
  <2>3. ASSUME NEW t, CreateJob(t) PROVE job'[j] = job[j]
    BY <1>1, <1>2, <2>3 DEF CreateJob, Unused, JobRows
  <2>4. CASE UNCHANGED job
    BY <2>4
  <2> QED
    BY <2>1, <2>2, <2>3, <2>4
       DEF Next, Worker, vars, Tick, TrackByID, CacheHit, CacheMiss, Peaks, EngineFails,
           Overwrite, WriteTrack, Reread, FailTrack, CreateTrack, RetryTranscode, Enqueue,
           ReadTrack, WriteBack, Restart
<1>3. \A j \in Unused' : job'[j].attempts = 0
  BY <1>2 DEF Unused, Counted
<1>4. ASSUME ~unwritten', Busy' PROVE job'[cur'].attempts = tries'
  <2>1. cur \in Jobs \cup {0} /\ (Busy => cur \in Jobs)
    BY DEF Inv, TypeOK, AtWork
  <2>2. ~unwritten
    BY <1>4 DEF Next, vars, Worker, Tick, Take, TrackByID, CacheHit, CacheMiss, Probe,
                Overwrite, Encode, Peaks, EngineFails, WriteTrack, CloseJob, FailJob, Reread,
                FailTrack, UpdateJob, CreateTrack, RetryTranscode, Enqueue, ReadTrack,
                WriteBack, Restart
  <2> QED
    BY <1>4, <2>1, <2>2, WorkerSteps DEF Counted, Busy
<1> QED
  BY <1>3, <1>4 DEF Counted

\* Unless an UpdateJob failed or the process stopped, no job is given a run back, and the
\* worker uses one up or comes nearer to the end of the one it is at: it cannot run jobs
\* for ever, whatever fails in them.
THEOREM WorkerComesToRest == Spec => WorkerGetsOn
<1>1. Init => Counted
  BY DEF Init, Counted, Busy, Unused, NoJob
<1>2. Inv /\ Counted /\ [Next]_vars => Counted'
  BY CountedStep
<1>3. ASSUME Inv, Counted, [Next]_vars, ~unwritten', wpc' # "down" PROVE GetsOn
  <2>1. job \in [Jobs -> JobRows] /\ MaxAttempts \in Nat
    BY <1>3, TranscodeAssumption DEF Inv, TypeOK, JobRows
  <2>2. CASE \A j \in Jobs : job'[j].attempts = job[j].attempts
    <3>1. RunsLeft' = RunsLeft
      BY <2>2 DEF RunsLeft
    <3> QED
      BY <1>3, <2>2, <3>1, WorkerSteps DEF GetsOn
  <2>3. CASE /\ cur' \in Jobs /\ tries' \in 1 .. MaxAttempts
             /\ job[cur'].attempts < tries' /\ job'[cur'].attempts = tries'
             /\ \A j \in Jobs \ {cur'} : job'[j].attempts = job[j].attempts
    <3>1. \A j \in Jobs : job[j].attempts \in Nat
      BY <2>1 DEF JobRows
    <3>2. RunsLeft' \subseteq RunsLeft
      BY <2>3, <3>1 DEF RunsLeft
    <3>3. <<cur', tries'>> \in RunsLeft /\ <<cur', tries'>> \notin RunsLeft'
      BY <2>3, <3>1 DEF RunsLeft
    <3> QED
      BY <3>2, <3>3 DEF GetsOn
  <2> QED
    BY <1>3, <2>2, <2>3, WorkerSteps
<1>4. Inv /\ Counted /\ [Next]_vars => [GetsOn]_vars
  BY <1>3 DEF GetsOn
<1> QED
  BY <1>1, <1>2, <1>4, Invariance, PTL DEF Spec, WorkerGetsOn
=============================================================================
