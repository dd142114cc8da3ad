\* Two tracks of one content, two jobs that may each run twice, a request that holds the
\* first track's row meanwhile.
SPECIFICATION FairSpec
CONSTANTS
    Tracks = {1, 2}
    Content <- SameContent
    NoDir = 0
    MaxAttempts = 2
    MaxJobs = 2
    Requests = {e1}
    Edited = {1}
    Faults = {"crash", "db", "ffmpeg"}
INVARIANTS
    ReadyPlayable
    RunningIsRun
    TracksFollowJobs
PROPERTIES
    FinishedStays
    JobsSettle
