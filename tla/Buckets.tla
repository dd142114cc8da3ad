------------------------------- MODULE Buckets -------------------------------
(***************************************************************************)
(* The bandwidth of downloads: WaitUser, WaitBytes and refill of           *)
(* download/limiter.go, called for each chunk that download/serve.go has   *)
(* written.  One token bucket per listener and one for all of them, each   *)
(* of which holds what one second brings.                                  *)
(*                                                                         *)
(* The mutex covers a bucket's arithmetic but not the sleep: a download    *)
(* works out how long its chunk takes, lets go, sleeps, and takes its      *)
(* tokens from whatever is there by then.  Time passes in milliseconds,    *)
(* which is what is added to every sleep, and only forward.  Everything    *)
(* lives in the process: a restart is BucketsInit again.                   *)
(*                                                                         *)
(* The names of the specification are long, since LimiterProofs is about   *)
(* this module and Slots.                                                  *)
(***************************************************************************)
EXTENDS Integers

CONSTANTS
    Downloads,      \* requests that download
    Users,          \* listeners
    UserOf,         \* whose each download is
    Settings,       \* the rates the server may be configured with, 0 is off
    Second,         \* ticks in a second
    Chunk,          \* what one Write passes on: at most 32 KiB
    MaxSent,        \* bound: no chunk is written beyond that
    MaxNow          \* bound: no chunk is written after that

Global  == "global"
Buckets == Users \cup {Global}

ASSUME BucketsAssumption ==
    /\ Global \notin Users
    /\ UserOf \in [Downloads -> Users]
    /\ Settings \subseteq [Buckets -> Nat]
    /\ Second \in Nat \ {0}
    /\ Chunk \in Nat \ {0}
    /\ MaxSent \in Nat
    /\ MaxNow \in Nat

VARIABLES
    rate,       \* bucket.rate, per tick: USER_DOWNLOAD_BPS or GLOBAL_DOWNLOAD_BPS
    now,
    tokens,     \* bucket.tokens
    last,       \* bucket.last
    phase,      \* where each download is
    at,         \* the bucket it waits at
    need,       \* the size of the chunk it waits for
    wake,       \* the end of its sleep
    sent,       \* written, in Download
    start,      \* history: when it began
    total,      \* history: what has been taken from a bucket, 0 once it is raced
    raced       \* history: buckets that were drawn on while another slept at them

bucketVars == <<rate, tokens, last, total, raced>>
throttle   == <<bucketVars, now, phase, at, need, wake, sent, start>>

Burst(b) == rate[b] * Second

BucketsInit ==
    /\ rate \in Settings
    /\ now    = 0
    /\ tokens = [b \in Buckets |-> Burst(b)]
    /\ last   = [b \in Buckets |-> 0]
    /\ phase  = [d \in Downloads |-> "idle"]
    /\ at     = [d \in Downloads |-> Global]
    /\ need   = [d \in Downloads |-> 0]
    /\ wake   = [d \in Downloads |-> 0]
    /\ sent   = [d \in Downloads |-> 0]
    /\ start  = [d \in Downloads |-> 0]
    /\ total  = [b \in Buckets |-> 0]
    /\ raced  = {}

-----------------------------------------------------------------------------
(* Faulty variants, for the mutation runs only *)

\* The millisecond that makes up for the fraction cut off is not added.
SleepTruncated(b, short) == short \div rate[b]

\* Each refill counts the millisecond that has only begun.
RefilledEarly(b) ==
    LET more == tokens[b] + rate[b] * (now + 1 - last[b])
    IN  IF rate[b] = 0 THEN tokens[b] ELSE IF more > Burst(b) THEN Burst(b) ELSE more

\* The bucket goes into debt.
LeftInDebt(b, n) ==
    LET has == tokens[b] + rate[b] * (now - last[b])
    IN  IF rate[b] = 0 THEN 0 ELSE IF has > Burst(b) THEN Burst(b) - n ELSE has - n

-----------------------------------------------------------------------------
(* The arithmetic of a bucket *)

\* What a bucket holds once it is refilled.
Refilled(b) ==
    LET more == tokens[b] + rate[b] * (now - last[b])
    IN  IF rate[b] = 0 THEN tokens[b] ELSE IF more > Burst(b) THEN Burst(b) ELSE more

\* The sleep of a download that is short of tokens.
SleepTime(b, short) == short \div rate[b] + 1

\* What a chunk leaves behind: the bucket is never in debt.
Left(b, n) == IF Refilled(b) < n THEN 0 ELSE Refilled(b) - n

-----------------------------------------------------------------------------
(* Take the tokens of a chunk, and go on to the next bucket or the next chunk. *)

Take(d) ==
    LET b == at[d] IN
        /\ tokens' = [tokens EXCEPT ![b] = Left(b, need[d])]
        /\ last'   = [last EXCEPT ![b] = IF rate[b] = 0 THEN @ ELSE now]
        /\ raced'  = raced \cup
               {a \in {b} : \E e \in Downloads \ {d} : phase[e] = "sleep" /\ at[e] = a}
        /\ total'  = [total EXCEPT ![b] =
                        IF rate[b] = 0 \/ b \in raced' THEN 0 ELSE @ + need[d]]
        /\ at' = [at EXCEPT ![d] = Global]
        /\ IF b = Global
           THEN /\ phase' = [phase EXCEPT ![d] = "write"]
                /\ need' = [need EXCEPT ![d] = 0]
           ELSE /\ phase' = [phase EXCEPT ![d] = "arrive"]
                /\ need' = need
        /\ wake' = [wake EXCEPT ![d] = 0]
        /\ UNCHANGED <<rate, now, sent, start>>

-----------------------------------------------------------------------------
(* Download *)

Begin(d) ==
    /\ phase[d] = "idle"
    /\ now < MaxNow
    /\ phase' = [phase EXCEPT ![d] = "write"]
    /\ start' = [start EXCEPT ![d] = now]
    /\ UNCHANGED <<bucketVars, now, at, need, wake, sent>>

\* Metered.Write: the chunk goes out first and is waited for afterwards.
Write(d) ==
    /\ phase[d] = "write"
    /\ now < MaxNow
    /\ \E n \in 1 .. Chunk :
        /\ sent[d] + n <= MaxSent
        /\ sent' = [sent EXCEPT ![d] = @ + n]
        /\ need' = [need EXCEPT ![d] = n]
    /\ phase' = [phase EXCEPT ![d] = "arrive"]
    /\ at' = [at EXCEPT ![d] = UserOf[d]]
    /\ UNCHANGED <<bucketVars, now, wake, start>>

\* WaitUser and WaitBytes up to their sleep.  The first does not sleep when its
\* rate is 0; the second divides by 0 and sleeps for a negative time, which is not
\* at all either.
Arrive(d) ==
    /\ phase[d] = "arrive"
    /\ LET b == at[d] IN
       IF rate[b] = 0 \/ Refilled(b) >= need[d]
       THEN Take(d)
       ELSE /\ tokens' = [tokens EXCEPT ![b] = Refilled(b)]
            /\ last'   = [last EXCEPT ![b] = now]
            /\ wake'   = [wake EXCEPT ![d] = now + SleepTime(b, need[d] - Refilled(b))]
            /\ phase'  = [phase EXCEPT ![d] = "sleep"]
            /\ UNCHANGED <<rate, now, at, need, sent, start, total, raced>>

\* Faulty variant, for the mutation runs only: after the sleep the download waits
\* until its tokens are there.
WakeWhenThere(d) ==
    /\ phase[d] = "sleep"
    /\ now >= wake[d]
    /\ Refilled(at[d]) >= need[d]
    /\ Take(d)

\* After the sleep the tokens are taken without another look at whether they are
\* there.
Wake(d) ==
    /\ phase[d] = "sleep"
    /\ now >= wake[d]
    /\ Take(d)

\* The file is sent, or the client is gone, which ends no sleep.
Finish(d) ==
    /\ phase[d] = "write"
    /\ phase' = [phase EXCEPT ![d] = "idle"]
    /\ sent'  = [sent EXCEPT ![d] = 0]
    /\ start' = [start EXCEPT ![d] = 0]
    /\ UNCHANGED <<bucketVars, now, at, need, wake>>

Millisecond ==
    /\ now < MaxNow \/ \E d \in Downloads : phase[d] = "sleep" /\ wake[d] > now
    /\ now' = now + 1
    /\ UNCHANGED <<bucketVars, phase, at, need, wake, sent, start>>

BucketsNext ==
    \/ \E d \in Downloads : Begin(d) \/ Write(d) \/ Arrive(d) \/ Wake(d) \/ Finish(d)
    \/ Millisecond

BucketsSpec == BucketsInit /\ [][BucketsNext]_throttle

\* Time passes, the mutex is handed on, and a sleep that is over ends.
FairBuckets ==
    /\ BucketsSpec
    /\ WF_throttle(Millisecond)
    /\ \A d \in Downloads : WF_throttle(Arrive(d) \/ Wake(d))

-----------------------------------------------------------------------------
(* Properties *)

BucketsTypeOK ==
    /\ rate   \in [Buckets -> Nat]
    /\ now    \in Nat
    /\ tokens \in [Buckets -> Nat]
    /\ last   \in [Buckets -> Nat]
    /\ phase  \in [Downloads -> {"idle", "write", "arrive", "sleep"}]
    /\ at     \in [Downloads -> Buckets]
    /\ need   \in [Downloads -> Nat]
    /\ wake   \in [Downloads -> Nat]
    /\ sent   \in [Downloads -> Nat]
    /\ start  \in [Downloads -> Nat]
    /\ total  \in [Buckets -> Nat]
    /\ raced  \subseteq Buckets

\* The buckets the bytes of a download go through.
Path(d) == {UserOf[d], Global}

\* Of what was written, what has not passed a bucket yet.
Ahead(b, d) ==
    IF phase[d] \in {"arrive", "sleep"} /\ b \in {at[d], Global} THEN need[d] ELSE 0

Passed(b, d) == sent[d] - Ahead(b, d)

\* "token-bucket throughput" (limiter.go:14): whatever the others do to the bucket
\* while it sleeps, no download gets more through than the rate allows since it
\* began, and one burst.
RateHolds ==
    \A d \in Downloads : \A b \in Path(d) :
        rate[b] > 0 => Passed(b, d) <= rate[b] * (now - start[d]) + Burst(b)

\* The same of all that pass a bucket together, as long as nobody draws on it
\* while another sleeps: then the sleeper takes what is no longer there, and that
\* debt is struck out.
SharedRateHolds ==
    \A b \in Buckets \ raced :
        rate[b] > 0 => total[b] <= rate[b] * now + Burst(b)

\* Nobody pays for the others: a sleep is never longer than what the chunk itself
\* takes from an empty bucket.
OwnCostOnly ==
    \A d \in Downloads :
        phase[d] = "sleep" => wake[d] <= now + SleepTime(at[d], need[d])

\* Every chunk comes through, also one larger than the bucket.
ChunksPass == \A d \in Downloads : phase[d] \in {"arrive", "sleep"} ~> phase[d] = "write"
=============================================================================
