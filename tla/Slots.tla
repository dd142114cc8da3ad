-------------------------------- MODULE Slots --------------------------------
(***************************************************************************)
(* The concurrency slots of one listener: download/limiter.go, Acquire and *)
(* the release it returns, over the Redis key "dl:conc:<user>".  Requests  *)
(* of other listeners use other keys and never meet this one.              *)
(*                                                                         *)
(* Acquire is a sequence of Redis commands, and any command of another     *)
(* request, the expiry of the key or a restart may come between two of     *)
(* them.  The key outlives the server process.                             *)
(***************************************************************************)
EXTENDS Integers, FiniteSets

CONSTANTS
    Requests,       \* download requests of the listener
    MaxConc,        \* DOWNLOAD_CONCURRENCY
    KeyTTL,         \* 30 minutes, in ticks
    RequestTime,    \* ticks a request may live: the server's WriteTimeout
    Cap,            \* bound: no request starts while the counter is there
    Faults          \* which may happen: "crash", a restart; "redis", an INCR
                    \* whose answer is lost or a DECR that fails; "gap", an
                    \* EXPIRE that comes late or fails

ASSUME SlotsAssumption ==
    /\ IsFiniteSet(Requests)
    /\ MaxConc \in Nat \ {0}
    /\ RequestTime \in Nat
    /\ KeyTTL \in Nat /\ KeyTTL > RequestTime
    /\ Cap \in Nat
    /\ Faults \subseteq {"crash", "redis", "gap"}

VARIABLES
    conc,       \* the counter, 0 when the key does not exist
    ttl,        \* ticks until the key expires, NoTTL, or Absent
    pc,         \* the next command of each request
    n,          \* what INCR returned to it
    age,        \* ticks since its INCR
    drift,      \* history: what faults added to the count or took from it
    lapsed      \* history: the key expired under a request that was counted

history == <<drift, lapsed>>
vars    == <<conc, ttl, pc, n, age, history>>

Absent == -1
NoTTL  == 0

\* A request that has counted itself and not yet taken the count back.
Counted(r) == pc[r] # "idle"
CountedSet == {r \in Requests : Counted(r)}
InLimit    == {r \in Requests : Counted(r) /\ n[r] <= MaxConc}
Holders    == {r \in Requests : pc[r] = "serve"}
LetIn      == {r \in Requests : pc[r] \in {"daily", "serve"}}

Init ==
    /\ conc = 0
    /\ ttl  = Absent
    /\ pc   = [r \in Requests |-> "idle"]
    /\ n    = [r \in Requests |-> 0]
    /\ age  = [r \in Requests |-> 0]
    /\ drift  = 0
    /\ lapsed = FALSE

-----------------------------------------------------------------------------
(* Redis commands *)

\* INCR and DECR create a missing key, without a time to live.
Add(d) ==
    /\ conc' = conc + d
    /\ ttl'  = IF ttl = Absent THEN NoTTL ELSE ttl

Goto(r, where) ==
    /\ pc' = [pc EXCEPT ![r] = where]
    /\ UNCHANGED <<n, age>>

End(r) ==
    /\ pc'  = [pc EXCEPT ![r] = "idle"]
    /\ n'   = [n EXCEPT ![r] = 0]
    /\ age' = [age EXCEPT ![r] = 0]

-----------------------------------------------------------------------------
(* Faulty variants, for the mutation runs only *)

\* The limit is compared with >= instead of the count that was handed out.
AdmitLate(r) ==
    /\ pc[r] = "admit"
    /\ Goto(r, IF n[r] > MaxConc + 1 THEN "refuse" ELSE "daily")
    /\ UNCHANGED <<conc, ttl, history>>

\* A refusal for the daily limit forgets the slot.
DailyForgets(r) ==
    /\ pc[r] = "daily"
    /\ Goto(r, "serve") \/ End(r)
    /\ UNCHANGED <<conc, ttl, history>>

\* A refused request tries again on its own, for as long as it takes.
RefuseRetries(r) ==
    /\ pc[r] = "refuse"
    /\ Goto(r, "admit")
    /\ UNCHANGED <<conc, ttl, history>>

-----------------------------------------------------------------------------
(* Acquire *)

\* INCR.  If its answer is lost, Acquire returns the error and the slot stays.
Incr(r) ==
    /\ pc[r] = "idle"
    /\ conc < Cap
    /\ Add(1)
    /\ \/ /\ pc' = [pc EXCEPT ![r] = "expire"]
          /\ n'  = [n EXCEPT ![r] = conc + 1]
          /\ age' = [age EXCEPT ![r] = 0]
          /\ drift' = drift
       \/ /\ "redis" \in Faults
          /\ drift' = drift + 1
          /\ UNCHANGED <<pc, n, age>>
    /\ lapsed' = lapsed

\* EXPIRE: no effect on a key that is gone, and its error is ignored.
Expire(r) ==
    /\ pc[r] = "expire"
    /\ \/ ttl' = IF ttl = Absent THEN Absent ELSE KeyTTL
       \/ "gap" \in Faults /\ UNCHANGED ttl
    /\ Goto(r, "admit")
    /\ UNCHANGED <<conc, history>>

Admit(r) ==
    /\ pc[r] = "admit"
    /\ Goto(r, IF n[r] > MaxConc THEN "refuse" ELSE "daily")
    /\ UNCHANGED <<conc, ttl, history>>

\* GET of the daily counter: below the limit the request is served; at the
\* limit, or on an error, it is refused.
Daily(r) ==
    /\ pc[r] = "daily"
    /\ \E where \in {"serve", "refuse"} : Goto(r, where)
    /\ UNCHANGED <<conc, ttl, history>>

\* The DECR of a refusal and of the deferred release.  Its error is ignored.
TakeBack(r) ==
    /\ \/ Add(-1) /\ drift' = drift
       \/ "redis" \in Faults /\ drift' = drift + 1 /\ UNCHANGED <<conc, ttl>>
    /\ lapsed' = lapsed
    /\ End(r)

Refuse(r)  == pc[r] = "refuse" /\ TakeBack(r)
Release(r) == pc[r] = "serve" /\ TakeBack(r)

-----------------------------------------------------------------------------
(* Time and restarts *)

\* Ten minutes, say.  No request lives longer than the server lets it write.
\* Between INCR and EXPIRE time only passes with the "gap" fault.
Tick ==
    /\ \A r \in Requests : Counted(r) => age[r] < RequestTime
    /\ "gap" \in Faults \/ \A r \in Requests : pc[r] # "expire"
    /\ age' = [r \in Requests |-> IF Counted(r) THEN age[r] + 1 ELSE 0]
    /\ IF ttl = 1
       THEN /\ ttl'    = Absent
            /\ conc'   = 0
            /\ drift'  = -Cardinality(CountedSet)
            /\ lapsed' = (CountedSet # {})
       ELSE /\ ttl' = IF ttl > 1 THEN ttl - 1 ELSE ttl
            /\ UNCHANGED <<conc, history>>
    /\ UNCHANGED <<pc, n>>

\* The process stops; nothing resets the counters when it starts again.
Restart ==
    /\ "crash" \in Faults
    /\ pc'  = [r \in Requests |-> "idle"]
    /\ n'   = [r \in Requests |-> 0]
    /\ age' = [r \in Requests |-> 0]
    /\ drift' = drift + Cardinality(CountedSet)
    /\ UNCHANGED <<conc, ttl, lapsed>>

Step(r) == Expire(r) \/ Admit(r) \/ Daily(r) \/ Refuse(r) \/ Release(r)

Next ==
    \/ \E r \in Requests : Incr(r) \/ Step(r)
    \/ Tick
    \/ Restart

Spec == Init /\ [][Next]_vars

\* Handlers run to their end and time passes, however often a command is between
\* INCR and EXPIRE when a tick is due.  Nobody has to start a download.
FairSpec == Spec /\ SF_vars(Tick) /\ \A r \in Requests : WF_vars(Step(r))

-----------------------------------------------------------------------------
(* Properties *)

TypeOK ==
    /\ conc \in Int
    /\ ttl  \in {Absent, NoTTL} \cup 1 .. KeyTTL
    /\ pc   \in [Requests -> {"idle", "expire", "admit", "daily", "refuse", "serve"}]
    /\ n    \in [Requests -> Int]
    /\ age  \in [Requests -> 0 .. RequestTime]
    /\ drift  \in Int
    /\ lapsed \in BOOLEAN

\* "Limiter enforces concurrency" (limiter.go:14): never more than MaxConc
\* downloads of a listener are served at once.
AtMostMaxConc == Cardinality(Holders) <= MaxConc

\* Restarts, lost answers and failing commands never lift the limit: the only
\* way past it is a key that expires under a counted request, and the limit is
\* back when the key next expires with nobody counted.
LimitedUnlessLapsed == lapsed \/ AtMostMaxConc

\* Every path out of Acquire and of the download gives its count back exactly
\* once, refusals included: the counter is the number of requests that still
\* have to give it back, apart from what the faults themselves added or took.
CountIsExact == conc = Cardinality(CountedSet) + drift

\* What makes these inductive.  A counted request has its key; while the key has
\* not lapsed the counter is never short, and at most MaxConc requests hold a
\* number within the limit, whether they have compared it yet or not.
NeverShort == lapsed \/ conc >= Cardinality(CountedSet)
Ranks      == lapsed \/ Cardinality(InLimit) <= MaxConc
InRank     == \A r \in Requests : pc[r] \in {"daily", "serve"} => n[r] <= MaxConc

Inv == TypeOK /\ NeverShort /\ Ranks /\ InRank /\ CountIsExact

\* A request younger than RequestTime < KeyTTL keeps its key, when the EXPIRE
\* follows the INCR in time: then nothing ever lapses.
KeyLasts ==
    /\ lapsed = FALSE
    /\ \A r \in Requests : Counted(r) =>
        /\ ttl # Absent
        /\ pc[r] = "expire" \/ ttl = NoTTL \/ ttl >= KeyTTL - age[r]

\* A download that began ends and gives its slot up, and a refused one is told
\* so, under any fault.
EveryRequestEnds == \A r \in Requests : Counted(r) ~> ~Counted(r)

\* As long as nothing lapses the commands implement a semaphore: the comparison takes
\* the slot.
Promise == INSTANCE Semaphore WITH Limit <- MaxConc, holders <- LetIn
=============================================================================
