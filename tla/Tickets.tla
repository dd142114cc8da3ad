------------------------------- MODULE Tickets -------------------------------
(***************************************************************************)
(* What a download ticket pays for: handler/download.go, the ticket rows   *)
(* of repo/repos.go, the resume policy of download/resume.go and the daily *)
(* counter of download/limiter.go, for the tickets of one listener.        *)
(*                                                                         *)
(* The handler reads the ticket row once, at the start, and accounts with  *)
(* that copy after the transfer, which takes minutes: other requests with  *)
(* the same ticket run in between.  The concurrency slots are those of     *)
(* Slots, taken at their word: at most MaxConc requests hold one, and a    *)
(* request may be refused at any time.                                     *)
(***************************************************************************)
EXTENDS Integers, FiniteSets

CONSTANTS
    Nonces,         \* the tickets issued
    Requests,       \* download requests
    Size,           \* size of the file, and what its row says it is (see Upload)
    Headers,        \* the Range headers clients send: their two numbers
    Sent,           \* bytes a transfer may have written when it ends
    MaxUses,        \* TICKET_MAX_USES
    MaxConc,        \* DOWNLOAD_CONCURRENCY
    DailyLimit,     \* DAILY_DOWNLOAD_LIMIT
    MaxBytes,       \* bound: no request starts on a ticket with that many bytes
    Faults          \* which of "cancel", "redis", "db" and "crash" may happen

NoNonce == "none"

\* A number that is not there.  Both are missing without a header, or with one that
\* is malformed or asks for several ranges.
Missing == -1

ASSUME TicketsAssumption ==
    /\ NoNonce \notin Nonces
    /\ IsFiniteSet(Requests)
    /\ Size \in Nat \ {0}
    /\ Headers \subseteq [first : Nat \cup {Missing}, last : Nat \cup {Missing}]
    /\ Sent \subseteq Nat
    /\ MaxUses \in Nat \ {0}
    /\ MaxConc \in Nat \ {0}
    /\ DailyLimit \in Nat \ {0}
    /\ MaxBytes \in Nat
    /\ Faults \subseteq {"cancel", "redis", "db", "crash"}

VARIABLES
    uses,       \* download_tickets.uses
    bytes,      \* download_tickets.bytes_done
    closed,     \* the tickets that are revoked or past their expiry
    day,        \* "dl:day:<user>:<today>"
    pc,         \* where each request is in Download
    ticket,     \* its nonce
    seen,       \* row.BytesDone as it read it
    moved,      \* n, the bytes it accounts for
    unsized,    \* requests let in on an exhausted ticket without the file's size
    shared      \* history: tickets two requests have worked on at the same time

rows     == <<uses, bytes, closed>>
requests == <<pc, ticket, seen, moved, unsized>>
vars     == <<rows, day, requests, shared>>

\* CompleteRatio: 95% of the file.
Threshold    == (Size * 95) \div 100
Completed(b) == b >= Threshold

\* Faulty variant, for the mutation runs only: a ticket is open until its last byte.
AllowUntilLastByte(k, known) == uses[k] < MaxUses \/ ~known \/ bytes[k] < Size

\* AllowAnotherHit, as Download calls it when the uses are up.  A file whose size is
\* not known is never completed.
AllowAnotherHit(k, known) == uses[k] < MaxUses \/ ~known \/ ~Completed(bytes[k])

\* ParseSingleRange: "first-last", "first-" and "-suffix", cut at the end of the file.
RangeOk(h) ==
    IF h.first = Missing THEN h.last > 0
    ELSE h.first < Size /\ (h.last = Missing \/ h.last >= h.first)

RangeStart(h) ==
    IF h.first # Missing THEN h.first
    ELSE IF h.last > Size THEN 0 ELSE Size - h.last

RangeEnd(h) ==
    IF h.first = Missing \/ h.last = Missing \/ h.last >= Size THEN Size - 1 ELSE h.last

BytesOfRange(h) == IF RangeOk(h) THEN RangeEnd(h) - RangeStart(h) + 1 ELSE Size

Holding  == {r \in Requests : pc[r] \in {"daily", "serve", "add", "mark"}}
Admitted == {r \in Requests : pc[r] \in {"serve", "add", "mark"}}

Init ==
    /\ uses    = [k \in Nonces |-> 0]
    /\ bytes   = [k \in Nonces |-> 0]
    /\ closed  = {}
    /\ day     = 0
    /\ pc      = [r \in Requests |-> "idle"]
    /\ ticket  = [r \in Requests |-> NoNonce]
    /\ seen    = [r \in Requests |-> 0]
    /\ moved   = [r \in Requests |-> 0]
    /\ unsized = {}
    /\ shared  = {}

Goto(r, where) ==
    /\ pc' = [pc EXCEPT ![r] = where]
    /\ UNCHANGED <<ticket, seen, unsized>>

End(r) ==
    /\ pc'      = [pc EXCEPT ![r] = "idle"]
    /\ ticket'  = [ticket EXCEPT ![r] = NoNonce]
    /\ seen'    = [seen EXCEPT ![r] = 0]
    /\ moved'   = [moved EXCEPT ![r] = 0]
    /\ unsized' = unsized \ {r}

-----------------------------------------------------------------------------
(* Faulty variants, for the mutation runs only *)

\* Every finished request uses the ticket once, whatever it moved.
AddBytesAlways(r) ==
    /\ pc[r] = "add"
    /\ bytes' = [bytes EXCEPT ![ticket[r]] = @ + moved[r]]
    /\ uses'  = [uses EXCEPT ![ticket[r]] = @ + 1]
    /\ Goto(r, "mark") /\ moved' = moved
    /\ UNCHANGED <<closed, day, shared>>

\* A completion is recognised from the bytes of the last request alone.
AddBytesForgetsEarlier(r) ==
    /\ pc[r] = "add"
    /\ LET k == ticket[r]
           complete == Completed(moved[r]) /\ ~Completed(seen[r])
       IN /\ bytes' = [bytes EXCEPT ![k] = @ + moved[r]]
          /\ uses'  = [uses EXCEPT ![k] = IF complete THEN @ + 1 ELSE @]
          /\ IF complete THEN Goto(r, "mark") /\ moved' = moved ELSE End(r)
    /\ UNCHANGED <<closed, day, shared>>

\* A slot is not awaited.
AcquireAlways(r) ==
    /\ pc[r] = "acquire"
    /\ Goto(r, "daily")
    /\ UNCHANGED <<rows, day, moved, shared>>

\* MarkComplete fails silently and is retried at once.
MarkCompleteRetries(r) ==
    /\ pc[r] = "mark"
    /\ \/ day' = day + 1 /\ End(r)
       \/ "redis" \in Faults /\ day' = day + 1 /\ UNCHANGED requests
    /\ UNCHANGED <<rows, shared>>

-----------------------------------------------------------------------------
(* Download *)

\* What was signed passes until it expires; that its row is not revoked is counted in here.
VerifyTicket(k) == k \notin closed

\* Only a ticket whose uses are up makes Download look for the size of the file, and
\* it drops the error of that TrackByID: the size stays 0.
SizeKnown(k) == {TRUE} \cup {u \in {FALSE} : "db" \in Faults /\ uses[k] >= MaxUses}

\* The ticket, TicketByNonce and the checks on the row, all from one read.
Begin(r, k) ==
    /\ pc[r] = "idle"
    /\ VerifyTicket(k)
    /\ \E known \in SizeKnown(k) :
        /\ AllowAnotherHit(k, known)
        /\ unsized' = IF known THEN unsized ELSE unsized \cup {r}
    /\ bytes[k] < MaxBytes
    /\ pc'     = [pc EXCEPT ![r] = "acquire"]
    /\ ticket' = [ticket EXCEPT ![r] = k]
    /\ seen'   = [seen EXCEPT ![r] = bytes[k]]
    /\ shared' = shared \cup {j \in {k} : \E q \in Requests : ticket[q] = j}
    /\ UNCHANGED <<rows, day, moved>>

Acquire(r) ==
    /\ pc[r] = "acquire"
    /\ Cardinality(Holding) < MaxConc
    /\ Goto(r, "daily")
    /\ UNCHANGED <<rows, day, moved, shared>>

\* The daily counter is read while the slot is held.
CheckDaily(r) ==
    /\ pc[r] = "daily"
    /\ IF day < DailyLimit THEN Goto(r, "serve") /\ moved' = moved ELSE End(r)
    /\ UNCHANGED <<rows, day, shared>>

\* A refusal of the limiter, an error before the first byte (the file is gone),
\* or a call that fails.  The deferred release runs on every path.
GiveUp(r) ==
    /\ pc[r] \in {"acquire", "daily", "serve"}
    /\ End(r)
    /\ UNCHANGED <<rows, day, shared>>

\* ServeContent writes what it can of the range, or of the file, or of an error text.
\* When nothing is written (a 304, say) the range asked for counts as sent.
Serve(r) ==
    /\ pc[r] = "serve"
    /\ \E h \in Headers, sent \in Sent :
        moved' = [moved EXCEPT ![r] = IF sent = 0 THEN BytesOfRange(h) ELSE sent]
    /\ Goto(r, "add")
    /\ UNCHANGED <<rows, day, shared>>

\* AddTicketBytes: the row is increased, but whether this request completes the
\* ticket is decided from the copy it read.  With a cancelled context nothing is
\* recorded.
AddTicketBytes(r) ==
    /\ pc[r] = "add"
    /\ LET k        == ticket[r]
           complete == Completed(seen[r] + moved[r]) /\ ~Completed(seen[r])
       IN \/ /\ bytes' = [bytes EXCEPT ![k] = @ + moved[r]]
             /\ uses'  = [uses EXCEPT ![k] = IF complete THEN @ + 1 ELSE @]
             /\ IF complete THEN Goto(r, "mark") /\ moved' = moved ELSE End(r)
          \/ /\ "cancel" \in Faults
             /\ End(r)
             /\ UNCHANGED <<uses, bytes>>
    /\ UNCHANGED <<closed, day, shared>>

MarkComplete(r) ==
    /\ pc[r] = "mark"
    /\ day' = day + 1 \/ ("redis" \in Faults /\ UNCHANGED day)
    /\ End(r)
    /\ UNCHANGED <<rows, shared>>

-----------------------------------------------------------------------------
(* RevokeTicket, the expiry of the ticket, a new civil day, a restart *)

Close(k) ==
    /\ k \notin closed
    /\ closed' = closed \cup {k}
    /\ UNCHANGED <<uses, bytes, day, requests, shared>>

NewDay ==
    /\ day # 0
    /\ day' = 0
    /\ UNCHANGED <<rows, requests, shared>>

Restart ==
    /\ "crash" \in Faults
    /\ pc'      = [r \in Requests |-> "idle"]
    /\ ticket'  = [r \in Requests |-> NoNonce]
    /\ seen'    = [r \in Requests |-> 0]
    /\ moved'   = [r \in Requests |-> 0]
    /\ unsized' = {}
    /\ UNCHANGED <<rows, day, shared>>

Next ==
    \/ \E r \in Requests :
         \/ \E k \in Nonces : Begin(r, k)
         \/ Acquire(r)
         \/ CheckDaily(r)
         \/ GiveUp(r)
         \/ Serve(r)
         \/ AddTicketBytes(r)
         \/ MarkComplete(r)
    \/ \E k \in Nonces : Close(k)
    \/ NewDay
    \/ Restart

Spec == Init /\ [][Next]_vars

-----------------------------------------------------------------------------
(* Properties *)

TypeOK ==
    /\ uses    \in [Nonces -> Nat]
    /\ bytes   \in [Nonces -> Nat]
    /\ closed  \subseteq Nonces
    /\ day     \in Nat
    /\ pc      \in [Requests -> {"idle", "acquire", "daily", "serve", "add", "mark"}]
    /\ ticket  \in [Requests -> Nonces \cup {NoNonce}]
    /\ seen    \in [Requests -> Nat]
    /\ moved   \in [Requests -> Nat]
    /\ unsized \subseteq Requests
    /\ shared  \subseteq Nonces

\* A use is only ever spent on a ticket whose recorded bytes make a download,
\* although the decision is taken from a copy that may be minutes old.
UsesMeanBytes == \A k \in Nonces : uses[k] > 0 => Completed(bytes[k])

\* The resume policy lets a ticket in "even if uses==max" while it is unfinished
\* (resume_test.go:17-18).  It never has to: once its uses are up a ticket is
\* finished.  An exhausted ticket opens only to a request whose look-up of the file's
\* size failed, and such a request is never charged, whatever it moves: it spends no
\* use and does not reach the daily counter.
ExhaustedIsFinal ==
    [][\A r \in Requests, k \in Nonces :
        /\ uses[k] >= MaxUses /\ pc[r] = "idle" /\ pc'[r] # "idle" /\ ticket'[r] = k =>
             r \in unsized'
        /\ r \in unsized => pc'[r] # "mark"]_vars

\* The uses that have been spent, and the requests that have yet to count theirs.
Spent   == UNION {{k} \X (1 .. uses[k]) : k \in Nonces}
Marking == {r \in Requests : pc[r] = "mark"}

\* The daily counter never holds more than the uses the listener's tickets have
\* spent: a listener is not charged for what he did not complete.
DailyNeverOverstated == day + Cardinality(Marking) <= Cardinality(Spent)

\* The daily limit is read when a download starts and counted when it ends, so
\* it can be overrun, but by no more than the other downloads in flight.
DailyOverrun == day <= DailyLimit + MaxConc - 1

\* A ticket no two requests ever worked on at once is charged once, and exactly
\* when 95% of the file has been recorded, whatever fails in between.  (For a file of
\* which 95% are no byte nobody is ever charged.)
ChargedOnce ==
    \A k \in Nonces \ shared :
        uses[k] = IF Completed(bytes[k]) /\ ~Completed(0) THEN 1 ELSE 0

\* What makes these inductive: a copy is never ahead of its row, and is the row as
\* long as no other request works on the ticket; a request that is let in without the
\* size has a finished copy; and a download past the daily check is as good as counted.
CopiesLag == \A r \in Requests :
    pc[r] # "idle" => ticket[r] \in Nonces /\ seen[r] <= bytes[ticket[r]]
CopiesStand == \A r \in Requests :
    /\ pc[r] = "idle" => ticket[r] = NoNonce
    /\ ticket[r] \in Nonces \ shared =>
        /\ \A q \in Requests \ {r} : ticket[q] # ticket[r]
        /\ pc[r] # "mark" => seen[r] = bytes[ticket[r]]
UnsizedIsDone == \A r \in unsized : pc[r] \notin {"idle", "mark"} /\ Completed(seen[r])
SlotsHold == Cardinality(Holding) <= MaxConc
InFlight  == day + Cardinality(Admitted) <= DailyLimit + MaxConc - 1

Inv ==
    /\ TypeOK
    /\ CopiesLag
    /\ CopiesStand
    /\ UsesMeanBytes
    /\ UnsizedIsDone
    /\ ChargedOnce
    /\ SlotsHold
    /\ InFlight

\* Nothing more is asked of Slots, or does this module do with a slot, than what a
\* semaphore allows.
Promise == INSTANCE Semaphore WITH Limit <- MaxConc, holders <- Holding
=============================================================================
