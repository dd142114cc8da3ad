------------------------------- MODULE Sponsor -------------------------------
(***************************************************************************)
(* Checkout and fulfilment: service/sponsor.go with the rows it keeps in   *)
(* orders, grants, subscriptions and tracks.sponsor_cents (repo/repos.go), *)
(* and the payment channel of payment/.                                    *)
(*                                                                         *)
(* Every HTTP request is served by a goroutine of its own; a member of     *)
(* Requests is one such goroutine, pc[r] the database or provider call it  *)
(* is about to make.  Each call is one step, since other requests run      *)
(* between any two of them: Fulfill has no transaction.  A call may fail   *)
(* (the client hung up and r.Context() is cancelled, the pool is           *)
(* exhausted), fail although it was applied, or never return because the   *)
(* process stops.                                                          *)
(*                                                                         *)
(* A member of Writers is other code that reads a whole row of tracks,     *)
(* keeps it for a while and writes it back, sponsor_cents with it: the     *)
(* transcoding worker (worker.go:75 to 151), PatchTrack and OpenStream.    *)
(***************************************************************************)
EXTENDS Integers, FiniteSets

CONSTANTS
    Orders,         \* order numbers
    Users,          \* rows of the users table
    Creators,       \* ids a client may name in /creators/{id}/subscribe
    Tracks,
    Requests,       \* request goroutines
    Writers,        \* the worker and the requests that change a track's row
    Amounts,        \* amountCents a client may send
    Price,          \* paid_price_cents of each track
    Behaviours,     \* MOCK_PAY_BEHAVIOR, or "real" for the unwired channel
    SubDays,        \* length of a subscription, 30 days in the code
    MaxDay,         \* bound on the clock
    Faults          \* which of "call", "crash" may happen

NoOrder == "none"       \* the order number of a request that has none
NoTrack == "none"       \* the work of a writer that holds no row

ASSUME SponsorAssumption ==
    /\ NoOrder \notin Orders
    /\ NoTrack \notin Tracks
    /\ Requests \cap Writers = {}
    /\ Price \in [Tracks -> Nat]
    /\ Amounts \subseteq Int
    /\ SubDays \in Nat \ {0}
    /\ MaxDay \in Nat \ {0}
    /\ Behaviours # {}
    /\ Faults \subseteq {"call", "crash"}

VARIABLES
    status,         \* orders.status, "absent" when there is no row
    row,            \* the columns of orders that never change
    issued,         \* per order: grant rows inserted, subscriptions upserted
    credited,       \* tracks.sponsor_cents, as how often each order is in it
    subs,           \* subscriptions.expires_at per user and creator, 0: no row
    behaviour,      \* how the provider this process selected behaves
    now,            \* clock.Now(), in days
    pc,             \* the next call of each request
    cur,            \* the order number the request works on
    seen,           \* sponsor_cents of the track row the request has read
    expiry,         \* exp of the subscription the request is about to upsert
    held,           \* the work whose row a writer has in memory
    copy,           \* sponsor_cents in that copy
    raced,          \* history: works whose row was written while another held it
    cut             \* history: orders whose elected request did not come through

dbVars  == <<status, row, issued, credited, subs>>
reqVars == <<pc, cur, seen, expiry>>
rowVars == <<held, copy>>
vars    == <<dbVars, behaviour, now, reqVars, rowVars, raced, cut>>

-----------------------------------------------------------------------------
(* Rows *)

NoRow   == [kind |-> "NONE"]

TrackRows == [kind : {"TRACK_SPONSOR"}, user : Users, track : Tracks, amount : Int]
SubRows   == [kind : {"FAN_SUB"}, user : Users, creator : Creators]

\* amount <= 0 stands for the price of the work.
Effective(amount, t) == IF amount <= 0 THEN Price[t] ELSE amount

Nobody == [o \in Orders |-> 0]      \* a sponsor_cents no order has added to

Init ==
    /\ status    = [o \in Orders |-> "absent"]
    /\ row       = [o \in Orders |-> NoRow]
    /\ issued    = [o \in Orders |-> 0]
    /\ credited  = [t \in Tracks |-> Nobody]
    /\ subs      = [p \in Users \X Creators |-> 0]
    /\ behaviour \in Behaviours
    /\ now       = 1
    /\ pc        = [r \in Requests |-> "idle"]
    /\ cur       = [r \in Requests |-> NoOrder]
    /\ seen      = [r \in Requests |-> Nobody]
    /\ expiry    = [r \in Requests |-> 0]
    /\ held      = [w \in Writers |-> NoTrack]
    /\ copy      = [w \in Writers |-> Nobody]
    /\ raced     = {}
    /\ cut       = {}

-----------------------------------------------------------------------------
(* How a request moves on.  Its locals die with it. *)

Goto(r, where) ==
    /\ pc' = [pc EXCEPT ![r] = where]
    /\ UNCHANGED <<cur, seen, expiry>>

End(r) ==
    /\ pc'     = [pc EXCEPT ![r] = "idle"]
    /\ cur'    = [cur EXCEPT ![r] = NoOrder]
    /\ seen'   = [seen EXCEPT ![r] = Nobody]
    /\ expiry' = [expiry EXCEPT ![r] = 0]

\* The request has won the election of MarkOrderPaid and has not ended.
Elected(r) == pc[r] \in {"grant", "read", "write", "expiry", "upsert"}

\* A call that was applied: the request goes on, or it ends because the
\* answer of the database never reached it.
Answered(r, where) ==
    \/ Goto(r, where) /\ UNCHANGED cut
    \/ "call" \in Faults /\ End(r) /\ cut' = cut \cup {cur[r]}

\* Who has a copy of a work's row in memory.
Readers(t) == {r \in Requests : pc[r] = "write" /\ row[cur[r]].track = t}
                  \cup {w \in Writers : held[w] = t}

\* x writes the row of a work; the copies of the others are old from here on.
Write(x, t, cents) ==
    /\ credited' = [credited EXCEPT ![t] = cents]
    /\ raced' = IF Readers(t) \subseteq {x} THEN raced ELSE raced \cup {t}

-----------------------------------------------------------------------------
(* Faulty variants of the definitions below, for the mutation runs only: each *)
(* is a plausible slip in the code that one of the properties has to notice.  *)

\* UPDATE ... WHERE order_no=$1 without AND status<>'paid'.
MarkOrderPaidAlwaysFirst(r) ==
    /\ pc[r] = "mark"
    /\ status' = [status EXCEPT ![cur[r]] = "paid"]
    /\ Answered(r, IF row[cur[r]].kind = "FAN_SUB" THEN "expiry" ELSE "grant")
    /\ UNCHANGED <<row, issued, credited, subs, behaviour, now, rowVars, raced>>

\* The purchase is delivered before the order is marked.
ChargeDeliversFirst(r) ==
    /\ pc[r] = "charge"
    /\ Goto(r, IF row[cur[r]].kind = "FAN_SUB" THEN "expiry" ELSE "grant")
    /\ UNCHANGED <<dbVars, behaviour, now, rowVars, raced, cut>>

\* A lost answer of UpdateTrack is retried with the row read again.
UpdateTrackRetries(r) ==
    /\ pc[r] = "write"
    /\ Write(r, row[cur[r]].track, [seen[r] EXCEPT ![cur[r]] = @ + 1])
    /\ (Goto(r, "read") \/ End(r))
    /\ UNCHANGED <<status, row, issued, subs, behaviour, now, rowVars, cut>>

\* The amount is added to a row read before the checkout began.
CreateGrantSkipsRead(r) ==
    /\ pc[r] = "grant"
    /\ issued' = [issued EXCEPT ![cur[r]] = @ + 1]
    /\ Answered(r, "write")
    /\ UNCHANGED <<status, row, credited, subs, behaviour, now, rowVars, raced>>

\* A failing upsert is retried until it succeeds.
UpsertSubRetries(r) ==
    /\ pc[r] = "upsert"
    /\ LET o == cur[r]
           p == <<row[o].user, row[o].creator>>
       IN IF row[o].creator \in Users
            THEN /\ subs'   = [subs EXCEPT ![p] = expiry[r]]
                 /\ issued' = [issued EXCEPT ![o] = @ + 1]
                 /\ End(r)
            ELSE UNCHANGED <<subs, issued, reqVars>>
    /\ UNCHANGED <<status, row, credited, behaviour, now, rowVars, raced, cut>>

-----------------------------------------------------------------------------
(* CreateTrackSponsor and CreateFanSub *)

\* CreateOrder: both checkouts insert a pending row before they charge.
InsertOrder(r, o, columns) ==
    /\ pc[r] = "idle"
    /\ status[o] = "absent"
    /\ status' = [status EXCEPT ![o] = "pending"]
    /\ row'    = [row EXCEPT ![o] = columns]
    /\ cur'    = [cur EXCEPT ![r] = o]
    /\ pc'     = [pc EXCEPT ![r] = "charge"]
    /\ UNCHANGED <<issued, credited, subs, behaviour, now, seen, expiry,
                   rowVars, raced, cut>>

\* An amount below the price of the work is refused before the insert.
CreateTrackSponsor(r, o, u, t, amount) ==
    /\ Effective(amount, t) >= Price[t]
    /\ InsertOrder(r, o, [kind |-> "TRACK_SPONSOR", user |-> u, track |-> t,
                          amount |-> Effective(amount, t)])

\* The creator is not looked up: the id is whatever the URL said.
CreateFanSub(r, o, u, c) ==
    InsertOrder(r, o, [kind |-> "FAN_SUB", user |-> u, creator |-> c])

\* Provider.Charge: only "paid" is fulfilled in the same request.  A failed or
\* refused charge leaves the row pending: OrderFailed is set in memory only.
ChargeStatus ==
    CASE behaviour = "fail" -> "failed"
      [] behaviour \in {"timeout", "delayed"} -> "pending"
      [] behaviour = "real" -> "error"
      [] OTHER -> "paid"

Charge(r) ==
    /\ pc[r] = "charge"
    /\ IF ChargeStatus = "paid" THEN Goto(r, "mark") ELSE End(r)
    /\ UNCHANGED <<dbVars, behaviour, now, rowVars, raced, cut>>

-----------------------------------------------------------------------------
(* Callback and Fulfill *)

\* Provider.VerifyCallback lets a payload through unless it says "failed"; the
\* real channel lets none through.  Anyone who knows an order number (the
\* customer does, from the checkout answer or from /me/orders) may send it, as
\* often as he likes.  An unknown number ends at OrderByNo.
Callback(r, o) ==
    /\ pc[r] = "idle"
    /\ behaviour # "real"
    /\ status[o] # "absent"
    /\ cur' = [cur EXCEPT ![r] = o]
    /\ pc'  = [pc EXCEPT ![r] = "mark"]
    /\ UNCHANGED <<dbVars, behaviour, now, seen, expiry, rowVars, raced, cut>>

\* OrderByNo (its columns never change, so reading them has no step of its own)
\* and MarkOrderPaid: UPDATE ... WHERE status<>'paid', whose row count elects
\* the one request that settles the order.
MarkOrderPaid(r) ==
    /\ pc[r] = "mark"
    /\ status' = [status EXCEPT ![cur[r]] = "paid"]
    /\ IF status[cur[r]] = "paid"
         THEN End(r) /\ UNCHANGED cut
         ELSE Answered(r, IF row[cur[r]].kind = "FAN_SUB" THEN "expiry" ELSE "grant")
    /\ UNCHANGED <<row, issued, credited, subs, behaviour, now, rowVars, raced>>

CreateGrant(r) ==
    /\ pc[r] = "grant"
    /\ issued' = [issued EXCEPT ![cur[r]] = @ + 1]
    /\ Answered(r, "read")
    /\ UNCHANGED <<status, row, credited, subs, behaviour, now, rowVars, raced>>

\* TrackByID: the whole row is read ...
ReadTrack(r) ==
    /\ pc[r] = "read"
    /\ seen' = [seen EXCEPT ![r] = credited[row[cur[r]].track]]
    /\ pc'   = [pc EXCEPT ![r] = "write"]
    /\ UNCHANGED <<dbVars, behaviour, now, cur, expiry, rowVars, raced, cut>>

\* ... and UpdateTrack writes it back with this order's amount added.  Its error
\* is dropped.
UpdateTrack(r) ==
    /\ pc[r] = "write"
    /\ Write(r, row[cur[r]].track, [seen[r] EXCEPT ![cur[r]] = @ + 1])
    /\ End(r)
    /\ UNCHANGED <<status, row, issued, subs, behaviour, now, rowVars, cut>>

\* exp := clock.Now() + 30 days, taken before the upsert is sent.
ComputeExpiry(r) ==
    /\ pc[r] = "expiry"
    /\ expiry' = [expiry EXCEPT ![r] = now + SubDays]
    /\ pc'     = [pc EXCEPT ![r] = "upsert"]
    /\ UNCHANGED <<dbVars, behaviour, now, cur, seen, rowVars, raced, cut>>

\* UpsertSub overwrites expires_at.  subscriptions.creator_id references users,
\* so an id nobody has makes the call fail.
UpsertSub(r) ==
    /\ pc[r] = "upsert"
    /\ LET o == cur[r]
           p == <<row[o].user, row[o].creator>>
       IN IF row[o].creator \in Users
            THEN /\ subs'   = [subs EXCEPT ![p] = expiry[r]]
                 /\ issued' = [issued EXCEPT ![o] = @ + 1]
            ELSE UNCHANGED <<subs, issued>>
    /\ End(r)
    /\ UNCHANGED <<status, row, credited, behaviour, now, rowVars, raced, cut>>

-----------------------------------------------------------------------------
(* The other writers of a track's row *)

\* TrackByID: the writer takes a copy of the row ...
HoldRow(w, t) ==
    /\ held[w] = NoTrack
    /\ held' = [held EXCEPT ![w] = t]
    /\ copy' = [copy EXCEPT ![w] = credited[t]]
    /\ UNCHANGED <<dbVars, behaviour, now, reqVars, raced, cut>>

Release(w) ==
    /\ held' = [held EXCEPT ![w] = NoTrack]
    /\ copy' = [copy EXCEPT ![w] = Nobody]

\* ... changes columns of its own (the play count, the title, the HLS directory) and
\* writes all of them back, sponsor_cents as it was: seconds later in a request,
\* after minutes of ffmpeg in the worker.
WriteRow(w) ==
    /\ held[w] # NoTrack
    /\ Write(w, held[w], copy[w])
    /\ Release(w)
    /\ UNCHANGED <<status, row, issued, subs, behaviour, now, reqVars, cut>>

\* A refused patch, a failing transcoder or a failing UpdateTrack writes nothing.
DropRow(w) ==
    /\ held[w] # NoTrack
    /\ Release(w)
    /\ UNCHANGED <<dbVars, behaviour, now, reqVars, raced, cut>>

-----------------------------------------------------------------------------
(* Faults and time *)

\* A call that returns an error and was not applied: every caller gives up.
CallFails(r) ==
    /\ "call" \in Faults
    /\ pc[r] \notin {"idle", "expiry"}
    /\ End(r)
    /\ cut' = IF Elected(r) THEN cut \cup {cur[r]} ELSE cut
    /\ UNCHANGED <<dbVars, behaviour, now, rowVars, raced>>

\* The process stops: every request is gone, the rows stay.  The next process
\* may be configured with another payment behaviour.
Restart ==
    /\ "crash" \in Faults
    /\ pc'        = [r \in Requests |-> "idle"]
    /\ cur'       = [r \in Requests |-> NoOrder]
    /\ seen'      = [r \in Requests |-> Nobody]
    /\ expiry'    = [r \in Requests |-> 0]
    /\ held'      = [w \in Writers |-> NoTrack]
    /\ copy'      = [w \in Writers |-> Nobody]
    /\ behaviour' \in Behaviours
    /\ cut'       = cut \cup {cur[r] : r \in {q \in Requests : Elected(q)}}
    /\ UNCHANGED <<dbVars, now, raced>>

Tick ==
    /\ now < MaxDay
    /\ now' = now + 1
    /\ UNCHANGED <<dbVars, behaviour, reqVars, rowVars, raced, cut>>

-----------------------------------------------------------------------------

Checkout(r) ==
    \E o \in Orders, u \in Users :
        \/ \E t \in Tracks, amount \in Amounts : CreateTrackSponsor(r, o, u, t, amount)
        \/ \E c \in Creators : CreateFanSub(r, o, u, c)

\* The calls a request in flight makes.
Step(r) ==
    \/ Charge(r)
    \/ MarkOrderPaid(r)
    \/ CreateGrant(r)
    \/ ReadTrack(r)
    \/ UpdateTrack(r)
    \/ ComputeExpiry(r)
    \/ UpsertSub(r)

Next ==
    \/ \E r \in Requests :
         \/ Checkout(r)
         \/ \E o \in Orders : Callback(r, o)
         \/ Step(r)
         \/ CallFails(r)
    \/ \E w \in Writers :
         \/ \E t \in Tracks : HoldRow(w, t)
         \/ WriteRow(w)
         \/ DropRow(w)
    \/ Restart
    \/ Tick

Spec == Init /\ [][Next]_vars

\* A goroutine that can run does run, and no call blocks for ever.  Nothing
\* makes a client come back, a fault happen or a day pass.
FairSpec == Spec /\ \A r \in Requests : WF_vars(Step(r))
-----------------------------------------------------------------------------
(* Properties *)

\* Every variable keeps its type.  No subscription is ever paid further ahead
\* than one term from the latest day.
TypeOK ==
    /\ status    \in [Orders -> {"absent", "pending", "paid"}]
    /\ row       \in [Orders -> {NoRow} \cup TrackRows \cup SubRows]
    /\ issued    \in [Orders -> Nat]
    /\ credited  \in [Tracks -> [Orders -> Nat]]
    /\ subs      \in [Users \X Creators -> 0 .. MaxDay + SubDays]
    /\ behaviour \in Behaviours
    /\ now       \in 1 .. MaxDay
    /\ pc        \in [Requests -> {"idle", "charge", "mark", "grant", "read",
                                   "write", "expiry", "upsert"}]
    /\ cur       \in [Requests -> Orders \cup {NoOrder}]
    /\ seen      \in [Requests -> [Orders -> Nat]]
    /\ expiry    \in [Requests -> 0 .. MaxDay + SubDays]
    /\ held      \in [Writers -> Tracks \cup {NoTrack}]
    /\ copy      \in [Writers -> [Orders -> Nat]]
    /\ raced     \in SUBSET Tracks
    /\ cut       \in SUBSET Orders

\* "Fulfill is idempotent: same orderNo only grants once" (sponsor.go:107):
\* whatever callbacks arrive, together or after a failure, an order never leads
\* to a second grant row or to a second subscription upsert.
GrantedAtMostOnce == \A o \in Orders : issued[o] <= 1

\* Nothing is delivered for an order the orders table does not show as paid,
\* at any point between the calls of Fulfill.
IssuedOnlyWhenPaid == \A o \in Orders : issued[o] > 0 => status[o] = "paid"

\* sponsor_cents may lose amounts (concurrent read-modify-write) but never holds
\* one twice, one of another work, or one whose grant was not inserted: the
\* figure shown to the creator is never more than was paid.
NeverOverstated ==
    \A t \in Tracks, o \in Orders :
        credited[t][o] > 0 => /\ credited[t][o] = 1
                              /\ issued[o] = 1
                              /\ row[o].kind = "TRACK_SPONSOR"
                              /\ row[o].track = t

\* A subscription row is backed by a paid order of that user for that creator,
\* belongs to an account that exists, and ends within one term from now.
SubscriptionPaidFor ==
    \A p \in Users \X Creators :
        subs[p] > 0 =>
            /\ p[2] \in Users
            /\ subs[p] <= now + SubDays
            /\ \E o \in Orders : /\ status[o] = "paid"
                                 /\ issued[o] = 1
                                 /\ row[o] = [kind |-> "FAN_SUB", user |-> p[1],
                                             creator |-> p[2]]

\* Delivered, but for a subscription to a creator id nobody has, which subscriptions
\* cannot refer to; and counted on the work, whose row nobody wrote while another had
\* a copy of it.
Settled(o) ==
    /\ issued[o] = IF row[o].kind = "FAN_SUB" /\ row[o].creator \notin Users THEN 0 ELSE 1
    /\ row[o].kind = "TRACK_SPONSOR" =>
         credited[row[o].track][o] = 1 \/ row[o].track \in raced

\* However many requests, callbacks and writers of the row there are: a paid order is
\* delivered and stays in the total of its work, unless its elected request is still at
\* it or was cut off by a failing call, a lost answer or a restart (cut), or two copies
\* of the row overlapped (raced).  Nothing else loses a purchase or an amount: not a
\* failing call of another request, not a slow writer that nobody overtook.
SettledUnlessCutOrRaced ==
    \A o \in Orders : status[o] = "paid" =>
        \/ Settled(o)
        \/ \E r \in Requests : Elected(r) /\ cur[r] = o
        \/ o \in cut

-----------------------------------------------------------------------------
(* The inductive invariant behind the safety properties: the row count of     *)
(* MarkOrderPaid elects one request per order, and that request alone decides *)
(* what has been done for the order so far.                                   *)

\* Requests in flight work on orders that have a row, of the kind they treat.
Bookkeeping ==
    /\ \A o \in Orders : (status[o] = "absent") <=> (row[o] = NoRow)
    /\ \A r \in Requests :
        /\ (pc[r] = "idle") <=> (cur[r] = NoOrder)
        /\ pc[r] # "idle" => status[cur[r]] # "absent"
        /\ pc[r] \in {"grant", "read", "write"} => row[cur[r]].kind = "TRACK_SPONSOR"
        /\ pc[r] \in {"expiry", "upsert"} => row[cur[r]].kind = "FAN_SUB"

\* One request at most has won an order, and where it stands tells what has
\* been issued for it.
Election ==
    /\ \A r \in Requests :
        /\ Elected(r) => status[cur[r]] = "paid"
        /\ pc[r] \in {"grant", "expiry", "upsert"} => issued[cur[r]] = 0
        /\ pc[r] \in {"read", "write"} => issued[cur[r]] = 1
    /\ \A r, s \in Requests : Elected(r) /\ Elected(s) /\ cur[r] = cur[s] => r = s
    /\ GrantedAtMostOnce
    /\ IssuedOnlyWhenPaid

\* A track row in memory is as sound as the one in the table, and neither holds
\* the amount a request is still to add.
Ledger ==
    /\ NeverOverstated
    /\ \A r \in Requests, o \in Orders :
        pc[r] = "write" /\ seen[r][o] > 0 =>
            /\ seen[r][o] = 1
            /\ issued[o] = 1
            /\ row[o].kind = "TRACK_SPONSOR"
            /\ row[o].track = row[cur[r]].track
    /\ \A r \in Requests : pc[r] \in {"read", "write"} =>
        /\ \A t \in Tracks : credited[t][cur[r]] = 0
        /\ \A s \in Requests : pc[s] = "write" => seen[s][cur[r]] = 0
        /\ \A w \in Writers : copy[w][cur[r]] = 0
    /\ \A w \in Writers, o \in Orders : copy[w][o] > 0 =>
        /\ copy[w][o] = 1
        /\ issued[o] = 1
        /\ row[o].kind = "TRACK_SPONSOR"
        /\ row[o].track = held[w]

Subscriptions ==
    /\ \A r \in Requests : pc[r] = "upsert" => expiry[r] <= now + SubDays
    /\ SubscriptionPaidFor

\* While the row of a work is not raced, every copy of it is what the table holds.
Copies ==
    \A t \in Tracks : t \notin raced =>
        /\ \A r \in Requests : pc[r] = "write" /\ row[cur[r]].track = t => seen[r] = credited[t]
        /\ \A w \in Writers : held[w] = t => copy[w] = credited[t]

Inv ==
    /\ TypeOK
    /\ Bookkeeping
    /\ Election
    /\ Ledger
    /\ Copies
    /\ SettledUnlessCutOrRaced
    /\ Subscriptions

-----------------------------------------------------------------------------
(* The detailed specification implements the promise of Fulfilment. *)

Delivering == {"grant", "expiry", "upsert"}    \* paid, and not delivered yet

BeingDelivered(o) == \E r \in Requests : cur[r] = o /\ pc[r] \in Delivering

Stage(o) ==
    CASE status[o] # "paid" -> status[o]
      [] status[o] = "paid" /\ issued[o] > 0 -> "delivered"
      [] OTHER -> IF BeingDelivered(o) THEN "settling" ELSE "stranded"

Promise == INSTANCE Fulfilment WITH stage <- [o \in Orders |-> Stage(o)]

\* Every step of the server is a step of the promised life of the orders: paid
\* once, delivered once, and a stranded order is never picked up again.
ImplementsPromise == Promise!Spec

\* A process that keeps running does not leave an order half settled.
PaidOrdersSettle == Promise!Settles

\* "赞助后解锁全曲与无损下载" (README.md:15): a paid order is delivered once nobody
\* is working on it any more.
PaidUnlocks == \A o \in Orders : Stage(o) # "stranded"
=============================================================================
