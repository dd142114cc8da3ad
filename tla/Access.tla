------------------------------- MODULE Access -------------------------------
(***************************************************************************)
(* Who may hear how much of one track, and who may download it:            *)
(* Access.Decide (service/access.go) with the handlers that act on its     *)
(* answer, OpenStream and Segment (handler/stream.go), IssueTicket         *)
(* (service/sponsor.go) and CreateComment (handler/social.go).             *)
(*                                                                         *)
(* Decide asks the database three times, for the track, a running          *)
(* subscription and the grants, and each answer may be stale by the time   *)
(* of the next.  What it decided is then used on: a stream token is good   *)
(* for StreamTTL, a ticket leaves a grant behind.                          *)
(*                                                                         *)
(* Times are ticks; positions in the track are milliseconds, as in the     *)
(* code.                                                                   *)
(***************************************************************************)
EXTENDS Integers, FiniteSets

CONSTANTS
    Users,          \* accounts
    Owner,          \* the creator of the track
    NoUser,         \* a visitor who is not logged in
    Duration,       \* duration_ms once the track is transcoded
    Segments,       \* segment_count then: what ffmpeg left
    Settings,       \* what the creator may set: [preview, fanDownload, paidDownload]
    Default,        \* the settings of a new track
    Moments,        \* timestamps a listener may want to comment on
    SubTerm,        \* ticks a subscription runs: 30 days
    StreamTTL,      \* ticks a stream token is good for
    RequestTime,    \* ticks a request may take
    Requests,       \* requests being handled and streams being played
    Faults          \* {} or {"db"}: calls may fail

SegmentDurationMS == 6000

ASSUME AccessAssumption ==
    /\ Owner \in Users /\ NoUser \notin Users
    /\ Duration \in Nat \ {0} /\ Segments \in Nat
    /\ Settings \subseteq [preview : Nat \ {0}, fanDownload : BOOLEAN, paidDownload : BOOLEAN]
    /\ Default \in Settings
    /\ Moments \subseteq Int
    /\ SubTerm \in Nat /\ StreamTTL \in Nat /\ RequestTime \in Nat
    /\ Faults \subseteq {"db"}

VARIABLES
    track,          \* the tracks row: [set, ms], ms is 0 until transcoded
    sub,            \* ticks the subscription of each user to Owner still runs
    granted,        \* the users with a PAID_DOWNLOAD grant, which none of them loses
    call,           \* what each request is doing
    reached,        \* the latest position it played or commented on, -1 for none
    seen            \* history: what was true while Decide asked

vars == <<track, sub, granted, call, reached, seen>>

Callers  == Users \cup {NoUser}
Deciders == {"open", "ticket", "comment"}
Writers  == {"patch", "transcode"}

Rows   == [set : Settings, ms : {0, Duration}]
NewRow == [set |-> Default, ms |-> 0]

Idle == [pc |-> "idle", kind |-> "open", user |-> NoUser, copy |-> NewRow,
         fan |-> FALSE, paid |-> FALSE, until |-> 0, can |-> FALSE,
         age |-> 0, left |-> 0]

Fresh == [facts |-> {}, window |-> 0, full |-> FALSE]

Init ==
    /\ track   = NewRow
    /\ sub     = [u \in Callers |-> 0]
    /\ granted = {}
    /\ call    = [e \in Requests |-> Idle]
    /\ reached = [e \in Requests |-> -1]
    /\ seen    = [e \in Requests |-> Fresh]

-----------------------------------------------------------------------------
(* The rights, as the database has them at one moment.                     *)

Larger(a, b) == IF a >= b THEN a ELSE b

Full(u, s, g) == u = Owner \/ s[u] > 0 \/ u \in g

Facts(u, s, g, t) ==
    {f \in {"owner", "granted", "fan", "fanDownload"} :
        \/ f = "owner"       /\ u = Owner
        \/ f = "granted"     /\ u \in g
        \/ f = "fan"         /\ s[u] > 0
        \/ f = "fanDownload" /\ t.set.fanDownload}

\* How far u may listen.
Window(u, s, g, t) ==
    IF Full(u, s, g) THEN Larger(Duration, t.set.preview) ELSE t.set.preview

Watching(e) == call[e].pc \in {"sub", "grants"}

\* The histories of the requests that are deciding, after the step.
Looked ==
    [e \in Requests |->
        IF ~Watching(e) THEN seen[e] ELSE
        LET u == call[e].user IN
        [facts  |-> seen[e].facts \cup Facts(u, sub', granted', track'),
         window |-> Larger(seen[e].window, Window(u, sub', granted', track')),
         full   |-> seen[e].full /\ Full(u, sub', granted')]]

\* The last conjunct of a step that changes the database.
Look == seen' = Looked

-----------------------------------------------------------------------------
(* Decide *)

\* A query that fails is an empty answer.
Answers(truth) == {truth} \cup (IF "db" \in Faults THEN {FALSE} ELSE {})

Cap(row, until) == IF row.ms > 0 /\ until > row.ms THEN row.ms ELSE until

\* TrackByID.  The owner and the visitor need no more queries.
Begin(e, kind, u) ==
    /\ call[e].pc = "idle"
    /\ kind # "open" => u \in Users
    /\ kind = "open" => track.ms > 0
    /\ call' = [call EXCEPT ![e] = [Idle EXCEPT
                    !.pc    = IF u \in {Owner, NoUser} THEN "decided" ELSE "sub",
                    !.kind  = kind,
                    !.user  = u,
                    !.copy  = track,
                    !.until = IF u = Owner THEN track.ms ELSE Cap(track, track.set.preview),
                    !.can   = (u = Owner)]]
    /\ reached' = [reached EXCEPT ![e] = -1]
    /\ seen' = [seen EXCEPT ![e] = [facts  |-> Facts(u, sub, granted, track),
                                    window |-> Window(u, sub, granted, track),
                                    full   |-> Full(u, sub, granted)]]
    /\ UNCHANGED <<track, sub, granted>>

\* A query answered wrongly is no right the request was seen to have.
Blame(e, wrong) == seen' = [seen EXCEPT ![e].full = @ /\ ~wrong]

ActiveSub(e) ==
    /\ call[e].pc = "sub"
    /\ \E fan \in Answers(sub[call[e].user] > 0) :
        /\ call' = [call EXCEPT ![e].pc = "grants", ![e].fan = fan]
        /\ Blame(e, fan # (sub[call[e].user] > 0))
    /\ UNCHANGED <<track, sub, granted, reached>>

\* Faulty variants, for the mutation runs only: fan_download is not looked at; the
\* grants decide how much is heard, whatever the subscription said.
GrantsForAnyFan(e) ==
    /\ call[e].pc = "grants"
    /\ \E paid \in Answers(call[e].user \in granted) :
        LET c == call[e] IN
        /\ call' = [call EXCEPT ![e].pc = "decided", ![e].paid = paid,
               ![e].until = Cap(c.copy, IF paid \/ c.fan THEN c.copy.ms ELSE c.copy.set.preview),
               ![e].can   = paid \/ c.fan]
        /\ Blame(e, paid # (c.user \in granted))
    /\ UNCHANGED <<track, sub, granted, reached>>
GrantsForOverFan(e) ==
    /\ call[e].pc = "grants"
    /\ \E paid \in Answers(call[e].user \in granted) :
        LET c == call[e] IN
        /\ call' = [call EXCEPT ![e].pc = "decided", ![e].paid = paid,
               ![e].until = Cap(c.copy, IF paid THEN c.copy.ms ELSE c.copy.set.preview),
               ![e].can   = paid \/ (c.fan /\ c.copy.set.fanDownload)]
        /\ Blame(e, paid # (c.user \in granted))
    /\ UNCHANGED <<track, sub, granted, reached>>

\* GrantsFor, and what Decide makes of the three answers.
GrantsFor(e) ==
    /\ call[e].pc = "grants"
    /\ \E paid \in Answers(call[e].user \in granted) :
        LET c == call[e] IN
        /\ call' = [call EXCEPT ![e].pc = "decided", ![e].paid = paid,
               ![e].until = Cap(c.copy, IF paid \/ c.fan THEN c.copy.ms ELSE c.copy.set.preview),
               ![e].can   = paid \/ (c.fan /\ c.copy.set.fanDownload)]
        /\ Blame(e, paid # (c.user \in granted))
    /\ UNCHANGED <<track, sub, granted, reached>>

-----------------------------------------------------------------------------
(* What the handlers do with the decision.                                 *)

\* Nobody looks at the error of UpdateTrack in OpenStream.
UpdateTrack(row) == track' = row \/ ("db" \in Faults /\ UNCHANGED track)

\* The request is over, and what was recorded of it forgotten.
Done(e) ==
    /\ call'    = [call EXCEPT ![e] = Idle]
    /\ reached' = [reached EXCEPT ![e] = -1]
    /\ seen'    = [seen EXCEPT ![e] = Fresh]

\* Of a decision that has been acted on, nothing is needed but how far it reached.
After(e, pc, left) ==
    [Idle EXCEPT !.pc = pc, !.kind = call[e].kind, !.user = call[e].user,
                 !.until = call[e].until, !.age = call[e].age, !.left = left]

\* Counting the play writes back the whole row, as it was when Decide started; then the
\* token is made out.
OpenStream(e) ==
    /\ call[e].pc = "decided" /\ call[e].kind = "open"
    /\ UpdateTrack(call[e].copy)
    /\ call' = [call EXCEPT ![e] = After(e, "token", StreamTTL)]
    /\ UNCHANGED <<sub, granted, reached>>
    /\ seen' = [Looked EXCEPT ![e].facts = {}]

\* Faulty variant, for the mutation runs only: the segment the window ends in and the
\* one after it.
MaxSegmentIndexRoundedUp(untilMS) ==
    IF untilMS <= 0 THEN -1 ELSE (untilMS + SegmentDurationMS - 1) \div SegmentDurationMS

\* The last segment that starts before untilMS.
MaxSegmentIndex(untilMS) ==
    IF untilMS <= 0 THEN -1 ELSE (untilMS + SegmentDurationMS - 1) \div SegmentDurationMS - 1

SegmentStartMS(index) == IF index < 0 THEN 0 ELSE index * SegmentDurationMS

\* Two that no handler uses: a segment is in the window when it starts in it, and the
\* number of segments a track is cut into.
InWindow(index, untilMS) == SegmentStartMS(index) < untilMS

ExpectedSegments(durationMS) ==
    IF durationMS <= 0 THEN 0
    ELSE durationMS \div SegmentDurationMS + (IF durationMS % SegmentDurationMS # 0 THEN 1 ELSE 0)

\* One segment of a stream whose token has not expired.  A track that is not transcoded
\* has no files.
Segment(e, i) ==
    /\ call[e].pc = "token" /\ call[e].left > 0
    /\ i <= MaxSegmentIndex(call[e].until)
    /\ track.ms > 0
    /\ reached' = [reached EXCEPT ![e] = Larger(@, SegmentStartMS(i))]
    /\ UNCHANGED <<track, sub, granted, call, seen>>

\* The token is lost, or of no more use.
CloseStream(e) ==
    /\ call[e].pc = "token"
    /\ Done(e)
    /\ UNCHANGED <<track, sub, granted>>

\* IssueTicket: who may download but has no grant is given one first.
CreateGrant(e) ==
    /\ call[e].pc = "decided" /\ call[e].kind = "ticket" /\ call[e].can /\ ~call[e].paid
    /\ call' = [call EXCEPT ![e] = After(e, "insert", 0)]
    /\ granted' = granted \cup {call[e].user}
    /\ UNCHANGED <<track, sub, reached>>
    /\ Look

\* The one it has will do.
UseGrant(e) ==
    /\ call[e].pc = "decided" /\ call[e].kind = "ticket" /\ call[e].can /\ call[e].paid
    /\ call' = [call EXCEPT ![e] = After(e, "insert", 0)]
    /\ UNCHANGED <<track, sub, granted, reached, seen>>

InsertTicket(e) ==
    /\ call[e].pc = "insert"
    /\ call' = [call EXCEPT ![e].pc = "issued"]
    /\ UNCHANGED <<track, sub, granted, reached, seen>>

\* CreateComment, at a moment AssertCommentWindow allows.
CreateComment(e, ts) ==
    /\ call[e].pc = "decided" /\ call[e].kind = "comment"
    /\ ts >= 0 /\ ts <= call[e].until
    /\ reached' = [reached EXCEPT ![e] = ts]
    /\ call' = [call EXCEPT ![e] = After(e, "answered", 0)]
    /\ UNCHANGED <<track, sub, granted, seen>>

\* The answer, a refusal, or a call that fails.
EndRequest(e) ==
    /\ \/ call[e].pc \in {"issued", "answered"}
       \/ call[e].pc = "decided" /\ call[e].kind = "ticket" /\ ~call[e].can
       \/ call[e].pc = "decided" /\ call[e].kind = "comment"
       \/ call[e].pc = "decided" /\ call[e].kind = "ticket" /\ "db" \in Faults
       \/ call[e].pc = "insert" /\ "db" \in Faults
    /\ Done(e)
    /\ UNCHANGED <<track, sub, granted>>

-----------------------------------------------------------------------------
(* What goes on meanwhile.                                                 *)

\* Checkout: a sponsored track, a month's subscription (of another than the owner: hers
\* are never looked at).
SponsorTrack(u) ==
    /\ granted' = granted \cup {u}
    /\ UNCHANGED <<track, sub, call, reached>>
    /\ Look

Subscribe(u) ==
    /\ sub' = [sub EXCEPT ![u] = SubTerm]
    /\ UNCHANGED <<track, granted, call, reached>>
    /\ Look

\* The creator's settings and the worker's result are written over a row read before.
ReadTrack(e, kind) ==
    /\ call[e].pc = "idle"
    /\ call' = [call EXCEPT ![e] = [Idle EXCEPT !.pc = "write", !.kind = kind, !.copy = track]]
    /\ UNCHANGED <<track, sub, granted, reached, seen>>

WriteTrack(e) ==
    /\ call[e].pc = "write"
    /\ \/ /\ call[e].kind = "patch"
          /\ \E s \in Settings : UpdateTrack([call[e].copy EXCEPT !.set = s])
       \/ /\ call[e].kind = "transcode"
          /\ UpdateTrack([call[e].copy EXCEPT !.ms = Duration])
    /\ call' = [call EXCEPT ![e] = Idle]
    /\ UNCHANGED <<sub, granted, reached>>
    /\ Look

\* Time passes: no request that decides takes longer than RequestTime.
Tick ==
    /\ \A e \in Requests :
        call[e].pc \in {"sub", "grants", "decided", "insert", "issued", "answered"} => call[e].age < RequestTime
    /\ sub' = [u \in Callers |-> IF sub[u] > 0 THEN sub[u] - 1 ELSE 0]
    /\ call' = [e \in Requests |->
            IF call[e].pc \in {"idle", "write"} \/ (call[e].pc = "token" /\ call[e].left = 0)
            THEN call[e]
            ELSE [call[e] EXCEPT !.age = @ + 1,
                                 !.left = IF call[e].pc = "token" THEN @ - 1 ELSE @]]
    /\ UNCHANGED <<track, granted, reached>>
    /\ Look

Next ==
    \/ \E e \in Requests :
        \/ \E kind \in Deciders, u \in Callers : Begin(e, kind, u)
        \/ ActiveSub(e)
        \/ GrantsFor(e)
        \/ OpenStream(e)
        \/ \E i \in 0 .. Segments - 1 : Segment(e, i)
        \/ CloseStream(e)
        \/ CreateGrant(e)
        \/ UseGrant(e)
        \/ InsertTicket(e)
        \/ \E ts \in Moments : CreateComment(e, ts)
        \/ EndRequest(e)
        \/ \E kind \in Writers : ReadTrack(e, kind)
        \/ WriteTrack(e)
    \/ \E u \in Users \ {Owner} : SponsorTrack(u) \/ Subscribe(u)
    \/ Tick

Spec == Init /\ [][Next]_vars

-----------------------------------------------------------------------------
(* Properties                                                              *)

Calls == [pc : {"idle", "sub", "grants", "decided", "token", "insert", "issued", "answered", "write"},
          kind : Deciders \cup Writers, user : Callers, copy : Rows, fan : BOOLEAN,
          paid : BOOLEAN, until : Nat, can : BOOLEAN, age : Nat, left : 0 .. StreamTTL]

\* The types of the rows, the requests and the histories.
TypeOK ==
    /\ track \in Rows
    /\ sub \in [Callers -> 0 .. SubTerm]
    /\ granted \subseteq Users
    /\ call \in [Requests -> Calls]
    /\ reached \in [Requests -> Nat \cup {-1}]
    /\ seen \in [Requests -> [facts : SUBSET {"owner", "granted", "fan", "fanDownload"},
                             window : Nat, full : BOOLEAN]]

\* The facts a ticket rests on.
MayDownload(facts) ==
    \/ "owner" \in facts
    \/ "granted" \in facts
    \/ {"fan", "fanDownload"} \subseteq facts

\* A ticket is handed only to one who, while IssueTicket was deciding, owned the track, had
\* a grant, or was a fan of a track fans may download - though not all at the same moment:
\* the row is read before the subscription, and the subscription before the grants.
TicketWhenAsked ==
    \A e \in Requests : call[e].pc = "issued" => MayDownload(seen[e].facts)

\* No segment is served, and no comment taken, past what the listener was at some moment of
\* the decision allowed to hear; and no segment later than a request and a token's life
\* after she asked, whatever becomes of her subscription.  A segment is judged by its start.
HeardInTime ==
    [][\A e \in Requests : reached'[e] > reached[e] =>
            IF call[e].kind = "comment" THEN reached'[e] <= seen[e].window
            ELSE /\ reached'[e] < seen[e].window
                 /\ call[e].age < RequestTime + StreamTTL]_vars

\* Who had a right to all of it at every moment while Decide asked - be it a subscription
\* at first and a grant later - and whose queries were answered, gets all of it: the
\* subscription is asked for before the grants, which are never taken away.
EntitledHearsAll ==
    \A e \in Requests : call[e].pc = "token" /\ seen[e].full => call[e].until = Duration

\* permission.go:5 says that Decide uses this matrix.
PermissionMatrix(row, isOwner, isFan, hasPaid) ==
    isOwner \/ (hasPaid /\ row.set.paidDownload) \/ (isFan /\ row.set.fanDownload)

\* It does not, and differs where a creator has shut the paid download: Decide lets who paid
\* download all the same.  On every other track the two agree, whenever the answers came.
DecideFollowsMatrix ==
    \A e \in Requests : LET c == call[e] IN
        c.pc = "decided" /\ c.copy.set.paidDownload =>
            c.can = PermissionMatrix(c.copy, c.user = Owner, c.fan, c.paid)

-----------------------------------------------------------------------------
(* The inductive invariant                                                 *)

Deciding(e) == call[e].pc \in {"sub", "grants", "decided"} /\ call[e].kind \in Deciders

\* What is the case now has been seen.
SeenNow(e) == Watching(e) =>
    LET u == call[e].user IN
    /\ u \in Users \ {Owner}
    /\ Facts(u, sub, granted, track) \subseteq seen[e].facts
    /\ Window(u, sub, granted, track) <= seen[e].window
    /\ seen[e].full => Full(u, sub, granted)

\* The copy of the row was current when the request began; only accounts download and
\* comment.
CopySeen(e) == Deciding(e) =>
    /\ call[e].kind # "open" => call[e].user \in Users
    /\ call[e].copy.set.preview <= seen[e].window
    /\ call[e].copy.set.fanDownload => "fanDownload" \in seen[e].facts
    /\ call[e].kind = "open" => call[e].copy.ms = Duration

\* Between the two queries.
FanSeen(e) == call[e].pc = "grants" =>
    /\ call[e].fan => "fan" \in seen[e].facts /\ Duration <= seen[e].window
    /\ seen[e].full /\ ~call[e].fan => call[e].user \in granted

\* The decision, and what lives on of it.
Grounded(e) ==
    /\ call[e].pc \in {"decided", "token", "answered"} => call[e].until <= seen[e].window
    /\ call[e].pc \in {"decided", "token"} /\ call[e].kind = "open" /\ seen[e].full =>
            call[e].until = Duration
    /\ (call[e].pc = "decided" /\ call[e].can) \/ call[e].pc \in {"insert", "issued"} =>
            MayDownload(seen[e].facts)

\* A token dies in time, and is only given to listeners.
Dying(e) ==
    /\ call[e].pc \in {"sub", "grants", "decided", "insert", "issued", "answered"} =>
            call[e].age <= RequestTime /\ call[e].kind \in Deciders
    /\ call[e].pc = "token" =>
            call[e].kind = "open" /\ call[e].age + call[e].left <= RequestTime + StreamTTL

\* What holds of a request, whatever the others do.
Sound(e) == SeenNow(e) /\ CopySeen(e) /\ FanSeen(e) /\ Grounded(e)

\* The inductive invariant.
Inv == TypeOK /\ sub[NoUser] = 0 /\ \A e \in Requests : Sound(e) /\ Dying(e)
=============================================================================
