---------------------------- MODULE AccessProofs ----------------------------
(***************************************************************************)
(* Proofs about Access, for any users, track, settings, number of requests *)
(* and any interleaving.  Inv is inductive: whatever a request has been    *)
(* told so far was so at some moment since it began.                       *)
(***************************************************************************)
EXTENDS Access, TLAPS

-----------------------------------------------------------------------------
(* Segments.  Three places of the code compute with the length of a        *)
(* segment; they agree.                                                    *)

\* A segment MaxSegmentIndex lets through is one InWindow lets through, and the other way
\* round.
THEOREM SegmentsInWindow ==
    ASSUME NEW i \in Nat, NEW untilMS \in Nat
    PROVE  i <= MaxSegmentIndex(untilMS) <=> InWindow(i, untilMS)
BY DEF MaxSegmentIndex, InWindow, SegmentStartMS, SegmentDurationMS

\* A track that may be heard to its end has as many segments allowed as ffmpeg is expected
\* to leave.
THEOREM AllSegmentsAllowed ==
    ASSUME NEW durationMS \in Nat
    PROVE  MaxSegmentIndex(durationMS) = ExpectedSegments(durationMS) - 1
BY DEF MaxSegmentIndex, ExpectedSegments, SegmentDurationMS

-----------------------------------------------------------------------------
(* The histories *)

\* Of two numbers the larger is one of them and not below the other.
LEMMA LargerIs ==
    ASSUME NEW a \in Nat, NEW b \in Nat
    PROVE  Larger(a, b) \in Nat /\ Larger(a, b) >= a /\ Larger(a, b) >= b
BY DEF Larger

\* What a row allows.
LEMMA WindowIs ==
    ASSUME NEW u, NEW s, NEW g, NEW t \in Rows
    PROVE  /\ t.set.preview \in Nat
           /\ Window(u, s, g, t) \in Nat
           /\ Window(u, s, g, t) >= t.set.preview
           /\ Full(u, s, g) => Window(u, s, g, t) >= Duration
<1>1. t.set.preview \in Nat /\ Duration \in Nat
  BY AccessAssumption DEF Rows
<1>2. /\ Larger(Duration, t.set.preview) \in Nat
      /\ Larger(Duration, t.set.preview) >= Duration
      /\ Larger(Duration, t.set.preview) >= t.set.preview
  BY <1>1, LargerIs
<1>3. CASE Full(u, s, g)
  BY <1>1, <1>2, <1>3 DEF Window
<1>4. CASE ~Full(u, s, g)
  BY <1>1, <1>4 DEF Window
<1> QED
  BY <1>3, <1>4

\* Until a row is capped it is at most what it was.
LEMMA CapIs ==
    ASSUME NEW t \in Rows, NEW untilMS \in Nat
    PROVE  Cap(t, untilMS) \in Nat /\ Cap(t, untilMS) <= untilMS
<1>1. t.ms \in Nat
  BY AccessAssumption DEF Rows
<1> QED
  BY <1>1 DEF Cap

\* The histories keep their types, and only grow.
LEMMA LookedIs ==
    ASSUME TypeOK, track' \in Rows
    PROVE  /\ Looked \in [Requests -> [facts : SUBSET {"owner", "granted", "fan", "fanDownload"},
                                       window : Nat, full : BOOLEAN]]
           /\ \A e \in Requests :
                /\ seen[e].facts \subseteq Looked[e].facts
                /\ seen[e].window <= Looked[e].window
                /\ Looked[e].full => seen[e].full
                /\ ~Watching(e) => Looked[e] = seen[e]
                /\ Watching(e) =>
                    /\ Facts(call[e].user, sub', granted', track') \subseteq Looked[e].facts
                    /\ Window(call[e].user, sub', granted', track') <= Looked[e].window
                    /\ Looked[e].full => Full(call[e].user, sub', granted')
<1> DEFINE H == [facts : SUBSET {"owner", "granted", "fan", "fanDownload"},
                 window : Nat, full : BOOLEAN]
<1> SUFFICES ASSUME NEW e \in Requests
             PROVE  /\ Looked[e] \in H
                    /\ seen[e].facts \subseteq Looked[e].facts
                    /\ seen[e].window <= Looked[e].window
                    /\ Looked[e].full => seen[e].full
                    /\ ~Watching(e) => Looked[e] = seen[e]
                    /\ Watching(e) =>
                        /\ Facts(call[e].user, sub', granted', track') \subseteq Looked[e].facts
                        /\ Window(call[e].user, sub', granted', track') <= Looked[e].window
                        /\ Looked[e].full => Full(call[e].user, sub', granted')
  BY DEF Looked
<1>1. seen[e] \in H
  BY DEF TypeOK
<1> DEFINE u == call[e].user
           F == Facts(u, sub', granted', track')
           W == Window(u, sub', granted', track')
           B == seen[e].full /\ Full(u, sub', granted')
<1>2. F \in SUBSET {"owner", "granted", "fan", "fanDownload"}
  BY DEF Facts
<1>3. W \in Nat
  BY WindowIs
<1>4. Larger(seen[e].window, W) \in Nat /\ Larger(seen[e].window, W) >= seen[e].window
      /\ Larger(seen[e].window, W) >= W
  BY <1>1, <1>3, LargerIs
<1>5. B \in BOOLEAN
  BY <1>1
<1>6. CASE ~Watching(e)
  <2>1. Looked[e] = seen[e]
    BY <1>6 DEF Looked
  <2> QED
    BY <2>1, <1>1, <1>6
<1>7. CASE Watching(e)
  <2>1. Looked[e] = [facts |-> seen[e].facts \cup F, window |-> Larger(seen[e].window, W),
                     full |-> B]
    BY <1>7 DEF Looked
  <2> HIDE DEF F, W, B
  <2>2. /\ Looked[e].facts = seen[e].facts \cup F
        /\ Looked[e].window = Larger(seen[e].window, W)
        /\ Looked[e].full = B
    BY <2>1
  <2>3. Looked[e] \in H
    <3>1. seen[e].facts \cup F \in SUBSET {"owner", "granted", "fan", "fanDownload"}
      BY <1>1, <1>2
    <3> QED
      BY <2>1, <3>1, <1>4, <1>5
  <2>4. seen[e].facts \subseteq Looked[e].facts /\ F \subseteq Looked[e].facts
    BY <2>2
  <2>5. seen[e].window <= Looked[e].window /\ W <= Looked[e].window
    BY <2>2, <1>1, <1>3, <1>4
  <2>6. /\ Looked[e].full => seen[e].full
        /\ Looked[e].full => Full(u, sub', granted')
    BY <2>2 DEF B
  <2> QED
    BY <2>3, <2>4, <2>5, <2>6, <1>7 DEF F, W
<1> QED
  BY <1>6, <1>7

-----------------------------------------------------------------------------
(* The requests a step does not touch *)

\* Neither the request nor the database has changed.
LEMMA StillSound ==
    ASSUME NEW e \in Requests, Sound(e), call'[e] = call[e], seen'[e] = seen[e],
           UNCHANGED <<track, sub, granted>>
    PROVE  Sound(e)'
BY DEF Sound, SeenNow, CopySeen, FanSeen, Grounded, Watching, Deciding

\* The database has, grants only having been added; the request is no further.
LEMMA LookingSound ==
    ASSUME TypeOK, NEW e \in Requests, Sound(e), track' \in Rows, granted \subseteq granted',
           seen'[e] = Looked[e],
           call'[e].pc = call[e].pc, call'[e].kind = call[e].kind,
           call'[e].user = call[e].user, call'[e].copy = call[e].copy,
           call'[e].fan = call[e].fan, call'[e].until = call[e].until,
           call'[e].can = call[e].can
    PROVE  Sound(e)'
<1>1. /\ call[e].until \in Nat /\ call[e].copy \in Rows
      /\ seen[e].window \in Nat /\ Looked[e].window \in Nat
  BY LookedIs DEF TypeOK, Calls
<1>2. call[e].copy.set.preview \in Nat /\ Duration \in Nat
  BY <1>1, WindowIs, AccessAssumption
<1>3. SeenNow(e)'
  BY LookedIs DEF SeenNow, Watching, Sound
<1>4. CopySeen(e)'
  BY <1>1, <1>2, LookedIs DEF CopySeen, Deciding, Sound
<1>5. FanSeen(e)'
  BY <1>1, <1>2, LookedIs DEF FanSeen, Sound
<1>6. Grounded(e)'
  BY <1>1, LookedIs DEF Grounded, MayDownload, Sound
<1> QED
  BY <1>3, <1>4, <1>5, <1>6 DEF Sound

\* No request is older.
LEMMA StillDying ==
    ASSUME NEW e \in Requests, Dying(e), call'[e] = call[e]
    PROVE  Dying(e)'
BY DEF Dying

-----------------------------------------------------------------------------
(* One lemma per action: it preserves Inv. *)

\* The track is new and nobody has any rights yet.
LEMMA InitInv == Init => Inv
<1> SUFFICES ASSUME Init PROVE Inv
  OBVIOUS
<1>1. NewRow \in Rows
  BY AccessAssumption DEF NewRow, Rows
<1>2. 0 \in Nat /\ 0 \in 0 .. SubTerm /\ 0 \in 0 .. StreamTTL /\ NoUser \in Callers
  BY AccessAssumption DEF Callers
<1>3. Idle \in Calls
  BY <1>1, <1>2 DEF Idle, Calls, Deciders, Writers
<1>4. Fresh \in [facts : SUBSET {"owner", "granted", "fan", "fanDownload"},
                 window : Nat, full : BOOLEAN]
  BY <1>2 DEF Fresh
<1>5. TypeOK
  BY <1>1, <1>2, <1>3, <1>4 DEF Init, TypeOK
<1>6. \A e \in Requests : call[e].pc = "idle"
  BY DEF Init, Idle
<1>7. sub[NoUser] = 0
  BY <1>2 DEF Init
<1> QED
  BY <1>5, <1>6, <1>7
     DEF Inv, Sound, Dying, SeenNow, CopySeen, FanSeen, Grounded, Watching, Deciding

\* TrackByID: the first facts are today's.
LEMMA BeginInv ==
    ASSUME Inv, NEW e \in Requests, NEW kind \in Deciders, NEW u \in Callers, Begin(e, kind, u)
    PROVE  Inv'
<1> DEFINE c == [Idle EXCEPT
                    !.pc    = IF u \in {Owner, NoUser} THEN "decided" ELSE "sub",
                    !.kind  = kind,
                    !.user  = u,
                    !.copy  = track,
                    !.until = IF u = Owner THEN track.ms ELSE Cap(track, track.set.preview),
                    !.can   = (u = Owner)]
           h == [facts  |-> Facts(u, sub, granted, track),
                 window |-> Window(u, sub, granted, track),
                 full   |-> Full(u, sub, granted)]
<1>1. /\ call' = [call EXCEPT ![e] = c] /\ seen' = [seen EXCEPT ![e] = h]
      /\ reached' = [reached EXCEPT ![e] = -1]
      /\ UNCHANGED <<track, sub, granted>>
  BY DEF Begin
<1>2. /\ track \in Rows /\ track.ms \in {0, Duration} /\ track.ms \in Nat
      /\ track.set.preview \in Nat /\ Duration \in Nat
      /\ Window(u, sub, granted, track) \in Nat
      /\ Window(u, sub, granted, track) >= track.set.preview
      /\ Full(u, sub, granted) => Window(u, sub, granted, track) >= Duration
      /\ Cap(track, track.set.preview) \in Nat
      /\ Cap(track, track.set.preview) <= track.set.preview
  BY WindowIs, CapIs, AccessAssumption DEF Inv, TypeOK, Rows
<1>3. Full(u, sub, granted) \in BOOLEAN
  BY DEF Full
<1>4. h \in [facts : SUBSET {"owner", "granted", "fan", "fanDownload"},
             window : Nat, full : BOOLEAN]
  BY <1>2, <1>3 DEF Facts
<1>5. /\ c.pc = IF u \in {Owner, NoUser} THEN "decided" ELSE "sub"
      /\ c.kind = kind /\ c.user = u /\ c.copy = track
      /\ c.until = IF u = Owner THEN track.ms ELSE Cap(track, track.set.preview)
      /\ c.can = (u = Owner) /\ c.fan = FALSE /\ c.age = 0 /\ c.left = 0
  BY DEF Idle
<1>6. c \in Calls
  <2>1. /\ c.pc \in {"sub", "decided"} /\ c.kind \in Deciders /\ c.user \in Callers
        /\ c.copy \in Rows /\ c.until \in Nat /\ c.can \in BOOLEAN
    BY <1>2, <1>5
  <2>2. 0 \in Nat /\ 0 \in 0 .. StreamTTL
    BY AccessAssumption
  <2>3. DOMAIN c = {"pc", "kind", "user", "copy", "fan", "paid", "until", "can", "age", "left"}
        /\ c.fan = FALSE /\ c.paid = FALSE /\ c.age = 0 /\ c.left = 0
    BY DEF Idle
  <2> QED
    BY <2>1, <2>2, <2>3 DEF Calls, Idle
<1> HIDE DEF c, h
<1>7. call'[e] = c /\ seen'[e] = h
  BY <1>1 DEF Inv, TypeOK
<1>8. TypeOK'
  BY <1>1, <1>4, <1>6 DEF Inv, TypeOK
<1>9. \A x \in Requests \ {e} : Sound(x)' /\ Dying(x)'
  BY <1>1, StillSound, StillDying DEF Inv, TypeOK
<1>10. h.facts = Facts(u, sub, granted, track)
       /\ h.window = Window(u, sub, granted, track) /\ h.full = Full(u, sub, granted)
  BY DEF h
<1>11. SeenNow(e)'
  BY <1>1, <1>2, <1>5, <1>7, <1>10 DEF SeenNow, Watching, Callers
<1>12. CopySeen(e)'
  BY <1>1, <1>2, <1>5, <1>7, <1>10 DEF CopySeen, Facts, Begin
<1>13. FanSeen(e)'
  BY <1>5, <1>7 DEF FanSeen
<1>14. Grounded(e)'
  <2>1. c.until <= h.window
    BY <1>2, <1>5, <1>10 DEF Full
  <2>2. kind = "open" /\ u = Owner => c.until = Duration
    BY <1>2, <1>5 DEF Begin
  <2>3. u = NoUser => ~h.full
    <3>1. ~Full(NoUser, sub, granted)
      BY AccessAssumption DEF Full, Inv, TypeOK
    <3> QED
      BY <3>1, <1>10
  <2>4. c.can => "owner" \in h.facts
    BY <1>5, <1>10 DEF Facts
  <2> QED
    BY <2>1, <2>2, <2>3, <2>4, <1>5, <1>7 DEF Grounded, MayDownload
<1>15. Dying(e)'
  BY <1>5, <1>7, AccessAssumption DEF Dying
<1> QED
  BY <1>1, <1>8, <1>9, <1>11, <1>12, <1>13, <1>14, <1>15 DEF Inv, Sound

\* A request that is over has nothing to be sound about.
LEMMA IdleSound ==
    ASSUME NEW e \in Requests, call'[e].pc \in {"idle", "write"}
    PROVE  Sound(e)' /\ Dying(e)'
BY DEF Sound, Dying, SeenNow, CopySeen, FanSeen, Grounded, Watching, Deciding

LEMMA IdleTyped == Idle \in Calls /\ NewRow \in Rows /\ Fresh \in
    [facts : SUBSET {"owner", "granted", "fan", "fanDownload"}, window : Nat, full : BOOLEAN]
<1>1. 0 \in 0 .. StreamTTL /\ NewRow \in Rows
  BY AccessAssumption DEF NewRow, Rows
<1> QED
  BY <1>1 DEF Idle, Fresh, Calls, Callers, Deciders, Writers

\* ActiveSub: a yes is the truth of the moment, a no leaves only the grants.
LEMMA ActiveSubInv ==
    ASSUME Inv, NEW e \in Requests, ActiveSub(e)
    PROVE  Inv'
<1> DEFINE u == call[e].user
<1>1. PICK fan \in Answers(sub[u] > 0) :
        /\ call' = [call EXCEPT ![e].pc = "grants", ![e].fan = fan]
        /\ seen' = [seen EXCEPT ![e].full = @ /\ ~(fan # (sub[u] > 0))]
  BY DEF ActiveSub, Blame
<1>2. call[e].pc = "sub" /\ UNCHANGED <<track, sub, granted, reached>>
  BY DEF ActiveSub
<1>3. fan \in BOOLEAN /\ (fan => sub[u] > 0)
  <2>1. fan = (sub[u] > 0) \/ fan = FALSE
    BY <1>1 DEF Answers
  <2>2. (sub[u] > 0) \in BOOLEAN
    OBVIOUS
  <2> QED
    BY <2>1, <2>2
<1>4. call[e] \in Calls /\ seen[e] \in [facts : SUBSET {"owner", "granted", "fan", "fanDownload"},
                                        window : Nat, full : BOOLEAN]
      /\ call \in [Requests -> Calls] /\ track \in Rows
  BY DEF Inv, TypeOK
<1>5. /\ call'[e].pc = "grants" /\ call'[e].fan = fan /\ call'[e].kind = call[e].kind
      /\ call'[e].user = u /\ call'[e].copy = call[e].copy /\ call'[e].age = call[e].age
      /\ call'[e] \in Calls
  BY <1>1, <1>3, <1>4 DEF Calls
<1>6. /\ seen'[e].facts = seen[e].facts /\ seen'[e].window = seen[e].window
      /\ seen'[e].full => seen[e].full /\ (sub[u] > 0 => fan)
  BY <1>1, <1>3, <1>4 DEF Inv, TypeOK
<1>7. TypeOK'
  <2>1. call' \in [Requests -> Calls]
    BY <1>1, <1>4, <1>5
  <2>2. (seen[e].full /\ ~(fan # (sub[u] > 0))) \in BOOLEAN
    OBVIOUS
  <2> QED
    BY <1>1, <1>2, <1>4, <2>1, <2>2 DEF Inv, TypeOK
<1>8. \A x \in Requests \ {e} : Sound(x)' /\ Dying(x)'
  BY <1>1, <1>2, StillSound, StillDying DEF Inv, TypeOK
<1>9. SeenNow(e) /\ CopySeen(e) /\ Watching(e)
  BY <1>2 DEF Inv, Sound, Watching
<1>10. SeenNow(e)'
  BY <1>2, <1>5, <1>6, <1>9 DEF SeenNow, Watching
<1>11. CopySeen(e)'
  BY <1>2, <1>5, <1>6, <1>9 DEF CopySeen, Deciding
<1>12. FanSeen(e)'
  <2>1. fan => "fan" \in seen[e].facts
    BY <1>3, <1>9 DEF SeenNow, Facts
  <2>2. fan => Duration <= seen[e].window
    BY <1>3, <1>4, <1>9, WindowIs, AccessAssumption DEF SeenNow, Full
  <2>3. seen'[e].full /\ ~fan => u \in granted
    BY <1>3, <1>6, <1>9 DEF SeenNow, Full
  <2> QED
    BY <2>1, <2>2, <2>3, <1>2, <1>5, <1>6 DEF FanSeen
<1>13. Grounded(e)'
  BY <1>5 DEF Grounded
<1>14. Dying(e)'
  BY <1>2, <1>5 DEF Dying, Inv
<1> QED
  BY <1>2, <1>7, <1>8, <1>10, <1>11, <1>12, <1>13, <1>14 DEF Inv, Sound

\* GrantsFor: the decision is grounded in facts of three moments.
LEMMA GrantsForInv ==
    ASSUME Inv, NEW e \in Requests, GrantsFor(e)
    PROVE  Inv'
<1> DEFINE c == call[e]
           u == call[e].user
<1>1. PICK paid \in Answers(u \in granted) :
        /\ call' = [call EXCEPT ![e].pc = "decided", ![e].paid = paid,
               ![e].until = Cap(c.copy, IF paid \/ c.fan THEN c.copy.ms ELSE c.copy.set.preview),
               ![e].can   = paid \/ (c.fan /\ c.copy.set.fanDownload)]
        /\ seen' = [seen EXCEPT ![e].full = @ /\ ~(paid # (u \in granted))]
  BY DEF GrantsFor, Blame
<1> DEFINE heard == IF paid \/ c.fan THEN c.copy.ms ELSE c.copy.set.preview
           until == Cap(c.copy, heard)
           can   == paid \/ (c.fan /\ c.copy.set.fanDownload)
<1>2. call[e].pc = "grants" /\ UNCHANGED <<track, sub, granted, reached>>
  BY DEF GrantsFor
<1>3. paid \in BOOLEAN /\ (paid => u \in granted)
  <2>1. paid = (u \in granted) \/ paid = FALSE
    BY <1>1 DEF Answers
  <2>2. (u \in granted) \in BOOLEAN
    OBVIOUS
  <2> QED
    BY <2>1, <2>2
<1>4. c \in Calls /\ seen[e] \in [facts : SUBSET {"owner", "granted", "fan", "fanDownload"},
                                  window : Nat, full : BOOLEAN]
      /\ call \in [Requests -> Calls] /\ track \in Rows
      /\ c.copy \in Rows /\ c.fan \in BOOLEAN
  BY DEF Inv, TypeOK, Calls
<1>5. /\ c.copy.ms \in Nat /\ c.copy.ms <= Duration /\ c.copy.set.preview \in Nat
      /\ c.copy.set.fanDownload \in BOOLEAN /\ Duration \in Nat \ {0}
  BY <1>4, AccessAssumption DEF Rows
<1>6. heard \in Nat /\ until \in Nat /\ until <= heard /\ can \in BOOLEAN
  BY <1>3, <1>4, <1>5, CapIs
<1> HIDE DEF heard, until, can
<1>7. call' = [call EXCEPT ![e].pc = "decided", ![e].paid = paid, ![e].until = until, ![e].can = can]
  BY <1>1 DEF heard, until, can
<1>8. /\ call'[e].pc = "decided" /\ call'[e].until = until /\ call'[e].can = can
      /\ call'[e].kind = c.kind /\ call'[e].user = u /\ call'[e].copy = c.copy
      /\ call'[e].age = c.age
      /\ call'[e] \in Calls
  BY <1>3, <1>4, <1>6, <1>7 DEF Calls
<1>9. /\ seen'[e].facts = seen[e].facts /\ seen'[e].window = seen[e].window
      /\ seen'[e].full => seen[e].full /\ (u \in granted => paid)
  BY <1>1, <1>3, <1>4 DEF Inv, TypeOK
<1>10. TypeOK'
  <2>1. call' \in [Requests -> Calls]
    BY <1>4, <1>7, <1>8
  <2>2. (seen[e].full /\ ~(paid # (u \in granted))) \in BOOLEAN
    OBVIOUS
  <2> QED
    BY <1>1, <1>2, <1>4, <2>1, <2>2 DEF Inv, TypeOK
<1>11. \A x \in Requests \ {e} : Sound(x)' /\ Dying(x)'
  BY <1>2, <1>1, <1>7, StillSound, StillDying DEF Inv, TypeOK
<1>12. SeenNow(e) /\ CopySeen(e) /\ FanSeen(e) /\ Watching(e) /\ c.kind \in Deciders
  BY <1>2 DEF Inv, Sound, Watching, Dying
<1>13. SeenNow(e)' /\ FanSeen(e)'
  BY <1>8 DEF SeenNow, FanSeen, Watching
<1>14. CopySeen(e)'
  BY <1>2, <1>8, <1>9, <1>12 DEF CopySeen, Deciding
<1>15. Grounded(e)'
  <2>1. paid \/ c.fan => Duration <= seen[e].window
    BY <1>2, <1>3, <1>4, <1>5, <1>12, WindowIs DEF SeenNow, FanSeen, Full
  <2>2. c.copy.set.preview <= seen[e].window
    BY <1>2, <1>12 DEF CopySeen, Deciding
  <2>3. until <= seen[e].window
    BY <1>4, <1>5, <1>6, <2>1, <2>2 DEF heard
  <2>4. seen'[e].full => paid \/ c.fan
    BY <1>2, <1>9, <1>12 DEF FanSeen
  <2>5. c.kind = "open" /\ seen'[e].full => until = Duration
    BY <1>2, <1>5, <1>12, <2>4 DEF until, heard, Cap, CopySeen, Deciding
  <2>6. can => MayDownload(seen[e].facts)
    BY <1>2, <1>3, <1>12 DEF can, MayDownload, SeenNow, CopySeen, FanSeen, Deciding, Facts
  <2> QED
    BY <1>8, <1>9, <2>3, <2>5, <2>6 DEF Grounded
<1>16. Dying(e)'
  BY <1>2, <1>8 DEF Dying, Inv
<1> QED
  BY <1>2, <1>10, <1>11, <1>13, <1>14, <1>15, <1>16 DEF Inv, Sound

\* What After keeps of a request.
LEMMA AfterIs ==
    ASSUME TypeOK, NEW e \in Requests, NEW left \in 0 .. StreamTTL,
           NEW pc \in {"token", "insert", "answered"}
    PROVE  /\ After(e, pc, left) \in Calls
           /\ After(e, pc, left).pc = pc /\ After(e, pc, left).kind = call[e].kind
           /\ After(e, pc, left).until = call[e].until
           /\ After(e, pc, left).age = call[e].age /\ After(e, pc, left).left = left
<1>1. call[e] \in Calls
  BY DEF TypeOK
<1>2. /\ After(e, pc, left).pc = pc /\ After(e, pc, left).kind = call[e].kind
      /\ After(e, pc, left).user = call[e].user
      /\ After(e, pc, left).until = call[e].until
      /\ After(e, pc, left).age = call[e].age /\ After(e, pc, left).left = left
  BY DEF After, Idle
<1>3. After(e, pc, left) \in Calls
  BY <1>1, <1>2, IdleTyped DEF After, Idle, Calls
<1> QED
  BY <1>2, <1>3

\* The stale row is written over the current one; the token is worth what was decided.
LEMMA OpenStreamInv ==
    ASSUME Inv, NEW e \in Requests, OpenStream(e)
    PROVE  Inv'
<1>1. /\ call[e].pc = "decided" /\ call[e].kind = "open"
      /\ call' = [call EXCEPT ![e] = After(e, "token", StreamTTL)]
      /\ UNCHANGED <<sub, granted, reached>>
      /\ seen' = [Looked EXCEPT ![e].facts = {}]
  BY DEF OpenStream
<1>2. track' \in Rows
  BY DEF OpenStream, UpdateTrack, Inv, TypeOK, Calls
<1>3. StreamTTL \in 0 .. StreamTTL /\ StreamTTL \in Nat
  BY AccessAssumption
<1>4. /\ call'[e] \in Calls /\ call'[e].pc = "token" /\ call'[e].kind = "open"
      /\ call'[e].until = call[e].until
      /\ call'[e].age = call[e].age /\ call'[e].left = StreamTTL
      /\ call' \in [Requests -> Calls]
  BY <1>1, <1>3, AfterIs DEF Inv, TypeOK
<1>5. Looked[e] = seen[e] /\ Looked \in [Requests ->
          [facts : SUBSET {"owner", "granted", "fan", "fanDownload"}, window : Nat, full : BOOLEAN]]
  BY <1>1, <1>2, LookedIs DEF Watching, Inv
<1>6. /\ seen'[e].window = seen[e].window /\ seen'[e].full = seen[e].full
      /\ \A x \in Requests \ {e} : seen'[x] = Looked[x]
      /\ seen' \in [Requests ->
          [facts : SUBSET {"owner", "granted", "fan", "fanDownload"}, window : Nat, full : BOOLEAN]]
  BY <1>1, <1>5
<1>7. TypeOK'
  BY <1>1, <1>2, <1>4, <1>6 DEF Inv, TypeOK
<1>8. \A x \in Requests \ {e} : Sound(x)' /\ Dying(x)'
  BY <1>1, <1>2, <1>6, LookingSound, StillDying DEF Inv, TypeOK
<1>9. Sound(e)'
  BY <1>1, <1>4, <1>6
     DEF Inv, Sound, SeenNow, CopySeen, FanSeen, Grounded, Watching, Deciding
<1>10. Dying(e)'
  BY <1>1, <1>3, <1>4, AccessAssumption DEF Inv, Dying, TypeOK, Calls
<1> QED
  BY <1>1, <1>7, <1>8, <1>9, <1>10 DEF Inv

\* Listening changes nothing but how far the listener is.
LEMMA SegmentInv ==
    ASSUME Inv, NEW e \in Requests, NEW i \in 0 .. Segments - 1, Segment(e, i)
    PROVE  Inv'
<1>1. UNCHANGED <<track, sub, granted, call, seen>>
  BY DEF Segment
<1>2. reached' \in [Requests -> Nat \cup {-1}]
  <2>1. SegmentStartMS(i) \in Nat
    BY DEF SegmentStartMS, SegmentDurationMS
  <2>2. Larger(reached[e], SegmentStartMS(i)) \in Nat \cup {-1}
    BY <2>1 DEF Larger, Inv, TypeOK
  <2> QED
    BY <2>2 DEF Segment, Inv, TypeOK
<1>3. TypeOK'
  BY <1>1, <1>2 DEF Inv, TypeOK
<1> QED
  BY <1>1, <1>3, StillSound, StillDying DEF Inv

\* Requests end.
LEMMA DoneInv ==
    ASSUME Inv, NEW e \in Requests, Done(e), UNCHANGED <<track, sub, granted>>
    PROVE  Inv'
<1>1. TypeOK'
  BY IdleTyped DEF Done, Inv, TypeOK
<1>2. \A x \in Requests \ {e} : Sound(x)' /\ Dying(x)'
  BY StillSound, StillDying DEF Done, Inv, TypeOK
<1>3. call'[e].pc = "idle"
  BY DEF Done, Inv, TypeOK, Idle
<1> QED
  BY <1>1, <1>2, <1>3, IdleSound DEF Inv

\* A grant more is a right more for everyone who is looking.
LEMMA CreateGrantInv ==
    ASSUME Inv, NEW e \in Requests, CreateGrant(e)
    PROVE  Inv'
<1>1. /\ call[e].pc = "decided" /\ call[e].kind = "ticket" /\ call[e].can
      /\ call' = [call EXCEPT ![e] = After(e, "insert", 0)]
      /\ granted' = granted \cup {call[e].user} /\ UNCHANGED <<track, sub, reached>>
      /\ seen' = Looked
  BY DEF CreateGrant, Look
<1>2. track' \in Rows /\ 0 \in 0 .. StreamTTL
  BY <1>1, AccessAssumption DEF Inv, TypeOK
<1>3. /\ call'[e] \in Calls /\ call'[e].pc = "insert" /\ call'[e].kind = "ticket"
      /\ call'[e].age = call[e].age /\ call' \in [Requests -> Calls]
  BY <1>1, <1>2, AfterIs DEF Inv, TypeOK
<1>4. seen'[e] = seen[e]
  BY <1>1, <1>2, LookedIs DEF Watching, Inv
<1>5. call[e].user \in Users
  BY <1>1 DEF Inv, Sound, CopySeen, Deciding, Deciders
<1>6. TypeOK'
  BY <1>1, <1>2, <1>3, <1>5, LookedIs DEF Inv, TypeOK
<1>7. \A x \in Requests \ {e} : Sound(x)' /\ Dying(x)'
  BY <1>1, <1>2, LookingSound, StillDying DEF Inv, TypeOK
<1>8. Sound(e)' /\ Dying(e)'
  BY <1>1, <1>3, <1>4
     DEF Inv, Sound, Dying, SeenNow, CopySeen, FanSeen, Grounded, Watching, Deciding
<1> QED
  BY <1>1, <1>6, <1>7, <1>8 DEF Inv

\* A ticket on a grant that is there already, and the row of any ticket.
LEMMA UseGrantInv ==
    ASSUME Inv, NEW e \in Requests, UseGrant(e)
    PROVE  Inv'
<1>1. /\ call[e].pc = "decided" /\ call[e].kind = "ticket" /\ call[e].can
      /\ call' = [call EXCEPT ![e] = After(e, "insert", 0)]
      /\ UNCHANGED <<track, sub, granted, reached, seen>>
  BY DEF UseGrant
<1>2. 0 \in 0 .. StreamTTL
  BY AccessAssumption
<1>3. /\ call'[e] \in Calls /\ call'[e].pc = "insert" /\ call'[e].kind = "ticket"
      /\ call'[e].age = call[e].age /\ call' \in [Requests -> Calls]
  BY <1>1, <1>2, AfterIs DEF Inv, TypeOK
<1>4. TypeOK'
  BY <1>1, <1>3 DEF Inv, TypeOK
<1>5. \A x \in Requests \ {e} : Sound(x)' /\ Dying(x)'
  BY <1>1, StillSound, StillDying DEF Inv, TypeOK
<1>6. Sound(e)' /\ Dying(e)'
  BY <1>1, <1>3
     DEF Inv, Sound, Dying, SeenNow, CopySeen, FanSeen, Grounded, Watching, Deciding
<1> QED
  BY <1>1, <1>4, <1>5, <1>6 DEF Inv

LEMMA InsertTicketInv ==
    ASSUME Inv, NEW e \in Requests, InsertTicket(e)
    PROVE  Inv'
<1>1. /\ call[e].pc = "insert" /\ call' = [call EXCEPT ![e].pc = "issued"]
      /\ UNCHANGED <<track, sub, granted, reached, seen>>
  BY DEF InsertTicket
<1>2. call[e] \in Calls
  BY DEF Inv, TypeOK
<1>3. /\ call'[e] \in Calls /\ call'[e].pc = "issued" /\ call'[e].kind = call[e].kind
      /\ call'[e].age = call[e].age
  BY <1>1, <1>2 DEF Inv, TypeOK, Calls
<1>4. call' \in [Requests -> Calls]
  BY <1>1, <1>3 DEF Inv, TypeOK
<1>5. TypeOK'
  BY <1>1, <1>4 DEF Inv, TypeOK
<1>6. \A x \in Requests \ {e} : Sound(x)' /\ Dying(x)'
  BY <1>1, StillSound, StillDying DEF Inv, TypeOK
<1>7. Sound(e)' /\ Dying(e)'
  BY <1>1, <1>3
     DEF Inv, Sound, Dying, SeenNow, CopySeen, FanSeen, Grounded, Watching, Deciding
<1> QED
  BY <1>1, <1>5, <1>6, <1>7 DEF Inv

\* A comment is where the decision allows it.
LEMMA CreateCommentInv ==
    ASSUME Inv, NEW e \in Requests, NEW ts \in Moments, CreateComment(e, ts)
    PROVE  Inv'
<1>1. /\ call[e].pc = "decided" /\ call[e].kind = "comment"
      /\ call' = [call EXCEPT ![e] = After(e, "answered", 0)]
      /\ reached' = [reached EXCEPT ![e] = ts]
      /\ UNCHANGED <<track, sub, granted, seen>>
  BY DEF CreateComment
<1>2. 0 \in 0 .. StreamTTL /\ ts \in Nat
  BY AccessAssumption DEF CreateComment
<1>3. /\ call'[e] \in Calls /\ call'[e].pc = "answered" /\ call'[e].kind = "comment"
      /\ call'[e].until = call[e].until
      /\ call'[e].age = call[e].age /\ call' \in [Requests -> Calls]
  BY <1>1, <1>2, AfterIs DEF Inv, TypeOK
<1>4. TypeOK'
  BY <1>1, <1>2, <1>3 DEF Inv, TypeOK
<1>5. \A x \in Requests \ {e} : Sound(x)' /\ Dying(x)'
  BY <1>1, StillSound, StillDying DEF Inv, TypeOK
<1>6. Sound(e)' /\ Dying(e)'
  BY <1>1, <1>3
     DEF Inv, Sound, Dying, SeenNow, CopySeen, FanSeen, Grounded, Watching, Deciding
<1> QED
  BY <1>1, <1>4, <1>5, <1>6 DEF Inv

\* The rights change under the requests that are deciding.
LEMMA MeanwhileInv ==
    ASSUME Inv, UNCHANGED <<call, reached>>, track' \in Rows, granted \subseteq granted',
           granted' \subseteq Users, sub' \in [Callers -> 0 .. SubTerm], sub'[NoUser] = 0, Look
    PROVE  Inv'
<1>1. seen' = Looked
  BY DEF Look
<1>2. TypeOK'
  BY <1>1, LookedIs DEF Inv, TypeOK
<1> QED
  BY <1>1, <1>2, LookingSound, StillDying DEF Inv

LEMMA CheckoutInv ==
    ASSUME Inv, NEW u \in Users \ {Owner}, SponsorTrack(u) \/ Subscribe(u)
    PROVE  Inv'
<1>1. CASE SponsorTrack(u)
  BY <1>1, MeanwhileInv DEF SponsorTrack, Inv, TypeOK
<1>2. CASE Subscribe(u)
  <2>1. u \in Callers /\ u # NoUser /\ SubTerm \in 0 .. SubTerm
    BY AccessAssumption DEF Callers
  <2>2. sub' \in [Callers -> 0 .. SubTerm] /\ sub'[NoUser] = 0
    BY <1>2, <2>1 DEF Subscribe, Inv, TypeOK
  <2> QED
    BY <1>2, <2>2, MeanwhileInv DEF Subscribe, Inv, TypeOK
<1> QED
  BY <1>1, <1>2

\* The writers of whole rows.
LEMMA ReadTrackInv ==
    ASSUME Inv, NEW e \in Requests, NEW kind \in Writers, ReadTrack(e, kind)
    PROVE  Inv'
<1> DEFINE c == [Idle EXCEPT !.pc = "write", !.kind = kind, !.copy = track]
<1>1. call' = [call EXCEPT ![e] = c] /\ UNCHANGED <<track, sub, granted, reached, seen>>
  BY DEF ReadTrack
<1>2. c.pc = "write" /\ c \in Calls
  BY IdleTyped DEF Idle, Calls, Inv, TypeOK
<1> HIDE DEF c
<1>3. TypeOK' /\ call'[e].pc = "write"
  BY <1>1, <1>2 DEF Inv, TypeOK
<1>4. \A x \in Requests \ {e} : Sound(x)' /\ Dying(x)'
  BY <1>1, StillSound, StillDying DEF Inv, TypeOK
<1> QED
  BY <1>1, <1>3, <1>4, IdleSound DEF Inv

LEMMA WriteTrackInv ==
    ASSUME Inv, NEW e \in Requests, WriteTrack(e)
    PROVE  Inv'
<1>1. /\ call' = [call EXCEPT ![e] = Idle] /\ UNCHANGED <<sub, granted, reached>>
      /\ seen' = Looked
  BY DEF WriteTrack, Look
<1>2. call[e].copy \in Rows /\ track \in Rows
  BY DEF Inv, TypeOK, Calls
<1>3. track' \in Rows
  <2>1. \A s \in Settings : [call[e].copy EXCEPT !.set = s] \in Rows
    BY <1>2 DEF Rows
  <2>2. [call[e].copy EXCEPT !.ms = Duration] \in Rows
    BY <1>2 DEF Rows
  <2> QED
    BY <1>2, <2>1, <2>2 DEF WriteTrack, UpdateTrack
<1>4. call' \in [Requests -> Calls] /\ call'[e].pc = "idle"
  BY <1>1, IdleTyped DEF Inv, TypeOK, Idle
<1>5. TypeOK'
  BY <1>1, <1>3, <1>4, LookedIs DEF Inv, TypeOK
<1>6. \A x \in Requests \ {e} : Sound(x)' /\ Dying(x)'
  BY <1>1, <1>3, LookingSound, StillDying DEF Inv, TypeOK
<1> QED
  BY <1>1, <1>4, <1>5, <1>6, IdleSound DEF Inv

\* Time passes: tokens and subscriptions run down together.
LEMMA TickInv ==
    ASSUME Inv, Tick
    PROVE  Inv'
<1>1. /\ \A x \in Requests :
            call[x].pc \in {"sub", "grants", "decided", "insert", "issued", "answered"} =>
                call[x].age < RequestTime
      /\ sub' = [u \in Callers |-> IF sub[u] > 0 THEN sub[u] - 1 ELSE 0]
      /\ UNCHANGED <<track, granted, reached>> /\ seen' = Looked
  BY DEF Tick, Look
<1>2. sub' \in [Callers -> 0 .. SubTerm] /\ sub'[NoUser] = 0
  BY <1>1, AccessAssumption DEF Inv, TypeOK, Callers
<1>3. ASSUME NEW x \in Requests
      PROVE  /\ call'[x] \in Calls
             /\ call'[x].pc = call[x].pc /\ call'[x].kind = call[x].kind
             /\ call'[x].user = call[x].user /\ call'[x].copy = call[x].copy
             /\ call'[x].fan = call[x].fan /\ call'[x].until = call[x].until
             /\ call'[x].can = call[x].can
             /\ Dying(x)'
  <2>1. call[x] \in Calls /\ Dying(x)
    BY DEF Inv, TypeOK
  <2>2. CASE call[x].pc \in {"idle", "write"} \/ (call[x].pc = "token" /\ call[x].left = 0)
    <3>1. call'[x] = call[x]
      BY <2>2 DEF Tick
    <3> QED
      BY <2>1, <3>1, StillDying
  <2>3. CASE ~(call[x].pc \in {"idle", "write"} \/ (call[x].pc = "token" /\ call[x].left = 0))
    <3>1. call'[x] = [call[x] EXCEPT !.age = @ + 1,
                                     !.left = IF call[x].pc = "token" THEN @ - 1 ELSE @]
      BY <2>3 DEF Tick
    <3>2. /\ call[x].age \in Nat /\ call[x].left \in 0 .. StreamTTL /\ StreamTTL \in Nat
          /\ RequestTime \in Nat
      BY <2>1, AccessAssumption DEF Calls
    <3>3. /\ call'[x].pc = call[x].pc /\ call'[x].kind = call[x].kind
          /\ call'[x].age = call[x].age + 1
          /\ call'[x].left = IF call[x].pc = "token" THEN call[x].left - 1 ELSE call[x].left
      BY <2>1, <3>1 DEF Calls
    <3>5. call'[x].age \in Nat /\ call'[x].left \in 0 .. StreamTTL
      BY <2>3, <3>2, <3>3
    <3>6. call'[x] \in Calls
      BY <2>1, <3>1, <3>3, <3>5 DEF Calls
    <3>4. Dying(x)'
      BY <1>1, <2>1, <3>2, <3>3 DEF Dying
    <3> QED
      BY <2>1, <3>1, <3>3, <3>4, <3>6 DEF Calls
  <2> QED
    BY <2>2, <2>3
<1>4. call' \in [Requests -> Calls]
  <2>1. call' = [x \in Requests |-> call'[x]]
    BY DEF Tick
  <2> QED
    BY <1>3, <2>1
<1>5. TypeOK'
  BY <1>1, <1>2, <1>4, LookedIs DEF Inv, TypeOK
<1>6. \A x \in Requests : Sound(x)'
  BY <1>1, <1>3, LookingSound DEF Inv, TypeOK
<1> QED
  BY <1>2, <1>3, <1>5, <1>6 DEF Inv

-----------------------------------------------------------------------------
(* The theorems *)

LEMMA StepInv ==
    ASSUME Inv, [Next]_vars
    PROVE  Inv'
<1>1. CASE UNCHANGED vars
  BY <1>1, StillSound, StillDying DEF vars, Inv, TypeOK
<1>2. ASSUME NEW e \in Requests, NEW kind \in Deciders, NEW u \in Callers, Begin(e, kind, u)
      PROVE  Inv'
  BY <1>2, BeginInv
<1>3. ASSUME NEW e \in Requests, ActiveSub(e) \/ GrantsFor(e) \/ OpenStream(e)
      PROVE  Inv'
  BY <1>3, ActiveSubInv, GrantsForInv, OpenStreamInv
<1>4. ASSUME NEW e \in Requests, NEW i \in 0 .. Segments - 1, Segment(e, i)
      PROVE  Inv'
  BY <1>4, SegmentInv
<1>5. ASSUME NEW e \in Requests, CloseStream(e) \/ EndRequest(e)
      PROVE  Inv'
  BY <1>5, DoneInv DEF CloseStream, EndRequest
<1>6. ASSUME NEW e \in Requests, CreateGrant(e) \/ UseGrant(e) \/ InsertTicket(e)
      PROVE  Inv'
  BY <1>6, CreateGrantInv, UseGrantInv, InsertTicketInv
<1>7. ASSUME NEW e \in Requests, NEW ts \in Moments, CreateComment(e, ts)
      PROVE  Inv'
  BY <1>7, CreateCommentInv
<1>8. ASSUME NEW e \in Requests, NEW kind \in Writers, ReadTrack(e, kind)
      PROVE  Inv'
  BY <1>8, ReadTrackInv
<1>9. ASSUME NEW e \in Requests, WriteTrack(e)
      PROVE  Inv'
  BY <1>9, WriteTrackInv
<1>10. ASSUME NEW u \in Users \ {Owner}, SponsorTrack(u) \/ Subscribe(u)
       PROVE  Inv'
  BY <1>10, CheckoutInv
<1>11. CASE Tick
  BY <1>11, TickInv
<1> QED
  BY <1>1, <1>2, <1>3, <1>4, <1>5, <1>6, <1>7, <1>8, <1>9, <1>10, <1>11 DEF Next

\* The inductive invariant holds for any users, settings, requests and faults.
THEOREM Invariance == Spec => []Inv
<1>1. Init => Inv
  BY InitInv
<1>2. Inv /\ [Next]_vars => Inv'
  BY StepInv
<1> QED
  BY <1>1, <1>2, PTL DEF Spec

\* The rows, the requests and the histories are what TypeOK says.
THEOREM TypeCorrect == Spec => []TypeOK
<1>1. Inv => TypeOK
  BY DEF Inv
<1> QED
  BY <1>1, Invariance, PTL

\* IssueTicket hands a ticket only to one who had the rights for it since asking.
THEOREM TicketsAreDue == Spec => []TicketWhenAsked
<1>1. Inv => TicketWhenAsked
  BY DEF Inv, Sound, Grounded, TicketWhenAsked
<1> QED
  BY <1>1, Invariance, PTL

\* Decide never denies a part of the track to one who was entitled to all of it all along.
THEOREM EntitledAreServed == Spec => []EntitledHearsAll
<1>1. Inv => EntitledHearsAll
  <2> SUFFICES ASSUME Inv, NEW e \in Requests, call[e].pc = "token", seen[e].full
               PROVE  call[e].until = Duration
    BY DEF EntitledHearsAll
  <2>1. call[e].kind = "open"
    BY DEF Inv, Dying
  <2> QED
    BY <2>1 DEF Inv, Sound, Grounded
<1> QED
  BY <1>1, Invariance, PTL

\* Nothing is played or commented on past what the listener might hear, nor too late.
THEOREM NothingHeardLate == Spec => HeardInTime
<1> DEFINE Late(e) ==
        reached'[e] > reached[e] =>
            IF call[e].kind = "comment" THEN reached'[e] <= seen[e].window
            ELSE /\ reached'[e] < seen[e].window
                 /\ call[e].age < RequestTime + StreamTTL
<1>1. ASSUME Inv, [Next]_vars, NEW e \in Requests
      PROVE  Late(e)
  <2>1. CASE reached'[e] = reached[e] \/ reached'[e] = -1
    BY <2>1, <1>1 DEF Inv, TypeOK
  <2>2. ASSUME NEW i \in 0 .. Segments - 1, Segment(e, i)
        PROVE  Late(e)
    <3>1. /\ call[e].pc = "token" /\ call[e].left > 0
          /\ i <= MaxSegmentIndex(call[e].until)
          /\ reached'[e] = Larger(reached[e], SegmentStartMS(i))
      BY <1>1, <2>2 DEF Segment, Inv, TypeOK
    <3>2. /\ call[e].until \in Nat /\ call[e].age \in Nat /\ call[e].left \in Nat
          /\ seen[e].window \in Nat /\ RequestTime \in Nat /\ StreamTTL \in Nat
      BY <1>1, AccessAssumption DEF Inv, TypeOK, Calls
    <3>3. SegmentStartMS(i) < call[e].until /\ SegmentStartMS(i) \in Int
      BY <3>1, <3>2, SegmentsInWindow DEF InWindow, SegmentStartMS, SegmentDurationMS
    <3>4. call[e].until <= seen[e].window /\ call[e].kind = "open"
          /\ call[e].age + call[e].left <= RequestTime + StreamTTL
      BY <1>1, <3>1 DEF Inv, Sound, Grounded, Dying
    <3>5. call[e].age < RequestTime + StreamTTL
      BY <3>1, <3>2, <3>4
    <3>6. reached'[e] > reached[e] => reached'[e] < seen[e].window
      BY <1>1, <3>1, <3>2, <3>3, <3>4 DEF Larger, Inv, TypeOK
    <3> QED
      BY <3>4, <3>5, <3>6
  <2>3. ASSUME NEW ts \in Moments, CreateComment(e, ts)
        PROVE  Late(e)
    <3>1. /\ call[e].pc = "decided" /\ call[e].kind = "comment" /\ ts <= call[e].until
          /\ reached'[e] = ts
      BY <1>1, <2>3 DEF CreateComment, Inv, TypeOK
    <3>2. call[e].until <= seen[e].window /\ call[e].until \in Nat /\ seen[e].window \in Nat
          /\ ts \in Int
      BY <1>1, <3>1, AccessAssumption DEF Inv, Sound, Grounded, TypeOK, Calls
    <3> QED
      BY <3>1, <3>2
  <2>4. ASSUME NEW x \in Requests \ {e}, NEW i \in 0 .. Segments - 1, Segment(x, i)
        PROVE  reached'[e] = reached[e]
    BY <1>1, <2>4 DEF Segment, Inv, TypeOK
  <2>5. ASSUME NEW x \in Requests \ {e}, NEW ts \in Moments, CreateComment(x, ts)
        PROVE  reached'[e] = reached[e]
    BY <1>1, <2>5 DEF CreateComment, Inv, TypeOK
  <2>6. ASSUME NEW x \in Requests, NEW kind \in Deciders, NEW u \in Callers, Begin(x, kind, u)
        PROVE  reached'[e] = reached[e] \/ reached'[e] = -1
    BY <1>1, <2>6 DEF Begin, Inv, TypeOK
  <2>7. ASSUME NEW x \in Requests, CloseStream(x) \/ EndRequest(x)
        PROVE  reached'[e] = reached[e] \/ reached'[e] = -1
    BY <1>1, <2>7 DEF CloseStream, EndRequest, Done, Inv, TypeOK
  <2>8. ASSUME NEW x \in Requests,
               \/ ActiveSub(x) \/ GrantsFor(x) \/ OpenStream(x) \/ CreateGrant(x)
               \/ UseGrant(x) \/ InsertTicket(x) \/ WriteTrack(x)
               \/ \E kind \in Writers : ReadTrack(x, kind)
        PROVE  reached'[e] = reached[e]
    BY <2>8 DEF ActiveSub, GrantsFor, OpenStream, CreateGrant, UseGrant, InsertTicket,
                WriteTrack, ReadTrack
  <2>9. ASSUME \/ \E u \in Users \ {Owner} : SponsorTrack(u) \/ Subscribe(u)
               \/ Tick
               \/ UNCHANGED vars
        PROVE  reached'[e] = reached[e]
    BY <2>9 DEF SponsorTrack, Subscribe, Tick, vars
  <2> HIDE DEF Late
  <2> QED
    BY <1>1, <2>1, <2>2, <2>3, <2>4, <2>5, <2>6, <2>7, <2>8, <2>9 DEF Next
<1>2. Inv /\ [Next]_vars => [\A e \in Requests : Late(e)]_vars
  BY <1>1
<1> QED
  BY <1>2, Invariance, PTL DEF Spec, HeardInTime

-----------------------------------------------------------------------------
(* The permission matrix *)

\* What Decide has made of the three answers.
Answered(e) ==
    call[e].pc = "decided" =>
        (call[e].can <=> call[e].user = Owner \/ call[e].paid
                            \/ (call[e].fan /\ call[e].copy.set.fanDownload))

\* On a track whose paid download is open, Decide and PermissionMatrix say the same.
THEOREM MatrixAgrees == Spec => []DecideFollowsMatrix
<1> DEFINE J == \A e \in Requests : Answered(e)
<1>1. Init => J
  BY DEF Init, Idle, Answered
<1>2. Inv /\ J /\ [Next]_vars => J'
  <2> SUFFICES ASSUME Inv, J, [Next]_vars, NEW d \in Requests PROVE Answered(d)'
    OBVIOUS
  <2>1. /\ call \in [Requests -> Calls] /\ Answered(d) /\ Idle.pc = "idle"
        /\ call[d].pc = "grants" => call[d].user # Owner
    BY DEF Inv, TypeOK, Idle, Sound, SeenNow, Watching
  <2>2. CASE call'[d] = call[d] \/ call'[d].pc # "decided"
    BY <2>1, <2>2 DEF Answered
  <2>3. ASSUME NEW e \in Requests, NEW kind \in Deciders, NEW u \in Callers, Begin(e, kind, u)
        PROVE  Answered(d)'
    <3>1. CASE d = e
      BY <2>1, <2>3, <3>1, AccessAssumption DEF Begin, Answered, Idle
    <3> QED
      BY <2>1, <2>2, <2>3, <3>1 DEF Begin
  <2>4. ASSUME NEW e \in Requests, GrantsFor(e) PROVE Answered(d)'
    <3>1. CASE d = e
      <4>1. call[e] \in Calls
        BY <2>1
      <4> QED
        BY <2>1, <2>4, <3>1, <4>1 DEF GrantsFor, Answered, Calls
    <3> QED
      BY <2>1, <2>2, <2>4, <3>1 DEF GrantsFor
  <2>5. CASE Tick
    <3>1. call[d] \in Calls
      BY <2>1
    <3> QED
      BY <2>1, <2>5, <3>1 DEF Tick, Answered, Calls
  <2>6. ASSUME NEW e \in Requests,
               \/ ActiveSub(e) \/ OpenStream(e) \/ CloseStream(e) \/ CreateGrant(e) \/ UseGrant(e)
               \/ InsertTicket(e) \/ EndRequest(e) \/ WriteTrack(e)
               \/ \E i \in 0 .. Segments - 1 : Segment(e, i)
               \/ \E ts \in Moments : CreateComment(e, ts)
               \/ \E kind \in Writers : ReadTrack(e, kind)
        PROVE  call'[d] = call[d] \/ call'[d].pc # "decided"
    <3>1. \A pc, left : After(e, pc, left).pc = pc
      BY DEF After, Idle
    <3>2. call[e] \in Calls
      BY <2>1
    <3>3. CASE OpenStream(e) \/ CreateGrant(e) \/ UseGrant(e)
      BY <2>1, <3>1, <3>3 DEF OpenStream, CreateGrant, UseGrant
    <3>4. CASE \E ts \in Moments : CreateComment(e, ts)
      BY <2>1, <3>1, <3>4 DEF CreateComment
    <3>5. CASE CloseStream(e) \/ EndRequest(e) \/ WriteTrack(e)
      BY <2>1, <3>5 DEF CloseStream, EndRequest, WriteTrack, Done
    <3>6. CASE ActiveSub(e) \/ InsertTicket(e)
      BY <2>1, <3>2, <3>6 DEF ActiveSub, InsertTicket, Calls
    <3>7. CASE \E kind \in Writers : ReadTrack(e, kind)
      BY <2>1, <3>7 DEF ReadTrack, Idle
    <3>8. CASE \E i \in 0 .. Segments - 1 : Segment(e, i)
      BY <3>8 DEF Segment
    <3> QED
      BY <2>6, <3>3, <3>4, <3>5, <3>6, <3>7, <3>8
  <2>7. ASSUME NEW u \in Users \ {Owner}, SponsorTrack(u) \/ Subscribe(u)
        PROVE  call'[d] = call[d]
    BY <2>7 DEF SponsorTrack, Subscribe
  <2>8. CASE UNCHANGED vars
    BY <2>2, <2>8 DEF vars
  <2> QED
    BY <2>2, <2>3, <2>4, <2>5, <2>6, <2>7, <2>8 DEF Next
<1>3. Inv /\ J => DecideFollowsMatrix
  <2> SUFFICES ASSUME Inv, J, NEW e \in Requests, call[e].pc = "decided",
                      call[e].copy.set.paidDownload
               PROVE  call[e].can = PermissionMatrix(call[e].copy, call[e].user = Owner,
                                                     call[e].fan, call[e].paid)
    BY DEF DecideFollowsMatrix
  <2>1. call[e] \in Calls /\ Answered(e)
    BY DEF Inv, TypeOK
  <2>2. call[e].can \in BOOLEAN
    BY <2>1 DEF Calls
  <2> QED
    BY <2>1, <2>2 DEF Answered, PermissionMatrix
<1> QED
  BY <1>1, <1>2, <1>3, Invariance, PTL DEF Spec
=============================================================================
