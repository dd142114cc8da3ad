---------------------------- MODULE SessionsProofs ----------------------------
(***************************************************************************)
(* Proofs about Sessions, for any users, sessions, tabs, fields and        *)
(* requests, and every fault.  Inv is inductive: a session belongs to one  *)
(* user for good and is known to nobody before its login is answered, so   *)
(* that a token that fits a cookie is one of the user whom the tab shows.  *)
(***************************************************************************)
EXTENDS Sessions, TLAPS

-----------------------------------------------------------------------------
(* Facts about the constants and about requests *)

\* What the constants are not, and the record of a request that is not there.
LEMMA Apart ==
    /\ NoUser \notin Users /\ NoSid \notin Sids /\ NoTab \notin Tabs
    /\ TTL \in Nat \ {0}
    /\ Keep \in [Fields -> Values \cup {"keep"}] /\ Plain \in [Fields -> Values]
    /\ Idle \in Calls /\ Idle.pc = "idle" /\ Idle.cookie = NoSid /\ Idle.token = NoSid
<1>1. Keep \in [Fields -> Values \cup {"keep"}] /\ Plain \in [Fields -> Values]
  BY DEF Keep, Plain, Values
<1>2. Idle \in Calls
  BY <1>1 DEF Idle, Calls, Pcs, Kinds, Viewers, Tokens
<1> QED
  BY <1>1, <1>2, SessionsAssumption DEF Idle

\* What is asked of one request.
Sound(e) ==
    /\ Unheard(e) /\ Fits(e) /\ Handled(e) /\ CopyStands(e)
    /\ Acting(e) => call[e].user = call[e].shown /\ call[e].began
    /\ call[e].pc = "revoke" /\ Alive(call[e].cookie) /\ ~call[e].blind =>
            owner[call[e].cookie] = call[e].shown

\* The invariant, request by request, before a step and after it.
LEMMA InvBySound ==
    /\ Inv <=> /\ TypeOK /\ Issued(jar) /\ ModerationsStand
               /\ \A t \in Tabs : InStep(t)
               /\ \A e \in Requests : Sound(e)
    /\ Inv' <=> /\ TypeOK' /\ Issued(jar)' /\ ModerationsStand'
                /\ \A t \in Tabs : InStep(t)'
                /\ \A e \in Requests : Sound(e)'
BY DEF Inv, Sound, ActsAsShown, LogoutEndsOwn, ActsInSession

\* A step that changes one request, and may end sessions, keeps the invariant if the request
\* is as it should be and has not come to know a session whose login is still to be answered.
LEMMA OneRequestEnds ==
    ASSUME Inv, NEW e \in Requests, NEW n \in Calls,
           call' = [call EXCEPT ![e] = n],
           UNCHANGED <<owner, jar, tab, notes>>,
           left' \in [Sids -> 0 .. TTL], \A s \in Sids : left'[s] > 0 => left[s] > 0,
           n.cookie \in {NoSid, call[e].cookie} \/ n.cookie = jar,
           n.token \in {NoSid, call[e].token} \/ \E t \in Tabs : n.token = tab[t].csrf,
           Sound(e)'
    PROVE  Inv'
<1>1. /\ TypeOK /\ Issued(jar) /\ ModerationsStand
      /\ \A t \in Tabs : InStep(t)
      /\ \A d \in Requests : Sound(d)
  BY InvBySound
<1>2. /\ call'[e] = n
      /\ \A d \in Requests \ {e} : call'[d] = call[d]
  BY <1>1 DEF TypeOK
<1>3. TypeOK'
  BY <1>1 DEF TypeOK, notes
<1>4. (Issued(jar) /\ ModerationsStand /\ \A t \in Tabs : InStep(t))'
  BY <1>1 DEF Issued, ModerationsStand, InStep, notes
<1>5. ASSUME NEW d \in Requests, d # e PROVE Sound(d)'
  <2>1. Sound(d) /\ call'[d] = call[d]
    BY <1>1, <1>2, <1>5
  <2>2. Unheard(d)'
    <3> SUFFICES ASSUME call[d].pc = "answer", call[d].kind = "login"
                 PROVE  Unheard(d)'
      BY <2>1 DEF Unheard
    <3> DEFINE s == call[d].cookie
    <3>1. /\ s \in Sids /\ owner[s] = call[d].user /\ call[d].user \in Users /\ jar # s
          /\ \A t \in Tabs : tab[t].csrf # s
          /\ \A c \in Requests \ {d} : call[c].cookie # s /\ call[c].token # s
      BY <2>1 DEF Sound, Unheard
    <3>2. n.cookie # s /\ n.token # s
      BY <3>1, <1>5, Apart
    <3>3. \A c \in Requests \ {d} : call'[c].cookie # s /\ call'[c].token # s
      BY <3>1, <3>2, <1>2
    <3> QED
      BY <3>1, <3>3, <2>1 DEF Unheard
  <2>3. Alive(call[d].cookie)' => Alive(call[d].cookie)
    BY <1>1, <2>1 DEF TypeOK, Calls, Tokens, Alive
  <2>4. Fits(d)' /\ Handled(d)' /\ CopyStands(d)'
    BY <2>1, <2>3 DEF Sound, Fits, Handled, CopyStands, Issued, notes
  <2> QED
    BY <2>1, <2>2, <2>3, <2>4 DEF Sound, Acting
<1> QED
  BY <1>3, <1>4, <1>5, InvBySound

\* The same when no session ends.
LEMMA OneRequest ==
    ASSUME Inv, NEW e \in Requests, NEW n \in Calls,
           call' = [call EXCEPT ![e] = n],
           UNCHANGED <<rows, jar, tab, notes>>,
           n.cookie \in {NoSid, call[e].cookie} \/ n.cookie = jar,
           n.token \in {NoSid, call[e].token} \/ \E t \in Tabs : n.token = tab[t].csrf,
           Sound(e)'
    PROVE  Inv'
<1>1. left' = left /\ left' \in [Sids -> 0 .. TTL] /\ UNCHANGED <<owner, jar, tab, notes>>
  BY DEF Inv, TypeOK, rows
<1> QED
  BY <1>1, OneRequestEnds

\* A request that is given up leaves the invariant alone.
LEMMA GivenUp ==
    ASSUME Inv, NEW e \in Requests, End(e), UNCHANGED <<rows, jar, tab, notes>>
    PROVE  Inv'
<1>1. call' = [call EXCEPT ![e] = Idle] /\ call'[e] = Idle
  BY DEF End, Inv, TypeOK
<1>2. Sound(e)'
  BY <1>1, Apart DEF Sound, Unheard, Fits, Handled, CopyStands, Acting, Issued, Idle
<1> QED
  BY <1>1, <1>2, Apart, OneRequest

-----------------------------------------------------------------------------
(* The steps of the browser *)

LEMMA SendStep ==
    ASSUME Inv, NEW e \in Requests, NEW t \in Tabs, NEW kind \in Kinds, NEW u \in Viewers,
           NEW body \in [Fields -> Values \cup {"keep"}],
           kind = "login" => u \in Users,
           Send(e, t, kind, u, body)
    PROVE  Inv'
<1> DEFINE n == [Idle EXCEPT
                    !.pc = "arrived", !.kind = kind, !.tab = t, !.user = u, !.cookie = jar,
                    !.token = IF kind = "me" THEN NoSid ELSE tab[t].csrf,
                    !.body = body, !.shown = tab[t].user,
                    !.began = (kind = "moderate" /\ Alive(jar))]
<1>1. TypeOK /\ Issued(jar) /\ InStep(t)
  BY InvBySound
<1>2. tab[t].user \in Viewers /\ tab[t].csrf \in Tokens /\ jar \in Tokens
  BY <1>1 DEF TypeOK
<1>3. n \in Calls
  BY <1>2, Apart DEF Calls, Pcs
<1>4. /\ n.pc = "arrived" /\ n.kind = kind /\ n.user = u /\ n.cookie = jar
      /\ n.token = (IF kind = "me" THEN NoSid ELSE tab[t].csrf)
      /\ n.shown = tab[t].user /\ n.began = (kind = "moderate" /\ Alive(jar))
  BY DEF Idle
<1>5. call' = [call EXCEPT ![e] = n] /\ UNCHANGED <<rows, jar, tab, notes>> /\ call'[e] = n
  BY <1>1 DEF Send, TypeOK
<1>6. Issued(n.cookie) /\ Issued(n.token)
  BY <1>1, <1>4 DEF Issued, InStep
<1>7. kind # "me" /\ n.token = n.cookie /\ n.cookie # NoSid => owner[n.cookie] = n.shown
  BY <1>1, <1>4 DEF InStep
<1> HIDE DEF n
<1>8. Sound(e)'
  BY <1>4, <1>5, <1>6, <1>7
  DEF Sound, Unheard, Fits, Handled, CopyStands, Acting, Issued, Alive, rows
<1> QED
  BY <1>3, <1>4, <1>5, <1>8, OneRequest

LEMMA AsksStep ==
    ASSUME Inv, NEW e \in Requests, NEW t \in Tabs, Asks(e, t)
    PROVE  Inv'
<1>1. \A body \in Changes : body \in [Fields -> Values \cup {"keep"}]
  BY SessionsAssumption DEF Values
<1> QED
  BY <1>1, SendStep, Apart DEF Asks, LogIn, Kinds, Viewers

LEMMA ReloadStep ==
    ASSUME Inv, NEW t \in Tabs, Reload(t)
    PROVE  Inv'
<1>1. /\ TypeOK /\ Issued(jar) /\ ModerationsStand
      /\ \A r \in Tabs : InStep(r)
      /\ \A d \in Requests : Sound(d)
  BY InvBySound
<1>2. UNCHANGED <<owner, left, jar, comment, last, overlapped>>
  BY DEF Reload, rows, notes
<1>3. \A d \in Requests :
        /\ call'[d] \in Calls
        /\ call'[d].pc = call[d].pc /\ call'[d].kind = call[d].kind
        /\ call'[d].user = call[d].user /\ call'[d].cookie = call[d].cookie
        /\ call'[d].token = call[d].token /\ call'[d].body = call[d].body
        /\ call'[d].copy = call[d].copy /\ call'[d].shown = call[d].shown
        /\ call'[d].began = call[d].began /\ call'[d].blind = call[d].blind
  BY <1>1 DEF Reload, TypeOK, Calls
<1>4. tab' = [tab EXCEPT ![t] = Blank]
  BY DEF Reload
<1>5. TypeOK'
  <2>1. call' \in [Requests -> Calls]
    BY <1>3 DEF Reload
  <2>2. tab' \in [Tabs -> [user : Viewers, csrf : Tokens]]
    BY <1>1, <1>4 DEF TypeOK, Blank, Viewers, Tokens
  <2> QED
    BY <1>1, <1>2, <2>1, <2>2 DEF TypeOK
<1>6. \A r \in Tabs : InStep(r)'
  BY <1>1, <1>2, <1>4 DEF TypeOK, InStep, Issued, Blank
<1>7. ASSUME NEW d \in Requests PROVE Sound(d)'
  <2>1. Unheard(d)'
    <3> SUFFICES ASSUME call[d].pc = "answer", call[d].kind = "login"
                 PROVE  Unheard(d)'
      BY <1>3 DEF Unheard
    <3>1. call[d].cookie # NoSid
      BY <1>1, Apart DEF Sound, Unheard
    <3>2. \A r \in Tabs : tab'[r].csrf # call[d].cookie
      BY <1>1, <1>4, <3>1 DEF Sound, Unheard, TypeOK, Blank
    <3> QED
      BY <1>1, <1>2, <1>3, <3>2 DEF Sound, Unheard
  <2> QED
    BY <1>1, <1>2, <1>3, <2>1
    DEF Sound, Fits, Handled, CopyStands, Acting, Issued, Alive
<1> QED
  BY <1>1, <1>2, <1>5, <1>6, <1>7, InvBySound DEF Issued, ModerationsStand

LEMMA ReceiveStep ==
    ASSUME Inv, NEW e \in Requests, Receive(e)
    PROVE  Inv'
<1> DEFINE c == call[e]
<1>1. /\ TypeOK /\ Issued(jar) /\ ModerationsStand
      /\ \A r \in Tabs : InStep(r)
      /\ \A d \in Requests : Sound(d)
  BY InvBySound
<1>2. UNCHANGED <<owner, left, comment, last, overlapped>>
  BY DEF Receive, rows, notes
<1>3. /\ c \in Calls /\ c.pc = "answer"
      /\ call'[e] = Idle /\ \A d \in Requests \ {e} : call'[d] = call[d]
  BY <1>1 DEF Receive, End, TypeOK
<1>4. c.kind \in {"login", "logout", "me"}
  BY <1>1, <1>3 DEF Sound, Handled, Calls, Kinds
<1>5. c.kind # "logout" => c.cookie \in Sids /\ c.user = owner[c.cookie] /\ c.user \in Users
  BY <1>1, <1>3, <1>4 DEF Sound, Handled, Unheard
<1>6. jar' = CASE c.kind = "login" -> c.cookie [] c.kind = "logout" -> NoSid [] OTHER -> jar
  BY DEF Receive, SetCookie
<1>7. \A r \in Tabs :
        tab'[r] = IF r # c.tab THEN tab[r]
                  ELSE IF c.kind = "logout" THEN [tab[r] EXCEPT !.user = NoUser]
                  ELSE [user |-> c.user, csrf |-> c.cookie]
  BY DEF Receive, Shows
<1>8. TypeOK'
  <2>1. tab' \in [Tabs -> [user : Viewers, csrf : Tokens]]
    <3>1. ASSUME NEW r \in Tabs PROVE tab'[r] \in [user : Viewers, csrf : Tokens]
      <4>1. tab[r] \in [user : Viewers, csrf : Tokens]
        BY <1>1 DEF TypeOK
      <4>2. [tab[r] EXCEPT !.user = NoUser] \in [user : Viewers, csrf : Tokens]
        BY <4>1 DEF Viewers
      <4>3. [user |-> c.user, csrf |-> c.cookie] \in [user : Viewers, csrf : Tokens]
        BY <1>3 DEF Calls
      <4> QED
        BY <1>7, <4>1, <4>2, <4>3
    <3> QED
      BY <3>1 DEF Receive
  <2>2. jar' \in Tokens
    BY <1>1, <1>3, <1>6 DEF TypeOK, Calls, Tokens
  <2>3. call' \in [Requests -> Calls]
    BY <1>1, Apart DEF Receive, End, TypeOK
  <2> QED
    BY <1>1, <1>2, <2>1, <2>2, <2>3 DEF TypeOK
<1>9. Issued(jar)'
  BY <1>1, <1>2, <1>4, <1>5, <1>6, Apart DEF Issued
<1>10. ASSUME NEW r \in Tabs PROVE InStep(r)'
  <2>1. InStep(r) /\ tab[r] \in [user : Viewers, csrf : Tokens]
    BY <1>1 DEF TypeOK
  <2>2. CASE r # c.tab
    <3>1. c.kind = "login" => tab[r].csrf # c.cookie
      BY <1>1, <1>3 DEF Sound, Unheard
    <3> QED
      BY <1>2, <1>4, <1>6, <1>7, <2>1, <2>2, <3>1 DEF InStep, Issued
  <2>3. CASE r = c.tab /\ c.kind = "logout"
    <3>1. tab'[r].user = NoUser /\ tab'[r].csrf = tab[r].csrf /\ jar' = NoSid
      BY <1>6, <1>7, <2>1, <2>3
    <3> QED
      BY <1>2, <2>1, <3>1 DEF InStep, Issued
  <2>4. CASE r = c.tab /\ c.kind # "logout"
    <3>1. tab'[r].user = c.user /\ tab'[r].csrf = c.cookie
      BY <1>7, <2>4
    <3> QED
      BY <1>2, <1>5, <2>4, <3>1, Apart DEF InStep, Issued
  <2> QED
    BY <2>2, <2>3, <2>4
<1>11. ASSUME NEW d \in Requests PROVE Sound(d)'
  <2>1. CASE d = e
    BY <1>3, <2>1, Apart DEF Sound, Unheard, Fits, Handled, CopyStands, Acting, Issued, Idle
  <2>2. CASE d # e
    <3>1. Sound(d) /\ call'[d] = call[d]
      BY <1>1, <1>3, <2>2
    <3>2. Unheard(d)'
      <4> SUFFICES ASSUME call[d].pc = "answer", call[d].kind = "login"
                   PROVE  Unheard(d)'
        BY <3>1 DEF Unheard
      <4> DEFINE s == call[d].cookie
      <4>1. /\ s \in Sids /\ owner[s] = call[d].user /\ call[d].user \in Users /\ jar # s
            /\ \A t \in Tabs : tab[t].csrf # s
            /\ \A b \in Requests \ {d} : call[b].cookie # s /\ call[b].token # s
        BY <3>1 DEF Sound, Unheard
      <4>2. jar' # s
        BY <1>4, <1>6, <2>2, <4>1, Apart
      <4>3. \A t \in Tabs : tab'[t].csrf # s
        <5>1. ASSUME NEW t \in Tabs PROVE tab'[t].csrf \in {tab[t].csrf, c.cookie}
          <6>1. tab[t] \in [user : Viewers, csrf : Tokens]
            BY <1>1 DEF TypeOK
          <6>2. CASE t # c.tab
            BY <1>7, <6>2
          <6>3. CASE t = c.tab /\ c.kind = "logout"
            BY <1>7, <6>1, <6>3
          <6>4. CASE t = c.tab /\ c.kind # "logout"
            BY <1>7, <6>4
          <6> QED
            BY <6>2, <6>3, <6>4
        <5> QED
          BY <2>2, <4>1, <5>1
      <4>4. \A b \in Requests \ {d} : call'[b].cookie # s /\ call'[b].token # s
        BY <1>3, <4>1, Apart
      <4> QED
        BY <1>2, <3>1, <4>1, <4>2, <4>3, <4>4 DEF Unheard
    <3> QED
      BY <1>2, <3>1, <3>2 DEF Sound, Fits, Handled, CopyStands, Acting, Issued, Alive
  <2> QED
    BY <2>1, <2>2
<1> QED
  BY <1>1, <1>2, <1>8, <1>9, <1>10, <1>11, InvBySound DEF ModerationsStand

LEMMA LostStep ==
    ASSUME Inv, NEW e \in Requests, Lost(e)
    PROVE  Inv'
BY GivenUp DEF Lost

-----------------------------------------------------------------------------
(* The steps of the server *)

\* What a request brings to its handler is what the session looked up says of it.
LEMMA MiddlewareStep ==
    ASSUME Inv, NEW e \in Requests, Middleware(e)
    PROVE  Inv'
<1> DEFINE c == call[e]
<1>1. PICK found \in {Alive(c.cookie)} \cup (IF "db" \in Faults THEN {FALSE} ELSE {}) :
        LET who == IF found THEN owner[c.cookie] ELSE NoUser
        IN IF CSRF(c, who) /\ RequireAuth(c, who) /\ RequireRole(c, who)
           THEN call' = [call EXCEPT ![e] = Routed(c, who, Alive(c.cookie) /\ ~found)]
           ELSE End(e)
  BY DEF Middleware
<1> DEFINE who   == IF found THEN owner[c.cookie] ELSE NoUser
           blind == Alive(c.cookie) /\ ~found
           n     == Routed(c, who, blind)
<1>2. TypeOK /\ Sound(e) /\ c \in Calls /\ c.pc = "arrived"
  BY InvBySound DEF Middleware, TypeOK
<1>3. UNCHANGED <<rows, jar, tab, notes>>
  BY DEF Middleware
<1>4. found \in BOOLEAN /\ (found => Alive(c.cookie))
  BY <1>1 DEF Alive
<1>5. CASE ~(CSRF(c, who) /\ RequireAuth(c, who) /\ RequireRole(c, who))
  BY <1>1, <1>3, <1>5, GivenUp
<1>6. CASE CSRF(c, who) /\ RequireAuth(c, who) /\ RequireRole(c, who)
  <2>1. call' = [call EXCEPT ![e] = n] /\ call'[e] = n
    BY <1>1, <1>2, <1>6 DEF TypeOK
  <2>2. /\ c.kind \in Kinds /\ c.tab \in Tabs \cup {NoTab} /\ c.user \in Viewers
        /\ c.cookie \in Tokens /\ c.body \in [Fields -> Values \cup {"keep"}]
        /\ c.shown \in Viewers /\ c.began \in BOOLEAN
    BY <1>2 DEF Calls
  <2>3. who \in Viewers /\ (who # NoUser => found /\ c.cookie \in Sids /\ who = owner[c.cookie])
    BY <1>2, <1>4, <2>2 DEF TypeOK, Alive, Tokens, Viewers
  <2>4. blind \in BOOLEAN /\ (Alive(c.cookie) /\ ~blind => found)
    BY <1>4 DEF Alive
  <2>5. who # NoUser /\ c.kind # "me" => owner[c.cookie] = c.shown
    BY <1>2, <1>6, <2>3, Apart DEF CSRF, Sound, Fits
  <2>6. found => Alive(c.cookie) /\ c.cookie \in Sids /\ who = owner[c.cookie] /\ who # NoUser
    BY <1>2, <1>4, <2>2 DEF Alive, Tokens, Sound, Handled, Issued
  <2> HIDE DEF who, blind
  <2>7. CASE c.kind = "login"
    <3>1. n = [Idle EXCEPT !.pc = "issue", !.kind = "login", !.tab = c.tab, !.user = c.user]
      BY <2>7 DEF Routed, Idle
    <3>2. n \in Calls
      BY <2>2, <3>1, Apart DEF Calls, Pcs, Kinds
    <3>3. /\ n.pc = "issue" /\ n.kind = "login" /\ n.user = c.user
          /\ n.cookie = NoSid /\ n.token = NoSid
      BY <3>1 DEF Idle
    <3> HIDE DEF n
    <3>4. Sound(e)'
      BY <1>2, <2>1, <2>7, <3>3
      DEF Sound, Unheard, Fits, Handled, CopyStands, Acting, Issued
    <3> QED
      BY <1>3, <2>1, <3>2, <3>3, <3>4, OneRequest
  <2>8. CASE c.kind = "logout"
    <3>1. n = [Idle EXCEPT !.pc = "revoke", !.kind = "logout", !.tab = c.tab,
                           !.cookie = c.cookie, !.shown = c.shown, !.blind = blind]
      BY <2>8 DEF Routed, Idle
    <3>2. n \in Calls
      BY <2>2, <2>4, <3>1, Apart DEF Calls, Pcs, Kinds
    <3>3. /\ n.pc = "revoke" /\ n.kind = "logout" /\ n.shown = c.shown /\ n.blind = blind
          /\ n.cookie = c.cookie /\ n.token = NoSid
      BY <3>1 DEF Idle
    <3> HIDE DEF n
    <3>4. Sound(e)'
      BY <1>2, <1>3, <2>1, <2>4, <2>5, <2>6, <2>8, <3>3
      DEF Sound, Unheard, Fits, Handled, CopyStands, Acting, Issued, Alive, rows
    <3> QED
      BY <1>3, <2>1, <3>2, <3>3, <3>4, OneRequest
  <2>9. CASE c.kind = "me"
    <3>1. n = [Idle EXCEPT !.pc = "answer", !.kind = "me", !.tab = c.tab, !.user = who,
                           !.cookie = c.cookie]
      BY <2>9 DEF Routed, Idle
    <3>2. n \in Calls
      BY <2>2, <2>3, <3>1, Apart DEF Calls, Pcs, Kinds
    <3>3. /\ n.pc = "answer" /\ n.kind = "me" /\ n.user = who
          /\ n.cookie = c.cookie /\ n.token = NoSid
      BY <3>1 DEF Idle
    <3> HIDE DEF n
    <3>4. who \in Users /\ c.cookie \in Sids /\ who = owner[c.cookie]
      BY <1>6, <2>3, <2>9 DEF RequireAuth, Viewers
    <3>5. Sound(e)'
      BY <1>2, <1>3, <2>1, <3>3, <3>4
      DEF Sound, Unheard, Fits, Handled, CopyStands, Acting, Issued, rows
    <3> QED
      BY <1>3, <2>1, <3>2, <3>3, <3>5, OneRequest
  <2>10. CASE c.kind = "moderate"
    <3>1. n = [Idle EXCEPT !.pc = "read", !.kind = "moderate", !.user = who,
                           !.body = c.body, !.shown = c.shown, !.began = c.began]
      BY <2>10 DEF Routed, Idle
    <3>2. n \in Calls
      BY <2>2, <2>3, <3>1, Apart DEF Calls, Pcs, Kinds
    <3>3. /\ n.pc = "read" /\ n.kind = "moderate" /\ n.user = who
          /\ n.shown = c.shown /\ n.began = c.began
          /\ n.cookie = NoSid /\ n.token = NoSid
      BY <3>1 DEF Idle
    <3> HIDE DEF n
    <3>4. who # NoUser
      BY <1>6, <2>10 DEF RequireAuth
    <3>5. who = c.shown /\ c.began
      BY <1>2, <1>4, <2>3, <2>5, <2>10, <3>4 DEF Sound, Fits
    <3>6. Sound(e)'
      BY <2>1, <3>3, <3>5
      DEF Sound, Unheard, Fits, Handled, CopyStands, Acting, Issued
    <3> QED
      BY <1>3, <2>1, <3>2, <3>3, <3>6, OneRequest
  <2> QED
    BY <2>2, <2>7, <2>8, <2>9, <2>10 DEF Kinds
<1> QED
  BY <1>5, <1>6

LEMMA IssueStep ==
    ASSUME Inv, NEW e \in Requests, Issue(e)
    PROVE  Inv'
<1>1. /\ TypeOK /\ Issued(jar) /\ ModerationsStand
      /\ \A r \in Tabs : InStep(r)
      /\ \A d \in Requests : Sound(d)
  BY InvBySound
<1>2. CASE End(e) /\ UNCHANGED rows
  BY <1>2, GivenUp DEF Issue
<1>3. ASSUME NEW s \in Sids, owner[s] = NoUser,
             owner' = [owner EXCEPT ![s] = call[e].user],
             left'  = [left EXCEPT ![s] = TTL],
             call'  = [call EXCEPT ![e].pc = "answer", ![e].cookie = s]
      PROVE  Inv'
  <2> DEFINE c == call[e]
  <2>1. c \in Calls /\ c.pc = "issue" /\ c.kind = "login" /\ c.user \in Users
    BY <1>1 DEF Issue, TypeOK, Sound, Handled
  <2>2. UNCHANGED <<jar, tab, comment, last, overlapped>>
    BY DEF Issue, notes
  <2>3. /\ call'[e] \in Calls /\ call'[e].pc = "answer" /\ call'[e].cookie = s
        /\ call'[e].kind = c.kind /\ call'[e].user = c.user /\ call'[e].token = c.token
    <3>1. call'[e] = [c EXCEPT !.pc = "answer", !.cookie = s]
      BY <1>1, <1>3 DEF TypeOK
    <3>2. [c EXCEPT !.pc = "answer", !.cookie = s] \in Calls
      BY <2>1 DEF Calls, Pcs, Tokens
    <3> QED
      BY <2>1, <3>1, <3>2 DEF Calls
  <2>4. \A d \in Requests \ {e} : call'[d] = call[d]
    BY <1>1, <1>3 DEF TypeOK
  <2>5. /\ owner'[s] = c.user
        /\ \A r \in Sids \ {s} : owner'[r] = owner[r] /\ left'[r] = left[r]
    BY <1>1, <1>3 DEF TypeOK
  \* Whatever is known has been issued before, and so is another session.
  <2>6. /\ jar # s /\ \A r \in Tabs : tab[r].csrf # s
        /\ \A d \in Requests : call[d].cookie # s /\ call[d].token # s
    BY <1>1, <1>3, Apart DEF Sound, Handled, InStep, Issued
  <2>7. /\ jar \in Tokens /\ \A r \in Tabs : tab[r].csrf \in Tokens
        /\ \A d \in Requests : call[d].cookie \in Tokens /\ call[d].token \in Tokens
    BY <1>1 DEF TypeOK, Calls
  <2>8. TypeOK'
    <3>1. call' \in [Requests -> Calls]
      BY <1>1, <1>3, <2>3, <2>4 DEF TypeOK
    <3>2. left' \in [Sids -> 0 .. TTL] /\ owner' \in [Sids -> Viewers]
      BY <1>1, <1>3, <2>1, Apart DEF TypeOK, Viewers
    <3> QED
      BY <1>1, <2>2, <3>1, <3>2 DEF TypeOK
  <2>9. Issued(jar)' /\ \A r \in Tabs : InStep(r)'
    BY <1>1, <2>2, <2>5, <2>6, <2>7, Apart DEF Issued, InStep, Tokens
  <2>10. Sound(e)'
    <3>1. Unheard(e)'
      BY <1>3, <2>1, <2>2, <2>3, <2>4, <2>5, <2>6 DEF Unheard
    <3>2. Handled(e)'
      BY <1>1, <2>1, <2>3, <2>5, <2>6, <2>7, Apart DEF Sound, Handled, Issued, Tokens
    <3> QED
      BY <2>3, <3>1, <3>2 DEF Sound, Fits, CopyStands, Acting
  <2>11. ASSUME NEW d \in Requests, d # e PROVE Sound(d)'
    <3>1. Sound(d) /\ call'[d] = call[d]
      BY <1>1, <2>4, <2>11
    <3>2. call[d].cookie # NoSid => /\ owner'[call[d].cookie] = owner[call[d].cookie]
                                    /\ left'[call[d].cookie] = left[call[d].cookie]
      BY <2>5, <2>6, <2>7 DEF Tokens
    <3>3. call[d].token # NoSid => owner'[call[d].token] = owner[call[d].token]
      BY <2>5, <2>6, <2>7 DEF Tokens
    <3>4. Unheard(d)'
      <4> SUFFICES ASSUME call[d].pc = "answer", call[d].kind = "login"
                   PROVE  Unheard(d)'
        BY <3>1 DEF Unheard
      <4> DEFINE r == call[d].cookie
      <4>1. /\ r \in Sids /\ owner[r] = call[d].user /\ call[d].user \in Users /\ jar # r
            /\ \A t \in Tabs : tab[t].csrf # r
            /\ \A b \in Requests \ {d} : call[b].cookie # r /\ call[b].token # r
        BY <3>1 DEF Sound, Unheard
      <4>2. \A b \in Requests \ {d} : call'[b].cookie # r /\ call'[b].token # r
        BY <2>3, <2>4, <2>6, <2>11, <4>1
      <4> QED
        BY <2>2, <3>1, <3>2, <4>1, <4>2, Apart DEF Unheard
    <3>5. Fits(d)' /\ Handled(d)'
      BY <3>1, <3>2, <3>3, Apart DEF Sound, Fits, Handled, Issued, Alive
    <3>6. CopyStands(d)'
      BY <2>2, <3>1 DEF Sound, CopyStands
    <3> QED
      BY <3>1, <3>2, <3>4, <3>5, <3>6 DEF Sound, Acting, Alive
  <2>12. ModerationsStand'
    BY <1>1, <2>2 DEF ModerationsStand
  <2> QED
    BY <2>8, <2>9, <2>10, <2>11, <2>12, InvBySound
<1> QED
  BY <1>2, <1>3 DEF Issue

\* Time and logouts only make sessions die, and may empty the cookie.
LEMMA SessionsDie ==
    ASSUME Inv, UNCHANGED <<owner, tab, call, notes>>,
           left' \in [Sids -> 0 .. TTL], \A s \in Sids : left'[s] > 0 => left[s] > 0,
           jar' \in {jar, NoSid}
    PROVE  Inv'
<1>1. /\ TypeOK /\ Issued(jar) /\ ModerationsStand
      /\ \A r \in Tabs : InStep(r)
      /\ \A d \in Requests : Sound(d)
  BY InvBySound
<1>2. UNCHANGED <<comment, last, overlapped>>
  BY DEF notes
<1>3. TypeOK' /\ Issued(jar)' /\ ModerationsStand'
  BY <1>1, <1>2 DEF TypeOK, Issued, ModerationsStand, Tokens
<1>4. ASSUME NEW r \in Tabs PROVE InStep(r)'
  BY <1>1 DEF InStep, Issued
<1>5. ASSUME NEW d \in Requests PROVE Sound(d)'
  <2>1. Sound(d) /\ call[d].cookie \in Tokens
    BY <1>1 DEF TypeOK, Calls
  <2>2. Alive(call[d].cookie)' => Alive(call[d].cookie)
    BY <2>1 DEF Tokens, Alive
  <2>3. Unheard(d)'
    BY <2>1, Apart DEF Sound, Unheard
  <2>4. Fits(d)' /\ Handled(d)' /\ CopyStands(d)'
    BY <1>2, <2>1, <2>2 DEF Sound, Fits, Handled, CopyStands, Issued
  <2> QED
    BY <2>1, <2>2, <2>3, <2>4 DEF Sound, Acting
<1> QED
  BY <1>3, <1>4, <1>5, InvBySound

LEMMA TickStep ==
    ASSUME Inv, Tick
    PROVE  Inv'
<1>1. left \in [Sids -> 0 .. TTL] /\ TTL \in Nat
  BY Apart DEF Inv, TypeOK
<1>2. left' = [s \in Sids |-> IF left[s] > 0 THEN left[s] - 1 ELSE 0]
  BY DEF Tick
<1>3. left' \in [Sids -> 0 .. TTL] /\ \A s \in Sids : left'[s] > 0 => left[s] > 0
  BY <1>1, <1>2
<1>4. jar' \in {jar, NoSid} /\ UNCHANGED <<owner, tab, call, notes>>
  BY DEF Tick
<1> QED
  BY <1>3, <1>4, SessionsDie

LEMMA RevokeStep ==
    ASSUME Inv, NEW e \in Requests, Revoke(e)
    PROVE  Inv'
<1> DEFINE n == [Idle EXCEPT !.pc = "answer", !.kind = "logout", !.tab = call[e].tab]
<1>1. TypeOK /\ Sound(e) /\ TTL \in Nat
  BY InvBySound, Apart
<1>2. n \in Calls
  BY <1>1, Apart DEF TypeOK, Calls, Pcs, Kinds
<1>3. n.pc = "answer" /\ n.kind = "logout" /\ n.cookie = NoSid /\ n.token = NoSid
  BY DEF Idle
<1>4. call' = [call EXCEPT ![e] = n] /\ call'[e] = n /\ UNCHANGED <<owner, jar, tab, notes>>
  BY <1>1 DEF Revoke, TypeOK
<1>5. left' \in [Sids -> 0 .. TTL] /\ \A s \in Sids : left'[s] > 0 => left[s] > 0
  <2>1. left \in [Sids -> 0 .. TTL]
    BY <1>1 DEF TypeOK
  <2>2. \/ left' = left
        \/ left' = [left EXCEPT ![call[e].cookie] = 0]
    BY DEF Revoke
  <2> QED
    BY <1>1, <2>1, <2>2
<1> HIDE DEF n
<1>6. Sound(e)'
  BY <1>3, <1>4 DEF Sound, Unheard, Fits, Handled, CopyStands, Acting, Issued
<1> QED
  BY <1>2, <1>3, <1>4, <1>5, <1>6, OneRequestEnds

-----------------------------------------------------------------------------
(* The moderation *)

LEMMA ReadCommentStep ==
    ASSUME Inv, NEW e \in Requests, ReadComment(e)
    PROVE  Inv'
<1> DEFINE c == call[e]
           n == [c EXCEPT !.pc = "write", !.copy = Apply(c.body, comment)]
<1>1. TypeOK /\ Sound(e) /\ ModerationsStand /\ c \in Calls /\ c.pc = "read"
  BY InvBySound DEF ReadComment, TypeOK
<1>2. UNCHANGED <<rows, jar, tab, notes>>
  BY DEF ReadComment
<1>3. CASE End(e)
  BY <1>2, <1>3, GivenUp
<1>4. CASE call' = [call EXCEPT ![e].pc = "write", ![e].copy = Apply(c.body, comment)]
  <2>1. call' = [call EXCEPT ![e] = n] /\ call'[e] = n
    BY <1>1, <1>4 DEF TypeOK
  <2>2. c.body \in [Fields -> Values \cup {"keep"}] /\ comment \in [Fields -> Values]
    BY <1>1 DEF TypeOK, Calls
  <2>3. Apply(c.body, comment) \in [Fields -> Values]
    BY <2>2 DEF Apply
  <2>4. n \in Calls
    BY <1>1, <2>3 DEF Calls, Pcs
  <2>5. /\ n.pc = "write" /\ n.body = c.body /\ n.copy = Apply(c.body, comment)
        /\ n.user = c.user /\ n.shown = c.shown /\ n.began = c.began
        /\ n.cookie = c.cookie /\ n.token = c.token
    BY <1>1 DEF Calls
  <2> HIDE DEF n
  <2>6. CopyStands(e)'
    BY <1>1, <1>2, <2>1, <2>5 DEF CopyStands, ModerationsStand, Apply, notes
  <2>7. Sound(e)'
    BY <1>1, <1>2, <2>1, <2>5, <2>6
    DEF Sound, Unheard, Fits, Handled, Acting, Issued, rows
  <2> QED
    BY <1>2, <2>1, <2>4, <2>5, <2>7, OneRequest
<1> QED
  BY <1>3, <1>4 DEF ReadComment

LEMMA UpdateCommentModStep ==
    ASSUME Inv, NEW e \in Requests, UpdateCommentMod(e)
    PROVE  Inv'
<1> DEFINE c == call[e]
<1>1. /\ TypeOK /\ Issued(jar) /\ ModerationsStand
      /\ \A r \in Tabs : InStep(r)
      /\ \A d \in Requests : Sound(d)
  BY InvBySound
<1>2. /\ c \in Calls /\ c.pc = "write" /\ UNCHANGED <<owner, left, jar, tab>>
      /\ call'[e] = Idle /\ \A d \in Requests \ {e} : call'[d] = call[d]
  BY <1>1 DEF UpdateCommentMod, End, TypeOK, rows
<1>3. /\ c.body \in [Fields -> Values \cup {"keep"}] /\ c.copy \in [Fields -> Values]
      /\ last \in [Fields -> Values]
  BY <1>1, <1>2 DEF TypeOK, Calls
<1>4. /\ comment' = c.copy
      /\ \A f \in Fields : last'[f] = IF c.body[f] = "keep" THEN last[f] ELSE c.body[f]
  BY DEF UpdateCommentMod, Apply
<1>5. ASSUME NEW f \in Fields
      PROVE  f \in overlapped' <=>
                IF c.body[f] = "keep" THEN f \in overlapped
                ELSE \E d \in Requests \ {e} : call[d].pc = "write"
  BY DEF UpdateCommentMod, Named
<1>6. TypeOK'
  <2>1. call' \in [Requests -> Calls]
    BY <1>1, Apart DEF UpdateCommentMod, End, TypeOK
  <2>2. last' \in [Fields -> Values]
    BY <1>3 DEF UpdateCommentMod, Apply
  <2>3. overlapped' \subseteq Fields
    BY <1>1 DEF UpdateCommentMod, Named, TypeOK
  <2> QED
    BY <1>1, <1>2, <1>3, <1>4, <2>1, <2>2, <2>3 DEF TypeOK
<1>7. ModerationsStand'
  <2> SUFFICES ASSUME NEW f \in Fields, f \notin overlapped'
               PROVE  comment'[f] = last'[f]
    BY DEF ModerationsStand
  <2>1. IF c.body[f] # "keep" THEN c.copy[f] = c.body[f]
        ELSE f \in overlapped \/ c.copy[f] = last[f]
    BY <1>1, <1>2 DEF Sound, CopyStands
  <2> QED
    BY <1>4, <1>5, <2>1
<1>8. ASSUME NEW d \in Requests PROVE Sound(d)'
  <2>1. CASE d = e
    BY <1>2, <2>1, Apart DEF Sound, Unheard, Fits, Handled, CopyStands, Acting, Issued, Idle
  <2>2. CASE d # e
    <3>1. Sound(d) /\ call'[d] = call[d]
      BY <1>1, <1>2, <2>2
    <3>2. Unheard(d)'
      BY <1>1, <1>2, <3>1, Apart DEF Sound, Unheard
    <3>3. CopyStands(d)'
      <4> SUFFICES ASSUME call[d].pc = "write", NEW f \in Fields
                   PROVE  IF call[d].body[f] # "keep" THEN call[d].copy[f] = call[d].body[f]
                          ELSE f \in overlapped' \/ call[d].copy[f] = last'[f]
        BY <3>1 DEF CopyStands
      <4>1. IF call[d].body[f] # "keep" THEN call[d].copy[f] = call[d].body[f]
            ELSE f \in overlapped \/ call[d].copy[f] = last[f]
        BY <3>1 DEF Sound, CopyStands
      <4> QED
        BY <1>4, <1>5, <2>2, <4>1
    <3> QED
      BY <1>2, <3>1, <3>2, <3>3 DEF Sound, Fits, Handled, Acting, Issued, Alive
  <2> QED
    BY <2>1, <2>2
<1> QED
  BY <1>1, <1>2, <1>6, <1>7, <1>8, InvBySound DEF Issued, InStep

LEMMA FailStep ==
    ASSUME Inv, NEW e \in Requests, Fail(e)
    PROVE  Inv'
BY GivenUp DEF Fail

-----------------------------------------------------------------------------
(* The theorems *)

\* The inductive invariant holds of every state, whichever requests of whichever tabs
\* overtake one another and whatever fails.
THEOREM Invariance == Spec => []Inv
<1>1. Init => Inv
  <2> SUFFICES ASSUME Init PROVE Inv
    OBVIOUS
  <2>1. TypeOK
    BY Apart DEF Init, TypeOK, Viewers, Tokens, Blank
  <2>2. \A t \in Tabs : InStep(t)
    BY DEF Init, InStep, Issued, Blank
  <2>3. \A e \in Requests : Sound(e)
    BY Apart DEF Init, Sound, Unheard, Fits, Handled, CopyStands, Acting, Issued
  <2>4. Issued(jar) /\ ModerationsStand
    BY DEF Init, Issued, ModerationsStand
  <2> QED
    BY <2>1, <2>2, <2>3, <2>4, InvBySound
<1>2. Inv /\ [Next]_vars => Inv'
  <2> SUFFICES ASSUME Inv, [Next]_vars PROVE Inv'
    OBVIOUS
  <2>1. CASE UNCHANGED vars
    BY <2>1 DEF vars, Inv, TypeOK, Issued, InStep, Unheard, Fits, Handled, CopyStands,
                ActsAsShown, LogoutEndsOwn, ActsInSession, ModerationsStand, Acting, Alive
  <2>2. ASSUME NEW e \in Requests, NEW t \in Tabs, Asks(e, t) PROVE Inv'
    BY <2>2, AsksStep
  <2>3. ASSUME NEW e \in Requests, Receive(e) \/ Lost(e) PROVE Inv'
    BY <2>3, ReceiveStep, LostStep
  <2>4. ASSUME NEW e \in Requests, Middleware(e) PROVE Inv'
    BY <2>4, MiddlewareStep
  <2>5. ASSUME NEW e \in Requests, Issue(e) \/ Revoke(e) PROVE Inv'
    BY <2>5, IssueStep, RevokeStep
  <2>6. ASSUME NEW e \in Requests, ReadComment(e) \/ UpdateCommentMod(e) \/ Fail(e)
        PROVE  Inv'
    BY <2>6, ReadCommentStep, UpdateCommentModStep, FailStep
  <2>7. ASSUME NEW t \in Tabs, Reload(t) PROVE Inv'
    BY <2>7, ReloadStep
  <2> QED
    BY <2>1, <2>2, <2>3, <2>4, <2>5, <2>6, <2>7, TickStep DEF Next
<1> QED
  BY <1>1, <1>2, PTL DEF Spec

\* Rows, browser, requests and histories keep their types.
THEOREM TypeCorrect == Spec => []TypeOK
<1>1. Inv => TypeOK
  BY DEF Inv
<1> QED
  BY <1>1, Invariance, PTL

\* Nothing is moderated in another name than the one the sending tab showed.
THEOREM NamesAreShown == Spec => []ActsAsShown
<1>1. Inv => ActsAsShown
  BY DEF Inv
<1> QED
  BY <1>1, Invariance, PTL

\* A logout never ends the living session of another user, unless the lookup failed.
THEOREM LogoutsAreOwn == Spec => []LogoutEndsOwn
<1>1. Inv => LogoutEndsOwn
  BY DEF Inv
<1> QED
  BY <1>1, Invariance, PTL

\* A session that was over when a request was sent does nothing for it.
THEOREM SessionsEnd == Spec => []ActsInSession
<1>1. Inv => ActsInSession
  BY DEF Inv
<1> QED
  BY <1>1, Invariance, PTL

\* What moderators set stands, but where two of them overlapped.
THEOREM FieldsStand == Spec => []ModerationsStand
<1>1. Inv => ModerationsStand
  BY DEF Inv
<1> QED
  BY <1>1, Invariance, PTL
=============================================================================
