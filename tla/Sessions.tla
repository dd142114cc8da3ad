------------------------------- MODULE Sessions -------------------------------
(***************************************************************************)
(* Whom a request acts for: the session rows and the middleware of auth/,  *)
(* the handlers of handler/auth.go, and ModComment (handler/social.go) as  *)
(* a request that needs them and writes.                                   *)
(*                                                                         *)
(* One browser keeps the cookie, and every tab of it what the page shows   *)
(* and the CSRF token it was told (frontend-user/src/api.ts, App.tsx).     *)
(* Tabs log in and out without telling one another; their requests and the *)
(* answers to them overtake one another.                                   *)
(***************************************************************************)
EXTENDS Integers, FiniteSets

CONSTANTS
    Users,          \* accounts
    Role,           \* users.role
    Owner,          \* the creator of the track that was commented on
    NoUser,         \* nobody is logged in
    Sids,           \* session ids: a bound on the logins
    Tabs,
    TTL,            \* ticks a session lives: SESSION_TTL, 72 hours
    Fields,         \* what a moderator sets of a comment: pinned, hidden, reply
    Changes,        \* the bodies of a moderation, [field -> "keep", or what to set]
    Requests,
    Faults          \* which of "db", a call fails, and "net", an answer is lost

NoSid == "no session"
NoTab == "no tab"

ASSUME SessionsAssumption ==
    /\ NoUser \notin Users
    /\ Role \in [Users -> {"LISTENER", "CREATOR", "ADMIN"}]
    /\ NoSid \notin Sids /\ NoTab \notin Tabs
    /\ TTL \in Nat \ {0}
    /\ Changes \subseteq [Fields -> {"keep", "on", "off"}]
    /\ Faults \subseteq {"db", "net"}

VARIABLES
    owner,          \* sessions.user_id, kept when the row is deleted; NoUser: not issued
    left,           \* ticks each session still lives, 0 once it has expired or is deleted
    jar,            \* the cookie gm_session of the browser
    tab,            \* what each tab shows and which session its token is of
    call,           \* what each request is doing
    comment,        \* the comment's row
    last,           \* history: what the last moderation that named a field set it to
    overlapped      \* history: fields set while another moderation had read the comment

vars == <<owner, left, jar, tab, call, comment, last, overlapped>>

\* Each session has a token of its own: one stands for the other.
Tokens  == Sids \cup {NoSid}
Viewers == Users \cup {NoUser}

Blank   == [user |-> NoUser, csrf |-> NoSid]
Keep    == [f \in Fields |-> "keep"]
Plain   == [f \in Fields |-> "off"]

Idle == [pc |-> "idle", kind |-> "me", tab |-> NoTab, user |-> NoUser, cookie |-> NoSid,
         token |-> NoSid, body |-> Keep, copy |-> Plain, shown |-> NoUser,
         began |-> FALSE, blind |-> FALSE]

Init ==
    /\ owner   = [s \in Sids |-> NoUser]
    /\ left    = [s \in Sids |-> 0]
    /\ jar     = NoSid
    /\ tab     = [t \in Tabs |-> Blank]
    /\ call    = [e \in Requests |-> Idle]
    /\ comment = Plain
    /\ last    = Plain
    /\ overlapped = {}

\* The row is there and has not expired.
Alive(s) == s # NoSid /\ left[s] > 0

End(e) == call' = [call EXCEPT ![e] = Idle]

rows  == <<owner, left>>
notes == <<comment, last, overlapped>>

-----------------------------------------------------------------------------
(* The browser *)

\* The cookie goes with every request, the token with those that are no GET.
Send(e, t, kind, u, body) ==
    /\ call[e].pc = "idle"
    /\ call' = [call EXCEPT ![e] = [Idle EXCEPT
                    !.pc = "arrived", !.kind = kind, !.tab = t, !.user = u, !.cookie = jar,
                    !.token = IF kind = "me" THEN NoSid ELSE tab[t].csrf,
                    !.body = body, !.shown = tab[t].user, !.began = (kind = "moderate" /\ Alive(jar))]]
    /\ UNCHANGED <<rows, jar, tab, notes>>

\* The page is loaded anew; what it had asked for is not waited for.
Reload(t) ==
    /\ tab'  = [tab EXCEPT ![t] = Blank]
    /\ call' = [e \in Requests |->
                    IF call[e].tab = t THEN [call[e] EXCEPT !.tab = NoTab] ELSE call[e]]
    /\ UNCHANGED <<rows, jar, notes>>

\* The answers to login and logout set and clear the cookie.
SetCookie(c) ==
    CASE c.kind = "login" -> c.cookie [] c.kind = "logout" -> NoSid [] OTHER -> jar

\* A logout leaves the token in the tab.
Shows(t, c) ==
    IF t # c.tab THEN tab[t]
    ELSE IF c.kind = "logout" THEN [tab[t] EXCEPT !.user = NoUser]
    ELSE [user |-> c.user, csrf |-> c.cookie]

Receive(e) ==
    /\ call[e].pc = "answer"
    /\ jar' = SetCookie(call[e])
    /\ tab' = [t \in Tabs |-> Shows(t, call[e])]
    /\ End(e)
    /\ UNCHANGED <<rows, notes>>

Lost(e) ==
    /\ call[e].pc \in {"arrived", "answer"}
    /\ "net" \in Faults \/ call[e].tab = NoTab
    /\ End(e)
    /\ UNCHANGED <<rows, jar, tab, notes>>

-----------------------------------------------------------------------------
(* The middleware *)

\* Faulty variant, for the mutation runs only: a request without a token is let through.
CSRFIfSent(c, who) == c.kind = "me" \/ who = NoUser \/ c.token = NoSid \/ c.token = c.cookie

\* Faulty variant, for the mutation runs only: the routes of /api/auth are exempt.
CSRFButAuth(c, who) == c.kind # "moderate" \/ who = NoUser \/ c.token = c.cookie

\* A request that nobody is logged in for needs no token.
CSRF(c, who) == c.kind = "me" \/ who = NoUser \/ c.token = c.cookie

\* Login and logout are open to everyone.
RequireAuth(c, who) == c.kind \in {"me", "moderate"} => who # NoUser
RequireRole(c, who) == c.kind = "moderate" => Role[who] \in {"CREATOR", "ADMIN"}

\* The handler, with what it needs of the request.
Routed(c, who, blind) ==
    LET on(pc) == [Idle EXCEPT !.pc = pc, !.kind = c.kind, !.tab = c.tab] IN
    CASE c.kind = "login"    -> [on("issue") EXCEPT !.user = c.user]
      [] c.kind = "logout"   -> [on("revoke") EXCEPT !.cookie = c.cookie, !.shown = c.shown,
                                                     !.blind = blind]
      [] c.kind = "me"       -> [on("answer") EXCEPT !.user = who, !.cookie = c.cookie]
      [] c.kind = "moderate" -> [Idle EXCEPT !.pc = "read", !.kind = c.kind, !.user = who,
                                             !.body = c.body, !.shown = c.shown,
                                             !.began = c.began]

\* Faulty variant, for the mutation runs only: the expiry is not compared.
MiddlewareTrusting(e) ==
    /\ call[e].pc = "arrived"
    /\ \E found \in {call[e].cookie # NoSid} \cup (IF "db" \in Faults THEN {FALSE} ELSE {}) :
        LET c   == call[e]
            who == IF found THEN owner[c.cookie] ELSE NoUser
        IN IF CSRF(c, who) /\ RequireAuth(c, who) /\ RequireRole(c, who)
           THEN call' = [call EXCEPT ![e] = Routed(c, who, Alive(c.cookie) /\ ~found)]
           ELSE End(e)
    /\ UNCHANGED <<rows, jar, tab, notes>>

\* The session is looked up once.  A lookup that fails leaves the request anonymous.
Middleware(e) ==
    /\ call[e].pc = "arrived"
    /\ \E found \in {Alive(call[e].cookie)} \cup (IF "db" \in Faults THEN {FALSE} ELSE {}) :
        LET c   == call[e]
            who == IF found THEN owner[c.cookie] ELSE NoUser
        IN IF CSRF(c, who) /\ RequireAuth(c, who) /\ RequireRole(c, who)
           THEN call' = [call EXCEPT ![e] = Routed(c, who, Alive(c.cookie) /\ ~found)]
           ELSE End(e)
    /\ UNCHANGED <<rows, jar, tab, notes>>

-----------------------------------------------------------------------------
(* Register and Login, Logout; Me only reads a row that never changes. *)

\* Issue, when the password was right.  Of Register it is the second insert.
Issue(e) ==
    /\ call[e].pc = "issue"
    /\ \/ \E s \in Sids :
            /\ owner[s] = NoUser
            /\ owner' = [owner EXCEPT ![s] = call[e].user]
            /\ left'  = [left EXCEPT ![s] = TTL]
            /\ call'  = [call EXCEPT ![e].pc = "answer", ![e].cookie = s]
       \/ End(e) /\ UNCHANGED rows
    /\ UNCHANGED <<jar, tab, notes>>

\* Whatever session the cookie names, its row is deleted; an error is not looked at.
Revoke(e) ==
    /\ call[e].pc = "revoke"
    /\ \/ left' = IF Alive(call[e].cookie) THEN [left EXCEPT ![call[e].cookie] = 0] ELSE left
       \/ "db" \in Faults /\ UNCHANGED left
    /\ call' = [call EXCEPT ![e] = [Idle EXCEPT !.pc = "answer", !.kind = "logout",
                                               !.tab = call[e].tab]]
    /\ UNCHANGED <<owner, jar, tab, notes>>

-----------------------------------------------------------------------------
(* ModComment *)

\* What a body makes of a row.
Apply(body, row) == [f \in Fields |-> IF body[f] = "keep" THEN row[f] ELSE body[f]]

\* The creator of the track, or an administrator.
MayModerate(u) == u = Owner \/ Role[u] = "ADMIN"

\* Faulty variant, for the mutation runs only: what is not named is taken to be off.
ReadCommentNew(e) ==
    /\ call[e].pc = "read"
    /\ IF MayModerate(call[e].user)
       THEN call' = [call EXCEPT ![e].pc = "write", ![e].copy = Apply(call[e].body, Plain)]
       ELSE End(e)
    /\ UNCHANGED <<rows, jar, tab, notes>>

\* CommentByID, and TrackByID for the creator.
ReadComment(e) ==
    /\ call[e].pc = "read"
    /\ IF MayModerate(call[e].user)
       THEN call' = [call EXCEPT ![e].pc = "write", ![e].copy = Apply(call[e].body, comment)]
       ELSE End(e)
    /\ UNCHANGED <<rows, jar, tab, notes>>

Named(e) == {f \in Fields : call[e].body[f] # "keep"}

\* All three columns are written, those the body did not name as they were read.
UpdateCommentMod(e) ==
    /\ call[e].pc = "write"
    /\ comment' = call[e].copy
    /\ last' = Apply(call[e].body, last)
    /\ overlapped' = (overlapped \ Named(e)) \cup
                       {f \in Named(e) : \E d \in Requests \ {e} : call[d].pc = "write"}
    /\ End(e)
    /\ UNCHANGED <<rows, jar, tab>>

\* A call that returns an error: the handler gives up.
Fail(e) ==
    /\ "db" \in Faults
    /\ call[e].pc \in {"read", "write"}
    /\ End(e)
    /\ UNCHANGED <<rows, jar, tab, notes>>

-----------------------------------------------------------------------------
(* Time *)

\* The cookie expires with its session, if the browser's clock agrees.
Tick ==
    /\ left' = [s \in Sids |-> IF left[s] > 0 THEN left[s] - 1 ELSE 0]
    /\ jar' \in {jar} \cup {s \in {NoSid} : jar # NoSid /\ left'[jar] = 0}
    /\ UNCHANGED <<owner, tab, call, notes>>

LogIn(e, t) == \E u \in Users : Send(e, t, "login", u, Keep)

\* App asks me when a page is loaded, and offers the logout to who is shown.
Asks(e, t) ==
    \/ LogIn(e, t)
    \/ tab[t] = Blank /\ Send(e, t, "me", NoUser, Keep)
    \/ tab[t].user # NoUser /\ Send(e, t, "logout", NoUser, Keep)
    \/ \E body \in Changes : Send(e, t, "moderate", NoUser, body)

Next ==
    \/ \E e \in Requests :
        \/ \E t \in Tabs : Asks(e, t)
        \/ Receive(e)
        \/ Lost(e)
        \/ Middleware(e)
        \/ Issue(e)
        \/ Revoke(e)
        \/ ReadComment(e)
        \/ UpdateCommentMod(e)
        \/ Fail(e)
    \/ \E t \in Tabs : Reload(t)
    \/ Tick

Spec == Init /\ [][Next]_vars

-----------------------------------------------------------------------------
(* Properties *)

Kinds == {"login", "logout", "me", "moderate"}
Pcs   == {"idle", "arrived", "issue", "revoke", "answer", "read", "write"}
Values == {"on", "off"}

Calls == [pc : Pcs, kind : Kinds, tab : Tabs \cup {NoTab}, user : Viewers, cookie : Tokens,
          token : Tokens, body : [Fields -> Values \cup {"keep"}], copy : [Fields -> Values],
          shown : Viewers, began : BOOLEAN, blind : BOOLEAN]

\* The types of rows, browser, requests and histories.
TypeOK ==
    /\ owner \in [Sids -> Viewers]
    /\ left  \in [Sids -> 0 .. TTL]
    /\ jar   \in Tokens
    /\ tab   \in [Tabs -> [user : Viewers, csrf : Tokens]]
    /\ call  \in [Requests -> Calls]
    /\ comment \in [Fields -> Values]
    /\ last    \in [Fields -> Values]
    /\ overlapped \subseteq Fields

Acting(e) == call[e].pc \in {"read", "write"}

\* A moderation is done in the name of the user whom the tab showed that sent it: never of
\* one who has logged in in another tab since, and never for a tab that shows nobody.  The
\* token decides, and it is one of the page's session while the cookie is the browser's.
ActsAsShown == \A e \in Requests : Acting(e) => call[e].user = call[e].shown

\* A logout ends the session of the user the tab showed, or one that has ended anyway -
\* unless the lookup of the session failed: then no token is asked for, and Logout deletes
\* the row the cookie names, whoever has logged in since.
LogoutEndsOwn ==
    \A e \in Requests : LET c == call[e] IN
        c.pc = "revoke" /\ Alive(c.cookie) /\ ~c.blind => owner[c.cookie] = c.shown

\* A moderation is only ever done for a session that was alive when the browser sent it: one
\* that was logged out, from whichever tab, or has expired by then is no use to any cookie
\* that still names it.  (A session that ends later does not stop it: it is looked up once.)
ActsInSession == \A e \in Requests : Acting(e) => call[e].began

\* Each field of a comment is what the last moderation that named it made it, whatever
\* others were sent, failed or were refused - but for fields that were set while another
\* moderation had read the comment and not yet written it: that one may undo them.
ModerationsStand == \A f \in Fields \ overlapped : comment[f] = last[f]

-----------------------------------------------------------------------------
(* The inductive invariant *)

Issued(s) == s # NoSid => owner[s] # NoUser

\* A session whose login has not been answered is known to nobody else.
Unheard(e) == call[e].pc = "answer" /\ call[e].kind = "login" =>
    LET s == call[e].cookie IN
    /\ s \in Sids /\ owner[s] = call[e].user /\ call[e].user \in Users
    /\ jar # s
    /\ \A t \in Tabs : tab[t].csrf # s
    /\ \A d \in Requests \ {e} : call[d].cookie # s /\ call[d].token # s

\* A tab shows whom its token is of; one that has logged out shows nobody, and the cookie is
\* no longer that of its token.
InStep(t) == LET s == tab[t].csrf IN
    /\ Issued(s)
    /\ IF s = NoSid THEN tab[t].user = NoUser
       ELSE \/ tab[t].user = owner[s]
            \/ tab[t].user = NoUser /\ jar # s

\* A token that fits the cookie is one of the user shown.
Fits(e) == call[e].pc = "arrived" =>
    LET c == call[e] IN
    /\ c.kind # "me" /\ c.token = c.cookie /\ c.cookie # NoSid => owner[c.cookie] = c.shown
    /\ c.kind = "moderate" /\ Alive(c.cookie) => c.began
    /\ c.kind = "login" => c.user \in Users

\* What the handlers go on with.
Handled(e) == LET c == call[e] IN
    /\ Issued(c.cookie) /\ Issued(c.token)
    /\ c.pc = "issue" => c.kind = "login" /\ c.user \in Users
    /\ c.pc = "answer" => c.kind # "moderate"
    /\ c.pc = "answer" /\ c.kind = "me" =>
            c.cookie \in Sids /\ c.user = owner[c.cookie] /\ c.user \in Users

\* A copy of the comment is as good as the row, where nobody has overlapped.
CopyStands(e) == call[e].pc = "write" =>
    \A f \in Fields : IF call[e].body[f] # "keep" THEN call[e].copy[f] = call[e].body[f]
                       ELSE f \in overlapped \/ call[e].copy[f] = last[f]

Inv ==
    /\ TypeOK
    /\ Issued(jar)
    /\ \A t \in Tabs : InStep(t)
    /\ \A e \in Requests : Unheard(e) /\ Fits(e) /\ Handled(e) /\ CopyStands(e)
    /\ ActsAsShown
    /\ LogoutEndsOwn
    /\ ActsInSession
    /\ ModerationsStand
=============================================================================
