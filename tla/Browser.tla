------------------------------ MODULE Browser ------------------------------
(***************************************************************************)
(* One user's browser in front of RefreshTokens.  Its tabs share the       *)
(* cookie that holds the refresh token.  A call that is answered 401 waits *)
(* for its tab's refresh, which the first such call has sent, and is sent  *)
(* once more; a refresh that fails sends the tab to the login page.  A     *)
(* refresh is the server's request of the call that sent it.  Whether the  *)
(* access token of a call is good is left open, and so is why the server   *)
(* fails: that a token has expired or its user is removed is such a reason.*)
(***************************************************************************)
EXTENDS RefreshTokens

CONSTANT Tabs

Calls == Requests  \* bound: calls at once, each with the refresh it may send

VARIABLES cookie,  \* the refresh token the browser holds
          call,    \* where each call stands
          fly,     \* and the refresh it has sent
          lost,    \* history: tokens whose reply never came
          dealt    \* history: the tab for which a token was dealt

browserVars == <<cookie, call, fly, lost, dealt>>
allVars == <<placed, token, req, cookie, call, fly, lost, dealt>>

NoCall == [at |-> "idle"]
Call == [at : {"sent", "unauthorized", "waiting"}, tab : Tabs, retry : BOOLEAN]
NoFlight == [at |-> "none"]
Failed == [at |-> "failed"]
Flight == [at : {"out", "served", "revoked"}, cookie : Tokens \union {NoToken}]
Reply == [at : {"reply"}, new : Tokens]

\* The variables have their shape.
BrowserTypeOK ==
  /\ TypeOK
  /\ cookie \in Tokens \union {NoToken}
  /\ call \in [Calls -> {NoCall} \union Call]
  /\ fly \in [Calls -> {NoFlight, Failed} \union Flight \union Reply]
  /\ lost \subseteq DOMAIN token
  /\ DOMAIN dealt \subseteq DOMAIN token /\ \A t \in DOMAIN dealt : dealt[t] \in Tabs

BrowserInit ==
  /\ Init
  /\ cookie = NoToken
  /\ call = [c \in Calls |-> NoCall]
  /\ fly = [c \in Calls |-> NoFlight]
  /\ lost = {} /\ dealt = [t \in {} |-> 0]

----------------------------------------------------------------------------
Deal(t, tab) == dealt' = [x \in DOMAIN dealt \union {t} |-> IF x = t THEN tab ELSE dealt[x]]
In(tab) == {c \in Calls : call[c] # NoCall /\ call[c].tab = tab}
Flying(tab) == \E c \in In(tab) : fly[c] # NoFlight
Land(c, f) == fly' = [fly EXCEPT ![c] = f]

\* Signup, login and an accepted invite: the reply brings both tokens.
SignIn == \E u \in Users :
  /\ Joined(u)
  /\ cookie' \in DOMAIN token' \ DOMAIN token
  /\ UNCHANGED <<call, fly, lost, dealt>>

Send(c, tab) ==
  /\ call[c] = NoCall
  /\ call' = [call EXCEPT ![c] = [at |-> "sent", tab |-> tab, retry |-> FALSE]]
  /\ UNCHANGED <<vars, cookie, fly, lost, dealt>>

\* The answer is 401 if the access token is missing or has expired; the second
\* time it is final.
Answer(c) ==
  /\ call[c] # NoCall /\ call[c].at = "sent"
  /\ \/ call' = [call EXCEPT ![c] = NoCall]
     \/ ~call[c].retry /\ call' = [call EXCEPT ![c].at = "unauthorized"]
  /\ UNCHANGED <<vars, cookie, fly, lost, dealt>>

----------------------------------------------------------------------------
EachItsOwn(c) == fly[c] = NoFlight   \* mutant: every 401 sends a refresh
SendsRefresh(c) == ~Flying(call[c].tab)

\* The interceptor finds a 401: `refreshing' is null, or is awaited.
Intercept(c) ==
  /\ call[c] # NoCall /\ call[c].at = "unauthorized"
  /\ call' = [call EXCEPT ![c].at = "waiting", ![c].retry = TRUE]
  /\ fly' = IF SendsRefresh(c)
            THEN [fly EXCEPT ![c] = [at |-> "out", cookie |-> cookie]] ELSE fly
  /\ UNCHANGED <<vars, cookie, lost, dealt>>

\* The server's side: RefreshTokens serves the flight of c.
Serve(c) ==
  /\ fly[c].at = "out" /\ StartRefresh(c) /\ req'[c].token = fly[c].cookie
  /\ fly' = [fly EXCEPT ![c].at = "served"]
  /\ UNCHANGED <<cookie, call, lost, dealt>>

Refuse(c) == LET t == fly[c].cookie IN
  /\ fly[c].at = "out" /\ ~Live(t)
  /\ Land(c, IF t = NoToken THEN Failed ELSE [at |-> "revoked", cookie |-> t])
  /\ UNCHANGED <<vars, cookie, call, lost, dealt>>

\* The request never arrives.
LoseRequest(c) ==
  /\ fly[c].at = "out"
  /\ Land(c, Failed)
  /\ UNCHANGED <<vars, cookie, call, lost, dealt>>

Check(c) == RefreshMember(c) /\ UNCHANGED browserVars

Break(c) ==
  /\ Fail(c)
  /\ Land(c, Failed)
  /\ UNCHANGED <<cookie, call, lost, dealt>>

Trade(c) ==
  /\ RefreshCommit(c)
  /\ \E n \in DOMAIN token' \ DOMAIN token :
       Land(c, [at |-> "reply", new |-> n]) /\ Deal(n, call[c].tab)
  /\ UNCHANGED <<cookie, call, lost>>

LoseReply(c) ==
  /\ fly[c].at = "reply"
  /\ lost' = lost \union {fly[c].new}
  /\ Land(c, Failed)
  /\ UNCHANGED <<vars, cookie, call, dealt>>

----------------------------------------------------------------------------
Waiting(tab) == {c \in In(tab) : call[c].at = "waiting"}

ArriveCookieless(c) == LET tab == call[c].tab IN   \* mutant: no Set-Cookie
  /\ fly[c].at = "reply"
  /\ call' = [d \in Calls |-> IF d \in Waiting(tab)
                              THEN [call[d] EXCEPT !.at = "sent"] ELSE call[d]]
  /\ Land(c, NoFlight)
  /\ UNCHANGED <<vars, cookie, lost, dealt>>

\* The reply brings the cookie and the access token, and whoever waited in this
\* tab sends his call again.
Arrive(c) == LET new == fly[c].new tab == call[c].tab IN
  /\ fly[c].at = "reply"
  /\ cookie' = new
  /\ call' = [d \in Calls |-> IF d \in Waiting(tab)
                              THEN [call[d] EXCEPT !.at = "sent"] ELSE call[d]]
  /\ Land(c, NoFlight)
  /\ UNCHANGED <<vars, lost, dealt>>

BounceAlone(c) ==   \* mutant: who waits for the refresh is not told
  /\ fly[c].at \in {"revoked", "failed"}
  /\ call' = [call EXCEPT ![c] = NoCall]
  /\ Land(c, NoFlight)
  /\ UNCHANGED <<vars, cookie, lost, dealt>>

\* clearAuth and a new page: the tab's calls are gone.
Bounce(c) ==
  /\ fly[c].at \in {"revoked", "failed"}
  /\ call' = [d \in Calls |-> IF d \in In(call[c].tab) THEN NoCall ELSE call[d]]
  /\ fly' = [d \in Calls |-> IF d \in In(call[c].tab) THEN NoFlight ELSE fly[d]]
  /\ UNCHANGED <<vars, cookie, lost, dealt>>

BrowserNext ==
  \/ \E c \in Calls, tab \in Tabs : Send(c, tab)
  \/ SignIn
  \/ \E c \in Calls :
       \/ Answer(c) \/ Intercept(c) \/ Serve(c) \/ Refuse(c) \/ LoseRequest(c)
       \/ Check(c) \/ Break(c) \/ Trade(c) \/ LoseReply(c) \/ Arrive(c) \/ Bounce(c)

BrowserSpec == BrowserInit /\ [][BrowserNext]_allVars

----------------------------------------------------------------------------
\* One tab never logs itself out: when its refresh is refused because its cookie
\* was traded, another tab had traded it, or the reply of the trade was lost
\* (api.ts:21-23, 36).
NoTabLogsItselfOut == \A c \in Calls : fly[c].at = "revoked" =>
  \E n \in Children(fly[c].cookie) : n \in lost \/ dealt[n] # call[c].tab

\* The browser never keeps a spent cookie, unless the reply that replaces it is on
\* its way or was lost: replies to two tabs may come in any order (auth.py:96).
CookieIsUnspent == cookie # NoToken /\ token[cookie].revoked =>
  \E n \in Children(cookie) : n \in lost \/ \E c \in Calls : fly[c].at = "reply" /\ fly[c].new = n

\* A call that waits for a refresh has one to wait for, in its own tab: nobody is
\* left waiting when it fails (api.ts:44-62).
NobodyWaitsInVain == \A c \in Calls :
  call[c] # NoCall /\ call[c].at = "waiting" => Flying(call[c].tab)
============================================================================
