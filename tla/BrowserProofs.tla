--------------------------- MODULE BrowserProofs ---------------------------
(***************************************************************************)
(* Proofs about Browser for every number of tokens, calls and tabs.  The   *)
(* server's side of it is RefreshTokens, whose theorems carry over.  Of    *)
(* the browser's, the heart is Ahead: whatever the cookie was traded for   *)
(* is lost, or is the reply on its way to the tab it was dealt to; and a   *)
(* tab that has such a reply coming sends no refresh (one flight a tab).   *)
(***************************************************************************)
EXTENDS Browser, RefreshTokensProofs

\* The browser's calls are requests of RefreshTokens and change nothing else there.
THEOREM BrowserUsesSessions == BrowserSpec => Spec
<1>1. BrowserInit => Init
  BY DEF BrowserInit
<1>2. [BrowserNext]_allVars => [Next]_vars
  <2>1. ASSUME NEW c \in Calls, NEW tab \in Tabs, Send(c, tab)
        PROVE  UNCHANGED vars
    BY <2>1 DEF Send
  <2>2. ASSUME SignIn
        PROVE  Next
    BY <2>2 DEF SignIn, Next
  <2>3. ASSUME NEW c \in Calls,
               Answer(c) \/ Intercept(c) \/ Refuse(c) \/ LoseRequest(c) \/ LoseReply(c)
                 \/ Arrive(c) \/ Bounce(c)
        PROVE  UNCHANGED vars
    BY <2>3 DEF Answer, Intercept, Refuse, LoseRequest, LoseReply, Arrive, Bounce
  <2>4. ASSUME NEW c \in Calls, Serve(c) \/ Check(c) \/ Break(c) \/ Trade(c)
        PROVE  Next
    BY <2>4 DEF Serve, Check, Break, Trade, Next, Calls
  <2>5. UNCHANGED allVars => UNCHANGED vars
    BY DEF allVars, vars
  <2> QED BY <2>1, <2>2, <2>3, <2>4, <2>5 DEF BrowserNext
<1> QED BY <1>1, <1>2, PTL DEF BrowserSpec, Spec

----------------------------------------------------------------------------
InFlight(c) == fly[c].at \in {"out", "served"}
Coming(c) == fly[c].at = "reply"

\* Who has a refresh waits for it, a tab has one, and nobody waits without.
Waits ==
  /\ \A c \in Calls : fly[c] # NoFlight => call[c] # NoCall /\ call[c].at = "waiting"
  /\ \A c, d \in Calls :
       fly[c] # NoFlight /\ fly[d] # NoFlight /\ call[c].tab = call[d].tab => c = d
  /\ NobodyWaitsInVain

\* The server's request of a call is the refresh it has sent.
Serves == \A c \in Calls : req[c] # Idle =>
  /\ fly[c].at = "served" /\ req[c].at \in {"refresh.member", "refresh.commit"}
  /\ req[c].token = fly[c].cookie /\ req[c].token \in DOMAIN token

\* What the browser holds and sends are rows.
Known ==
  /\ cookie \in DOMAIN token \union {NoToken}
  /\ \A c \in Calls : InFlight(c) => fly[c].cookie \in DOMAIN token \union {NoToken}
  /\ \A c \in Calls : fly[c].at = "revoked" => fly[c].cookie # NoToken

\* A token in a reply is nobody else's.
RepliesFresh == \A c \in Calls : Coming(c) =>
  /\ fly[c].new \in DOMAIN token /\ ~token[fly[c].new].revoked /\ fly[c].new # cookie
  /\ \A d \in Calls : InFlight(d) => fly[d].cookie # fly[c].new
  /\ \A d \in Calls : Coming(d) /\ fly[d].new = fly[c].new => c = d

\* What is revoked was traded, and what it was traded for was dealt to a tab.
Traded == \A t \in DOMAIN token :
  /\ ~token[t].expired
  /\ token[t].revoked => \E n \in DOMAIN token : token[n].parent = t
  /\ token[t].parent # NoToken => t \in DOMAIN dealt

Ahead == cookie # NoToken => \A n \in Children(cookie) :
  n \in lost \/ \E c \in Calls : Coming(c) /\ fly[c].new = n /\ call[c].tab = dealt[n]

\* What a tab's refresh has already been traded for was dealt to another tab, or lost.
Own == \A c \in Calls : InFlight(c) /\ fly[c].cookie # NoToken =>
  \A n \in Children(fly[c].cookie) : n \in lost \/ dealt[n] # call[c].tab

BInv == /\ BrowserTypeOK /\ Waits /\ Serves /\ Known /\ RepliesFresh
        /\ Traded /\ Ahead /\ Own /\ NoTabLogsItselfOut

----------------------------------------------------------------------------
\* A flight starts, goes on or ends: one call's entry of fly changes.
LEMMA Landed ==
  ASSUME BInv, NEW c \in Calls, NEW f, Land(c, f)
  PROVE  /\ DOMAIN fly' = Calls
         /\ fly'[c] = f
         /\ \A d \in Calls : d # c => fly'[d] = fly[d]
         /\ f \in {NoFlight, Failed} \union Flight \union Reply =>
              fly' \in [Calls -> {NoFlight, Failed} \union Flight \union Reply]
BY DEF BInv, BrowserTypeOK, Land

\* One call moves on.
LEMMA Called ==
  ASSUME BInv, NEW c \in Calls, NEW x, call' = [call EXCEPT ![c] = x]
  PROVE  /\ call'[c] = x
         /\ \A d \in Calls : d # c => call'[d] = call[d]
         /\ x \in {NoCall} \union Call => call' \in [Calls -> {NoCall} \union Call]
BY DEF BInv, BrowserTypeOK

LEMMA SendKeeps ==
  ASSUME BInv, NEW c \in Calls, NEW tab \in Tabs, Send(c, tab)
  PROVE  BInv'
<1> DEFINE x == [at |-> "sent", tab |-> tab, retry |-> FALSE]
<1> USE DEF BInv
<1>1. /\ call[c] = NoCall /\ call' = [call EXCEPT ![c] = x]
      /\ UNCHANGED <<placed, token, req, cookie, fly, lost, dealt>>
  BY DEF Send, vars
<1>2. x \in Call /\ x # NoCall /\ x.at = "sent"
  BY DEF Call, NoCall
<1> HIDE DEF x
<1>3. /\ call'[c] = x
      /\ \A d \in Calls : d # c => call'[d] = call[d]
      /\ call' \in [Calls -> {NoCall} \union Call]
  BY <1>1, <1>2, Called
<1>4. fly[c] = NoFlight /\ ~InFlight(c) /\ ~Coming(c)
  BY <1>1 DEF Waits, InFlight, Coming, NoFlight
<1>5. BrowserTypeOK'
  BY <1>1, <1>3 DEF BrowserTypeOK, TypeOK
<1>6. Waits'
  BY <1>1, <1>2, <1>3, <1>4 DEF Waits, NobodyWaitsInVain, Flying, In
<1>7. (Serves /\ Known /\ RepliesFresh /\ Traded)'
  BY <1>1 DEF Serves, Known, RepliesFresh, Traded, InFlight, Coming, Children
<1>8. (Ahead /\ Own /\ NoTabLogsItselfOut)'
  BY <1>1, <1>3, <1>4 DEF Ahead, Own, NoTabLogsItselfOut, InFlight, Coming, Children, NoFlight
<1> QED BY <1>5, <1>6, <1>7, <1>8

LEMMA AnswerKeeps ==
  ASSUME BInv, NEW c \in Calls, Answer(c)
  PROVE  BInv'
<1> USE DEF BInv
<1>1. /\ call[c] # NoCall /\ call[c].at = "sent"
      /\ call' = [call EXCEPT ![c] = NoCall] \/ call' = [call EXCEPT ![c].at = "unauthorized"]
      /\ UNCHANGED <<placed, token, req, cookie, fly, lost, dealt>>
  BY DEF Answer, vars
<1>2. call[c] \in Call
  BY <1>1 DEF BrowserTypeOK
<1> DEFINE x == [call[c] EXCEPT !.at = "unauthorized"]
<1>3. x \in Call /\ x # NoCall /\ x.at = "unauthorized" /\ NoCall.at = "idle"
  BY <1>2 DEF Call, NoCall
<1>4. call' = [call EXCEPT ![c] = NoCall] \/ call' = [call EXCEPT ![c] = x]
  BY <1>1
<1> HIDE DEF x
<1>5. /\ call'[c] = NoCall \/ call'[c] = x
      /\ \A d \in Calls : d # c => call'[d] = call[d]
      /\ call' \in [Calls -> {NoCall} \union Call]
  BY <1>3, <1>4, Called
<1>6. fly[c] = NoFlight /\ ~InFlight(c) /\ ~Coming(c) /\ fly[c].at = "none"
  BY <1>1 DEF Waits, InFlight, Coming, NoFlight
<1>7. BrowserTypeOK'
  BY <1>1, <1>5 DEF BrowserTypeOK, TypeOK
<1>8. Waits'
  <2>1. \A d \in Calls : fly'[d] # NoFlight => call'[d] = call[d] /\ fly'[d] = fly[d]
    BY <1>1, <1>5, <1>6
  <2>2. \A d \in Calls : call'[d] # NoCall /\ call'[d].at = "waiting" => call'[d] = call[d] /\ d # c
    BY <1>3, <1>5
  <2> QED BY <1>1, <2>1, <2>2 DEF Waits, NobodyWaitsInVain, Flying, In
<1>9. (Serves /\ Known /\ RepliesFresh /\ Traded)'
  BY <1>1 DEF Serves, Known, RepliesFresh, Traded, InFlight, Coming, Children
<1>10. (Ahead /\ Own /\ NoTabLogsItselfOut)'
  BY <1>1, <1>5, <1>6 DEF Ahead, Own, NoTabLogsItselfOut, InFlight, Coming, Children
<1> QED BY <1>7, <1>8, <1>9, <1>10

LEMMA InterceptKeeps ==
  ASSUME BInv, NEW c \in Calls, Intercept(c)
  PROVE  BInv'
<1> DEFINE x == [call[c] EXCEPT !.at = "waiting", !.retry = TRUE]
           f == [at |-> "out", cookie |-> cookie]
           tab == call[c].tab
<1> USE DEF BInv
<1>1. /\ call[c] # NoCall /\ call[c].at = "unauthorized"
      /\ call' = [call EXCEPT ![c] = x]
      /\ UNCHANGED <<placed, token, req, cookie, lost, dealt>>
  BY DEF Intercept, vars
<1>2. /\ SendsRefresh(c) => Land(c, f)
      /\ ~SendsRefresh(c) => fly' = fly
  BY DEF Intercept, Land
<1>3. call[c] \in Call
  BY <1>1 DEF BrowserTypeOK
<1>4. x \in Call /\ x # NoCall /\ x.at = "waiting" /\ x.tab = tab
  BY <1>3 DEF Call, NoCall
<1>5. f \in Flight /\ f # NoFlight /\ f.at = "out" /\ f.cookie = cookie
  BY DEF Flight, NoFlight, BrowserTypeOK
<1> HIDE DEF x, f
<1>6. /\ call'[c] = x
      /\ \A d \in Calls : d # c => call'[d] = call[d]
      /\ call' \in [Calls -> {NoCall} \union Call]
      /\ \A d \in Calls : call[d] # NoCall => call'[d] # NoCall /\ call'[d].tab = call[d].tab
  BY <1>1, <1>4, Called
<1>7. fly[c] = NoFlight /\ fly[c].at = "none"
  BY <1>1 DEF Waits, NoFlight
<1>8. BrowserTypeOK'
  <2>1. fly' \in [Calls -> {NoFlight, Failed} \union Flight \union Reply]
    BY <1>2, <1>5, Landed DEF BrowserTypeOK
  <2> QED BY <1>1, <1>6, <2>1 DEF BrowserTypeOK, TypeOK
<1>9. CASE SendsRefresh(c)
  <2>1. fly'[c] = f /\ \A d \in Calls : d # c => fly'[d] = fly[d]
    BY <1>2, <1>9, Landed
  <2>2. \A d \in Calls : d # c /\ fly[d] # NoFlight => call[d] # NoCall /\ call[d].tab # tab
    BY <1>9 DEF SendsRefresh, Flying, In, Waits
  <2>3. Waits'
    <3>1. \A d \in Calls : fly[d] # NoFlight => fly'[d] # NoFlight
      BY <1>7, <2>1
    <3>2. NobodyWaitsInVain'
      BY <1>4, <1>5, <1>6, <2>1, <3>1 DEF Waits, NobodyWaitsInVain, Flying, In
    <3> QED BY <1>4, <1>6, <2>1, <2>2, <3>2 DEF Waits
  <2>4. Serves'
    BY <1>1, <1>7, <2>1 DEF Serves
  <2>5. (Known /\ RepliesFresh /\ Traded)'
    BY <1>1, <1>5, <2>1 DEF Known, RepliesFresh, Traded, InFlight, Coming, Children
  <2>6. Ahead'
    BY <1>1, <1>6, <1>7, <2>1 DEF Ahead, Coming, Children
  <2>7. Own'
    <3>1. cookie # NoToken => \A n \in Children(cookie) : n \in lost \/ dealt[n] # tab
      <4>1. \A d \in Calls : Coming(d) => call[d].tab # tab
        BY <1>7, <2>2 DEF Coming, NoFlight
      <4> QED BY <4>1 DEF Ahead
    <3> QED BY <1>1, <1>4, <1>5, <1>6, <2>1, <3>1 DEF Own, InFlight, Children
  <2>8. NoTabLogsItselfOut'
    BY <1>1, <1>5, <1>6, <2>1 DEF NoTabLogsItselfOut, Children
  <2> QED BY <1>8, <2>3, <2>4, <2>5, <2>6, <2>7, <2>8
<1>10. CASE ~SendsRefresh(c)
  <2>1. fly' = fly
    BY <1>2, <1>10
  <2>2. Waits'
    <3>1. PICK d \in Calls : call[d] # NoCall /\ call[d].tab = tab /\ fly[d] # NoFlight
      BY <1>10 DEF SendsRefresh, Flying, In
    <3>2. NobodyWaitsInVain'
      BY <1>4, <1>6, <2>1, <3>1 DEF Waits, NobodyWaitsInVain, Flying, In
    <3> QED BY <1>6, <1>7, <2>1, <3>2 DEF Waits
  <2>3. (Serves /\ Known /\ RepliesFresh /\ Traded)'
    BY <1>1, <2>1 DEF Serves, Known, RepliesFresh, Traded, InFlight, Coming, Children
  <2>4. (Ahead /\ Own /\ NoTabLogsItselfOut)'
    BY <1>1, <1>6, <1>7, <2>1 DEF Ahead, Own, NoTabLogsItselfOut, InFlight, Coming, Children
  <2> QED BY <1>8, <2>2, <2>3, <2>4
<1> QED BY <1>9, <1>10

\* A refresh comes to an end without a new cookie.
LEMMA EndKeeps ==
  ASSUME BInv, NEW c \in Calls, NEW f, Land(c, f), fly[c] # NoFlight,
         \/ f = Failed
         \/ /\ f.at = "revoked" /\ f \in Flight /\ f.cookie # NoToken
            /\ \E n \in Children(f.cookie) : n \in lost \/ dealt[n] # call[c].tab,
         \/ ~Coming(c) /\ lost' = lost
         \/ Coming(c) /\ lost' = lost \union {fly[c].new},
         req[c] = Idle \/ req' = [req EXCEPT ![c] = Idle],
         req' = req \/ req' = [req EXCEPT ![c] = Idle],
         UNCHANGED <<placed, token, cookie, call, dealt>>
  PROVE  BInv'
<1> USE DEF BInv
<1>1. f # NoFlight /\ f.at \in {"failed", "revoked"}
  BY DEF Failed, NoFlight, Flight
<1>2. /\ fly'[c] = f
      /\ \A d \in Calls : d # c => fly'[d] = fly[d]
      /\ fly' \in [Calls -> {NoFlight, Failed} \union Flight \union Reply]
  BY Landed
<1>3. BrowserTypeOK'
  <2>1. lost' \subseteq DOMAIN token
    BY DEF BrowserTypeOK, RepliesFresh
  <2>2. req' \in [Requests -> Request]
    BY DEF BrowserTypeOK, TypeOK, Request
  <2> QED BY <1>2, <2>1, <2>2 DEF BrowserTypeOK, TypeOK
<1>4. \A d \in Calls : d # c => InFlight(d)' = InFlight(d) /\ Coming(d)' = Coming(d)
  BY <1>2 DEF InFlight, Coming
<1>5. ~InFlight(c)' /\ ~Coming(c)'
  BY <1>1, <1>2 DEF InFlight, Coming
<1>6. Waits'
  <2>1. \A d \in Calls : fly[d] # NoFlight <=> fly'[d] # NoFlight
    BY <1>1, <1>2
  <2> QED BY <2>1 DEF Waits, NobodyWaitsInVain, Flying, In
<1>7. Serves'
  BY <1>2 DEF Serves, BrowserTypeOK, TypeOK, Calls
<1>8. (Known /\ RepliesFresh /\ Traded)'
  BY <1>1, <1>2, <1>4, <1>5 DEF Known, RepliesFresh, Traded, Children, Failed
<1>9. Ahead'
  BY <1>2, <1>4, <1>5 DEF Ahead, Children
<1>10. Own'
  BY <1>2, <1>4, <1>5 DEF Own, Children
<1>11. NoTabLogsItselfOut'
  BY <1>1, <1>2 DEF NoTabLogsItselfOut, Children, Failed
<1> QED BY <1>3, <1>6, <1>7, <1>8, <1>9, <1>10, <1>11

LEMMA RefuseKeeps ==
  ASSUME BInv, NEW c \in Calls, Refuse(c)
  PROVE  BInv'
<1> DEFINE t == fly[c].cookie
           f == [at |-> "revoked", cookie |-> t]
<1> USE DEF BInv
<1>1. /\ fly[c].at = "out" /\ ~Live(t)
      /\ t = NoToken => Land(c, Failed)
      /\ t # NoToken => Land(c, f)
      /\ UNCHANGED <<placed, token, req, cookie, call, lost, dealt>>
  BY DEF Refuse, vars
<1>2. fly[c] # NoFlight /\ InFlight(c) /\ ~Coming(c) /\ req[c] = Idle
  BY <1>1 DEF NoFlight, InFlight, Coming, Serves
<1>3. CASE t = NoToken
  <2> HIDE DEF t
  <2> QED BY <1>1, <1>2, <1>3, EndKeeps
<1>4. CASE t # NoToken
  <2>1. t \in DOMAIN token /\ token[t].revoked
    BY <1>1, <1>2, <1>4 DEF Known, Traded, Live, Unrevoked
  <2>2. \E n \in Children(t) : n \in lost \/ dealt[n] # call[c].tab
    BY <1>2, <1>4, <2>1 DEF Traded, Own, Children
  <2>3. f \in Flight /\ f.at = "revoked" /\ f.cookie = t
    BY <2>1 DEF Flight, BrowserTypeOK, TypeOK
  <2> HIDE DEF f, t
  <2> QED BY <1>1, <1>2, <1>4, <2>2, <2>3, EndKeeps
<1> QED BY <1>3, <1>4

LEMMA LoseKeeps ==
  ASSUME BInv, NEW c \in Calls, LoseRequest(c) \/ LoseReply(c) \/ Break(c)
  PROVE  BInv'
<1>1. CASE LoseRequest(c)
  <2>1. fly[c] # NoFlight /\ ~Coming(c) /\ req[c] = Idle
    BY <1>1 DEF LoseRequest, NoFlight, Coming, BInv, Serves
  <2> QED BY <1>1, <2>1, EndKeeps DEF LoseRequest, vars
<1>2. CASE LoseReply(c)
  <2>1. fly[c] # NoFlight /\ Coming(c) /\ req[c] = Idle
    BY <1>2 DEF LoseReply, NoFlight, Coming, BInv, Serves
  <2> QED BY <1>2, <2>1, EndKeeps DEF LoseReply, vars
<1>3. CASE Break(c)
  <2>1. /\ req[c] # Idle /\ req' = [req EXCEPT ![c] = Idle]
        /\ Land(c, Failed) /\ UNCHANGED <<placed, token, cookie, call, lost, dealt>>
    BY <1>3 DEF Break, Fail, Commit
  <2>2. fly[c] # NoFlight /\ ~Coming(c)
    BY <2>1 DEF NoFlight, Coming, BInv, Serves
  <2> QED BY <2>1, <2>2, EndKeeps
<1> QED BY <1>1, <1>2, <1>3

----------------------------------------------------------------------------
\* The server takes a refresh up, or goes on with it.
LEMMA ServeKeeps ==
  ASSUME BInv, NEW c \in Calls, Serve(c)
  PROVE  BInv'
<1> USE DEF BInv
<1> DEFINE f == [fly[c] EXCEPT !.at = "served"]
<1>1. PICK t \in DOMAIN token :
        /\ req' = [req EXCEPT ![c] = [at |-> "refresh.member", token |-> t]]
        /\ fly[c].at = "out" /\ req'[c].token = fly[c].cookie
        /\ fly' = [fly EXCEPT ![c] = f]
        /\ UNCHANGED <<placed, token, cookie, call, lost, dealt>>
  BY DEF Serve, StartRefresh, Begin
<1>2. fly[c] \in Flight
  BY <1>1 DEF BrowserTypeOK, NoFlight, Failed, Reply
<1>3. f \in Flight /\ f # NoFlight /\ f.at = "served" /\ f.cookie = fly[c].cookie
  BY <1>2 DEF Flight, NoFlight
<1>4. Land(c, f)
  BY <1>1 DEF Land
<1> HIDE DEF f
<1>5. /\ fly'[c] = f
      /\ \A d \in Calls : d # c => fly'[d] = fly[d]
      /\ fly' \in [Calls -> {NoFlight, Failed} \union Flight \union Reply]
  BY <1>3, <1>4, Landed
<1>6. req' = [req EXCEPT ![c] = [at |-> "refresh.member", token |-> t]]
  BY <1>1
<1>7. /\ req'[c] = [at |-> "refresh.member", token |-> t]
      /\ \A d \in Calls : d # c => req'[d] = req[d]
      /\ req' \in [Requests -> Request]
  BY <1>6 DEF BrowserTypeOK, TypeOK, Calls, Request, TokenRequest
<1>8. BrowserTypeOK'
  BY <1>1, <1>5, <1>7 DEF BrowserTypeOK, TypeOK
<1>9. fly[c] # NoFlight /\ InFlight(c) /\ InFlight(c)' /\ ~Coming(c) /\ ~Coming(c)'
  BY <1>1, <1>3, <1>5 DEF NoFlight, InFlight, Coming
<1>10. \A d \in Calls : InFlight(d)' = InFlight(d) /\ Coming(d)' = Coming(d)
  BY <1>5, <1>9 DEF InFlight, Coming
<1>11. Waits'
  <2>1. \A d \in Calls : fly[d] # NoFlight <=> fly'[d] # NoFlight
    BY <1>3, <1>5, <1>9
  <2> QED BY <1>1, <2>1 DEF Waits, NobodyWaitsInVain, Flying, In
<1>12. Serves'
  BY <1>1, <1>3, <1>5, <1>7 DEF Serves
<1>13. (Known /\ RepliesFresh /\ Traded)'
  BY <1>1, <1>3, <1>5, <1>9, <1>10 DEF Known, RepliesFresh, Traded, Children
<1>14. (Ahead /\ Own)'
  BY <1>1, <1>3, <1>5, <1>9, <1>10 DEF Ahead, Own, Children
<1>15. NoTabLogsItselfOut'
  BY <1>1, <1>3, <1>5 DEF NoTabLogsItselfOut, Children
<1> QED BY <1>8, <1>11, <1>12, <1>13, <1>14, <1>15

LEMMA CheckKeeps ==
  ASSUME BInv, NEW c \in Calls, Check(c)
  PROVE  BInv'
<1> USE DEF BInv
<1> DEFINE q == [req[c] EXCEPT !.at = "refresh.commit"]
<1>1. /\ req[c].at = "refresh.member" /\ req' = [req EXCEPT ![c] = q]
      /\ UNCHANGED <<placed, token, cookie, call, fly, lost, dealt>>
  BY DEF Check, RefreshMember, browserVars
<1>2. req[c] \in TokenRequest
  BY <1>1 DEF BrowserTypeOK, TypeOK, Calls, Request, Idle, LoginRequest
<1>3. q \in TokenRequest /\ q.at = "refresh.commit" /\ q.token = req[c].token
  BY <1>2 DEF TokenRequest
<1>4. req[c] # Idle
  BY <1>1 DEF Idle
<1> HIDE DEF q
<1>5. /\ req'[c] = q
      /\ \A d \in Calls : d # c => req'[d] = req[d]
      /\ req' \in [Requests -> Request]
  BY <1>1, <1>3 DEF BrowserTypeOK, TypeOK, Calls, Request
<1>6. BrowserTypeOK' /\ Serves'
  BY <1>1, <1>3, <1>4, <1>5 DEF BrowserTypeOK, TypeOK, Serves
<1>7. (Waits /\ Known /\ RepliesFresh /\ Traded)'
  BY <1>1 DEF Waits, NobodyWaitsInVain, Flying, In, Known, RepliesFresh, Traded, InFlight, Coming,
      Children
<1>8. (Ahead /\ Own /\ NoTabLogsItselfOut)'
  BY <1>1 DEF Ahead, Own, NoTabLogsItselfOut, InFlight, Coming, Children
<1> QED BY <1>6, <1>7, <1>8

----------------------------------------------------------------------------
\* The reply to c arrives: its tab's calls are sent again.
LEMMA ArriveKeeps ==
  ASSUME BInv, Linked, NEW c \in Calls, Arrive(c)
  PROVE  BInv'
<1> DEFINE new == fly[c].new
           tab == call[c].tab
<1> USE DEF BInv
<1>1. /\ fly[c].at = "reply" /\ cookie' = new /\ Land(c, NoFlight)
      /\ UNCHANGED <<placed, token, req, lost, dealt>>
  BY DEF Arrive, vars
<1>2. \A d \in Calls : d \notin Waiting(tab) => call'[d] = call[d]
  BY DEF Arrive
<1>3. \A d \in Waiting(tab) : call'[d] = [call[d] EXCEPT !.at = "sent"]
  BY DEF Arrive, Waiting, In
<1>4. \A d \in Waiting(tab) : call[d] \in Call
  BY DEF Waiting, In, BrowserTypeOK
<1>5. \A d \in Waiting(tab) : call'[d] \in Call /\ call'[d].at = "sent" /\ call'[d].tab = call[d].tab
  BY <1>3, <1>4 DEF Call
<1>6. /\ fly'[c] = NoFlight
      /\ \A d \in Calls : d # c => fly'[d] = fly[d]
      /\ fly' \in [Calls -> {NoFlight, Failed} \union Flight \union Reply]
  BY <1>1, Landed
<1>7. fly[c] # NoFlight /\ Coming(c) /\ ~InFlight(c) /\ ~InFlight(c)' /\ ~Coming(c)'
      /\ NoFlight.at = "none"
  BY <1>1, <1>6 DEF NoFlight, InFlight, Coming
<1>8. new \in DOMAIN token /\ ~token[new].revoked
  BY <1>7 DEF RepliesFresh
<1>9. Children(new) = {}
  BY <1>8, LiveChildless DEF BrowserTypeOK
<1>10. BrowserTypeOK'
  <2>1. call' \in [Calls -> {NoCall} \union Call]
    <3>1. DOMAIN call' = Calls
      BY DEF Arrive
    <3>2. \A d \in Calls : call'[d] \in {NoCall} \union Call
      BY <1>2, <1>5 DEF BrowserTypeOK
    <3>3. call' = [d \in Calls |-> call'[d]]
      BY <3>1 DEF Arrive
    <3> QED BY <3>2, <3>3
  <2> QED BY <1>1, <1>6, <1>8, <2>1 DEF BrowserTypeOK, TypeOK
<1>11. \A d \in Calls : d # c /\ fly[d] # NoFlight => d \notin Waiting(tab) /\ call[d].tab # tab
  BY <1>7 DEF Waits, Waiting, In
<1>12. Waits'
  <2>1. \A d \in Calls : fly'[d] # NoFlight => /\ d # c /\ fly'[d] = fly[d] /\ call'[d] = call[d]
                                              /\ call[d].tab # tab
    BY <1>2, <1>6, <1>11
  <2>2. \A d \in Calls : call'[d] # NoCall /\ call'[d].at = "waiting" =>
          call'[d] = call[d] /\ call[d].tab # tab
    BY <1>2, <1>5 DEF Waiting, In
  <2>3. NobodyWaitsInVain'
    <3> SUFFICES ASSUME NEW d \in Calls, call'[d] # NoCall, call'[d].at = "waiting"
                 PROVE  \E e \in Calls : /\ call'[e] # NoCall /\ call'[e].tab = call'[d].tab
                                         /\ fly'[e] # NoFlight
      BY DEF NobodyWaitsInVain, Flying, In
    <3>1. PICK e \in Calls : call[e] # NoCall /\ call[e].tab = call[d].tab /\ fly[e] # NoFlight
      BY <2>2 DEF Waits, NobodyWaitsInVain, Flying, In
    <3>2. e # c /\ fly'[e] = fly[e] /\ call'[e] = call[e]
      BY <1>2, <1>6, <1>11, <2>2, <3>1
    <3> QED BY <2>2, <3>1, <3>2
  <2> QED BY <2>1, <2>3 DEF Waits
<1>13. Serves'
  BY <1>1, <1>6 DEF Serves
<1>14. (Known /\ RepliesFresh /\ Traded)'
  <2>1. \A d \in Calls : d # c => InFlight(d)' = InFlight(d) /\ Coming(d)' = Coming(d)
    BY <1>6 DEF InFlight, Coming
  <2>2. \A d \in Calls : Coming(d) /\ d # c => fly[d].new # new
    BY <1>7 DEF RepliesFresh
  <2>3. Known' /\ Traded'
    BY <1>1, <1>6, <1>7, <1>8, <2>1 DEF Known, Traded, Children
  <2>4. RepliesFresh'
    BY <1>1, <1>6, <1>7, <2>1, <2>2 DEF RepliesFresh
  <2> QED BY <2>3, <2>4
<1>15. Ahead'
  BY <1>1, <1>9 DEF Ahead, Children
<1>16. (Own /\ NoTabLogsItselfOut)'
  BY <1>1, <1>2, <1>6, <1>7, <1>11 DEF Own, NoTabLogsItselfOut, InFlight, Children, NoFlight
<1> QED BY <1>10, <1>12, <1>13, <1>14, <1>15, <1>16

\* A tab leaves for the login page, and its calls and its refresh are gone.
LEMMA BounceKeeps ==
  ASSUME BInv, NEW c \in Calls, Bounce(c)
  PROVE  BInv'
<1> DEFINE gone == In(call[c].tab)
<1> USE DEF BInv
<1>1. /\ fly[c].at \in {"revoked", "failed"}
      /\ call' = [d \in Calls |-> IF d \in gone THEN NoCall ELSE call[d]]
      /\ fly' = [d \in Calls |-> IF d \in gone THEN NoFlight ELSE fly[d]]
      /\ UNCHANGED <<placed, token, req, cookie, lost, dealt>>
  BY DEF Bounce, vars
<1>2. NoFlight.at = "none" /\ fly[c] # NoFlight
  BY <1>1 DEF NoFlight
<1>3. \A d \in gone : d \in Calls /\ call'[d] = NoCall /\ fly'[d] = NoFlight /\ (fly[d] # NoFlight => d = c)
  BY <1>1, <1>2 DEF In, Waits
<1>4. \A d \in Calls : d \notin gone => call'[d] = call[d] /\ fly'[d] = fly[d]
  BY <1>1
<1>5. BrowserTypeOK'
  BY <1>1 DEF BrowserTypeOK, TypeOK
<1>6. \A d \in Calls : fly'[d].at # "none" => fly'[d] = fly[d] /\ call'[d] = call[d]
  BY <1>2, <1>3, <1>4
<1>7. \A d \in Calls : fly[d].at \in {"out", "served", "reply"} => d \notin gone
  BY <1>1, <1>2, <1>3
<1>8. Waits'
  <2>1. \A d \in Calls : fly'[d] # NoFlight => fly'[d] = fly[d] /\ call'[d] = call[d]
    BY <1>3, <1>4
  <2>2. NobodyWaitsInVain'
    <3> SUFFICES ASSUME NEW d \in Calls, call'[d] # NoCall, call'[d].at = "waiting"
                 PROVE  \E e \in Calls : /\ call'[e] # NoCall /\ call'[e].tab = call'[d].tab
                                         /\ fly'[e] # NoFlight
      BY DEF NobodyWaitsInVain, Flying, In
    <3>1. d \notin gone /\ call'[d] = call[d] /\ call[d].tab # call[c].tab
      BY <1>3, <1>4 DEF In
    <3>2. PICK e \in Calls : call[e] # NoCall /\ call[e].tab = call[d].tab /\ fly[e] # NoFlight
      BY <3>1 DEF Waits, NobodyWaitsInVain, Flying, In
    <3>3. e \notin gone
      BY <3>1, <3>2 DEF In
    <3> QED BY <1>4, <3>1, <3>2, <3>3
  <2> QED BY <2>1, <2>2 DEF Waits
<1>9. \A d \in Calls : InFlight(d)' => InFlight(d) /\ fly'[d] = fly[d] /\ call'[d] = call[d]
  BY <1>6 DEF InFlight
<1>10. \A d \in Calls : Coming(d)' <=> Coming(d)
  BY <1>3, <1>4, <1>6, <1>7 DEF Coming
<1>11. \A d \in Calls : Coming(d) => fly'[d] = fly[d] /\ call'[d] = call[d]
  BY <1>4, <1>7 DEF Coming
<1>12. Serves'
  BY <1>1, <1>4, <1>7 DEF Serves
<1>13. (Known /\ RepliesFresh /\ Traded)'
  <2>1. \A d \in Calls : fly'[d].at = "revoked" => fly'[d] = fly[d]
    BY <1>6
  <2>2. Known' /\ Traded'
    BY <1>1, <1>9, <2>1 DEF Known, Traded, Children
  <2>3. RepliesFresh'
    BY <1>1, <1>9, <1>10, <1>11 DEF RepliesFresh
  <2> QED BY <2>2, <2>3
<1>14. Ahead'
  BY <1>1, <1>10, <1>11 DEF Ahead, Children
<1>15. Own'
  BY <1>1, <1>9 DEF Own, Children
<1>16. NoTabLogsItselfOut'
  BY <1>1, <1>6 DEF NoTabLogsItselfOut, Children
<1> QED BY <1>5, <1>8, <1>12, <1>13, <1>14, <1>15, <1>16

----------------------------------------------------------------------------
\* The steps that insert a row.
Kids(rows, t) == {n \in DOMAIN rows : rows[n].parent = t}

LEMMA TradeKeeps ==
  ASSUME BInv, Linked, TypeOK', NEW c \in Calls, Trade(c)
  PROVE  BInv'
<1> DEFINE t == req[c].token
           tab == call[c].tab
<1> USE DEF BInv
<1>1. PICK n \in Fresh : /\ req[c].at = "refresh.commit"
                         /\ token' = Insert(Revoke(token, t), n, token[t].user, t)
                         /\ req' = [req EXCEPT ![c] = Idle] /\ placed' = placed
  BY DEF Trade, RefreshCommit, Commit
<1>2. req[c] # Idle /\ fly[c].at = "served" /\ t = fly[c].cookie /\ t \in DOMAIN token
  BY <1>1 DEF Idle, Serves
<1>3. /\ n \in Tokens /\ n \notin DOMAIN token
      /\ DOMAIN token' = DOMAIN token \union {n} /\ n # t /\ t \in Tokens /\ t # NoToken
      /\ token'[n].parent = t /\ token'[n].revoked = FALSE /\ token'[n].expired = FALSE
      /\ \A x \in DOMAIN token :
           /\ token'[x].parent = token[x].parent /\ token'[x].expired = token[x].expired
           /\ x # t => token'[x].revoked = token[x].revoked
  <2>1. n \in Tokens /\ n \notin DOMAIN token /\ n # t /\ t \in Tokens /\ t # NoToken
    BY <1>1, <1>2, NoTokenAssumption DEF Fresh, BrowserTypeOK, TypeOK
  <2>2. /\ DOMAIN token' = DOMAIN token \union {n}
        /\ token'[n] = NewRow(token[t].user, t)
        /\ \A x \in DOMAIN token \ {t} : token'[x] = token[x]
        /\ token'[t] = [token[t] EXCEPT !.revoked = TRUE]
        /\ token[t] \in Row
    BY <1>1, <1>2, <2>1 DEF Insert, Revoke, BrowserTypeOK, TypeOK
  <2>3. token'[t].parent = token[t].parent /\ token'[t].expired = token[t].expired
    BY <2>2 DEF Row
  <2>4. token'[n].parent = t /\ token'[n].revoked = FALSE /\ token'[n].expired = FALSE
    BY <2>2 DEF NewRow
  <2> QED BY <2>1, <2>2, <2>3, <2>4
<1> HIDE DEF t
<1>4. \A x : Kids(token', x) = IF x = t THEN Children(x) \union {n} ELSE Children(x)
  BY <1>3 DEF Children, Kids
<1> DEFINE f == [at |-> "reply", new |-> n]
<1>5. Land(c, f) /\ Deal(n, tab) /\ UNCHANGED <<cookie, call, lost>>
  BY <1>3 DEF Trade
<1>6. f \in Reply /\ f # NoFlight /\ f.at = "reply" /\ f.new = n
  BY <1>3 DEF Reply, NoFlight
<1> HIDE DEF f
<1>7. /\ fly'[c] = f
      /\ \A d \in Calls : d # c => fly'[d] = fly[d]
      /\ fly' \in [Calls -> {NoFlight, Failed} \union Flight \union Reply]
  BY <1>5, <1>6, Landed
<1>8. /\ fly[c] # NoFlight /\ InFlight(c) /\ ~InFlight(c)' /\ Coming(c)' /\ ~Coming(c)
      /\ \A d \in Calls : d # c => InFlight(d)' = InFlight(d) /\ Coming(d)' = Coming(d)
  BY <1>2, <1>6, <1>7 DEF NoFlight, InFlight, Coming
<1>9. call[c] \in Call /\ tab \in Tabs
  BY <1>8 DEF Waits, BrowserTypeOK, Call
<1>10. /\ DOMAIN dealt' = DOMAIN dealt \union {n} /\ dealt'[n] = tab
       /\ \A x \in DOMAIN token : x \in DOMAIN dealt => dealt'[x] = dealt[x]
  BY <1>3, <1>5 DEF Deal
<1>11. BrowserTypeOK'
  <2>1. \A x \in DOMAIN dealt' : dealt'[x] \in Tabs
    BY <1>3, <1>9, <1>10 DEF BrowserTypeOK
  <2> QED BY <1>3, <1>5, <1>7, <1>10, <2>1 DEF BrowserTypeOK
<1>12. Waits'
  <2>1. \A d \in Calls : fly[d] # NoFlight <=> fly'[d] # NoFlight
    BY <1>6, <1>7, <1>8
  <2> QED BY <1>5, <2>1 DEF Waits, NobodyWaitsInVain, Flying, In
<1>13. Serves'
  BY <1>1, <1>3, <1>7 DEF Serves, BrowserTypeOK, TypeOK, Calls
<1>14. Known' /\ Traded'
  <2>1. Known'
    BY <1>3, <1>5, <1>6, <1>7, <1>8 DEF Known
  <2>2. \A x \in DOMAIN token' : /\ ~token'[x].expired
                                 /\ token'[x].revoked => \E k \in DOMAIN token' : token'[k].parent = x
                                 /\ token'[x].parent # NoToken => x \in DOMAIN dealt'
    BY <1>3, <1>4, <1>10 DEF Traded
  <2> QED BY <2>1, <2>2 DEF Traded
<1>15. RepliesFresh'
  <2>1. ASSUME NEW d \in Calls, d # c, Coming(d)
        PROVE  /\ fly[d].new \in DOMAIN token' /\ ~token'[fly[d].new].revoked /\ fly[d].new # cookie
               /\ fly[d].new # n
    BY <1>2, <1>3, <1>8, <2>1 DEF RepliesFresh
  <2>2. /\ n \in DOMAIN token' /\ ~token'[n].revoked /\ n # cookie
        /\ \A d \in Calls : InFlight(d) => fly[d].cookie # n
    BY <1>3, NoTokenAssumption DEF Known
  <2> QED BY <1>5, <1>6, <1>7, <1>8, <2>1, <2>2 DEF RepliesFresh
<1>16. \A x, m : x # NoToken /\ m \in Children(x) => m # n /\ dealt'[m] = dealt[m]
  BY <1>3, <1>10 DEF Children, Traded
<1>17. Ahead'
  <2> SUFFICES ASSUME cookie # NoToken, NEW m \in Kids(token', cookie)
               PROVE  m \in lost \/ \E d \in Calls : Coming(d)' /\ fly'[d].new = m /\ call[d].tab = dealt'[m]
    BY <1>5 DEF Ahead, Children, Kids
  <2>1. CASE m = n
    BY <1>6, <1>7, <1>8, <1>10, <2>1
  <2>2. CASE m # n
    <3>1. m \in Children(cookie) /\ dealt'[m] = dealt[m]
      BY <1>4, <1>16, <2>2
    <3>2. m \in lost \/ \E d \in Calls : Coming(d) /\ fly[d].new = m /\ call[d].tab = dealt[m]
      BY <3>1 DEF Ahead
    <3> QED BY <1>7, <1>8, <3>1, <3>2
  <2> QED BY <2>1, <2>2
<1>18. Own'
  <2> SUFFICES ASSUME NEW d \in Calls, InFlight(d)', fly'[d].cookie # NoToken,
                      NEW m \in Kids(token', fly'[d].cookie)
               PROVE  m \in lost \/ dealt'[m] # call[d].tab
    BY <1>5 DEF Own, Children, Kids
  <2>1. d # c /\ fly'[d] = fly[d] /\ InFlight(d)
    BY <1>7, <1>8
  <2>2. CASE m = n
    <3>1. call[d].tab # tab
      BY <1>8, <2>1 DEF Waits, InFlight, NoFlight
    <3> QED BY <1>10, <2>2, <3>1
  <2>3. CASE m # n
    <3>1. m \in Children(fly[d].cookie) /\ fly[d].cookie # NoToken
      BY <1>4, <2>1, <2>3
    <3> QED BY <1>16, <2>1, <3>1 DEF Own
  <2> QED BY <2>2, <2>3
<1>19. NoTabLogsItselfOut'
  <2> SUFFICES ASSUME NEW d \in Calls, fly'[d].at = "revoked"
               PROVE  \E m \in Kids(token', fly'[d].cookie) : m \in lost \/ dealt'[m] # call[d].tab
    BY <1>5 DEF NoTabLogsItselfOut, Children, Kids
  <2>1. fly'[d] = fly[d]
    BY <1>6, <1>7
  <2>2. PICK m \in Children(fly[d].cookie) : m \in lost \/ dealt[m] # call[d].tab
    BY <2>1 DEF NoTabLogsItselfOut
  <2>3. fly[d].cookie # NoToken
    BY <2>1 DEF Known
  <2>4. m \in Kids(token', fly'[d].cookie) /\ dealt'[m] = dealt[m]
    BY <1>4, <1>16, <2>1, <2>2, <2>3
  <2> QED BY <2>2, <2>4
<1> QED BY <1>11, <1>12, <1>13, <1>14, <1>15, <1>17, <1>18, <1>19

LEMMA SignInKeeps ==
  ASSUME BInv, Linked, TypeOK', SignIn
  PROVE  BInv'
<1> USE DEF BInv
<1>1. PICK u \in Users, n \in Fresh :
        /\ token' = Insert(token, n, u, NoToken)
        /\ cookie' \in DOMAIN token' \ DOMAIN token
        /\ UNCHANGED <<req, call, fly, lost, dealt>>
  BY DEF SignIn, Joined
<1>2. /\ n \in Tokens /\ n \notin DOMAIN token /\ DOMAIN token' = DOMAIN token \union {n}
      /\ token'[n].parent = NoToken /\ token'[n].revoked = FALSE /\ token'[n].expired = FALSE
      /\ \A x \in DOMAIN token : token'[x] = token[x]
      /\ cookie' = n /\ n # NoToken
  BY <1>1, NoTokenAssumption DEF Fresh, Insert, NewRow
<1>3. \A x : x # NoToken => Kids(token', x) = Children(x)
  BY <1>2 DEF Children, Kids
<1>4. Kids(token', n) = {}
  BY <1>2, <1>3, NoTokenAssumption DEF Linked, Children
<1>5. BrowserTypeOK' /\ Waits'
  BY <1>1, <1>2 DEF BrowserTypeOK, Waits, NobodyWaitsInVain, Flying, In
<1>6. Serves' /\ Known' /\ RepliesFresh'
  BY <1>1, <1>2 DEF Serves, Known, RepliesFresh, InFlight, Coming
<1>7. Traded'
  <2>1. \A x \in DOMAIN token' : /\ ~token'[x].expired
                                 /\ token'[x].revoked => \E k \in DOMAIN token' : token'[k].parent = x
                                 /\ token'[x].parent # NoToken => x \in DOMAIN dealt'
    BY <1>1, <1>2, <1>3 DEF Traded, BrowserTypeOK, TypeOK
  <2> QED BY <2>1 DEF Traded
<1>8. Ahead'
  <2>1. Kids(token', cookie') = {}
    BY <1>2, <1>4
  <2> QED BY <2>1 DEF Ahead, Children, Kids
<1>9. Own'
  <2> SUFFICES ASSUME NEW d \in Calls, InFlight(d), fly[d].cookie # NoToken,
                      NEW m \in Kids(token', fly[d].cookie)
               PROVE  m \in lost \/ dealt[m] # call[d].tab
    BY <1>1 DEF Own, Children, Kids, InFlight
  <2> QED BY <1>3 DEF Own
<1>10. NoTabLogsItselfOut'
  <2> SUFFICES ASSUME NEW d \in Calls, fly[d].at = "revoked"
               PROVE  \E m \in Kids(token', fly[d].cookie) : m \in lost \/ dealt[m] # call[d].tab
    BY <1>1 DEF NoTabLogsItselfOut, Children, Kids
  <2> QED BY <1>3 DEF NoTabLogsItselfOut, Known
<1> QED BY <1>5, <1>6, <1>7, <1>8, <1>9, <1>10

----------------------------------------------------------------------------
LEMMA BrowserInitHolds == BrowserInit => BInv
<1> SUFFICES ASSUME BrowserInit
             PROVE  BInv
  OBVIOUS
<1>1. /\ placed = {} /\ DOMAIN token = {} /\ cookie = NoToken /\ lost = {} /\ DOMAIN dealt = {}
      /\ req = [r \in Requests |-> Idle]
      /\ call = [c \in Calls |-> NoCall] /\ fly = [c \in Calls |-> NoFlight]
  BY DEF BrowserInit, Init
<1>2. NoFlight.at = "none" /\ NoCall.at = "idle"
  BY DEF NoFlight, NoCall
<1>3. BrowserTypeOK
  BY <1>1 DEF BrowserInit, Init, BrowserTypeOK, TypeOK, Request
<1>4. \A c \in Calls : fly[c] = NoFlight /\ call[c] = NoCall /\ req[c] = Idle
  BY <1>1 DEF Calls
<1>5. Waits /\ Serves /\ Known /\ RepliesFresh
  BY <1>1, <1>2, <1>4 DEF Waits, NobodyWaitsInVain, Serves, Known, RepliesFresh, InFlight, Coming
<1>6. Traded /\ Ahead /\ Own /\ NoTabLogsItselfOut
  BY <1>1, <1>2, <1>4 DEF Traded, Ahead, Own, NoTabLogsItselfOut, InFlight
<1> QED BY <1>3, <1>5, <1>6 DEF BInv

LEMMA BrowserStep == BInv /\ IInv /\ IInv' /\ [BrowserNext]_allVars => BInv'
<1> SUFFICES ASSUME BInv, IInv, IInv', [BrowserNext]_allVars
             PROVE  BInv'
  OBVIOUS
<1>1. Linked /\ TypeOK'
  BY DEF IInv
<1>2. ASSUME NEW c \in Calls, NEW tab \in Tabs, Send(c, tab)
      PROVE  BInv'
  BY <1>2, SendKeeps
<1>3. CASE SignIn
  BY <1>1, <1>3, SignInKeeps
<1>4. ASSUME NEW c \in Calls,
             \/ Answer(c) \/ Intercept(c) \/ Serve(c) \/ Refuse(c) \/ LoseRequest(c)
             \/ Check(c) \/ Break(c) \/ Trade(c) \/ LoseReply(c) \/ Arrive(c) \/ Bounce(c)
      PROVE  BInv'
  BY <1>1, <1>4, AnswerKeeps, InterceptKeeps, ServeKeeps, RefuseKeeps, LoseKeeps, CheckKeeps,
     TradeKeeps, ArriveKeeps, BounceKeeps
<1>5. CASE UNCHANGED allVars
  BY <1>5 DEF allVars, BInv, BrowserTypeOK, TypeOK, Waits, NobodyWaitsInVain, Flying, In, Serves,
     Known, RepliesFresh, Traded, Ahead, Own, NoTabLogsItselfOut, InFlight, Coming, Children
<1> QED BY <1>2, <1>3, <1>4, <1>5 DEF BrowserNext

\* The invariant of the browser and its server (api.ts:21-62, auth.py:80-104).
THEOREM BrowserInvariance == BrowserSpec => []BInv
<1>1. BrowserSpec => BInv
  BY BrowserInitHolds DEF BrowserSpec
<1> QED BY BrowserInitHolds, BrowserStep, BrowserUsesSessions, Invariance, PTL DEF BrowserSpec

\* One flight a tab is enough: a tab is not logged out by its own refresh unless
\* the reply of it was lost; another tab can do it (api.ts:21-23, 36).
THEOREM TabsStayIn == BrowserSpec => []NoTabLogsItselfOut
<1>1. BInv => NoTabLogsItselfOut
  BY DEF BInv
<1> QED BY <1>1, BrowserInvariance, PTL

\* Whoever waits for a refresh has one in its tab that will come to an end
\* (api.ts:44-62).
THEOREM NobodyIsLeftWaiting == BrowserSpec => []NobodyWaitsInVain
<1>1. BInv => NobodyWaitsInVain
  BY DEF BInv, Waits
<1> QED BY <1>1, BrowserInvariance, PTL

\* The cookie is not a spent one, but for a reply on its way or lost: replies to
\* two tabs may come in either order (auth.py:96).
THEOREM CookieStaysFresh == BrowserSpec => []CookieIsUnspent
<1>1. BInv => CookieIsUnspent
  <2> SUFFICES ASSUME BInv, cookie # NoToken, token[cookie].revoked
               PROVE  \E n \in Children(cookie) :
                        n \in lost \/ \E c \in Calls : fly[c].at = "reply" /\ fly[c].new = n
    BY DEF CookieIsUnspent
  <2>1. PICK n : n \in Children(cookie)
    BY DEF BInv, Known, Traded, Children
  <2> QED BY <2>1 DEF BInv, Ahead, Coming
<1> QED BY <1>1, BrowserInvariance, PTL

\* Variables have their shape (api.ts:12-40).
THEOREM BrowserTypeCorrect == BrowserSpec => []BrowserTypeOK
<1>1. BInv => BrowserTypeOK
  BY DEF BInv
<1> QED BY <1>1, BrowserInvariance, PTL

\* What is proved of sessions holds behind the browser: a traded token is dead, has
\* no more successors than requests, and none is spent for nothing (auth_service.py:178-238).
THEOREM SessionsStayTrue == BrowserSpec => [](SuccessorReplaces /\ SuccessorsBounded) /\ NoTokenBurnt
<1>1. Spec => NoTokenBurnt
  BY TokensAreTraded
<1> QED BY <1>1, BrowserUsesSessions, RotationReplaces, SuccessorsAreBounded, PTL
============================================================================
