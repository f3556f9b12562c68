-------------------------- MODULE WebSession_proofs --------------------------
(***************************************************************************)
(* What WebSession's runs check with one or two tabs, for any set of tabs, *)
(* flows and token pairs: an undisturbed client always holds a token the   *)
(* server would exchange, so it is never accused; its completed logout     *)
(* ends the session, as far as the server has served it; and the token of  *)
(* an invitation leaves an address with its acceptance.                    *)
(***************************************************************************)
EXTENDS WebSession, TLAPS

Pcs == {"sent", "ok", "denied", "failed", "renewing", "renewed", "refused",
        "leaving", "left"}
-----------------------------------------------------------------------------
(* The state of a flow.                                                    *)

\* A flow that is not idle has all the fields of a flow, and the other way round.
LEMMA BusyHasState ==
  ASSUME TypeOK, NEW f \in Flows
  PROVE  /\ f \in Busy => /\ flow[f] \in FlowState /\ Tab(f) \in Tabs
                          /\ flow[f].token \in Token
         /\ flow[f].pc # "idle" => f \in Busy
         /\ flow[f] # NoFlow <=> f \in Busy
  BY DEF TypeOK, Busy, FlowState, NoFlow, Tab, At

\* ApiClient.request builds a flow that is about to be sent.
LEMMA RequestFields ==
  ASSUME TypeOK, NEW t \in Tabs,
         NEW op \in {"me", "accept", "organizations", "page", "download", "logout"}
  PROVE  /\ Request(t, op) \in FlowState /\ Request(t, op) # NoFlow
         /\ Request(t, op).pc = "sent" /\ Request(t, op).op = op
         /\ Request(t, op).tab = t /\ Request(t, op).token = mem[t]
  BY DEF TypeOK, Request, FlowState, NoFlow

\* A flow that moves on keeps what it is about.
LEMMA MoveFields ==
  ASSUME NEW x \in FlowState, NEW pc \in Pcs
  PROVE  LET y == [x EXCEPT !.pc = pc]
         IN  /\ y \in FlowState /\ y # NoFlow /\ y.pc = pc
             /\ y.op = x.op /\ y.tab = x.tab /\ y.token = x.token
  BY DEF FlowState, NoFlow, Pcs

\* The same for a flow that takes up another token, or is sent again.
LEMMA TokenFields ==
  ASSUME NEW x \in FlowState, NEW pc \in Pcs, NEW s \in Token
  PROVE  LET y == [x EXCEPT !.pc = pc, !.token = s]
         IN  /\ y \in FlowState /\ y # NoFlow /\ y.pc = pc
             /\ y.op = x.op /\ y.tab = x.tab /\ y.token = s
  BY DEF FlowState, NoFlow, Pcs

\* And for one that is sent again with the token it has.
LEMMA RetryFields ==
  ASSUME NEW x \in FlowState
  PROVE  LET y == [x EXCEPT !.pc = "sent", !.retried = TRUE]
         IN  /\ y \in FlowState /\ y # NoFlow /\ y.pc = "sent"
             /\ y.op = x.op /\ y.tab = x.tab /\ y.token = x.token
  BY DEF FlowState, NoFlow

\* Goto changes one flow.
LEMMA GotoChangesOne ==
  ASSUME TypeOK, NEW f \in Flows, NEW x \in FlowState \cup {NoFlow}, Goto(f, x)
  PROVE  /\ flow' \in [Flows -> FlowState \cup {NoFlow}]
         /\ flow'[f] = x
         /\ \A g \in Flows \ {f} : flow'[g] = flow[g]
         /\ x # NoFlow => Busy' = Busy \cup {f}
         /\ x = NoFlow => Busy' = Busy \ {f}
  BY DEF TypeOK, Goto, Busy

\* The flow f is where pc says, about what it was about; no other has moved.
FlowAt(f, pc) ==
  /\ Busy' = Busy
  /\ \A g \in Flows \ {f} : flow'[g] = flow[g]
  /\ flow'[f].pc = pc /\ flow'[f].op = flow[f].op /\ flow'[f].tab = flow[f].tab

\* The four ways in which a call moves on: it keeps its token ...
LEMMA FlowMoves ==
  ASSUME TypeOK, NEW f \in Busy, NEW pc \in Pcs, Goto(f, [flow[f] EXCEPT !.pc = pc])
  PROVE  FlowAt(f, pc) /\ flow'[f].token = flow[f].token
<1> DEFINE y == [flow[f] EXCEPT !.pc = pc]
<1>1. f \in Flows /\ flow[f] \in FlowState
  BY BusyHasState DEF Busy
<1>2. /\ y \in FlowState /\ y # NoFlow /\ y.pc = pc
      /\ y.op = flow[f].op /\ y.tab = flow[f].tab /\ y.token = flow[f].token
  BY <1>1, MoveFields
<1>3. Goto(f, y)
  OBVIOUS
<1> HIDE DEF y
<1>4. QED
  BY <1>1, <1>2, <1>3, GotoChangesOne DEF FlowAt

\* ... or takes the one that the server has given ...
LEMMA FlowTakesToken ==
  ASSUME TypeOK, NEW f \in Busy, NEW pc \in Pcs, NEW s \in Token,
         Goto(f, [flow[f] EXCEPT !.pc = pc, !.token = s])
  PROVE  FlowAt(f, pc) /\ flow'[f].token = s
<1> DEFINE y == [flow[f] EXCEPT !.pc = pc, !.token = s]
<1>1. f \in Flows /\ flow[f] \in FlowState
  BY BusyHasState DEF Busy
<1>2. /\ y \in FlowState /\ y # NoFlow /\ y.pc = pc
      /\ y.op = flow[f].op /\ y.tab = flow[f].tab /\ y.token = s
  BY <1>1 DEF FlowState, NoFlow, Pcs
<1>3. Goto(f, y)
  OBVIOUS
<1> HIDE DEF y
<1>4. QED
  BY <1>1, <1>2, <1>3, GotoChangesOne DEF FlowAt

\* ... or is sent again ...
LEMMA FlowIsSentAgain ==
  ASSUME TypeOK, NEW f \in Busy, Goto(f, [flow[f] EXCEPT !.pc = "sent", !.retried = TRUE])
  PROVE  FlowAt(f, "sent") /\ flow'[f].token = flow[f].token
<1> DEFINE y == [flow[f] EXCEPT !.pc = "sent", !.retried = TRUE]
<1>1. f \in Flows /\ flow[f] \in FlowState
  BY BusyHasState DEF Busy
<1>2. /\ y \in FlowState /\ y # NoFlow /\ y.pc = "sent"
      /\ y.op = flow[f].op /\ y.tab = flow[f].tab /\ y.token = flow[f].token
  BY <1>1, RetryFields
<1>3. Goto(f, y)
  OBVIOUS
<1> HIDE DEF y
<1>4. QED
  BY <1>1, <1>2, <1>3, GotoChangesOne DEF FlowAt

\* ... or asks for the next thing with the token of its tab.
LEMMA FlowAsks ==
  ASSUME TypeOK, NEW f \in Flows, NEW t \in Tabs,
         NEW op \in {"me", "accept", "organizations", "page", "download", "logout"},
         Goto(f, Request(t, op))
  PROVE  /\ Busy' = Busy \cup {f}
         /\ \A g \in Flows \ {f} : flow'[g] = flow[g]
         /\ flow'[f].pc = "sent" /\ flow'[f].op = op
         /\ flow'[f].tab = t /\ flow'[f].token = mem[t]
<1>1. /\ Request(t, op) \in FlowState /\ Request(t, op) # NoFlow
      /\ Request(t, op).pc = "sent" /\ Request(t, op).op = op
      /\ Request(t, op).tab = t /\ Request(t, op).token = mem[t]
  BY RequestFields
<1>2. QED
  BY <1>1, GotoChangesOne

\* A call that ends is gone, and no other one moves.
LEMMA FlowEnds ==
  ASSUME TypeOK, NEW f \in Busy, Goto(f, NoFlow)
  PROVE  Busy' = Busy \ {f} /\ \A g \in Flows \ {f} : flow'[g] = flow[g]
BY GotoChangesOne DEF Busy
-----------------------------------------------------------------------------
(* The inductive invariant.                                                *)

Issued(s) == s # None => family[s] # None

\* The server's tokens have been issued; a family has one live token.
ServerInv ==
  /\ \A s \in SessionIds : family[s] # None => family[family[s]] # None
  /\ \A s \in live : family[s] # None
  /\ \A x \in signedOut : family[x] # None
  /\ \A s, r \in live : family[s] = family[r] => s = r

\* So have the client's; a renewal or a logout has one.
ClientInv ==
  /\ \A t \in Tabs : Issued(mem[t])
  /\ Issued(storage)
  /\ \A f \in Busy : /\ Issued(flow[f].token)
                     /\ flow[f].pc \in {"renewing", "renewed", "refused", "leaving", "left"}
                          => flow[f].token # None

\* Every token that anybody knows of has been issued.
IssuedInv == ServerInv /\ ClientInv

\* The server has answered, and the client has not yet heard it.
Pending(f) == flow[f].pc \in {"renewed", "refused", "left"}

\* What the one flow of an undisturbed client knows about its token.
FlowInv(f) ==
  /\ screen[Tab(f)] \in {"loading", "open"}
  /\ flow[f].pc \in {"renewing", "leaving", "left"} =>
       flow[f].token = mem[Tab(f)] /\ flow[f].token # None
  /\ flow[f].pc = "renewed" =>
       /\ flow[f].token \in live
       /\ mem[Tab(f)] # None /\ family[mem[Tab(f)]] = family[flow[f].token]
  /\ flow[f].pc = "left" =>
       \A s \in live : family[s] = family[flow[f].token] => family[s] \in unserved
  /\ flow[f].op = "accept" => address[Tab(f)] = "invited"

\* The sessions of an undisturbed client are one per tab; none has been left.
TabsInv ==
  /\ \A t, u \in Tabs :
       mem[t] # None /\ mem[u] # None /\ family[mem[t]] = family[mem[u]] => t = u
  /\ \A t \in Tabs : mem[t] # None => family[mem[t]] \notin signedOut
  /\ storage # None => \E t \in Tabs : mem[t] = storage

\* An undisturbed client runs one flow at a time, and the token of a tab is
\* live, or a flow of that tab is about to replace or to clear it.
TurnInv ==
  /\ \A f, g \in Busy : f = g
  /\ \A f \in Busy : FlowInv(f)
  /\ \A t \in Tabs : mem[t] # None =>
       mem[t] \in live \/ \E f \in Busy : Tab(f) = t /\ Pending(f)
  /\ TabsInv
  /\ ~accused
  /\ \A s \in live : family[s] \in signedOut => family[s] \in unserved

\* The token of the invitation is in one address, unless the link was opened
\* again, until the answer to the call that has accepted it takes it out; the
\* load that goes on to the organizations has none in its address.
InviteInv ==
  /\ \A f \in Busy :
       /\ flow[f].pc = "ok" /\ flow[f].op = "accept" => invitation = "accepted"
       /\ flow[f].op = "organizations" => address[Tab(f)] # "invited"
  /\ \A t \in Tabs : /\ screen[t] = "open" => address[t] # "invited"
                     /\ address[t] = "cleaned" => invitation = "accepted"
  /\ ~reopened =>
       \A t, u \in Tabs : address[t] = "invited" /\ address[u] = "invited" => t = u
  /\ ~disturbed /\ ~reopened /\ invitation = "accepted" =>
       \A t \in Tabs : address[t] = "invited" =>
         \E f \in Busy : Tab(f) = t /\ flow[f].op = "accept" /\ flow[f].pc = "ok"

\* The inductive invariant.
IInv == TypeOK /\ IssuedInv /\ (~disturbed => TurnInv) /\ InviteInv

\* It holds before anybody has signed in.
LEMMA InitIInv == Init => IInv
<1> SUFFICES ASSUME Init PROVE IInv
  OBVIOUS
<1>1. Busy = {}
  BY DEF Init, Busy
<1>2. TypeOK
  BY DEF Init, Server!Init, TypeOK, Token
<1>3. IssuedInv /\ TurnInv /\ InviteInv
  BY <1>1, NoneAssumption DEF Init, Server!Init, IssuedInv, ServerInv, ClientInv, Issued, TurnInv, TabsInv, InviteInv
<1>4. QED
  BY <1>2, <1>3 DEF IInv
-----------------------------------------------------------------------------
(* TypeOK.                                                                 *)

\* A rejected promise ends its flow, and shows something in its tab.
LEMMA FailsKeepsType ==
  ASSUME TypeOK, NEW f \in Busy, Fails(f)
  PROVE  /\ flow' \in [Flows -> FlowState \cup {NoFlow}]
         /\ screen' \in [Tabs -> {"auth", "loading", "error", "open"}]
<1>1. f \in Flows /\ Goto(f, NoFlow)
  BY DEF Busy, Fails
<1>2. flow' \in [Flows -> FlowState \cup {NoFlow}]
  BY <1>1, GotoChangesOne
<1>3. screen' \in [Tabs -> {"auth", "loading", "error", "open"}]
  BY DEF TypeOK, Fails, Show
<1>4. QED
  BY <1>2, <1>3

\* Each action keeps the types.
LEMMA LoginType == ASSUME TypeOK, NEW t \in Tabs, Login(t) PROVE TypeOK'
  BY DEF TypeOK, Login, Server!Open, SaveSession, Show, Unissued, Token, invite, history, outcomes

\* A call that starts is well formed.
LEMMA StartRequestType ==
  ASSUME TypeOK, NEW f \in Flows, NEW t \in Tabs, StartRequest(f, t) PROVE TypeOK'
<1>1. PICK op \in {"me", "page", "download"} : Goto(f, Request(t, op))
  BY DEF StartRequest
<1>2. Request(t, op) \in FlowState
  BY RequestFields
<1>3. flow' \in [Flows -> FlowState \cup {NoFlow}]
  BY <1>1, <1>2, GotoChangesOne
<1>4. disturbed' \in BOOLEAN
  BY DEF StartRequest, TypeOK
<1>5. QED
  BY <1>3, <1>4 DEF TypeOK, StartRequest, server, invite, outcomes

\* The answer of the server to a fetch.
LEMMA ServerAnswersType == ASSUME TypeOK, NEW f \in Flows, ServerAnswers(f) PROVE TypeOK'
<1>1. flow[f] \in FlowState
  BY BusyHasState DEF ServerAnswers, At
<1>2. PICK answer \in {"ok", "denied", "failed"} : Goto(f, [flow[f] EXCEPT !.pc = answer])
  BY DEF ServerAnswers, Answer
<1>3. [flow[f] EXCEPT !.pc = answer] \in FlowState
  BY <1>1, MoveFields DEF Pcs
<1>4. flow' \in [Flows -> FlowState \cup {NoFlow}]
  BY <1>2, <1>3, GotoChangesOne
<1>5. invitation' \in {"sent", "accepted"}
  BY DEF ServerAnswers, TypeOK
<1>6. QED
  BY <1>4, <1>5 DEF TypeOK, ServerAnswers, server, history, outcomes

\* A good answer: the next fetch of a load, or the end of the call.
LEMMA ReceiveOkType == ASSUME TypeOK, NEW f \in Flows, ReceiveOk(f) PROVE TypeOK'
<1>1. Tab(f) \in Tabs
  BY BusyHasState DEF ReceiveOk, At
<1>2. PICK x \in FlowState \cup {NoFlow} : Goto(f, x)
  <2>1. Request(Tab(f), "accept") \in FlowState /\ Request(Tab(f), "organizations") \in FlowState
    BY <1>1, RequestFields
  <2>2. QED
    BY <2>1 DEF ReceiveOk
<1>3. flow' \in [Flows -> FlowState \cup {NoFlow}]
  BY <1>2, GotoChangesOne
<1>4. address' \in [Tabs -> {"plain", "invited", "cleaned"}]
  BY <1>1 DEF ReceiveOk, TypeOK
<1>5. screen' \in [Tabs -> {"auth", "loading", "error", "open"}]
  BY <1>1 DEF ReceiveOk, Show, TypeOK
<1>6. QED
  BY <1>3, <1>4, <1>5 DEF TypeOK, ReceiveOk, server, history, outcomes

\* A 401: a renewal, or the end of the call.
LEMMA ReceiveDeniedType == ASSUME TypeOK, NEW f \in Flows, ReceiveDenied(f) PROVE TypeOK'
<1>1. f \in Busy /\ flow[f] \in FlowState /\ Tab(f) \in Tabs
  BY BusyHasState DEF ReceiveDenied, At
<1>2. /\ flow' \in [Flows -> FlowState \cup {NoFlow}]
      /\ screen' \in [Tabs -> {"auth", "loading", "error", "open"}]
  <2>1. CASE Renews(f)
    <3>1. mem[Tab(f)] \in Token
      BY <1>1 DEF TypeOK
    <3>2. [flow[f] EXCEPT !.pc = "renewing", !.token = mem[Tab(f)]] \in FlowState
      BY <1>1, <3>1, TokenFields DEF Pcs
    <3>3. QED
      BY <2>1, <3>2, GotoChangesOne DEF ReceiveDenied, TypeOK
  <2>2. CASE ~Renews(f)
    BY <1>1, <2>2, FailsKeepsType DEF ReceiveDenied
  <2>3. QED
    BY <2>1, <2>2
<1>3. QED
  BY <1>2 DEF TypeOK, ReceiveDenied, server, invite, history, outcomes

\* An error answer ends its call.
LEMMA ReceiveErrorType == ASSUME TypeOK, NEW f \in Flows, ReceiveError(f) PROVE TypeOK'
<1>1. f \in Busy
  BY BusyHasState DEF ReceiveError, At
<1>2. QED
  BY <1>1, FailsKeepsType DEF TypeOK, ReceiveError, server, invite, history, outcomes

\* The exchange of a token, or its refusal as a reuse.
LEMMA ServerRenewsType == ASSUME TypeOK, NEW f \in Flows, ServerRenews(f) PROVE TypeOK'
<1>1. flow[f] \in FlowState /\ flow[f].token \in Token
  BY BusyHasState DEF ServerRenews, At
<1>2. ASSUME NEW s \in Unissued, NEW answer \in {"renewed", "refused"},
             Server!Exchange(flow[f].token, s), fresh' = fresh \cup {s},
             Goto(f, [flow[f] EXCEPT !.pc = answer, !.token = s]), UNCHANGED accused
      PROVE  TypeOK'
  <2>1. s \in SessionIds /\ s \in Token
    BY DEF Unissued, Token
  <2>2. [flow[f] EXCEPT !.pc = answer, !.token = s] \in FlowState
    <3>1. answer \in Pcs
      BY DEF Pcs
    <3>2. QED
      BY <1>1, <2>1, <3>1, TokenFields
  <2>3. flow' \in [Flows -> FlowState \cup {NoFlow}]
    BY <1>2, <2>2, GotoChangesOne
  <2>4. flow[f].token \in SessionIds
    BY <1>2 DEF Server!Exchange, TypeOK
  <2>5. /\ family' \in [SessionIds -> Token] /\ owner' \in [SessionIds -> {User, None}]
        /\ live' \subseteq SessionIds
    BY <1>2, <2>1, <2>4 DEF Server!Exchange, TypeOK
  <2>6. QED
    BY <1>2, <2>1, <2>3, <2>5 DEF TypeOK, ServerRenews, invite
<1>3. ASSUME Goto(f, [flow[f] EXCEPT !.pc = "refused"])
      PROVE  flow' \in [Flows -> FlowState \cup {NoFlow}]
  <2>1. [flow[f] EXCEPT !.pc = "refused"] \in FlowState
    BY <1>1, MoveFields DEF Pcs
  <2>2. QED
    BY <1>3, <2>1, GotoChangesOne
<1>4. CASE /\ Goto(f, [flow[f] EXCEPT !.pc = "refused"])
           /\ UNCHANGED <<server, fresh, accused>>
  BY <1>3, <1>4 DEF TypeOK, ServerRenews, server, invite
<1>5. CASE /\ Server!Close(family[flow[f].token], FamilyOf(flow[f].token))
           /\ Goto(f, [flow[f] EXCEPT !.pc = "refused"])
           /\ accused' = (accused \/ FamilyOf(flow[f].token) \cap live # {})
           /\ UNCHANGED fresh
  BY <1>3, <1>5 DEF TypeOK, ServerRenews, Server!Close, invite
<1>6. QED
  BY <1>2, <1>4, <1>5 DEF ServerRenews

\* A new token, or the end of the session.
LEMMA ReceiveRenewalType == ASSUME TypeOK, NEW f \in Flows, ReceiveRenewal(f) PROVE TypeOK'
<1>1. f \in Busy /\ flow[f] \in FlowState /\ Tab(f) \in Tabs /\ flow[f].token \in Token
  BY BusyHasState DEF ReceiveRenewal, At
<1>2. /\ flow' \in [Flows -> FlowState \cup {NoFlow}]
      /\ screen' \in [Tabs -> {"auth", "loading", "error", "open"}]
  <2>1. CASE At(f, "renewed")
    <3>1. [flow[f] EXCEPT !.pc = "sent", !.retried = TRUE] \in FlowState
      BY <1>1, RetryFields
    <3>2. QED
      BY <2>1, <3>1, GotoChangesOne DEF ReceiveRenewal, At, TypeOK
  <2>2. CASE At(f, "refused")
    BY <1>1, <2>2, FailsKeepsType DEF ReceiveRenewal, At
  <2>3. QED
    BY <2>1, <2>2 DEF ReceiveRenewal
<1>3. mem' \in [Tabs -> Token] /\ storage' \in Token
  BY <1>1 DEF ReceiveRenewal, Renewed, SaveSession, ClearSession, TypeOK, Token
<1>4. QED
  BY <1>2, <1>3 DEF TypeOK, ReceiveRenewal, server, invite, history, outcomes

\* A logout that starts has a token, or shows the sign-in.
LEMMA StartLogoutType ==
  ASSUME TypeOK, NEW f \in Flows, NEW t \in Tabs, StartLogout(f, t) PROVE TypeOK'
<1>1. flow' \in [Flows -> FlowState \cup {NoFlow}]
  <2>1. [Request(t, "logout") EXCEPT !.pc = "leaving"] \in FlowState
    BY RequestFields, MoveFields DEF Pcs
  <2>2. QED
    BY <2>1, GotoChangesOne DEF StartLogout, TypeOK
<1>2. screen' \in [Tabs -> {"auth", "loading", "error", "open"}]
  BY DEF StartLogout, Show, TypeOK
<1>3. disturbed' \in BOOLEAN
  BY DEF StartLogout, TypeOK
<1>4. QED
  BY <1>1, <1>2, <1>3 DEF TypeOK, StartLogout, server, invite, outcomes

\* The revocation of a token, or an error.
LEMMA ServerLogsOutType ==
  ASSUME TypeOK, IssuedInv, NEW f \in Flows, ServerLogsOut(f) PROVE TypeOK'
<1>1. f \in Busy /\ flow[f] \in FlowState
  BY BusyHasState DEF ServerLogsOut, At
<1>2. [flow[f] EXCEPT !.pc = "left"] \in FlowState
  BY <1>1, MoveFields DEF Pcs
<1>3. flow' \in [Flows -> FlowState \cup {NoFlow}]
  BY <1>2, GotoChangesOne DEF ServerLogsOut
<1>4. family[flow[f].token] \in SessionIds
  <2>1. flow[f].token # None /\ Issued(flow[f].token) /\ flow[f].token \in Token
    BY <1>1, BusyHasState DEF IssuedInv, ClientInv, ServerLogsOut, At
  <2>2. QED
    BY <2>1 DEF Issued, Token, TypeOK
<1>5. unserved' \subseteq SessionIds /\ live' \subseteq SessionIds /\ UNCHANGED <<family, owner>>
  BY <1>4 DEF TypeOK, ServerLogsOut, Server!Close, server
<1>6. QED
  BY <1>3, <1>5 DEF TypeOK, ServerLogsOut, invite

\* The session is cleared in the tab and in the storage.
LEMMA ReceiveLogoutType ==
  ASSUME TypeOK, IssuedInv, NEW f \in Flows, ReceiveLogout(f) PROVE TypeOK'
<1>1. f \in Busy /\ Tab(f) \in Tabs
  BY BusyHasState DEF ReceiveLogout, At
<1>2. flow' \in [Flows -> FlowState \cup {NoFlow}]
  BY GotoChangesOne DEF ReceiveLogout
<1>3. signedOut' \subseteq SessionIds
  <2>1. flow[f].token # None /\ Issued(flow[f].token) /\ flow[f].token \in Token
    BY <1>1, BusyHasState DEF IssuedInv, ClientInv, ReceiveLogout, At
  <2>2. family[flow[f].token] \in SessionIds
    BY <2>1 DEF Issued, Token, TypeOK
  <2>3. QED
    BY <2>2 DEF ReceiveLogout, TypeOK
<1>4. QED
  BY <1>1, <1>2, <1>3
  DEF TypeOK, ReceiveLogout, ClearSession, Show, Token, server, invite

\* A rejected fetch ends its call.
LEMMA ReplyLostType == ASSUME TypeOK, NEW f \in Flows, ReplyLost(f) PROVE TypeOK'
<1>1. f \in Busy /\ Tab(f) \in Tabs
  BY BusyHasState DEF ReplyLost
<1>2. /\ flow' \in [Flows -> FlowState \cup {NoFlow}]
      /\ screen' \in [Tabs -> {"auth", "loading", "error", "open"}]
  <2>1. CASE flow[f].op = "logout"
    BY <2>1, GotoChangesOne DEF ReplyLost, TypeOK
  <2>2. CASE flow[f].op # "logout"
    BY <1>1, <2>2, FailsKeepsType DEF ReplyLost
  <2>3. QED
    BY <2>1, <2>2
<1>3. mem' \in [Tabs -> Token] /\ storage' \in Token
  BY <1>1 DEF ReplyLost, ClearSession, TypeOK, Token
<1>4. QED
  BY <1>2, <1>3 DEF TypeOK, ReplyLost, server, invite, outcomes

\* A page load reads the storage and drops the calls of its tab.
LEMMA OpenPageType == ASSUME TypeOK, NEW t \in Tabs, OpenPage(t) PROVE TypeOK'
<1>1. flow' \in [Flows -> FlowState \cup {NoFlow}]
  BY DEF OpenPage, TypeOK
<1>2. address' \in [Tabs -> {"plain", "invited", "cleaned"}] /\ reopened' \in BOOLEAN
  BY DEF OpenPage, TypeOK
<1>3. screen' \in [Tabs -> {"auth", "loading", "error", "open"}]
  BY DEF OpenPage, Show, TypeOK
<1>4. disturbed' \in BOOLEAN
  BY DEF OpenPage, TypeOK
<1>5. mem' \in [Tabs -> Token]
  BY DEF OpenPage, TypeOK
<1>6. QED
  BY <1>1, <1>2, <1>3, <1>4, <1>5 DEF TypeOK, OpenPage, server, outcomes

\* The steps that touch one variable, and none.
LEMMA OtherType ==
  ASSUME TypeOK,
         \/ \E t \in Tabs : TryAgain(t)
         \/ \E s \in SessionIds : AccessExpires(s)
         \/ UNCHANGED vars
  PROVE  TypeOK'
<1>1. CASE \E t \in Tabs : TryAgain(t)
  BY <1>1 DEF TypeOK, TryAgain, Show, server, invite, history, outcomes
<1>2. CASE \E s \in SessionIds : AccessExpires(s)
  BY <1>2 DEF TypeOK, AccessExpires, server, invite, history, outcomes
<1>3. CASE UNCHANGED vars
  BY <1>3 DEF TypeOK, vars, server, invite, history, outcomes
<1>4. QED
  BY <1>1, <1>2, <1>3
-----------------------------------------------------------------------------
(* IssuedInv.                                                              *)

\* What the server issued stays issued, in the same family.
Grown == \A s \in SessionIds : family[s] # None => family'[s] = family[s]

\* A step that the server does not take.
LEMMA ServerRests ==
  ASSUME TypeOK, ServerInv, UNCHANGED <<family, live>>,
         \A x \in signedOut' : x \in signedOut \/ (x \in SessionIds /\ family[x] # None)
  PROVE  ServerInv' /\ Grown
BY DEF TypeOK, ServerInv, Grown

\* A login opens a family named after a token that had none.
LEMMA OpenKeepsServer ==
  ASSUME TypeOK, ServerInv, NEW s \in Unissued, Server!Open(s, User), UNCHANGED signedOut
  PROVE  ServerInv' /\ Grown
<1>1. s \in SessionIds /\ family[s] = None /\ s # None
  BY NoneAssumption DEF Unissued
<1>2. family'[s] = s /\ \A r \in SessionIds \ {s} : family'[r] = family[r]
  BY <1>1 DEF Server!Open, TypeOK
<1>3. Grown
  BY <1>1, <1>2 DEF Grown
<1>4. \A r \in SessionIds : family[r] # s
  BY <1>1 DEF ServerInv
<1>5. \A r \in SessionIds : family[r] # None => family[r] \in SessionIds
  BY DEF TypeOK, Token
<1>6. live' = live \cup {s}
  BY DEF Server!Open
<1>7. \A r, q \in live' : family'[r] = family'[q] => r = q
  BY <1>1, <1>2, <1>4, <1>6 DEF ServerInv, TypeOK
<1>8. \A r \in SessionIds : family'[r] # None => family'[family'[r]] # None
  BY <1>1, <1>2, <1>4, <1>5 DEF ServerInv
<1>9. (\A r \in live' : family'[r] # None) /\ \A x \in signedOut' : family'[x] # None
  BY <1>1, <1>2, <1>6 DEF ServerInv, TypeOK
<1>10. QED
  BY <1>3, <1>7, <1>8, <1>9 DEF ServerInv

\* A renewal puts the successor in the place of the one live token of a family.
LEMMA ExchangeKeepsServer ==
  ASSUME TypeOK, ServerInv, NEW q \in SessionIds, NEW s \in Unissued, Server!Exchange(q, s),
         UNCHANGED signedOut
  PROVE  ServerInv' /\ Grown
<1>1. s \in SessionIds /\ family[s] = None /\ q \in live /\ family[q] # None
  BY DEF Unissued, Server!Exchange, ServerInv
<1>2. family'[s] = family[q] /\ \A r \in SessionIds \ {s} : family'[r] = family[r]
  BY <1>1 DEF Server!Exchange, TypeOK
<1>3. Grown
  BY <1>1, <1>2 DEF Grown
<1>4. \A r \in SessionIds : family[r] # None => family[r] \in SessionIds /\ family[r] # s
  BY <1>1 DEF TypeOK, Token, ServerInv
<1>5. live' = (live \ {q}) \cup {s}
  BY DEF Server!Exchange
<1>6. \A r, p \in live' : family'[r] = family'[p] => r = p
  BY <1>1, <1>2, <1>5 DEF ServerInv, TypeOK
<1>7. \A r \in SessionIds : family'[r] # None => family'[family'[r]] # None
  BY <1>1, <1>2, <1>4 DEF ServerInv
<1>8. (\A r \in live' : family'[r] # None) /\ \A x \in signedOut' : family'[x] # None
  BY <1>1, <1>2, <1>5 DEF ServerInv, TypeOK
<1>9. QED
  BY <1>3, <1>6, <1>7, <1>8 DEF ServerInv

\* A revocation only takes tokens out of live.
LEMMA CloseKeepsServer ==
  ASSUME TypeOK, ServerInv, NEW x, NEW dead, Server!Close(x, dead), UNCHANGED signedOut
  PROVE  ServerInv' /\ Grown
BY DEF TypeOK, ServerInv, Grown, Server!Close

\* A token of the server as the step leaves it, if it is one at all.
IssuedNext(s) == s # None => s \in SessionIds /\ family'[s] # None

\* What a client held stays issued; the rest was issued by the step.
LEMMA ClientStep ==
  ASSUME TypeOK, ClientInv, Grown,
         \A t \in Tabs : mem'[t] = mem[t] \/ IssuedNext(mem'[t]),
         storage' = storage \/ IssuedNext(storage'),
         \A f \in Busy' :
           \/ /\ f \in Busy /\ flow'[f].token = flow[f].token
              /\ flow'[f].pc = flow[f].pc \/ flow'[f].pc = "sent"
           \/ /\ IssuedNext(flow'[f].token)
              /\ flow'[f].pc \in {"renewing", "renewed", "refused", "leaving", "left"}
                   => flow'[f].token # None
  PROVE  ClientInv'
<1>1. \A s \in Token : Issued(s) => IssuedNext(s)
  BY DEF TypeOK, Grown, Issued, IssuedNext, Token
<1>2. \A f \in Busy : flow[f].token \in Token
  BY BusyHasState DEF Busy
<1>3. \A t \in Tabs : IssuedNext(mem'[t])
  BY <1>1 DEF ClientInv, TypeOK
<1>4. IssuedNext(storage')
  BY <1>1 DEF ClientInv, TypeOK
<1>5. \A f \in Busy' : IssuedNext(flow'[f].token)
  BY <1>1, <1>2 DEF ClientInv
<1>6. \A f \in Busy' :
        flow'[f].pc \in {"renewing", "renewed", "refused", "leaving", "left"}
          => flow'[f].token # None
  BY DEF ClientInv
<1>7. QED
  BY <1>3, <1>4, <1>5, <1>6 DEF ClientInv, Issued, IssuedNext

\* A token the client holds, as the step leaves it.
LEMMA HeldIsIssued ==
  ASSUME TypeOK, ClientInv, Grown
  PROVE  /\ \A t \in Tabs : IssuedNext(mem[t])
         /\ IssuedNext(storage)
         /\ \A f \in Busy : IssuedNext(flow[f].token)
<1>1. \A s \in Token : Issued(s) => IssuedNext(s)
  BY DEF TypeOK, Grown, Issued, IssuedNext, Token
<1>2. \A f \in Busy : flow[f].token \in Token
  BY BusyHasState DEF Busy
<1>3. QED
  BY <1>1, <1>2 DEF ClientInv, TypeOK

\* What a tab or the call of a client holds stays in its family.
LEMMA HeldKeepsFamily ==
  ASSUME TypeOK, ClientInv, Grown
  PROVE  /\ \A t \in Tabs : mem[t] # None => family'[mem[t]] = family[mem[t]]
         /\ \A f \in Busy : flow[f].token # None =>
              family'[flow[f].token] = family[flow[f].token]
<1>1. \A s \in Token : s # None /\ Issued(s) => family'[s] = family[s]
  BY DEF Grown, Issued, Token
<1>2. \A f \in Busy : flow[f].token \in Token
  BY BusyHasState DEF Busy
<1>3. QED
  BY <1>1, <1>2 DEF ClientInv, TypeOK
-----------------------------------------------------------------------------
(* Each action preserves the invariant.                                    *)

\* An undisturbed client has no flow besides the one that moves.
LEMMA OnlyFlow == ASSUME TurnInv, NEW f \in Busy PROVE Busy = {f}
BY DEF TurnInv

\* Its tabs do not share a session.
LEMMA TabsDiffer ==
  ASSUME TurnInv, NEW t \in Tabs, NEW u \in Tabs, mem[t] # None, t # u
  PROVE  mem[t] # mem[u]
BY DEF TurnInv, TabsInv

\* A sign-in: the tab had nothing under way, for a flow shows a loading or an
\* open tab.
LEMMA LoginStep == ASSUME IInv, NEW t \in Tabs, Login(t) PROVE IInv'
<1> USE DEF IInv
<1>1. PICK s \in Unissued : /\ Server!Open(s, User)
                            /\ SaveSession(t, s)
  BY DEF Login
<1>2. TypeOK'
  BY LoginType
<1>3. ServerInv' /\ Grown
  BY <1>1, OpenKeepsServer DEF Login, history, outcomes, IssuedInv
<1>4. s \in SessionIds /\ family[s] = None /\ s # None /\ family'[s] = s
  BY <1>1, NoneAssumption DEF Unissued, Server!Open, TypeOK
<1>5. mem'[t] = s /\ storage' = s /\ \A u \in Tabs \ {t} : mem'[u] = mem[u]
  BY <1>1 DEF SaveSession, TypeOK
<1>6. ClientInv'
  BY <1>3, <1>4, <1>5, ClientStep DEF IssuedInv, IssuedNext, Login, Busy
<1>7. Busy' = Busy /\ flow' = flow
  BY DEF Busy, Login
<1>8. ASSUME ~disturbed' PROVE TurnInv'
  <2>1. TurnInv
    BY <1>8 DEF Login, history
  <2>2. \A u \in Tabs : mem[u] # s
    BY <1>4 DEF IssuedInv, ClientInv, Issued
  <2>3. live' = live \cup {s} /\ \A r \in live : family'[r] = family[r] /\ r # s
    BY <1>1, <1>3, <1>4 DEF Server!Open, Grown, IssuedInv, ServerInv, TypeOK
  <2>4. \A f \in Busy : Tab(f) # t /\ Tab(f) \in Tabs
    BY <2>1, BusyHasState DEF TurnInv, FlowInv, Login, Busy
  <2>5. \A f \in Busy : FlowInv(f)'
    <3> SUFFICES ASSUME NEW f \in Busy PROVE FlowInv(f)'
      OBVIOUS
    <3>1. FlowInv(f) /\ f \in Flows /\ flow[f].token \in Token
      BY <2>1, BusyHasState DEF TurnInv, Busy
    <3>2. screen'[Tab(f)] = screen[Tab(f)] /\ mem'[Tab(f)] = mem[Tab(f)]
      BY <1>5, <2>4 DEF Login, Show, TypeOK
    <3>3. flow[f].token # s
      BY <1>4 DEF IssuedInv, ClientInv, Issued
    <3>4. flow[f].pc \in {"left", "renewed"} => family'[flow[f].token] = family[flow[f].token]
      BY <1>3, HeldKeepsFamily DEF IssuedInv, ClientInv
    <3>5. flow[f].pc = "left" => family[flow[f].token] # s
      BY <1>4, <3>1 DEF IssuedInv, ServerInv, ClientInv, FlowInv, Issued, Token
    <3>6. flow'[f] = flow[f] /\ Tab(f)' = Tab(f) /\ address' = address
      BY <1>7 DEF Tab, Login, invite
    <3>7. flow[f].pc = "left" =>
            \A r \in live' : family'[r] = family'[flow[f].token] => family'[r] \in unserved'
      BY <1>4, <2>3, <3>1, <3>4, <3>5 DEF FlowInv, Login, history, outcomes
    <3>8. flow[f].pc = "renewed" =>
            /\ mem'[Tab(f)] # None
            /\ family'[mem'[Tab(f)]] = family'[flow[f].token]
      BY <1>3, <2>4, <3>1, <3>2, <3>4, HeldKeepsFamily DEF FlowInv, IssuedInv
    <3>9. QED
      BY <2>3, <2>4, <3>1, <3>2, <3>6, <3>7, <3>8 DEF FlowInv
  <2>6. \A x \in signedOut : x # s
    BY <1>4 DEF IssuedInv, ServerInv
  <2>7. \A r \in live' : family'[r] \in signedOut' => family'[r] \in unserved'
    BY <1>4, <2>1, <2>3, <2>6 DEF TurnInv, Login, history, outcomes
  <2>8. \A u \in Tabs : mem'[u] # None =>
          mem'[u] \in live' \/ \E f \in Busy' : Tab(f)' = u /\ Pending(f)'
    BY <1>5, <1>7, <2>1, <2>3 DEF TurnInv, Tab, Pending
  <2>9. TabsInv'
    <3>1. \A u \in Tabs \ {t} : mem'[u] # None =>
            /\ mem'[u] = mem[u] /\ family'[mem'[u]] = family[mem[u]]
            /\ family[mem[u]] # s
      <4>1. \A u \in Tabs : mem[u] # None => mem[u] \in SessionIds /\ Issued(mem[u])
        BY DEF IssuedInv, ClientInv, TypeOK, Token
      <4>2. \A u \in Tabs : mem[u] # None => family[mem[u]] # s
        BY <1>4, <4>1 DEF IssuedInv, ServerInv, Issued
      <4>3. QED
        BY <1>3, <1>5, <4>2, HeldKeepsFamily DEF IssuedInv
    <3>2. QED
      BY <1>4, <1>5, <2>1, <2>6, <3>1 DEF TurnInv, TabsInv, Login, history, outcomes
  <2>10. QED
    BY <1>4, <1>5, <1>7, <2>1, <2>5, <2>7, <2>8, <2>9 DEF TurnInv, Login, history, outcomes
<1>9. InviteInv'
  <2>1. \A u \in Tabs : screen'[u] = "open" => screen[u] = "open"
    BY DEF Login, Show, TypeOK
  <2>2. QED
    BY <1>7, <2>1 DEF InviteInv, Login, invite, history, Tab
<1>10. QED
  BY <1>2, <1>3, <1>6, <1>8, <1>9 DEF IssuedInv

\* An undisturbed client starts a call only when it has none under way.
LEMMA StartRequestStep ==
  ASSUME IInv, NEW f \in Flows, NEW t \in Tabs, StartRequest(f, t) PROVE IInv'
<1> USE DEF IInv
<1>1. PICK op \in {"me", "page", "download"} : Goto(f, Request(t, op))
  BY DEF StartRequest
<1>2. TypeOK'
  BY StartRequestType
<1>3. /\ f \notin Busy /\ Busy' = Busy \cup {f}
      /\ \A g \in Flows \ {f} : flow'[g] = flow[g]
      /\ flow'[f].pc = "sent" /\ flow'[f].op = op /\ flow'[f].tab = t /\ flow'[f].token = mem[t]
  BY <1>1, FlowAsks DEF StartRequest, Busy
<1>4. ServerInv' /\ Grown
  BY ServerRests DEF IssuedInv, StartRequest, server, outcomes, ServerInv, TypeOK
<1>5. ClientInv'
  <2>1. IssuedNext(mem[t])
    BY <1>4, HeldIsIssued DEF IssuedInv
  <2>2. \A g \in Busy : g \in Flows
    BY DEF Busy
  <2>3. QED
    BY <1>3, <1>4, <2>1, <2>2, ClientStep DEF IssuedInv, StartRequest
<1>6. ASSUME ~disturbed' PROVE TurnInv'
  <2>1. TurnInv /\ Busy = {} /\ Busy' = {f}
    BY <1>3, <1>6 DEF StartRequest
  <2>2. screen[t] \in {"loading", "open"}
    BY DEF StartRequest
  <2>3. FlowInv(f)'
    BY <1>3, <2>2 DEF FlowInv, StartRequest, Tab
  <2>4. QED
    BY <2>1, <2>3 DEF TurnInv, TabsInv, StartRequest, server, outcomes
<1>7. InviteInv'
  <2>1. \A g \in Busy' : flow'[g].pc = "ok" => g \in Busy /\ flow'[g] = flow[g]
    BY <1>3 DEF Busy
  <2>2. ~disturbed' => ~disturbed
    BY DEF StartRequest
  <2>3. \A g \in Busy : g \in Busy' /\ flow'[g] = flow[g]
    BY <1>3 DEF Busy
  <2>4. \A g \in Busy' : flow'[g].op = "organizations" => g \in Busy /\ flow'[g] = flow[g]
    BY <1>3 DEF Busy
  <2>5. QED
    BY <2>1, <2>2, <2>3, <2>4 DEF InviteInv, StartRequest, invite, Tab
<1>8. QED
  BY <1>2, <1>4, <1>5, <1>6, <1>7 DEF IssuedInv

\* The server accepts an invitation that is still in the address, or fails.
LEMMA ServerAnswersStep == ASSUME IInv, NEW f \in Flows, ServerAnswers(f) PROVE IInv'
<1> USE DEF IInv
<1>1. f \in Busy /\ flow[f] \in FlowState /\ Tab(f) \in Tabs /\ flow[f].pc = "sent"
  BY BusyHasState DEF ServerAnswers, At
<1>2. PICK answer \in {"ok", "denied", "failed"} :
        /\ Goto(f, [flow[f] EXCEPT !.pc = answer])
        /\ invitation' = IF flow[f].op = "accept" /\ answer = "ok" THEN "accepted"
                         ELSE invitation
  BY DEF ServerAnswers, Answer
<1>3. TypeOK'
  BY ServerAnswersType
<1>4. /\ Busy' = Busy
      /\ \A g \in Flows \ {f} : flow'[g] = flow[g]
      /\ flow'[f].pc = answer /\ flow'[f].op = flow[f].op
      /\ flow'[f].tab = flow[f].tab /\ flow'[f].token = flow[f].token
  <2>1. answer \in Pcs
    BY DEF Pcs
  <2>2. QED
    BY <1>1, <1>2, <2>1, FlowMoves DEF FlowAt
<1>5. ServerInv' /\ Grown
  BY ServerRests DEF IssuedInv, ServerAnswers, server, history, outcomes, ServerInv, TypeOK
<1>6. ClientInv'
  <2>1. \A g \in Busy : IssuedNext(flow[g].token) /\ g \in Flows
    BY <1>5, HeldIsIssued DEF IssuedInv, Busy
  <2>2. QED
    BY <1>2, <1>4, <1>5, <2>1, ClientStep DEF IssuedInv, ServerAnswers
<1>7. ASSUME ~disturbed' PROVE TurnInv'
  <2>1. TurnInv /\ ~disturbed
    BY <1>7 DEF ServerAnswers, history
  <2>2. Busy = {f} /\ FlowInv(f)
    BY <1>1, <2>1, OnlyFlow DEF TurnInv
  <2>3. FlowInv(f)'
    BY <1>2, <1>4, <2>2 DEF FlowInv, ServerAnswers, Tab
  <2>4. \A u \in Tabs : mem[u] # None => mem[u] \in live
    BY <1>1, <2>1, <2>2 DEF TurnInv, Pending
  <2>5. QED
    BY <1>4, <2>1, <2>2, <2>3, <2>4
    DEF TurnInv, TabsInv, ServerAnswers, server, history, outcomes
<1>8. InviteInv'
  <2>1. UNCHANGED <<address, reopened, disturbed, screen>>
    BY DEF ServerAnswers, history
  <2>2. \A g \in Busy : g \in Flows /\ (g # f => flow'[g] = flow[g])
    BY <1>4 DEF Busy
  <2>3. CASE flow[f].op = "accept" /\ answer = "ok"
    <3>1. invitation' = "accepted"
      BY <1>2, <2>3
    <3>2. ASSUME ~disturbed, ~reopened, NEW t \in Tabs, address[t] = "invited"
          PROVE  Tab(f) = t
      <4>1. address[Tab(f)] = "invited"
        BY <1>1, <2>3, <3>2 DEF TurnInv, FlowInv
      <4>2. QED
        BY <1>1, <3>2, <4>1 DEF InviteInv
    <3>3. QED
      BY <1>1, <1>4, <2>1, <2>2, <2>3, <3>1, <3>2 DEF InviteInv, Tab
  <2>4. CASE ~(flow[f].op = "accept" /\ answer = "ok")
    <3>1. invitation' = invitation
      BY <1>2, <2>4
    <3>2. QED
      BY <1>1, <1>4, <2>1, <2>2, <2>4, <3>1 DEF InviteInv, Tab
  <2>5. QED
    BY <2>3, <2>4
<1>9. QED
  BY <1>3, <1>5, <1>6, <1>7, <1>8 DEF IssuedInv

\* A load goes on to its next call, or ends and opens the workspace; the
\* invitation leaves the address with the answer to "accept".
LEMMA ReceiveOkStep == ASSUME IInv, NEW f \in Flows, ReceiveOk(f) PROVE IInv'
<1> USE DEF IInv
<1>1. f \in Busy /\ flow[f] \in FlowState /\ Tab(f) \in Tabs /\ flow[f].pc = "ok"
  BY BusyHasState DEF ReceiveOk, At
<1> DEFINE t == Tab(f)
            Asks(op) == /\ flow'[f].pc = "sent" /\ flow'[f].op = op
                       /\ flow'[f].tab = t /\ flow'[f].token = mem[t]
                       /\ Busy' = Busy
<1>2. TypeOK'
  BY ReceiveOkType
<1>3. /\ \A g \in Flows \ {f} : flow'[g] = flow[g]
      /\ \/ flow[f].op = "me" /\ address[t] = "invited" /\ Asks("accept")
         \/ /\ flow[f].op = "accept" \/ (flow[f].op = "me" /\ address[t] # "invited")
            /\ Asks("organizations")
         \/ flow[f].op \notin {"me", "accept"} /\ Busy' = Busy \ {f}
  <2>1. CASE flow[f].op = "me" /\ address[t] = "invited"
    <3>1. Goto(f, Request(t, "accept"))
      BY <2>1 DEF ReceiveOk
    <3>2. Asks("accept") /\ \A g \in Flows \ {f} : flow'[g] = flow[g]
      <4>1. Busy \cup {f} = Busy
        BY <1>1
      <4>2. QED
        BY <1>1, <3>1, <4>1, FlowAsks
    <3> HIDE DEF Asks
    <3>3. QED
      BY <2>1, <3>2
  <2>2. CASE flow[f].op \in {"me", "accept"} /\ ~(flow[f].op = "me" /\ address[t] = "invited")
    <3>1. Goto(f, Request(t, "organizations"))
      BY <2>2 DEF ReceiveOk
    <3>2. Asks("organizations") /\ \A g \in Flows \ {f} : flow'[g] = flow[g]
      <4>1. Busy \cup {f} = Busy
        BY <1>1
      <4>2. QED
        BY <1>1, <3>1, <4>1, FlowAsks
    <3> HIDE DEF Asks
    <3>3. QED
      BY <2>2, <3>2
  <2>3. CASE flow[f].op \notin {"me", "accept"}
    <3>1. Goto(f, NoFlow)
      BY <2>3 DEF ReceiveOk
    <3>2. Busy' = Busy \ {f} /\ \A g \in Flows \ {f} : flow'[g] = flow[g]
      BY <1>1, <3>1, FlowEnds
    <3>3. QED
      BY <2>3, <3>2
  <2>4. QED
    BY <2>1, <2>2, <2>3
<1>4. /\ address' = [address EXCEPT ![t] = IF flow[f].op = "accept" THEN "cleaned" ELSE @]
      /\ screen'[t] = IF flow[f].op = "organizations" THEN "open" ELSE screen[t]
      /\ \A u \in Tabs \ {t} : screen'[u] = screen[u]
      /\ UNCHANGED <<family, owner, live, mem, storage, invitation, reopened, signedOut,
                     unserved, accused, disturbed>>
  BY <1>1 DEF ReceiveOk, AfterAccept, server, history, outcomes, Show, TypeOK
<1>5. ServerInv' /\ Grown
  BY <1>4, ServerRests DEF IssuedInv, ServerInv, TypeOK
<1>6. ClientInv'
  <2>1. IssuedNext(mem[t]) /\ \A g \in Busy : g \in Flows
    BY <1>1, <1>5, HeldIsIssued DEF IssuedInv, Busy
  <2>2. QED
    BY <1>3, <1>4, <1>5, <2>1, ClientStep DEF IssuedInv
<1>7. /\ \A u \in Tabs \ {t} : address'[u] = address[u]
      /\ flow[f].op = "accept" => address'[t] = "cleaned"
      /\ flow[f].op # "accept" => address'[t] = address[t]
  BY <1>1, <1>4 DEF TypeOK
<1>8. ASSUME ~disturbed' PROVE TurnInv'
  <2>1. TurnInv /\ Busy = {f} /\ FlowInv(f)
    BY <1>1, <1>4, <1>8, OnlyFlow DEF TurnInv
  <2>2. \A u \in Tabs : mem[u] # None => mem[u] \in live
    BY <1>1, <2>1 DEF TurnInv, Pending
  <2>3. f \in Busy' => FlowInv(f)'
    BY <1>3, <1>4, <1>7, <2>1 DEF FlowInv, Tab
  <2>4. Busy' \subseteq {f}
    BY <1>3, <2>1
  <2>5. QED
    BY <1>4, <2>1, <2>2, <2>3, <2>4 DEF TurnInv, TabsInv
<1>9. InviteInv'
  <2>1. \A g \in Busy' : flow'[g].pc = "ok" => g \in Busy /\ flow'[g] = flow[g]
    BY <1>3 DEF Busy
  <2>2. \A g \in Busy \ {f} : g \in Busy' /\ flow'[g] = flow[g] /\ g \in Flows
    BY <1>3 DEF Busy
  <2>3. \A g \in Busy' \ {f} : g \in Busy /\ flow'[g] = flow[g] /\ Tab(g) \in Tabs
    BY <1>3, BusyHasState DEF Busy
  <2>4. flow[f].op = "accept" => invitation = "accepted"
    BY <1>1 DEF InviteInv
  <2>5. \A u \in Tabs : address'[u] = "invited" =>
          address[u] = "invited" /\ (u = t => flow[f].op # "accept")
    BY <1>7
  <2>6. f \in Busy' /\ flow'[f].op = "organizations" => address'[t] # "invited"
    BY <1>3, <1>7
  <2>7. \A g \in Busy' : flow'[g].op = "organizations" => address'[Tab(g)'] # "invited"
    <3>1. Tab(f)' = t \/ f \notin Busy'
      BY <1>3 DEF Tab
    <3>2. \A g \in Busy' \ {f} : Tab(g)' = Tab(g)
      BY <2>3 DEF Tab
    <3>3. QED
      BY <2>3, <2>5, <2>6, <3>1, <3>2 DEF InviteInv
  <2>8. \A u \in Tabs : screen'[u] = "open" => address'[u] # "invited"
    BY <1>1, <1>4, <2>5 DEF InviteInv
  <2>9. \A u \in Tabs : address'[u] = "cleaned" => invitation' = "accepted"
    BY <1>4, <1>7, <2>4 DEF InviteInv
  <2>10. ASSUME ~disturbed', ~reopened', invitation' = "accepted",
                NEW u \in Tabs, address'[u] = "invited"
         PROVE  \E g \in Busy' : Tab(g)' = u /\ flow'[g].op = "accept" /\ flow'[g].pc = "ok"
    <3>1. PICK g \in Busy : Tab(g) = u /\ flow[g].op = "accept" /\ flow[g].pc = "ok"
      BY <1>4, <2>5, <2>10 DEF InviteInv
    <3>2. g # f
      BY <2>5, <2>10, <3>1
    <3>3. QED
      BY <2>2, <3>1, <3>2 DEF Tab
  <2>11. QED
    BY <1>4, <2>1, <2>5, <2>7, <2>8, <2>9, <2>10 DEF InviteInv
<1>10. QED
  BY <1>2, <1>5, <1>6, <1>8, <1>9 DEF IssuedInv

\* A load that fails does not open the workspace.
LEMMA FailsOpensNothing ==
  ASSUME TypeOK, NEW f \in Busy, Fails(f)
  PROVE  \A t \in Tabs : screen'[t] = "open" => screen[t] = "open"
BY DEF Fails, Show, TypeOK

\* A rejected promise ends the flow and leaves the tokens alone.
LEMMA FailedStep ==
  ASSUME IInv, NEW f \in Busy, TypeOK', Fails(f), flow[f].pc # "ok",
         UNCHANGED <<server, mem, storage, invite, history>>,
         flow[f].pc \notin {"renewed", "refused", "left"}
  PROVE  IInv'
<1> USE DEF IInv
<1>1. Busy' = Busy \ {f} /\ \A g \in Busy' : flow'[g] = flow[g]
  BY FlowEnds DEF Busy, Fails
<1>2. UNCHANGED <<family, owner, live, mem, storage, invitation, address, reopened,
                  signedOut, unserved, accused, disturbed>>
  BY DEF server, invite, history, outcomes
<1>3. ServerInv' /\ Grown
  BY <1>2, ServerRests DEF IssuedInv, ServerInv, TypeOK
<1>4. ClientInv'
  BY <1>1, <1>2, <1>3, ClientStep DEF IssuedInv
<1>5. ASSUME ~disturbed' PROVE TurnInv'
  <2>1. TurnInv /\ Busy' = {}
    BY <1>1, <1>2, <1>5, OnlyFlow
  <2>2. \A u \in Tabs : mem[u] # None => mem[u] \in live
    BY <2>1 DEF TurnInv, Pending
  <2>3. QED
    BY <1>2, <2>1, <2>2 DEF TurnInv, TabsInv
<1>6. InviteInv'
  BY <1>1, <1>2, FailsOpensNothing DEF InviteInv, Tab
<1>7. QED
  BY <1>3, <1>4, <1>5, <1>6 DEF IssuedInv

\* A renewal is asked for with the token the tab holds.
LEMMA ReceiveDeniedStep == ASSUME IInv, NEW f \in Flows, ReceiveDenied(f) PROVE IInv'
<1> USE DEF IInv
<1>1. f \in Busy /\ flow[f] \in FlowState /\ Tab(f) \in Tabs /\ flow[f].pc = "denied"
  BY BusyHasState DEF ReceiveDenied, At
<1>2. TypeOK'
  BY ReceiveDeniedType
<1>3. UNCHANGED <<family, owner, live, mem, storage, invitation, address, reopened,
                  signedOut, unserved, accused, disturbed>>
  BY DEF ReceiveDenied, server, invite, history, outcomes
<1>4. CASE Renews(f)
  <2>1. mem[Tab(f)] \in Token /\ mem[Tab(f)] # None
    BY <1>1, <1>4 DEF TypeOK, Renews
  <2>2. FlowAt(f, "renewing") /\ flow'[f].token = mem[Tab(f)] /\ screen' = screen
    BY <1>1, <1>4, <2>1, FlowTakesToken DEF ReceiveDenied, Pcs
  <2>3. \A g \in Busy : g \in Flows
    BY DEF Busy
  <2>4. ServerInv' /\ Grown
    BY <1>3, ServerRests DEF IssuedInv, ServerInv, TypeOK
  <2>5. ClientInv'
    <3>1. IssuedNext(mem[Tab(f)])
      BY <1>1, <2>4, HeldIsIssued DEF IssuedInv
    <3>2. QED
      BY <1>3, <2>1, <2>2, <2>3, <2>4, <3>1, ClientStep DEF IssuedInv, FlowAt
  <2>6. ASSUME ~disturbed' PROVE TurnInv'
    <3>1. TurnInv /\ Busy = {f} /\ FlowInv(f)
      BY <1>1, <1>3, <2>6, OnlyFlow DEF TurnInv
    <3>2. \A u \in Tabs : mem[u] # None => mem[u] \in live
      BY <1>1, <3>1 DEF TurnInv, Pending
    <3>3. FlowInv(f)'
      BY <1>3, <2>1, <2>2, <3>1 DEF FlowInv, Tab, FlowAt
    <3>4. QED
      BY <1>3, <2>2, <3>1, <3>2, <3>3 DEF TurnInv, TabsInv, FlowAt
  <2>7. InviteInv'
    BY <1>1, <1>3, <2>2, <2>3 DEF InviteInv, Tab, FlowAt
  <2>8. QED
    BY <1>2, <2>4, <2>5, <2>6, <2>7 DEF IssuedInv
<1>5. CASE ~Renews(f)
  BY <1>1, <1>2, <1>5, FailedStep DEF ReceiveDenied
<1>6. QED
  BY <1>4, <1>5

\* An error ends its call.
LEMMA ReceiveErrorStep == ASSUME IInv, NEW f \in Flows, ReceiveError(f) PROVE IInv'
<1>1. f \in Busy /\ flow[f].pc = "failed"
  BY BusyHasState DEF ReceiveError, At, IInv
<1>2. TypeOK'
  BY ReceiveErrorType DEF IInv
<1>3. QED
  BY <1>1, <1>2, FailedStep DEF ReceiveError

\* A live token of an undisturbed client is exchanged for another of its family,
\* whatever the client is told.
LEMMA ExchangeStep ==
  ASSUME IInv, NEW f \in Busy, flow[f].pc = "renewing", TypeOK',
         NEW s \in Unissued, Server!Exchange(flow[f].token, s),
         NEW answer \in {"renewed", "refused"},
         Goto(f, [flow[f] EXCEPT !.pc = answer, !.token = s]),
         UNCHANGED <<mem, storage, screen, invite, signedOut, unserved, accused, disturbed>>
  PROVE  IInv'
<1> USE DEF IInv
<1> DEFINE q == flow[f].token
<1>1. f \in Flows /\ Tab(f) \in Tabs /\ q \in live /\ q \in SessionIds
  BY BusyHasState DEF Busy, Server!Exchange, TypeOK
<1>2. s \in SessionIds /\ s \in Token /\ family[s] = None /\ s # None
  BY NoneAssumption DEF Unissued, Token
<1>3. FlowAt(f, answer) /\ flow'[f].token = s
  <2>1. answer \in Pcs
    BY DEF Pcs
  <2>2. QED
    BY <1>2, <2>1, FlowTakesToken
<1>4. ServerInv' /\ Grown
  BY <1>1, ExchangeKeepsServer DEF IssuedInv
<1>5. family'[s] = family[q] /\ live' = (live \ {q}) \cup {s} /\ family[q] # None
  BY <1>1, <1>2 DEF Server!Exchange, TypeOK, IssuedInv, ServerInv
<1>6. \A g \in Busy : g \in Flows
  BY DEF Busy
<1>7. ClientInv'
  BY <1>2, <1>3, <1>4, <1>5, <1>6, ClientStep DEF IssuedInv, FlowAt, IssuedNext
<1>8. UNCHANGED <<invitation, address, reopened>>
  BY DEF invite
<1>9. \A t \in Tabs : mem[t] # None => family'[mem[t]] = family[mem[t]]
  BY <1>4, HeldKeepsFamily DEF IssuedInv
<1>10. \A r \in live : family'[r] = family[r] /\ r # s
  BY <1>2, <1>4 DEF Grown, IssuedInv, ServerInv, TypeOK
<1>11. ASSUME ~disturbed' PROVE TurnInv'
  <2>1. TurnInv /\ Busy = {f} /\ FlowInv(f) /\ q = mem[Tab(f)] /\ q # None
    BY <1>11, OnlyFlow DEF TurnInv, FlowInv
  <2>2. FlowInv(f)'
    BY <1>1, <1>3, <1>5, <1>8, <1>9, <2>1 DEF FlowInv, Tab, FlowAt
  <2>3. \A t \in Tabs : mem[t] # None =>
          mem[t] \in live' \/ \E g \in Busy' : Tab(g)' = t /\ Pending(g)'
    <3> SUFFICES ASSUME NEW t \in Tabs, mem[t] # None
                 PROVE  mem[t] \in live' \/ (Tab(f)' = t /\ Pending(f)')
      BY <1>3, <2>1 DEF FlowAt
    <3>1. CASE t = Tab(f)
      BY <1>3, <3>1 DEF FlowAt, Tab, Pending
    <3>2. CASE t # Tab(f)
      <4>1. mem[t] \in live
        BY <2>1, <3>2 DEF TurnInv, Pending
      <4>2. mem[t] # mem[Tab(f)]
        BY <1>1, <2>1, <3>2, TabsDiffer
      <4>3. QED
        BY <1>5, <2>1, <4>1, <4>2
    <3>3. QED
      BY <3>1, <3>2
  <2>4. \A r \in live' : family'[r] \in signedOut => family'[r] \in unserved
    BY <1>1, <1>5, <1>10, <2>1 DEF TurnInv
  <2>5. TabsInv'
    BY <1>9, <2>1 DEF TurnInv, TabsInv
  <2>6. QED
    BY <1>3, <2>1, <2>2, <2>3, <2>4, <2>5 DEF TurnInv, FlowAt
<1>12. InviteInv'
  BY <1>3, <1>6, <1>8 DEF InviteInv, Tab, FlowAt
<1>13. QED
  BY <1>4, <1>7, <1>11, <1>12 DEF IssuedInv

\* The server exchanges, or fails, or detects a reuse: the last only of a
\* disturbed client.
LEMMA ServerRenewsStep == ASSUME IInv, NEW f \in Flows, ServerRenews(f) PROVE IInv'
<1> USE DEF IInv
<1>1. f \in Busy /\ flow[f] \in FlowState /\ Tab(f) \in Tabs /\ flow[f].pc = "renewing"
  BY BusyHasState DEF ServerRenews, At
<1>2. /\ TypeOK'
      /\ UNCHANGED <<mem, storage, screen, invite, signedOut, unserved, disturbed>>
  BY ServerRenewsType DEF ServerRenews
<1>3. CASE \E s \in Unissued, answer \in {"renewed"} \cup (IF Faulty THEN {"refused"} ELSE {}) :
             /\ Server!Exchange(flow[f].token, s)
             /\ Goto(f, [flow[f] EXCEPT !.pc = answer, !.token = s])
             /\ UNCHANGED accused
  BY <1>1, <1>2, <1>3, ExchangeStep
<1>4. ASSUME Goto(f, [flow[f] EXCEPT !.pc = "refused"]), ServerInv', Grown,
             UNCHANGED <<family, live, accused>> \/ disturbed
      PROVE  IInv'
  <2>1. FlowAt(f, "refused") /\ flow'[f].token = flow[f].token
    BY <1>1, <1>4, FlowMoves DEF Pcs
  <2>2. UNCHANGED <<invitation, address, reopened>>
    BY <1>2 DEF invite
  <2>3. \A g \in Busy : g \in Flows /\ IssuedNext(flow[g].token)
    BY <1>4, HeldIsIssued DEF Busy, IssuedInv
  <2>4. flow[f].token # None
    BY <1>1 DEF IssuedInv, ClientInv
  <2>5. ClientInv'
    BY <1>2, <1>4, <2>1, <2>3, <2>4, ClientStep DEF IssuedInv, FlowAt
  <2>6. ASSUME ~disturbed' PROVE TurnInv'
    <3>1. TurnInv /\ Busy = {f} /\ FlowInv(f) /\ UNCHANGED <<family, live, accused>>
      BY <1>1, <1>2, <1>4, <2>6, OnlyFlow DEF TurnInv
    <3>2. FlowInv(f)'
      BY <1>2, <2>1, <2>2, <3>1 DEF FlowInv, FlowAt, Tab
    <3>3. \A t \in Tabs : mem[t] # None => mem[t] \in live
      BY <1>1, <3>1 DEF TurnInv, Pending
    <3>4. QED
      BY <1>2, <2>1, <3>1, <3>2, <3>3 DEF TurnInv, TabsInv, FlowAt
  <2>7. InviteInv'
    BY <1>1, <1>2, <2>1, <2>2, <2>3 DEF InviteInv, FlowAt, Tab
  <2>8. QED
    BY <1>2, <1>4, <2>5, <2>6, <2>7 DEF IssuedInv
<1>5. CASE /\ Goto(f, [flow[f] EXCEPT !.pc = "refused"])
           /\ UNCHANGED <<server, fresh, accused>>
  <2>1. UNCHANGED <<family, live, accused>>
    BY <1>5 DEF server
  <2>2. ServerInv' /\ Grown
    BY <1>2, <2>1, ServerRests DEF IssuedInv, ServerInv, TypeOK
  <2>3. QED
    BY <1>4, <1>5, <2>1, <2>2
<1>6. CASE /\ flow[f].token \notin live
           /\ Server!Close(family[flow[f].token], FamilyOf(flow[f].token))
           /\ Goto(f, [flow[f] EXCEPT !.pc = "refused"])
           /\ UNCHANGED fresh
  <2>1. disturbed
    BY <1>1, <1>6, OnlyFlow DEF TurnInv, FlowInv, Pending
  <2>2. ServerInv' /\ Grown
    BY <1>2, <1>6, CloseKeepsServer DEF IssuedInv
  <2>3. QED
    BY <1>4, <1>6, <2>1, <2>2
<1>7. QED
  BY <1>3, <1>5, <1>6 DEF ServerRenews

\* The tab takes up the token the server has issued, or drops its session.
LEMMA ReceiveRenewalStep == ASSUME IInv, NEW f \in Flows, ReceiveRenewal(f) PROVE IInv'
<1> USE DEF IInv
<1>1. f \in Busy /\ flow[f] \in FlowState /\ Tab(f) \in Tabs /\ flow[f].token \in Token
  BY BusyHasState DEF ReceiveRenewal, At
<1>2. TypeOK'
  BY ReceiveRenewalType
<1>3. UNCHANGED <<family, owner, live, invitation, address, reopened, signedOut,
                  unserved, accused, disturbed>>
  BY DEF ReceiveRenewal, server, invite, history, outcomes
<1>4. ServerInv' /\ Grown
  BY <1>3, ServerRests DEF IssuedInv, ServerInv, TypeOK
<1>5. \A g \in Busy : g \in Flows /\ IssuedNext(flow[g].token)
  BY <1>4, HeldIsIssued DEF Busy, IssuedInv
<1>6. CASE At(f, "renewed")
  <2>1. /\ FlowAt(f, "sent") /\ flow'[f].token = flow[f].token
        /\ SaveSession(Tab(f), flow[f].token) /\ screen' = screen
    BY <1>1, <1>6, FlowIsSentAgain DEF ReceiveRenewal, Renewed, At
  <2>2. /\ mem'[Tab(f)] = flow[f].token /\ storage' = flow[f].token
        /\ \A t \in Tabs \ {Tab(f)} : mem'[t] = mem[t]
    BY <1>1, <2>1 DEF SaveSession, TypeOK
  <2>3. ClientInv'
    BY <1>1, <1>4, <1>5, <2>1, <2>2, ClientStep DEF IssuedInv, FlowAt
  <2>4. ASSUME ~disturbed' PROVE TurnInv'
    <3>1. TurnInv /\ Busy = {f} /\ FlowInv(f)
      BY <1>1, <1>3, <2>4, OnlyFlow DEF TurnInv
    <3>2. /\ flow[f].token \in live /\ mem[Tab(f)] # None
          /\ family[mem[Tab(f)]] = family[flow[f].token]
      BY <1>6, <3>1 DEF FlowInv, At
    <3>3. \A u \in Tabs : mem'[u] # None => mem'[u] \in live
      BY <2>2, <3>1, <3>2 DEF TurnInv
    <3>4. TabsInv'
      BY <1>1, <1>3, <2>2, <3>1, <3>2 DEF TurnInv, TabsInv
    <3>5. FlowInv(f)'
      BY <1>3, <2>1, <3>1 DEF FlowInv, FlowAt, Tab
    <3>6. QED
      BY <1>1, <1>3, <2>1, <2>2, <3>1, <3>3, <3>4, <3>5 DEF TurnInv, FlowAt
  <2>5. InviteInv'
    BY <1>3, <1>5, <1>6, <2>1 DEF InviteInv, FlowAt, Tab, At
  <2>6. QED
    BY <1>2, <1>4, <2>3, <2>4, <2>5 DEF IssuedInv
<1>7. CASE At(f, "refused")
  <2>1. Goto(f, NoFlow) /\ ClearSession(Tab(f))
    BY <1>7 DEF ReceiveRenewal, Fails, At
  <2>2. Busy' = Busy \ {f} /\ \A g \in Busy' : flow'[g] = flow[g]
    BY <1>1, <2>1, FlowEnds DEF Busy
  <2>3. /\ \A t \in Tabs : mem'[t] \in {mem[t], None}
        /\ mem'[Tab(f)] = None /\ storage' = None
    BY <1>1, <2>1 DEF ClearSession, TypeOK
  <2>4. ASSUME ~disturbed' PROVE TurnInv'
    <3>1. TurnInv /\ Busy = {f} /\ Busy' = {}
      BY <1>1, <1>3, <2>4, <2>2, OnlyFlow
    <3>2. \A t \in Tabs : mem'[t] # None => mem'[t] = mem[t] /\ mem[t] \in live
      BY <1>1, <2>3, <3>1 DEF TurnInv
    <3>3. TabsInv'
      BY <1>3, <2>3, <3>1, <3>2 DEF TurnInv, TabsInv
    <3>4. QED
      BY <1>3, <3>1, <3>2, <3>3 DEF TurnInv
  <2>5. ClientInv'
    BY <1>4, <2>2, <2>3, ClientStep DEF IssuedInv, IssuedNext
  <2>6. InviteInv'
    <3>1. Fails(f)
      BY <1>7 DEF ReceiveRenewal, At
    <3>2. QED
      BY <1>1, <1>3, <1>7, <2>2, <3>1, FailsOpensNothing DEF InviteInv, Tab, At
  <2>7. QED
    BY <1>2, <1>3, <1>4, <2>4, <2>5, <2>6 DEF IssuedInv
<1>8. QED
  BY <1>6, <1>7 DEF ReceiveRenewal

\* A logout starts with the token the tab holds.
LEMMA StartLogoutStep ==
  ASSUME IInv, NEW f \in Flows, NEW t \in Tabs, StartLogout(f, t) PROVE IInv'
<1> USE DEF IInv
<1>1. TypeOK'
  BY StartLogoutType
<1>2. /\ UNCHANGED <<family, owner, live, mem, storage, invitation, address, reopened,
                     signedOut, unserved, accused>>
      /\ disturbed' = (disturbed \/ Busy # {})
  BY DEF StartLogout, server, invite, outcomes
<1>3. ServerInv' /\ Grown
  BY <1>2, ServerRests DEF IssuedInv, ServerInv, TypeOK
<1>4. CASE mem[t] = None
  <2>1. flow' = flow /\ Busy' = Busy
    BY <1>4 DEF StartLogout, Busy
  <2>2. ClientInv'
    BY <1>2, <1>3, <2>1, ClientStep DEF IssuedInv
  <2>3. ASSUME ~disturbed' PROVE TurnInv'
    <3>1. screen' = [screen EXCEPT ![t] = "auth"] /\ TurnInv /\ Busy = {}
      BY <1>2, <1>4, <2>3 DEF StartLogout, Show
    <3>2. QED
      BY <1>2, <2>1, <3>1 DEF TurnInv, TabsInv
  <2>4. InviteInv'
    <3>1. \A u \in Tabs : screen'[u] = "open" => screen[u] = "open"
      BY <1>4 DEF StartLogout, Show, TypeOK
    <3>2. ~disturbed' => ~disturbed
      BY <1>2
    <3>3. QED
      BY <1>2, <2>1, <3>1, <3>2 DEF InviteInv, Tab
  <2>5. QED
    BY <1>1, <1>3, <2>2, <2>3, <2>4 DEF IssuedInv
<1>5. CASE mem[t] # None
  <2>1. /\ f \notin Busy /\ Busy' = Busy \cup {f}
        /\ \A g \in Flows \ {f} : flow'[g] = flow[g]
        /\ flow'[f].pc = "leaving" /\ flow'[f].op = "logout"
        /\ flow'[f].tab = t /\ flow'[f].token = mem[t]
    <3> DEFINE y == [Request(t, "logout") EXCEPT !.pc = "leaving"]
    <3>1. /\ Request(t, "logout") \in FlowState /\ Request(t, "logout").op = "logout"
          /\ Request(t, "logout").tab = t /\ Request(t, "logout").token = mem[t]
      BY RequestFields
    <3>2. /\ y \in FlowState /\ y # NoFlow /\ y.pc = "leaving"
          /\ y.op = "logout" /\ y.tab = t /\ y.token = mem[t]
      BY <3>1, MoveFields DEF Pcs
    <3>3. Goto(f, y) /\ flow[f] = NoFlow
      BY <1>5 DEF StartLogout
    <3> HIDE DEF y
    <3>4. QED
      BY <3>2, <3>3, GotoChangesOne DEF Busy
  <2>2. \A g \in Busy : g \in Busy' /\ g \in Flows /\ flow'[g] = flow[g]
    BY <2>1 DEF Busy
  <2>3. ClientInv'
    <3>1. IssuedNext(mem[t])
      BY <1>3, HeldIsIssued DEF IssuedInv
    <3>2. QED
      BY <1>2, <1>3, <1>5, <2>1, <2>2, <3>1, ClientStep DEF IssuedInv
  <2>4. ASSUME ~disturbed' PROVE TurnInv'
    <3>1. TurnInv /\ Busy = {} /\ Busy' = {f}
      BY <1>2, <2>1, <2>4
    <3>2. screen' = screen /\ screen[t] = "open"
      BY <1>5 DEF StartLogout
    <3>3. FlowInv(f)'
      BY <1>2, <1>5, <2>1, <3>2 DEF FlowInv, Tab
    <3>4. QED
      BY <1>2, <3>1, <3>3 DEF TurnInv, TabsInv
  <2>5. InviteInv'
    <3>1. screen' = screen /\ (~disturbed' => ~disturbed)
      BY <1>2, <1>5 DEF StartLogout
    <3>2. \A g \in Busy' : g # f => g \in Busy /\ flow'[g] = flow[g]
      BY <2>1, <2>2
    <3>3. QED
      BY <1>2, <2>1, <2>2, <3>1, <3>2 DEF InviteInv, Tab
  <2>6. QED
    BY <1>1, <1>3, <2>3, <2>4, <2>5 DEF IssuedInv
<1>6. QED
  BY <1>4, <1>5

\* The one live token of its family is revoked, or the logout is not served.
LEMMA ServerLogsOutStep == ASSUME IInv, NEW f \in Flows, ServerLogsOut(f) PROVE IInv'
<1> USE DEF IInv
<1> DEFINE q == flow[f].token
<1>1. f \in Busy /\ flow[f] \in FlowState /\ Tab(f) \in Tabs /\ flow[f].pc = "leaving"
  BY BusyHasState DEF ServerLogsOut, At
<1>2. TypeOK'
  BY ServerLogsOutType
<1>3. /\ UNCHANGED <<family, mem, storage, screen, invitation, address, reopened,
                     signedOut, accused, disturbed>>
      /\ \/ live' = live \ {q} /\ UNCHANGED unserved
         \/ live' = live /\ unserved' = unserved \cup {family[q]}
  BY DEF ServerLogsOut, Revokes, Server!Close, server, invite
<1>4. FlowAt(f, "left") /\ flow'[f].token = q
  BY <1>1, FlowMoves DEF ServerLogsOut, Pcs
<1>5. ServerInv' /\ Grown
  BY <1>3 DEF TypeOK, IssuedInv, ServerInv, Grown
<1>6. \A g \in Busy : g \in Flows /\ IssuedNext(flow[g].token)
  BY <1>5, HeldIsIssued DEF Busy, IssuedInv
<1>7. q # None
  BY <1>1 DEF IssuedInv, ClientInv
<1>8. ClientInv'
  BY <1>3, <1>4, <1>5, <1>6, <1>7, ClientStep DEF IssuedInv, FlowAt
<1>9. ASSUME ~disturbed' PROVE TurnInv'
  <2>1. TurnInv /\ Busy = {f} /\ FlowInv(f) /\ q = mem[Tab(f)]
    BY <1>1, <1>3, <1>9, OnlyFlow DEF TurnInv, FlowInv
  <2>2. q \in live
    BY <1>1, <1>7, <2>1 DEF TurnInv, Pending
  <2>3. \A r \in live' : family'[r] = family'[q] => family'[r] \in unserved'
    BY <1>3, <2>2 DEF IssuedInv, ServerInv
  <2>4. FlowInv(f)'
    BY <1>3, <1>4, <1>7, <2>1, <2>3 DEF FlowInv, FlowAt, Tab
  <2>5. \A t \in Tabs : mem[t] # None =>
          mem[t] \in live' \/ \E g \in Busy' : Tab(g)' = t /\ Pending(g)'
    <3> SUFFICES ASSUME NEW t \in Tabs, mem[t] # None
                 PROVE  mem[t] \in live' \/ (Tab(f)' = t /\ Pending(f)')
      BY <1>4, <2>1 DEF FlowAt
    <3>1. CASE t = Tab(f)
      BY <1>4, <3>1 DEF FlowAt, Tab, Pending
    <3>2. CASE t # Tab(f)
      <4>1. mem[t] \in live
        BY <2>1, <3>2 DEF TurnInv, Pending
      <4>2. mem[t] # mem[Tab(f)]
        BY <1>1, <2>1, <3>2, TabsDiffer
      <4>3. QED
        BY <1>3, <2>1, <4>1, <4>2
    <3>3. QED
      BY <3>1, <3>2
  <2>6. \A r \in live' : family'[r] \in signedOut' => family'[r] \in unserved'
    BY <1>3, <2>1 DEF TurnInv
  <2>7. TabsInv'
    BY <1>3, <2>1 DEF TurnInv, TabsInv
  <2>8. QED
    BY <1>3, <1>4, <2>1, <2>4, <2>5, <2>6, <2>7 DEF TurnInv, FlowAt
<1>10. InviteInv'
  BY <1>1, <1>3, <1>4, <1>6 DEF InviteInv, FlowAt, Tab
<1>11. QED
  BY <1>2, <1>5, <1>8, <1>9, <1>10 DEF IssuedInv

\* The tab drops its session, whose family no other tab holds a token of.
LEMMA ReceiveLogoutStep == ASSUME IInv, NEW f \in Flows, ReceiveLogout(f) PROVE IInv'
<1> USE DEF IInv
<1> DEFINE q == flow[f].token
<1>1. f \in Busy /\ Tab(f) \in Tabs /\ q \in Token /\ flow[f].pc = "left"
  BY BusyHasState DEF ReceiveLogout, At
<1>2. TypeOK'
  BY ReceiveLogoutType
<1>3. /\ UNCHANGED <<family, live, invitation, address, reopened, unserved, accused, disturbed>>
      /\ signedOut' = signedOut \cup {family[q]}
      /\ storage' = None /\ mem'[Tab(f)] = None
      /\ \A t \in Tabs \ {Tab(f)} : mem'[t] = mem[t]
  BY <1>1 DEF ReceiveLogout, ClearSession, server, invite, TypeOK
<1>4. Busy' = Busy \ {f} /\ \A g \in Busy' : flow'[g] = flow[g]
  BY <1>1, FlowEnds DEF ReceiveLogout, Busy
<1>5. q \in SessionIds /\ family[q] \in SessionIds /\ family[family[q]] # None
  BY <1>1 DEF IssuedInv, ClientInv, ServerInv, Issued, Token, TypeOK
<1>6. ServerInv' /\ Grown
  BY <1>3, <1>5, ServerRests DEF IssuedInv, ServerInv
<1>7. ClientInv'
  BY <1>3, <1>4, <1>6, ClientStep DEF IssuedInv, IssuedNext
<1>8. ASSUME ~disturbed' PROVE TurnInv'
  <2>1. TurnInv /\ Busy' = {} /\ FlowInv(f) /\ Busy = {f}
    BY <1>1, <1>3, <1>4, <1>8, OnlyFlow DEF TurnInv
  <2>2. \A t \in Tabs : mem'[t] # None => mem'[t] \in live
    BY <1>3, <2>1 DEF TurnInv
  <2>3. TabsInv'
    <3>1. q = mem[Tab(f)] /\ q # None
      BY <1>1, <2>1 DEF FlowInv
    <3>2. \A t \in Tabs \ {Tab(f)} : mem[t] # None => family[mem[t]] # family[q]
      BY <1>1, <2>1, <3>1 DEF TurnInv, TabsInv
    <3>3. QED
      BY <1>3, <2>1, <3>2 DEF TurnInv, TabsInv
  <2>4. \A s \in live' : family'[s] \in signedOut' => family'[s] \in unserved'
    BY <1>1, <1>3, <2>1 DEF TurnInv, FlowInv
  <2>5. QED
    BY <1>3, <2>1, <2>2, <2>3, <2>4 DEF TurnInv
<1>9. InviteInv'
  <2>1. \A t \in Tabs : screen'[t] = "open" => screen[t] = "open"
    BY DEF ReceiveLogout, Show, TypeOK
  <2>2. QED
    BY <1>1, <1>3, <1>4, <2>1 DEF InviteInv, Tab
<1>10. QED
  BY <1>2, <1>6, <1>7, <1>8, <1>9 DEF IssuedInv

\* A lost reply disturbs the client.
LEMMA ReplyLostStep == ASSUME IInv, NEW f \in Flows, ReplyLost(f) PROVE IInv'
<1> USE DEF IInv
<1>1. f \in Busy /\ Goto(f, NoFlow)
  BY BusyHasState DEF ReplyLost, Fails
<1>2. TypeOK'
  BY ReplyLostType
<1>3. disturbed' /\ UNCHANGED <<family, live, invitation, address, reopened, signedOut>>
  BY DEF ReplyLost, server, invite, outcomes
<1>4. Busy' = Busy \ {f} /\ \A g \in Busy' : flow'[g] = flow[g]
  BY <1>1, FlowEnds DEF Busy
<1>5. storage' \in {storage, None} /\ \A t \in Tabs : mem'[t] \in {mem[t], None}
  BY DEF ReplyLost, ClearSession, TypeOK
<1>6. ServerInv' /\ Grown
  BY <1>3, ServerRests DEF IssuedInv, ServerInv, TypeOK
<1>7. ClientInv'
  BY <1>4, <1>5, <1>6, ClientStep DEF IssuedInv, IssuedNext
<1>8. InviteInv'
  <2>1. \A t \in Tabs : screen'[t] = "open" => screen[t] = "open"
    BY <1>1, FailsOpensNothing DEF ReplyLost
  <2>2. QED
    BY <1>3, <1>4, <2>1 DEF InviteInv, Tab
<1>9. QED
  BY <1>2, <1>3, <1>6, <1>7, <1>8 DEF IssuedInv

\* A page load takes up the stored session; an undisturbed one finds there what
\* the tab already held, or a session no tab held.
LEMMA OpenPageStep == ASSUME IInv, NEW t \in Tabs, OpenPage(t) PROVE IInv'
<1> USE DEF IInv
<1>1. TypeOK'
  BY OpenPageType
<1>2. UNCHANGED <<family, owner, live, storage, invitation, signedOut, unserved, accused>>
  BY DEF OpenPage, server, outcomes
<1>3. mem'[t] = storage /\ \A u \in Tabs \ {t} : mem'[u] = mem[u]
  BY DEF OpenPage, TypeOK
<1>4. /\ Busy' \subseteq Busy
      /\ \A g \in Busy' : flow'[g] = flow[g] /\ Tab(g) \in Tabs \ {t} /\ Tab(g)' = Tab(g)
  <2>1. \A g \in Busy' : g \in Flows /\ flow'[g] # NoFlow
    BY DEF Busy
  <2>2. \A g \in Busy' : g \in Busy /\ Tab(g) # t /\ flow'[g] = flow[g]
    BY <2>1 DEF OpenPage, Busy
  <2>3. QED
    BY <2>1, <2>2, BusyHasState DEF Tab
<1>5. ServerInv' /\ Grown
  BY <1>2, ServerRests DEF IssuedInv, ServerInv, TypeOK
<1>6. ClientInv'
  <2>1. IssuedNext(storage)
    BY <1>5, HeldIsIssued DEF IssuedInv
  <2>2. QED
    BY <1>2, <1>3, <1>4, <1>5, <2>1, ClientStep DEF IssuedInv
<1>7. ASSUME ~disturbed'
      PROVE  /\ ~disturbed /\ TurnInv
             /\ \A f \in Busy : Tab(f) # t
             /\ \A u \in Tabs \ {t} : mem[u] = None
  BY <1>7 DEF OpenPage
<1>8. ASSUME ~disturbed' PROVE \A g \in Busy : g \in Busy' /\ flow'[g] = flow[g]
  BY <1>7, <1>8 DEF OpenPage, Busy
<1>9. ASSUME ~disturbed' PROVE TurnInv'
  <2>1. \A u \in Tabs \ {t} : mem'[u] = None
    BY <1>3, <1>7, <1>9
  <2>2. storage # None => storage = mem[t]
    BY <1>7, <1>9 DEF TurnInv, TabsInv
  <2>3. mem'[t] # None => mem'[t] \in live
    BY <1>3, <1>7, <1>9, <2>2 DEF TurnInv
  <2>4. \A f \in Busy : FlowInv(f)'
    <3> SUFFICES ASSUME NEW f \in Busy PROVE FlowInv(f)'
      OBVIOUS
    <3>1. FlowInv(f) /\ Tab(f) \in Tabs \ {t} /\ flow'[f] = flow[f]
      BY <1>7, <1>8, <1>9, BusyHasState DEF TurnInv, Busy
    <3>2. screen'[Tab(f)] = screen[Tab(f)] /\ mem'[Tab(f)] = mem[Tab(f)]
      BY <1>3, <3>1 DEF OpenPage, Show, TypeOK
    <3>3. address'[Tab(f)] = address[Tab(f)]
      BY <3>1 DEF OpenPage, TypeOK
    <3>4. QED
      BY <1>2, <3>1, <3>2, <3>3 DEF FlowInv, Tab
  <2>5. TabsInv'
    BY <1>2, <1>3, <1>7, <1>9, <2>1, <2>2 DEF TurnInv, TabsInv
  <2>6. QED
    BY <1>2, <1>3, <1>4, <1>7, <1>9, <2>1, <2>3, <2>4, <2>5 DEF TurnInv
<1>10. InviteInv'
  <2>1. /\ \A u \in Tabs \ {t} : address'[u] = address[u] /\ screen'[u] = screen[u]
        /\ screen'[t] # "open"
    BY DEF OpenPage, Show, TypeOK
  <2>2. /\ ~reopened' => ~reopened
        /\ \/ address'[t] = address[t]
           \/ /\ address'[t] = "invited"
              /\ ~reopened' => /\ invitation # "accepted"
                               /\ \A other \in Tabs \ {t} : address[other] # "invited"
           \/ address'[t] = "plain"
    <3>1. CASE UNCHANGED <<address, reopened>>
      BY <3>1
    <3>2. CASE /\ address' = [address EXCEPT ![t] = "invited"]
               /\ reopened' = \/ reopened \/ invitation = "accepted"
                              \/ \E other \in Tabs \ {t} : address[other] = "invited"
      BY <3>2 DEF TypeOK
    <3>3. CASE address' = [address EXCEPT ![t] = "plain"] /\ UNCHANGED reopened
      BY <3>3 DEF TypeOK
    <3>4. QED
      BY <3>1, <3>2, <3>3 DEF OpenPage
  <2>3. \A g \in Busy' : flow'[g].op = "organizations" => address'[Tab(g)'] # "invited"
    BY <1>4, <2>1 DEF InviteInv
  <2>4. \A u \in Tabs : /\ screen'[u] = "open" => address'[u] # "invited"
                        /\ address'[u] = "cleaned" => invitation' = "accepted"
    BY <1>2, <2>1, <2>2 DEF InviteInv
  <2>5. ASSUME ~reopened', NEW u \in Tabs, NEW v \in Tabs,
               address'[u] = "invited", address'[v] = "invited"
        PROVE  u = v
    BY <2>1, <2>2, <2>5 DEF InviteInv
  <2>6. ASSUME ~disturbed', ~reopened', invitation' = "accepted",
               NEW u \in Tabs, address'[u] = "invited"
        PROVE  \E g \in Busy' : Tab(g)' = u /\ flow'[g].op = "accept" /\ flow'[g].pc = "ok"
    <3>1. ~reopened /\ address[u] = "invited"
      BY <1>2, <2>1, <2>2, <2>6
    <3>2. PICK g \in Busy : Tab(g) = u /\ flow[g].op = "accept" /\ flow[g].pc = "ok"
      BY <1>2, <1>7, <2>6, <3>1 DEF InviteInv
    <3>3. g \in Busy' /\ flow'[g] = flow[g]
      BY <1>8, <2>6
    <3>4. QED
      BY <3>2, <3>3 DEF Tab
  <2>7. \A g \in Busy' : flow'[g].pc = "ok" /\ flow'[g].op = "accept" => invitation' = "accepted"
    BY <1>2, <1>4 DEF InviteInv
  <2>8. QED
    BY <2>3, <2>4, <2>5, <2>6, <2>7 DEF InviteInv
<1>11. QED
  BY <1>1, <1>5, <1>6, <1>9, <1>10 DEF IssuedInv

\* "Try again" and the expiry of an access token touch no token and no flow.
LEMMA OtherStep ==
  ASSUME IInv,
         \/ \E t \in Tabs : TryAgain(t)
         \/ \E s \in SessionIds : AccessExpires(s)
         \/ UNCHANGED vars
  PROVE  IInv'
<1> USE DEF IInv
<1>1. TypeOK'
  BY OtherType
<1>2. /\ UNCHANGED <<family, live, mem, storage, flow, invitation, address,
                     reopened, signedOut, unserved, accused, disturbed>>
      /\ \A t \in Tabs : screen'[t] = screen[t] \/ screen'[t] = "loading"
  BY DEF TryAgain, AccessExpires, Show, vars, server, invite, history, outcomes, TypeOK
<1>3. Busy' = Busy
  BY <1>2 DEF Busy
<1>4. ServerInv' /\ Grown
  BY <1>2, ServerRests DEF IssuedInv, ServerInv, TypeOK
<1>5. ClientInv'
  BY <1>2, <1>3, <1>4, ClientStep DEF IssuedInv
<1>6. ASSUME ~disturbed' PROVE TurnInv'
  <2>1. \A f \in Busy : FlowInv(f)'
    BY <1>2, <1>6, BusyHasState DEF TurnInv, FlowInv, Tab, Busy
  <2>2. QED
    BY <1>2, <1>3, <1>6, <2>1 DEF TurnInv, TabsInv, Tab, Pending
<1>7. InviteInv'
  BY <1>2, <1>3 DEF InviteInv, Tab
<1>8. QED
  BY <1>1, <1>4, <1>5, <1>6, <1>7 DEF IssuedInv
-----------------------------------------------------------------------------
(* The theorems.                                                           *)

\* The inductive invariant holds of every reachable state of the client.
THEOREM Invariant == Spec => []IInv
<1>1. ASSUME IInv, [Next]_vars PROVE IInv'
  <2>1. CASE \E t \in Tabs : Login(t) \/ OpenPage(t)
    BY <1>1, <2>1, LoginStep, OpenPageStep
  <2>2. CASE \E f \in Flows, t \in Tabs : StartRequest(f, t) \/ StartLogout(f, t)
    BY <1>1, <2>2, StartRequestStep, StartLogoutStep
  <2>3. CASE \E f \in Flows : Progress(f) \/ ReplyLost(f)
    BY <1>1, <2>3, ServerAnswersStep, ReceiveOkStep, ReceiveDeniedStep, ReceiveErrorStep,
       ServerRenewsStep, ReceiveRenewalStep, ServerLogsOutStep, ReceiveLogoutStep,
       ReplyLostStep DEF Progress
  <2>4. CASE \/ \E t \in Tabs : TryAgain(t)
             \/ \E s \in SessionIds : AccessExpires(s)
             \/ UNCHANGED vars
    BY <1>1, <2>4, OtherStep
  <2>5. QED
    BY <1>1, <2>1, <2>2, <2>3, <2>4 DEF Next
<1>2. QED
  BY <1>1, InitIInv, PTL DEF Spec

\* The variables of client and server keep their types.
THEOREM TypeCorrect == Spec => []TypeOK
<1>1. IInv => TypeOK
  BY DEF IInv
<1>2. QED
  BY <1>1, Invariant, PTL

\* ADR 0004: a client whose calls come one at a time, with every reply, in one
\* tab per session, is never taken for a thief.
THEOREM HonestClientIsNotAccused == Spec => []OnlyDisturbedIsAccused
<1>1. IInv => OnlyDisturbedIsAccused
  BY DEF IInv, TurnInv, OnlyDisturbedIsAccused
<1>2. QED
  BY <1>1, Invariant, PTL

\* Between two calls such a client holds a token the server would exchange.
THEOREM ClientHoldsLiveToken == Spec => []HoldsLiveToken
<1>1. IInv => HoldsLiveToken
  BY DEF IInv, TurnInv, HoldsLiveToken
<1>2. QED
  BY <1>1, Invariant, PTL

\* After a completed logout of such a client nobody holds a token of the session
\* that the server would exchange, unless the server answered with an error.
THEOREM LogoutIsFinal == Spec => []LogoutEndsSession
<1>1. IInv => LogoutEndsSession
  BY DEF IInv, TurnInv, TabsInv, LogoutEndsSession
<1>2. QED
  BY <1>1, Invariant, PTL

\* The token of an invitation leaves an address with its acceptance and not before,
\* however often the link is opened, calls fail and pages are loaded.
THEOREM InvitationLeavesAddress == Spec => []InvitationIsUsedOnce
<1>1. IInv => InvitationIsUsedOnce
  BY DEF IInv, InviteInv, InvitationIsUsedOnce
<1>2. QED
  BY <1>1, Invariant, PTL
=============================================================================
