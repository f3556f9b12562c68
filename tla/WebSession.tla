----------------------------- MODULE WebSession -----------------------------
(***************************************************************************)
(* The session of the web client: web/src/lib/api.ts (ApiClient) and the   *)
(* sign-in part of web/src/App.tsx, in any number of browser tabs, against *)
(* a server that is exactly the promise of SessionFamilies.  A flow is one *)
(* call of ApiClient.request or logout with the fetches it makes; between  *)
(* two awaits of a flow any other flow of any tab may run.  The workspace  *)
(* loads one at a time per tab, as loadWorkspace does, and accepts on the  *)
(* way the invitation whose token the address of the tab carries.          *)
(***************************************************************************)
EXTENDS Integers, FiniteSets

CONSTANTS
  SessionIds,   \* token pairs the server can issue; bounds logins and renewals
  Tabs, Flows, User, None,
  Faulty        \* replies may be lost, by a broken network or a page that is
                \* left, and the server may answer any call with an error

ASSUME FaultyAssumption == Faulty \in BOOLEAN
ASSUME NoneAssumption == None \notin SessionIds

VARIABLES
  family, owner, live,   \* the server's refresh sessions
  fresh,                 \* token pairs whose access token has not expired
  invitation,            \* the invitation sent to the user: "sent" or "accepted"
  mem,                   \* mem[t]: ApiClient.session of the tab, or None
  storage,               \* localStorage[SESSION_KEY], shared by the tabs
  address,               \* address[t]: it carries the token ("invited"), had it
                         \* taken out by loadWorkspace ("cleaned"), or neither
  screen,                \* screen[t]: what App shows
  flow,                  \* flow[f]: the call f and where it stands
  signedOut,             \* history: families a completed logout was about
  unserved,              \* history: families whose logout the server has
                         \* answered with an error
  accused,               \* history: reuse detection has revoked a live session
  reopened,              \* history: the link of the invitation was opened after
                         \* its acceptance, or while another tab carried it
  disturbed              \* history: two flows have been under way at once, a
                         \* reply was lost, or a page was opened while another
                         \* tab held a session (each tab has its own memory)

server == <<family, owner, live>>
outcomes == <<signedOut, unserved, accused>>
history == <<outcomes, disturbed>>
invite == <<invitation, address, reopened>>
vars == <<server, fresh, mem, storage, screen, flow, invite, history>>

Server == INSTANCE SessionFamilies WITH Users <- {User}

NoFlow == [pc |-> "idle"]
Token == SessionIds \cup {None}
FlowState ==
  [pc : {"sent", "ok", "denied", "failed", "renewing", "renewed", "refused",
         "leaving", "left"},
   op : {"me", "accept", "organizations", "page", "download", "logout"},
   tab : Tabs, token : Token, retried : BOOLEAN]

Init ==
  /\ Server!Init
  /\ fresh = {} /\ invitation = "sent"
  /\ mem = [t \in Tabs |-> None]
  /\ storage = None
  /\ screen = [t \in Tabs |-> "auth"] /\ address = [t \in Tabs |-> "plain"]
  /\ flow = [f \in Flows |-> NoFlow]
  /\ signedOut = {} /\ unserved = {}
  /\ accused = FALSE /\ reopened = FALSE
  /\ disturbed = FALSE

Unissued == {s \in SessionIds : family[s] = None}
FamilyOf(s) == {x \in SessionIds : family[x] = family[s]}

SaveSession(t, s) == mem' = [mem EXCEPT ![t] = s] /\ storage' = s
ClearSession(t) == mem' = [mem EXCEPT ![t] = None] /\ storage' = None
Show(t, what) == screen' = [screen EXCEPT ![t] = what]
Goto(f, state) == flow' = [flow EXCEPT ![f] = state]
At(f, pc) == flow[f].pc = pc
Tab(f) == flow[f].tab
Loading(f) == flow[f].op \in {"me", "accept", "organizations"}
Busy == {f \in Flows : flow[f] # NoFlow}
-----------------------------------------------------------------------------
\* ApiClient.login: the new pair replaces the old one, the workspace loads.
Login(t) ==
  /\ screen[t] = "auth"
  /\ \E s \in Unissued : /\ Server!Open(s, User)
                         /\ fresh' = fresh \cup {s}
                         /\ SaveSession(t, s)
  /\ Show(t, "loading")
  /\ UNCHANGED <<flow, invite, history>>

RequestForgetsRetry(t, op) ==
  [pc |-> "sent", op |-> op, tab |-> t, token |-> mem[t]]
Request(t, op) ==
  [pc |-> "sent", op |-> op, tab |-> t, token |-> mem[t], retried |-> FALSE]

\* loadWorkspace begins with /auth/me; a page of an open workspace calls the API.
StartRequest(f, t) ==
  /\ flow[f] = NoFlow
  /\ \/ /\ screen[t] = "loading"
        /\ ~ \E g \in Busy : Tab(g) = t /\ Loading(g)
        /\ Goto(f, Request(t, "me"))
     \/ /\ screen[t] = "open"
        /\ \E op \in {"page", "download"} : Goto(f, Request(t, op))
  /\ disturbed' = (disturbed \/ Busy # {})
  /\ UNCHANGED <<server, fresh, mem, storage, screen, invite, outcomes>>

\* get_current_user: the access token alone decides, until it expires.  An
\* invitation is accepted once, 400 "Invitation is unavailable" after that.
Answer(f) ==
  IF flow[f].token \notin fresh THEN "denied"
  ELSE IF flow[f].op = "accept" /\ invitation = "accepted" THEN "failed" ELSE "ok"

\* The server answers, or fails with nothing done: a 429, 500, 502 or 503.  One
\* that fails with the work done is a reply lost: the client sees an error.
ServerAnswers(f) ==
  /\ At(f, "sent")
  /\ \E answer \in {Answer(f)} \cup (IF Faulty THEN {"failed"} ELSE {}) :
       /\ Goto(f, [flow[f] EXCEPT !.pc = answer])
       /\ invitation' = IF flow[f].op = "accept" /\ answer = "ok" THEN "accepted"
                        ELSE invitation
  /\ UNCHANGED <<server, fresh, mem, storage, screen, address, reopened, history>>

\* The promise of f resolves.  loadWorkspace goes on to accept an invitation,
\* then takes it out of the address and asks for the organizations.
AfterMeOnly(f) == {"me"}
AfterAccept(f) == {"accept"}
ReceiveOk(f) ==
  /\ At(f, "ok")
  /\ Goto(f, IF flow[f].op = "me" /\ address[Tab(f)] = "invited"
             THEN Request(Tab(f), "accept")
             ELSE IF flow[f].op \in {"me", "accept"}
             THEN Request(Tab(f), "organizations") ELSE NoFlow)
  /\ address' = [address EXCEPT ![Tab(f)] =
                   IF flow[f].op \in AfterAccept(f) THEN "cleaned" ELSE @]
  /\ IF flow[f].op = "organizations" THEN Show(Tab(f), "open") ELSE UNCHANGED screen
  /\ UNCHANGED <<server, fresh, mem, storage, invitation, reopened, history>>

\* The promise of f is rejected; a load that fails asks for a sign-in when the
\* session is gone and offers "Try again" when it is not.
Fails(f) ==
  /\ Goto(f, NoFlow)
  /\ IF Loading(f)
       THEN Show(Tab(f), IF mem'[Tab(f)] = None THEN "auth" ELSE "error")
       ELSE UNCHANGED screen

\* A 401 starts one renewal, with the refresh token the client now holds; paths
\* under /auth/, downloads and a call that was already sent twice are not renewed.
Renews(f) ==
  mem[Tab(f)] # None /\ flow[f].op \notin {"me", "download"} /\ ~flow[f].retried
ReceiveDenied(f) ==
  /\ At(f, "denied")
  /\ IF Renews(f)
       THEN /\ Goto(f, [flow[f] EXCEPT !.pc = "renewing", !.token = mem[Tab(f)]])
            /\ UNCHANGED <<mem, screen>>
       ELSE UNCHANGED mem /\ Fails(f)
  /\ UNCHANGED <<server, fresh, storage, invite, history>>

\* parse() throws what is neither 2xx nor 401.
ReceiveError(f) ==
  /\ At(f, "failed")
  /\ UNCHANGED <<server, fresh, mem, storage, invite, history>>
  /\ Fails(f)

\* POST /auth/refresh: a live token is exchanged, a dead one kills its family.
\* The client takes every error for a refusal: one instead of an exchange, and
\* one after it, when the commit went through and its confirmation was lost.
ServerRenews(f) ==
  /\ At(f, "renewing")
  /\ \/ \E s \in Unissued, answer \in {"renewed"} \cup (IF Faulty THEN {"refused"} ELSE {}) :
          /\ Server!Exchange(flow[f].token, s)
          /\ fresh' = fresh \cup {s}
          /\ Goto(f, [flow[f] EXCEPT !.pc = answer, !.token = s])
          /\ UNCHANGED accused
     \/ /\ Faulty
        /\ Goto(f, [flow[f] EXCEPT !.pc = "refused"])
        /\ UNCHANGED <<server, fresh, accused>>
     \/ /\ flow[f].token \notin live
        /\ Server!Close(family[flow[f].token], FamilyOf(flow[f].token))
        /\ Goto(f, [flow[f] EXCEPT !.pc = "refused"])
        /\ accused' = (accused \/ FamilyOf(flow[f].token) \cap live # {})
        /\ UNCHANGED fresh
  /\ UNCHANGED <<mem, storage, screen, invite, signedOut, unserved, disturbed>>

\* The new pair is saved and the call sent again, or the session is dropped.
KeepsOldToken(t, s) == UNCHANGED <<mem, storage>>
Renewed(t, s) == SaveSession(t, s)
ReceiveRenewal(f) ==
  /\ \/ /\ At(f, "renewed")
        /\ Renewed(Tab(f), flow[f].token)
        /\ Goto(f, [flow[f] EXCEPT !.pc = "sent", !.retried = TRUE])
        /\ UNCHANGED screen
     \/ /\ At(f, "refused")
        /\ ClearSession(Tab(f))
        /\ Fails(f)
  /\ UNCHANGED <<server, fresh, invite, history>>
-----------------------------------------------------------------------------
\* ApiClient.logout sends the refresh token it holds; without one it only
\* brings back the sign-in screen.
StartLogout(f, t) ==
  /\ flow[f] = NoFlow
  /\ screen[t] = "open"
  /\ IF mem[t] = None
       THEN Show(t, "auth") /\ UNCHANGED flow
       ELSE /\ Goto(f, [Request(t, "logout") EXCEPT !.pc = "leaving"])
            /\ UNCHANGED screen
  /\ disturbed' = (disturbed \/ Busy # {})
  /\ UNCHANGED <<server, fresh, mem, storage, invite, outcomes>>

\* revoke_refresh_token revokes the one row; an error leaves it as it is.
RevokesNothing(s) == {}
Revokes(s) == {s}
ServerLogsOut(f) ==
  /\ At(f, "leaving")
  /\ \/ /\ Server!Close(family[flow[f].token], Revokes(flow[f].token))
        /\ UNCHANGED unserved
     \/ /\ Faulty
        /\ unserved' = unserved \cup {family[flow[f].token]}
        /\ UNCHANGED server
  /\ Goto(f, [flow[f] EXCEPT !.pc = "left"])
  /\ UNCHANGED <<fresh, mem, storage, screen, invite, signedOut, accused, disturbed>>

\* logout() does not look at the status: every answer clears the session.
ReceiveLogout(f) ==
  /\ At(f, "left")
  /\ ClearSession(Tab(f))
  /\ Show(Tab(f), "auth")
  /\ Goto(f, NoFlow)
  /\ signedOut' = signedOut \cup {family[flow[f].token]}
  /\ UNCHANGED <<server, fresh, invite, unserved, accused, disturbed>>

\* A fetch is rejected.  logout() clears the session in its finally block and
\* passes the error on, so that App does not leave the workspace.
ReplyLost(f) ==
  /\ Faulty
  /\ flow[f] # NoFlow
  /\ IF flow[f].op = "logout"
       THEN ClearSession(Tab(f)) /\ Goto(f, NoFlow) /\ UNCHANGED screen
       ELSE UNCHANGED <<mem, storage>> /\ Fails(f)
  /\ disturbed' = TRUE
  /\ UNCHANGED <<server, fresh, invite, outcomes>>

\* A page load reads localStorage; the flows of the page before it are gone.
\* It is a reload, the link of the invitation, followed as often as the user
\* likes, or another address of the application.
OpenPage(t) ==
  /\ \/ UNCHANGED <<address, reopened>>
     \/ /\ address' = [address EXCEPT ![t] = "invited"]
        /\ reopened' = \/ reopened \/ invitation = "accepted"
                       \/ \E other \in Tabs \ {t} : address[other] = "invited"
     \/ address' = [address EXCEPT ![t] = "plain"] /\ UNCHANGED reopened
  /\ Faulty \/ \A f \in Busy : Tab(f) # t
  /\ mem' = [mem EXCEPT ![t] = storage]
  /\ Show(t, IF storage = None THEN "auth" ELSE "loading")
  /\ flow' = [f \in Flows |-> IF f \in Busy /\ Tab(f) = t THEN NoFlow ELSE flow[f]]
  /\ disturbed' = \/ disturbed
                  \/ \E f \in Busy : Tab(f) = t
                  \/ \E other \in Tabs \ {t} : mem[other] # None
  /\ UNCHANGED <<server, fresh, storage, invitation, outcomes>>

\* The "Try again" button.
TryAgain(t) ==
  /\ screen[t] = "error"
  /\ Show(t, "loading")
  /\ UNCHANGED <<server, fresh, mem, storage, flow, invite, history>>

\* access_token_ttl_minutes have passed.  Bound of the model: an access token
\* expires only while the server still has a pair to renew it with.
AccessExpires(s) ==
  /\ s \in fresh
  /\ Unissued # {}
  /\ fresh' = fresh \ {s}
  /\ UNCHANGED <<server, mem, storage, screen, flow, invite, history>>

Progress(f) ==
  \/ ServerAnswers(f) \/ ReceiveOk(f) \/ ReceiveDenied(f) \/ ReceiveError(f)
  \/ ServerRenews(f) \/ ReceiveRenewal(f)
  \/ ServerLogsOut(f) \/ ReceiveLogout(f)

Next ==
  \/ \E t \in Tabs : Login(t) \/ OpenPage(t) \/ TryAgain(t)
  \/ \E f \in Flows, t \in Tabs : StartRequest(f, t) \/ StartLogout(f, t)
  \/ \E f \in Flows : Progress(f) \/ ReplyLost(f)
  \/ \E s \in SessionIds : AccessExpires(s)

Spec == Init /\ [][Next]_vars

\* Server and event loop make progress; the user of a load that failed keeps
\* trying, and the load of a workspace that is shown as loading does start.
Fairness ==
  /\ \A f \in Flows : WF_vars(Progress(f))
  /\ \A t \in Tabs : /\ WF_vars(TryAgain(t))
                     /\ WF_vars(screen[t] = "loading" /\ \E f \in Flows : StartRequest(f, t))

FairSpec == Spec /\ Fairness
-----------------------------------------------------------------------------
\* Type invariant.
TypeOK ==
  /\ family \in [SessionIds -> Token] /\ owner \in [SessionIds -> {User, None}]
  /\ live \subseteq SessionIds /\ fresh \subseteq SessionIds
  /\ mem \in [Tabs -> Token] /\ storage \in Token
  /\ screen \in [Tabs -> {"auth", "loading", "error", "open"}]
  /\ invitation \in {"sent", "accepted"}
  /\ address \in [Tabs -> {"plain", "invited", "cleaned"}]
  /\ flow \in [Flows -> FlowState \cup {NoFlow}]
  /\ signedOut \subseteq SessionIds /\ unserved \subseteq SessionIds
  /\ accused \in BOOLEAN /\ reopened \in BOOLEAN /\ disturbed \in BOOLEAN

\* ADR 0004, session continuity: as long as its calls come one at a time, every
\* reply arrives and no second tab shares the session, a client that only runs
\* this code never loses a live session because it is taken for a thief that
\* replays an old token.
OnlyDisturbedIsAccused == accused => disturbed

\* Of such a client, the refresh token it holds between two calls can be
\* exchanged: each renewal and each logout leaves client and server agreed.
HoldsLiveToken ==
  \A t \in Tabs : mem[t] # None /\ Busy = {} /\ ~disturbed => mem[t] \in live

\* api-workflows.md, step 6: the logout of such a client ends the session.  No
\* tab and no storage has a token of the family any more, and the server would
\* exchange one only if it answered the logout with an error, which the client
\* takes for success.
LogoutEndsSession ==
  ~disturbed =>
    /\ \A s \in live : family[s] \in signedOut => family[s] \in unserved
    /\ \A t \in Tabs : mem[t] # None => family[mem[t]] \notin signedOut
    /\ storage # None => family[storage] \notin signedOut

\* The token of an invitation leaves an address only once the server has accepted
\* it, and no workspace opens before it has left.  Between two calls a tab carries
\* a token that is spent, and then fails to load for good, only if the link was
\* opened again, a reply was lost or two calls were under way at once.
InvitationIsUsedOnce ==
  \A t \in Tabs :
    /\ address[t] = "cleaned" => invitation = "accepted"
    /\ screen[t] = "open" => address[t] # "invited"
    /\ address[t] = "invited" /\ invitation = "accepted" /\ Busy = {} =>
         disturbed \/ reopened

\* Session continuity: a load that starts with a live refresh token ends in
\* the workspace, or in a sign-in when the session is gone, unless the user has
\* followed the link of an invitation.
WorkspaceOpens ==
  \A t \in Tabs :
    screen[t] = "loading" /\ mem[t] \in live ~>
      screen[t] \in {"open", "auth"} \/ address[t] = "invited"
=============================================================================
