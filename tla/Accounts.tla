------------------------------ MODULE Accounts ------------------------------
(***************************************************************************)
(* Registration and sign-in (register and issue_token of api/routes/auth).  *)
(* An email may be typed in any case; a password stands for the person who  *)
(* chose it.  A registration checks and commits in two steps with no lock   *)
(* in between, and its answer may get lost.                                 *)
(***************************************************************************)
EXTENDS FiniteSets

CONSTANTS
  Emails,      \* emails as the database keeps them
  Cases,       \* the ways to type one; "lower" is the one that is kept
  People,      \* who registers and signs in, each with a password of his own
  Forms        \* registrations under way at once

VARIABLES
  users,       \* the rows: which email was registered by whom
  form,        \* form[h]: a registration under way
  sessions,    \* users who have signed in
  answered,    \* history: registrations that were answered 201
  lockedOut    \* history: someone answered 201 was later refused a sign-in

vars == <<users, form, sessions, answered, lockedOut>>

Typed == Emails \X Cases
NoForm == [step |-> "none"]
Form == [step : {"checked", "committed"}, typed : Typed, by : People]

\* email.lower(), before the check, in the row and in the sign-in.
Lower(typed) == <<typed[1], "lower">>

Init ==
  /\ users = {}
  /\ form = [h \in Forms |-> NoForm]
  /\ sessions = {} /\ answered = {} /\ lockedOut = FALSE
-----------------------------------------------------------------------------
Registered(typed) == \E u \in users : u.email = Lower(typed)
Row(h) == [email |-> Lower(form[h].typed), by |-> form[h].by]
Leave(h) == form' = [form EXCEPT ![h] = NoForm]

\* The SELECT; a taken email is answered 409.
CheckEmail(h) ==
  /\ form[h] = NoForm
  /\ \E typed \in Typed, p \in People :
       /\ ~Registered(typed)
       /\ form' = [form EXCEPT ![h] = [step |-> "checked", typed |-> typed, by |-> p]]
  /\ UNCHANGED <<users, sessions, answered, lockedOut>>

\* The INSERT, unless the unique index on users.email refuses it (500).
IndexIgnored(email) == TRUE
IndexAllows(email) == \A u \in users : u.email # email
CommitUser(h) ==
  /\ form[h].step = "checked"
  /\ IndexAllows(Row(h).email)
  /\ users' = users \cup {Row(h)}
  /\ form' = [form EXCEPT ![h].step = "committed"]
  /\ UNCHANGED <<sessions, answered, lockedOut>>
FailUser(h) ==
  /\ form[h].step = "checked"
  /\ ~IndexAllows(Row(h).email)
  /\ Leave(h)
  /\ UNCHANGED <<users, sessions, answered, lockedOut>>

\* 201, after the row was read back.
AnswerRegister(h) ==
  /\ form[h].step = "committed"
  /\ answered' = answered \cup {Row(h)}
  /\ Leave(h)
  /\ UNCHANGED <<users, sessions, lockedOut>>

\* The process, the database or the client goes away, before or after the commit.
AbortRegister(h) ==
  /\ form[h] # NoForm
  /\ Leave(h)
  /\ UNCHANGED <<users, sessions, answered, lockedOut>>

\* POST /auth/token: the row of the email decides, and its password (401).
KnowsPassword(typed, p) == [email |-> Lower(typed), by |-> p] \in users
SignIn(typed, p) ==
  /\ IF KnowsPassword(typed, p)
       THEN /\ sessions' = sessions \cup {[email |-> Lower(typed), by |-> p]}
            /\ UNCHANGED lockedOut
       ELSE /\ lockedOut' = (lockedOut \/ \E u \in answered :
                                            u.email[1] = typed[1] /\ u.by = p)
            /\ UNCHANGED sessions
  /\ UNCHANGED <<users, form, answered>>

Next ==
  \/ \E h \in Forms : \/ CheckEmail(h) \/ CommitUser(h) \/ FailUser(h)
                      \/ AnswerRegister(h) \/ AbortRegister(h)
  \/ \E typed \in Typed, p \in People : SignIn(typed, p)

Spec == Init /\ [][Next]_vars
-----------------------------------------------------------------------------
\* Type invariant.
TypeOK ==
  /\ users \subseteq [email : Typed, by : People]
  /\ form \in [Forms -> Form \cup {NoForm}]
  /\ answered \subseteq users /\ sessions \subseteq users
  /\ lockedOut \in BOOLEAN

\* Of the people who register one email, in any cases and at the same time, at
\* most one gets it, nobody else is told so, and he can sign in however he
\* types it.
EmailHasOneOwner ==
  /\ \A u, v \in users : u.email[1] = v.email[1] => u = v
  /\ ~lockedOut
=============================================================================
