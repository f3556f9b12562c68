------------------------------ MODULE WebPages ------------------------------
(***************************************************************************)
(* The documents page of the web workspace (web/src/pages/DocumentsPage),  *)
(* while the user switches between organizations.  The page is not mounted *)
(* anew by a switch: it keeps its state and loads again.  A call uses the  *)
(* organization that was selected when it was made, and so does the load   *)
(* that follows it; answers come in any order.  The other pages load their *)
(* lists in the same way.                                                  *)
(***************************************************************************)
EXTENDS FiniteSets

CONSTANTS
  Orgs,
  Calls,    \* calls of the page under way at once
  None

VARIABLES
  selected,     \* the selected organization
  mounted,      \* whether the page is open
  documents,    \* the organization whose documents are listed, or None
  properties,   \* the one whose properties can be chosen, None if there are none
  propertyId,   \* the organization of the chosen property, or None
  call,         \* call[c]: a call under way
  has,          \* the server's organizations that have a property
  uploads,      \* history: what the page has asked the server to store
  switched,     \* history: a switch of organization since the page was mounted
  overtaken,    \* history: a switch while a call was under way
  failed        \* history: a load that failed

state == <<documents, properties, propertyId>>
history == <<switched, overtaken, failed>>
vars == <<selected, mounted, state, call, has, uploads, history>>

Idle == [op |-> "none"]
Call == [op : {"load", "upload", "reload", "remove"}, org : Orgs, about : Orgs \cup {None}]
Busy == {c \in Calls : call[c] # Idle}

Init ==
  /\ selected \in Orgs
  /\ mounted = FALSE
  /\ documents = None /\ properties = None /\ propertyId = None
  /\ call = [c \in Calls |-> Idle]
  /\ has = {}
  /\ uploads = {}
  /\ switched = FALSE /\ overtaken = FALSE /\ failed = FALSE

Make(c, op, org, about) ==
  /\ call[c] = Idle
  /\ call' = [call EXCEPT ![c] = [op |-> op, org |-> org, about |-> about]]
-----------------------------------------------------------------------------
\* A page that is mounted has its initial state and loads.
KeptChoice(choice) == choice
InitialChoice(choice) == None
Mount(c) ==
  /\ ~mounted /\ mounted' = TRUE
  /\ documents' = None /\ properties' = None
  /\ propertyId' = InitialChoice(propertyId)
  /\ Make(c, "load", selected, None)
  /\ switched' = FALSE /\ overtaken' = FALSE /\ failed' = FALSE
  /\ UNCHANGED <<selected, has, uploads>>

\* Answers to a page that is gone change nothing that is shown.
Unmount ==
  /\ mounted /\ mounted' = FALSE
  /\ call' = [c \in Calls |-> Idle]
  /\ UNCHANGED <<selected, state, has, uploads, history>>

\* selectOrganization; the effect of a mounted page depends on the id and loads.
LoadsOnce(c) == UNCHANGED call
LoadsAgain(c) == Make(c, "load", selected', None)
Switch(c) ==
  /\ selected' \in Orgs \ {selected}
  /\ IF mounted THEN LoadsAgain(c) ELSE UNCHANGED call
  /\ switched' = TRUE
  /\ overtaken' = (overtaken \/ Busy # {})
  /\ UNCHANGED <<mounted, state, has, uploads, failed>>

\* The user picks one of the listed properties.
Pick ==
  /\ mounted /\ properties # None
  /\ propertyId' = properties
  /\ UNCHANGED <<selected, mounted, documents, properties, call, has, uploads, history>>

\* upload sends the chosen property, one file at a time; upload_document asks
\* nobody whether the organization has it.  remove sends a listed document.
Uploading == \E c \in Calls : call[c].op \in {"upload", "reload"}
StartUpload(c) ==
  /\ propertyId # None /\ ~Uploading
  /\ Make(c, "upload", selected, propertyId)
  /\ uploads' = uploads \cup {[org |-> selected, property |-> propertyId,
                              after |-> switched]}
StartRemove(c) ==
  /\ documents # None
  /\ Make(c, "remove", selected, documents)
  /\ UNCHANGED uploads
StartCall(c) ==
  /\ mounted
  /\ StartUpload(c) \/ StartRemove(c)
  /\ UNCHANGED <<selected, mounted, state, has, history>>

\* Both lists have arrived; without a choice the first property is chosen.
Loaded(c) ==
  /\ call[c].op \in {"load", "reload"}
  /\ LET first == IF call[c].org \in has THEN call[c].org ELSE None IN
       /\ documents' = call[c].org
       /\ properties' = first
       /\ propertyId' = IF propertyId # None THEN propertyId ELSE first
  /\ call' = [call EXCEPT ![c] = Idle]
  /\ UNCHANGED <<selected, mounted, has, uploads, history>>

\* The answer to an upload or a removal is followed by a load; find_document
\* refuses to remove a document of another organization.
Follow(op) == IF op = "upload" THEN "reload" ELSE "load"
Done(c) ==
  /\ \/ call[c].op = "upload"
     \/ call[c].op = "remove" /\ call[c].about = call[c].org
  /\ call' = [call EXCEPT ![c] = [op |-> Follow(@.op), org |-> @.org, about |-> None]]
  /\ UNCHANGED <<selected, mounted, state, has, uploads, history>>

\* A refusal or a lost reply is reported, and what is shown stays.
Fails(c) ==
  /\ call[c] # Idle
  /\ call' = [call EXCEPT ![c] = Idle]
  /\ failed' = (failed \/ call[c].op = "load")
  /\ UNCHANGED <<selected, mounted, state, has, uploads, switched, overtaken>>

\* Somebody adds the first property of an organization.
AddProperty ==
  /\ \E o \in Orgs : has' = has \cup {o}
  /\ UNCHANGED <<selected, mounted, state, call, uploads, history>>

Next ==
  \/ Unmount \/ Pick \/ AddProperty
  \/ \E c \in Calls : Mount(c) \/ Switch(c) \/ StartCall(c)
                    \/ Loaded(c) \/ Done(c) \/ Fails(c)

Spec == Init /\ [][Next]_vars
-----------------------------------------------------------------------------
\* Type invariant.
TypeOK ==
  /\ selected \in Orgs /\ mounted \in BOOLEAN
  /\ documents \in Orgs \cup {None}
  /\ properties \in Orgs \cup {None} /\ propertyId \in Orgs \cup {None}
  /\ call \in [Calls -> Call \cup {Idle}]
  /\ has \subseteq Orgs
  /\ uploads \subseteq [org : Orgs, property : Orgs, after : BOOLEAN]
  /\ switched \in BOOLEAN /\ overtaken \in BOOLEAN /\ failed \in BOOLEAN

\* What the page lists when it waits for nothing belongs to the selected
\* organization, after any number of switches, uploads and removals, however
\* their answers are ordered, unless the organization was switched while a call
\* was under way (its answer comes last) or a load failed (the old list stays).
ShownIsSelected ==
  mounted /\ Busy = {} /\ documents # None /\ ~overtaken /\ ~failed =>
    documents = selected /\ properties \in {selected, None}

\* A document is filed under a property of its own organization, unless the
\* organization was switched on the open page, which keeps the old choice.
UploadsNameOwnProperty == \A u \in uploads : u.property = u.org \/ u.after
=============================================================================
