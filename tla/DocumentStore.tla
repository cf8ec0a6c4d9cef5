---------------------------- MODULE DocumentStore ----------------------------
(* What the editor promises the user of one window about their documents,      *)
(* whatever FileService, storage and the Ace editor do to keep it: documents   *)
(* that survive the window, a working copy of each while the window is there,  *)
(* tabs, and one tab in front.                                                 *)
CONSTANTS
  Docs,    \* documents
  NoDoc,   \* no document is in front
  Names,   \* names of documents
  Texts,   \* texts
  Blank    \* the text of a new document

VARIABLES
  saved,    \* document -> its name and text, a partial function
  tabs,     \* the documents that have a tab
  current,  \* the document in front
  present,  \* whether the window is there
  working,  \* document -> its text on the screen, while the window is there
  marked    \* the documents shown with the unsaved mark

durable == <<saved, tabs, current>>
vars == <<durable, present, working, marked>>

\* The mark is exact after every step.
Marking ==
  marked' = {d \in DOMAIN working' : working'[d] # saved'[d].text}

\* A document goes to the front, its tab being made if there is none.
Front(d) == current' = d /\ tabs' = tabs \cup {d}

\* The tab of d goes; if it was in front, another one comes there, if any.
Drop(d) ==
  /\ tabs' = tabs \ {d}
  /\ current' \in IF d # current THEN {current}
                  ELSE IF tabs = {d} THEN {NoDoc} ELSE tabs \ {d}

Init ==
  /\ saved = <<>>
  /\ tabs = {}
  /\ current = NoDoc
  /\ present = FALSE
  /\ working = <<>>
  /\ marked = {}

\* The window opens: the documents are as they were last saved.
Start ==
  /\ ~present
  /\ present' = TRUE
  /\ working' = [d \in DOMAIN saved |-> saved[d].text]
  /\ Marking
  /\ UNCHANGED durable

\* The window goes, and with it what was not saved.
Stop ==
  /\ present
  /\ present' = FALSE
  /\ working' = <<>>
  /\ Marking
  /\ UNCHANGED durable

Create(d, name) ==
  /\ present
  /\ d \notin DOMAIN saved
  /\ saved' = [e \in DOMAIN saved \cup {d} |->
                 IF e = d THEN [name |-> name, text |-> Blank] ELSE saved[e]]
  /\ working' = [e \in DOMAIN working \cup {d} |-> IF e = d THEN Blank ELSE working[e]]
  /\ Front(d)
  /\ Marking
  /\ UNCHANGED present

Rename(d, name) ==
  /\ present
  /\ d \in DOMAIN saved
  /\ saved' = [saved EXCEPT ![d].name = name]
  /\ Marking
  /\ UNCHANGED <<tabs, current, present, working>>

Choose(d) ==
  /\ present
  /\ d \in DOMAIN saved
  /\ Front(d)
  /\ UNCHANGED <<saved, present, working, marked>>

Close(d) ==
  /\ present
  /\ d \in tabs
  /\ Drop(d)
  /\ UNCHANGED <<saved, present, working, marked>>

Delete(d) ==
  /\ present
  /\ d \in DOMAIN saved
  /\ saved' = [e \in DOMAIN saved \ {d} |-> saved[e]]
  /\ working' = [e \in DOMAIN working \ {d} |-> working[e]]
  /\ Drop(d)
  /\ Marking
  /\ UNCHANGED present

Type(text) ==
  /\ present
  /\ current # NoDoc
  /\ working' = [working EXCEPT ![current] = text]
  /\ Marking
  /\ UNCHANGED <<durable, present>>

Save ==
  /\ present
  /\ current # NoDoc
  /\ saved' = [saved EXCEPT ![current].text = working[current]]
  /\ Marking
  /\ UNCHANGED <<tabs, current, present, working>>

Next ==
  \/ Start
  \/ Stop
  \/ Save
  \/ \E text \in Texts : Type(text)
  \/ \E d \in Docs :
       \/ Choose(d)
       \/ Close(d)
       \/ Delete(d)
       \/ \E name \in Names : Create(d, name) \/ Rename(d, name)

Spec == Init /\ [][Next]_vars
=============================================================================
