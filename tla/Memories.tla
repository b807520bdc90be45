------------------------------ MODULE Memories ------------------------------
(***************************************************************************)
(* Long-term memories: the service (services/long_term_memories.py) and    *)
(* the page of one tab (views/MemoriesView.vue) over the tab's session.    *)
(* Each request is sent with the token localStorage has at that moment,    *)
(* served at some time, and its reply is heard, lost, or comes after the   *)
(* page has given up on it; replies overtake each other.                   *)
(***************************************************************************)
EXTENDS Session

CONSTANTS
    Ids,        \* memories that may ever be created
    Calls       \* requests the page may have under way

\* What rows[m] holds besides an owner is no account.
ASSUME MemoryAssumption == Accounts \cap {"unborn", "deleted"} = {}

VARIABLES
    rows,       \* rows[m]: who owns memory m, "unborn" or "deleted"
    page,       \* the page
    calls,      \* its requests
    made,       \* memories created from the dialog that is open, or was last
    retried,    \* a save of that dialog was given up
    gone        \* memories the page deleted while no list was under way

pageVars == <<page, calls, made, retried, gone>>
vars == <<sessionVars, rows, pageVars>>

\* The page lists copies: a memory and its owner.
Listed == [id : Ids, owner : Accounts]

\* dialog: closed, for a new memory, or for one that is edited; which one and what
\* is written into it makes no difference here.
Pages == [open    : BOOLEAN,
          shown   : SUBSET Listed,
          dialog  : {"closed", "new", "edit"},
          loading : BOOLEAN,
          saving  : BOOLEAN]

NoPage == [open |-> FALSE, shown |-> {}, dialog |-> "closed", loading |-> FALSE, saving |-> FALSE]

\* kind: "after" is the list a save asks for when it is done.  target: the memory that
\* is removed. heard: the page still waits for it.  own: sent by the dialog that is
\* open, or was last.
CallStates ==
    [kind   : {"none", "load", "after", "create", "update", "remove"},
     as     : Accounts \cup {Nobody},
     target : Ids \cup {Nobody},
     reply  : {"none", "ok", "error"},
     items  : SUBSET Listed,
     heard  : BOOLEAN,
     own    : BOOLEAN]

NoCall == [kind |-> "none", as |-> Nobody, target |-> Nobody, reply |-> "none", items |-> {},
           heard |-> FALSE, own |-> FALSE]

Lists == {"load", "after"}
Saves == {"create", "update"}

Init ==
    /\ SessionInit
    /\ rows = [m \in Ids |-> "unborn"]
    /\ page = NoPage
    /\ calls = [c \in Calls |-> NoCall]
    /\ made = {}
    /\ retried = FALSE
    /\ gone = {}

-----------------------------------------------------------------------------
(* The service *)

Owned(a) == {m \in Ids : rows[m] = a}

\* A reply nobody waits for ends the call.
Answer(c, reply, items) ==
    calls' = [calls EXCEPT ![c] =
                 IF @.heard THEN [@ EXCEPT !.reply = reply, !.items = items] ELSE NoCall]

Awaiting(c, kinds) == calls[c].kind \in kinds /\ calls[c].reply = "none"

ServeList(c) ==
    /\ Awaiting(c, Lists)
    /\ calls[c].as # Nobody
    /\ Answer(c, "ok", {[id |-> m, owner |-> calls[c].as] : m \in Owned(calls[c].as)})
    /\ UNCHANGED <<rows, made, retried, gone, page>>

\* Variant: the route does not ask for a current user.
ServeCreateForAnyone(c) ==
    /\ Awaiting(c, {"create"})
    /\ \E m \in Ids :
        /\ rows[m] = "unborn"
        /\ rows' = [rows EXCEPT ![m] = calls[c].as]
        /\ made' = IF calls[c].own THEN made \cup {m} ELSE made
    /\ Answer(c, "ok", {})
    /\ UNCHANGED <<page, retried, gone>>

ServeCreate(c) ==
    /\ Awaiting(c, {"create"})
    /\ calls[c].as # Nobody
    /\ \E m \in Ids :
        /\ rows[m] = "unborn"
        /\ rows' = [rows EXCEPT ![m] = calls[c].as]
        /\ made' = IF calls[c].own THEN made \cup {m} ELSE made
    /\ Answer(c, "ok", {})
    /\ UNCHANGED <<page, retried, gone>>

\* PATCH of one of the user's memories; whose it is does not change.
ServeUpdate(c) ==
    /\ Awaiting(c, {"update"})
    /\ calls[c].as # Nobody
    /\ Owned(calls[c].as) # {}
    /\ Answer(c, "ok", {})
    /\ UNCHANGED <<rows, page, made, retried, gone>>

\* Variant: the delete is not committed.
ServeRemoveUncommitted(c) ==
    /\ Awaiting(c, {"remove"})
    /\ calls[c].target \in Owned(calls[c].as)
    /\ Answer(c, "ok", {})
    /\ UNCHANGED <<rows, page, made, retried, gone>>

ServeRemove(c) ==
    /\ Awaiting(c, {"remove"})
    /\ calls[c].target \in Owned(calls[c].as)
    /\ rows' = [rows EXCEPT ![calls[c].target] = "deleted"]
    /\ Answer(c, "ok", {})
    /\ UNCHANGED <<page, made, retried, gone>>

\* 401 (no token, or an expired one), 404 (not this user's, or deleted meanwhile, on
\* another device perhaps), or no connection: nothing is changed.
Refuse(c) ==
    /\ Awaiting(c, Lists \cup Saves \cup {"remove"})
    /\ Answer(c, "error", {})
    /\ UNCHANGED <<rows, page, made, retried, gone>>

-----------------------------------------------------------------------------
(* The page *)

Free(c) == calls[c].kind = "none"

\* Bound: a page is opened, and accounts are registered, when no request of an earlier
\* page is under way any more; other tabs change the token between requests.
Quiet == ~page.open /\ \A c \in Calls : Free(c)

Request(kind, target) ==
    [NoCall EXCEPT !.kind = kind, !.as = storage, !.target = target, !.heard = TRUE,
                   !.own = (kind \in Saves)]

Send(c, kind, target) == calls' = [calls EXCEPT ![c] = Request(kind, target)]

OpenPage(c) ==
    /\ IsAuthenticated
    /\ auth.step = "idle"
    /\ Quiet
    /\ \A r \in Registrations : reg[r].step = "idle"
    /\ page' = [NoPage EXCEPT !.open = TRUE, !.loading = TRUE]
    /\ Send(c, "load", Nobody)
    /\ gone' = {}
    /\ UNCHANGED <<rows, made, retried>>

\* Search, by the button or, also while a list is loading, by the Enter key.
Load(c) ==
    /\ page.open
    /\ Free(c)
    /\ page' = [page EXCEPT !.loading = TRUE]
    /\ Send(c, "load", Nobody)
    /\ UNCHANGED <<rows, made, retried, gone>>

\* The dialog is opened for a new memory (empty, or with the candidate that was
\* extracted), or for one in the table, which is hidden while a list is loading.
OpenDialog(dialog) ==
    /\ page.open
    /\ page.dialog = "closed"
    /\ dialog = "edit" => ~page.loading /\ page.shown # {}
    /\ page' = [page EXCEPT !.dialog = dialog]
    /\ calls' = [c \in Calls |-> [calls[c] EXCEPT !.own = FALSE]]
    /\ made' = {}
    /\ retried' = FALSE
    /\ UNCHANGED <<rows, gone>>

\* The Cancel button works also while a save is under way.
CancelDialog ==
    /\ page.dialog # "closed"
    /\ page' = [page EXCEPT !.dialog = "closed"]
    /\ UNCHANGED <<rows, calls, made, retried, gone>>

\* Variant: the button stays enabled.
SaveTwice(c) ==
    /\ page.dialog # "closed"
    /\ Free(c)
    /\ page' = [page EXCEPT !.saving = TRUE]
    /\ Send(c, IF page.dialog = "new" THEN "create" ELSE "update", Nobody)
    /\ UNCHANGED <<rows, made, retried, gone>>

\* The Save button is disabled while a save is under way.
Save(c) ==
    /\ page.dialog # "closed"
    /\ ~page.saving
    /\ Free(c)
    /\ page' = [page EXCEPT !.saving = TRUE]
    /\ Send(c, IF page.dialog = "new" THEN "create" ELSE "update", Nobody)
    /\ UNCHANGED <<rows, made, retried, gone>>

Remove(c) ==
    /\ page.open
    /\ page.dialog = "closed"
    /\ ~page.loading
    /\ Free(c)
    /\ \E m \in page.shown : Send(c, "remove", m.id)
    /\ UNCHANGED <<rows, page, made, retried, gone>>

Hears(c, kinds) == calls[c].heard /\ calls[c].kind \in kinds /\ calls[c].reply # "none"

\* A list replaces what is shown; an error leaves it.
HearList(c) ==
    /\ Hears(c, Lists)
    /\ page' = [page EXCEPT !.shown = IF calls[c].reply = "ok" THEN calls[c].items ELSE @,
                            !.loading = FALSE,
                            !.saving = IF calls[c].kind = "after" THEN FALSE ELSE @]
    /\ calls' = [calls EXCEPT ![c] = NoCall]
    /\ UNCHANGED <<rows, made, retried, gone>>

\* A save that worked closes the dialog, whichever is open by then, and asks for the
\* list; one that failed leaves it open.
HearSave(c) ==
    /\ Hears(c, Saves)
    /\ IF calls[c].reply = "ok"
       THEN /\ page' = [page EXCEPT !.dialog = "closed", !.loading = TRUE]
            /\ Send(c, "after", Nobody)
       ELSE /\ page' = [page EXCEPT !.saving = FALSE]
            /\ calls' = [calls EXCEPT ![c] = NoCall]
    /\ UNCHANGED <<rows, made, retried, gone>>

ListUnderWay == \E c \in Calls : calls[c].heard /\ calls[c].kind \in Lists

HearRemove(c) ==
    /\ Hears(c, {"remove"})
    /\ IF calls[c].reply = "ok"
       THEN /\ page' = [page EXCEPT !.shown = {m \in @ : m.id # calls[c].target}]
            /\ gone' = IF ListUnderWay THEN gone ELSE gone \cup {calls[c].target}
       ELSE UNCHANGED <<page, gone>>
    /\ calls' = [calls EXCEPT ![c] = NoCall]
    /\ UNCHANGED <<rows, made, retried>>

\* Nobody waits for the call any more; it goes on if it has not been served.
Unheard(call) ==
    IF call.reply = "none" /\ call.kind # "none"
    THEN [call EXCEPT !.heard = FALSE, !.own = FALSE] ELSE NoCall

\* After 5 seconds, or when the connection is lost, the page takes the call for
\* failed; the server may still do it.
GiveUp(c) ==
    /\ calls[c].heard
    /\ page' = [page EXCEPT !.loading = IF calls[c].kind \in Lists THEN FALSE ELSE @,
                            !.saving = IF calls[c].kind \in Saves \cup {"after"} THEN FALSE ELSE @]
    /\ calls' = [calls EXCEPT ![c] = Unheard(@)]
    /\ retried' = (retried \/ (calls[c].own))
    /\ UNCHANGED <<rows, made, gone>>

\* Another page of the tab is opened, or the session ends: the page and its dialog
\* are gone, what it has sent is not.
Leave ==
    /\ page' = NoPage
    /\ calls' = [c \in Calls |-> Unheard(calls[c])]
    /\ made' = {}
    /\ retried' = FALSE
    /\ gone' = {}
    /\ UNCHANGED rows

ClosePage == page.open /\ Leave

PageStep ==
    \/ \E c \in Calls :
        \/ ServeList(c) \/ ServeCreate(c) \/ ServeUpdate(c) \/ ServeRemove(c) \/ Refuse(c)
        \/ OpenPage(c) \/ Load(c) \/ Save(c) \/ Remove(c)
        \/ HearList(c) \/ HearSave(c) \/ HearRemove(c) \/ GiveUp(c)
    \/ \E dialog \in {"new", "edit"} : OpenDialog(dialog)
    \/ CancelDialog \/ ClosePage

Next ==
    \/ /\ SessionStep \/ (Registration /\ Quiet) \/ (OtherTab /\ \A c \in Calls : Free(c))
       /\ UNCHANGED <<rows, pageVars>>
    \/ SessionEnds /\ Leave
    \/ PageStep /\ UNCHANGED sessionVars

Spec == Init /\ [][Next]_vars

-----------------------------------------------------------------------------
(* Properties *)

\* Rows, store, page and requests hold what their fields admit.
TypeOK ==
    /\ SessionTypeOK
    /\ rows \in [Ids -> Accounts \cup {"unborn", "deleted"}]
    /\ page \in Pages
    /\ calls \in [Calls -> CallStates]
    /\ made \subseteq Ids
    /\ retried \in BOOLEAN
    /\ gone \subseteq Ids

\* As long as no other tab has changed the shared token, a tab that shows a user
\* sends every request as this user and lists this user's memories only, through
\* all sign-ins, registrations, failed restores and late replies.
ActsAsItsUser ==
    (page.open /\ ~foreign) =>
        /\ \A c \in Calls : calls[c].heard => calls[c].as = tab.user
        /\ \A m \in page.shown : m.owner = tab.user

\* However often a save is repeated after an error, one dialog creates one memory,
\* unless the page gave up on a request the server went on with.
SavedOnce == ~retried => Cardinality(made) <= 1

\* A memory the page has deleted while no list was under way is not listed again.
DeletedStaysAway == \A m \in page.shown : m.id \notin gone
=============================================================================
