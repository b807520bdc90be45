------------------------------ MODULE Session ------------------------------
(***************************************************************************)
(* Accounts and the session of one browser tab: registration and sign-in   *)
(* on the server (services/auth.py) and the auth store of the tab          *)
(* (stores/auth.ts).  The tabs of a browser share one token in             *)
(* localStorage; what the other tabs do to it is OtherTab.  A token stands *)
(* for its account; one that has expired is a request that fails.          *)
(***************************************************************************)
EXTENDS Naturals, FiniteSets

CONSTANTS
    Accounts,   \* e-mail addresses, normalised
    Existing,   \* those that have an account to begin with
    Nobody      \* no account, no token

ASSUME SessionAssumption == Nobody \notin Accounts /\ Existing \subseteq Accounts

VARIABLES
    users,      \* users[a]: rows of the users table with this address
    reg,        \* reg[r]: a registration at work on the server
    storage,    \* the token in localStorage
    tab,        \* the auth store of the tab
    auth,       \* the request of the auth store that is under way
    foreign     \* another tab has changed the token since this one did or read it

sessionVars == <<users, reg, storage, tab, auth, foreign>>

\* A registration by this tab, and one by any other client.
Registrations == {"own", "other"}

RegSteps == {"idle", "checking", "inserting", "created", "conflict"}

Tabs == [token : Accounts \cup {Nobody},
         user  : Accounts \cup {Nobody},
         ready : BOOLEAN]               \* initialized

\* sent: the token a request for the current user was sent with.
Flows == [step    : {"idle", "restoring", "logging", "fetching", "registering"},
          account : Accounts \cup {Nobody},
          sent    : Accounts \cup {Nobody}]

NoFlow == [step |-> "idle", account |-> Nobody, sent |-> Nobody]
NoReg == [step |-> "idle", account |-> Nobody]
NewTab(token) == [token |-> token, user |-> Nobody, ready |-> FALSE]

SessionInit ==
    /\ users = [a \in Accounts |-> IF a \in Existing THEN 1 ELSE 0]
    /\ reg = [r \in Registrations |-> NoReg]
    /\ storage = Nobody
    /\ tab = NewTab(Nobody)
    /\ auth = NoFlow
    /\ foreign = FALSE

Has(a) == users[a] > 0

IsAuthenticated == tab.token # Nobody /\ tab.user # Nobody

-----------------------------------------------------------------------------
(* The server *)

\* register: the look-up,
Check(r) ==
    /\ reg[r].step = "checking"
    /\ reg' = [reg EXCEPT ![r].step = IF Has(reg[r].account) THEN "conflict" ELSE "inserting"]
    /\ UNCHANGED <<users, storage, tab, auth, foreign>>

\* Variant: no unique constraint on the address.
InsertAnyway(r) ==
    /\ reg[r].step = "inserting"
    /\ users' = [users EXCEPT ![reg[r].account] = @ + 1]
    /\ reg' = [reg EXCEPT ![r].step = "created"]
    /\ UNCHANGED <<storage, tab, auth, foreign>>

\* and the insert with its commit, which the unique constraint lets one of two
\* registrations do.
Insert(r) ==
    /\ reg[r].step = "inserting"
    /\ IF Has(reg[r].account)
       THEN /\ reg' = [reg EXCEPT ![r].step = "conflict"]
            /\ UNCHANGED users
       ELSE /\ reg' = [reg EXCEPT ![r].step = "created"]
            /\ users' = [users EXCEPT ![reg[r].account] = 1]
    /\ UNCHANGED <<storage, tab, auth, foreign>>

\* Another client registers an address; one that has a row already is left to the tab.
OtherRegisters(a) ==
    /\ reg["other"].step = "idle"
    /\ ~Has(a)
    /\ reg' = [reg EXCEPT !["other"] = [step |-> "checking", account |-> a]]
    /\ UNCHANGED <<users, storage, tab, auth, foreign>>

Done(r) == reg[r].step \in {"created", "conflict"}

\* A registration no client waits for any more leaves the server.
Forget(r) ==
    /\ Done(r)
    /\ r = "other" \/ auth.step # "registering"
    /\ reg' = [reg EXCEPT ![r] = NoReg]
    /\ UNCHANGED <<users, storage, tab, auth, foreign>>

-----------------------------------------------------------------------------
(* The tab *)

\* Variant: the token is kept in the store and not in localStorage.
SaveTokenInStore(a, user) ==
    /\ tab' = [tab EXCEPT !.token = a, !.user = user]
    /\ foreign' = FALSE
    /\ UNCHANGED storage

SaveToken(a, user) ==
    /\ tab' = [tab EXCEPT !.token = a, !.user = user]
    /\ storage' = a
    /\ foreign' = FALSE

\* Every failure clears the session, localStorage included: for the other tabs too.
ClearSession ==
    /\ tab' = [token |-> Nobody, user |-> Nobody, ready |-> TRUE]
    /\ storage' = Nobody
    /\ foreign' = FALSE

Server == <<users, reg>>

\* beforeEach of the first navigation: restore().
Restore ==
    /\ ~tab.ready
    /\ auth.step = "idle"
    /\ IF tab.token = Nobody
       THEN tab' = [tab EXCEPT !.ready = TRUE] /\ UNCHANGED auth
       ELSE auth' = [NoFlow EXCEPT !.step = "restoring", !.sent = storage] /\ UNCHANGED tab
    /\ UNCHANGED <<Server, storage, foreign>>

\* The current user comes for the token that was sent, or an error does: the token
\* has expired, or no answer came within the client's 5 seconds.
Restored ==
    /\ auth.step = "restoring"
    /\ auth' = NoFlow
    /\ \/ /\ auth.sent # Nobody
          /\ tab' = [tab EXCEPT !.user = auth.sent, !.ready = TRUE]
          /\ UNCHANGED <<storage, foreign>>
       \/ ClearSession
    /\ UNCHANGED Server

\* The sign-in and registration forms are for guests; one shared flag disables the
\* buttons of both while a request is under way.
CanSubmit == tab.ready /\ auth.step = "idle" /\ ~IsAuthenticated

Login(a) ==
    /\ CanSubmit
    /\ auth' = [NoFlow EXCEPT !.step = "logging", !.account = a]
    /\ UNCHANGED <<Server, storage, tab, foreign>>

\* A token, with which the current user is asked for at once; or an error.
LoggedIn ==
    /\ auth.step = "logging"
    /\ \/ /\ Has(auth.account)
          /\ SaveToken(auth.account, Nobody)
          /\ auth' = [auth EXCEPT !.step = "fetching", !.sent = storage']
       \/ ClearSession /\ auth' = NoFlow
    /\ UNCHANGED Server

UserFetched ==
    /\ auth.step = "fetching"
    /\ auth' = NoFlow
    /\ \/ /\ auth.sent # Nobody
          /\ tab' = [tab EXCEPT !.user = auth.sent]
          /\ UNCHANGED <<storage, foreign>>
       \/ ClearSession
    /\ UNCHANGED Server

Register(a) ==
    /\ CanSubmit
    /\ reg["own"].step = "idle"
    /\ reg' = [reg EXCEPT !["own"] = [step |-> "checking", account |-> a]]
    /\ auth' = [NoFlow EXCEPT !.step = "registering", !.account = a]
    /\ UNCHANGED <<users, storage, tab, foreign>>

\* 201 with user and token, or 409.
Registered ==
    /\ auth.step = "registering"
    /\ Done("own")
    /\ auth' = NoFlow
    /\ reg' = [reg EXCEPT !["own"] = NoReg]
    /\ IF reg["own"].step = "created" THEN SaveToken(auth.account, auth.account)
       ELSE UNCHANGED <<storage, tab, foreign>>
    /\ UNCHANGED users

\* The client gives up; the server does not.
RegisterTimesOut ==
    /\ auth.step = "registering"
    /\ auth' = NoFlow
    /\ UNCHANGED <<Server, storage, tab, foreign>>

Logout ==
    /\ IsAuthenticated
    /\ auth.step = "idle"
    /\ ClearSession
    /\ UNCHANGED <<Server, auth>>

\* The tab is loaded anew.
Reload ==
    /\ tab' = NewTab(storage)
    /\ auth' = NoFlow
    /\ foreign' = FALSE
    /\ UNCHANGED <<Server, storage>>

\* Another tab signs in or out, or fails to.
OtherTab ==
    /\ \E token \in {a \in Accounts : Has(a)} \cup {Nobody} : storage' = token
    /\ foreign' = TRUE
    /\ UNCHANGED <<Server, tab, auth>>

Registration ==
    \/ \E r \in Registrations : Check(r) \/ Insert(r) \/ Forget(r)
    \/ \E a \in Accounts : OtherRegisters(a) \/ Register(a)
    \/ Registered \/ RegisterTimesOut

SessionStep ==
    \/ \E a \in Accounts : Login(a)
    \/ Restore \/ Restored \/ LoggedIn \/ UserFetched

\* Steps that leave the page the tab shows.
SessionEnds == Logout \/ Reload

-----------------------------------------------------------------------------
(* Properties *)

SessionTypeOK ==
    /\ users \in [Accounts -> Nat]
    /\ reg \in [Registrations -> [step : RegSteps, account : Accounts \cup {Nobody}]]
    /\ storage \in Accounts \cup {Nobody}
    /\ tab \in Tabs
    /\ auth \in Flows
    /\ foreign \in BOOLEAN

\* Of two registrations that both found the address free one wins: an address never
\* has two rows (get_by_email would raise for every later sign-in), not both clients
\* are told they registered it, and whoever is told 201 or 409 can find the account
\* there.
RegistrationIsDecided ==
    /\ \A a \in Accounts : users[a] <= 1
    /\ \A r \in Registrations : Done(r) => Has(reg[r].account)
    /\ \A r, s \in Registrations :
        (r # s /\ reg[r].step = "created" /\ reg[s].step = "created") =>
            reg[r].account # reg[s].account
=============================================================================
