--------------------------- MODULE MemoriesProofs ---------------------------
(***************************************************************************)
(* Proofs about Memories: types, the race of registrations, who a page     *)
(* acts as, what a dialog saves and what stays deleted, for every set of   *)
(* accounts, memories and requests under way.                              *)
(***************************************************************************)
EXTENDS Memories, FiniteSetTheorems, TLAPS

-----------------------------------------------------------------------------
(* Types *)

LEMMA InitTyped == Init => TypeOK
<1> SUFFICES ASSUME Init PROVE TypeOK
  OBVIOUS
<1>1. SessionTypeOK
  BY SessionAssumption
     DEF Init, SessionInit, SessionTypeOK, SessionAssumption, NoReg, NewTab, NoFlow,
         Registrations, RegSteps, Tabs, Flows
<1>2. page \in Pages /\ calls \in [Calls -> CallStates]
  BY DEF Init, NoPage, NoCall, Pages, CallStates
<1> QED
  BY <1>1, <1>2 DEF Init, TypeOK

\* The values the store and its requests are given.
LEMMA FlowsTyped ==
    ASSUME NEW a \in Accounts \cup {Nobody},
           NEW step \in {"idle", "restoring", "logging", "fetching", "registering"}
    PROVE  /\ [NoFlow EXCEPT !.step = step, !.sent = a] \in Flows
           /\ [NoFlow EXCEPT !.step = step, !.account = a] \in Flows
           /\ NoFlow \in Flows
           /\ \A f \in Flows : [f EXCEPT !.step = step, !.sent = a] \in Flows
BY DEF NoFlow, Flows

LEMMA TabsTyped ==
    ASSUME NEW a \in Accounts \cup {Nobody}
    PROVE  /\ \A t \in Tabs : [t EXCEPT !.user = a] \in Tabs
           /\ \A t \in Tabs : [t EXCEPT !.user = a, !.ready = TRUE] \in Tabs
           /\ NewTab(a) \in Tabs
BY DEF Tabs, NewTab

LEMMA TokenTyped ==
    ASSUME SessionTypeOK, NEW a \in Accounts \cup {Nobody}, NEW b \in Accounts \cup {Nobody},
           SaveToken(a, b) \/ ClearSession
    PROVE  tab' \in Tabs /\ storage' \in Accounts \cup {Nobody} /\ foreign' \in BOOLEAN
<1>1. CASE SaveToken(a, b)
  BY <1>1 DEF SaveToken, SessionTypeOK, Tabs
<1>2. CASE ClearSession
  BY <1>2 DEF ClearSession, Tabs
<1> QED
  BY <1>1, <1>2

\* The registrations at work on the server, and the forms that start one.
LEMMA RegistrationTyped ==
    ASSUME SessionTypeOK, Registration
    PROVE  SessionTypeOK'
<1> USE DEF SessionTypeOK, Registrations, RegSteps
<1>1. CASE \E r \in Registrations : Check(r)
  BY <1>1 DEF Check
<1>2. CASE \E r \in Registrations : Insert(r)
  BY <1>2 DEF Insert
<1>3. CASE \E r \in Registrations : Forget(r)
  BY <1>3 DEF Forget, NoReg
<1>4. CASE \E a \in Accounts : OtherRegisters(a)
  BY <1>4 DEF OtherRegisters
<1>5. ASSUME NEW a \in Accounts, Register(a)
      PROVE  SessionTypeOK'
  <2>1. auth' \in Flows
    BY <1>5, FlowsTyped DEF Register
  <2> QED
    BY <1>5, <2>1 DEF Register
<1>6. CASE Registered
  <2>1. auth' \in Flows
    BY <1>6, FlowsTyped DEF Registered
  <2>2. auth.account \in Accounts \cup {Nobody}
    BY DEF Flows
  <2>3. tab' \in Tabs /\ storage' \in Accounts \cup {Nobody} /\ foreign' \in BOOLEAN
    <3>1. CASE SaveToken(auth.account, auth.account)
      BY <2>2, <3>1, TokenTyped
    <3> QED
      BY <1>6, <3>1 DEF Registered
  <2>4. reg' \in [Registrations -> [step : RegSteps, account : Accounts \cup {Nobody}]]
    BY <1>6 DEF Registered, NoReg
  <2> QED
    BY <1>6, <2>1, <2>3, <2>4 DEF Registered
<1>7. CASE RegisterTimesOut
  BY <1>7, FlowsTyped DEF RegisterTimesOut, Server
<1> QED
  BY <1>1, <1>2, <1>3, <1>4, <1>5, <1>6, <1>7 DEF Registration

LEMMA SessionTyped ==
    ASSUME SessionTypeOK, SessionStep \/ SessionEnds \/ OtherTab
    PROVE  SessionTypeOK'
<1>1. /\ storage \in Accounts \cup {Nobody}
      /\ auth.sent \in Accounts \cup {Nobody}
      /\ auth.account \in Accounts \cup {Nobody}
      /\ Nobody \in Accounts \cup {Nobody}
      /\ tab \in Tabs /\ auth \in Flows
  BY DEF SessionTypeOK, Flows
<1> USE DEF SessionTypeOK, Server
<1>2. ASSUME NEW a \in Accounts, Login(a)
      PROVE  SessionTypeOK'
  <2>1. auth' \in Flows
    BY <1>2, FlowsTyped DEF Login
  <2> QED
    BY <1>2, <2>1 DEF Login
<1>3. CASE Restore
  <2>1. [tab EXCEPT !.ready = TRUE] \in Tabs
    BY <1>1 DEF Tabs
  <2> QED
    BY <1>1, <1>3, <2>1, FlowsTyped DEF Restore
<1>4. CASE Restored
  <2>1. auth' \in Flows
    BY <1>1, <1>4, FlowsTyped DEF Restored
  <2>2. tab' \in Tabs /\ storage' \in Accounts \cup {Nobody} /\ foreign' \in BOOLEAN
    <3>1. CASE ClearSession
      BY <1>1, <3>1, TokenTyped
    <3>2. [tab EXCEPT !.user = auth.sent, !.ready = TRUE] \in Tabs
      BY <1>1, TabsTyped
    <3> QED
      BY <1>1, <1>4, <3>1, <3>2 DEF Restored
  <2> QED
    BY <1>4, <2>1, <2>2 DEF Restored
<1>5. CASE LoggedIn
  <2>1. tab' \in Tabs /\ storage' \in Accounts \cup {Nobody} /\ foreign' \in BOOLEAN
    BY <1>1, <1>5, TokenTyped DEF LoggedIn
  <2>2. auth' \in Flows
    <3>1. [auth EXCEPT !.step = "fetching", !.sent = storage'] \in Flows
      BY <1>1, <2>1, FlowsTyped
    <3> QED
      BY <1>5, <3>1, FlowsTyped DEF LoggedIn
  <2> QED
    BY <1>5, <2>1, <2>2 DEF LoggedIn
<1>6. CASE UserFetched
  <2>1. auth' \in Flows
    BY <1>1, <1>6, FlowsTyped DEF UserFetched
  <2>2. tab' \in Tabs /\ storage' \in Accounts \cup {Nobody} /\ foreign' \in BOOLEAN
    <3>1. CASE ClearSession
      BY <1>1, <3>1, TokenTyped
    <3> QED
      BY ZenonT(60), <1>1, <1>6, <3>1, TabsTyped DEF UserFetched
  <2> QED
    BY <1>6, <2>1, <2>2 DEF UserFetched
<1>7. CASE Logout
  BY <1>1, <1>7, TokenTyped DEF Logout
<1>8. CASE Reload
  BY <1>1, <1>8, FlowsTyped, TabsTyped DEF Reload
<1>9. CASE OtherTab
  BY <1>1, <1>9 DEF OtherTab
<1> QED
  BY <1>2, <1>3, <1>4, <1>5, <1>6, <1>7, <1>8, <1>9 DEF SessionStep, SessionEnds

-----------------------------------------------------------------------------
\* The page and its requests.

\* A removal names a memory.
ProperCalls == {s \in CallStates : s.kind = "remove" => s.target \in Ids}

PageTyped == /\ rows \in [Ids -> Accounts \cup {"unborn", "deleted"}]
             /\ page \in Pages
             /\ calls \in [Calls -> ProperCalls]
             /\ made \subseteq Ids
             /\ retried \in BOOLEAN
             /\ gone \subseteq Ids

LEMMA CallsTyped ==
    ASSUME PageTyped, NEW c \in Calls
    PROVE  /\ NoCall \in ProperCalls
           /\ [calls EXCEPT ![c] = NoCall] \in [Calls -> ProperCalls]
           /\ Unheard(calls[c]) \in ProperCalls
           /\ calls[c].as \in Accounts \cup {Nobody}
           /\ calls[c].target \in Ids \cup {Nobody}
           /\ calls[c].items \subseteq Listed
           /\ calls[c].heard \in BOOLEAN /\ calls[c].own \in BOOLEAN
<1>1. NoCall \in ProperCalls
  BY DEF NoCall, ProperCalls, CallStates
<1>2. calls[c] \in ProperCalls
  BY DEF PageTyped
<1>3. Unheard(calls[c]) \in ProperCalls
  <2>1. [calls[c] EXCEPT !.heard = FALSE, !.own = FALSE] \in ProperCalls
    BY <1>2 DEF ProperCalls, CallStates
  <2> QED
    BY <1>1, <2>1 DEF Unheard
<1>4. /\ calls[c].as \in Accounts \cup {Nobody}
      /\ calls[c].target \in Ids \cup {Nobody}
      /\ calls[c].items \in SUBSET Listed
      /\ calls[c].heard \in BOOLEAN /\ calls[c].own \in BOOLEAN
  BY <1>2 DEF ProperCalls, CallStates
<1> QED
  BY <1>1, <1>2, <1>3, <1>4 DEF PageTyped

LEMMA AnswerTyped ==
    ASSUME PageTyped, NEW c \in Calls, NEW reply \in {"ok", "error"},
           NEW items \in SUBSET Listed, Answer(c, reply, items)
    PROVE  calls' \in [Calls -> ProperCalls]
<1>1. [calls[c] EXCEPT !.reply = reply, !.items = items] \in ProperCalls
  BY ZenonT(60) DEF PageTyped, ProperCalls, CallStates
<1> QED
  BY <1>1, CallsTyped DEF PageTyped, Answer

LEMMA SendTyped ==
    ASSUME PageTyped, SessionTypeOK, NEW c \in Calls, NEW target \in Ids \cup {Nobody},
           NEW kind \in {"load", "after", "create", "update", "remove"},
           kind = "remove" => target \in Ids, Send(c, kind, target)
    PROVE  calls' \in [Calls -> ProperCalls]
<1>1. Request(kind, target) \in ProperCalls
  <2> DEFINE own == kind \in Saves
  <2>1. own \in BOOLEAN
    OBVIOUS
  <2>2. storage \in Accounts \cup {Nobody}
    BY DEF SessionTypeOK
  <2> HIDE DEF own
  <2>3. [NoCall EXCEPT !.kind = kind, !.as = storage, !.target = target, !.heard = TRUE,
                       !.own = own] \in ProperCalls
    BY <2>1, <2>2 DEF NoCall, ProperCalls, CallStates
  <2> QED
    BY <2>3 DEF Request, own
<1> QED
  BY <1>1 DEF PageTyped, Send

LEMMA LeaveTyped ==
    ASSUME PageTyped, Leave
    PROVE  PageTyped'
<1>1. NoPage \in Pages
  BY DEF NoPage, Pages
<1>2. calls' \in [Calls -> ProperCalls]
  BY CallsTyped DEF Leave
<1> QED
  BY <1>1, <1>2 DEF PageTyped, Leave

\* The service.
LEMMA ServiceTyped ==
    ASSUME PageTyped, NEW c \in Calls,
           ServeList(c) \/ ServeCreate(c) \/ ServeUpdate(c) \/ ServeRemove(c) \/ Refuse(c)
    PROVE  PageTyped'
<1> {} \in SUBSET Listed
  OBVIOUS
<1> calls[c].as \in Accounts \cup {Nobody} /\ calls[c].target \in Ids \cup {Nobody}
  BY CallsTyped
<1>1. CASE ServeList(c)
  <2>1. calls[c].as \in Accounts
    BY <1>1 DEF ServeList
  <2>2. {[id |-> m, owner |-> calls[c].as] : m \in Owned(calls[c].as)} \in SUBSET Listed
    BY <2>1 DEF Owned, Listed
  <2>3. calls' \in [Calls -> ProperCalls]
    BY <1>1, <2>2, AnswerTyped DEF ServeList
  <2> QED
    BY <1>1, <2>3 DEF ServeList, PageTyped
<1>2. CASE ServeCreate(c)
  <2>1. calls' \in [Calls -> ProperCalls]
    BY <1>2, AnswerTyped DEF ServeCreate
  <2>2. PICK m \in Ids :
            /\ rows' = [rows EXCEPT ![m] = calls[c].as]
            /\ made' = IF calls[c].own THEN made \cup {m} ELSE made
    BY <1>2 DEF ServeCreate
  <2>3. rows' \in [Ids -> Accounts \cup {"unborn", "deleted"}]
    BY <1>2, <2>2 DEF ServeCreate, PageTyped
  <2>4. made' \subseteq Ids
    BY <2>2 DEF PageTyped
  <2> QED
    BY <1>2, <2>1, <2>3, <2>4 DEF ServeCreate, PageTyped
<1>3. CASE ServeUpdate(c)
  <2>1. calls' \in [Calls -> ProperCalls]
    BY <1>3, AnswerTyped DEF ServeUpdate
  <2> QED
    BY <1>3, <2>1 DEF ServeUpdate, PageTyped
<1>4. CASE ServeRemove(c)
  <2>1. calls' \in [Calls -> ProperCalls]
    BY <1>4, AnswerTyped DEF ServeRemove
  <2> QED
    BY <1>4, <2>1 DEF ServeRemove, PageTyped
<1>5. CASE Refuse(c)
  <2>1. calls' \in [Calls -> ProperCalls]
    BY <1>5, AnswerTyped DEF Refuse
  <2> QED
    BY <1>5, <2>1 DEF Refuse, PageTyped
<1> QED
  BY <1>1, <1>2, <1>3, <1>4, <1>5

\* What the page does.
LEMMA UserTyped ==
    ASSUME PageTyped, SessionTypeOK, NEW c \in Calls,
           OpenPage(c) \/ Load(c) \/ Save(c) \/ Remove(c)
    PROVE  PageTyped'
<1> Nobody \in Ids \cup {Nobody}
  OBVIOUS
<1>1. CASE OpenPage(c)
  <2>1. [NoPage EXCEPT !.open = TRUE, !.loading = TRUE] \in Pages
    BY DEF NoPage, Pages
  <2>2. calls' \in [Calls -> ProperCalls]
    BY <1>1, SendTyped DEF OpenPage
  <2> QED
    BY <1>1, <2>1, <2>2 DEF OpenPage, PageTyped
<1>2. CASE Load(c)
  <2>1. [page EXCEPT !.loading = TRUE] \in Pages
    BY DEF PageTyped, Pages
  <2>2. calls' \in [Calls -> ProperCalls]
    BY <1>2, SendTyped DEF Load
  <2> QED
    BY <1>2, <2>1, <2>2 DEF Load, PageTyped
<1>3. CASE Save(c)
  <2>1. [page EXCEPT !.saving = TRUE] \in Pages
    BY DEF PageTyped, Pages
  <2>2. calls' \in [Calls -> ProperCalls]
    BY <1>3, SendTyped DEF Save
  <2> QED
    BY <1>3, <2>1, <2>2 DEF Save, PageTyped
<1>4. CASE Remove(c)
  <2>1. PICK m \in page.shown : Send(c, "remove", m.id)
    BY <1>4 DEF Remove
  <2>2. m.id \in Ids
    BY DEF PageTyped, Pages, Listed
  <2>3. calls' \in [Calls -> ProperCalls]
    BY <2>1, <2>2, SendTyped
  <2> QED
    BY <1>4, <2>3 DEF Remove, PageTyped
<1> QED
  BY <1>1, <1>2, <1>3, <1>4

LEMMA DialogTyped ==
    ASSUME PageTyped,
           (\E dialog \in {"new", "edit"} : OpenDialog(dialog)) \/ CancelDialog
    PROVE  PageTyped'
<1>1. ASSUME NEW dialog \in {"new", "edit"}, OpenDialog(dialog)
      PROVE  PageTyped'
  <2>1. [page EXCEPT !.dialog = dialog] \in Pages
    BY DEF PageTyped, Pages
  <2>2. ASSUME NEW c \in Calls
        PROVE  [calls[c] EXCEPT !.own = FALSE] \in ProperCalls
    BY ZenonT(60) DEF PageTyped, ProperCalls, CallStates
  <2>3. calls' \in [Calls -> ProperCalls]
    BY <1>1, <2>2 DEF OpenDialog
  <2> QED
    BY <1>1, <2>1, <2>3 DEF OpenDialog, PageTyped
<1>2. CASE CancelDialog
  <2>1. [page EXCEPT !.dialog = "closed"] \in Pages
    BY DEF PageTyped, Pages
  <2> QED
    BY <1>2, <2>1 DEF CancelDialog, PageTyped
<1> QED
  BY <1>1, <1>2

LEMMA HearingTyped ==
    ASSUME PageTyped, SessionTypeOK, NEW c \in Calls,
           HearList(c) \/ HearSave(c) \/ HearRemove(c) \/ GiveUp(c)
    PROVE  PageTyped'
<1> USE CallsTyped
<1>1. CASE HearList(c)
  <2>1. page' \in Pages
    <3>1. page \in Pages /\ calls[c].items \in SUBSET Listed
      BY DEF PageTyped
    <3>2. \A items \in SUBSET Listed, saving \in BOOLEAN :
            [page EXCEPT !.shown = items, !.loading = FALSE, !.saving = saving] \in Pages
      BY <3>1 DEF Pages
    <3>3. page.shown \in SUBSET Listed /\ page.saving \in BOOLEAN
      BY <3>1 DEF Pages
    <3> QED
      BY <1>1, <3>1, <3>2, <3>3 DEF HearList
  <2> QED
    BY <1>1, <2>1 DEF HearList, PageTyped
<1>2. CASE HearSave(c)
  <2>1. /\ [page EXCEPT !.dialog = "closed", !.loading = TRUE] \in Pages
        /\ [page EXCEPT !.saving = FALSE] \in Pages
    BY DEF PageTyped, Pages
  <2>2. calls' \in [Calls -> ProperCalls]
    BY <1>2, SendTyped DEF HearSave
  <2> QED
    BY <1>2, <2>1, <2>2 DEF HearSave, PageTyped
<1>3. CASE HearRemove(c)
  <2>1. [page EXCEPT !.shown = {m \in @ : m.id # calls[c].target}] \in Pages
    BY DEF PageTyped, Pages
  <2>2. CASE calls[c].reply = "ok"
    <3>1. calls[c].target \in Ids
      BY <1>3 DEF HearRemove, Hears, PageTyped, ProperCalls
    <3> QED
      BY <1>3, <2>1, <2>2, <3>1 DEF HearRemove, PageTyped
  <2> QED
    BY <1>3, <2>2 DEF HearRemove, PageTyped
<1>4. CASE GiveUp(c)
  <2>1. page' \in Pages
    <3>1. \A loading, saving \in BOOLEAN :
            [page EXCEPT !.loading = loading, !.saving = saving] \in Pages
      BY DEF PageTyped, Pages
    <3>2. page.loading \in BOOLEAN /\ page.saving \in BOOLEAN
      BY DEF PageTyped, Pages
    <3> QED
      BY <1>4, <3>1, <3>2 DEF GiveUp
  <2>2. calls' \in [Calls -> ProperCalls]
    BY <1>4 DEF GiveUp, PageTyped
  <2>3. retried' \in BOOLEAN
    BY <1>4 DEF GiveUp
  <2> QED
    BY <1>4, <2>1, <2>2, <2>3 DEF GiveUp, PageTyped
<1> QED
  BY <1>1, <1>2, <1>3, <1>4

TypeInv == SessionTypeOK /\ PageTyped

LEMMA InitTypeInv == Init => TypeInv
<1> SUFFICES ASSUME Init PROVE TypeInv
  OBVIOUS
<1>1. NoCall \in ProperCalls
  BY DEF NoCall, ProperCalls, CallStates
<1> QED
  BY <1>1, InitTyped DEF Init, TypeOK, TypeInv, PageTyped

LEMMA TypeStep == TypeInv /\ [Next]_vars => TypeInv'
<1> SUFFICES ASSUME TypeInv, [Next]_vars PROVE TypeInv'
  OBVIOUS
<1> USE DEF TypeInv
<1>1. CASE UNCHANGED <<rows, pageVars>> /\ (SessionStep \/ Registration \/ OtherTab)
  <2>1. SessionTypeOK'
    BY <1>1, SessionTyped, RegistrationTyped
  <2> QED
    BY <1>1, <2>1 DEF PageTyped, pageVars
<1>2. CASE SessionEnds /\ Leave
  BY <1>2, SessionTyped, LeaveTyped
<1>3. CASE PageStep /\ UNCHANGED sessionVars
  <2>1. SessionTypeOK'
    BY <1>3 DEF SessionTypeOK, sessionVars
  <2>2. PageTyped'
    BY <1>3, ServiceTyped, UserTyped, DialogTyped, HearingTyped, LeaveTyped DEF PageStep, ClosePage
  <2> QED
    BY <2>1, <2>2
<1>4. CASE UNCHANGED vars
  BY <1>4 DEF vars, sessionVars, pageVars, SessionTypeOK, PageTyped
<1> QED
  BY <1>1, <1>2, <1>3, <1>4 DEF Next

LEMMA TypeInvariant == Spec => []TypeInv
BY InitTypeInv, TypeStep, PTL DEF Spec

\* Rows, store, page and requests keep to their types, for any accounts, memories
\* and number of requests under way.
THEOREM TypeCorrect == Spec => []TypeOK
<1>1. TypeInv => TypeOK
  BY DEF TypeInv, TypeOK, PageTyped, ProperCalls
<1> QED
  BY <1>1, TypeInvariant, PTL

-----------------------------------------------------------------------------
(* Registration *)

\* A registration at work is for an address.
DecidedInv ==
    /\ RegistrationIsDecided
    /\ \A r \in Registrations : reg[r].step # "idle" => reg[r].account \in Accounts

LEMMA InitDecided == Init => DecidedInv
BY DEF Init, SessionInit, DecidedInv, RegistrationIsDecided, NoReg, Done, Registrations

\* An insert is the only step that can break a tie, and finds the address taken when
\* the other registration has won.
LEMMA DecidedStep == TypeInv /\ DecidedInv /\ [Next]_vars => DecidedInv'
<1> SUFFICES ASSUME TypeInv, DecidedInv, [Next]_vars PROVE DecidedInv'
  OBVIOUS
<1>0. /\ users \in [Accounts -> Nat]
      /\ reg \in [Registrations -> [step : RegSteps, account : Accounts \cup {Nobody}]]
  BY DEF TypeInv, SessionTypeOK
<1> USE <1>0 DEF DecidedInv, RegistrationIsDecided, Done, Has
<1>1. ASSUME NEW r \in Registrations, Check(r)
      PROVE  DecidedInv'
  BY <1>1 DEF Check, RegSteps
<1>2. ASSUME NEW r \in Registrations, Insert(r)
      PROVE  DecidedInv'
  <2>1. reg[r].step = "inserting" /\ reg[r].account \in Accounts
    BY <1>2 DEF Insert
  <2>2. CASE Has(reg[r].account)
    BY <1>2, <2>1, <2>2 DEF Insert, RegSteps
  <2>3. CASE ~Has(reg[r].account)
    <3>1. /\ users' = [users EXCEPT ![reg[r].account] = 1]
          /\ reg' = [reg EXCEPT ![r].step = "created"]
      BY <1>2, <2>3 DEF Insert
    <3>2. \A a \in Accounts : users'[a] <= 1 /\ (Has(a) => Has(a)')
      BY <2>1, <3>1
    <3>3. Has(reg[r].account)'
      BY <2>1, <3>1
    <3>4. ASSUME NEW s \in Registrations
          PROVE  /\ reg'[s].account = reg[s].account
                 /\ s # r => reg'[s].step = reg[s].step
                 /\ reg'[r].step = "created"
      BY <3>1
    <3>5. \A s \in Registrations : Done(s)' => Has(reg[s].account)'
      BY <3>2, <3>3, <3>4
    <3>6. \A s \in Registrations :
            (s # r /\ reg'[s].step = "created") => reg'[s].account # reg'[r].account
      BY <2>3, <3>4
    <3> QED
      BY <2>1, <3>2, <3>4, <3>5, <3>6
  <2> QED
    BY <2>2, <2>3
<1>3. ASSUME NEW r \in Registrations, Forget(r)
      PROVE  DecidedInv'
  BY <1>3 DEF Forget, NoReg, RegSteps
<1>4. ASSUME NEW a \in Accounts, OtherRegisters(a)
      PROVE  DecidedInv'
  BY <1>4 DEF OtherRegisters, Registrations, RegSteps
<1>5. ASSUME NEW a \in Accounts, Register(a)
      PROVE  DecidedInv'
  BY <1>5 DEF Register, Registrations, RegSteps
<1>6. CASE Registered
  BY <1>6 DEF Registered, NoReg, Registrations, RegSteps
<1>7. CASE UNCHANGED Server
  BY <1>7 DEF Server
<1>8. SessionStep \/ SessionEnds \/ OtherTab \/ RegisterTimesOut => UNCHANGED Server
  BY DEF SessionStep, SessionEnds, Login, Restore, Restored, LoggedIn, UserFetched, Logout,
         Reload, OtherTab, RegisterTimesOut, Server
<1>9. UNCHANGED sessionVars \/ UNCHANGED vars => UNCHANGED Server
  BY DEF vars, sessionVars, Server
<1> QED
  BY <1>1, <1>2, <1>3, <1>4, <1>5, <1>6, <1>7, <1>8, <1>9 DEF Next, Registration

\* For any number of addresses, an address never gets two rows and never two owners,
\* and whoever is told that it is registered finds it so.
THEOREM RegistrationsDecide == Spec => []RegistrationIsDecided
<1>1. DecidedInv => RegistrationIsDecided
  BY DEF DecidedInv
<1> QED
  BY <1>1, InitDecided, DecidedStep, TypeInvariant, PTL DEF Spec

-----------------------------------------------------------------------------
(* What the steps do to a request *)

LEMMA AnswerEffect ==
    ASSUME PageTyped, NEW c \in Calls, NEW reply \in {"ok", "error"},
           NEW items \in SUBSET Listed, Answer(c, reply, items)
    PROVE  /\ \A d \in Calls : d # c => calls'[d] = calls[d]
           /\ calls[c].heard =>
                /\ calls'[c].kind = calls[c].kind /\ calls'[c].as = calls[c].as
                /\ calls'[c].target = calls[c].target /\ calls'[c].own = calls[c].own
                /\ calls'[c].heard = TRUE
                /\ calls'[c].reply = reply /\ calls'[c].items = items
           /\ ~calls[c].heard => calls'[c] = NoCall
<1>1. calls[c] \in CallStates
  BY DEF PageTyped, ProperCalls
<1>2. \A s \in CallStates :
        LET t == [s EXCEPT !.reply = reply, !.items = items] IN
            /\ t.kind = s.kind /\ t.as = s.as /\ t.target = s.target /\ t.own = s.own
            /\ t.heard = s.heard /\ t.reply = reply /\ t.items = items
  BY DEF CallStates
<1>3. calls[c].heard \in BOOLEAN
  BY CallsTyped
<1> QED
  BY <1>1, <1>2, <1>3 DEF Answer, PageTyped

LEMMA SendEffect ==
    ASSUME PageTyped, NEW c \in Calls, NEW kind, NEW target, Send(c, kind, target)
    PROVE  /\ \A d \in Calls : d # c => calls'[d] = calls[d]
           /\ calls'[c].kind = kind /\ calls'[c].as = storage /\ calls'[c].target = target
           /\ calls'[c].reply = "none" /\ calls'[c].items = {} /\ calls'[c].heard = TRUE
           /\ kind \notin Saves => calls'[c].own = FALSE
<1> DEFINE own == kind \in Saves
           call == [NoCall EXCEPT !.kind = kind, !.as = storage, !.target = target,
                                  !.heard = TRUE, !.own = own]
<1>1. calls' = [calls EXCEPT ![c] = call]
  BY DEF Send, Request
<1>2. calls'[c] = call /\ \A d \in Calls : d # c => calls'[d] = calls[d]
  BY <1>1 DEF PageTyped
<1>3. own \in BOOLEAN
  OBVIOUS
<1> HIDE DEF own
<1>4. /\ call.kind = kind /\ call.as = storage /\ call.target = target /\ call.reply = "none"
      /\ call.items = {} /\ call.heard = TRUE /\ call.own = own
  BY <1>3 DEF NoCall
<1>5. kind \notin Saves => own = FALSE
  <2>1. kind \notin Saves => ~own
    BY DEF own
  <2> QED
    BY <1>3, <2>1
<1> QED
  BY <1>2, <1>4, <1>5

LEMMA UnheardEffect ==
    ASSUME PageTyped, NEW c \in Calls
    PROVE  /\ Unheard(calls[c]).heard = FALSE /\ Unheard(calls[c]).own = FALSE
           /\ \/ Unheard(calls[c]) = NoCall
              \/ /\ Unheard(calls[c]).kind = calls[c].kind
                 /\ Unheard(calls[c]).as = calls[c].as
                 /\ Unheard(calls[c]).items = calls[c].items
                 /\ Unheard(calls[c]).reply = "none" /\ calls[c].reply = "none"
<1>1. calls[c] \in CallStates
  BY DEF PageTyped, ProperCalls
<1>2. \A s \in CallStates :
        LET t == [s EXCEPT !.heard = FALSE, !.own = FALSE] IN
            /\ t.kind = s.kind /\ t.as = s.as /\ t.items = s.items /\ t.reply = s.reply
            /\ t.heard = FALSE /\ t.own = FALSE
  BY DEF CallStates
<1>3. NoCall.heard = FALSE /\ NoCall.own = FALSE
  BY DEF NoCall
<1> QED
  BY <1>1, <1>2, <1>3 DEF Unheard

\* A dialog that is opened makes the requests of the last one nobody's.
LEMMA DialogEffect ==
    ASSUME PageTyped, NEW dialog \in {"new", "edit"}, OpenDialog(dialog), NEW c \in Calls
    PROVE  /\ calls'[c].kind = calls[c].kind /\ calls'[c].as = calls[c].as
           /\ calls'[c].target = calls[c].target /\ calls'[c].reply = calls[c].reply
           /\ calls'[c].items = calls[c].items /\ calls'[c].heard = calls[c].heard
           /\ calls'[c].own = FALSE
<1>1. calls[c] \in CallStates
  BY DEF PageTyped, ProperCalls
<1>2. \A s \in CallStates :
        LET t == [s EXCEPT !.own = FALSE] IN
            /\ t.kind = s.kind /\ t.as = s.as /\ t.target = s.target /\ t.reply = s.reply
            /\ t.items = s.items /\ t.heard = s.heard /\ t.own = FALSE
  BY DEF CallStates
<1> QED
  BY <1>1, <1>2 DEF OpenDialog

LEMMA ForgottenEffect ==
    ASSUME PageTyped, NEW c \in Calls, calls' = [calls EXCEPT ![c] = NoCall]
    PROVE  calls'[c] = NoCall /\ \A d \in Calls : d # c => calls'[d] = calls[d]
BY DEF PageTyped

\* What the steps do to the page, field by field.
LEMMA PageEffect ==
    ASSUME PageTyped, NEW c \in Calls
    PROVE  /\ Load(c) => /\ page'.open = page.open /\ page'.shown = page.shown
                         /\ page'.dialog = page.dialog /\ page'.saving = page.saving
           /\ Save(c) => /\ page'.open = page.open /\ page'.shown = page.shown
                         /\ page'.dialog = page.dialog /\ page'.saving = TRUE
           /\ Remove(c) => page' = page
           /\ HearList(c) => /\ page'.open = page.open /\ page'.dialog = page.dialog
                             /\ page'.shown = IF calls[c].reply = "ok" THEN calls[c].items
                                              ELSE page.shown
                             /\ page'.saving = IF calls[c].kind = "after" THEN FALSE
                                               ELSE page.saving
           /\ HearRemove(c) => /\ page'.open = page.open /\ page'.shown \subseteq page.shown
                               /\ page'.dialog = page.dialog /\ page'.saving = page.saving
                               /\ calls[c].reply = "ok" =>
                                    \A m \in page'.shown : m.id # calls[c].target
           /\ GiveUp(c) => /\ page'.open = page.open /\ page'.shown = page.shown
                           /\ page'.dialog = page.dialog
                           /\ page'.saving = IF calls[c].kind \in Saves \cup {"after"} THEN FALSE
                                             ELSE page.saving
<1>1. page \in Pages
  BY DEF PageTyped
<1>2. Load(c) => /\ page'.open = page.open /\ page'.shown = page.shown
                 /\ page'.dialog = page.dialog /\ page'.saving = page.saving
  BY <1>1 DEF Load, Pages
<1>3. Save(c) => /\ page'.open = page.open /\ page'.shown = page.shown
                 /\ page'.dialog = page.dialog /\ page'.saving = TRUE
  BY <1>1 DEF Save, Pages
<1>4. Remove(c) => page' = page
  BY DEF Remove
<1>5. HearList(c) => /\ page'.open = page.open /\ page'.dialog = page.dialog
                     /\ page'.shown = IF calls[c].reply = "ok" THEN calls[c].items
                                      ELSE page.shown
                     /\ page'.saving = IF calls[c].kind = "after" THEN FALSE ELSE page.saving
  BY <1>1 DEF HearList, Pages
<1>6. HearRemove(c) => /\ page'.open = page.open /\ page'.shown \subseteq page.shown
                       /\ page'.dialog = page.dialog /\ page'.saving = page.saving
                       /\ calls[c].reply = "ok" =>
                            \A m \in page'.shown : m.id # calls[c].target
  <2> SUFFICES ASSUME HearRemove(c)
               PROVE  /\ page'.open = page.open /\ page'.shown \subseteq page.shown
                      /\ page'.dialog = page.dialog /\ page'.saving = page.saving
                      /\ calls[c].reply = "ok" =>
                            \A m \in page'.shown : m.id # calls[c].target
    OBVIOUS
  <2>1. CASE calls[c].reply = "ok"
    <3>1. page' = [page EXCEPT !.shown = {m \in page.shown : m.id # calls[c].target}]
      BY <2>1 DEF HearRemove
    <3> QED
      BY <1>1, <3>1 DEF Pages
  <2>2. CASE calls[c].reply # "ok"
    <3>1. page' = page
      BY <2>2 DEF HearRemove
    <3> QED
      BY <2>2, <3>1
  <2> QED
    BY <2>1, <2>2
<1>7. GiveUp(c) => /\ page'.open = page.open /\ page'.shown = page.shown
                   /\ page'.dialog = page.dialog
                   /\ page'.saving = IF calls[c].kind \in Saves \cup {"after"} THEN FALSE
                                     ELSE page.saving
  BY <1>1 DEF GiveUp, Pages
<1> QED
  BY <1>2, <1>3, <1>4, <1>5, <1>6, <1>7

LEMMA HearSaveEffect ==
    ASSUME PageTyped, NEW c \in Calls, HearSave(c)
    PROVE  /\ page'.open = page.open /\ page'.shown = page.shown
           /\ \/ /\ calls[c].reply = "ok" /\ Send(c, "after", Nobody)
                 /\ page'.dialog = "closed" /\ page'.saving = page.saving
              \/ /\ calls[c].reply # "ok" /\ calls' = [calls EXCEPT ![c] = NoCall]
                 /\ page'.dialog = page.dialog /\ page'.saving = FALSE
<1>1. page \in Pages
  BY DEF PageTyped
<1>2. CASE calls[c].reply = "ok"
  <2>1. page' = [page EXCEPT !.dialog = "closed", !.loading = TRUE] /\ Send(c, "after", Nobody)
    BY <1>2 DEF HearSave
  <2>2. /\ page'.open = page.open /\ page'.shown = page.shown
        /\ page'.dialog = "closed" /\ page'.saving = page.saving
    BY <1>1, <2>1 DEF Pages
  <2> QED
    BY <1>2, <2>1, <2>2
<1>3. CASE calls[c].reply # "ok"
  <2>1. page' = [page EXCEPT !.saving = FALSE] /\ calls' = [calls EXCEPT ![c] = NoCall]
    BY <1>3 DEF HearSave
  <2>2. /\ page'.open = page.open /\ page'.shown = page.shown
        /\ page'.dialog = page.dialog /\ page'.saving = FALSE
    BY <1>1, <2>1 DEF Pages
  <2> QED
    BY <1>3, <2>1, <2>2
<1> QED
  BY <1>2, <1>3

LEMMA DialogPage ==
    ASSUME PageTyped
    PROVE  /\ \A dialog : OpenDialog(dialog) =>
                /\ page'.open = page.open /\ page'.shown = page.shown
                /\ page'.dialog = dialog /\ page'.saving = page.saving
           /\ CancelDialog =>
                /\ page'.open = page.open /\ page'.shown = page.shown
                /\ page'.dialog = "closed" /\ page'.saving = page.saving
<1>1. page \in Pages
  BY DEF PageTyped
<1> QED
  BY <1>1 DEF Pages, OpenDialog, CancelDialog

-----------------------------------------------------------------------------
(* Whom a page acts as *)

\* Unless another tab has changed it, the token in localStorage is the tab's, and the
\* user who is shown is the one it stands for.
StoreInv ==
    /\ ~foreign => /\ storage = tab.token
                   /\ tab.user # Nobody => tab.user = tab.token
                   /\ auth.step = "restoring" => auth.sent = tab.token
    /\ auth.step = "fetching" => auth.sent = tab.token
    /\ tab.user # Nobody => tab.ready
    /\ auth.step \in {"logging", "fetching", "registering"} => tab.ready

LEMMA StoreStep == TypeInv /\ StoreInv /\ [Next]_vars => StoreInv'
<1> SUFFICES ASSUME TypeInv, StoreInv, [Next]_vars PROVE StoreInv'
  OBVIOUS
<1>0. /\ tab \in Tabs /\ auth \in Flows /\ foreign \in BOOLEAN
      /\ NoFlow.step = "idle"
  BY DEF TypeInv, SessionTypeOK, NoFlow
<1>1. ClearSession => tab'.token = Nobody /\ tab'.user = Nobody /\ tab'.ready
                      /\ storage' = Nobody /\ ~foreign'
  BY DEF ClearSession
<1>2. \A a, b : SaveToken(a, b) => tab'.token = a /\ tab'.user = b /\ tab'.ready = tab.ready
                                   /\ storage' = a /\ ~foreign'
  BY <1>0 DEF SaveToken, Tabs
<1> USE DEF StoreInv, Server
<1>3. CASE UNCHANGED <<storage, tab, foreign>> /\ auth' = NoFlow
  BY <1>0, <1>3
<1>4. CASE UNCHANGED <<storage, tab, foreign, auth>>
  BY <1>4
<1>5. ASSUME NEW a \in Accounts, Login(a)
      PROVE  StoreInv'
  <2>1. auth'.step = "logging"
    BY <1>5 DEF Login, NoFlow
  <2> QED
    BY <1>5, <2>1 DEF Login, CanSubmit
<1>6. ASSUME NEW a \in Accounts, Register(a)
      PROVE  StoreInv'
  <2>1. auth'.step = "registering"
    BY <1>6 DEF Register, NoFlow
  <2> QED
    BY <1>6, <2>1 DEF Register, CanSubmit
<1>7. CASE Restore
  <2>1. CASE tab.token = Nobody
    <3>1. /\ tab'.token = tab.token /\ tab'.user = tab.user /\ tab'.ready
          /\ UNCHANGED <<auth, storage, foreign>>
      BY <1>0, <1>7, <2>1 DEF Restore, Tabs
    <3> QED
      BY <3>1
  <2>2. CASE tab.token # Nobody
    <3>1. /\ auth'.step = "restoring" /\ auth'.sent = storage
          /\ UNCHANGED <<tab, storage, foreign>>
      BY <1>7, <2>2 DEF Restore, NoFlow
    <3> QED
      BY <3>1
  <2> QED
    BY <2>1, <2>2
<1>8. CASE Restored
  <2>1. CASE ClearSession
    BY <1>0, <1>1, <1>8, <2>1 DEF Restored
  <2>2. CASE ~ClearSession
    <3>1. /\ auth.step = "restoring" /\ auth'.step = "idle"
          /\ UNCHANGED <<storage, foreign>>
          /\ tab'.token = tab.token /\ tab'.user = auth.sent /\ tab'.ready
      BY <1>0, <1>8, <2>2 DEF Restored, Tabs
    <3> QED
      BY <3>1
  <2> QED
    BY <2>1, <2>2
<1>9. CASE LoggedIn
  <2>1. CASE ClearSession /\ auth' = NoFlow
    BY <1>0, <1>1, <2>1
  <2>2. CASE SaveToken(auth.account, Nobody) /\ auth' = [auth EXCEPT !.step = "fetching", !.sent = storage']
    <3>1. auth'.step = "fetching" /\ auth'.sent = storage'
      BY <1>0, <2>2 DEF Flows
    <3>2. auth.step = "logging"
      BY <1>9 DEF LoggedIn
    <3> QED
      BY <1>2, <2>2, <3>1, <3>2
  <2> QED
    BY <1>9, <2>1, <2>2 DEF LoggedIn
<1>10. CASE UserFetched
  <2>1. CASE ClearSession
    BY <1>0, <1>1, <1>10, <2>1 DEF UserFetched
  <2>2. CASE ~ClearSession
    <3>1. /\ auth.step = "fetching" /\ auth'.step = "idle"
          /\ UNCHANGED <<storage, foreign>>
          /\ tab'.token = tab.token /\ tab'.user = auth.sent /\ tab'.ready = tab.ready
      BY <1>0, <1>10, <2>2 DEF UserFetched, Tabs
    <3> QED
      BY <3>1
  <2> QED
    BY <2>1, <2>2
<1>11. CASE Registered
  <2>1. auth.step = "registering" /\ auth' = NoFlow
    BY <1>11 DEF Registered
  <2>2. CASE SaveToken(auth.account, auth.account)
    BY <1>0, <1>2, <2>1, <2>2
  <2> QED
    BY <1>3, <1>11, <2>1, <2>2 DEF Registered
<1>12. CASE SessionEnds
  <2>1. CASE Logout
    <3>1. auth.step = "idle" /\ auth' = auth
      BY <2>1 DEF Logout
    <3> QED
      BY <1>1, <2>1, <3>1 DEF Logout
  <2>2. CASE Reload
    <3>1. tab'.token = storage /\ tab'.user = Nobody /\ storage' = storage
      BY <2>2 DEF Reload, NewTab
    <3> QED
      BY <1>0, <2>2, <3>1 DEF Reload
  <2> QED
    BY <1>12, <2>1, <2>2 DEF SessionEnds
<1>13. CASE OtherTab
  BY <1>13 DEF OtherTab
<1>14. CASE Registration
  <2>1. CASE \E r \in Registrations : Check(r) \/ Insert(r) \/ Forget(r)
    BY <1>4, <2>1 DEF Check, Insert, Forget
  <2>2. CASE \E a \in Accounts : OtherRegisters(a)
    BY <1>4, <2>2 DEF OtherRegisters
  <2>3. CASE RegisterTimesOut
    BY <1>3, <2>3 DEF RegisterTimesOut
  <2> QED
    BY <1>6, <1>11, <1>14, <2>1, <2>2, <2>3 DEF Registration
<1>15. CASE UNCHANGED sessionVars
  BY <1>4, <1>15 DEF sessionVars
<1>16. CASE UNCHANGED vars
  BY <1>15, <1>16 DEF vars
<1> QED
  BY <1>5, <1>7, <1>8, <1>9, <1>10, <1>12, <1>13, <1>14, <1>15, <1>16 DEF Next, SessionStep

\* A page is open only to a user who is signed in, with no request of the store under
\* way; a closed one waits for nothing.
OpenInv ==
    /\ page.open => IsAuthenticated /\ auth.step = "idle"
    /\ ~page.open => page = NoPage
    /\ \A c \in Calls : calls[c].heard => page.open

\* The session and the registrations stand still while a page is open; only another
\* tab's step, and the end of the session, reach it.
LEMMA SessionRests ==
    ASSUME TypeInv, StoreInv, OpenInv, page.open
    PROVE  ~SessionStep /\ ~(Registration /\ Quiet)
<1>1. tab.ready /\ auth.step = "idle" /\ IsAuthenticated
  BY DEF StoreInv, OpenInv, IsAuthenticated
<1> QED
  BY <1>1 DEF SessionStep, Login, Restore, Restored, LoggedIn, UserFetched, CanSubmit, Quiet

\* A request that is served stays heard, or nobody has waited for it.
Serves(c) == ServeList(c) \/ ServeCreate(c) \/ ServeUpdate(c) \/ ServeRemove(c) \/ Refuse(c)

LEMMA ServeEffect ==
    ASSUME PageTyped, NEW c \in Calls, Serves(c)
    PROVE  /\ UNCHANGED <<page, retried, gone>>
           /\ calls[c].kind # "none" /\ calls[c].reply = "none"
           /\ \A d \in Calls : d # c => calls'[d] = calls[d]
           /\ ~calls[c].heard => calls'[c] = NoCall
           /\ calls[c].heard =>
                /\ calls'[c].kind = calls[c].kind /\ calls'[c].as = calls[c].as
                /\ calls'[c].target = calls[c].target /\ calls'[c].own = calls[c].own
                /\ calls'[c].heard = TRUE /\ calls'[c].reply \in {"ok", "error"}
                /\ calls'[c].items # {} => ServeList(c)
                /\ ServeList(c) => /\ calls[c].kind \in Lists /\ calls'[c].reply = "ok"
                                   /\ calls'[c].items = {[id |-> m, owner |-> calls[c].as] :
                                                            m \in Owned(calls[c].as)}
<1> {} \in SUBSET Listed
  OBVIOUS
<1> DEFINE list == {[id |-> m, owner |-> calls[c].as] : m \in Owned(calls[c].as)}
<1>1. CASE ServeList(c)
  <2>1. calls[c].as \in Accounts
    BY <1>1, CallsTyped DEF ServeList
  <2>2. list \in SUBSET Listed
    BY <2>1 DEF Owned, Listed
  <2>3. Answer(c, "ok", list)
    BY <1>1 DEF ServeList
  <2> HIDE DEF list
  <2>4. /\ UNCHANGED <<page, retried, gone>>
        /\ calls[c].kind \in Lists /\ calls[c].reply = "none"
    BY <1>1 DEF ServeList, Awaiting
  <2>5. calls[c].heard => calls'[c].items = list /\ calls'[c].reply = "ok"
    BY <2>2, <2>3, AnswerEffect
  <2> QED
    BY <1>1, <2>2, <2>3, <2>4, <2>5, AnswerEffect DEF Lists, list
<1>2. CASE ~ServeList(c)
  <2>1. /\ UNCHANGED <<page, retried, gone>>
        /\ calls[c].kind # "none" /\ calls[c].reply = "none"
    BY <1>2 DEF Serves, ServeCreate, ServeUpdate, ServeRemove, Refuse, Awaiting, Lists, Saves
  <2>2. \E reply \in {"ok", "error"} : Answer(c, reply, {})
    BY <1>2 DEF Serves, ServeCreate, ServeUpdate, ServeRemove, Refuse
  <2> QED
    BY ZenonT(60), <1>2, <2>1, <2>2, AnswerEffect
<1> QED
  BY <1>1, <1>2

LEMMA OpenStep == TypeInv /\ StoreInv /\ OpenInv /\ [Next]_vars => OpenInv'
<1> SUFFICES ASSUME TypeInv, StoreInv, OpenInv, [Next]_vars PROVE OpenInv'
  OBVIOUS
<1>0. PageTyped
  BY DEF TypeInv
<1> USE <1>0 DEF OpenInv
<1>1. CASE UNCHANGED <<rows, pageVars>> /\ (SessionStep \/ (Registration /\ Quiet) \/ OtherTab)
  <2>1. CASE page.open
    BY <1>1, <2>1, SessionRests DEF OtherTab, pageVars, IsAuthenticated
  <2>2. CASE ~page.open
    BY <1>1, <2>2 DEF pageVars
  <2> QED
    BY <2>1, <2>2
<1>2. CASE Leave
  <2>1. \A c \in Calls : calls'[c].heard = FALSE
    BY <1>2, UnheardEffect DEF Leave
  <2> QED
    BY <1>2, <2>1 DEF Leave, NoPage
<1>3. CASE PageStep /\ UNCHANGED sessionVars
  <2>0. IsAuthenticated' = IsAuthenticated /\ auth' = auth
    BY <1>3 DEF sessionVars, IsAuthenticated
  <2>1. ASSUME NEW c \in Calls, Serves(c)
        PROVE  OpenInv'
    <3>1. NoCall.heard = FALSE
      BY DEF NoCall
    <3> QED
      BY <2>0, <2>1, <3>1, ServeEffect
  <2>2. CASE page.open /\ page'.open
    BY <2>0, <2>2
  <2>3. ASSUME NEW c \in Calls, OpenPage(c)
        PROVE  OpenInv'
    <3>1. page'.open
      BY <2>3 DEF OpenPage, NoPage
    <3>2. IsAuthenticated /\ auth.step = "idle"
      BY <2>3 DEF OpenPage
    <3> QED
      BY <2>0, <3>1, <3>2
  <2>4. ASSUME NEW c \in Calls,
               Load(c) \/ Save(c) \/ Remove(c) \/ HearList(c) \/ HearSave(c) \/ HearRemove(c) \/ GiveUp(c)
        PROVE  page.open /\ page'.open
    <3>1. page.open
      BY <2>4 DEF Load, Save, Remove, HearList, HearSave, HearRemove, GiveUp, Hears, NoPage
    <3>2. page'.open = page.open
      BY <2>4, PageEffect, HearSaveEffect
    <3> QED
      BY <3>1, <3>2
  <2>5. (\E dialog \in {"new", "edit"} : OpenDialog(dialog)) \/ CancelDialog => page.open /\ page'.open
    <3>1. CancelDialog => page.open
      BY DEF CancelDialog, NoPage
    <3> QED
      BY <3>1, DialogPage DEF OpenDialog
  <2> QED
    BY <1>2, <1>3, <2>1, <2>2, <2>3, <2>4, <2>5 DEF PageStep, Serves, ClosePage
<1>4. CASE UNCHANGED vars
  BY <1>4 DEF vars, sessionVars, pageVars, IsAuthenticated
<1> QED
  BY <1>1, <1>2, <1>3, <1>4 DEF Next

\* What is waited for was sent as the user who is shown; a list holds that user's
\* memories.
CallInv ==
    /\ \A c \in Calls : calls[c].heard /\ ~foreign => calls[c].as = tab.user
    /\ \A c \in Calls : \A m \in calls[c].items : m.owner = calls[c].as
    /\ \A c \in Calls : calls[c].items # {} =>
            calls[c].heard /\ calls[c].kind \in Lists /\ calls[c].reply = "ok"
    /\ ~foreign => \A m \in page.shown : m.owner = tab.user

LEMMA SentAsUser ==
    ASSUME TypeInv, StoreInv, OpenInv, CallInv, page.open, UNCHANGED sessionVars,
           NEW c \in Calls, NEW kind, NEW target, Send(c, kind, target),
           \/ page'.shown = page.shown
           \/ page'.shown = {}
    PROVE  CallInv'
<1>1. ~foreign => storage = tab.user
  BY DEF StoreInv, OpenInv, IsAuthenticated
<1>2. UNCHANGED <<tab, foreign, storage>>
  BY DEF sessionVars
<1> QED
  <2>1. PageTyped
    BY DEF TypeInv
  <2>2. /\ \A d \in Calls : d # c => calls'[d] = calls[d]
        /\ calls'[c].as = storage /\ calls'[c].items = {}
    BY <2>1, SendEffect
  <2> QED
    BY <1>1, <1>2, <2>2 DEF CallInv

LEMMA NoCallIsEmpty == NoCall.heard = FALSE /\ NoCall.items = {} /\ NoCall.own = FALSE /\ NoCall.kind = "none"
BY DEF NoCall

LEMMA UnheardIsEmpty ==
    ASSUME PageTyped, CallInv, NEW c \in Calls
    PROVE  Unheard(calls[c]).heard = FALSE /\ Unheard(calls[c]).items = {}
<1>1. Unheard(calls[c]) = NoCall \/ (/\ Unheard(calls[c]).items = calls[c].items
                                    /\ calls[c].reply = "none")
  BY UnheardEffect
<1>2. calls[c].items # {} => calls[c].reply = "ok"
  BY DEF CallInv
<1>3. Unheard(calls[c]).heard = FALSE
  BY UnheardEffect
<1> QED
  BY <1>1, <1>2, <1>3, NoCallIsEmpty

LEMMA CallStep ==
    TypeInv /\ StoreInv /\ OpenInv /\ CallInv /\ [Next]_vars => CallInv'
<1> SUFFICES ASSUME TypeInv, StoreInv, OpenInv, CallInv, [Next]_vars PROVE CallInv'
  OBVIOUS
<1>0. PageTyped
  BY DEF TypeInv
<1> USE <1>0, NoCallIsEmpty DEF CallInv
<1>1. CASE UNCHANGED <<rows, pageVars>> /\ (SessionStep \/ (Registration /\ Quiet) \/ OtherTab)
  <2>1. CASE page.open
    <3>1. foreign'
      BY <1>1, <2>1, SessionRests DEF OtherTab
    <3> QED
      BY <1>1, <3>1 DEF pageVars
  <2>2. CASE ~page.open
    <3>1. page.shown = {} /\ \A c \in Calls : ~calls[c].heard
      BY <2>2 DEF OpenInv, NoPage
    <3> QED
      BY <1>1, <3>1 DEF pageVars
  <2> QED
    BY <2>1, <2>2
<1>2. CASE Leave
  <2>1. ASSUME NEW c \in Calls
        PROVE  calls'[c].heard = FALSE /\ calls'[c].items = {}
    <3>1. calls'[c] = Unheard(calls[c])
      BY <1>2 DEF Leave
    <3> QED
      BY <3>1, UnheardIsEmpty
  <2>2. page'.shown = {}
    BY <1>2 DEF Leave, NoPage
  <2> QED
    BY <2>1, <2>2
<1>3. CASE PageStep /\ UNCHANGED sessionVars
  <2>0. UNCHANGED <<tab, foreign, storage>>
    BY <1>3 DEF sessionVars
  <2>1. ASSUME NEW c \in Calls, Serves(c)
        PROVE  CallInv'
    <3>1. \A d \in Calls : d # c => calls'[d] = calls[d]
      BY <2>1, ServeEffect
    <3>2. page' = page
      BY <2>1, ServeEffect
    <3>3. /\ calls'[c].heard => calls[c].heard /\ calls'[c].as = calls[c].as
          /\ \A m \in calls'[c].items : m.owner = calls'[c].as
          /\ calls'[c].items # {} =>
                calls'[c].heard /\ calls'[c].kind \in Lists /\ calls'[c].reply = "ok"
      <4>1. CASE calls[c].heard
        <5>1. /\ calls'[c].kind = calls[c].kind /\ calls'[c].as = calls[c].as
              /\ calls'[c].heard = TRUE
              /\ calls'[c].items # {} => ServeList(c)
              /\ ServeList(c) => /\ calls[c].kind \in Lists /\ calls'[c].reply = "ok"
                                 /\ calls'[c].items = {[id |-> m, owner |-> calls[c].as] :
                                                          m \in Owned(calls[c].as)}
          BY <2>1, <4>1, ServeEffect
        <5> QED
          BY <4>1, <5>1
      <4>2. CASE ~calls[c].heard
        BY <2>1, <4>2, ServeEffect
      <4> QED
        BY <4>1, <4>2
    <3> QED
      BY <2>0, <3>1, <3>2, <3>3
  <2>2. ASSUME NEW c \in Calls, OpenPage(c)
        PROVE  CallInv'
    <3>1. page'.shown = {}
      BY <2>2 DEF OpenPage, NoPage
    <3>2. ~foreign => storage = tab.user
      BY <2>2 DEF OpenPage, StoreInv, IsAuthenticated
    <3>3. Send(c, "load", Nobody)
      BY <2>2 DEF OpenPage
    <3> QED
      <4>1. /\ \A d \in Calls : d # c => calls'[d] = calls[d]
            /\ calls'[c].as = storage /\ calls'[c].items = {}
        BY <3>3, SendEffect
      <4> QED
        BY <2>0, <3>1, <3>2, <4>1
  <2>3. ASSUME NEW c \in Calls, Load(c) \/ Save(c) \/ Remove(c)
        PROVE  CallInv'
    <3>1. page.open
      BY <2>3 DEF Load, Save, Remove, OpenInv, NoPage
    <3>2. page'.shown = page.shown
      BY <2>3, PageEffect
    <3>3. \E kind, target : Send(c, kind, target)
      BY <2>3 DEF Load, Save, Remove
    <3> QED
      BY <1>3, <3>1, <3>2, <3>3, SentAsUser
  <2>4. ASSUME NEW c \in Calls, HearList(c)
        PROVE  CallInv'
    <3>1. page'.shown = IF calls[c].reply = "ok" THEN calls[c].items ELSE page.shown
      BY <2>4, PageEffect
    <3>2. calls' = [calls EXCEPT ![c] = NoCall] /\ calls[c].heard
      BY <2>4 DEF HearList, Hears
    <3> QED
      BY <2>0, <3>1, <3>2, ForgottenEffect
  <2>5. ASSUME NEW c \in Calls, HearSave(c)
        PROVE  CallInv'
    <3>1. page.open /\ page'.shown = page.shown
      BY <2>5, HearSaveEffect DEF HearSave, Hears, OpenInv
    <3>2. CASE Send(c, "after", Nobody)
      BY <1>3, <3>1, <3>2, SentAsUser
    <3>3. CASE calls' = [calls EXCEPT ![c] = NoCall]
      BY <2>0, <3>1, <3>3, ForgottenEffect
    <3> QED
      BY <2>5, <3>2, <3>3 DEF HearSave
  <2>6. ASSUME NEW c \in Calls, HearRemove(c)
        PROVE  CallInv'
    <3>1. page'.shown \subseteq page.shown
      BY <2>6, PageEffect
    <3>2. calls' = [calls EXCEPT ![c] = NoCall]
      BY <2>6 DEF HearRemove
    <3> QED
      BY <2>0, <3>1, <3>2, ForgottenEffect
  <2>7. ASSUME NEW c \in Calls, GiveUp(c)
        PROVE  CallInv'
    <3>1. page'.shown = page.shown
      BY <2>7, PageEffect
    <3>2. /\ \A d \in Calls : d # c => calls'[d] = calls[d]
          /\ calls'[c] = Unheard(calls[c])
      BY <2>7 DEF GiveUp, PageTyped
    <3>3. calls'[c].heard = FALSE /\ calls'[c].items = {}
      BY <3>2, UnheardIsEmpty
    <3> QED
      BY <2>0, <3>1, <3>2, <3>3
  <2>8. ASSUME NEW dialog \in {"new", "edit"}, OpenDialog(dialog)
        PROVE  CallInv'
    <3>1. page'.shown = page.shown
      BY <2>8, DialogPage
    <3> QED
      BY ZenonT(60), <2>0, <2>8, <3>1, DialogEffect
  <2>9. CASE CancelDialog
    <3>1. page'.shown = page.shown /\ calls' = calls
      BY <2>9, DialogPage DEF CancelDialog
    <3> QED
      BY <2>0, <3>1
  <2> QED
    BY <1>2, <1>3, <2>1, <2>2, <2>3, <2>4, <2>5, <2>6, <2>7, <2>8, <2>9
       DEF PageStep, Serves, ClosePage
<1>4. CASE UNCHANGED vars
  BY <1>4 DEF vars, sessionVars, pageVars
<1> QED
  BY <1>1, <1>2, <1>3, <1>4 DEF Next

UserInv == TypeInv /\ StoreInv /\ OpenInv /\ CallInv

LEMMA InitUserInv == Init => UserInv
<1> SUFFICES ASSUME Init PROVE UserInv
  OBVIOUS
<1>1. StoreInv
  BY DEF Init, SessionInit, StoreInv, NewTab, NoFlow
<1>2. OpenInv
  BY NoCallIsEmpty DEF Init, OpenInv, NoPage
<1>3. CallInv
  BY NoCallIsEmpty DEF Init, CallInv, NoPage
<1> QED
  BY <1>1, <1>2, <1>3, InitTypeInv DEF UserInv

LEMMA UserInvariant == Spec => []UserInv
<1>1. UserInv /\ [Next]_vars => UserInv'
  BY TypeStep, StoreStep, OpenStep, CallStep DEF UserInv
<1> QED
  BY <1>1, InitUserInv, PTL DEF Spec

\* With any number of accounts and requests under way, and any replies lost or late, a
\* tab whose token no other tab has changed asks and shows for its user alone.
THEOREM ActsForOne == Spec => []ActsAsItsUser
<1>1. UserInv => ActsAsItsUser
  BY DEF UserInv, StoreInv, OpenInv, CallInv, ActsAsItsUser
<1> QED
  BY <1>1, UserInvariant, PTL

-----------------------------------------------------------------------------
(* What stays deleted *)

\* A removal that was answered has been done, and no list on its way holds what the
\* page has seen deleted.
GoneInv ==
    /\ \A m \in gone : rows[m] = "deleted"
    /\ \A c \in Calls :
        calls[c].kind = "remove" /\ calls[c].reply = "ok" => rows[calls[c].target] = "deleted"
    /\ \A c \in Calls : \A m \in calls[c].items : m.id \notin gone
    /\ DeletedStaysAway

\* Deleted rows stay so, whatever is served.
LEMMA RowsEffect ==
    ASSUME PageTyped, NEW c \in Calls, Serves(c)
    PROVE  /\ \A m \in Ids : rows[m] = "deleted" => rows'[m] = "deleted"
           /\ calls[c].heard /\ calls[c].kind = "remove" /\ calls'[c].reply = "ok" =>
                rows'[calls[c].target] = "deleted"
           /\ \A m \in Owned(calls[c].as) : calls[c].as \in Accounts => rows[m] # "deleted"
<1> {} \in SUBSET Listed
  OBVIOUS
<1>0. \A m \in Owned(calls[c].as) : calls[c].as \in Accounts => rows[m] # "deleted"
  BY MemoryAssumption DEF Owned, MemoryAssumption
<1>1. CASE ServeRemove(c)
  <2>1. calls[c].target \in Ids
    BY <1>1 DEF ServeRemove, Owned
  <2>2. rows' = [rows EXCEPT ![calls[c].target] = "deleted"]
    BY <1>1 DEF ServeRemove
  <2>3. \A m \in Ids : rows'[m] = IF m = calls[c].target THEN "deleted" ELSE rows[m]
    BY <2>2 DEF PageTyped
  <2> QED
    BY <1>0, <2>1, <2>3
<1>2. CASE ServeCreate(c)
  <2>1. PICK m \in Ids : rows[m] = "unborn" /\ rows' = [rows EXCEPT ![m] = calls[c].as]
    BY <1>2 DEF ServeCreate
  <2>2. calls[c].kind # "remove"
    BY <1>2 DEF ServeCreate, Awaiting
  <2>3. \A n \in Ids : n # m => rows'[n] = rows[n]
    BY <2>1 DEF PageTyped
  <2> QED
    BY <1>0, <2>1, <2>2, <2>3
<1>3. CASE ServeList(c) \/ ServeUpdate(c)
  BY <1>0, <1>3 DEF ServeList, ServeUpdate, Awaiting, Lists
<1>4. CASE Refuse(c)
  <2>1. rows' = rows /\ Answer(c, "error", {})
    BY <1>4 DEF Refuse
  <2>2. calls[c].heard => calls'[c].reply = "error"
    BY <2>1, AnswerEffect
  <2> QED
    BY <1>0, <2>1, <2>2
<1> QED
  BY <1>1, <1>2, <1>3, <1>4 DEF Serves

LEMMA GoneStep == UserInv /\ GoneInv /\ [Next]_vars => GoneInv'
<1> SUFFICES ASSUME UserInv, GoneInv, [Next]_vars PROVE GoneInv'
  OBVIOUS
<1>0. PageTyped /\ OpenInv /\ CallInv
  BY DEF UserInv, TypeInv
<1> USE <1>0, NoCallIsEmpty DEF GoneInv, DeletedStaysAway
<1>1. CASE UNCHANGED <<rows, pageVars>>
  BY <1>1 DEF pageVars
<1>2. CASE Leave
  <2>1. gone' = {} /\ rows' = rows
    BY <1>2 DEF Leave
  <2>2. ASSUME NEW c \in Calls
        PROVE  calls'[c].kind = "none" \/ calls'[c].reply = "none"
    <3>1. calls'[c] = Unheard(calls[c])
      BY <1>2 DEF Leave
    <3> QED
      BY <3>1, UnheardEffect
  <2> QED
    BY <2>1, <2>2
<1>3. CASE PageStep
  <2>1. ASSUME NEW c \in Calls, Serves(c)
        PROVE  GoneInv'
    <3>1. /\ \A d \in Calls : d # c => calls'[d] = calls[d]
          /\ page' = page /\ gone' = gone
      BY <2>1, ServeEffect
    <3>2. \A m \in gone : rows'[m] = "deleted"
      BY <2>1, RowsEffect DEF PageTyped
    <3>3. \A d \in Calls :
            d # c /\ calls[d].kind = "remove" /\ calls[d].reply = "ok" =>
                rows'[calls[d].target] = "deleted"
      BY <2>1, RowsEffect DEF PageTyped, ProperCalls
    <3>4. calls'[c].kind = "remove" /\ calls'[c].reply = "ok" =>
                rows'[calls'[c].target] = "deleted"
      <4>1. CASE calls[c].heard
        <5>1. calls'[c].kind = calls[c].kind /\ calls'[c].target = calls[c].target
          BY <2>1, <4>1, ServeEffect
        <5> QED
          BY <2>1, <4>1, <5>1, RowsEffect
      <4>2. CASE ~calls[c].heard
        BY <2>1, <4>2, ServeEffect
      <4> QED
        BY <4>1, <4>2
    <3>5. \A m \in calls'[c].items : m.id \notin gone
      <4>1. CASE calls'[c].items = {}
        BY <4>1
      <4>2. CASE calls'[c].items # {}
        <5>1. calls[c].heard
          BY <2>1, <4>2, ServeEffect
        <5>2. ServeList(c)
          BY <2>1, <4>2, <5>1, ServeEffect
        <5>3. calls'[c].items = {[id |-> m, owner |-> calls[c].as] : m \in Owned(calls[c].as)}
          BY <2>1, <5>1, <5>2, ServeEffect
        <5>4. calls[c].as \in Accounts
          BY <5>2, CallsTyped DEF ServeList
        <5>5. \A m \in Owned(calls[c].as) : rows[m] # "deleted"
          BY <2>1, <5>4, RowsEffect
        <5> QED
          BY <5>3, <5>5
      <4> QED
        BY <4>1, <4>2
    <3> QED
      BY <3>1, <3>2, <3>3, <3>4, <3>5
  <2>2. ASSUME NEW c \in Calls, OpenPage(c)
        PROVE  GoneInv'
    <3>1. gone' = {} /\ rows' = rows /\ Send(c, "load", Nobody)
      BY <2>2 DEF OpenPage
    <3>2. \A d \in Calls : d # c => calls'[d] = calls[d]
      BY <3>1, SendEffect
    <3>3. calls'[c].reply = "none"
      BY <3>1, SendEffect
    <3> QED
      BY <3>1, <3>2, <3>3
  <2>3. ASSUME NEW c \in Calls, Load(c) \/ Save(c) \/ Remove(c)
        PROVE  GoneInv'
    <3>1. page'.shown = page.shown
      BY <2>3, PageEffect
    <3>2. rows' = rows /\ gone' = gone /\ \E kind, target : Send(c, kind, target)
      BY <2>3 DEF Load, Save, Remove
    <3>3. \A d \in Calls : d # c => calls'[d] = calls[d]
      BY <3>2, SendEffect
    <3>4. calls'[c].reply = "none" /\ calls'[c].items = {}
      BY <3>2, SendEffect
    <3> QED
      BY <3>1, <3>2, <3>3, <3>4
  <2>4. ASSUME NEW c \in Calls, HearList(c)
        PROVE  GoneInv'
    <3>1. page'.shown = IF calls[c].reply = "ok" THEN calls[c].items ELSE page.shown
      BY <2>4, PageEffect
    <3>2. calls' = [calls EXCEPT ![c] = NoCall] /\ rows' = rows /\ gone' = gone
      BY <2>4 DEF HearList
    <3> QED
      BY <3>1, <3>2, ForgottenEffect
  <2>5. ASSUME NEW c \in Calls, HearSave(c)
        PROVE  GoneInv'
    <3>1. page'.shown = page.shown
      BY <2>5, HearSaveEffect
    <3>2. rows' = rows /\ gone' = gone
      BY <2>5 DEF HearSave
    <3>3. CASE Send(c, "after", Nobody)
      <4>1. \A d \in Calls : d # c => calls'[d] = calls[d]
        BY <3>3, SendEffect
      <4>2. calls'[c].reply = "none" /\ calls'[c].items = {}
        BY <3>3, SendEffect
      <4> QED
        BY <3>1, <3>2, <4>1, <4>2
    <3>4. CASE calls' = [calls EXCEPT ![c] = NoCall]
      BY <3>1, <3>2, <3>4, ForgottenEffect
    <3> QED
      BY <2>5, <3>3, <3>4 DEF HearSave
  <2>6. ASSUME NEW c \in Calls, HearRemove(c)
        PROVE  GoneInv'
    <3>1. /\ page'.shown \subseteq page.shown
          /\ calls[c].reply = "ok" => \A m \in page'.shown : m.id # calls[c].target
      BY <2>6, PageEffect
    <3>2. /\ calls' = [calls EXCEPT ![c] = NoCall] /\ rows' = rows
          /\ gone' = gone
             \/ (calls[c].reply = "ok" /\ ~ListUnderWay /\ gone' = gone \cup {calls[c].target})
      BY <2>6 DEF HearRemove
    <3>3. calls[c].kind = "remove"
      BY <2>6 DEF HearRemove, Hears
    <3>4. ~ListUnderWay => \A d \in Calls : calls[d].items = {}
      BY DEF ListUnderWay, CallInv
    <3>5. /\ calls'[c] = NoCall
          /\ \A d \in Calls : d # c => calls'[d] = calls[d]
      BY <3>2, ForgottenEffect
    <3>6. CASE gone' = gone
      BY <3>1, <3>2, <3>5, <3>6
    <3>7. CASE calls[c].reply = "ok" /\ ~ListUnderWay /\ gone' = gone \cup {calls[c].target}
      BY <3>1, <3>2, <3>3, <3>4, <3>5, <3>7
    <3> QED
      BY <3>2, <3>6, <3>7
  <2>7. ASSUME NEW c \in Calls, GiveUp(c)
        PROVE  GoneInv'
    <3>1. page'.shown = page.shown
      BY <2>7, PageEffect
    <3>2. /\ \A d \in Calls : d # c => calls'[d] = calls[d]
          /\ calls'[c] = Unheard(calls[c]) /\ rows' = rows /\ gone' = gone
      BY <2>7 DEF GiveUp, PageTyped
    <3>3. calls'[c].items = {}
      BY <3>2, UnheardIsEmpty
    <3>4. calls'[c].kind = "none" \/ calls'[c].reply = "none"
      BY <3>2, UnheardEffect
    <3> QED
      BY <3>1, <3>2, <3>3, <3>4
  <2>8. ASSUME NEW dialog \in {"new", "edit"}, OpenDialog(dialog)
        PROVE  GoneInv'
    <3>1. page'.shown = page.shown
      BY <2>8, DialogPage
    <3>2. rows' = rows /\ gone' = gone
      BY <2>8 DEF OpenDialog
    <3> QED
      BY <2>8, <3>1, <3>2, DialogEffect
  <2>9. CASE CancelDialog
    <3>1. page'.shown = page.shown
      BY <2>9, DialogPage
    <3> QED
      BY <2>9, <3>1 DEF CancelDialog
  <2> QED
    BY <1>2, <1>3, <2>1, <2>2, <2>3, <2>4, <2>5, <2>6, <2>7, <2>8, <2>9
       DEF PageStep, Serves, ClosePage
<1>4. CASE UNCHANGED vars
  BY <1>1, <1>4 DEF vars
<1> QED
  BY <1>1, <1>2, <1>3, <1>4 DEF Next

\* For any memories and requests under way, a memory the page saw deleted while no
\* list was on its way is not shown again.
THEOREM DeletedMemories == Spec => []DeletedStaysAway
<1>1. Init => GoneInv
  BY NoCallIsEmpty DEF Init, GoneInv, DeletedStaysAway, NoPage
<1>2. GoneInv => DeletedStaysAway
  BY DEF GoneInv
<1> QED
  BY <1>1, <1>2, GoneStep, UserInvariant, PTL DEF Spec

-----------------------------------------------------------------------------
(* What a dialog creates *)

Busy(c) == calls[c].heard /\ calls[c].kind \in Saves \cup {"after"}

\* One save is heard at a time, and while it is the button is disabled.
SaveInv ==
    /\ \A c \in Calls : Busy(c) => page.saving
    /\ \A c, d \in Calls : Busy(c) /\ Busy(d) => c = d
    /\ \A c \in Calls : calls[c].own => Busy(c) /\ calls[c].kind \in Saves

\* A create is sent only when its dialog has created nothing; when it has, the dialog is
\* closed or is about to be.
OnceInv ==
    ~retried =>
        /\ made = {} \/ \E m \in Ids : made = {m}
        /\ \A c \in Calls :
            calls[c].own /\ calls[c].kind = "create" /\ calls[c].reply = "none" => made = {}
        /\ made # {} => page.dialog = "closed" \/ \E c \in Calls : calls[c].own /\ calls[c].reply = "ok"

DialogInv == SaveInv /\ OnceInv

LEMMA ServeOnce ==
    ASSUME UserInv, DialogInv, NEW c \in Calls, Serves(c)
    PROVE  DialogInv'
<1>0. PageTyped
  BY DEF UserInv, TypeInv
<1>1. /\ \A d \in Calls : d # c => calls'[d] = calls[d]
      /\ page' = page /\ retried' = retried /\ calls[c].reply = "none"
  BY <1>0, ServeEffect
<1>2. calls[c].heard \in BOOLEAN /\ calls[c].own \in BOOLEAN
  BY <1>0, CallsTyped
<1>3. CASE calls[c].heard
  <2>1. /\ calls'[c].kind = calls[c].kind /\ calls'[c].own = calls[c].own
        /\ calls'[c].heard = TRUE
    BY <1>0, <1>3, ServeEffect
  <2>2. SaveInv'
    BY <1>1, <1>3, <2>1 DEF DialogInv, SaveInv, Busy
  <2>3. CASE ServeCreate(c)
    <3>1. PICK m \in Ids : made' = IF calls[c].own THEN made \cup {m} ELSE made
      BY <2>3 DEF ServeCreate
    <3>2. calls'[c].reply = "ok"
      <4>1. {} \in SUBSET Listed /\ Answer(c, "ok", {})
        BY <2>3 DEF ServeCreate
      <4> QED
        BY <1>0, <1>3, <4>1, AnswerEffect
    <3>3. calls[c].kind = "create"
      BY <2>3 DEF ServeCreate, Awaiting
    <3>4. CASE calls[c].own
      <4>1. \A d \in Calls : calls[d].own => d = c
        BY <3>4 DEF DialogInv, SaveInv
      <4>2. ~retried => made = {}
        BY <1>1, <3>3, <3>4 DEF DialogInv, OnceInv
      <4>3. ~retried => made' = {m}
        BY <3>1, <3>4, <4>2
      <4>4. \A d \in Calls : calls'[d].own => d = c
        BY <1>1, <4>1
      <4> QED
        BY <1>1, <2>1, <2>2, <3>2, <3>4, <4>3, <4>4 DEF DialogInv, OnceInv
    <3>5. CASE ~calls[c].own
      <4>1. made' = made
        BY <3>1, <3>5
      <4> QED
        BY <1>1, <2>1, <2>2, <3>5, <4>1 DEF DialogInv, OnceInv
    <3> QED
      BY <1>2, <3>4, <3>5
  <2>4. CASE ~ServeCreate(c)
    <3>1. made' = made
      BY <2>4 DEF Serves, ServeList, ServeUpdate, ServeRemove, Refuse
    <3>2. \A d \in Calls :
            calls[d].own /\ calls[d].reply = "ok" => calls'[d].own /\ calls'[d].reply = "ok"
      BY <1>1
    <3>3. \A d \in Calls :
            calls'[d].own /\ calls'[d].kind = "create" /\ calls'[d].reply = "none" =>
                calls[d].own /\ calls[d].kind = "create" /\ calls[d].reply = "none"
      BY <1>1, <2>1
    <3> QED
      BY <1>1, <2>2, <3>1, <3>2, <3>3 DEF DialogInv, OnceInv
  <2> QED
    BY <2>3, <2>4
<1>4. CASE ~calls[c].heard
  <2>1. calls'[c] = NoCall
    BY <1>0, <1>4, ServeEffect
  <2>2. ~calls[c].own
    BY <1>2, <1>4 DEF DialogInv, SaveInv, Busy
  <2>3. made' = made
    BY <2>2 DEF Serves, ServeCreate, ServeList, ServeUpdate, ServeRemove, Refuse
  <2>4. SaveInv'
    BY <1>1, <2>1, NoCallIsEmpty DEF DialogInv, SaveInv, Busy
  <2>5. OnceInv'
    BY <1>1, <2>1, <2>2, <2>3, NoCallIsEmpty DEF DialogInv, OnceInv
  <2> QED
    BY <2>4, <2>5 DEF DialogInv
<1> QED
  BY <1>2, <1>3, <1>4

\* A request that is neither a save nor the list after one takes a free place.
LEMMA SendOnce ==
    ASSUME UserInv, DialogInv, NEW c \in Calls, Free(c), NEW kind \in {"load", "remove"},
           NEW target, Send(c, kind, target), page'.saving = page.saving,
           page'.dialog = page.dialog, UNCHANGED <<made, retried>>
    PROVE  DialogInv'
<1>0. PageTyped
  BY DEF UserInv, TypeInv
<1>1. calls[c].own = FALSE
  <2>1. ~calls[c].own
    BY DEF Free, DialogInv, SaveInv, Saves
  <2> QED
    BY <1>0, <2>1, CallsTyped
<1>2. \A d \in Calls : d # c => calls'[d] = calls[d]
  BY <1>0, SendEffect
<1>3. calls'[c].kind = kind /\ calls'[c].own = FALSE
  <2>1. kind \notin Saves
    BY DEF Saves
  <2> QED
    BY <1>0, <2>1, SendEffect
<1>4. SaveInv'
  BY <1>2, <1>3 DEF DialogInv, SaveInv, Busy, Saves
<1>5. OnceInv'
  BY <1>1, <1>2, <1>3 DEF DialogInv, OnceInv
<1> QED
  BY <1>4, <1>5 DEF DialogInv

\* One that is no dialog's is heard, or given up.
LEMMA ForgetOnce ==
    ASSUME DialogInv, NEW c \in Calls, calls[c].own = FALSE,
           calls'[c].heard = FALSE, calls'[c].own = FALSE,
           \A d \in Calls : d # c => calls'[d] = calls[d],
           page'.saving = IF Busy(c) THEN FALSE ELSE page.saving,
           page'.dialog = page.dialog, UNCHANGED <<made, retried>>
    PROVE  DialogInv'
<1>1. SaveInv'
  <2>1. \A d \in Calls : Busy(d)' => d # c /\ Busy(d)
    BY DEF Busy
  <2>2. \A d \in Calls : calls'[d].own => d # c /\ calls[d].own
    OBVIOUS
  <2>3. \A d \in Calls : d # c => (Busy(d)' <=> Busy(d)) /\ calls'[d].kind = calls[d].kind
    BY DEF Busy
  <2>4. \A d \in Calls : Busy(d)' => page'.saving
    <3>1. CASE Busy(c)
      BY <2>1, <3>1 DEF DialogInv, SaveInv
    <3>2. CASE ~Busy(c)
      BY <2>1, <3>2 DEF DialogInv, SaveInv
    <3> QED
      BY <3>1, <3>2
  <2>5. \A d, e \in Calls : Busy(d)' /\ Busy(e)' => d = e
    BY <2>1 DEF DialogInv, SaveInv
  <2>6. \A d \in Calls : calls'[d].own => Busy(d)' /\ calls'[d].kind \in Saves
    BY <2>2, <2>3 DEF DialogInv, SaveInv
  <2> QED
    BY <2>4, <2>5, <2>6 DEF SaveInv
<1>2. OnceInv'
  BY DEF DialogInv, OnceInv
<1> QED
  BY <1>1, <1>2 DEF DialogInv

LEMMA HearOnce ==
    ASSUME UserInv, DialogInv, NEW c \in Calls,
           HearList(c) \/ HearSave(c) \/ HearRemove(c) \/ GiveUp(c)
    PROVE  DialogInv'
<1>0. PageTyped
  BY DEF UserInv, TypeInv
<1>1. calls[c].own \in BOOLEAN
  BY <1>0, CallsTyped
<1>2. calls' = [calls EXCEPT ![c] = NoCall] =>
        /\ \A d \in Calls : d # c => calls'[d] = calls[d]
        /\ calls'[c].heard = FALSE /\ calls'[c].own = FALSE /\ calls'[c].kind = "none"
  BY <1>0, ForgottenEffect, NoCallIsEmpty
<1>3. ASSUME calls[c].kind \notin Saves
      PROVE  calls[c].own = FALSE
  <2>1. ~calls[c].own
    BY <1>3 DEF DialogInv, SaveInv
  <2> QED
    BY <1>1, <2>1
<1>4. CASE HearList(c)
  <2>1. /\ calls[c].heard /\ calls[c].kind \in Lists /\ UNCHANGED <<made, retried>>
        /\ calls' = [calls EXCEPT ![c] = NoCall]
    BY <1>4 DEF HearList, Hears
  <2>2. page'.saving = IF Busy(c) THEN FALSE ELSE page.saving
    BY <1>0, <1>4, <2>1, PageEffect DEF Busy, Lists, Saves
  <2>3. page'.dialog = page.dialog
    BY <1>0, <1>4, PageEffect
  <2>4. calls[c].own = FALSE
    BY <1>3, <2>1 DEF Lists, Saves
  <2> QED
    BY <1>2, <2>1, <2>2, <2>3, <2>4, ForgetOnce
<1>5. CASE HearRemove(c)
  <2>1. /\ calls[c].kind = "remove" /\ UNCHANGED <<made, retried>>
        /\ calls' = [calls EXCEPT ![c] = NoCall]
    BY <1>5 DEF HearRemove, Hears
  <2>2. page'.saving = page.saving /\ page'.dialog = page.dialog
    BY <1>0, <1>5, PageEffect
  <2>3. ~Busy(c) /\ calls[c].own = FALSE
    BY <1>3, <2>1 DEF Busy, Saves
  <2> QED
    BY <1>2, <2>1, <2>2, <2>3, ForgetOnce
<1>6. CASE HearSave(c)
  <2>1. calls[c].heard /\ calls[c].kind \in Saves /\ UNCHANGED <<made, retried>>
    BY <1>6 DEF HearSave, Hears
  <2>2. Busy(c) /\ page.saving /\ \A d \in Calls : Busy(d) \/ calls[d].own => d = c
    BY <2>1 DEF DialogInv, SaveInv, Busy
  <2>3. CASE /\ calls[c].reply = "ok" /\ Send(c, "after", Nobody)
             /\ page'.dialog = "closed" /\ page'.saving = page.saving
    <3>1. \A d \in Calls : d # c => calls'[d] = calls[d]
      BY <1>0, <2>3, SendEffect
    <3>2. calls'[c].kind = "after" /\ calls'[c].own = FALSE
      <4>1. "after" \notin Saves
        BY DEF Saves
      <4> QED
        BY <1>0, <2>3, <4>1, SendEffect
    <3>3. SaveInv'
      BY <2>2, <2>3, <3>1, <3>2 DEF SaveInv, Busy
    <3>4. OnceInv'
      BY <2>1, <2>3, <3>1, <3>2 DEF DialogInv, OnceInv
    <3> QED
      BY <3>3, <3>4 DEF DialogInv
  <2>4. CASE /\ calls[c].reply # "ok" /\ calls' = [calls EXCEPT ![c] = NoCall]
             /\ page'.dialog = page.dialog /\ page'.saving = FALSE
    <3>1. SaveInv'
      BY <1>2, <2>2, <2>4 DEF SaveInv, Busy
    <3>2. OnceInv'
      BY <1>2, <2>1, <2>2, <2>4 DEF DialogInv, OnceInv
    <3> QED
      BY <3>1, <3>2 DEF DialogInv
  <2> QED
    BY <1>0, <1>6, <2>3, <2>4, HearSaveEffect
<1>7. CASE GiveUp(c)
  <2>1. /\ \A d \in Calls : d # c => calls'[d] = calls[d]
        /\ calls[c].heard /\ calls'[c] = Unheard(calls[c])
        /\ made' = made /\ retried' = (retried \/ calls[c].own)
    BY <1>0, <1>7 DEF GiveUp, PageTyped
  <2>2. calls'[c].heard = FALSE /\ calls'[c].own = FALSE
    BY <1>0, <2>1, UnheardEffect
  <2>3. /\ page'.dialog = page.dialog
        /\ page'.saving = IF Busy(c) THEN FALSE ELSE page.saving
    BY <1>0, <1>7, <2>1, PageEffect DEF Busy
  <2>4. CASE calls[c].own
    <3>1. SaveInv'
      <4>1. \A d \in Calls : Busy(d)' => d # c /\ Busy(d)
        BY <2>1, <2>2 DEF Busy
      <4>2. \A d \in Calls : calls'[d].own => d # c /\ calls[d].own
        BY <2>1, <2>2
      <4>3. Busy(c) /\ \A d \in Calls : Busy(d) => d = c
        BY <2>4 DEF DialogInv, SaveInv
      <4> QED
        BY <4>1, <4>2, <4>3 DEF DialogInv, SaveInv
    <3>2. retried'
      BY <2>1, <2>4
    <3> QED
      BY <3>1, <3>2 DEF DialogInv, OnceInv
  <2>5. CASE calls[c].own = FALSE
    <3>1. retried' = retried
      BY <1>0, <2>1, <2>5 DEF PageTyped
    <3> QED
      BY <2>1, <2>2, <2>3, <2>5, <3>1, ForgetOnce
  <2> QED
    BY <1>1, <2>4, <2>5
<1> QED
  BY <1>4, <1>5, <1>6, <1>7

LEMMA OnceStep == UserInv /\ DialogInv /\ [Next]_vars => DialogInv'
<1> SUFFICES ASSUME UserInv, DialogInv, [Next]_vars PROVE DialogInv'
  OBVIOUS
<1>0. PageTyped
  BY DEF UserInv, TypeInv
<1>1. CASE UNCHANGED <<rows, pageVars>>
  BY <1>1 DEF pageVars, DialogInv, SaveInv, OnceInv, Busy
<1>2. CASE Leave
  <2>1. ASSUME NEW c \in Calls
        PROVE  calls'[c].heard = FALSE /\ calls'[c].own = FALSE
    BY <1>0, <1>2, UnheardEffect DEF Leave
  <2>2. made' = {}
    BY <1>2 DEF Leave
  <2> QED
    BY <2>1, <2>2 DEF DialogInv, SaveInv, OnceInv, Busy
<1>3. CASE PageStep
  <2>1. ASSUME NEW c \in Calls, OpenPage(c)
        PROVE  DialogInv'
    <3>1. /\ Send(c, "load", Nobody) /\ UNCHANGED <<made, retried>>
          /\ \A d \in Calls : calls[d].kind = "none"
      BY <2>1 DEF OpenPage, Quiet, Free
    <3>2. page'.dialog = "closed"
      BY <2>1 DEF OpenPage, NoPage
    <3>3. \A d \in Calls : d # c => calls'[d] = calls[d]
      BY <1>0, <3>1, SendEffect
    <3>4. calls'[c].kind = "load" /\ calls'[c].own = FALSE
      <4>1. "load" \notin Saves
        BY DEF Saves
      <4> QED
        BY <1>0, <3>1, <4>1, SendEffect
    <3>5. SaveInv'
      BY <3>1, <3>3, <3>4 DEF DialogInv, SaveInv, Busy, Saves
    <3>6. OnceInv'
      BY <3>1, <3>2, <3>3, <3>4 DEF DialogInv, OnceInv
    <3> QED
      BY <3>5, <3>6 DEF DialogInv
  <2>2. ASSUME NEW c \in Calls, Load(c) \/ Remove(c)
        PROVE  DialogInv'
    <3>1. /\ Free(c) /\ UNCHANGED <<made, retried>>
          /\ \E kind \in {"load", "remove"} : \E target : Send(c, kind, target)
      BY <2>2 DEF Load, Remove
    <3>2. page'.saving = page.saving /\ page'.dialog = page.dialog
      BY <1>0, <2>2, PageEffect
    <3> QED
      BY <3>1, <3>2, SendOnce
  <2>3. ASSUME NEW c \in Calls, Save(c)
        PROVE  DialogInv'
    <3>1. /\ page.dialog # "closed" /\ ~page.saving /\ UNCHANGED <<made, retried>>
          /\ \E kind \in Saves : Send(c, kind, Nobody)
      BY <2>3 DEF Save, Saves
    <3>2. page'.saving = TRUE /\ page'.dialog = page.dialog
      BY <1>0, <2>3, PageEffect
    <3>3. \A d \in Calls : ~Busy(d) /\ ~calls[d].own
      BY <3>1 DEF DialogInv, SaveInv
    <3>4. /\ \A d \in Calls : d # c => calls'[d] = calls[d]
          /\ calls'[c].heard = TRUE /\ calls'[c].kind \in Saves
      BY <1>0, <3>1, SendEffect
    <3>5. ~retried => made = {}
      BY <3>1, <3>3 DEF DialogInv, OnceInv
    <3>6. SaveInv'
      BY <3>2, <3>3, <3>4 DEF SaveInv, Busy
    <3>7. OnceInv'
      BY <3>1, <3>5 DEF OnceInv
    <3> QED
      BY <3>6, <3>7 DEF DialogInv
  <2>4. ASSUME NEW dialog \in {"new", "edit"}, OpenDialog(dialog)
        PROVE  DialogInv'
    <3>1. made' = {} /\ page'.saving = page.saving
      BY <1>0, <2>4, DialogPage DEF OpenDialog
    <3>2. ASSUME NEW c \in Calls
          PROVE  /\ calls'[c].kind = calls[c].kind /\ calls'[c].heard = calls[c].heard
                 /\ calls'[c].own = FALSE
      BY <1>0, <2>4, DialogEffect
    <3> QED
      BY <3>1, <3>2 DEF DialogInv, SaveInv, OnceInv, Busy
  <2>5. CASE CancelDialog
    <3>1. page'.saving = page.saving /\ page'.dialog = "closed"
      BY <1>0, <2>5, DialogPage
    <3> QED
      BY <2>5, <3>1 DEF CancelDialog, DialogInv, SaveInv, OnceInv, Busy
  <2> QED
    BY <1>2, <1>3, <2>1, <2>2, <2>3, <2>4, <2>5, ServeOnce, HearOnce
       DEF PageStep, Serves, ClosePage
<1>4. CASE UNCHANGED vars
  BY <1>1, <1>4 DEF vars
<1> QED
  BY <1>1, <1>2, <1>3, <1>4 DEF Next

\* For any number of memories and requests under way: one dialog, one memory, as long as
\* the page gives up on no save.
THEOREM SavesOnce == Spec => []SavedOnce
<1>1. Init => DialogInv
  BY NoCallIsEmpty DEF Init, DialogInv, SaveInv, OnceInv, Busy
<1>2. UserInv /\ DialogInv => SavedOnce
  <2> SUFFICES ASSUME DialogInv, ~retried PROVE Cardinality(made) <= 1
    BY DEF SavedOnce
  <2>1. CASE made = {}
    BY <2>1, FS_EmptySet
  <2>2. CASE \E m \in Ids : made = {m}
    <3>1. Cardinality(made) = 1
      BY <2>2, FS_Singleton
    <3> QED
      BY <3>1
  <2> QED
    BY <2>1, <2>2 DEF DialogInv, OnceInv
<1> QED
  BY <1>1, <1>2, OnceStep, UserInvariant, PTL DEF Spec

=============================================================================
