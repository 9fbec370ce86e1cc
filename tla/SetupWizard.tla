---------------------------- MODULE SetupWizard ----------------------------
(***************************************************************************)
(* The setup application in the browser (web/setup/src): one record of      *)
(* React state per tab. A handler is two actions: what it does up to its    *)
(* await, and the continuation that runs when the answer arrives. Between   *)
(* the two the user goes on with whatever is not disabled. A page that is   *)
(* reloaded is a tab that goes silent and another one that starts.          *)
(***************************************************************************)
EXTENDS SetupServer

CONSTANTS
    ModelKeys,  \* the fields of the first step
    NginxKeys,  \* the fields of the second step
    Shown,      \* the values the wizard starts with
    Typed,      \* the values the user may type
    MaxEdits    \* bound: the fields that differ from what was shown

ASSUME WizardAssumption ==
    /\ Shown \in [ConfigKeys -> Values]
    /\ ModelKeys \cup NginxKeys \subseteq ConfigKeys
    /\ Typed \subseteq Values /\ MaxEdits \in Nat

VARIABLE ui     \* ui[t]: the state of the components mounted in tab t

(* App, Wizard and AdminLogin as they are mounted; api.js has no header.     *)
Mounted ==
    [view |-> "blank", step |-> 0, config |-> Shown, busy |-> FALSE,
     auth |-> NoCreds, signedIn |-> FALSE]

WizardInit == ui = [t \in Tabs |-> Mounted]

OnStep(t, n) == ui[t].view = "wizard" /\ ui[t].step = n

(* The calls of api.js: the tab's credentials, if any, go with each request. *)
Send(t, op, body) ==
    /\ Fetch(t, op, ui[t].auth, body)
    /\ UNCHANGED <<env, certs, history>>

(* What comes of one of them: handle throws unless the status is a success,  *)
(* and fetch when the connection breaks.                                     *)
Receive(t, c, op, got) ==
    /\ call[c].tab = t /\ call[c].op = op
    /\ Answered(c, got) \/ Broken(c, got)
    /\ UNCHANGED <<env, certs, history>>
Success(got) == got \notin {"refused", "lost"}

-----------------------------------------------------------------------------
(* App asks for the status once and shows the wizard or the login.           *)
App(t) ==
    /\ ui[t].view = "blank"
    /\ Send(t, "status", NoBody)
    /\ ui' = [ui EXCEPT ![t].view = "loading"]

AppShown(t, c, got) ==
    /\ Receive(t, c, "status", got)
    /\ ui' = [ui EXCEPT ![t].view =
                 CASE got = "open" -> "wizard"
                   [] got = "sealed" -> "login"
                   [] OTHER -> "error"]

-----------------------------------------------------------------------------
(* The fields of the first two steps are never disabled.                     *)
Edited == {f \in Tabs \X ConfigKeys : ui[f[1]].config[f[2]] # Shown[f[2]]}
Edit(t, n, keys) ==
    /\ OnStep(t, n)
    /\ \E k \in keys, v \in Typed :
          /\ ui[t].config[k] # v
          /\ Cardinality(Edited) < MaxEdits
          /\ ui' = [ui EXCEPT ![t].config[k] = v]
    /\ UNCHANGED serverVars
StepModel(t) == Edit(t, 0, ModelKeys)
StepNginx(t) == Edit(t, 1, NginxKeys)

Back(t) ==
    /\ OnStep(t, 1) \/ OnStep(t, 2)
    /\ ~ui[t].busy
    /\ ui' = [ui EXCEPT ![t].step = @ - 1]
    /\ UNCHANGED serverVars

PersistAndNext(t) ==
    /\ \E n \in 0..2 : OnStep(t, n)
    /\ ~ui[t].busy
    /\ Send(t, "saveConfig", ui[t].config)
    /\ ui' = [ui EXCEPT ![t].busy = TRUE]

(* Fault: busy is only reset after a success.                                *)
PersistedOrStuck(t, c, got) ==
    /\ Receive(t, c, "saveConfig", got)
    /\ ui' = [ui EXCEPT ![t].busy = ~Success(got),
                        ![t].step = IF Success(got) THEN @ + 1 ELSE @]

(* Fault: the wizard goes on after a failure, too.                           *)
PersistedAnyway(t, c, got) ==
    /\ Receive(t, c, "saveConfig", got)
    /\ ui' = [ui EXCEPT ![t].busy = FALSE, ![t].step = @ + 1]

Persisted(t, c, got) ==
    /\ Receive(t, c, "saveConfig", got)
    /\ ui' = [ui EXCEPT ![t].busy = FALSE,
                        ![t].step = IF Success(got) THEN @ + 1 ELSE @]

(* One certificate slot at a time; both texts must be there, PEM or not.     *)
StepCerts(t) ==
    /\ OnStep(t, 2)
    /\ ~ui[t].busy
    /\ \E s \in Slots, p \in Pairs \cup {NotPem} :
          Send(t, "saveCert", [slot |-> s, pair |-> p])
    /\ ui' = [ui EXCEPT ![t].busy = TRUE]

CertAnswered(t, c, got) ==
    /\ Receive(t, c, "saveCert", got)
    /\ ui' = [ui EXCEPT ![t].busy = FALSE]

(* Credentials that pass the form's own checks are posted; after a success   *)
(* the tab keeps them, unless setAuth throws on them, and moves on.          *)
StepAdmin(t) ==
    /\ OnStep(t, 3)
    /\ ~ui[t].busy
    /\ \E a \in Creds : Send(t, "complete", a)
    /\ ui' = [ui EXCEPT ![t].busy = TRUE]

(* Fault: the tab moves on whatever the answer was.                          *)
CompletedAnyway(t, c, got) ==
    LET a == call[c].body
    IN /\ Receive(t, c, "complete", got)
       /\ ui' = IF Encoding[a] # "wide"
                THEN [ui EXCEPT ![t].busy = FALSE, ![t].auth = a, ![t].step = 4]
                ELSE [ui EXCEPT ![t].busy = FALSE]

Completed(t, c, got) ==
    LET a == call[c].body
    IN /\ Receive(t, c, "complete", got)
       /\ ui' = IF Success(got) /\ Encoding[a] # "wide"
                THEN [ui EXCEPT ![t].busy = FALSE, ![t].auth = a, ![t].step = 4]
                ELSE [ui EXCEPT ![t].busy = FALSE]

(* The last step asks for the download with the credentials it kept, one     *)
(* download at a time; what follows the answer is module DownloadSystem's.   *)
StepDownload(t) ==
    /\ OnStep(t, 4)
    /\ \A c \in Conns : call[c].tab # t
    /\ Send(t, "download", NoBody)
    /\ UNCHANGED ui

DownloadAnswered(t, c, got) == Receive(t, c, "download", got) /\ UNCHANGED ui

-----------------------------------------------------------------------------
(* The login sets the header before it asks, and forgets it on any failure.  *)
(* Its button is never disabled; setAuth throws before anything is sent.     *)
Login(t) ==
    /\ ui[t].view = "login"
    /\ \E a \in Creds :
          /\ Encoding[a] # "wide"
          /\ Fetch(t, "getConfig", a, NoBody)
          /\ ui' = [ui EXCEPT ![t].auth = a]
    /\ UNCHANGED <<env, certs, history>>

LoggedIn(t, c, got) ==
    /\ Receive(t, c, "getConfig", got)
    /\ ui' = [ui EXCEPT ![t].signedIn = Success(got),
                        ![t].auth = IF Success(got) THEN @ ELSE NoCreds]

(* What the user does, and what the browser does when an answer arrives.     *)
Click(t) ==
    \/ StepModel(t) \/ StepNginx(t) \/ Back(t) \/ PersistAndNext(t)
    \/ StepCerts(t) \/ StepAdmin(t) \/ StepDownload(t) \/ Login(t)

React(t) ==
    \/ App(t)
    \/ \E c \in Conns : \E got \in {call[c].reply, "lost"} :
          \/ AppShown(t, c, got) \/ Persisted(t, c, got) \/ CertAnswered(t, c, got)
          \/ Completed(t, c, got) \/ DownloadAnswered(t, c, got) \/ LoggedIn(t, c, got)

WizardTypeOK ==
    ui \in [Tabs ->
        [view : {"blank", "loading", "wizard", "login", "error"}, step : 0..4,
         config : [ConfigKeys -> Values], busy : BOOLEAN,
         auth : Sendable \cup {NoCreds},
         signedIn : BOOLEAN]]
=============================================================================
