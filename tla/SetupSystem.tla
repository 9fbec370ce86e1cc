---------------------------- MODULE SetupSystem ----------------------------
(***************************************************************************)
(* First-run setup: browser tabs and the backend they share.                *)
(***************************************************************************)
EXTENDS SetupWizard

setupVars == <<serverVars, ui>>

SetupInit == ServerInit /\ WizardInit

SetupNext ==
    \/ \E t \in Tabs : Click(t) \/ React(t)
    \/ \E c \in Conns : Serve(c) /\ UNCHANGED ui
    \/ Crash /\ UNCHANGED ui

SetupSpec == SetupInit /\ [][SetupNext]_setupVars

SetupTypeOK == ServerTypeOK /\ WizardTypeOK

-----------------------------------------------------------------------------
(* The file's content: while it is being rewritten, what it was before.      *)
Content ==
    IF \E c \in Conns : At(c, "write")
    THEN call[CHOOSE c \in Conns : At(c, "write")].seen
    ELSE env

(* The file has not been torn by a crash or by two merges at once.           *)
Whole == mishaps \cap {"torn", "crossed"} = {}

(* A tab shows the last step only after the account it created was written,  *)
(* and the backend lets it in with the credentials it kept: only a file that *)
(* is not whole, competing requests, or characters that do not travel lock   *)
(* it out (StepAdmin, steps.jsx:133-136).                                    *)
WizardEndsSealed ==
    \A t \in Tabs : OnStep(t, 4) =>
        /\ ui[t].auth \in accounts
        /\ mishaps = {} /\ Encoding[ui[t].auth] = "plain"
              => Authorized(Content, ui[t].auth)

(* Setup happens once: with no mishap at most one account is ever written,   *)
(* broken connections, retries and reloads included, and it stays in .env    *)
(* (require_unconfigured, app.py:64-67).                                     *)
OneAccount ==
    mishaps = {} =>
        /\ Cardinality(accounts) <= 1
        /\ \A a \in accounts : ReadKey(Content, AdminHash) = HashOf(a)

(* From the admin step on, .env holds every value the tab shows, edits made  *)
(* while an earlier save was under way included, unless the file is not      *)
(* whole, or the save written last was another tab's or one that the tab had *)
(* given up on when its connection broke: a broken connection does not stop  *)
(* the handler, so an older save may be written after a newer one            *)
(* (persistAndNext, Wizard.jsx:27-38; saveConfig, api.js:38-43).             *)
ConfigPersisted ==
    \A t \in Tabs :
        saver = t /\ Whole /\ (OnStep(t, 3) \/ OnStep(t, 4)) =>
            \A k \in ConfigKeys : ReadKey(Content, k) = ui[t].config[k]

(* nginx is never pointed at a file that was not written, whatever dies or   *)
(* runs in between (post_certs, app.py:93-108).                              *)
PointedCertsExist ==
    \A s \in VhostSlots, p \in Parts :
        ReadKey(env, SlotEnvKeys[s][p]) # Absent => certs[s][p] # NoFile

(* A save is what the next read_env returns: each posted key its value, any  *)
(* other key what it was; lines that name no posted key stay in place.       *)
MergeReadsBack ==
    [][\A c \in Conns : WriteEnv(c) =>
        LET old == call[c].seen
            new == Updates(call[c])
        IN /\ \A k \in Keys :
                ReadKey(env', k) = IF k \in DOMAIN new THEN new[k] ELSE ReadKey(old, k)
           /\ \A i \in DOMAIN old :
                (\A k \in DOMAIN new : ~Names(old[i], k)) => env'[i] = old[i]
      ]_setupVars

(* merge_env's promise: "Existing *active* assignments are updated in place" *)
(* (env_file.py:42).                                                         *)
ActiveUpdatedInPlace ==
    [][\A c \in Conns : WriteEnv(c) =>
        LET old == call[c].seen
            new == Updates(call[c])
        IN \A k \in DOMAIN new : \A i \in DOMAIN old :
              Assigns(old[i], k) => env'[i] = Assign(k, new[k])
      ]_setupVars

(* The wizard's buttons are disabled exactly while the tab waits to hear of   *)
(* one request: no button stays disabled when the backend dies or the        *)
(* connection breaks, and the tab never waits for two requests at once. One  *)
(* that it has given up on may still be in service.                          *)
BusyMeansWaiting ==
    \A t \in Tabs : ui[t].view = "wizard" /\ ui[t].step < 4 =>
        Cardinality({c \in Conns : call[c].tab = t}) = IF ui[t].busy THEN 1 ELSE 0
=============================================================================
