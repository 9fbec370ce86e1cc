---------------------------- MODULE SetupServer ----------------------------
(***************************************************************************)
(* The setup backend (setup/app.py, schema.py): requests on FastAPI's       *)
(* thread pool. A request passes its dependency, then its handler performs  *)
(* the writes left in `todo`, one per step; other requests run in between.  *)
(* The .env file and the certificate files are all that persists. A request *)
(* whose connection breaks may be served all the same: nobody waits for it. *)
(***************************************************************************)
EXTENDS EnvFile

CONSTANTS
    Tabs,          \* browser tabs that use the application
    Conns,         \* connections: the requests in flight at most
    ConfigKeys,    \* the keys the wizard posts
    EditableKeys,  \* the allow-list of schema.py
    VhostSlots,    \* certificate slots with .env keys of their own
    Pairs,         \* certificate and key pairs that may be posted
    NotPem,        \* a posted text that is not PEM
    Creds,         \* admin credentials that may be typed
    Encoding,      \* how their characters travel, see Encodings
    InitialFiles,  \* the .env files setup may find
    Troubles,      \* subset of {"crash", "broken", "overlap"}
    NoTab, NoCreds, NoFile, EmptyFile, NoBody

(* "plain" credentials reach the server as typed. A user name with a colon   *)
(* is split at the wrong place; Latin-1 characters are not the ASCII that    *)
(* HTTPBasic decodes; wider ones make btoa throw in the browser.             *)
Encodings == {"plain", "colon", "latin1", "wide"}
Slots == VhostSlots \cup {"shared"}
Parts == {"crt", "key"}
AdminUser == "LSM_ADMIN_USER"
AdminHash == "LSM_ADMIN_PASSWORD_HASH"

(* _SLOT_ENV_KEYS: the variables in which nginx looks for a vhost's files.   *)
SlotEnvKeys ==
    [sm |-> [crt |-> "NGINX_SM_TLS_CERT_FILE", key |-> "NGINX_SM_TLS_KEY_FILE"],
     openai |-> [crt |-> "NGINX_OPENAI_TLS_CERT_FILE",
                 key |-> "NGINX_OPENAI_TLS_KEY_FILE"]]
TlsKeys(s) == {SlotEnvKeys[s][p] : p \in Parts}
UserOf(a) == <<"user of", a>>
HashOf(a) == <<"hash of", a>>
PathOf(k) == <<"path of", k>>

ASSUME SetupAssumption ==
    /\ Creds \subseteq STRING /\ Encoding \in [Creds -> Encodings]
    /\ ConfigKeys \subseteq EditableKeys /\ EditableKeys \subseteq Keys
    /\ {AdminUser, AdminHash} \subseteq Keys \ EditableKeys
    /\ VhostSlots \subseteq DOMAIN SlotEnvKeys
    /\ \A s \in VhostSlots : TlsKeys(s) \subseteq Keys \ EditableKeys
    /\ \A a \in Creds : UserOf(a) \in Values /\ HashOf(a) \in Values
    /\ \A s \in VhostSlots : \A k \in TlsKeys(s) : PathOf(k) \in Values
    /\ NoTab \notin Tabs /\ NoCreds \notin Creds /\ NoFile \notin Pairs \cup {EmptyFile}
    /\ InitialFiles \subseteq Seq(Line)

VARIABLES
    env,       \* the lines of .env; none when it is absent or truncated
    certs,     \* certs[s][p]: the pair that file p of slot s was written from
    call,      \* call[c]: the request on connection c
    (* History: the tab that waited for the configuration save written last  *)
    (* (none, if it had given up on it), the accounts that were written, and *)
    (* what may have disturbed them.                                         *)
    saver, accounts, mishaps

serverVars == <<env, certs, call, saver, accounts, mishaps>>
history == <<saver, accounts, mishaps>>

Idle == [op |-> "none", tab |-> NoTab, auth |-> NoCreds, body |-> NoBody,
         at |-> "idle", todo |-> <<>>, seen |-> <<>>, reply |-> "none"]

ServerInit ==
    /\ env \in InitialFiles
    /\ certs = [s \in Slots |-> [p \in Parts |-> NoFile]]
    /\ call = [c \in Conns |-> Idle]
    /\ saver = NoTab
    /\ accounts = {}
    /\ mishaps = {}

(* A browser sends a request on a free connection (fetch in api.js).         *)
Fetch(t, op, auth, body) ==
    \E c \in Conns :
        /\ call[c].at = "idle"
        /\ call' = [call EXCEPT ![c] =
                       [Idle EXCEPT !.op = op, !.tab = t, !.auth = auth,
                                    !.body = body, !.at = "sent"]]

-----------------------------------------------------------------------------
Sealed(f) == ReadKey(f, AdminHash) \notin {Absent, <<>>}

(* require_admin: undecodable credentials are refused in any case, others    *)
(* only once there is an account to compare them with.                       *)
Authorized(f, a) ==
    /\ a # NoCreds => Encoding[a] # "latin1"
    /\ Sealed(f) =>
          /\ a # NoCreds
          /\ Encoding[a] = "plain"
          /\ ReadKey(f, AdminUser) = UserOf(a)
          /\ ReadKey(f, AdminHash) = HashOf(a)

(* Fault: complete has no dependency.                                        *)
PermittedAgain(r) == r.op \in {"status", "complete"} \/ Authorized(env, r.auth)

(* The dependency of each route: none for status, require_unconfigured for   *)
(* complete, require_admin for all others.                                   *)
Permitted(r) ==
    CASE r.op = "status" -> TRUE
      [] r.op = "complete" -> ~Sealed(env)
      [] OTHER -> Authorized(env, r.auth)

(* What post_config, post_certs and post_complete pass to merge_env.         *)
Updates(r) ==
    CASE r.op = "saveConfig" ->
            [k \in DOMAIN r.body \cap EditableKeys |-> r.body[k]]
      [] r.op = "saveCert" /\ r.body.slot \in VhostSlots ->
            [k \in TlsKeys(r.body.slot) |-> PathOf(k)]
      [] r.op = "complete" ->
            [k \in {AdminUser, AdminHash} |->
                IF k = AdminUser THEN UserOf(r.body) ELSE HashOf(r.body)]
      [] OTHER -> <<>>

(* 400: an empty selection of keys, or a text that is not PEM.               *)
Valid(r) ==
    /\ r.op = "saveConfig" => DOMAIN Updates(r) # {}
    /\ r.op = "saveCert" => r.body.pair # NotPem

(* The writes of a handler in their order. merge_env reads the file, opens   *)
(* it for writing, which truncates it, and writes it.                        *)
Merging(r) ==
    IF Updates(r) = <<>> THEN <<>> ELSE <<"read", "truncate", "write">>

(* Fault: nginx is pointed at the files before they are written.             *)
StepsEnvFirst(r) ==
    Merging(r) \o (IF r.op = "saveCert" THEN <<"crt", "key">> ELSE <<>>)

Steps(r) ==
    (IF r.op = "saveCert" THEN <<"crt", "key">> ELSE <<>>) \o Merging(r)

Working(c) == call[c].at = "working"
At(c, step) == Working(c) /\ Head(call[c].todo) = step

(* A handler works while it has writes left; then it answers, and the        *)
(* request is over when nobody waits for the answer.                         *)
Proceed(r) ==
    IF r.todo # <<>> THEN [r EXCEPT !.at = "working"]
    ELSE IF r.tab = NoTab THEN Idle
    ELSE [r EXCEPT !.at = "answered"]

(* Fault: the handler answers before its last write.                         *)
AdvanceEarly(c) ==
    [call EXCEPT ![c].todo = Tail(@),
                 ![c].at = IF Len(call[c].todo) = 2 THEN "answered" ELSE @]

Advance(c) ==
    [call EXCEPT ![c] = Proceed([call[c] EXCEPT !.todo = Tail(call[c].todo)])]

(* The dependency and the checks at the head of the handler; a read-only     *)
(* route is answered at once. Without "overlap" requests are served one by   *)
(* one. An account is not safe when its creation was let in beside another   *)
(* one's, or while the file was truncated.                                   *)
Admit(c) ==
    LET r == call[c]
        ok == Permitted(r) /\ Valid(r)
        others == {d \in Conns : Working(d)}
        rivals == {d \in others : call[d].op = "complete" \/ At(d, "write")}
    IN /\ r.at = "sent"
       /\ "overlap" \in Troubles \/ others = {}
       /\ call' = [call EXCEPT ![c] = Proceed(
              [r EXCEPT !.todo = IF ok THEN Steps(r) ELSE <<>>,
                        !.reply = IF ~ok THEN "refused"
                                  ELSE IF r.op # "status" THEN "ok"
                                  ELSE IF Sealed(env) THEN "sealed" ELSE "open"])]
       /\ mishaps' = IF r.op = "complete" /\ rivals # {}
                     THEN mishaps \cup {"contended"} ELSE mishaps
       /\ UNCHANGED <<env, certs, saver, accounts>>

(* write_cert: the certificate, then the key. That write_text empties the    *)
(* file first only shows when the process dies in between, see Crash.        *)
WriteFile(c, p) ==
    /\ At(c, p)
    /\ certs' = [certs EXCEPT ![call[c].body.slot][p] = call[c].body.pair]
    /\ call' = Advance(c)
    /\ UNCHANGED <<env, history>>

(* merge_env. A merge that starts before another one's end loses its keys.   *)
ReadEnv(c) ==
    /\ At(c, "read")
    /\ call' = [Advance(c) EXCEPT ![c].seen = env]
    /\ mishaps' = IF \E d \in Conns : At(d, "truncate") \/ At(d, "write")
                  THEN mishaps \cup {"crossed"} ELSE mishaps
    /\ UNCHANGED <<env, certs, saver, accounts>>

TruncateEnv(c) ==
    /\ At(c, "truncate")
    /\ env' = <<>>
    /\ call' = Advance(c)
    /\ UNCHANGED <<certs, history>>

WriteEnv(c) ==
    LET r == call[c]
    IN /\ At(c, "write")
       /\ env' = Merge(r.seen, Updates(r))
       /\ call' = [Advance(c) EXCEPT ![c].seen = <<>>]
       /\ saver' = IF r.op = "saveConfig" THEN r.tab ELSE saver
       /\ accounts' = IF r.op = "complete" THEN accounts \cup {r.body} ELSE accounts
       /\ UNCHANGED <<certs, mishaps>>

Serve(c) ==
    \/ Admit(c)
    \/ \E p \in Parts : WriteFile(c, p)
    \/ ReadEnv(c)
    \/ TruncateEnv(c)
    \/ WriteEnv(c)

(* The process dies and is started again: requests in service are lost, and  *)
(* so is the file between its truncation and its writing.                    *)
Crash ==
    /\ "crash" \in Troubles
    /\ \E c \in Conns : Working(c)
    /\ \E cut \in SUBSET {c \in Conns : \E p \in Parts : At(c, p)} :
          certs' = [s \in Slots |-> [p \in Parts |->
              IF \E c \in cut : At(c, p) /\ call[c].body.slot = s
              THEN EmptyFile ELSE certs[s][p]]]
    /\ call' = [c \in Conns |->
           IF call[c].at \in {"sent", "working"}
           THEN Proceed([call[c] EXCEPT !.todo = <<>>, !.seen = <<>>, !.reply = "lost"])
           ELSE call[c]]
    /\ mishaps' = IF \E c \in Conns : At(c, "write")
                  THEN mishaps \cup {"torn"} ELSE mishaps
    /\ UNCHANGED <<env, saver, accounts>>

-----------------------------------------------------------------------------
(* What the browser hears of a request: the answer, or at any time that the  *)
(* connection broke (fetch rejects). Then the answer is lost, the request    *)
(* never arrived, or it is still to be served; reading leaves no trace.      *)
Writing == {"saveConfig", "saveCert", "complete"}

Answered(c, got) ==
    /\ call[c].at = "answered" /\ got = call[c].reply
    /\ call' = [call EXCEPT ![c] = Idle]

Broken(c, got) ==
    /\ "broken" \in Troubles
    /\ got = "lost"
    /\ \/ call[c].at # "working" /\ call' = [call EXCEPT ![c] = Idle]
       \/ /\ call[c].at \in {"sent", "working"} /\ call[c].op \in Writing
          /\ call' = [call EXCEPT ![c].tab = NoTab]

-----------------------------------------------------------------------------
Ops == {"none", "status", "getConfig", "download"} \cup Writing
Replies == {"none", "ok", "open", "sealed", "refused", "lost"}
Posted == [slot : Slots, pair : Pairs \cup {NotPem}]
Sendable == {a \in Creds : Encoding[a] # "wide"}

Bodies(op) ==
    CASE op = "saveConfig" -> [ConfigKeys -> Values]
      [] op = "saveCert" -> Posted
      [] op = "complete" -> Creds
      [] OTHER -> {NoBody}
Calls(op) ==
    [op : {op}, tab : Tabs \cup {NoTab}, auth : Sendable \cup {NoCreds},
     body : Bodies(op), at : {"idle", "sent", "working", "answered"},
     todo : Seq({"crt", "key", "read", "truncate", "write"}), seen : Seq(Line),
     reply : Replies]

(* A request has steps left exactly while its handler works on it.           *)
CallOK(r) ==
    /\ r.op \in Ops /\ r \in Calls(r.op)
    /\ r.at = "working" <=> r.todo # <<>>

ServerTypeOK ==
    /\ env \in Seq(Line)
    /\ certs \in [Slots -> [Parts -> Pairs \cup {NoFile, EmptyFile}]]
    /\ call = [c \in Conns |-> call[c]] /\ \A c \in Conns : CallOK(call[c])
    /\ saver \in Tabs \cup {NoTab}
    /\ accounts \subseteq Creds
    /\ mishaps \subseteq {"torn", "crossed", "contended"}
=============================================================================
