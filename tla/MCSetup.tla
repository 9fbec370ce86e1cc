------------------------------ MODULE MCSetup ------------------------------
(***************************************************************************)
(* First-run setup for TLC: two tabs, the keys of one field per step, the   *)
(* token no field shows, and one vhost's certificate.                       *)
(***************************************************************************)
EXTENDS SetupSystem

CONSTANTS t1, t2, n1, n2, p1   \* model values

Model == "LSM_MODEL_BASE_URL"
Nginx == "NGINX_SM_SERVER_NAME"
Token == "HF_TOKEN"
MCConfigKeys == {Model, Nginx, Token}
MCKeys == MCConfigKeys \cup {AdminUser, AdminHash} \cup TlsKeys("sm")

MCEncoding == [ann |-> "plain", bob |-> "wide"]
Default == <<"d">>
(* A value that needs quotes and both escapes.                               *)
Other == <<" ", "\\", "\"">>
MCValues ==
    {<<>>, Default, Other} \cup {<<w, a>> : w \in {"user of", "hash of"}, a \in DOMAIN MCEncoding}
        \cup {<<"path of", k>> : k \in TlsKeys("sm")}
MCModelKeys == {Model}
MCNginxKeys == {Nginx}
MCShown == [k \in MCConfigKeys |-> IF k = Token THEN <<>> ELSE Default]
MCTyped == {Other}

(* The lines of .env.example that the wizard touches, without the host name; *)
(* and the same after "uncomment these two lines (overriding the LSM_MODEL_* *)
(* values above)" (.env.example:26-28).                                      *)
Stock ==
    <<Text, Assign(Model, <<"e">>), Commented(Token, <<>>), Commented(Model, <<"f">>),
      Assign(AdminUser, <<"admin">>), Commented(AdminHash, <<>>), Text>>
StockFiles == {Stock}
OverriddenFiles == {[Stock EXCEPT ![4].kind = "assign"]}

(* Bounds: a behaviour is followed up to its first mishap or its first       *)
(* emptied certificate, with at most one request that nobody waits for, and  *)
(* with certificates in one slot only.                                       *)
Abandoned == {c \in Conns : call[c].at # "idle" /\ call[c].tab = NoTab}
FilesOf(s) == {certs[s][p] : p \in Parts}
Bounded ==
    /\ mishaps = {}
    /\ Cardinality(Abandoned) <= 1
    /\ \A s \in Slots : EmptyFile \notin FilesOf(s)
    /\ \E s \in Slots : \A r \in Slots \ {s} : FilesOf(r) = {NoFile}

Symmetry == Permutations({t1, t2}) \cup Permutations({n1, n2})
=============================================================================
