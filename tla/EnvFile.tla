------------------------------ MODULE EnvFile ------------------------------
(***************************************************************************)
(* The project's .env file as setup/env_file.py reads and merges it: a      *)
(* sequence of lines, of which some assign a key and some only name it in a *)
(* comment. Values are sequences of characters because _quote and _unquote  *)
(* look at them; every other text is opaque.                                *)
(***************************************************************************)
EXTENDS Naturals, FiniteSets, SequencesExt

CONSTANTS
    Keys,      \* the variable names in play
    Values,    \* the values in play: sequences of characters, no line break
    Absent     \* what a lookup of an unassigned key gives

Quote == "\""
Backslash == "\\"
Apostrophe == "'"
Special == {Quote, Apostrophe, "#", " "}

(* Pieces joined up to each of them, and all of them: FlattenSeq as a        *)
(* recursive function, which can be proved about.                            *)
JoinedUpTo(pieces) ==
    LET joined[i \in 0..Len(pieces)] ==
            IF i = 0 THEN <<>> ELSE joined[i - 1] \o pieces[i]
    IN joined
Joined(pieces) == JoinedUpTo(pieces)[Len(pieces)]

(* The characters of s at positions that are not dropped.                    *)
Remaining(s, dropped) == [i \in DOMAIN s |-> IF i \in dropped THEN <<>> ELSE <<s[i]>>]
Without(s, dropped) == Joined(Remaining(s, dropped))

(* _quote: double quotes around a value that is empty or has a special       *)
(* character, with a backslash before its backslashes and quotes.            *)
Escaped(c) == IF c \in {Backslash, Quote} THEN <<Backslash, c>> ELSE <<c>>
Quoted(v) ==
    IF v = <<>> \/ \E i \in DOMAIN v : v[i] \in Special
    THEN <<Quote>> \o Joined([i \in DOMAIN v |-> Escaped(v[i])]) \o <<Quote>>
    ELSE v

(* The first replace of _unquote drops a backslash before a quote, the       *)
(* second one every other backslash of a row of them.                        *)
BeforeQuotes(s) == {i \in DOMAIN s : s[i] = Backslash /\ i < Len(s) /\ s[i + 1] = Quote}
QuotesFreed(s) == Without(s, BeforeQuotes(s))

Second(s) ==
    LET second[i \in 0..Len(s)] ==
            /\ i > 1 /\ s[i] = Backslash /\ s[i - 1] = Backslash
            /\ ~second[i - 1]
    IN second
Seconds(s) == {i \in DOMAIN s : Second(s)[i]}
BackslashesFreed(s) == Without(s, Seconds(s))

Unquoted(w) ==
    LET inner == SubSeq(w, 2, Len(w) - 1)
    IN IF Len(w) < 2 \/ w[1] # w[Len(w)] \/ w[1] \notin {Quote, Apostrophe} THEN w
       ELSE IF w[1] = Quote THEN BackslashesFreed(QuotesFreed(inner))
       ELSE inner

(* A line assigns a key, names it in a commented assignment, or neither.     *)
Line == [kind : {"assign", "comment"}, key : Keys, val : Seq(STRING)]
            \cup [kind : {"text", "blank", "header"}]
Assign(k, v) == [kind |-> "assign", key |-> k, val |-> Quoted(v)]
Commented(k, v) == [kind |-> "comment", key |-> k, val |-> Quoted(v)]
Text == [kind |-> "text"]
Blank == [kind |-> "blank"]
Header == [kind |-> "header"]

Assigns(line, k) == line.kind = "assign" /\ line.key = k
Names(line, k) == line.kind \in {"assign", "comment"} /\ line.key = k

(* read_env: the last active assignment of a key counts.                     *)
ReadKey(f, k) ==
    IF \E i \in DOMAIN f : Assigns(f[i], k)
    THEN LET last == CHOOSE i \in DOMAIN f :
                        /\ Assigns(f[i], k)
                        /\ \A j \in DOMAIN f : j > i => ~Assigns(f[j], k)
         IN Unquoted(f[last].val)
    ELSE Absent

(* Fault: only an active assignment is a target; a commented one is skipped. *)
IsActiveTarget(f, i, k) ==
    /\ Assigns(f[i], k)
    /\ \A j \in DOMAIN f : j < i => ~Assigns(f[j], k)

(* The line merge_env writes a key to: the first that names it, active or    *)
(* commented, since the loop pops the key from `remaining` there.            *)
IsTarget(f, i, k) ==
    /\ Names(f[i], k)
    /\ \A j \in DOMAIN f : j < i => ~Names(f[j], k)

Missing(f, updates) ==
    {k \in DOMAIN updates : \A i \in DOMAIN f : ~Names(f[i], k)}

(* New keys go to the end, under one header.                                 *)
Trailer(f) ==
    IF \E i \in DOMAIN f : f[i] = Header THEN <<>>
    ELSE IF f # <<>> /\ f[Len(f)] # Blank THEN <<Blank, Header>>
    ELSE <<Header>>

Merge(f, updates) ==
    LET missing == Missing(f, updates)
        new == SetToSeq(missing)
    IN [i \in DOMAIN f |->
            IF \E k \in DOMAIN updates : IsTarget(f, i, k)
            THEN Assign(f[i].key, updates[f[i].key])
            ELSE f[i]]
       \o (IF missing = {} THEN <<>> ELSE Trailer(f))
       \o [n \in DOMAIN new |-> Assign(new[n], updates[new[n]])]

(* No key has an active assignment below another line that names it.         *)
Unshadowed(f) ==
    \A k \in Keys : \A i, j \in DOMAIN f :
        i < j /\ Names(f[i], k) => ~Assigns(f[j], k)

ASSUME KeysAssumption == IsFiniteSet(Keys)
ASSUME AbsentAssumption == Absent \notin Values

(* Values are texts, and so are the two characters that quoting adds.        *)
ASSUME ValuesAssumption == Values \subseteq Seq(STRING)
ASSUME CharactersAssumption == {Quote, Backslash} \subseteq STRING
=============================================================================
