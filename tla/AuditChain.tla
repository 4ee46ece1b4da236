----------------------------- MODULE AuditChain -----------------------------
(***************************************************************************)
(* A hash-chained log file: AuditLog of crates/aec_audit/src/lib.rs.       *)
(*                                                                         *)
(* A file is the sequence of what was written to it: entries, newlines     *)
(* (writeln! hands the text and the newline to the system in two writes)   *)
(* and the beginnings of lines whose write stopped half-way.  Hashes are   *)
(* numbers; two entries never have the same one.                           *)
(***************************************************************************)
EXTENDS Integers, Sequences

CONSTANTS
    EOL,    \* the newline
    Torn    \* the beginning of a line

Genesis == 0

IsEntry(token) == token \notin {EOL, Torn}

\* What parsing the lines one after another has found, with the next token.
Noted(found, token) == IF IsEntry(token) THEN Append(found, token) ELSE found

\* The entries of a file, in order: among its first k tokens, and all of them.
EntriesUpto(file) ==
    LET found[k \in 0 .. Len(file)] ==
            IF k = 0 THEN <<>> ELSE Noted(found[k - 1], file[k])
    IN  found
Entries(file) == EntriesUpto(file)[Len(file)]

\* Every line that is not blank parses: it is one whole entry.
Parses(file) ==
    \A i \in DOMAIN file :
        /\ file[i] # Torn
        /\ IsEntry(file[i]) /\ i > 1 => file[i - 1] = EOL

\* The head of a file, as a singleton: the hash of its last entry.
Heads(file) ==
    LET last == {i \in DOMAIN file :
                    /\ IsEntry(file[i])
                    /\ \A j \in DOMAIN file : j > i => ~IsEntry(file[j])}
    IN  IF last = {} THEN {Genesis} ELSE {file[i].hash : i \in last}

\* Every entry names the head before it.
Linked(file) ==
    \A i \in DOMAIN file :
        IsEntry(file[i]) => file[i].prev \in Heads(SubSeq(file, 1, i - 1))

\* Whether AuditLog::open accepts the file.
Opens(file) == Parses(file) /\ Linked(file)
=============================================================================
