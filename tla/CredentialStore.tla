-------------------------- MODULE CredentialStore --------------------------
(***************************************************************************)
(* access.py: the credential file, which an operator's commands rewrite in *)
(* place, and the store of the hosted server, which parses it again when   *)
(* its modification time moves.  Two writes may fall within one tick of    *)
(* the file system's clock, as the emptying and the filling of a rewrite   *)
(* do; two commands do not.                                                *)
(***************************************************************************)
EXTENDS Integers

CONSTANTS
    Id,             \* credential ids
    Torn,           \* a file that does not parse
    MaxCommands     \* bound on issued and revoked credentials

ASSUME StoreAssumption == MaxCommands \in Nat

VARIABLES
    file,       \* [mtime, text]: text is Torn or says of each id whether it is live
    command,    \* the operator's command: what it is about to write
    commands,   \* commands begun
    server      \* the store: its maps, their stamp, and the reload under way

storeVars == <<file, command, commands, server>>

Texts == UNION {[I -> BOOLEAN] : I \in SUBSET Id}
NoIds == [i \in {} |-> FALSE]
Live(text) == {i \in DOMAIN text : text[i]}

-----------------------------------------------------------------------------
(* tokens issue and tokens revoke: read the file, then write_credential_file *)

Begin(text) ==
    /\ command.pc = "none" /\ commands < MaxCommands
    /\ command' = [pc |-> "open", text |-> text]
    /\ commands' = commands + 1
    /\ UNCHANGED <<file, server>>

Issue(i) ==
    /\ file.text # Torn /\ i \notin DOMAIN file.text
    /\ Begin([j \in DOMAIN file.text \cup {i} |-> j = i \/ file.text[j]])

\* A revoked credential stays in the file.
Revoke(i) ==
    /\ file.text # Torn /\ i \in DOMAIN file.text
    /\ Begin([file.text EXCEPT ![i] = FALSE])

Open ==
    /\ command.pc = "open"
    /\ file' = [mtime |-> file.mtime + 1, text |-> Torn]
    /\ command' = [command EXCEPT !.pc = "write"]
    /\ UNCHANGED <<commands, server>>

Write ==
    /\ command.pc = "write"
    /\ \E tick \in {0, 1} : file' = [mtime |-> file.mtime + tick, text |-> command.text]
    /\ command' = [pc |-> "none", text |-> NoIds]
    /\ UNCHANGED <<commands, server>>

-----------------------------------------------------------------------------
(* The store.  seen is the mtime of the reload that holds the lock.         *)

\* __init__: the file is parsed, and stat'ed after that; an unreadable one refuses the start.
Boot ==
    /\ server.pc = "boot" /\ file.text # Torn
    /\ server' = [server EXCEPT !.pc = "stamp", !.live = Live(file.text)]
    /\ UNCHANGED <<file, command, commands>>
BootStamp ==
    /\ server.pc = "stamp"
    /\ server' = [server EXCEPT !.pc = "serve", !.stamp = file.mtime]
    /\ UNCHANGED <<file, command, commands>>
Restart ==
    /\ server.pc = "serve"
    /\ server' = [pc |-> "boot", live |-> {}, stamp |-> 0, seen |-> 0, reloaded |-> FALSE]
    /\ UNCHANGED <<file, command, commands>>

\* _refresh_locked, on any call of verify_token or limits_for.
StatFile ==
    /\ server.pc = "serve" /\ file.mtime # server.stamp
    /\ server' = [server EXCEPT !.pc = "parse", !.seen = file.mtime]
    /\ UNCHANGED <<file, command, commands>>

\* Mutant: a broken file leaves the last good maps in place.
ParseKeepsGood ==
    /\ server.pc = "parse"
    /\ server' = [server EXCEPT !.pc = "serve", !.stamp = server.seen, !.reloaded = TRUE,
                                !.live = IF file.text = Torn THEN @ ELSE Live(file.text)]
    /\ UNCHANGED <<file, command, commands>>

Parse ==
    /\ server.pc = "parse"
    /\ server' = [server EXCEPT !.pc = "serve", !.stamp = server.seen, !.reloaded = TRUE,
                                !.live = IF file.text = Torn THEN {} ELSE Live(file.text)]
    /\ UNCHANGED <<file, command, commands>>

StoreInit ==
    /\ \E text \in Texts : file = [mtime |-> 1, text |-> text]
    /\ command = [pc |-> "none", text |-> NoIds] /\ commands = 0
    /\ server = [pc |-> "boot", live |-> {}, stamp |-> 0, seen |-> 0, reloaded |-> FALSE]
StoreNext ==
    \/ \E i \in Id : Issue(i) \/ Revoke(i)
    \/ Open \/ Write \/ Boot \/ BootStamp \/ Restart \/ StatFile \/ Parse
StoreSpec == StoreInit /\ [][StoreNext]_storeVars

-----------------------------------------------------------------------------
\* tokens revoke: "The running server picks this up on its next call".  A store that takes the file
\* for read, once it has read it anew, admits nobody the file revokes: an edit that is caught
\* half-written locks everybody out and never keeps a revoked credential alive.
RevocationApplies ==
    (server.pc = "serve" /\ server.reloaded /\ command.pc = "none" /\ server.stamp = file.mtime)
        => server.live \subseteq Live(file.text)
=============================================================================
