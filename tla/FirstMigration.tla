--------------------------- MODULE FirstMigration ---------------------------
(***************************************************************************)
(* src/lovspor/release/migrate.py, with the rows of release/reconcile.py   *)
(* that apply while there is no marker: the one-off cutover of a host from *)
(* a Caddyfile with its admin endpoint on TCP to the envelope's, with its  *)
(* endpoint on a socket; its two ways back; and the retirement of the old  *)
(* layout, after which there is none.                                      *)
(*                                                                         *)
(* One command runs at a time and may be killed between any two writes.    *)
(* What caddy does is as the code's comments tell it of the droplet's      *)
(* version: a refused load may move the admin endpoint all the same, and a *)
(* socket's file outlives its endpoint.  Names taken by symlinks, foreign  *)
(* files and identities are left out: each is a refusal before any write.  *)
(***************************************************************************)
EXTENDS Naturals

CONSTANT MaxFaults   \* bound: kills, refused loads and failed restarts, all told

VARIABLES
    host,     \* the files, and the drop-in that systemd has loaded
    caddy,    \* the configuration that runs, and where its admin endpoint is
    command,  \* the command in progress
    owned,    \* the drop-in the owner put there
    faults

cutoverVars == <<host, caddy, command, owned, faults>>

Gone == "gone"
OldCaddy == [runs |-> "old", admin |-> "tcp"]
NewCaddy == [runs |-> "new", admin |-> "socket"]
DownCaddy == [runs |-> "none", admin |-> "none"]
Resting == [does |-> "nothing", step |-> "rest"]

\* The pre-envelope host: a recognised drop-in, or none.
CutoverInit ==
    /\ owned \in {Gone, "stock"}
    /\ host = [caddyfile |-> "old", fragment |-> FALSE, next |-> FALSE, dropIn |-> owned,
               loaded |-> owned, socket |-> FALSE, marker |-> "none", backup |-> Gone,
               bytes |-> Gone, absent |-> FALSE, site |-> TRUE]
    /\ caddy = OldCaddy
    /\ command = Resting
    /\ faults = 0

AtStep(step) == command.step = step
Go(step) == command' = [command EXCEPT !.step = step]
Rest == command' = Resting
OneFault == faults < MaxFaults /\ faults' = faults + 1
outside == <<owned, faults>>

\* One write of the command, after which it goes on.
Put(from, file, content, to) ==
    /\ AtStep(from) /\ host' = [host EXCEPT ![file] = content] /\ Go(to)
    /\ UNCHANGED <<caddy, outside>>
\* A check between two writes: it passes, or the command ends with a refusal.
Require(from, holds, to) ==
    /\ AtStep(from) /\ IF holds THEN Go(to) ELSE Rest
    /\ UNCHANGED <<host, caddy, outside>>
Start(does, step) ==
    /\ command = Resting /\ command' = [does |-> does, step |-> step]
    /\ UNCHANGED <<host, caddy, outside>>

-----------------------------------------------------------------------------
(* Caddy and systemd. *)
\* The envelope's Caddyfile imports the fragment by a plain path.
Loads == host.caddyfile = "old" \/ host.fragment
Configured == IF host.caddyfile = "old" THEN OldCaddy ELSE NewCaddy
WithSocket(c) == [host EXCEPT !.socket = @ \/ c.admin = "socket"]

\* A load delivered to an address: it is taken, or refused with the endpoint moved or not.
Taken(address) ==
    /\ caddy.admin = address /\ Loads
    /\ caddy' = Configured /\ host' = WithSocket(Configured) /\ UNCHANGED faults
Refuses ==
    /\ \E admin \in {caddy.admin, Configured.admin} : caddy' = [caddy EXCEPT !.admin = admin]
    /\ host' = WithSocket(caddy')
Unreachable(address) ==
    caddy.admin # address \/ ~Loads

\* RuntimeDirectory= clears the socket's directory at a stop.
AfterStop == [host EXCEPT !.socket = @ /\ host.loaded \notin {"lines", "pair"}]
Restarted ==
    /\ caddy' = IF Loads THEN Configured ELSE DownCaddy
    /\ host' = [AfterStop EXCEPT !.socket = @ \/ caddy'.admin = "socket"]
RestartFailed == caddy' = DownCaddy /\ host' = AfterStop

\* systemctl restart, by hand or by the system.
CaddyRestart == Restarted /\ UNCHANGED <<command, outside>>
CaddyRestartFails == RestartFailed /\ OneFault /\ UNCHANGED <<command, owned>>
\* systemctl reload by hand: the ExecReload= line that is loaded names the address.
PlainReload ==
    /\ Taken(IF host.loaded = "pair" THEN "socket" ELSE Configured.admin)
    /\ UNCHANGED <<command, owned>>

-----------------------------------------------------------------------------
(* The first migration. *)
Recorded(h) == h.bytes # Gone \/ h.absent

\* preflight
Pristine ==
    /\ host.marker = "none" /\ ~host.socket /\ host.backup = Gone /\ ~Recorded(host)
    /\ host.dropIn \in {Gone, "stock"} /\ ~host.fragment /\ ~host.next
    /\ host.caddyfile = "old" /\ caddy = OldCaddy
Migrate == Pristine /\ Start("migrate", "stage")

\* Mutant: every write of the drop-in backs up what it overwrites.
BackedUpAlways(h) ==
    IF h.dropIn = Gone THEN [h EXCEPT !.absent = TRUE] ELSE [h EXCEPT !.bytes = h.dropIn]

\* _backup_drop_in: only the first write takes the backup.
BackedUp(h) ==
    IF Recorded(h) THEN h
    ELSE IF h.dropIn = Gone THEN [h EXCEPT !.absent = TRUE]
    ELSE [h EXCEPT !.bytes = h.dropIn]

\* _stage, and _install_files in its order.
StageNext == Put("stage", "next", TRUE, "record")
Record ==
    /\ AtStep("record") /\ host.backup = Gone /\ ~host.fragment
    /\ host' = BackedUp(host) /\ Go("backup") /\ UNCHANGED <<caddy, outside>>
KeepCaddyfile == Put("backup", "backup", host.caddyfile, "fragment")

\* Mutant: the Caddyfile that imports the fragment is in place before it.
InstallFragmentLast ==
    /\ AtStep("fragment") /\ host' = [host EXCEPT !.caddyfile = "new"] /\ Go("caddyfile")
    /\ UNCHANGED <<caddy, outside>>

InstallFragment ==
    /\ AtStep("fragment") /\ host' = [host EXCEPT !.fragment = TRUE, !.next = FALSE]
    /\ Go("caddyfile") /\ UNCHANGED <<caddy, outside>>
InstallCaddyfile == Put("caddyfile", "caddyfile", "new", "runtime")

\* _runtime_dir refuses a directory with anything in it; _load_drop_in, without the pair.
RuntimeDir == Require("runtime", ~host.socket, "lines")
WriteDropIn(from, text, to) ==
    /\ AtStep(from) /\ host' = [BackedUp(host) EXCEPT !.dropIn = text] /\ Go(to)
    /\ UNCHANGED <<caddy, outside>>
DaemonReload(from, to) == Put(from, "loaded", host.dropIn, to)
WriteLines == WriteDropIn("lines", "lines", "loadLines")
LoadLines == DaemonReload("loadLines", "validate")

\* _validated; a crash after the load is completed without another one.
Validate ==
    Require("validate", host.caddyfile = "new" /\ host.fragment,
           IF command.does = "finish" THEN "verify" ELSE "load")
\* caddy reload --address localhost:2019
Cutover ==
    /\ AtStep("load")
    /\ \/ Taken("tcp") /\ Go("verify")
       \/ Unreachable("tcp") /\ Rest /\ UNCHANGED <<host, caddy, faults>>
       \/ caddy.admin = "tcp" /\ OneFault /\ Refuses /\ Rest
    /\ UNCHANGED owned

\* _verify, _install_exec_reload, _mark
Verify == Require("verify", caddy = NewCaddy, "pair")
WritePair == WriteDropIn("pair", "pair", "loadPair")
LoadPair == DaemonReload("loadPair", "mark")
Mark == /\ AtStep("mark") /\ host' = [host EXCEPT !.marker = "first"] /\ Rest
        /\ UNCHANGED <<caddy, outside>>

-----------------------------------------------------------------------------
(* reconcile while there is no marker. *)
Stranded == caddy = [runs |-> "old", admin |-> "socket"]
Staged == caddy.runs = "old" /\ host.caddyfile = "new" /\ host.fragment
ReloadedRow == caddy.runs = "new" /\ host.caddyfile = "new" /\ host.fragment
\* R = D, with the bytes of the backup in the Caddyfile.
Unfinished == caddy.runs = "old" /\ host.caddyfile = "old" /\ host.backup = "old"

\* Without a choice where R is the new configuration, by --complete where D is.
Complete ==
    /\ host.marker = "none"
    /\ \/ ReloadedRow /\ caddy.admin = "socket" /\ Start("finish", "validate")
       \/ (ReloadedRow \/ Staged) /\ caddy.admin = "tcp" /\ Start("complete", "runtime")

\* _require_backup
BothBackups == host.backup # Gone /\ (host.bytes # Gone) # host.absent

\* abandon_first_migration: R never moved, or moved back.
FileRestore ==
    /\ BothBackups /\ caddy = OldCaddy
    /\ Start("abandon", "socket")
\* _rollback_after_cutover
ReloadBack == BothBackups /\ caddy.admin = "socket" /\ Start("rollback", "putBack")

Abandon ==
    /\ host.marker = "none"
    /\ Staged \/ Unfinished
    /\ IF Stranded THEN ReloadBack ELSE FileRestore

-----------------------------------------------------------------------------
(* The ways back. *)
\* rollback_first_migration: not once a second release is live.
Rollback == host.marker # "later" /\ (FileRestore \/ ReloadBack)

PutBack == Put("putBack", "caddyfile", host.backup, "loadBack")
\* Mutant: without --force, a load of what runs already moves nothing.
LoadBackUnforced ==
    /\ AtStep("loadBack") /\ UNCHANGED owned
    /\ IF caddy.runs = Configured.runs THEN Go("verifyBack") /\ UNCHANGED <<host, caddy, faults>>
       ELSE Taken("socket") /\ Go("verifyBack")

\* caddy reload --force --address unix//run/caddy/admin.sock
LoadBack ==
    /\ AtStep("loadBack")
    /\ \/ Taken("socket") /\ Go("verifyBack")
       \/ Unreachable("socket") /\ Rest /\ UNCHANGED <<host, caddy, faults>>
       \/ caddy.admin = "socket" /\ OneFault /\ Refuses /\ Rest
    /\ UNCHANGED owned
VerifyBack == Require("verifyBack", caddy = OldCaddy, "socket")
\* _remove_dead_socket
RemoveSocket ==
    /\ AtStep("socket")
    /\ IF host.socket /\ caddy.admin = "socket" THEN Rest /\ UNCHANGED host
       ELSE host' = [host EXCEPT !.socket = FALSE] /\ Go("unmark")
    /\ UNCHANGED <<caddy, outside>>

\* offline_rollback dials nothing.
Offline == BothBackups /\ Start("offline", "unmark")

\* Mutant: the marker is left to name a release.
UnmarkNever == Put("unmark", "marker", host.marker, "restoreCaddyfile")

\* _restore_pre_envelope: the marker before the files, the backups last.
Unmark == Put("unmark", "marker", "none", "restoreCaddyfile")
RestoreCaddyfile == Put("restoreCaddyfile", "caddyfile", host.backup, "dropFragment")
DropFragment == Put("dropFragment", "fragment", FALSE, "dropNext")
DropNext == Put("dropNext", "next", FALSE, "restoreDropIn")
\* Mutant: a drop-in that was absent is restored as the text provisioning wrote.
RestoreStock == Put("restoreDropIn", "dropIn", IF host.absent THEN "stock" ELSE host.bytes, "reloadUnits")
RestoreDropIn == Put("restoreDropIn", "dropIn", IF host.absent THEN Gone ELSE host.bytes, "reloadUnits")

ReloadUnits ==
    DaemonReload("reloadUnits", IF command.does = "offline" THEN "restart" ELSE "consumeCaddyfile")
RestartBack ==
    /\ AtStep("restart")
    /\ \/ Restarted /\ Go("consumeCaddyfile") /\ UNCHANGED faults
       \/ RestartFailed /\ OneFault /\ Rest
    /\ UNCHANGED owned
ConsumeCaddyfile == Put("consumeCaddyfile", "backup", Gone, "consumeAbsent")
ConsumeAbsent == Put("consumeAbsent", "absent", FALSE, "consumeBytes")
ConsumeBytes == Put("consumeBytes", "bytes", Gone, "end")
\* The offline way back removes the socket's file only now.
End ==
    /\ AtStep("end")
    /\ host' = IF command.does = "offline" THEN [host EXCEPT !.socket = FALSE] ELSE host
    /\ Rest /\ UNCHANGED <<caddy, outside>>

-----------------------------------------------------------------------------
(* Once migrated. *)
\* live_release: R, D and M agree over the socket.
Migrated == host.marker # "none" /\ caddy = NewCaddy /\ host.caddyfile = "new" /\ host.fragment

\* commit of a second release, by the transaction of ReleaseControl.
CommitLater ==
    /\ command = Resting /\ Migrated /\ host.marker = "first"
    /\ host' = [host EXCEPT !.marker = "later"] /\ UNCHANGED <<caddy, command, outside>>

\* retire_pre_envelope: the old site and releases, then the two backups.
Retire == Migrated /\ Start("retire", "retireSite")
RetireSite == Put("retireSite", "site", FALSE, "retireBytes")
RetireBytes == Put("retireBytes", "bytes", Gone, "retireAbsent")
RetireAbsent == Put("retireAbsent", "absent", FALSE, "retireCaddyfile")
RetireCaddyfile == Put("retireCaddyfile", "backup", Gone, "end")

-----------------------------------------------------------------------------
(* The owner edits the drop-in between the preflight and (a), and moves a  *)
(* file the preflight refused aside; anyone kills a command.               *)
EditDropIn ==
    /\ command.step \in {"stage", "record"} /\ owned # "edited"
    /\ owned' = "edited" /\ host' = [host EXCEPT !.dropIn = "edited"]
    /\ UNCHANGED <<caddy, command, faults>>
Kill == command # Resting /\ OneFault /\ Rest /\ UNCHANGED <<host, caddy, owned>>

CutoverStep ==
    \/ StageNext \/ Record \/ KeepCaddyfile \/ InstallFragment \/ InstallCaddyfile \/ RuntimeDir
    \/ WriteLines \/ LoadLines \/ Validate \/ Cutover \/ Verify \/ WritePair \/ LoadPair \/ Mark
    \/ PutBack \/ LoadBack \/ VerifyBack \/ RemoveSocket \/ Unmark \/ RestoreCaddyfile
    \/ DropFragment \/ DropNext \/ RestoreDropIn \/ ReloadUnits \/ RestartBack
    \/ ConsumeCaddyfile \/ ConsumeAbsent \/ ConsumeBytes \/ End
    \/ RetireSite \/ RetireBytes \/ RetireAbsent \/ RetireCaddyfile
CutoverCommand == Migrate \/ Complete \/ Abandon \/ Rollback \/ Offline \/ Retire
CutoverNext ==
    CutoverStep \/ CutoverCommand \/ CommitLater \/ EditDropIn \/ Kill
    \/ CaddyRestart \/ CaddyRestartFails \/ PlainReload
CutoverSpec == CutoverInit /\ [][CutoverNext]_cutoverVars

\* Where the code names the offline way back: no address answers, or TCP answers the envelope.
OfflineNamed == caddy.admin = "none" \/ caddy = [runs |-> "new", admin |-> "tcp"]

\* A command that was started runs on, and the operator takes the way back the code names.
CutoverFair ==
    /\ WF_cutoverVars(CutoverStep)
    /\ SF_cutoverVars(Abandon \/ Rollback) /\ SF_cutoverVars(OfflineNamed /\ Offline)

-----------------------------------------------------------------------------
\* The Caddyfile on disk can be loaded: it never imports a fragment that is not there.
CaddyfileLoads == Loads

\* A host with a marker reloads through the socket, and until its old layout is retired it
\* can go back: the marker is the last write of a migration and the first of a way back.
MarkedCanGoBack == host.marker # "none" => host.loaded = "pair" /\ (host.site => BothBackups)

\* Wherever a migration or a way back is killed, and whatever Caddy restarts on, the host has
\* a way on: Caddy can start, and a host that says it has migrated can be taken back.
HostCanGoOn == CaddyfileLoads /\ MarkedCanGoBack

\* A host whose Caddyfile backup is consumed has its files as they were: its Caddyfile, its
\* drop-in as the owner last left it, absence included, and nothing of the envelope's.
BackIsWhole ==
    host.site /\ host.backup = Gone =>
        /\ host.caddyfile = "old" /\ host.marker = "none" /\ ~host.fragment
        /\ host.dropIn = owned

\* A migration that stopped anywhere after its backups is completed or undone.
ComesToRest == BothBackups ~> (Migrated \/ ~host.site \/ host.backup = Gone)

\* No way back serves the site that retiring deletes: _require_backup says that after it
\* there is no way back.
NoWayBackToNothing == caddy.runs = "old" => host.site
=============================================================================
