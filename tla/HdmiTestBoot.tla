---------------------------- MODULE HdmiTestBoot ----------------------------
(***************************************************************************)
(* The guarded board-side installer scripts/install-hdmi-test-boot.sh.     *)
(*                                                                         *)
(* The script replaces boot files by test versions, keeps a backup of the  *)
(* previous ones and arms a systemd service that puts them back unless the *)
(* operator confirms the test boot in time.  Two processes run it: the     *)
(* operator's shell (--kernel ..., --confirm, --rollback) and the service  *)
(* that systemd starts at boot (--service-rollback).  Every command of the *)
(* script that changes a file is one step, so that the two processes       *)
(* interleave, a copy can fail (set -e ends the script there) and power    *)
(* can be cut between, and inside, any two of them.                        *)
(*                                                                         *)
(* A file's content is the number of the installation that provided it; 0  *)
(* is what was there before the first test.                                *)
(***************************************************************************)
EXTENDS Integers, Sequences, FiniteSets

CONSTANTS
    Prior,          \* boot files present before the first test
    MaxInstalls,    \* bound: installations started
    MaxFaults,      \* bound: power cuts plus failed copies
    AllowForce,     \* may the operator pass --force?
    AllowLate,      \* may --confirm start after the delay has expired?
    Resumes,        \* does the operator repeat an interrupted command?
    WriteBack       \* may a power cut lose writes made since the last sync?

Files    == {"zImage", "uInitrd", "uEnv.txt", "dtb"}
Order    == <<"zImage", "uInitrd", "uEnv.txt", "dtb">>

ASSUME HdmiAssumption ==
    /\ Prior \subseteq Files
    /\ "zImage" \in Prior
    /\ MaxInstalls \in Nat
    /\ MaxFaults \in Nat
    /\ AllowForce \in BOOLEAN
    /\ AllowLate \in BOOLEAN
    /\ Resumes \in BOOLEAN
    /\ WriteBack \in BOOLEAN

Absent  == -1       \* no such file
Torn    == -2       \* truncated or half-written
Content == {Absent, Torn} \cup Nat

VARIABLES
    boot,           \* ${boot_dir}: content of each boot file
    backup,         \* content of each backup directory, one per installation
    state,          \* STATE_FILE: Absent, Torn, or the backup it names
    confirmed,      \* CONFIRM_FILE exists
    unit,           \* the rollback unit is on disk and enabled
    dirty,          \* objects written since the last sync (WriteBack only)
    sys,            \* "up", "down" (rebooting) or "dead" (does not boot)
    opc, oi,        \* operator's script: program point, position in Order
    ofiles,         \* files the running installation replaces
    oreboot,        \* --no-reboot was not given
    spc, si,        \* service: program point, position in Order
    sdir,           \* BACKUP_DIR as the service last read it
    installs,       \* installations started so far; also the running one's id
    faults,         \* power cuts and failed copies so far
    good,           \* history: the boot files the operator last accepted
    accepted        \* history: every content a confirmation accepted

disk  == <<boot, backup, state, confirmed, unit>>
oper  == <<opc, oi, ofiles, oreboot>>
serv  == <<spc, si, sdir>>
hist  == <<good, accepted>>
vars  == <<disk, dirty, sys, oper, serv, installs, faults, hist>>

-----------------------------------------------------------------------------
Written(obj) == dirty' = IF WriteBack THEN dirty \cup {obj} ELSE dirty

\* Both processes die with the system; systemd starts neither of them here.
ProcessesGone ==
    /\ opc' = "idle" /\ oi' = 1 /\ ofiles' = {} /\ oreboot' = FALSE
    /\ spc' = "off" /\ si' = 1 /\ sdir' = Absent

\* reboot(8) unmounts the file systems, so nothing written is lost.
reboot == sys' = "down" /\ dirty' = {} /\ ProcessesGone

Init ==
    /\ boot = [f \in Files |-> IF f \in Prior THEN 0 ELSE Absent]
    /\ backup = [n \in 1..MaxInstalls |-> [f \in Files |-> Absent]]
    /\ state = Absent
    /\ confirmed = FALSE
    /\ unit = FALSE
    /\ dirty = {}
    /\ sys = "up"
    /\ opc = "idle" /\ oi = 1 /\ ofiles = {} /\ oreboot = FALSE
    /\ spc = "off" /\ si = 1 /\ sdir = Absent
    /\ installs = 0
    /\ faults = 0
    /\ good = boot /\ accepted = {0}

-----------------------------------------------------------------------------
(* install_test_boot                                                       *)

\* Every file of the accepted set is what is in boot.
Settled == \A f \in Files : good[f] # Absent => boot[f] = good[f]

StartInstall_unguarded(files, force, rebootAfter) ==
    /\ sys = "up" /\ opc = "idle" /\ installs < MaxInstalls
    /\ opc' = "clear" /\ oi' = 1
    /\ ofiles' = files /\ oreboot' = rebootAfter
    /\ installs' = installs + 1
    /\ UNCHANGED <<disk, dirty, sys, serv, faults, hist>>

\* The checks before the first change.  The refusal of a second test while
\* one is unconfirmed is the guard on STATE_FILE and CONFIRM_FILE; the
\* commands that die here change nothing.
StartInstall(files, force, rebootAfter) ==
    /\ sys = "up" /\ opc = "idle"
    /\ installs < MaxInstalls
    /\ force => AllowForce
    /\ state = Absent \/ confirmed \/ force
    /\ Resumes /\ confirmed => ~unit /\ Settled
    /\ opc' = "clear" /\ oi' = 1
    /\ ofiles' = files /\ oreboot' = rebootAfter
    /\ installs' = installs + 1
    /\ UNCHANGED <<disk, dirty, sys, serv, faults, hist>>

\* rm -f CONFIRM_FILE; mkdir -p backup_dir
ClearConfirm ==
    /\ opc = "clear"
    /\ confirmed' = FALSE
    /\ Written(<<"confirm">>)
    /\ opc' = "backup" /\ oi' = 1
    /\ UNCHANGED <<boot, backup, state, unit, sys, ofiles, oreboot, serv,
                   installs, faults, hist>>

\* Is the file copied into the backup?  The device tree only if this test
\* replaces it.
BacksUp(f) == boot[f] # Absent /\ (f = "dtb" => "dtb" \in ofiles)

BackupFile ==
    /\ opc = "backup" /\ oi <= Len(Order)
    /\ LET f == Order[oi] IN
         IF BacksUp(f)
         THEN /\ backup' = [backup EXCEPT ![installs][f] = boot[f]]
              /\ Written(<<"backup", installs, f>>)
         ELSE UNCHANGED <<backup, dirty>>
    /\ oi' = oi + 1
    /\ UNCHANGED <<boot, state, confirmed, unit, sys, opc, ofiles, oreboot,
                   serv, installs, faults, hist>>

write_state_unarmed ==
    /\ opc = "backup" /\ oi > Len(Order)
    /\ state' = installs
    /\ Written(<<"state">>)
    /\ opc' = "copy" /\ oi' = 1
    /\ UNCHANGED <<boot, backup, confirmed, unit, sys, ofiles, oreboot, serv,
                   installs, faults, hist>>

\* Faulty: backup_dir is set after the state file is written, which then names
\* no backup.
write_state_unnamed ==
    /\ opc = "backup" /\ oi > Len(Order)
    /\ state' = 0
    /\ Written(<<"state">>)
    /\ opc' = "arm"
    /\ UNCHANGED <<boot, backup, confirmed, unit, sys, oi, ofiles, oreboot,
                   serv, installs, faults, hist>>

write_state ==
    /\ opc = "backup" /\ oi > Len(Order)
    /\ state' = installs
    /\ Written(<<"state">>)
    /\ opc' = "arm"
    /\ UNCHANGED <<boot, backup, confirmed, unit, sys, oi, ofiles, oreboot,
                   serv, installs, faults, hist>>

install_service ==
    /\ opc = "arm"
    /\ unit' = TRUE
    /\ Written(<<"unit">>)
    /\ opc' = "copy" /\ oi' = 1
    /\ UNCHANGED <<boot, backup, state, confirmed, sys, ofiles, oreboot, serv,
                   installs, faults, hist>>

CopyFile ==
    /\ opc = "copy" /\ oi <= Len(Order)
    /\ LET f == Order[oi] IN
         IF f \in ofiles
         THEN /\ boot' = [boot EXCEPT ![f] = installs]
              /\ Written(<<"boot", f>>)
         ELSE UNCHANGED <<boot, dirty>>
    /\ oi' = oi + 1
    /\ UNCHANGED <<backup, state, confirmed, unit, sys, opc, ofiles, oreboot,
                   serv, installs, faults, hist>>

\* sync, and the end of the script: reboot unless --no-reboot.
FinishInstall ==
    /\ opc = "copy" /\ oi > Len(Order)
    /\ dirty' = {}
    /\ IF oreboot
       THEN sys' = "down" /\ ProcessesGone
       ELSE /\ opc' = "idle" /\ oi' = 1 /\ ofiles' = {} /\ oreboot' = FALSE
            /\ UNCHANGED <<sys, serv>>
    /\ UNCHANGED <<disk, installs, faults, hist>>

-----------------------------------------------------------------------------
(* confirm_boot                                                            *)

\* Has the service already gone past its sleep and its look at CONFIRM_FILE?
RollbackDecided == spc \in {"restore", "unregister", "reboot"}

TouchConfirm ==
    /\ sys = "up" /\ opc = "idle"
    /\ AllowLate \/ ~RollbackDecided
    /\ confirmed' = TRUE
    /\ Written(<<"confirm">>)
    /\ opc' = "disable"
    /\ good' = boot
    /\ accepted' = accepted \cup {boot[f] : f \in Files}
    /\ UNCHANGED <<boot, backup, state, unit, sys, oi, ofiles, oreboot, serv,
                   installs, faults>>

\* disable_service: systemctl disable --now kills the running service too.
disable_service ==
    /\ opc = "disable"
    /\ unit' = FALSE
    /\ spc' = "off" /\ si' = 1 /\ sdir' = Absent
    /\ Written(<<"unit">>)
    /\ opc' = "idle"
    /\ UNCHANGED <<boot, backup, state, confirmed, sys, oi, ofiles, oreboot,
                   installs, faults, hist>>

-----------------------------------------------------------------------------
(* restore_previous_boot, shared by --rollback and --service-rollback      *)

\* load_state: is there a state file that names a backup directory?
HasState == state \in 1..MaxInstalls

\* The copy of one file out of the backup that the state file names.
Restored(dir, f) ==
    IF backup[dir][f] # Absent
    THEN /\ boot' = [boot EXCEPT ![f] = backup[dir][f]]
         /\ Written(<<"boot", f>>)
    ELSE UNCHANGED <<boot, dirty>>

(* manual_rollback *)

StartRollback(rebootAfter) ==
    /\ sys = "up" /\ opc = "idle"
    /\ HasState            \* load_state dies without a usable state file
    /\ opc' = "restore" /\ oi' = 1 /\ oreboot' = rebootAfter
    /\ good' = [f \in Files |-> IF backup[state][f] # Absent
                                THEN backup[state][f] ELSE good[f]]
    /\ UNCHANGED <<disk, dirty, sys, ofiles, serv, installs, faults, accepted>>

RollbackFile ==
    /\ opc = "restore" /\ oi <= Len(Order)
    /\ Restored(state, Order[oi])
    /\ oi' = oi + 1
    /\ UNCHANGED <<backup, state, confirmed, unit, sys, opc, ofiles, oreboot,
                   serv, installs, faults, hist>>

\* sync; rm -f CONFIRM_FILE; disable_service; reboot unless --no-reboot.
RollbackSync ==
    /\ opc = "restore" /\ oi > Len(Order)
    /\ dirty' = {}
    /\ opc' = "unconfirm"
    /\ UNCHANGED <<disk, sys, oi, ofiles, oreboot, serv, installs, faults,
                   hist>>

RollbackUnconfirm ==
    /\ opc = "unconfirm"
    /\ confirmed' = FALSE
    /\ Written(<<"confirm">>)
    /\ opc' = "stop"
    /\ UNCHANGED <<boot, backup, state, unit, sys, oi, ofiles, oreboot, serv,
                   installs, faults, hist>>

FinishRollback ==
    /\ opc = "stop"
    /\ unit' = FALSE
    /\ IF oreboot
       THEN reboot
       ELSE /\ Written(<<"unit">>)
            /\ opc' = "idle" /\ oi' = 1
            /\ ofiles' = {} /\ oreboot' = FALSE
            /\ spc' = "off" /\ si' = 1 /\ sdir' = Absent
            /\ UNCHANGED sys
    /\ UNCHANGED <<boot, backup, state, confirmed, installs, faults, hist>>

(* service_rollback *)

\* load_state, then sleep; without a usable state file the service fails.
ServiceStart ==
    /\ spc = "start"
    /\ spc' = IF HasState THEN "sleep" ELSE "off"
    /\ UNCHANGED <<disk, dirty, sys, oper, si, sdir, installs, faults, hist>>

ServiceWake_unchecked ==
    /\ spc = "sleep"
    /\ spc' = IF HasState THEN "restore" ELSE "off"
    /\ si' = 1 /\ sdir' = state
    /\ UNCHANGED <<disk, dirty, sys, oper, installs, faults, hist>>

ServiceWake_inverted ==
    /\ spc = "sleep"
    /\ spc' = IF ~confirmed \/ ~HasState THEN "off" ELSE "restore"
    /\ si' = 1 /\ sdir' = state
    /\ UNCHANGED <<disk, dirty, sys, oper, installs, faults, hist>>

\* The delay has expired: look for CONFIRM_FILE, then load_state again.
ServiceWake ==
    /\ spc = "sleep"
    /\ spc' = IF confirmed \/ ~HasState THEN "off" ELSE "restore"
    /\ si' = 1 /\ sdir' = state
    /\ UNCHANGED <<disk, dirty, sys, oper, installs, faults, hist>>

ServiceFile ==
    /\ spc = "restore" /\ si <= Len(Order)
    /\ Restored(sdir, Order[si])
    /\ si' = si + 1
    /\ UNCHANGED <<backup, state, confirmed, unit, sys, oper, spc, sdir, installs,
                   faults, hist>>

ServiceSync ==
    /\ spc = "restore" /\ si > Len(Order)
    /\ dirty' = {}
    /\ spc' = "unregister"
    /\ UNCHANGED <<disk, sys, oper, si, sdir, installs, faults, hist>>

remove_service_registration ==
    /\ spc = "unregister"
    /\ unit' = FALSE
    /\ Written(<<"unit">>)
    /\ spc' = "reboot"
    /\ UNCHANGED <<boot, backup, state, confirmed, sys, oper, si, sdir,
                   installs, faults, hist>>

ServiceReboot ==
    /\ spc = "reboot"
    /\ reboot
    /\ UNCHANGED <<disk, installs, faults, hist>>

-----------------------------------------------------------------------------
(* The board                                                               *)

\* The firmware starts what is in boot.  Torn files never start; the original
\* set does; a test version may or may not reach userspace, where systemd
\* starts the rollback service if it is enabled.
Boot ==
    /\ sys = "down"
    /\ \/ /\ \A f \in Files : boot[f] # Torn
          /\ sys' = "up"
          /\ spc' = IF unit THEN "start" ELSE "off"
       \/ /\ \E f \in Files : boot[f] \notin {0, Absent}
          /\ sys' = "dead"
          /\ UNCHANGED spc
    /\ UNCHANGED <<disk, dirty, oper, si, sdir, installs, faults, hist>>

\* The operator reboots an idle board, for instance after --no-reboot.  While
\* the rollback service runs, a reset is a PowerCut.
OperatorReboot ==
    /\ sys = "up" /\ opc = "idle" /\ spc = "off"
    /\ reboot
    /\ UNCHANGED <<disk, installs, faults, hist>>

\* The boot files a copy is being written to at this moment.
InFlight ==
    (IF opc = "copy" /\ oi <= Len(Order) /\ Order[oi] \in ofiles
     THEN {Order[oi]} ELSE {})
    \cup
    (IF opc = "restore" /\ oi <= Len(Order) /\ backup[state][Order[oi]] # Absent
     THEN {Order[oi]} ELSE {})
    \cup
    (IF spc = "restore" /\ si <= Len(Order) /\ backup[sdir][Order[si]] # Absent
     THEN {Order[si]} ELSE {})

\* A power cut.  The target of a running copy may be left half-written and,
\* with a write-back cache, any write since the last sync may be lost.
PowerCut(torn, lost) ==
    /\ sys = "up" /\ faults < MaxFaults
    /\ boot' = [f \in Files |->
                  IF f \in torn \/ <<"boot", f>> \in lost THEN Torn ELSE boot[f]]
    /\ backup' = [n \in 1..MaxInstalls |-> [f \in Files |->
                  IF <<"backup", n, f>> \in lost THEN Torn ELSE backup[n][f]]]
    /\ state' = IF <<"state">> \in lost THEN Torn ELSE state
    /\ confirmed' = IF <<"confirm">> \in lost THEN ~confirmed ELSE confirmed
    /\ unit' = IF <<"unit">> \in lost THEN ~unit ELSE unit
    /\ dirty' = {}
    /\ sys' = "down"
    /\ ProcessesGone
    /\ faults' = faults + 1
    /\ UNCHANGED <<installs, hist>>

\* cp fails (the boot partition is full): the target is truncated and set -e
\* ends the script that ran it.
InstallCopyFails ==
    /\ faults < MaxFaults
    /\ \/ /\ opc = "backup" /\ oi <= Len(Order) /\ BacksUp(Order[oi])
          /\ backup' = [backup EXCEPT ![installs][Order[oi]] = Torn]
          /\ Written(<<"backup", installs, Order[oi]>>)
          /\ UNCHANGED boot
       \/ /\ \/ opc = "copy" /\ oi <= Len(Order) /\ Order[oi] \in ofiles
             \/ /\ opc = "restore" /\ oi <= Len(Order)
                /\ backup[state][Order[oi]] # Absent
          /\ boot' = [boot EXCEPT ![Order[oi]] = Torn]
          /\ Written(<<"boot", Order[oi]>>)
          /\ UNCHANGED backup
    /\ opc' = "idle" /\ oi' = 1 /\ ofiles' = {} /\ oreboot' = FALSE
    /\ faults' = faults + 1
    /\ UNCHANGED <<state, confirmed, unit, sys, serv, installs, hist>>

ServiceCopyFails ==
    /\ faults < MaxFaults
    /\ spc = "restore" /\ si <= Len(Order)
    /\ backup[sdir][Order[si]] # Absent
    /\ boot' = [boot EXCEPT ![Order[si]] = Torn]
    /\ Written(<<"boot", Order[si]>>)
    /\ spc' = "off" /\ si' = 1 /\ sdir' = Absent
    /\ faults' = faults + 1
    /\ UNCHANGED <<backup, state, confirmed, unit, sys, oper, installs, hist>>

-----------------------------------------------------------------------------
\* The operator starts a command ...
OperatorStart ==
    \/ \E files \in SUBSET {"uInitrd", "dtb"}, force, rb \in BOOLEAN :
          StartInstall(files \cup {"zImage"}, force, rb)
    \/ TouchConfirm
    \/ \E rb \in BOOLEAN : StartRollback(rb)

\* ... and the shell runs it to its end.
OperatorScript ==
    \/ ClearConfirm \/ BackupFile \/ write_state \/ install_service
    \/ CopyFile \/ FinishInstall
    \/ disable_service
    \/ RollbackFile \/ RollbackSync \/ RollbackUnconfirm \/ FinishRollback

Service ==
    \/ ServiceStart \/ ServiceWake \/ ServiceFile \/ ServiceSync
    \/ remove_service_registration \/ ServiceReboot

Faults ==
    \/ \E torn \in SUBSET InFlight, lost \in SUBSET dirty : PowerCut(torn, lost)
    \/ InstallCopyFails
    \/ ServiceCopyFails

Next == OperatorStart \/ OperatorScript \/ Service \/ Boot \/ OperatorReboot \/ Faults

Spec == Init /\ [][Next]_vars

\* A started script runs on, systemd runs the service and the firmware boots;
\* the operator need not start anything.
FairSpec ==
    Spec /\ WF_vars(OperatorScript) /\ WF_vars(Service) /\ WF_vars(Boot)

-----------------------------------------------------------------------------
(* Properties                                                              *)

\* Every variable has its type; the state file, if it can be used at all,
\* names the backup of an installation.
TypeOK ==
    /\ boot \in [Files -> Content]
    /\ backup \in [1..MaxInstalls -> [Files -> Content]]
    /\ state \in {Absent, Torn} \cup (1..MaxInstalls)
    /\ confirmed \in BOOLEAN
    /\ unit \in BOOLEAN
    /\ sys \in {"up", "down", "dead"}
    /\ opc \in {"idle", "clear", "backup", "arm", "copy", "disable",
               "restore", "unconfirm", "stop"}
    /\ oi \in 1..5
    /\ ofiles \subseteq Files
    /\ oreboot \in BOOLEAN
    /\ spc \in {"off", "start", "sleep", "restore", "unregister", "reboot"}
    /\ si \in 1..5
    /\ sdir \in {Absent, Torn} \cup (1..MaxInstalls)
    /\ installs \in 0..MaxInstalls
    /\ faults \in 0..MaxFaults
    /\ good \in [Files -> Content]
    /\ accepted \subseteq Content

\* Is some boot file an intact one that was never accepted?
UnderTest == \E f \in Files : good[f] # Absent /\ boot[f] \in Nat \ accepted

\* A test is never left unguarded: while unaccepted files can be booted and
\* no confirmation stands, the rollback service is enabled and has a state
\* file, whatever was interrupted (install_test_boot arms before it copies;
\* both rollbacks disarm only after they have restored).
TestArmed == ~confirmed /\ UnderTest => unit /\ HasState

\* And what that service would restore is exactly the accepted set: the
\* backup named by the state file holds every file that was replaced or left
\* half-written, never the file of an earlier unconfirmed test.
BackupHoldsAccepted ==
    ~confirmed /\ HasState =>
        \A f \in Files : good[f] # Absent /\ boot[f] # good[f]
                            => backup[state][f] = good[f]

\* A confirmed test is not undone behind the operator's back: while the
\* confirmation stands, boot files change only under --rollback.
ConfirmedKept ==
    [][confirmed /\ confirmed' /\ boot' # boot => opc = "restore"]_vars

\* A test boot that reaches userspace and is not confirmed is rolled back,
\* unless the board stops booting or a copy was cut short.
RollbackHappens ==
    (sys = "up" /\ spc \in {"start", "sleep"} /\ ~confirmed /\ ~Settled)
        ~> \/ Settled \/ confirmed
           \/ sys = "dead" \/ \E f \in Files : boot[f] = Torn
=============================================================================
