------------------------- MODULE HdmiTestBootProofs -------------------------
(***************************************************************************)
(* Proofs that the installer's backup, state file and service guard every  *)
(* test boot, for any number of installations, power cuts and failed       *)
(* copies and any set of boot files to begin with.                         *)
(*                                                                         *)
(* The guarantees rest on a careful use of the script (Careful): writes    *)
(* reach the disk, --force is not given, a confirmation is not started     *)
(* after the delay has expired, and an interrupted command is repeated     *)
(* before the next test.                                                   *)
(***************************************************************************)
EXTENDS HdmiTestBoot, TLAPS

Careful == ~WriteBack /\ ~AllowForce /\ ~AllowLate /\ Resumes

\* The backup that the state file names holds nothing but accepted files.
FromGood(dir) == \A f \in Files : backup[dir][f] \in {Absent, good[f]}

\* File f is one of the accepted set and an untried version of it is in boot.
Untried(f) == good[f] # Absent /\ boot[f] \in Nat \ accepted

-----------------------------------------------------------------------------
(* Types                                                                   *)

FileTypes ==
    /\ boot \in [Files -> Content]
    /\ backup \in [1..MaxInstalls -> [Files -> Content]]
    /\ good \in [Files -> Content]
    /\ accepted \subseteq Content

\* Where a script indexes the backups, the index is one of a backup.
PointTypes ==
    /\ state \in {Absent, Torn} \cup (1..MaxInstalls)
    /\ confirmed \in BOOLEAN /\ unit \in BOOLEAN
    /\ sys \in {"up", "down", "dead"}
    /\ opc \in {"idle", "clear", "backup", "arm", "copy", "disable",
               "restore", "unconfirm", "stop"}
    /\ oi \in 1..5 /\ ofiles \subseteq Files /\ oreboot \in BOOLEAN
    /\ spc \in {"off", "start", "sleep", "restore", "unregister", "reboot"}
    /\ si \in 1..5 /\ sdir \in {Absent, Torn} \cup (1..MaxInstalls)
    /\ installs \in 0..MaxInstalls /\ faults \in 0..MaxFaults
    /\ opc \in {"clear", "backup", "arm", "copy"} => installs # 0
    /\ opc = "restore" => HasState
    /\ spc = "restore" => sdir \in 1..MaxInstalls

TInv == FileTypes /\ PointTypes

\* The positions of Order are the boot files, four of them.
LEMMA OrderFacts ==
    /\ Len(Order) = 4
    /\ \A j \in 1..4 : Order[j] \in Files
    /\ \A f \in Files : \E j \in 1..4 : Order[j] = f
    /\ \A j, k \in 1..4 : Order[j] = Order[k] => j = k
BY DEF Order, Files

\* The steps of the scripts keep the types of their program points.
LEMMA PointStep ==
    ASSUME PointTypes, Next PROVE PointTypes'
<1> USE HdmiAssumption, OrderFacts DEF HdmiAssumption
<1> USE DEF PointTypes, HasState, disk, oper, serv, hist
<1>1. CASE \E files \in SUBSET {"uInitrd", "dtb"}, force, rb \in BOOLEAN :
               StartInstall(files \cup {"zImage"}, force, rb)
    BY <1>1 DEF StartInstall, Files
<1>2. CASE TouchConfirm
    BY <1>2 DEF TouchConfirm
<1>3. ASSUME NEW rb \in BOOLEAN, StartRollback(rb) PROVE PointTypes'
    BY <1>3 DEF StartRollback
<1>4. CASE OperatorScript
  <2>1. CASE ClearConfirm
    <3>1. oi' \in 1..5 /\ si' \in 1..5
        BY <2>1 DEF ClearConfirm
    <3> QED BY <2>1, <3>1 DEF ClearConfirm
  <2>2. CASE BackupFile
      BY <2>2 DEF BackupFile
  <2>3. CASE write_state
      BY <2>3 DEF write_state
  <2>4. CASE install_service
      BY <2>4 DEF install_service
  <2>5. CASE CopyFile
      BY <2>5 DEF CopyFile
  <2>6. CASE FinishInstall
    <3>1. oi' \in 1..5 /\ si' \in 1..5
        BY <2>6 DEF FinishInstall, ProcessesGone
    <3> QED BY <2>6, <3>1 DEF FinishInstall, ProcessesGone
  <2>7. CASE disable_service
    <3>1. oi' \in 1..5 /\ si' \in 1..5
        BY <2>7 DEF disable_service
    <3> QED BY <2>7, <3>1 DEF disable_service
  <2>8. CASE RollbackFile
      BY <2>8 DEF RollbackFile
  <2>9. CASE RollbackSync
      BY <2>9 DEF RollbackSync
  <2>10. CASE RollbackUnconfirm
      BY <2>10 DEF RollbackUnconfirm
  <2>11. CASE FinishRollback
    <3>1. oi' \in 1..5 /\ si' \in 1..5
        BY <2>11 DEF FinishRollback, reboot, ProcessesGone
    <3> QED BY <2>11, <3>1 DEF FinishRollback, reboot, ProcessesGone
  <2> QED BY <1>4, <2>1, <2>2, <2>3, <2>4, <2>5, <2>6, <2>7, <2>8, <2>9,
             <2>10, <2>11 DEF OperatorScript
<1>5. CASE Service
  <2>1. CASE ServiceStart
      BY <2>1 DEF ServiceStart
  <2>2. CASE ServiceWake
      BY <2>2 DEF ServiceWake
  <2>3. CASE ServiceFile
      BY <2>3 DEF ServiceFile
  <2>4. CASE ServiceSync
      BY <2>4 DEF ServiceSync
  <2>5. CASE remove_service_registration
    <3>1. oi' \in 1..5 /\ si' \in 1..5
        BY <2>5 DEF remove_service_registration
    <3> QED BY <2>5, <3>1 DEF remove_service_registration
  <2>6. CASE ServiceReboot
    <3>1. oi' \in 1..5 /\ si' \in 1..5
        BY <2>6 DEF ServiceReboot, reboot, ProcessesGone
    <3> QED BY <2>6, <3>1 DEF ServiceReboot, reboot, ProcessesGone
  <2> QED BY <1>5, <2>1, <2>2, <2>3, <2>4, <2>5, <2>6 DEF Service
<1>6. CASE Boot
    BY <1>6 DEF Boot
<1>7. CASE OperatorReboot
  <2>1. oi' \in 1..5 /\ si' \in 1..5
      BY <1>7 DEF OperatorReboot, reboot, ProcessesGone
  <2> QED BY <1>7, <2>1 DEF OperatorReboot, reboot, ProcessesGone
<1>8. ASSUME NEW torn, NEW lost, PowerCut(torn, lost) PROVE PointTypes'
  <2>1. oi' \in 1..5 /\ si' \in 1..5 /\ faults' \in 0..MaxFaults
      BY <1>8 DEF PowerCut, ProcessesGone
  <2> QED BY <1>8, <2>1 DEF PowerCut, ProcessesGone
<1>9. CASE InstallCopyFails
  <2>1. oi' \in 1..5 /\ si' \in 1..5 /\ faults' \in 0..MaxFaults
      BY <1>9 DEF InstallCopyFails
  <2> QED BY <1>9, <2>1 DEF InstallCopyFails
<1>10. CASE ServiceCopyFails
  <2>1. oi' \in 1..5 /\ si' \in 1..5 /\ faults' \in 0..MaxFaults
      BY <1>10 DEF ServiceCopyFails
  <2> QED BY <1>10, <2>1 DEF ServiceCopyFails
<1> HIDE DEF PointTypes
<1>11. CASE OperatorStart
    BY <1>1, <1>2, <1>3, <1>11 DEF OperatorStart
<1>12. CASE Faults
    BY <1>8, <1>9, <1>10, <1>12 DEF Faults
<1> QED BY <1>4, <1>5, <1>6, <1>7, <1>11, <1>12 DEF Next

\* What a step may do to the files: most leave them alone, the others write
\* one file of one directory, and only a power cut changes several.
LEMMA FileStep ==
    ASSUME TInv, Next PROVE FileTypes'
<1> USE HdmiAssumption, OrderFacts DEF HdmiAssumption
<1> USE DEF TInv, FileTypes, PointTypes, HasState, disk, oper, serv, hist
<1>1. CASE UNCHANGED <<boot, backup, good, accepted>>
    BY <1>1
<1>2. CASE TouchConfirm
    BY <1>2 DEF TouchConfirm
<1>3. ASSUME NEW rb \in BOOLEAN, StartRollback(rb) PROVE FileTypes'
    BY <1>3 DEF StartRollback
<1>4. CASE BackupFile \/ InstallCopyFails
  <2>1. PICK f \in Files, c \in Content :
           /\ boot' \in {boot, [boot EXCEPT ![f] = c]}
           /\ backup' \in {backup, [backup EXCEPT ![installs][f] = c]}
    <3>1. CASE BackupFile
      <4>1. Order[oi] \in Files /\ boot[Order[oi]] \in Content
          BY <3>1 DEF BackupFile
      <4> QED BY <3>1, <4>1 DEF BackupFile
    <3>2. CASE InstallCopyFails
      <4>1. Order[oi] \in Files /\ Torn \in Content
          BY <3>2 DEF InstallCopyFails, Content
      <4> QED BY <3>2, <4>1 DEF InstallCopyFails
    <3> QED BY <1>4, <3>1, <3>2
  <2>2. UNCHANGED <<good, accepted>>
      BY <1>4 DEF BackupFile, InstallCopyFails
  <2>3. boot' \in [Files -> Content]
      BY <2>1
  <2>4. /\ DOMAIN backup' = 1..MaxInstalls
        /\ backup' = [n \in 1..MaxInstalls |-> backup'[n]]
      BY <2>1
  <2>5. ASSUME NEW n \in 1..MaxInstalls PROVE backup'[n] \in [Files -> Content]
    <3>1. backup'[n] = backup[n] \/ backup'[n] = [backup[n] EXCEPT ![f] = c]
        BY <2>1
    <3>2. backup[n] \in [Files -> Content]
        OBVIOUS
    <3> HIDE HdmiAssumption, OrderFacts DEF TInv, FileTypes, PointTypes
    <3>3. [backup[n] EXCEPT ![f] = c] \in [Files -> Content]
        BY <3>2
    <3> QED BY <3>1, <3>2, <3>3
  <2>6. backup' \in [1..MaxInstalls -> [Files -> Content]]
      BY <2>4, <2>5
  <2> QED BY <2>2, <2>3, <2>6
<1>5. CASE CopyFile \/ RollbackFile \/ ServiceFile \/ ServiceCopyFails
  <2>1. \E f \in Files, c \in Content : boot' \in {boot, [boot EXCEPT ![f] = c]}
    <3>1. CASE CopyFile
      <4>1. Order[oi] \in Files /\ installs \in Content
          BY <3>1 DEF CopyFile, Content
      <4> QED BY <3>1, <4>1 DEF CopyFile
    <3>2. CASE RollbackFile
        BY <3>2 DEF RollbackFile, Restored
    <3>3. CASE ServiceFile
        BY <3>3 DEF ServiceFile, Restored
    <3>4. CASE ServiceCopyFails
      <4>1. Order[si] \in Files /\ Torn \in Content
          BY <3>4 DEF ServiceCopyFails, Content
      <4> QED BY <3>4, <4>1 DEF ServiceCopyFails
    <3> QED BY <1>5, <3>1, <3>2, <3>3, <3>4
  <2>2. UNCHANGED <<backup, good, accepted>>
      BY <1>5 DEF CopyFile, RollbackFile, ServiceFile, ServiceCopyFails
  <2> QED BY <2>1, <2>2
<1>6. ASSUME NEW torn, NEW lost, PowerCut(torn, lost) PROVE FileTypes'
  <2>1. boot' \in [Files -> Content]
      BY <1>6 DEF PowerCut, Content
  <2>2. ASSUME NEW n \in 1..MaxInstalls PROVE backup'[n] \in [Files -> Content]
      BY <1>6 DEF PowerCut, Content
  <2> QED BY <1>6, <2>1, <2>2 DEF PowerCut
<1>7. \/ UNCHANGED <<boot, backup, good, accepted>>
      \/ TouchConfirm
      \/ \E rb \in BOOLEAN : StartRollback(rb)
      \/ BackupFile \/ InstallCopyFails
      \/ CopyFile \/ RollbackFile \/ ServiceFile \/ ServiceCopyFails
      \/ \E torn \in SUBSET InFlight, lost \in SUBSET dirty : PowerCut(torn, lost)
    BY DEF Next, OperatorStart, OperatorScript, Service, Faults, StartInstall,
           ClearConfirm, write_state, install_service, FinishInstall,
           disable_service, RollbackSync, RollbackUnconfirm, FinishRollback,
           ServiceStart, ServiceWake, ServiceSync, ServiceReboot, Boot,
           remove_service_registration, OperatorReboot
<1> QED BY <1>1, <1>2, <1>3, <1>4, <1>5, <1>6, <1>7

\* The types are inductive.
LEMMA TypeStep == TInv /\ [Next]_vars => TInv'
<1> SUFFICES ASSUME TInv, [Next]_vars PROVE TInv'
    OBVIOUS
<1>1. CASE Next
    BY <1>1, PointStep, FileStep DEF TInv
<1>2. CASE UNCHANGED vars
    BY <1>2 DEF vars, disk, oper, serv, hist, TInv, FileTypes, PointTypes,
                HasState
<1> QED BY <1>1, <1>2

\* The initial state has the types.
LEMMA TypeInit == Init => TInv
<1> SUFFICES ASSUME Init PROVE TInv
    OBVIOUS
<1>1. boot \in [Files -> Content] /\ good \in [Files -> Content]
    BY DEF Init, Content
<1>2. ASSUME NEW n \in 1..MaxInstalls PROVE backup[n] \in [Files -> Content]
    BY DEF Init, Content
<1>3. FileTypes
    BY <1>1, <1>2 DEF Init, FileTypes, Content
<1>4. PointTypes
  <2>1. /\ oi \in 1..5 /\ si \in 1..5
        /\ installs \in 0..MaxInstalls /\ faults \in 0..MaxFaults
      BY HdmiAssumption DEF HdmiAssumption, Init
  <2> QED BY <2>1 DEF Init, PointTypes
<1> QED BY <1>3, <1>4 DEF TInv

\* Every variable keeps its type, whatever the operator does and whatever is
\* lost: the state file names a backup or is unusable, never anything else.
THEOREM TypeCorrect == Spec => []TypeOK
<1>1. TInv => TypeOK
    BY DEF TInv, FileTypes, PointTypes, TypeOK
<1> QED BY <1>1, TypeInit, TypeStep, PTL DEF Spec

-----------------------------------------------------------------------------
(* Who runs when                                                           *)

ProcInv ==
    /\ sys # "up" => opc = "idle" /\ spc = "off"
    /\ spc \in {"start", "sleep", "restore", "unregister"} => unit
    /\ opc \in {"clear", "backup", "arm"} => spc = "off" /\ ~unit
    /\ opc = "copy" => spc = "off" /\ unit
    /\ opc \in {"backup", "arm", "copy"} => ~confirmed
    /\ opc = "disable" => confirmed
    /\ RollbackDecided => ~confirmed /\ HasState /\ sdir = state
    /\ opc \in {"restore", "unconfirm", "stop"} => HasState
    /\ unit => HasState

\* The state file never names the directory that is being filled.
StateInv ==
    /\ dirty = {}
    /\ state # Torn /\ state <= installs
    /\ opc \in {"clear", "backup", "arm", "copy"} => installs \in 1..MaxInstalls
    /\ opc \in {"clear", "backup"} => state # installs
    /\ opc \in {"arm", "copy"} => state = installs
    /\ \A n \in 1..MaxInstalls : n > installs \/ (n = installs /\ opc = "clear")
          => \A f \in Files : backup[n][f] = Absent

-----------------------------------------------------------------------------
(* What the files hold                                                     *)

\* Everything accepted, and everything a rollback would restore, is on record.
AcceptInv ==
    /\ \A f \in Files : good[f] # Absent => good[f] \in accepted
    /\ HasState => \A f \in Files :
          backup[state][f] # Absent => backup[state][f] \in accepted

\* Until the new files are copied, boot is the accepted set.
BootInv ==
    /\ opc \in {"clear", "backup", "arm"} => boot = good
    /\ state = Absent => boot = good
    /\ confirmed => \A f \in Files : good[f] = Absent => boot[f] = Absent
    /\ HasState => \A f \in Files :
          backup[state][f] # Absent /\ good[f] = Absent => boot[f] = Absent

\* A rollback runs or will run, unless the operator confirms.
RestoreAhead ==
    \/ opc \in {"arm", "copy", "restore", "unconfirm", "stop"}
    \/ unit /\ ~confirmed
    \/ RollbackDecided

\* While a rollback can run, its backup agrees with the accepted set; while an
\* installation runs, so does the backup it has made so far.
BackupInv ==
    /\ opc = "backup" =>
          /\ FromGood(installs)
          /\ \A j \in 1..4 : j < oi /\ BacksUp(Order[j])
                => backup[installs][Order[j]] = good[Order[j]]
    /\ opc \in {"arm", "copy"} => \A f \in Files :
          good[f] # Absent /\ (f = "dtb" => "dtb" \in ofiles)
             => backup[state][f] = good[f]
    /\ RestoreAhead => FromGood(state)

\* The heart of BackupHoldsAccepted, confirmed or not.
Recoverable ==
    HasState => \A f \in Files :
        good[f] # Absent /\ boot[f] # good[f] => backup[state][f] = good[f]

\* A rollback has dealt with the files before its position, and disarms only
\* when it has dealt with all of them.
UndoneInv ==
    /\ opc = "restore" => \A j \in 1..4 : j < oi => ~Untried(Order[j])
    /\ opc \in {"unconfirm", "stop"} => \A f \in Files : ~Untried(f)
    /\ spc = "restore" => \A j \in 1..4 : j < si => ~Untried(Order[j])
    /\ spc \in {"unregister", "reboot"} => \A f \in Files : ~Untried(f)

FilesInv ==
    /\ AcceptInv /\ BootInv /\ BackupInv /\ Recoverable /\ UndoneInv /\ TestArmed

CInv == ProcInv /\ StateInv /\ FilesInv

files == <<boot, backup, state, good, accepted>>

-----------------------------------------------------------------------------
(* Processes                                                               *)

\* With nothing in the cache a power cut loses no file but the one that a copy
\* is writing.
LEMMA CutLosesLittle ==
    ASSUME TInv, dirty = {}, NEW torn, NEW lost \in SUBSET dirty,
           PowerCut(torn, lost)
    PROVE  /\ UNCHANGED <<backup, state, confirmed, unit, installs, good, accepted>>
           /\ boot' = [f \in Files |-> IF f \in torn THEN Torn ELSE boot[f]]
           /\ sys' = "down" /\ opc' = "idle" /\ spc' = "off" /\ dirty' = {}
           /\ faults < MaxFaults
<1>1. lost = {}
    OBVIOUS
<1>2. backup' = [n \in 1..MaxInstalls |-> [f \in Files |-> backup[n][f]]]
    BY <1>1 DEF PowerCut
<1>3. backup' = backup
    BY <1>2 DEF TInv, FileTypes
<1> QED BY <1>1, <1>3 DEF PowerCut, ProcessesGone, hist

\* Without a write-back cache nothing is ever waiting for a sync.
LEMMA CleanStep ==
    ASSUME Careful, dirty = {}, Next PROVE dirty' = {}
BY DEF Careful, Written, reboot, Next, OperatorStart, OperatorScript, Service,
       Faults, StartInstall, TouchConfirm, StartRollback, ClearConfirm,
       BackupFile, write_state, install_service, CopyFile, FinishInstall,
       disable_service, RollbackFile, RollbackSync, RollbackUnconfirm,
       FinishRollback, ServiceStart, ServiceWake, ServiceFile, ServiceSync,
       remove_service_registration, ServiceReboot, Boot, OperatorReboot,
       PowerCut, InstallCopyFails, ServiceCopyFails, Restored

\* Who may run beside whom: every step keeps ProcInv.
LEMMA ProcStep ==
    ASSUME Careful, TInv, ProcInv, StateInv, Next PROVE ProcInv'
<1> USE DEF Careful, ProcInv, RollbackDecided, disk, oper, serv, hist
<1>0. ASSUME UNCHANGED state PROVE HasState' <=> HasState
    BY <1>0 DEF HasState
<1>1. CASE \E fs \in SUBSET {"uInitrd", "dtb"}, force, rb \in BOOLEAN :
               StartInstall(fs \cup {"zImage"}, force, rb)
  <2>1. state = Absent => ~HasState
      BY HdmiAssumption DEF HdmiAssumption, HasState, Absent
  <2>2. ~unit /\ spc = "off"
      BY <1>1, <2>1 DEF StartInstall, TInv, PointTypes
  <2> QED BY <1>1, <1>0, <2>2 DEF StartInstall
<1>2. CASE TouchConfirm
    BY <1>2, <1>0 DEF TouchConfirm
<1>3. CASE \E rb \in BOOLEAN : StartRollback(rb)
    BY <1>3, <1>0 DEF StartRollback
<1>4. CASE OperatorScript
  <2>1. CASE ClearConfirm
      BY <2>1, <1>0 DEF ClearConfirm
  <2>2. CASE BackupFile
      BY <2>2, <1>0 DEF BackupFile
  <2>3. CASE write_state
    <3>1. HasState'
        BY <2>3 DEF write_state, TInv, PointTypes, HasState
    <3> QED BY <2>3, <3>1 DEF write_state
  <2>4. CASE install_service
    <3>1. HasState
        BY <2>4 DEF install_service, StateInv, HasState
    <3> QED BY <2>4, <1>0, <3>1 DEF install_service
  <2>5. CASE CopyFile
      BY <2>5, <1>0 DEF CopyFile
  <2>6. CASE FinishInstall
      BY <2>6, <1>0 DEF FinishInstall, ProcessesGone
  <2>7. CASE disable_service
      BY <2>7, <1>0 DEF disable_service
  <2>8. CASE RollbackFile
      BY <2>8, <1>0 DEF RollbackFile
  <2>9. CASE RollbackSync
      BY <2>9, <1>0 DEF RollbackSync
  <2>10. CASE RollbackUnconfirm
      BY <2>10, <1>0 DEF RollbackUnconfirm
  <2>11. CASE FinishRollback
      BY <2>11, <1>0 DEF FinishRollback, reboot, ProcessesGone
  <2> QED BY <1>4, <2>1, <2>2, <2>3, <2>4, <2>5, <2>6, <2>7, <2>8, <2>9,
             <2>10, <2>11 DEF OperatorScript
<1>5. CASE Service
  <2>1. CASE ServiceStart
      BY <2>1, <1>0 DEF ServiceStart
  <2>2. CASE ServiceWake
      BY <2>2, <1>0 DEF ServiceWake
  <2>3. CASE ServiceFile
      BY <2>3, <1>0 DEF ServiceFile
  <2>4. CASE ServiceSync
      BY <2>4, <1>0 DEF ServiceSync
  <2>5. CASE remove_service_registration
      BY <2>5, <1>0 DEF remove_service_registration
  <2>6. CASE ServiceReboot
      BY <2>6, <1>0 DEF ServiceReboot, reboot, ProcessesGone
  <2> QED BY <1>5, <2>1, <2>2, <2>3, <2>4, <2>5, <2>6 DEF Service
<1>6. CASE Boot
    BY <1>6, <1>0 DEF Boot
<1>7. CASE OperatorReboot
    BY <1>7, <1>0 DEF OperatorReboot, reboot, ProcessesGone
<1>8. CASE Faults
  <2>1. ASSUME NEW torn \in SUBSET InFlight, NEW lost \in SUBSET dirty,
               PowerCut(torn, lost)
        PROVE  ProcInv'
      BY <2>1, <1>0, CutLosesLittle DEF StateInv
  <2>2. CASE InstallCopyFails
      BY <2>2, <1>0 DEF InstallCopyFails
  <2>3. CASE ServiceCopyFails
      BY <2>3, <1>0 DEF ServiceCopyFails
  <2> QED BY <1>8, <2>1, <2>2, <2>3 DEF Faults
<1> HIDE DEF ProcInv
<1>9. CASE OperatorStart
    BY <1>1, <1>2, <1>3, <1>9 DEF OperatorStart
<1> QED BY <1>4, <1>5, <1>6, <1>7, <1>8, <1>9 DEF Next

\* The state file names a finished backup, never the one being made.
LEMMA StateStep ==
    ASSUME Careful, TInv, ProcInv, StateInv, Next PROVE StateInv'
<1> USE HdmiAssumption DEF HdmiAssumption
<1> USE DEF StateInv, disk, oper, serv, hist
<1>0. dirty' = {}
    BY CleanStep
<1>1. CASE UNCHANGED <<backup, state, installs>>
           /\ opc' \in {opc, "idle", "disable", "restore", "unconfirm", "stop"}
    BY <1>0, <1>1
<1>2. CASE \E fs \in SUBSET {"uInitrd", "dtb"}, force, rb \in BOOLEAN :
               StartInstall(fs \cup {"zImage"}, force, rb)
    BY <1>0, <1>2 DEF StartInstall, TInv, PointTypes, Absent, Torn
<1>3. CASE ClearConfirm
    BY <1>0, <1>3 DEF ClearConfirm
<1>4. CASE BackupFile
  <2>1. ASSUME NEW n \in 1..MaxInstalls, n # installs
        PROVE  backup'[n] = backup[n]
      BY <1>4, <2>1 DEF BackupFile, TInv, FileTypes
  <2> QED BY <1>0, <1>4, <2>1 DEF BackupFile
<1>5. CASE write_state
    BY <1>0, <1>5 DEF write_state, Torn
<1>6. CASE install_service
    BY <1>0, <1>6 DEF install_service
<1>7. CASE InstallCopyFails
  <2>1. ASSUME NEW n \in 1..MaxInstalls, n > installs
        PROVE  backup'[n] = backup[n]
      BY <1>7, <2>1 DEF InstallCopyFails, TInv, FileTypes, PointTypes
  <2> QED BY <1>0, <1>7, <2>1 DEF InstallCopyFails
<1>8. ASSUME NEW torn, NEW lost \in SUBSET dirty, PowerCut(torn, lost)
      PROVE  StateInv'
    BY <1>0, <1>8, CutLosesLittle
<1>9. \/ /\ UNCHANGED <<backup, state, installs>>
         /\ opc' \in {opc, "idle", "disable", "restore", "unconfirm", "stop"}
      \/ \E fs \in SUBSET {"uInitrd", "dtb"}, force, rb \in BOOLEAN :
               StartInstall(fs \cup {"zImage"}, force, rb)
      \/ ClearConfirm \/ BackupFile \/ write_state \/ install_service
      \/ InstallCopyFails
      \/ \E torn \in SUBSET InFlight, lost \in SUBSET dirty : PowerCut(torn, lost)
    BY DEF Next, OperatorStart, OperatorScript, Service, Faults, CopyFile,
           FinishInstall, TouchConfirm, disable_service, StartRollback,
           RollbackFile, RollbackSync, RollbackUnconfirm, FinishRollback,
           ServiceStart, ServiceWake, ServiceFile, ServiceSync, ServiceReboot,
           remove_service_registration, Boot, OperatorReboot,
           ServiceCopyFails, reboot, ProcessesGone
<1> HIDE DEF StateInv
<1> QED BY <1>1, <1>2, <1>3, <1>4, <1>5, <1>6, <1>7, <1>8, <1>9

-----------------------------------------------------------------------------
(* Steps that leave the files alone                                        *)

Quiet ==
    \/ \E fs \in SUBSET {"uInitrd", "dtb"}, force, rb \in BOOLEAN :
          StartInstall(fs \cup {"zImage"}, force, rb)
    \/ ClearConfirm \/ install_service \/ FinishInstall \/ disable_service
    \/ RollbackSync \/ RollbackUnconfirm \/ FinishRollback
    \/ ServiceStart \/ ServiceWake \/ ServiceSync \/ remove_service_registration
    \/ ServiceReboot \/ Boot \/ OperatorReboot

\* What such a step may do to the program points: an installation starts from
\* accepted files, a rollback that was not ahead before is not ahead after,
\* and a test loses its guard only where no untried file is left.
LEMMA QuietMoves ==
    ASSUME Careful, TInv, ProcInv, Quiet
    PROVE  /\ UNCHANGED files
           /\ opc' \in {"clear", "backup", "arm"} =>
                 \/ opc \in {"clear", "backup", "arm"}
                 \/ state = Absent
                 \/ confirmed /\ Settled
           /\ confirmed' => confirmed
           /\ opc' = "backup" => oi' = 1 /\ opc = "clear" /\ installs' = installs
           /\ opc' \in {"arm", "copy"} => opc \in {"arm", "copy"} /\ ofiles' = ofiles
           /\ RestoreAhead' => RestoreAhead
           /\ opc' = "restore" => opc = "restore" /\ oi' = oi
           /\ opc' \in {"unconfirm", "stop"} =>
                 opc \in {"unconfirm", "stop"} \/ (opc = "restore" /\ oi > 4)
           /\ spc' = "restore" => si' = 1 \/ (spc = "restore" /\ si' = si)
           /\ spc' \in {"unregister", "reboot"} =>
                 spc \in {"unregister", "reboot"} \/ (spc = "restore" /\ si > 4)
           /\ ~confirmed' /\ ~unit' =>
                 \/ ~confirmed /\ ~unit
                 \/ opc \in {"clear", "unconfirm", "stop"}
                 \/ spc = "unregister"
<1> USE OrderFacts
<1> USE DEF Careful, files, disk, oper, serv, hist, RestoreAhead, RollbackDecided,
            TInv, PointTypes
<1>1. CASE \E fs \in SUBSET {"uInitrd", "dtb"}, force, rb \in BOOLEAN :
          StartInstall(fs \cup {"zImage"}, force, rb)
    BY <1>1 DEF StartInstall, ProcInv
<1>2. CASE ClearConfirm
    BY <1>2 DEF ClearConfirm, ProcInv
<1>3. CASE install_service
    BY <1>3 DEF install_service, ProcInv
<1>4. CASE FinishInstall
    BY <1>4 DEF FinishInstall, ProcInv, ProcessesGone
<1>5. CASE disable_service
    BY <1>5 DEF disable_service, ProcInv
<1>6. CASE RollbackSync
    BY <1>6 DEF RollbackSync, ProcInv
<1>7. CASE RollbackUnconfirm
    BY <1>7 DEF RollbackUnconfirm, ProcInv
<1>8. CASE FinishRollback
    BY <1>8 DEF FinishRollback, ProcInv, reboot, ProcessesGone
<1>9. CASE ServiceStart
    BY <1>9 DEF ServiceStart, ProcInv
<1>10. CASE ServiceWake
    BY <1>10 DEF ServiceWake, ProcInv
<1>11. CASE ServiceSync
    BY <1>11 DEF ServiceSync, ProcInv
<1>12. CASE remove_service_registration
    BY <1>12 DEF remove_service_registration, ProcInv
<1>13. CASE ServiceReboot
    BY <1>13 DEF ServiceReboot, ProcInv, reboot, ProcessesGone
<1>14. CASE Boot
    BY <1>14 DEF Boot, ProcInv
<1>15. CASE OperatorReboot
    BY <1>15 DEF OperatorReboot, ProcInv, reboot, ProcessesGone
<1> QED BY <1>1, <1>2, <1>3, <1>4, <1>5, <1>6, <1>7, <1>8, <1>9, <1>10,
           <1>11, <1>12, <1>13, <1>14, <1>15 DEF Quiet

\* So they keep what the files hold.
LEMMA QuietStep ==
    ASSUME Careful, TInv, ProcInv, StateInv, FilesInv, Quiet PROVE FilesInv'
<1> USE QuietMoves, OrderFacts
<1> USE DEF FilesInv, files
<1>0. HasState' <=> HasState
    BY DEF HasState
<1>1. AcceptInv'
    BY <1>0 DEF AcceptInv
<1>2. BootInv'
  <2>1. confirmed /\ Settled => boot = good
      BY DEF BootInv, Settled, TInv, FileTypes
  <2> QED BY <1>0, <2>1 DEF BootInv
<1>3. BackupInv'
  <2>1. opc' = "backup" =>
          /\ FromGood(installs)'
          /\ \A j \in 1..4 : ~(j < oi')
      BY DEF StateInv, FromGood
  <2>2. opc' \in {"arm", "copy"} => \A f \in Files :
          good'[f] # Absent /\ (f = "dtb" => "dtb" \in ofiles')
             => backup'[state'][f] = good'[f]
      BY DEF BackupInv
  <2>3. RestoreAhead' => FromGood(state)'
      BY DEF BackupInv, FromGood
  <2> QED BY <2>1, <2>2, <2>3 DEF BackupInv
<1>4. Recoverable'
    BY <1>0 DEF Recoverable
<1>5. ASSUME NEW f \in Files PROVE Untried(f)' <=> Untried(f)
    BY DEF Untried
<1>6. UndoneInv'
  <2>1. opc' = "restore" => \A j \in 1..4 : j < oi' => ~Untried(Order[j])'
      BY <1>5 DEF UndoneInv
  <2>2. opc' \in {"unconfirm", "stop"} => \A f \in Files : ~Untried(f)'
    <3>1. opc = "restore" /\ oi > 4 => \A j \in 1..4 : ~Untried(Order[j])
        BY DEF UndoneInv, TInv, PointTypes
    <3>2. opc = "restore" /\ oi > 4 => \A f \in Files : ~Untried(f)
        BY <3>1
    <3> QED BY <1>5, <3>2 DEF UndoneInv
  <2>3. spc' = "restore" => \A j \in 1..4 : j < si' => ~Untried(Order[j])'
      BY <1>5 DEF UndoneInv
  <2>4. spc' \in {"unregister", "reboot"} => \A f \in Files : ~Untried(f)'
    <3>1. spc = "restore" /\ si > 4 => \A j \in 1..4 : ~Untried(Order[j])
        BY DEF UndoneInv, TInv, PointTypes
    <3>2. spc = "restore" /\ si > 4 => \A f \in Files : ~Untried(f)
        BY <3>1
    <3> QED BY <1>5, <3>2 DEF UndoneInv
  <2> QED BY <2>1, <2>2, <2>3, <2>4 DEF UndoneInv
<1>7. TestArmed'
  <2>1. UnderTest' <=> \E f \in Files : Untried(f)
      BY DEF UnderTest, Untried
  <2>2. UnderTest <=> \E f \in Files : Untried(f)
      BY DEF UnderTest, Untried
  <2>3. unit => HasState
      BY DEF ProcInv
  <2>4. opc = "clear" => ~UnderTest
      BY DEF BootInv, AcceptInv, UnderTest
  <2>5. opc \in {"unconfirm", "stop"} \/ spc = "unregister" => ~UnderTest
      BY <2>2 DEF UndoneInv
  <2>6. unit' => HasState'
      BY ProcStep DEF ProcInv, Quiet, Next, OperatorStart, OperatorScript, Service
  <2> QED BY <2>1, <2>2, <2>3, <2>4, <2>5, <2>6 DEF TestArmed
<1> QED BY <1>1, <1>2, <1>3, <1>4, <1>6, <1>7

-----------------------------------------------------------------------------
(* Steps that write files                                                  *)

\* --confirm: what is in boot becomes the accepted set.
LEMMA ConfirmStep ==
    ASSUME Careful, TInv, ProcInv, StateInv, FilesInv, TouchConfirm
    PROVE  FilesInv'
<1> USE DEF FilesInv
<1>0. /\ UNCHANGED <<boot, backup, state, unit, spc, si>>
      /\ good' = boot /\ accepted' = accepted \cup {boot[f] : f \in Files}
      /\ confirmed' = TRUE /\ opc' = "disable" /\ ~RollbackDecided
      /\ (HasState' <=> HasState)
    BY DEF TouchConfirm, Careful, HasState, serv
<1>1. AcceptInv'
    BY <1>0 DEF AcceptInv
<1>2. BootInv'
    BY <1>0 DEF BootInv
<1>3. BackupInv'
    BY <1>0 DEF BackupInv, RestoreAhead, RollbackDecided
<1>4. Recoverable'
    BY <1>0 DEF Recoverable
<1>5. UndoneInv'
    BY <1>0 DEF UndoneInv, RollbackDecided
<1>6. TestArmed'
    BY <1>0 DEF TestArmed
<1> QED BY <1>1, <1>2, <1>3, <1>4, <1>5, <1>6

\* The backup is made of accepted files, one by one, in a directory that the
\* state file does not name yet; a copy that fails ends the installation.
LEMMA BackupStep ==
    ASSUME Careful, TInv, ProcInv, StateInv, FilesInv, opc = "backup",
           BackupFile \/ InstallCopyFails
    PROVE  FilesInv'
<1> USE OrderFacts
<1> USE DEF FilesInv
<1>0. /\ UNCHANGED <<boot, state, unit, confirmed, spc, si, good, accepted, installs>>
      /\ opc' \in {"backup", "idle"} /\ ~unit /\ spc = "off"
      /\ (HasState' <=> HasState)
    BY DEF BackupFile, InstallCopyFails, HasState, serv, hist, ProcInv
<1>1. ASSUME HasState PROVE backup'[state] = backup[state]
  <2>1. state # installs
      BY DEF StateInv
  <2> QED BY <1>1, <2>1 DEF BackupFile, InstallCopyFails, TInv, FileTypes, HasState
<1>2. AcceptInv'
    BY <1>0, <1>1 DEF AcceptInv
<1>3. BootInv'
    BY <1>0, <1>1 DEF BootInv
<1>4. BackupInv'
  <2>1. CASE opc' = "idle"
      BY <1>0, <2>1 DEF BackupInv, RestoreAhead, RollbackDecided
  <2>2. CASE BackupFile
    <3>1. boot = good /\ installs \in 1..MaxInstalls
        BY DEF BootInv, StateInv
    <3>2. /\ oi \in 1..4 /\ oi' = oi + 1 /\ ofiles' = ofiles /\ opc' = "backup"
          /\ backup' = IF BacksUp(Order[oi])
                       THEN [backup EXCEPT ![installs][Order[oi]] = boot[Order[oi]]]
                       ELSE backup
        BY <2>2 DEF BackupFile, TInv, PointTypes
    <3>3. \A f \in Files : backup'[installs][f] =
             IF f = Order[oi] /\ BacksUp(f) THEN good[f] ELSE backup[installs][f]
        BY <3>1, <3>2 DEF TInv, FileTypes
    <3>4. FromGood(installs)'
        BY <1>0, <3>3 DEF BackupInv, FromGood
    <3>5. ASSUME NEW j \in 1..4, j < oi', BacksUp(Order[j])'
          PROVE  backup'[installs'][Order[j]] = good'[Order[j]]
      <4>1. BacksUp(Order[j])
          BY <1>0, <3>2, <3>5 DEF BacksUp
      <4>2. j < oi \/ j = oi
          BY <3>2, <3>5
      <4>3. Order[j] \in Files
          OBVIOUS
      <4>4. j < oi => backup[installs][Order[j]] = good[Order[j]]
          BY <4>1 DEF BackupInv
      <4> QED BY <1>0, <3>3, <4>1, <4>2, <4>3, <4>4
    <3> QED BY <1>0, <3>2, <3>4, <3>5 DEF BackupInv, RestoreAhead, RollbackDecided
  <2> QED BY <2>1, <2>2 DEF InstallCopyFails
<1>5. Recoverable'
    BY <1>0, <1>1 DEF Recoverable
<1>6. UndoneInv'
    BY <1>0 DEF UndoneInv
<1>7. TestArmed'
    BY <1>0 DEF TestArmed, UnderTest
<1> QED BY <1>2, <1>3, <1>4, <1>5, <1>6, <1>7

\* The state file names the finished backup.
LEMMA NameStep ==
    ASSUME Careful, TInv, ProcInv, StateInv, FilesInv, write_state
    PROVE  FilesInv'
<1> USE OrderFacts
<1> USE DEF FilesInv
<1>0. /\ UNCHANGED <<boot, backup, unit, confirmed, spc, si, good, accepted,
                     installs, ofiles>>
      /\ opc = "backup" /\ oi > 4 /\ state' = installs /\ opc' = "arm"
      /\ spc = "off" /\ ~unit /\ installs \in 1..MaxInstalls
      /\ boot = good /\ FromGood(installs)
    BY DEF write_state, serv, hist, ProcInv, StateInv, BootInv, BackupInv
<1>1. \A f \in Files : backup[installs][f] \in {Absent, good[f]}
    BY <1>0 DEF FromGood
<1>2. AcceptInv'
    BY <1>0, <1>1 DEF AcceptInv
<1>3. BootInv'
    BY <1>0, <1>1 DEF BootInv, Absent
<1>4. BackupInv'
  <2>1. ASSUME NEW f \in Files, good[f] # Absent, f = "dtb" => "dtb" \in ofiles
        PROVE  backup[installs][f] = good[f]
    <3>1. PICK j \in 1..4 : Order[j] = f
        OBVIOUS
    <3>2. BacksUp(f)
        BY <1>0, <2>1 DEF BacksUp
    <3>3. j < oi
        BY <1>0, <3>1 DEF TInv, PointTypes
    <3> QED BY <1>0, <3>1, <3>2, <3>3 DEF BackupInv
  <2>2. FromGood(state)'
      BY <1>0, <1>1 DEF FromGood
  <2> QED BY <1>0, <2>1, <2>2 DEF BackupInv
<1>5. Recoverable'
    BY <1>0 DEF Recoverable
<1>6. UndoneInv'
    BY <1>0 DEF UndoneInv
<1>7. TestArmed'
    BY <1>0 DEF TestArmed, UnderTest, AcceptInv
<1> QED BY <1>2, <1>3, <1>4, <1>5, <1>6, <1>7

\* A script writes into boot only what its backup can put right again.
LEMMA InFlightCovered ==
    ASSUME TInv, ProcInv, StateInv, FilesInv
    PROVE  /\ opc \in {"copy", "restore"} \/ spc = "restore" =>
                 HasState /\ FromGood(state)
           /\ \A f \in InFlight :
                 /\ f \in Files
                 /\ HasState /\ FromGood(state)
                 /\ opc \in {"copy", "restore"} \/ spc = "restore"
                 /\ good[f] # Absent => backup[state][f] = good[f]
                 /\ confirmed => good[f] # Absent
<1> USE OrderFacts
<1>1. opc \in {"copy", "restore"} \/ spc = "restore" =>
        HasState /\ FromGood(state)
    BY DEF FilesInv, ProcInv, BackupInv, RestoreAhead, RollbackDecided
<1>2. ASSUME NEW f \in InFlight
      PROVE  /\ f \in Files
             /\ opc \in {"copy", "restore"} \/ spc = "restore"
             /\ \/ opc = "copy" /\ f \in ofiles
                \/ backup[state][f] # Absent
  <2>1. \/ opc = "copy" /\ oi <= 4 /\ f = Order[oi] /\ f \in ofiles
        \/ opc = "restore" /\ oi <= 4 /\ f = Order[oi] /\ backup[state][f] # Absent
        \/ spc = "restore" /\ si <= 4 /\ f = Order[si] /\ backup[sdir][f] # Absent
      BY DEF InFlight
  <2>2. spc = "restore" => sdir = state
      BY DEF ProcInv, RollbackDecided
  <2>3. f \in Files
      BY <2>1 DEF TInv, PointTypes
  <2> QED BY <2>1, <2>2, <2>3
<1>3. ASSUME NEW f \in InFlight
      PROVE  /\ good[f] # Absent => backup[state][f] = good[f]
             /\ confirmed => good[f] # Absent
  <2>1. CASE opc = "copy" /\ f \in ofiles
      BY <1>2, <2>1 DEF FilesInv, BackupInv, ProcInv
  <2>2. CASE backup[state][f] # Absent
      BY <1>1, <1>2, <2>2 DEF FromGood
  <2> QED BY <1>2, <2>1, <2>2
<1> QED BY <1>1, <1>2, <1>3

\* Files that were being written are left half-written, and the script ends.
LEMMA DamageStep ==
    ASSUME TInv, ProcInv, StateInv, FilesInv, NEW torn \in SUBSET InFlight,
           boot' = [f \in Files |-> IF f \in torn THEN Torn ELSE boot[f]],
           UNCHANGED <<backup, state, confirmed, unit, good, accepted>>,
           opc' = "idle" \/ (UNCHANGED <<opc, oi, ofiles>> /\ spc = "restore"),
           spc' = "off" \/ (UNCHANGED <<spc, si>>)
    PROVE  FilesInv'
<1> USE DEF FilesInv
<1>0. /\ HasState' <=> HasState
      /\ opc' \in {"clear", "backup", "arm"} => FALSE
      /\ RestoreAhead' => RestoreAhead
    BY DEF HasState, ProcInv, RestoreAhead, RollbackDecided
<1>1. ASSUME NEW f \in Files
      PROVE  boot'[f] = boot[f] \/ (boot'[f] = Torn /\ f \in InFlight)
    OBVIOUS
<1>2. ASSUME NEW f \in Files PROVE Untried(f)' => Untried(f)
    BY <1>1 DEF Untried, Torn
<1>3. AcceptInv'
    BY <1>0 DEF AcceptInv
<1>4. BootInv'
  <2>1. state = Absent => boot' = good
    <3>1. state = Absent => ~HasState
        BY HdmiAssumption DEF HasState, Absent, HdmiAssumption
    <3>2. state = Absent => \A f \in Files : boot'[f] = boot[f]
        BY <1>1, <3>1, InFlightCovered
    <3> QED BY <3>2 DEF BootInv, TInv, FileTypes
  <2>2. confirmed => \A f \in Files : good[f] = Absent => boot'[f] = Absent
      BY <1>1, InFlightCovered DEF BootInv
  <2>3. ASSUME HasState, NEW f \in Files, backup[state][f] # Absent,
               good[f] = Absent
        PROVE  boot'[f] = Absent
      BY <1>1, <2>3, InFlightCovered DEF BootInv, FromGood
  <2> QED BY <1>0, <2>1, <2>2, <2>3 DEF BootInv
<1>5. BackupInv'
    BY <1>0 DEF BackupInv, FromGood
<1>6. Recoverable'
    BY <1>0, <1>1, InFlightCovered DEF Recoverable
<1>7. UndoneInv'
    BY <1>2, OrderFacts DEF UndoneInv
<1>8. TestArmed'
  <2>1. UnderTest' => UnderTest
      BY <1>2 DEF UnderTest, Untried
  <2> QED BY <1>0, <2>1 DEF TestArmed
<1> QED BY <1>3, <1>4, <1>5, <1>6, <1>7, <1>8

\* Only a test that is armed puts new files into boot.
LEMMA CopyStep ==
    ASSUME Careful, TInv, ProcInv, StateInv, FilesInv, CopyFile
    PROVE  FilesInv'
<1> USE DEF FilesInv
<1>0. /\ UNCHANGED <<backup, state, confirmed, unit, good, accepted, ofiles,
                     spc, si>>
      /\ opc = "copy" /\ opc' = opc /\ spc = "off" /\ unit /\ ~confirmed
      /\ HasState /\ HasState' /\ FromGood(state)
    BY InFlightCovered DEF CopyFile, ProcInv, HasState, serv, hist
<1>1. ASSUME NEW f \in Files PROVE boot'[f] = boot[f] \/ f \in InFlight
    BY OrderFacts DEF CopyFile, InFlight, TInv, FileTypes, PointTypes
<1>2. AcceptInv'
    BY <1>0 DEF AcceptInv
<1>3. BootInv'
  <2>1. state # Absent
      BY <1>0, HdmiAssumption DEF HasState, Absent, HdmiAssumption
  <2>2. \A f \in Files : backup[state][f] # Absent => good[f] # Absent
      BY <1>0 DEF FromGood
  <2> QED BY <1>0, <2>1, <2>2 DEF BootInv
<1>4. BackupInv'
    BY <1>0 DEF BackupInv, FromGood
<1>5. Recoverable'
    BY <1>0, <1>1, InFlightCovered DEF Recoverable
<1>6. UndoneInv'
    BY <1>0 DEF UndoneInv
<1>7. TestArmed'
    BY <1>0 DEF TestArmed
<1> QED BY <1>2, <1>3, <1>4, <1>5, <1>6, <1>7

\* --rollback begins: the operator accepts what the backup holds.
LEMMA BeginRollbackStep ==
    ASSUME Careful, TInv, ProcInv, StateInv, FilesInv, NEW rb, StartRollback(rb)
    PROVE  FilesInv'
<1> USE DEF FilesInv
<1>0. /\ UNCHANGED <<boot, backup, state, confirmed, unit, accepted, spc, si>>
      /\ opc' = "restore" /\ oi' = 1 /\ HasState /\ HasState'
      /\ good' = [f \in Files |-> IF backup[state][f] # Absent
                                  THEN backup[state][f] ELSE good[f]]
    BY DEF StartRollback, HasState, serv, disk
<1>1. ASSUME NEW f \in Files
      PROVE  good'[f] = IF backup[state][f] # Absent THEN backup[state][f] ELSE good[f]
    BY <1>0
<1>2. AcceptInv'
    BY <1>0, <1>1 DEF AcceptInv
<1>3. BootInv'
  <2>1. state # Absent
      BY <1>0, HdmiAssumption DEF HasState, Absent, HdmiAssumption
  <2> QED BY <1>0, <1>1, <2>1 DEF BootInv
<1>4. BackupInv'
    BY <1>0, <1>1 DEF BackupInv, FromGood
<1>5. Recoverable'
    BY <1>0, <1>1 DEF Recoverable
<1>6. UndoneInv'
  <2>1. RollbackDecided => \A f \in Files : good'[f] = good[f]
      BY <1>1 DEF BackupInv, RestoreAhead, FromGood
  <2>2. RollbackDecided => \A f \in Files : Untried(f)' <=> Untried(f)
      BY <1>0, <2>1 DEF Untried
  <2> QED BY <1>0, <2>2, OrderFacts DEF UndoneInv, RollbackDecided
<1>7. TestArmed'
  <2>1. ASSUME NEW f \in Files, Untried(f)' PROVE Untried(f)
      BY <1>0, <1>1, <2>1 DEF Untried, BootInv, Absent
  <2>2. UnderTest' => UnderTest
      BY <2>1 DEF UnderTest, Untried
  <2> QED BY <1>0, <2>2 DEF TestArmed
<1> QED BY <1>2, <1>3, <1>4, <1>5, <1>6, <1>7

\* Either rollback puts one file back: the accepted version of it, or none if
\* the backup has none, in which case boot never had another.
LEMMA RestoreStep ==
    ASSUME TInv, ProcInv, StateInv, FilesInv, RollbackFile \/ ServiceFile
    PROVE  FilesInv'
<1> USE OrderFacts
<1> USE DEF FilesInv
<1>0. /\ UNCHANGED <<backup, state, confirmed, unit, good, accepted, ofiles,
                     opc, spc>>
      /\ opc = "restore" \/ spc = "restore"
      /\ HasState /\ HasState' /\ FromGood(state)
      /\ opc \notin {"clear", "backup", "arm", "copy"}
  <2>1. /\ UNCHANGED <<backup, state, confirmed, unit, good, accepted, ofiles,
                       opc, spc>>
        /\ opc = "restore" \/ spc = "restore"
      BY DEF RollbackFile, ServiceFile, serv, oper, hist
  <2> QED BY <2>1, InFlightCovered DEF HasState, ProcInv
<1>1. PICK k \in 1..4 :
        /\ boot' = IF backup[state][Order[k]] # Absent
                   THEN [boot EXCEPT ![Order[k]] = backup[state][Order[k]]]
                   ELSE boot
        /\ \/ opc = "restore" /\ k = oi /\ oi' = oi + 1 /\ si' = si
           \/ spc = "restore" /\ k = si /\ si' = si + 1 /\ oi' = oi
  <2>1. CASE RollbackFile
      BY <2>1 DEF RollbackFile, Restored, serv, TInv, PointTypes
  <2>2. CASE ServiceFile
    <3>1. sdir = state
        BY <2>2 DEF ServiceFile, ProcInv, RollbackDecided
    <3> QED BY <2>2, <3>1 DEF ServiceFile, Restored, oper, TInv, PointTypes
  <2> QED BY <2>1, <2>2
<1>2. ASSUME NEW f \in Files
      PROVE  boot'[f] = IF f = Order[k] /\ backup[state][f] # Absent
                        THEN good[f] ELSE boot[f]
    BY <1>0, <1>1 DEF TInv, FileTypes, FromGood
<1>3. ASSUME NEW f \in Files PROVE Untried(f)' => Untried(f)
    BY <1>0, <1>2 DEF Untried, AcceptInv
<1>4. ~Untried(Order[k])'
    BY <1>0, <1>2 DEF Untried, AcceptInv, Recoverable
<1>5. AcceptInv'
    BY <1>0 DEF AcceptInv
<1>6. BootInv'
  <2>1. state # Absent
      BY <1>0, HdmiAssumption DEF HasState, Absent, HdmiAssumption
  <2>2. confirmed => \A f \in Files : good[f] = Absent => boot'[f] = Absent
      BY <1>2 DEF BootInv
  <2>3. \A f \in Files : backup[state][f] # Absent => good[f] # Absent
      BY <1>0 DEF FromGood
  <2> QED BY <1>0, <2>1, <2>2, <2>3 DEF BootInv
<1>7. BackupInv'
    BY <1>0 DEF BackupInv, FromGood
<1>8. Recoverable'
    BY <1>0, <1>2 DEF Recoverable
<1>9. UndoneInv'
  <2>1. opc = "restore" => \A j \in 1..4 : j < oi' => ~Untried(Order[j])'
    <3>1. ASSUME opc = "restore", NEW j \in 1..4, j < oi' PROVE j < oi \/ j = k
        BY <1>1, <3>1 DEF TInv, PointTypes
    <3> QED BY <1>3, <1>4, <3>1 DEF UndoneInv
  <2>2. spc = "restore" => \A j \in 1..4 : j < si' => ~Untried(Order[j])'
    <3>1. ASSUME spc = "restore", NEW j \in 1..4, j < si' PROVE j < si \/ j = k
        BY <1>1, <3>1 DEF TInv, PointTypes
    <3> QED BY <1>3, <1>4, <3>1 DEF UndoneInv
  <2> QED BY <1>0, <1>3, <2>1, <2>2 DEF UndoneInv
<1>10. TestArmed'
  <2>1. UnderTest' => UnderTest
      BY <1>3 DEF UnderTest, Untried
  <2> QED BY <1>0, <2>1 DEF TestArmed
<1> QED BY <1>5, <1>6, <1>7, <1>8, <1>9, <1>10

\* Power cuts and failed copies.
LEMMA FaultStep ==
    ASSUME Careful, TInv, ProcInv, StateInv, FilesInv, Faults PROVE FilesInv'
<1>1. ASSUME NEW torn \in SUBSET InFlight, NEW lost \in SUBSET dirty,
             PowerCut(torn, lost)
      PROVE  FilesInv'
  <2>1. /\ UNCHANGED <<backup, state, confirmed, unit, good, accepted>>
        /\ boot' = [f \in Files |-> IF f \in torn THEN Torn ELSE boot[f]]
        /\ opc' = "idle" /\ spc' = "off"
      BY <1>1, CutLosesLittle DEF StateInv
  <2> QED BY <2>1, DamageStep
<1>2. CASE InstallCopyFails /\ opc = "backup"
    BY <1>2, BackupStep
<1>3. CASE InstallCopyFails /\ opc # "backup"
  <2>1. /\ UNCHANGED <<backup, state, confirmed, unit, good, accepted, spc, si>>
        /\ opc' = "idle" /\ Order[oi] \in InFlight
        /\ boot' = [boot EXCEPT ![Order[oi]] = Torn]
      BY <1>3 DEF InstallCopyFails, InFlight, serv, hist
  <2>2. boot' = [f \in Files |-> IF f \in {Order[oi]} THEN Torn ELSE boot[f]]
      BY <2>1 DEF TInv, FileTypes
  <2> QED BY <2>1, <2>2, DamageStep
<1>4. CASE ServiceCopyFails
  <2>1. /\ UNCHANGED <<backup, state, confirmed, unit, good, accepted, opc, oi,
                       ofiles>>
        /\ spc = "restore" /\ spc' = "off" /\ Order[si] \in InFlight
        /\ boot' = [boot EXCEPT ![Order[si]] = Torn]
      BY <1>4 DEF ServiceCopyFails, InFlight, oper, hist
  <2>2. boot' = [f \in Files |-> IF f \in {Order[si]} THEN Torn ELSE boot[f]]
      BY <2>1 DEF TInv, FileTypes
  <2> QED BY <2>1, <2>2, DamageStep
<1> QED BY <1>1, <1>2, <1>3, <1>4 DEF Faults

\* With a careful operator CInv is inductive, relative to the types.
LEMMA CarefulStep ==
    ASSUME Careful PROVE TInv /\ CInv /\ [Next]_vars => CInv'
<1> SUFFICES ASSUME TInv, CInv, [Next]_vars PROVE CInv'
    OBVIOUS
<1> USE DEF CInv
<1>1. CASE Next
  <2>1. ProcInv' /\ StateInv'
      BY <1>1, ProcStep, StateStep
  <2>2. \/ Quiet \/ TouchConfirm
        \/ \E rb \in BOOLEAN : StartRollback(rb)
        \/ (opc = "backup" /\ BackupFile) \/ write_state \/ CopyFile
        \/ RollbackFile \/ ServiceFile \/ Faults
      BY <1>1 DEF Next, OperatorStart, OperatorScript, Service, Quiet, BackupFile
  <2>3. FilesInv'
      BY <2>2, QuietStep, ConfirmStep, BeginRollbackStep, BackupStep, NameStep,
         CopyStep, RestoreStep, FaultStep
  <2> QED BY <2>1, <2>3
<1>2. CASE UNCHANGED vars
  <2> USE <1>2 DEF vars, disk, oper, serv, hist
  <2>1. ProcInv' /\ StateInv'
      BY DEF ProcInv, StateInv, RollbackDecided, HasState
  <2>2. AcceptInv' /\ BootInv' /\ Recoverable'
      BY DEF FilesInv, AcceptInv, BootInv, Recoverable, HasState
  <2>3. BackupInv'
      BY DEF FilesInv, BackupInv, FromGood, BacksUp, RestoreAhead, RollbackDecided
  <2>4. UndoneInv' /\ TestArmed'
      BY DEF FilesInv, UndoneInv, Untried, TestArmed, UnderTest, HasState
  <2> QED BY <2>1, <2>2, <2>3, <2>4 DEF FilesInv
<1> QED BY <1>1, <1>2

\* It holds when the board is new.
LEMMA CarefulInit == Init => CInv
<1> SUFFICES ASSUME Init PROVE CInv
    OBVIOUS
<1> USE HdmiAssumption DEF HdmiAssumption
<1>1. ~HasState /\ ~unit /\ ~confirmed /\ opc = "idle" /\ spc = "off"
    BY DEF Init, HasState, Absent
<1>2. ProcInv
    BY <1>1 DEF Init, ProcInv, RollbackDecided
<1>3. StateInv
    BY <1>1 DEF Init, StateInv, Absent, Torn
<1>4. AcceptInv
    BY <1>1 DEF Init, AcceptInv
<1>5. BootInv /\ Recoverable /\ UndoneInv
    BY <1>1 DEF Init, BootInv, Recoverable, UndoneInv
<1>6. BackupInv
    BY <1>1 DEF Init, BackupInv, RestoreAhead, RollbackDecided
<1>7. TestArmed
    BY <1>4 DEF Init, TestArmed, UnderTest, AcceptInv
<1> QED BY <1>2, <1>3, <1>4, <1>5, <1>6, <1>7 DEF CInv, FilesInv

-----------------------------------------------------------------------------
(* What a careful operator can rely on                                     *)

\* A test is never left unguarded: as long as untried files can be booted and
\* no confirmation stands, the rollback service is enabled and has its state
\* file, however many installations, power cuts and failed copies there were.
THEOREM TestGuarded == Careful => (Spec => []TestArmed)
<1> SUFFICES ASSUME Careful PROVE Spec => []TestArmed
    OBVIOUS
<1>1. CInv => TestArmed
    BY DEF CInv, FilesInv
<1> QED BY <1>1, TypeInit, TypeStep, CarefulInit, CarefulStep, PTL DEF Spec

\* And the rollback restores the accepted set: the backup that the state file
\* names holds every accepted file that is now different or half-written.
THEOREM BackupSound == Careful => (Spec => []BackupHoldsAccepted)
<1> SUFFICES ASSUME Careful PROVE Spec => []BackupHoldsAccepted
    OBVIOUS
<1>1. CInv => BackupHoldsAccepted
    BY DEF CInv, FilesInv, Recoverable, BackupHoldsAccepted
<1> QED BY <1>1, TypeInit, TypeStep, CarefulInit, CarefulStep, PTL DEF Spec

\* A confirmed test is not undone behind the operator's back: the service
\* never writes a boot file while the confirmation stands.
THEOREM ConfirmationStands == Careful => (Spec => ConfirmedKept)
<1> SUFFICES ASSUME Careful PROVE Spec => ConfirmedKept
    OBVIOUS
<1>1. ASSUME TInv, CInv, [Next]_vars, confirmed, confirmed', boot' # boot
      PROVE  opc = "restore"
  <2>1. opc # "copy" /\ spc # "restore"
      BY <1>1 DEF CInv, ProcInv, RollbackDecided
  <2>2. CASE Faults
    <3>1. ASSUME NEW torn \in SUBSET InFlight, NEW lost \in SUBSET dirty,
                 PowerCut(torn, lost), opc # "restore"
          PROVE  FALSE
      <4>1. InFlight = {}
          BY <2>1, <3>1 DEF InFlight
      <4>2. boot' = [f \in Files |-> boot[f]]
          BY <1>1, <3>1, <4>1, CutLosesLittle DEF CInv, StateInv
      <4> QED BY <1>1, <4>2 DEF TInv, FileTypes
    <3> QED BY <1>1, <2>1, <2>2, <3>1 DEF Faults, InstallCopyFails, ServiceCopyFails
  <2>3. CASE RollbackFile
      BY <2>3 DEF RollbackFile
  <2>4. CASE CopyFile \/ ServiceFile
      BY <2>1, <2>4 DEF CopyFile, ServiceFile
  <2>5. \/ UNCHANGED boot \/ Faults \/ RollbackFile \/ CopyFile \/ ServiceFile
      BY <1>1 DEF Next, OperatorStart, OperatorScript, Service, StartInstall,
             TouchConfirm, StartRollback, ClearConfirm, BackupFile, write_state,
             install_service, FinishInstall, disable_service, RollbackSync,
             RollbackUnconfirm, FinishRollback, ServiceStart, ServiceWake,
             ServiceSync, remove_service_registration, ServiceReboot, Boot,
             OperatorReboot, vars, disk
  <2> QED BY <1>1, <2>2, <2>3, <2>4, <2>5
<1>2. TInv /\ CInv /\ [Next]_vars =>
        [confirmed /\ confirmed' /\ boot' # boot => opc = "restore"]_vars
    BY <1>1
<1> QED BY <1>2, TypeInit, TypeStep, CarefulInit, CarefulStep, PTL
        DEF Spec, ConfirmedKept
=============================================================================
