-------------------------- MODULE Firmware_proofs --------------------------
(***************************************************************************)
(* Proofs about Firmware for any keymaps, any texts and any contents of    *)
(* the stack: types, reloads, and the identity after a loss of power.      *)
(***************************************************************************)
EXTENDS Firmware, TLAPS

(***************************************************************************)
(* Type correctness                                                        *)
(***************************************************************************)
Identity == [vid : Uint16, pid : Uint16, name : Characters]

(* prk_init_USB cuts what strtol reads to 16 bits.                         *)
LEMMA CutFits == \A n \in Nat : ToUint16(n) \in Uint16
<1> SUFFICES ASSUME NEW n \in Nat PROVE ToUint16(n) \in Uint16
  OBVIOUS
<1> DEFINE top == 65535
<1>1. ToUint16(n) \in Nat /\ ToUint16(n) <= top /\ top \in Nat
  BY DEF ToUint16
<1>2. Uint16 = 0 .. top
  BY DEF Uint16
<1> HIDE DEF top
<1> QED
  BY <1>1, <1>2

LEMMA IdentifyTyped ==
  ASSUME NEW fields \in Seq(Field)
  PROVE  Identify(fields) \in Identity
<1>1. /\ DefaultVid \in Uint16 /\ DefaultPid \in Uint16
      /\ DefaultName \in Characters
  BY ConfAssumption
<1>2. ASSUME NEW i \in Nat, 1 <= i, i <= Len(fields)
      PROVE  fields[i].number \in Nat /\ fields[i].text \in Characters
  <2>1. fields[i] \in Field
    <3>1. i \in 1 .. Len(fields)
      BY <1>2
    <3> QED
      BY <3>1
  <2> QED
    BY <2>1 DEF Field
<1>3. \A n \in Nat : ToUint16(n) \in Uint16
  BY CutFits
<1>4. Identify(fields).vid \in Uint16
  BY <1>1, <1>2, <1>3 DEF Identify
<1>5. Identify(fields).pid \in Uint16
  BY <1>1, <1>2, <1>3 DEF Identify
<1>6. Identify(fields).name \in Characters
  BY <1>1, <1>2 DEF Identify
<1> QED
  BY <1>4, <1>5, <1>6 DEF Identify, Identity

LEMMA ReadingsTyped ==
  ASSUME ConfTypeOK,
         NEW fields \in Readings
  PROVE  fields \in Seq(Field)
<1>1. Confs \subseteq Seq(Field) /\ Junk \subseteq Seq(Field)
  BY ConfAssumption
<1>2. CASE \E conf \in Confs : sector = Programmed(conf)
  BY <1>1, <1>2 DEF Readings, Programmed
<1>3. CASE sector = Erased
  <2>1. [number |-> 0, text |-> BlankName] \in Field
    BY ConfAssumption DEF Field
  <2>2. Blank \in Seq(Field)
    BY <2>1 DEF Blank
  <2>3. PICK rest \in Junk : fields = Blank \o rest
    BY <1>3 DEF Readings, Erased
  <2> QED
    BY <1>1, <2>2, <2>3
<1>4. CASE sector = Torn
  BY <1>1, <1>4 DEF Readings, Torn
<1> QED
  BY <1>2, <1>3, <1>4 DEF ConfTypeOK

(* The identity and the flash.                                             *)
LEMMA ConfInitTyped == ConfInit => ConfTypeOK
<1> SUFFICES ASSUME ConfInit PROVE ConfTypeOK
  OBVIOUS
<1>1. DefaultVid \in Uint16 /\ DefaultPid \in Uint16 /\ DefaultName \in Characters
  BY ConfAssumption
<1>2. Nobody \in Identity
  BY <1>1 DEF Nobody, Identity
<1> QED
  BY <1>2 DEF ConfInit, ConfTypeOK, NoJob, Unsettled, Identity

LEMMA ConfKept ==
  ASSUME ConfTypeOK, UNCHANGED confVars
  PROVE  ConfTypeOK'
  BY DEF ConfTypeOK, confVars, NoJob, Programmed, Erased, Torn

LEMMA LoadTyped ==
  ASSUME ConfTypeOK, LoadPrkConf
  PROVE  ConfTypeOK'
<1>1. PICK fields \in Readings : device' = Identify(fields)
  BY DEF LoadPrkConf
<1>2. device' \in Identity
  BY <1>1, ReadingsTyped, IdentifyTyped
<1> QED
  BY <1>2 DEF LoadPrkConf, ConfTypeOK, Identity, NoJob, Programmed, Erased, Torn

LEMMA SaveTyped ==
  ASSUME ConfTypeOK, NEW conf \in Confs, SavePrkConf(conf)
  PROVE  ConfTypeOK'
  BY DEF SavePrkConf, ConfTypeOK, Unsettled, NoJob, Programmed, Erased, Torn

LEMMA FlashTyped ==
  ASSUME ConfTypeOK, Erase \/ Program
  PROVE  ConfTypeOK'
<1>1. CASE Erase
  BY <1>1 DEF Erase, ConfTypeOK, NoJob, Programmed, Erased, Torn
<1>2. CASE Program
  <2>1. job.conf \in Confs
    BY <1>2 DEF Program, ConfTypeOK, NoJob
  <2> QED
    BY <1>2, <2>1 DEF Program, ConfTypeOK, NoJob, Programmed, Erased, Torn
<1> QED
  BY <1>1, <1>2

LEMMA ConfPowerLossTyped ==
  ASSUME ConfTypeOK, ConfPowerLoss
  PROVE  ConfTypeOK'
<1> DEFINE Sectors == {Programmed(conf) : conf \in Confs} \cup {Erased, Torn}
<1>1. sector' \in Sectors
  <2>1. sector \in Sectors /\ job.at \in {"none", "erase", "program"}
    BY DEF ConfTypeOK, NoJob
  <2>2. CASE job.at = "none"
    BY <2>1, <2>2 DEF ConfPowerLoss, SectorAfterPowerLoss
  <2>3. CASE job.at = "erase"
    BY <2>1, <2>3 DEF ConfPowerLoss, SectorAfterPowerLoss
  <2>4. CASE job.at = "program"
    <3>1. job.conf \in Confs
      BY <2>4 DEF ConfTypeOK, NoJob
    <3> QED
      BY <2>1, <2>4, <3>1 DEF ConfPowerLoss, SectorAfterPowerLoss
  <2> QED
    BY <2>1, <2>2, <2>3, <2>4
<1>2. device' \in Identity
  BY ConfAssumption DEF ConfPowerLoss, Nobody, Identity
<1> QED
  BY <1>1, <1>2 DEF ConfPowerLoss, ConfTypeOK, NoJob, Identity, Programmed, Erased, Torn

(* The loop, the disk and what is loaded.                                  *)
LoopTypeOK ==
  /\ usb_task \in {"off", "starting", "loop", "restarting", "done"}
  /\ autoreload_state \in {"WAIT", "READY"}
  /\ disk \in Keymaps \cup {NoFile}
  /\ loaded \in Keymaps \cup {NoFile}
  /\ written \in BOOLEAN

LEMMA LoopStep == LoopTypeOK /\ [Next]_vars => LoopTypeOK'
<1> SUFFICES ASSUME LoopTypeOK, [Next]_vars
             PROVE  LoopTypeOK'
  OBVIOUS
<1> USE DEF LoopTypeOK
<1>1. CASE PowerOn
  BY <1>1 DEF PowerOn, KeyboardInitSub
<1>2. CASE PowerLoss
  BY <1>2 DEF PowerLoss
<1>3. CASE HostWrites
  BY <1>3 DEF HostWrites, MscWrite
<1>4. CASE EnterLoop
  BY <1>4 DEF EnterLoop
<1>5. CASE MscWriteComplete
  BY <1>5 DEF MscWriteComplete
<1>6. CASE Restart
  BY <1>6 DEF Restart, AutoreloadOff
<1>7. CASE Load
  BY <1>7 DEF Load
<1>8. CASE KeymapSaves \/ Flash \/ UNCHANGED vars
  BY <1>8 DEF KeymapSaves, Flash, firmware, vars
<1> QED
  BY <1>1, <1>2, <1>3, <1>4, <1>5, <1>6, <1>7, <1>8 DEF Next, ResetUsbBoot

LEMMA ConfStep == ConfTypeOK /\ LoopTypeOK /\ [Next]_vars => ConfTypeOK'
<1> SUFFICES ASSUME ConfTypeOK, LoopTypeOK, [Next]_vars
             PROVE  ConfTypeOK'
  OBVIOUS
<1>1. CASE PowerOn
  BY <1>1, LoadTyped DEF PowerOn
<1>2. CASE PowerLoss
  BY <1>2, ConfPowerLossTyped DEF PowerLoss
<1>3. CASE HostWrites \/ EnterLoop \/ MscWriteComplete \/ Restart \/ Load \/ UNCHANGED vars
  BY <1>3, ConfKept DEF HostWrites, MscWrite, EnterLoop, MscWriteComplete, Restart, Load, vars
<1>4. CASE KeymapSaves
  <2>1. ConfOf[loaded] \in Confs
    BY <1>4, KeymapAssumption DEF KeymapSaves, LoopTypeOK
  <2> QED
    BY <1>4, <2>1, SaveTyped DEF KeymapSaves
<1>5. CASE Flash
  BY <1>5, FlashTyped DEF Flash
<1> QED
  BY <1>1, <1>2, <1>3, <1>4, <1>5 DEF Next, ResetUsbBoot

(* Every reachable state is well typed; in particular the VID and the PID  *)
(* fit 16 bits whatever the flash holds.                                   *)
THEOREM TypeCorrect == Spec => []TypeOK
<1>1. Init => ConfTypeOK /\ LoopTypeOK
  BY ConfInitTyped DEF Init, LoopTypeOK
<1>2. ConfTypeOK /\ LoopTypeOK /\ [Next]_vars => ConfTypeOK' /\ LoopTypeOK'
  BY ConfStep, LoopStep
<1>3. ConfTypeOK /\ LoopTypeOK => TypeOK
  BY DEF TypeOK, LoopTypeOK
<1> QED
  BY <1>1, <1>2, <1>3, PTL DEF Spec

(***************************************************************************)
(* Reloads                                                                 *)
(***************************************************************************)
(* NoStaleKeymap is not inductive: the loop is entered from the start,     *)
(* where a write of the host may already have called its callback.         *)
ReloadIsDue ==
  usb_task \in {"starting", "loop"} /\ disk # NoFile
    => loaded = disk \/ autoreload_state = "READY" \/ written = TRUE

LEMMA ReloadStep == ReloadIsDue /\ [Next]_vars => ReloadIsDue'
<1> SUFFICES ASSUME ReloadIsDue, [Next]_vars
             PROVE  ReloadIsDue'
  OBVIOUS
<1> USE DEF ReloadIsDue
<1>1. CASE PowerOn
  BY <1>1 DEF PowerOn, KeyboardInitSub
<1>2. CASE PowerLoss
  BY <1>2 DEF PowerLoss
<1>3. CASE HostWrites
  BY <1>3 DEF HostWrites, MscWrite
<1>4. CASE EnterLoop
  BY <1>4 DEF EnterLoop
<1>5. CASE MscWriteComplete
  BY <1>5 DEF MscWriteComplete
<1>6. CASE Restart
  BY <1>6 DEF Restart, AutoreloadOff
<1>7. CASE Load
  BY <1>7 DEF Load
<1>8. CASE KeymapSaves \/ Flash \/ UNCHANGED vars
  BY <1>8 DEF KeymapSaves, Flash, firmware, vars
<1> QED
  BY <1>1, <1>2, <1>3, <1>4, <1>5, <1>6, <1>7, <1>8 DEF Next, ResetUsbBoot

(* While the loop runs, the keymap loaded is the one on the disk, or a     *)
(* reload is due, or a callback that will ask for it.                      *)
THEOREM ReloadsHappen == Spec => []NoStaleKeymap
<1>1. Init => ReloadIsDue
  BY DEF Init, ReloadIsDue
<1>2. ReloadIsDue => NoStaleKeymap
  BY DEF ReloadIsDue, NoStaleKeymap
<1> QED
  BY <1>1, <1>2, ReloadStep, PTL DEF Spec

(***************************************************************************)
(* The identity after a loss of power                                      *)
(***************************************************************************)
(* A text whose saving ended is in the flash; while one is being saved     *)
(* none has ended.                                                         *)
SavedIsInFlash ==
  /\ job.at = "none" \/ settled = {}
  /\ \A conf \in settled : sector = Programmed(conf)

LEMMA SavedStep == SavedIsInFlash /\ [Next]_vars => SavedIsInFlash'
<1> SUFFICES ASSUME SavedIsInFlash, [Next]_vars
             PROVE  SavedIsInFlash'
  OBVIOUS
<1>1. CASE PowerOn
  BY <1>1 DEF PowerOn, LoadPrkConf, SavedIsInFlash
<1>2. CASE PowerLoss
  <2>1. job'.at = "none" /\ settled' = settled
    BY <1>2 DEF PowerLoss, ConfPowerLoss, NoJob
  <2>2. sector' = sector \/ settled = {}
    BY <1>2 DEF PowerLoss, ConfPowerLoss, SectorAfterPowerLoss, SavedIsInFlash
  <2> QED
    BY <2>1, <2>2 DEF SavedIsInFlash
<1>3. CASE HostWrites \/ EnterLoop \/ MscWriteComplete \/ Restart \/ Load \/ UNCHANGED vars
  BY <1>3 DEF HostWrites, MscWrite, EnterLoop, MscWriteComplete, Restart, Load, vars, confVars,
              SavedIsInFlash
<1>4. CASE KeymapSaves
  BY <1>4 DEF KeymapSaves, SavePrkConf, NoJob, Unsettled, SavedIsInFlash
<1>5. CASE Flash
  BY <1>5 DEF Flash, Erase, Program, NoJob, SavedIsInFlash
<1> QED
  BY <1>1, <1>2, <1>3, <1>4, <1>5 DEF Next, ResetUsbBoot

(* Whatever is cut off by a loss of power, a text whose saving ended is    *)
(* the one prk_init_USB goes by at every power-on until another one is     *)
(* saved.                                                                  *)
THEOREM SavedIdentityBoots == Spec => BootsAsSaved
<1>1. Init => SavedIsInFlash
  BY DEF Init, ConfInit, NoJob, Unsettled, SavedIsInFlash
<1>2. ASSUME SavedIsInFlash, [Next]_vars
      PROVE  [PowerOn => \A conf \in settled : device' = Identify(conf)]_vars
  <2>1. SUFFICES ASSUME PowerOn, NEW conf \in settled
                 PROVE  device' = Identify(conf)
    OBVIOUS
  <2>2. sector = Programmed(conf)
    BY <1>2, <2>1 DEF SavedIsInFlash
  <2>3. Readings = {conf}
    BY <2>2 DEF Readings, Programmed
  <2> QED
    BY <2>1, <2>3 DEF PowerOn, LoadPrkConf
<1> QED
  BY <1>1, <1>2, SavedStep, PTL DEF Spec, BootsAsSaved
=============================================================================
