----------------------------- MODULE Firmware ------------------------------
(***************************************************************************)
(* The firmware from power-on to power loss, in a build with a disk        *)
(* (src/main.c, mrblib/usb_task.rb, src/keyboard.c): the host writes       *)
(* /keymap.rb to the disk, the write's completion callback asks for a      *)
(* reload, the loop of usb_task loads the file, and the keymap saves the   *)
(* identity it wants, which PrkConf models.                                *)
(*                                                                         *)
(* The disk changes and callbacks run inside Machine.tud_task: between two *)
(* steps of usb_task's loop, and, as Keyboard.restart is not part of the   *)
(* repository and takes its time, also in the middle of a restart.  While  *)
(* c_save_prk_conf works on the flash nothing else runs.                   *)
(***************************************************************************)
EXTENDS PrkConf

CONSTANTS
  Keymaps,   \* what /keymap.rb may say
  NoFile,    \* there is no /keymap.rb
  ConfOf     \* the text each keymap saves

ASSUME KeymapAssumption == ConfOf \in [Keymaps -> Confs]

VARIABLES
  usb_task,          \* where usb_task.rb is, "off" without power
  autoreload_state,
  disk,              \* /keymap.rb, or NoFile
  written,           \* a write is done, its callback not yet called
  loaded             \* the keymap Keyboard.restart loaded

firmware == <<usb_task, autoreload_state, disk, written, loaded>>
vars == <<confVars, firmware>>

Runs == usb_task # "off" /\ job = NoJob

(* What the class Keyboard knows of the disk: Keyboard_init_sub leaves a   *)
(* reload due, autoreload_ready? tells it, autoreload_off takes it back.   *)
KeyboardInitSub == autoreload_state' = "READY"
AutoreloadReady == autoreload_state = "READY"
AutoreloadOff == autoreload_state' = "WAIT"

(* main initialises USB, then usb_task requires "keyboard".                *)
PowerOn ==
  /\ usb_task = "off"
  /\ usb_task' = "starting"
  /\ LoadPrkConf
  /\ KeyboardInitSub
  /\ UNCHANGED <<disk, written, loaded>>

(* 200 times tud_task, then the disk is mounted.                           *)
EnterLoop ==
  /\ Runs
  /\ usb_task = "starting"
  /\ usb_task' = "loop"
  /\ UNCHANGED <<confVars, autoreload_state, disk, written, loaded>>

(* External: tud_task executes a write of the host.                        *)
MscWrite(file) ==
  /\ Runs
  /\ ~written
  /\ disk' = file
  /\ written' = TRUE
  /\ UNCHANGED <<confVars, usb_task, autoreload_state, loaded>>

MscWriteCompleteOnceMutated ==
  /\ Runs
  /\ written
  /\ written' = FALSE
  /\ autoreload_state' = IF loaded = NoFile THEN "READY" ELSE autoreload_state
  /\ UNCHANGED <<confVars, usb_task, disk, loaded>>

(* tud_msc_write10_complete_cb.                                            *)
MscWriteComplete ==
  /\ Runs
  /\ written
  /\ written' = FALSE
  /\ autoreload_state' = "READY"
  /\ UNCHANGED <<confVars, usb_task, disk, loaded>>

(* The loop finds a reload due and a file to load.  Keyboard.restart       *)
(* (external) turns autoreload off first: a request that comes from now on *)
(* is one for another restart.                                             *)
Restart ==
  /\ Runs
  /\ usb_task = "loop"
  /\ AutoreloadReady
  /\ disk # NoFile
  /\ AutoreloadOff
  /\ usb_task' = "restarting"
  /\ UNCHANGED <<confVars, disk, written, loaded>>

LoadNewFileOnlyMutated ==
  /\ Runs
  /\ usb_task = "restarting"
  /\ loaded' = IF loaded = NoFile THEN disk ELSE loaded
  /\ usb_task' \in {"loop", "done"}
  /\ UNCHANGED <<confVars, autoreload_state, disk, written>>

(* ... and then loads the file, which may have changed or gone since; when *)
(* restart is false the loop ends for good.                                *)
Load ==
  /\ Runs
  /\ usb_task = "restarting"
  /\ loaded' = disk
  /\ usb_task' \in {"loop", "done"}
  /\ UNCHANGED <<confVars, autoreload_state, disk, written>>

(* External: the keymap calls USB.save_prk_conf.                           *)
KeymapSaves ==
  /\ Runs
  /\ loaded # NoFile
  /\ SavePrkConf(ConfOf[loaded])
  /\ UNCHANGED firmware

Flash == (Erase \/ Program) /\ UNCHANGED firmware

PowerLoss ==
  /\ usb_task # "off"
  /\ usb_task' = "off"
  /\ written' = FALSE
  /\ loaded' = NoFile
  /\ ConfPowerLoss
  /\ UNCHANGED <<autoreload_state, disk>>

(* The keymap calls Machine.reset_usb_boot: nothing is left but the flash. *)
ResetUsbBoot == Runs /\ loaded # NoFile /\ PowerLoss
-----------------------------------------------------------------------------
Init ==
  /\ ConfInit
  /\ usb_task = "off"
  /\ autoreload_state = "WAIT"
  /\ disk = NoFile
  /\ written = FALSE
  /\ loaded = NoFile

HostWrites == \E file \in Keymaps \cup {NoFile} : MscWrite(file)

Next ==
  \/ PowerOn \/ PowerLoss \/ ResetUsbBoot
  \/ HostWrites
  \/ EnterLoop \/ MscWriteComplete \/ Restart \/ Load
  \/ KeymapSaves \/ Flash

Spec == Init /\ [][Next]_vars

(* The code runs on, and every keymap saves its text.  The host and the    *)
(* power owe nothing.                                                      *)
FairSpec ==
  /\ Spec
  /\ WF_vars(EnterLoop) /\ WF_vars(MscWriteComplete)
  /\ WF_vars(Restart) /\ WF_vars(Load)
  /\ WF_vars(KeymapSaves /\ job' # job) /\ WF_vars(Flash)
-----------------------------------------------------------------------------
(* Every variable keeps its type.                                          *)
TypeOK ==
  /\ ConfTypeOK
  /\ usb_task \in {"off", "starting", "loop", "restarting", "done"}
  /\ autoreload_state \in {"WAIT", "READY"}
  /\ {disk, loaded} \subseteq Keymaps \cup {NoFile}
  /\ written \in BOOLEAN

(* A text whose saving ended, told to have been saved or to need no        *)
(* change, is what the keyboard goes by after the next power-on, and after *)
(* every later one until another text is saved.                            *)
BootsAsSaved ==
  [][PowerOn => \A conf \in settled : device' = Identify(conf)]_vars

(* While the loop runs, the keymap loaded is the file on the disk, or a    *)
(* reload is due, or a callback that will ask for it: autoreload_off, which*)
(* takes back whatever request there is, takes none back that came after   *)
(* the file was read.                                                      *)
NoStaleKeymap ==
  usb_task = "loop" /\ disk # NoFile
    => loaded = disk \/ autoreload_state = "READY" \/ written

(* When the host has written its last version and the power stays, that    *)
(* version is loaded and its text is in the flash, whatever was cut off    *)
(* before; unless a restart ended the loop.                                *)
LastKeymapRuns ==
  <>[](usb_task \in {"loop", "restarting"} /\ disk # NoFile) /\ <>[][~HostWrites]_vars
    => <>[](/\ disk \in Keymaps
            /\ loaded = disk
            /\ sector = Programmed(ConfOf[disk]))

(* The name "Default VID/PID" stands for the default VID and PID.          *)
DefaultMeansDefault ==
  device.name = DefaultName => device.vid = DefaultVid /\ device.pid = DefaultPid
=============================================================================
