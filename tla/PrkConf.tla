------------------------------ MODULE PrkConf ------------------------------
(***************************************************************************)
(* The VID, PID and product name a keyboard is given by a line of text,    *)
(* "vid:pid:name", in the flash sector in front of the disk               *)
(* (src/usb_descriptors.c): USB.save_prk_conf erases and programs the      *)
(* sector, prk_init_USB reads it once, at power-on.                        *)
(*                                                                         *)
(* A text is the sequence of its fields, a field the number strtol reads   *)
(* in it and its characters.  Texts are shorter than PRK_CONF_SIZE.        *)
(***************************************************************************)
EXTENDS Naturals, Sequences

CONSTANTS
  Confs,       \* the texts the program saves
  Junk,        \* texts the memory past an unterminated one may hold
  Characters,  \* what the characters of a field may be
  BlankName,   \* those of an erased sector
  DefaultVid, DefaultPid, DefaultName

Uint16 == 0 .. 65535
ToUint16(n) == n % 65536

Field == [number : Nat, text : Characters]

ASSUME ConfAssumption ==
  /\ Confs \subseteq Seq(Field) /\ Junk \subseteq Seq(Field)
  /\ DefaultVid \in Uint16 /\ DefaultPid \in Uint16
  /\ DefaultName \in Characters /\ BlankName \in Characters

VARIABLES
  sector,   \* what the flash sector holds
  device,   \* desc_device and prk_conf_name
  job,      \* where c_save_prk_conf is, and the text it saves
  settled   \* history: the text whose saving ended last, none since it began

confVars == <<sector, device, job, settled>>

Programmed(conf) == [state |-> "programmed", conf |-> conf]
Erased == [state |-> "erased", conf |-> <<>>]
Torn == [state |-> "torn", conf |-> <<>>]

NoJob == [at |-> "none", conf |-> <<>>]
Nobody == [vid |-> DefaultVid, pid |-> DefaultPid, name |-> DefaultName]
Unsettled == {}

(* Definitions named ...Mutated are variants of the one that follows, each  *)
(* with a bug the properties must notice; the specification uses none.     *)

(* strtok and strtol leave what the text does not reach at its default.    *)
IdentifyKeepsLongIdsMutated(fields) ==
  [vid |-> IF Len(fields) < 1 THEN DefaultVid ELSE fields[1].number,
   pid |-> IF Len(fields) < 2 THEN DefaultPid ELSE fields[2].number,
   name |-> IF Len(fields) < 3 THEN DefaultName ELSE fields[3].text]

Identify(fields) ==
  [vid |-> IF Len(fields) < 1 THEN DefaultVid ELSE ToUint16(fields[1].number),
   pid |-> IF Len(fields) < 2 THEN DefaultPid ELSE ToUint16(fields[2].number),
   name |-> IF Len(fields) < 3 THEN DefaultName ELSE fields[3].text]

(* What prk_init_USB may find.  An erased sector is a field without a      *)
(* digit and without an end: strlen and strtok run into what lies on the   *)
(* stack behind it.  A torn one reads as anything.                         *)
Blank == <<[number |-> 0, text |-> BlankName]>>
Readings ==
  CASE sector.state = "programmed" -> {sector.conf}
    [] sector.state = "erased" -> {Blank \o rest : rest \in Junk}
    [] sector.state = "torn" -> Junk

LoadPrkConf ==
  /\ \E fields \in Readings : device' = Identify(fields)
  /\ UNCHANGED <<sector, job, settled>>

SavePrkConfByNameMutated(conf) ==
  /\ job = NoJob
  /\ \/ /\ Identify(sector.conf).name = Identify(conf).name
        /\ settled' = {conf}
        /\ UNCHANGED <<sector, device, job>>
     \/ /\ Identify(sector.conf).name # Identify(conf).name
        /\ job' = [at |-> "erase", conf |-> conf]
        /\ settled' = Unsettled
        /\ UNCHANGED <<sector, device>>

(* c_save_prk_conf does nothing if the sector holds the text already.      *)
SavePrkConf(conf) ==
  /\ job = NoJob
  /\ \/ /\ sector = Programmed(conf)
        /\ settled' = {conf}
        /\ UNCHANGED <<sector, device, job>>
     \/ /\ sector # Programmed(conf)
        /\ job' = [at |-> "erase", conf |-> conf]
        /\ settled' = Unsettled
        /\ UNCHANGED <<sector, device>>

Erase ==
  /\ job.at = "erase"
  /\ sector' = Erased
  /\ job' = [job EXCEPT !.at = "program"]
  /\ UNCHANGED <<device, settled>>

Program ==
  /\ job.at = "program"
  /\ sector' = Programmed(job.conf)
  /\ job' = NoJob
  /\ settled' = {job.conf}
  /\ UNCHANGED device

(* What a loss of power leaves of the sector: the flash is being erased,   *)
(* or its first page programmed.                                           *)
SectorAfterPowerLoss ==
  CASE job.at = "none" -> {sector}
    [] job.at = "erase" -> {sector, Torn, Erased}
    [] job.at = "program" -> {Erased, Torn, Programmed(job.conf)}

ConfPowerLoss ==
  /\ sector' \in SectorAfterPowerLoss
  /\ device' = Nobody
  /\ job' = NoJob
  /\ UNCHANGED settled

ConfInit ==
  /\ sector = Erased
  /\ device = Nobody
  /\ job = NoJob
  /\ settled = Unsettled
-----------------------------------------------------------------------------
ConfTypeOK ==
  /\ sector \in {Programmed(conf) : conf \in Confs} \cup {Erased, Torn}
  /\ device \in [vid : Uint16, pid : Uint16, name : Characters]
  /\ job \in [at : {"erase", "program"}, conf : Confs] \cup {NoJob}
  /\ settled \subseteq Confs
=============================================================================
