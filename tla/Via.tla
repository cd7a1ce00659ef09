-------------------------------- MODULE Via --------------------------------
(***************************************************************************)
(* Output reports (src/usb_descriptors.c) and the exchange of commands and *)
(* answers they carry for VIA, on top of the report scheduler: the host's  *)
(* reports end in one-place mailboxes, which a Ruby task polls; its        *)
(* answers compete with keyboard reports for interface 0.                  *)
(*                                                                         *)
(* Commands are numbered as the host sends them; an answer has its         *)
(* command's number.  UsesVia is FALSE here: only answers are raw reports. *)
(***************************************************************************)
EXTENDS HidReport

CONSTANTS
  MaxCommands,  \* bound: how many commands the host sends
  Leds          \* the LED states a keyboard output report may set

ASSUME ViaAssumption == MaxCommands \in Nat /\ 0 \in Leds /\ ~UsesVia

VARIABLES
  raw_hid_last_received_report,
  raw_hid_report_received,
  observing_output_report,
  keyboard_output_report,
  taken,      \* the command the Ruby task took last
  unanswered, \* has it still to be answered?
  answer,     \* what the raw report handed to interface 0 last answers
  sent,       \* the host's last command
  answered,   \* the last answer the host got
  hasty,      \* history: did the host not wait, or a bus reset intervene?
  missed      \* history: the keys whose last change no report will tell

mailboxes == <<raw_hid_last_received_report, raw_hid_report_received,
               observing_output_report, keyboard_output_report>>
exchange == <<taken, unanswered, answer, sent, answered, hasty, missed>>
viaVars == <<vars, mailboxes, exchange>>

SetReportFallsThroughMutated(id, data) ==
  /\ raw_hid_last_received_report' = data
  /\ raw_hid_report_received' = TRUE
  /\ keyboard_output_report' = IF id = KEYBOARD /\ observing_output_report THEN data
                               ELSE keyboard_output_report

SetReportKeepsUnreadMutated(id, data) ==
  \/ /\ id = KEYBOARD
     /\ keyboard_output_report' = IF observing_output_report THEN data
                                  ELSE keyboard_output_report
     /\ UNCHANGED <<raw_hid_last_received_report, raw_hid_report_received>>
  \/ /\ id = RAWHID
     /\ raw_hid_last_received_report' =
          IF raw_hid_report_received THEN raw_hid_last_received_report ELSE data
     /\ raw_hid_report_received' = TRUE
     /\ UNCHANGED keyboard_output_report

(* tud_hid_set_report_cb: an unread raw report is overwritten.             *)
SetReport(id, data) ==
  \/ /\ id = KEYBOARD
     /\ keyboard_output_report' = IF observing_output_report THEN data
                                  ELSE keyboard_output_report
     /\ UNCHANGED <<raw_hid_last_received_report, raw_hid_report_received>>
  \/ /\ id = RAWHID
     /\ raw_hid_last_received_report' = data
     /\ raw_hid_report_received' = TRUE
     /\ UNCHANGED keyboard_output_report

(* External: the host waits for the answer to its last command, or loses   *)
(* patience.                                                               *)
HostSendsCommand ==
  /\ bus = "configured"
  /\ sent < MaxCommands
  /\ sent' = sent + 1
  /\ hasty' = (hasty \/ answered # sent)
  /\ SetReport(RAWHID, sent + 1)
  /\ UNCHANGED <<vars, observing_output_report, taken, unanswered, answer, answered,
                 missed>>

HostSetsLeds(leds) ==
  /\ bus = "configured"
  /\ SetReport(KEYBOARD, leds)
  /\ UNCHANGED <<vars, observing_output_report, exchange>>

(* USB.start_observing_output_report and stop_observing_output_report.     *)
Observe(on) ==
  /\ observing_output_report' = on
  /\ UNCHANGED <<vars, raw_hid_last_received_report, raw_hid_report_received,
                 keyboard_output_report, exchange>>

TakeCommandKeepsFlagMutated ==
  /\ raw_hid_report_received
  /\ ~unanswered
  /\ taken' = raw_hid_last_received_report
  /\ unanswered' = TRUE
  /\ UNCHANGED <<vars, mailboxes, answer, sent, answered, hasty, missed>>

(* USB.raw_hid_report_received? and get_last_received_raw_hid_report; a    *)
(* report that comes between the two is the one that is read.              *)
TakeCommand ==
  /\ raw_hid_report_received
  /\ ~unanswered
  /\ taken' = raw_hid_last_received_report
  /\ unanswered' = TRUE
  /\ raw_hid_report_received' = FALSE
  /\ UNCHANGED <<vars, raw_hid_last_received_report, observing_output_report,
                 keyboard_output_report, answer, sent, answered, hasty, missed>>

(* The task calls USB.report_raw_hid until it is true.                     *)
Answer ==
  /\ unanswered
  /\ ReportRawHid
  /\ unanswered' = FALSE
  /\ answer' = taken
  /\ UNCHANGED <<mailboxes, taken, sent, answered, hasty, missed>>

(* The host gets an answer when it takes a raw report.                     *)
HostGetsAnswer == OnItsWay(0) /\ in_flight[0].id = RAWHID /\ delivered'[0]

(* Of the updates of keys asked for, those send_hid_report has just        *)
(* forgotten: the bit is cleared, and the report that goes out is not the  *)
(* one that tells the value.                                               *)
Tells(id) ==
  \/ id = KEYBOARD /\ in_flight'[0] = Report(KEYBOARD, keyboard')
  \/ id = CONSUMER_CONTROL /\ in_flight'[0] = Report(CONSUMER_CONTROL, consumer_keycode')
Forgotten(asked) ==
  {id \in {KEYBOARD, CONSUMER_CONTROL} \cap asked :
     id \notin input_updated_bitmap' /\ ~Tells(id)}

(* What the host forgets with a reset and the device does not tell again.  *)
Held == {id \in {KEYBOARD, CONSUMER_CONTROL} :
           \/ id = KEYBOARD /\ keyboard # NoKeys
           \/ id = CONSUMER_CONTROL /\ consumer_keycode # NoConsumer}

(* The steps of the report scheduler: scans, completions, resets, and those*)
(* that neither ask for a report nor forget one.                           *)
ScanReports ==
  \E keys \in Keys, consumer \in ConsumerKeys :
    /\ Scan(keys, consumer)
    /\ missed' = (missed \ UpdatedBy(keys, consumer))
                   \cup Forgotten(input_updated_bitmap \cup UpdatedBy(keys, consumer))

Completes ==
  \E n \in Interface :
    /\ ReportComplete(n)
    /\ missed' = missed \cup Forgotten(input_updated_bitmap \ {in_flight[n].id})

BusIsReset == "reset" \in BusEvents /\ BusReset /\ missed' = Held

GoesOn ==
  /\ \/ \E buttons \in SUBSET MouseButtons, motion \in [Axes -> Motions] :
          MergeMouse(buttons, motion)
     \/ \E pad \in Pads : MergeJoystick(pad)
     \/ \E n \in Interface : HostPoll(n)
     \/ Mount \/ Resume
     \/ "suspend" \in BusEvents /\ Suspend
  /\ UNCHANGED missed

Schedule ==
  /\ ScanReports \/ Completes \/ BusIsReset \/ GoesOn
  /\ answered' = IF HostGetsAnswer THEN answer ELSE answered
  /\ hasty' = (hasty \/ (bus # "unmounted" /\ bus' = "unmounted"))
  /\ UNCHANGED <<mailboxes, taken, unanswered, answer, sent>>
-----------------------------------------------------------------------------
ViaInit ==
  /\ Init
  /\ raw_hid_last_received_report = 0
  /\ raw_hid_report_received = FALSE
  /\ observing_output_report = FALSE
  /\ keyboard_output_report = 0
  /\ taken = 0 /\ unanswered = FALSE /\ answer = 0
  /\ sent = 0 /\ answered = 0 /\ hasty = FALSE /\ missed = {}

ViaNext ==
  \/ Schedule
  \/ TakeCommand \/ Answer
  \/ \E on \in BOOLEAN : Observe(on)
  \/ HostSendsCommand
  \/ \E leds \in Leds : HostSetsLeds(leds)

ViaSpec == ViaInit /\ [][ViaNext]_viaVars

(* As in HidReport; and the task of VIA polls and answers for ever.        *)
FairViaSpec ==
  ViaSpec /\ Fairness /\ WF_viaVars(TakeCommand) /\ WF_viaVars(Answer)
-----------------------------------------------------------------------------
(* Every variable keeps its type.                                          *)
ViaTypeOK ==
  /\ TypeOK
  /\ {raw_hid_last_received_report, taken, answer, sent, answered} \subseteq 0 .. MaxCommands
  /\ {raw_hid_report_received, observing_output_report, unanswered, hasty} \subseteq BOOLEAN
  /\ keyboard_output_report \in Leds
  /\ missed \subseteq {KEYBOARD, CONSUMER_CONTROL}

(* No command is carried out twice, or after a later one, however fast     *)
(* they come.                                                              *)
TakenInOrder == [][TakeCommand => taken' > taken]_viaVars

(* Commands may be overwritten unread, the last one is not lost: it is     *)
(* marked as unread until it is taken.                                     *)
LastCommandKept == raw_hid_report_received \/ taken = sent

(* A host that waits for answers gets the one to its command.              *)
OwnAnswer == [][HostGetsAnswer /\ ~hasty => answered' = sent]_viaVars

(* Keys and mouse come to rest.                                            *)
AtRest ==
  /\ <>[][keyboard' = keyboard /\ consumer_keycode' = consumer_keycode]_vars
  /\ <>[](mouse = StillMouse)

(* ... and it does get it, when suspensions end and keys and mouse come to *)
(* rest, although a refused answer has to be tried again and the reports   *)
(* of keys and mouse may take the interface each time it is free.          *)
EveryCommandAnswered ==
  BusSettles /\ AtRest => <>[](hasty \/ answered = sent)

(* Keys held or released for good are what the host sees in the end, across*)
(* suspensions, resets, completions and VIA's answers.  hid_task reports   *)
(* changes only, so the exception is a change that was missed: scanned     *)
(* while no report could be sent, or overtaken by a reset.  The next change*)
(* repairs it.                                                             *)
KeysArrive ==
  BusSettles => \A keys \in Keys :
    <>[](keyboard = keys) => <>[](host.keys = keys \/ KEYBOARD \in missed)

(* After an answer via_active switches consumer reports off, until hid_task*)
(* sees a consumer key.  A release scanned meanwhile is withheld.          *)
Withheld ==
  consumer_keycode = NoConsumer /\ via_active /\ CONSUMER_CONTROL \in input_updated_bitmap

(* A consumer key that is held reaches the host however many answers come  *)
(* before and after it; its release does or is withheld, in which case its *)
(* bit stays set, so that no more than the next consumer key is needed for *)
(* host and keyboard to agree again.  Missed changes are as above.         *)
ConsumerKeysArrive ==
  BusSettles => \A key \in ConsumerKeys :
    <>[](consumer_keycode = key) =>
      <>[](host.consumer = key \/ CONSUMER_CONTROL \in missed \/ Withheld)
=============================================================================
