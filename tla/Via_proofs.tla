----------------------------- MODULE Via_proofs -----------------------------
(***************************************************************************)
(* Proofs about Via: what becomes of the host's commands and of the        *)
(* answers, for any number of them, any keyboard and any behaviour of the  *)
(* bus; and that the reports of the scheduler keep what HidReport promises *)
(* when answers compete with them.                                         *)
(***************************************************************************)
EXTENDS Via, HidChannels_proofs

(* Command numbers.                                                        *)
Commands == 0 .. MaxCommands

(* The mailbox holds the host's last command, and holds it unread exactly  *)
(* until the task has taken that command.                                  *)
Mailbox ==
  /\ raw_hid_last_received_report = sent
  /\ sent \in Commands
  /\ taken \in Commands
  /\ taken <= sent
  /\ raw_hid_report_received = TRUE => taken < sent
  /\ raw_hid_report_received # TRUE => taken = sent
  /\ raw_hid_report_received \in BOOLEAN

(* Steps that leave the mailbox, its reader and its writer alone.          *)
LEMMA ElsewhereKeepsMailbox ==
  ASSUME Mailbox,
         UNCHANGED <<raw_hid_last_received_report, raw_hid_report_received, taken, sent>>
  PROVE  Mailbox'
  BY DEF Mailbox, Commands

(* The host's commands and the task's reading of them.                     *)
LEMMA CommandKeepsMailbox ==
  ASSUME Mailbox, HostSendsCommand
  PROVE  Mailbox'
<1>1. MaxCommands \in Nat
  BY ViaAssumption
<1>2. /\ sent' = sent + 1 /\ sent < MaxCommands
      /\ taken' = taken
  BY DEF HostSendsCommand
<1>3. raw_hid_last_received_report' = sent + 1 /\ raw_hid_report_received' = TRUE
  BY DEF HostSendsCommand, SetReport, RAWHID, KEYBOARD
<1> QED
  BY <1>1, <1>2, <1>3 DEF Mailbox, Commands

LEMMA TakingKeepsMailbox ==
  ASSUME Mailbox, TakeCommand
  PROVE  Mailbox'
<1>1. raw_hid_report_received = TRUE
  BY DEF Mailbox, TakeCommand
<1>2. /\ taken' = raw_hid_last_received_report
      /\ raw_hid_last_received_report' = raw_hid_last_received_report
      /\ sent' = sent
      /\ raw_hid_report_received' = FALSE
  BY DEF TakeCommand
<1>3. taken' = sent' /\ taken' <= sent' /\ sent' \in Commands
  BY <1>2 DEF Mailbox, Commands
<1> QED
  BY <1>2, <1>3 DEF Mailbox

(* Every step keeps the mailbox's invariant.                               *)
LEMMA MailboxStep ==
  ASSUME Mailbox, [ViaNext]_viaVars
  PROVE  Mailbox'
<1>1. CASE Schedule
  BY <1>1, ElsewhereKeepsMailbox DEF Schedule, mailboxes
<1>2. CASE TakeCommand
  BY <1>2, TakingKeepsMailbox
<1>3. CASE Answer
  BY <1>3, ElsewhereKeepsMailbox DEF Answer, mailboxes
<1>4. ASSUME NEW on \in BOOLEAN, Observe(on)
      PROVE  Mailbox'
  BY <1>4, ElsewhereKeepsMailbox DEF Observe, exchange
<1>5. CASE HostSendsCommand
  BY <1>5, CommandKeepsMailbox
<1>6. ASSUME NEW leds \in Leds, HostSetsLeds(leds)
      PROVE  Mailbox'
  BY <1>6, ElsewhereKeepsMailbox
     DEF HostSetsLeds, SetReport, exchange, KEYBOARD, RAWHID
<1>7. CASE UNCHANGED viaVars
  BY <1>7, ElsewhereKeepsMailbox DEF viaVars, mailboxes, exchange
<1> QED
  BY <1>1, <1>2, <1>3, <1>4, <1>5, <1>6, <1>7 DEF ViaNext

LEMMA MailboxInit ==
  ASSUME ViaInit
  PROVE  Mailbox
<1>1. MaxCommands \in Nat
  BY ViaAssumption
<1>2. /\ raw_hid_last_received_report = 0 /\ sent = 0 /\ taken = 0
      /\ raw_hid_report_received = FALSE
  BY DEF ViaInit
<1>3. 0 \in Commands /\ 0 <= 0
  BY <1>1 DEF Commands
<1>4. /\ raw_hid_last_received_report = sent
      /\ sent \in Commands /\ taken \in Commands
      /\ taken <= sent /\ taken = sent
  BY <1>2, <1>3
<1> QED
  BY <1>2, <1>4 DEF Mailbox

(* The mailbox's invariant holds.                                          *)
THEOREM MailboxHolds == ViaSpec => []Mailbox
<1>1. ViaInit => Mailbox
  BY MailboxInit
<1>2. Mailbox /\ [ViaNext]_viaVars => Mailbox'
  BY MailboxStep
<1> QED
  BY <1>1, <1>2, PTL DEF ViaSpec

(* The last command is unread or taken, never lost: tud_hid_set_report_cb  *)
(* overwrites only commands followed by another one.                       *)
THEOREM LastCommandIsKept == ViaSpec => []LastCommandKept
<1>1. ASSUME Mailbox
      PROVE  LastCommandKept
  BY <1>1 DEF Mailbox, LastCommandKept
<1> QED
  BY <1>1, MailboxHolds, PTL

(* No command is taken twice or after a later one.                         *)
THEOREM CommandsTakenInOrder == ViaSpec => TakenInOrder
<1>1. ASSUME Mailbox, [ViaNext]_viaVars
      PROVE  [TakeCommand => taken' > taken]_viaVars
  <2>1. SUFFICES ASSUME TakeCommand
                 PROVE  taken' > taken
    OBVIOUS
  <2>2. raw_hid_report_received = TRUE /\ taken' = raw_hid_last_received_report
    BY <1>1, <2>1 DEF Mailbox, TakeCommand
  <2>3. taken < sent /\ taken' = sent /\ taken \in Int /\ sent \in Int
    BY <1>1, <2>2 DEF Mailbox, Commands
  <2> QED
    BY <2>3
<1> QED
  BY <1>1, MailboxHolds, PTL DEF ViaSpec, TakenInOrder
-----------------------------------------------------------------------------
(***************************************************************************)
(* The scheduler below                                                     *)
(***************************************************************************)
LEMMA StepsOfScheduler == [ViaNext]_viaVars => [AnyNext]_vars
<1>1. Schedule => AnyNext
  <2>1. ScanReports => Ruby
    BY DEF ScanReports, Ruby
  <2>2. Completes => Usb
    BY DEF Completes, Usb
  <2>3. BusIsReset => Usb
    BY DEF BusIsReset, Usb
  <2>4. GoesOn => Ruby \/ Usb
    BY DEF GoesOn, Ruby, Usb
  <2> QED
    BY <2>1, <2>2, <2>3, <2>4 DEF Schedule, AnyNext, Next
<1>2. Answer => AnyNext
  BY DEF Answer, AnyNext
<1>3. TakeCommand => UNCHANGED vars
  BY DEF TakeCommand
<1>4. \A on \in BOOLEAN : Observe(on) => UNCHANGED vars
  BY DEF Observe
<1>5. HostSendsCommand => UNCHANGED vars
  BY DEF HostSendsCommand
<1>6. \A leds \in Leds : HostSetsLeds(leds) => UNCHANGED vars
  BY DEF HostSetsLeds
<1>7. UNCHANGED viaVars => UNCHANGED vars
  BY DEF viaVars
<1> QED
  BY <1>1, <1>2, <1>3, <1>4, <1>5, <1>6, <1>7 DEF ViaNext

LEMMA SchedulerBelow == ViaSpec => AnySpec
<1>1. ViaInit => Init
  BY DEF ViaInit
<1> QED
  BY <1>1, StepsOfScheduler, PTL DEF ViaSpec, AnySpec

(* The keyboard, consumer and gamepad reports reach the host in order, and *)
(* no motion is lost, also while a VIA task answers commands beside the    *)
(* program.                                                                *)
THEOREM ReportsBesideVia ==
  ViaSpec => KeyboardInOrder /\ ConsumerInOrder /\ GamepadInOrder /\ []MotionAccounted
BY SchedulerBelow, AnyKeyboard, AnyConsumer, AnyGamepad, AnyMotion, PTL

(***************************************************************************)
(* Answers                                                                 *)
(***************************************************************************)
(* Every variable of the exchange keeps its type.                          *)
ExchangeTypes ==
  /\ answer \in Commands /\ answered \in Commands
  /\ unanswered \in BOOLEAN /\ hasty \in BOOLEAN
  /\ observing_output_report \in BOOLEAN
  /\ keyboard_output_report \in Leds
  /\ missed \subseteq {KEYBOARD, CONSUMER_CONTROL}

LEMMA ExchangeTypesStep ==
  ASSUME Mailbox, ExchangeTypes, [ViaNext]_viaVars
  PROVE  ExchangeTypes'
<1> USE DEF ExchangeTypes
<1>1. CASE Schedule
  <2>1. /\ Held \subseteq {KEYBOARD, CONSUMER_CONTROL}
        /\ \A asked : Forgotten(asked) \subseteq {KEYBOARD, CONSUMER_CONTROL}
    BY DEF Held, Forgotten
  <2>2. missed' \subseteq {KEYBOARD, CONSUMER_CONTROL}
    <3>1. CASE ScanReports
      BY <2>1, <3>1 DEF ScanReports
    <3>2. CASE Completes
      BY <2>1, <3>2 DEF Completes
    <3>3. CASE BusIsReset \/ GoesOn
      BY <2>1, <3>3 DEF BusIsReset, GoesOn
    <3> QED
      BY <1>1, <3>1, <3>2, <3>3 DEF Schedule
  <2>3. answered' \in Commands /\ hasty' \in BOOLEAN
    BY <1>1 DEF Schedule
  <2> QED
    BY <1>1, <2>2, <2>3 DEF Schedule, mailboxes
<1>2. CASE TakeCommand
  BY <1>2 DEF TakeCommand
<1>3. CASE Answer
  BY <1>3 DEF Answer, mailboxes, Mailbox
<1>4. ASSUME NEW on \in BOOLEAN, Observe(on)
      PROVE  ExchangeTypes'
  BY <1>4 DEF Observe, exchange
<1>5. CASE HostSendsCommand
  <2>1. keyboard_output_report' = keyboard_output_report
    BY <1>5, IdFacts DEF HostSendsCommand, SetReport
  <2> QED
    BY <1>5, <2>1 DEF HostSendsCommand
<1>6. ASSUME NEW leds \in Leds, HostSetsLeds(leds)
      PROVE  ExchangeTypes'
  <2>1. keyboard_output_report' \in Leds
    BY <1>6, IdFacts DEF HostSetsLeds, SetReport
  <2> QED
    BY <1>6, <2>1 DEF HostSetsLeds, exchange
<1>7. CASE UNCHANGED viaVars
  BY <1>7 DEF viaVars, mailboxes, exchange
<1> QED
  BY <1>1, <1>2, <1>3, <1>4, <1>5, <1>6, <1>7 DEF ViaNext

LEMMA ExchangeTyped == ViaSpec => [](Typed /\ Mailbox /\ ExchangeTypes)
<1>1. ViaInit => ExchangeTypes
  <2>1. 0 \in Commands /\ 0 \in Leds
    BY ViaAssumption DEF Commands
  <2> QED
    BY <2>1 DEF ViaInit, ExchangeTypes
<1>2. Mailbox /\ ExchangeTypes /\ [ViaNext]_viaVars => ExchangeTypes'
  BY ExchangeTypesStep
<1> QED
  BY <1>1, <1>2, MailboxHolds, SchedulerBelow, AnyTyped, PTL DEF ViaSpec

(* Every reachable state is well typed; in particular no command number    *)
(* runs past the host's last one.                                          *)
THEOREM TypesOfVia == ViaSpec => []ViaTypeOK
<1>1. Typed /\ Mailbox /\ ExchangeTypes => ViaTypeOK
  BY DEF Typed, Mailbox, ExchangeTypes, Commands, ViaTypeOK
<1> QED
  BY <1>1, ExchangeTyped, PTL

(* An answer on its way to the host.                                       *)
AnswerOnItsWay == OnItsWay(0) /\ in_flight[0].id = RAWHID

(* With a host that waits, at most one command is about, and it is at one  *)
(* place: unread in the mailbox, with the task, or answered on the wire.   *)
OneAtATime ==
  hasty # TRUE =>
    /\ raw_hid_report_received = TRUE =>
         answered # sent /\ unanswered # TRUE /\ ~AnswerOnItsWay
    /\ unanswered = TRUE =>
         answered # sent /\ ~AnswerOnItsWay
    /\ AnswerOnItsWay =>
         answered # sent /\ answer = sent

LEMMA WireStays ==
  ASSUME UNCHANGED <<in_flight, delivered>>
  PROVE  AnswerOnItsWay' <=> AnswerOnItsWay
BY Zenon DEF AnswerOnItsWay, OnItsWay

(* The scheduler never puts a raw report on the wire by itself.            *)
LEMMA ScheduleAddsNoAnswer ==
  ASSUME Typed, Schedule
  PROVE  /\ AnswerOnItsWay' => AnswerOnItsWay
         /\ HostGetsAnswer => AnswerOnItsWay /\ ~AnswerOnItsWay'
<1>1. ASSUME NEW keys \in Keys, NEW consumer \in ConsumerKeys, Scan(keys, consumer)
      PROVE  AnswerOnItsWay' => AnswerOnItsWay
  <2>1. /\ Keeps0(in_flight) \/ Sends0(keys, consumer, in_flight)
        /\ delivered' = delivered
    BY <1>1, ScanSends
  <2> QED
    BY <2>1, IdFacts DEF Keeps0, Sends0, Report, AnswerOnItsWay, OnItsWay
<1>2. ASSUME NEW n \in Interface, ReportComplete(n)
      PROVE  AnswerOnItsWay' => AnswerOnItsWay
  <2> DEFINE endpoints == [in_flight EXCEPT ![n] = Idle]
  <2>1. /\ Keeps0(endpoints) \/ Sends0(keyboard, consumer_keycode, endpoints)
        /\ Taken(n) /\ delivered' = [delivered EXCEPT ![n] = FALSE]
    BY <1>2, CompletionSends
  <2>2. CASE Sends0(keyboard, consumer_keycode, endpoints)
    BY <2>2, IdFacts DEF Sends0, Report, AnswerOnItsWay
  <2>3. CASE Keeps0(endpoints) /\ n = 0
    <3>1. in_flight'[0].id = NONE
      BY <2>3, IdleFacts DEF Keeps0, Typed, TypeOK, Endpoints, Interface
    <3> QED
      BY <3>1 DEF AnswerOnItsWay, OnItsWay
  <2>4. CASE Keeps0(endpoints) /\ n = 1
    <3>1. in_flight'[0] = in_flight[0] /\ (delivered'[0] <=> delivered[0])
      BY <2>1, <2>4 DEF Keeps0, Typed, TypeOK, Endpoints, Interface
    <3> QED
      BY <3>1 DEF AnswerOnItsWay, OnItsWay
  <2> QED
    BY <2>1, <2>2, <2>3, <2>4 DEF Interface
<1>3. ASSUME NEW n \in Interface, HostPoll(n)
      PROVE  AnswerOnItsWay' => AnswerOnItsWay
  BY <1>3 DEF HostPoll, AnswerOnItsWay, OnItsWay, Typed, TypeOK, Interface
<1>4. BusReset => (AnswerOnItsWay' => AnswerOnItsWay)
  <2>1. BusReset => in_flight'[0] = Idle
    BY DEF BusReset, Interface
  <2> QED
    BY <2>1, IdleFacts DEF AnswerOnItsWay, OnItsWay
<1>5. UNCHANGED <<in_flight, delivered>> => (AnswerOnItsWay' => AnswerOnItsWay)
  BY WireStays
<1>6. AnswerOnItsWay' => AnswerOnItsWay
  <2>1. CASE ScanReports
    BY <1>1, <2>1 DEF ScanReports
  <2>2. CASE Completes
    BY <1>2, <2>2 DEF Completes
  <2>3. CASE BusIsReset
    BY <1>4, <2>3 DEF BusIsReset
  <2>4. CASE GoesOn
    BY <1>3, <1>5, <2>4
       DEF GoesOn, MergeMouse, MergeMouseReport, MergeJoystick, MergeJoystickReport,
           Mount, Suspend, Resume
  <2> QED
    BY <2>1, <2>2, <2>3, <2>4 DEF Schedule
<1> QED
  BY <1>6 DEF HostGetsAnswer, AnswerOnItsWay, OnItsWay

LEMMA OneAtATimeStep ==
  ASSUME Typed, Mailbox, ExchangeTypes, OneAtATime, [ViaNext]_viaVars
  PROVE  OneAtATime'
<1> USE DEF OneAtATime
<1>1. CASE Schedule
  <2>1. CASE HostGetsAnswer
    <3>1. answered' = answer /\ AnswerOnItsWay /\ ~AnswerOnItsWay'
      BY <1>1, <2>1, ScheduleAddsNoAnswer DEF Schedule
    <3> QED
      BY <1>1, <3>1 DEF Schedule, mailboxes
  <2>2. CASE ~HostGetsAnswer
    <3>1. answered' = answered /\ (AnswerOnItsWay' => AnswerOnItsWay)
      BY <1>1, <2>2, ScheduleAddsNoAnswer DEF Schedule
    <3> QED
      BY <1>1, <3>1 DEF Schedule, mailboxes
  <2> QED
    BY <2>1, <2>2
<1>2. CASE TakeCommand
  <2>1. AnswerOnItsWay' <=> AnswerOnItsWay
    BY <1>2, WireStays DEF TakeCommand, vars
  <2> QED
    BY <1>2, <2>1 DEF TakeCommand, Mailbox
<1>3. CASE Answer
  <2>1. raw_hid_report_received # TRUE \/ hasty = TRUE
    BY <1>3 DEF Answer
  <2>2. answer' = taken /\ unanswered' # TRUE
        /\ UNCHANGED <<raw_hid_report_received, sent, answered, hasty>>
    BY <1>3 DEF Answer, mailboxes
  <2> QED
    BY <1>3, <2>1, <2>2 DEF Answer, Mailbox
<1>4. ASSUME NEW on \in BOOLEAN, Observe(on)
      PROVE  OneAtATime'
  BY <1>4, WireStays DEF Observe, exchange, vars
<1>5. CASE HostSendsCommand
  <2>1. AnswerOnItsWay' <=> AnswerOnItsWay
    BY <1>5, WireStays DEF HostSendsCommand, vars
  <2>2. sent' = sent + 1 /\ sent \in Nat
    BY <1>5, ViaAssumption DEF HostSendsCommand, Mailbox, Commands
  <2>3. UNCHANGED <<unanswered, answered, answer>>
    BY <1>5 DEF HostSendsCommand
  <2>4. hasty' # TRUE => hasty # TRUE /\ answered = sent
    BY <1>5, Zenon DEF HostSendsCommand
  <2>5. answered = sent => answered' # sent'
    BY <2>2, <2>3
  <2> QED
    BY <2>1, <2>3, <2>4, <2>5
<1>6. ASSUME NEW leds \in Leds, HostSetsLeds(leds)
      PROVE  OneAtATime'
  <2>1. UNCHANGED <<raw_hid_report_received, unanswered, answered, sent, answer, hasty>>
    BY <1>6, IdFacts DEF HostSetsLeds, SetReport, exchange
  <2>2. AnswerOnItsWay' <=> AnswerOnItsWay
    BY <1>6, WireStays DEF HostSetsLeds, vars
  <2> QED
    BY <2>1, <2>2
<1>7. CASE UNCHANGED viaVars
  BY <1>7, WireStays DEF viaVars, mailboxes, exchange, vars
<1> QED
  BY <1>1, <1>2, <1>3, <1>4, <1>5, <1>6, <1>7 DEF ViaNext

LEMMA AnswersOneAtATime == ViaSpec => [](Typed /\ Mailbox /\ OneAtATime)
<1>1. ViaInit => OneAtATime
  BY IdleFacts, IdFacts
     DEF ViaInit, Init, OneAtATime, AnswerOnItsWay, OnItsWay, Interface
<1>2. Typed /\ Mailbox /\ ExchangeTypes /\ OneAtATime /\ [ViaNext]_viaVars
        => OneAtATime'
  BY OneAtATimeStep
<1> QED
  BY <1>1, <1>2, ExchangeTyped, PTL DEF ViaSpec

(* A host that waits for each answer gets the answer to the command it has *)
(* just sent, for any number of commands, whatever reports of keys and     *)
(* mouse and whatever suspensions come in between.                         *)
THEOREM AnswerIsOwn == ViaSpec => OwnAnswer
<1>1. ASSUME Typed, Mailbox, OneAtATime, [ViaNext]_viaVars
      PROVE  [HostGetsAnswer /\ ~hasty => answered' = sent]_viaVars
  <2> SUFFICES ASSUME HostGetsAnswer, hasty # TRUE
               PROVE  answered' = sent
    OBVIOUS
  <2>1. AnswerOnItsWay /\ answer = sent
    BY <1>1 DEF HostGetsAnswer, AnswerOnItsWay, OneAtATime
  <2>2. CASE Schedule
    BY <2>1, <2>2 DEF Schedule
  <2>3. CASE Answer
    BY <2>1, <2>3 DEF Answer, ReportRawHid, HidReady, AnswerOnItsWay, OnItsWay
  <2>4. CASE delivered' = delivered
    BY <2>1, <2>4 DEF AnswerOnItsWay, OnItsWay, HostGetsAnswer
  <2> QED
    BY <1>1, <2>2, <2>3, <2>4
       DEF ViaNext, TakeCommand, Observe, HostSendsCommand, HostSetsLeds, viaVars, vars
<1> QED
  BY <1>1, AnswersOneAtATime, PTL DEF ViaSpec, OwnAnswer
=============================================================================
