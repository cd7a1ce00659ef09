----------------------------- MODULE SplitUart -----------------------------
(***************************************************************************)
(* The one-wire UART between the halves of a split keyboard                *)
(* (src/keyboard.c): c_Keyboard_uart_anchor sends a byte and listens,      *)
(* Keyboard_mutual_partner_get8_put24_blocking finds the frame, takes the  *)
(* byte and answers 24 bits.  Nothing but time synchronises them.          *)
(*                                                                         *)
(* Time advances in ticks of SAMPLING_INTERVAL; reading and driving the    *)
(* pin take none, and what the halves do at the same tick happens in any   *)
(* order.  Up to MaxLate times from one call of the anchor to the next, a  *)
(* sleep lasts one tick longer than asked.                                 *)
(* Bytes and words are the sets of their bits that are 1.                  *)
(***************************************************************************)
EXTENDS Integers, Sequences

CONSTANTS
  Bytes,         \* the bytes the anchor sends
  Words,         \* the words the partner answers with
  Pause,         \* ticks the anchor stays idle between two calls at least
  MaxLate,       \* ticks the sleeps of one exchange may be late
  NIL            \* the integer for a failed exchange, as the set of its bits

ASSUME DataAssumption ==
  /\ Bytes \subseteq SUBSET (0 .. 7)
  /\ Words \subseteq SUBSET (0 .. 23)
  /\ {Pause, MaxLate} \subseteq Nat
  /\ NIL \subseteq 0 .. 31

DATA_BITS == 8
SAMPLING_COUNT == 8
BIT_INTERVAL == SAMPLING_COUNT
LONG_STOP_BITS == 8
SHORT_STOP_BITS == 2
IDLE_BITS == 8

Half == BIT_INTERVAL \div 2
AnchorDmz == 4 * BIT_INTERVAL
PartnerDmz == 2 * BIT_INTERVAL

VARIABLES
  anchor,    \* where the anchor's code is, its pin and its locals
  partner,   \* the same for the partner
  met,       \* was the partner listening when the anchor called?
  returned,  \* what the anchor's last call returned, while it is idle
  late       \* ticks the sleeps were late since the anchor's last call

vars == <<anchor, partner, met, returned, late>>

(***************************************************************************)
(* The wire                                                                *)
(***************************************************************************)
Pulse(level, bits) == [level |-> level, length |-> bits * BIT_INTERVAL]
Bits(data, n) ==
  [i \in 1 .. n |-> Pulse(IF i - 1 \in data THEN 1 ELSE 0, 1)]

AnchorFrame(byte) ==
  <<Pulse(1, LONG_STOP_BITS), Pulse(0, 1)>> \o Bits(byte, DATA_BITS)
    \o <<Pulse(1, SHORT_STOP_BITS), Pulse(0, 1)>>

PartnerFrame(word) ==
  <<Pulse(0, IDLE_BITS), Pulse(1, 1), Pulse(0, 1)>> \o Bits(word, 3 * DATA_BITS)
    \o <<Pulse(1, 1)>>

(* A pin is the set of the levels it drives: none while it is an input.    *)
(* Levels a pin may read: the pull-up's when nobody drives, either one     *)
(* when the halves drive against each other.                               *)
Driven == anchor.pin \cup partner.pin
Line == IF Driven = {} THEN {1} ELSE Driven

(***************************************************************************)
(* The anchor                                                              *)
(***************************************************************************)
AnchorIdle == [at |-> "idle", left |-> 0, n |-> 0, pin |-> {0},
               byte |-> {}, word |-> {}, error |-> FALSE]

AnchorDue(at) == anchor.at = at /\ anchor.left = 0

AnchorOut(k, byte) ==
  LET pulse == AnchorFrame(byte)[k] IN
  anchor' = [anchor EXCEPT !.at = "send", !.n = k, !.byte = byte,
                           !.pin = {pulse.level}, !.left = pulse.length,
                           !.error = FALSE]

AnchorCall(byte) ==
  /\ AnchorDue("idle")
  /\ AnchorOut(1, byte)
  /\ met' = (partner.at = "low")
  /\ returned' = {}
  /\ late' = 0
  /\ UNCHANGED partner

AnchorSend ==
  /\ AnchorDue("send")
  /\ anchor.n < Len(AnchorFrame(anchor.byte))
  /\ AnchorOut(anchor.n + 1, anchor.byte)
  /\ UNCHANGED <<partner, met, returned, late>>

(* Definitions named ...Mutated are variants of the one that follows, each  *)
(* with a bug the properties must notice; the specification uses none.     *)
PinAfterFrameStillDrivenMutated == {0}

(* The anchor turns its pin into an input when its frame is out.           *)
PinAfterFrame == {}

AnchorRelease ==
  /\ AnchorDue("send")
  /\ anchor.n = Len(AnchorFrame(anchor.byte))
  /\ anchor' = [anchor EXCEPT !.at = "hunt", !.pin = PinAfterFrame, !.n = 0,
                              !.left = AnchorDmz + 1]
  /\ UNCHANGED <<partner, met, returned, late>>

(* The partner's idle bits end with the first 1; after n samples of 0 the  *)
(* anchor goes on whatever it saw.  It is an error if they were too few;   *)
(* they cannot be too many.                                                *)
AnchorHunt ==
  /\ AnchorDue("hunt")
  /\ \E level \in Line :
       LET samples == anchor.n + 1 - level IN
       anchor' =
         IF level = 1 \/ samples = SAMPLING_COUNT * IDLE_BITS
         THEN [anchor EXCEPT !.at = "sample", !.n = 0, !.left = Half,
                             !.error = samples < SAMPLING_COUNT * (IDLE_BITS - 2)]
         ELSE [anchor EXCEPT !.n = samples, !.left = 1]
  /\ UNCHANGED <<partner, met, returned, late>>

FirstDataSampleOffByOneMutated == 3

(* One sample in the middle of each bit: stop, start, 24 data bits.        *)
FirstDataSample == 2

AnchorSample ==
  /\ AnchorDue("sample")
  /\ anchor.n < 2 + 3 * DATA_BITS
  /\ \E level \in Line :
       anchor' =
         [anchor EXCEPT
            !.n = @ + 1, !.left = BIT_INTERVAL,
            !.error = @ \/ (anchor.n = 0 /\ level = 0) \/ (anchor.n = 1 /\ level = 1),
            !.word = IF anchor.n >= FirstDataSample /\ level = 1
                     THEN @ \cup {anchor.n - FirstDataSample} ELSE @]
  /\ UNCHANGED <<partner, met, returned, late>>

(* NIL is set as the return value after an error, and then the word, error *)
(* or not.                                                                 *)
AnchorValue(error, word) == word

(* The last sample is the stop bit's; the anchor drives 0 at once.         *)
AnchorReturn ==
  /\ AnchorDue("sample")
  /\ anchor.n = 2 + 3 * DATA_BITS
  /\ \E level \in Line :
       LET error == anchor.error \/ level = 0 IN
       /\ anchor' = [AnchorIdle EXCEPT !.left = Pause, !.error = error]
       /\ returned' = AnchorValue(error, anchor.word)
  /\ UNCHANGED <<partner, met, late>>

(***************************************************************************)
(* The partner                                                             *)
(***************************************************************************)
PartnerAway == [at |-> "away", left |-> 0, n |-> 0, pin |-> {},
                byte |-> {}, high |-> 0, word |-> {}]
PartnerWaits(word) == [PartnerAway EXCEPT !.at = "low", !.word = word]

PartnerDue(at) == partner.at = at /\ partner.left = 0

PartnerListen(word) ==
  /\ partner.at = "away"
  /\ partner' = PartnerWaits(word)
  /\ UNCHANGED <<anchor, met, returned, late>>

PartnerRise ==
  /\ partner.at = "low"
  /\ 1 \in Line
  /\ partner' = [partner EXCEPT !.at = "count", !.n = 0]
  /\ UNCHANGED <<anchor, met, returned, late>>

(* The counter of samples at 1 is a uint8_t.                               *)
LongStop == SAMPLING_COUNT * LONG_STOP_BITS
IsLongStopExactMutated(samples) == samples = LongStop
IsLongStop(samples) == samples + 5 >= LongStop /\ LongStop >= samples - 5

PartnerCount ==
  /\ PartnerDue("count")
  /\ \E level \in Line :
       partner' =
         IF level = 1
         THEN [partner EXCEPT !.n = (@ + 1) % 256, !.left = 1]
         ELSE IF IsLongStop(partner.n)
         THEN [partner EXCEPT !.at = "sample", !.n = 0, !.left = Half, !.byte = {}]
         ELSE PartnerWaits(partner.word)
  /\ UNCHANGED <<anchor, met, returned, late>>

LastSampleOneMoreMutated == DATA_BITS + 1

(* The start bit is looked at again, then the data bits are sampled.       *)
LastSample == DATA_BITS

PartnerSample ==
  /\ PartnerDue("sample")
  /\ \E level \in Line :
       partner' =
         IF partner.n = 0 /\ level = 1
         THEN PartnerWaits(partner.word)
         ELSE [partner EXCEPT
                 !.at = IF partner.n = LastSample THEN "measure" ELSE @,
                 !.n = IF partner.n = LastSample THEN 0 ELSE @ + 1,
                 !.left = IF partner.n = LastSample THEN Half + 1 ELSE BIT_INTERVAL,
                 !.byte = IF level = 1 THEN @ \cup {partner.n - 1} ELSE @,
                 !.high = 0]
  /\ UNCHANGED <<anchor, met, returned, late>>

ShortStopTooLongMutated == SAMPLING_COUNT * (SHORT_STOP_BITS + 1)

(* The anchor's short stop bit is as long as the samples at 1 say, give or *)
(* take two.                                                               *)
ShortStop == SAMPLING_COUNT * SHORT_STOP_BITS
IsShortStopAnyLongerMutated(samples) == samples + 2 >= ShortStop
IsShortStop(samples) == samples + 2 >= ShortStop /\ ShortStop >= samples - 2

PartnerMeasure ==
  /\ PartnerDue("measure")
  /\ \E level \in Line :
       LET high == partner.high + level IN
       partner' =
         IF partner.n + 1 < SAMPLING_COUNT * (SHORT_STOP_BITS + 1)
         THEN [partner EXCEPT !.n = @ + 1, !.high = high, !.left = 1]
         ELSE IF IsShortStop(high)
         THEN [partner EXCEPT !.at = "turn", !.n = 0, !.high = 0,
                                !.left = BIT_INTERVAL + PartnerDmz]
         ELSE PartnerWaits(partner.word)
  /\ UNCHANGED <<anchor, met, returned, late>>

PartnerOut(k) ==
  LET pulse == PartnerFrame(partner.word)[k] IN
  partner' = [partner EXCEPT !.at = "send", !.n = k, !.pin = {pulse.level},
                             !.left = pulse.length]

PartnerAnswer ==
  /\ PartnerDue("turn")
  /\ PartnerOut(1)
  /\ UNCHANGED <<anchor, met, returned, late>>

PartnerSend ==
  /\ PartnerDue("send")
  /\ partner.n < Len(PartnerFrame(partner.word))
  /\ PartnerOut(partner.n + 1)
  /\ UNCHANGED <<anchor, met, returned, late>>

PartnerReturn ==
  /\ PartnerDue("send")
  /\ partner.n = Len(PartnerFrame(partner.word))
  /\ partner' = PartnerAway
  /\ UNCHANGED <<anchor, met, returned, late>>

(***************************************************************************)
(* Time (external)                                                         *)
(***************************************************************************)
AnchorSleeps == anchor.at # "idle" \/ anchor.left > 0
PartnerSleeps == partner.at \notin {"away", "low"}

(* A tick passes when every sleep still lasts and the partner's busy wait  *)
(* has nothing to see.                                                     *)
Elapse ==
  /\ AnchorSleeps \/ PartnerSleeps
  /\ AnchorSleeps => anchor.left > 0
  /\ PartnerSleeps => partner.left > 0
  /\ partner.at = "low" => 1 \notin Line
  /\ anchor' = IF AnchorSleeps THEN [anchor EXCEPT !.left = @ - 1] ELSE anchor
  /\ partner' = IF PartnerSleeps THEN [partner EXCEPT !.left = @ - 1] ELSE partner
  /\ UNCHANGED <<met, returned, late>>

Oversleep ==
  /\ late < MaxLate
  /\ late' = late + 1
  /\ \/ /\ AnchorSleeps /\ anchor.left = 0
        /\ anchor' = [anchor EXCEPT !.left = 1]
        /\ UNCHANGED partner
     \/ /\ PartnerSleeps /\ partner.left = 0
        /\ partner' = [partner EXCEPT !.left = 1]
        /\ UNCHANGED anchor
  /\ UNCHANGED <<met, returned>>

-----------------------------------------------------------------------------
(* Keyboard_uart_anchor_init and Keyboard_uart_partner_init.               *)
Init ==
  /\ anchor = AnchorIdle
  /\ partner = PartnerAway
  /\ met = FALSE
  /\ returned = NIL
  /\ late = 0

Anchor ==
  \/ AnchorSend \/ AnchorRelease \/ AnchorHunt \/ AnchorSample \/ AnchorReturn

Partner ==
  \/ PartnerRise \/ PartnerCount \/ PartnerSample \/ PartnerMeasure
  \/ PartnerAnswer \/ PartnerSend \/ PartnerReturn

Next ==
  \/ \E byte \in Bytes : AnchorCall(byte)
  \/ Anchor
  \/ \E word \in Words : PartnerListen(word)
  \/ Partner
  \/ Elapse
  \/ Oversleep

Spec == Init /\ [][Next]_vars

(* Timers expire and code that is due runs; the anchor's loop calls again  *)
(* and the partner's loop listens again.                                   *)
Fairness ==
  /\ WF_vars(Elapse)
  /\ WF_vars(Anchor)
  /\ WF_vars(Partner)
  /\ WF_vars(\E byte \in Bytes : AnchorCall(byte))
  /\ WF_vars(\E word \in Words : PartnerListen(word))

FairSpec == Spec /\ Fairness
-----------------------------------------------------------------------------
(***************************************************************************)
(* Properties                                                              *)
(***************************************************************************)
AnchorPlaces == {"idle", "send", "hunt", "sample"}
PartnerPlaces == {"away", "low", "count", "sample", "measure", "turn", "send"}

(* Every variable keeps its type.                                          *)
TypeOK ==
  /\ anchor \in [at : AnchorPlaces, left : 0 .. LongStop + Pause, n : 0 .. LongStop,
                 pin : SUBSET {0, 1}, byte : Bytes \cup {{}},
                 word : SUBSET (0 .. 23), error : BOOLEAN]
  /\ partner \in [at : PartnerPlaces, left : 0 .. LongStop, n : 0 .. 255,
                  pin : SUBSET {0, 1}, byte : SUBSET (0 .. 7), high : 0 .. 24,
                  word : Words \cup {{}}]
  /\ met \in BOOLEAN
  /\ returned \in SUBSET (0 .. 31)
  /\ late \in 0 .. MaxLate

(* The partner never takes for a byte what the anchor did not send as one: *)
(* whatever moment it starts to listen at, whatever the counters wrap to,  *)
(* a frame it accepts is the one the anchor has just ended.                *)
FrameUnderstood ==
  partner.at = "turn" =>
    /\ partner.byte = anchor.byte
    /\ \/ anchor.at = "hunt"
       \/ anchor.at = "send" /\ anchor.n = Len(AnchorFrame(anchor.byte))

(* A call of the anchor that saw no error returns what the partner sent.   *)
WordIsPartners ==
  [][AnchorReturn /\ ~anchor'.error =>
       partner.at = "send" /\ returned' = partner.word]_vars

(* A partner that was listening when the anchor called gets its answer     *)
(* through.                                                                *)
MetSucceeds == [][AnchorReturn /\ met => ~anchor'.error]_vars

(* The halves drive against each other at the end of an exchange only,     *)
(* while the partner still sends its stop bit and the anchor is idle.      *)
ContentionIsBrief ==
  Driven = {0, 1} =>
    /\ anchor.at = "idle"
    /\ partner.at = "send" /\ partner.n = Len(PartnerFrame(partner.word))

(* A partner that listens gets a byte from the anchor some day: it never   *)
(* stays out of step with the frames for ever.                             *)
PartnerServed == partner.at = "low" ~> partner.at = "turn" /\ anchor.at = "hunt"

(* The comment at the end of c_Keyboard_uart_anchor: if (error || data24   *)
(* == 0) return NIL.                                                       *)
NilOnError ==
  [][AnchorReturn /\ (anchor'.error \/ anchor.word = {}) => returned' = NIL]_vars
=============================================================================
