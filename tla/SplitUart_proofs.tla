-------------------------- MODULE SplitUart_proofs --------------------------
(***************************************************************************)
(* Proofs about SplitUart for any bytes, words and NIL.  The types hold    *)
(* whatever the timing; that the two halves understand each other needs    *)
(* sleeps and pauses as the anchor's loop has them (Timely).               *)
(***************************************************************************)
EXTENDS SplitUart, SequenceTheorems, TLAPS

(***************************************************************************)
(* The frames                                                              *)
(***************************************************************************)
AnchorLevel(byte, k) ==
  IF k = 1 \/ k = 11 \/ (k \in 3 .. 10 /\ k - 3 \in byte) THEN 1 ELSE 0
AnchorLength(k) == IF k = 1 THEN 64 ELSE IF k = 11 THEN 16 ELSE 8

PartnerLevel(word, k) ==
  IF k = 2 \/ k = 28 \/ (k \in 4 .. 27 /\ k - 4 \in word) THEN 1 ELSE 0
PartnerLength(k) == IF k = 1 THEN 64 ELSE 8

Pulses == [level : {0, 1}, length : Nat]

LEMMA BitsAre ==
  ASSUME NEW data, NEW n \in Nat
  PROVE  /\ Bits(data, n) \in Seq(Pulses) /\ Len(Bits(data, n)) = n
         /\ \A i \in 1 .. n : Bits(data, n)[i] =
              [level |-> IF i - 1 \in data THEN 1 ELSE 0, length |-> 8]
<1>1. \A i \in 1 .. n : Pulse(IF i - 1 \in data THEN 1 ELSE 0, 1) \in Pulses
  BY DEF Pulse, Pulses, BIT_INTERVAL, SAMPLING_COUNT
<1>2. Bits(data, n) \in [1 .. n -> Pulses]
  BY <1>1 DEF Bits
<1>3. Bits(data, n) \in Seq(Pulses) /\ Len(Bits(data, n)) = n
  BY <1>2
<1> QED
  BY <1>3 DEF Bits, Pulse, BIT_INTERVAL, SAMPLING_COUNT

LEMMA AnchorFrameIs ==
  ASSUME NEW byte
  PROVE  /\ Len(AnchorFrame(byte)) = 12
         /\ \A k \in 1 .. 12 : AnchorFrame(byte)[k] =
              [level |-> AnchorLevel(byte, k), length |-> AnchorLength(k)]
<1> DEFINE start == <<Pulse(1, LONG_STOP_BITS), Pulse(0, 1)>>
           bits == Bits(byte, 8)
           stop == <<Pulse(1, SHORT_STOP_BITS), Pulse(0, 1)>>
           head == start \o bits
           frame == head \o stop
<1>1. /\ Pulse(1, LONG_STOP_BITS) = [level |-> 1, length |-> 64]
      /\ Pulse(1, SHORT_STOP_BITS) = [level |-> 1, length |-> 16]
      /\ Pulse(0, 1) = [level |-> 0, length |-> 8]
  BY DEF Pulse, BIT_INTERVAL, SAMPLING_COUNT, LONG_STOP_BITS, SHORT_STOP_BITS
<1>2. /\ start \in Seq(Pulses) /\ Len(start) = 2
      /\ start[1] = [level |-> 1, length |-> 64]
      /\ start[2] = [level |-> 0, length |-> 8]
  BY <1>1 DEF Pulses
<1>3. /\ stop \in Seq(Pulses) /\ Len(stop) = 2
      /\ stop[1] = [level |-> 1, length |-> 16]
      /\ stop[2] = [level |-> 0, length |-> 8]
  BY <1>1 DEF Pulses
<1>4. DATA_BITS \in Nat /\ DATA_BITS = 8
  BY DEF DATA_BITS
<1>5. /\ bits \in Seq(Pulses) /\ Len(bits) = 8
      /\ \A i \in 1 .. 8 :
           bits[i] = [level |-> IF i - 1 \in byte THEN 1 ELSE 0, length |-> 8]
  <2>1. bits \in Seq(Pulses) /\ Len(bits) = 8
    BY BitsAre, 8 \in Nat, Zenon
  <2>2. \A i \in 1 .. 8 :
          bits[i] = [level |-> IF i - 1 \in byte THEN 1 ELSE 0, length |-> 8]
    BY BitsAre
  <2> QED
    BY <2>1, <2>2
<1>6. AnchorFrame(byte) = frame
  BY <1>4 DEF AnchorFrame
<1> HIDE DEF start, bits, stop
<1>7. /\ head \in Seq(Pulses) /\ Len(head) = Len(start) + Len(bits)
      /\ \A i \in 1 .. Len(start) + Len(bits) :
           head[i] = IF i <= Len(start) THEN start[i] ELSE bits[i - Len(start)]
  <2>1. start \in Seq(Pulses) /\ bits \in Seq(Pulses)
    BY <1>2, <1>5
  <2> QED
    BY <2>1, ConcatProperties, Zenon
<1> HIDE DEF head
<1>8. /\ Len(frame) = Len(head) + Len(stop)
      /\ \A i \in 1 .. Len(head) + Len(stop) :
           frame[i] = IF i <= Len(head) THEN head[i] ELSE stop[i - Len(head)]
  <2>1. head \in Seq(Pulses) /\ stop \in Seq(Pulses)
    BY <1>3, <1>7
  <2> QED
    BY <2>1, ConcatProperties, Zenon
<1> HIDE DEF frame
<1>9. Len(start) = 2 /\ Len(bits) = 8 /\ Len(head) = 10 /\ Len(frame) = 12
  BY <1>2, <1>3, <1>5, <1>7, <1>8
<1>10. ASSUME NEW k \in 1 .. 12
       PROVE  frame[k] = [level |-> AnchorLevel(byte, k), length |-> AnchorLength(k)]
  <2>1. CASE k \in 3 .. 10
    <3>1. frame[k] = bits[k - 2] /\ k - 2 \in 1 .. 8 /\ k - 2 - 1 = k - 3
      BY <1>2, <1>3, <1>5, <1>7, <1>8, <1>9, <2>1
    <3>2. bits[k - 2] = [level |-> IF k - 2 - 1 \in byte THEN 1 ELSE 0, length |-> 8]
      BY <1>5, <3>1, Zenon
    <3>3. AnchorLength(k) = 8 /\ AnchorLevel(byte, k) = IF k - 3 \in byte THEN 1 ELSE 0
      BY <2>1 DEF AnchorLevel, AnchorLength
    <3> QED
      BY <3>1, <3>2, <3>3, Zenon
  <2>2. CASE k \in {1, 2}
    <3>1. frame[k] = start[k]
      BY <1>2, <1>3, <1>5, <1>7, <1>8, <1>9, <2>2
    <3> QED
      BY <1>2, <2>2, <3>1 DEF AnchorLevel, AnchorLength
  <2>3. CASE k \in {11, 12}
    <3>1. frame[k] = stop[k - 10]
      BY <1>3, <1>8, <1>9, <2>3
    <3> QED
      BY <1>3, <2>3, <3>1 DEF AnchorLevel, AnchorLength
  <2> QED
    BY <2>1, <2>2, <2>3
<1> QED
  BY <1>6, <1>9, <1>10

LEMMA PartnerFrameIs ==
  ASSUME NEW word
  PROVE  /\ Len(PartnerFrame(word)) = 28
         /\ \A k \in 1 .. 28 : PartnerFrame(word)[k] =
              [level |-> PartnerLevel(word, k), length |-> PartnerLength(k)]
<1> DEFINE start == <<Pulse(0, IDLE_BITS), Pulse(1, 1), Pulse(0, 1)>>
           bits == Bits(word, 24)
           stop == <<Pulse(1, 1)>>
           head == start \o bits
           frame == head \o stop
<1>1. /\ Pulse(0, IDLE_BITS) = [level |-> 0, length |-> 64]
      /\ Pulse(1, 1) = [level |-> 1, length |-> 8]
      /\ Pulse(0, 1) = [level |-> 0, length |-> 8]
  BY DEF Pulse, BIT_INTERVAL, SAMPLING_COUNT, IDLE_BITS
<1>2. /\ start \in Seq(Pulses) /\ Len(start) = 3
      /\ start[1] = [level |-> 0, length |-> 64]
      /\ start[2] = [level |-> 1, length |-> 8]
      /\ start[3] = [level |-> 0, length |-> 8]
  BY <1>1 DEF Pulses
<1>3. /\ stop \in Seq(Pulses) /\ Len(stop) = 1
      /\ stop[1] = [level |-> 1, length |-> 8]
  BY <1>1 DEF Pulses
<1>4. 3 * DATA_BITS \in Nat /\ 3 * DATA_BITS = 24
  BY DEF DATA_BITS
<1>5. /\ bits \in Seq(Pulses) /\ Len(bits) = 24
      /\ \A i \in 1 .. 24 :
           bits[i] = [level |-> IF i - 1 \in word THEN 1 ELSE 0, length |-> 8]
  <2>1. bits \in Seq(Pulses) /\ Len(bits) = 24
    <3>1. \A n \in Nat : Bits(word, n) \in Seq(Pulses) /\ Len(Bits(word, n)) = n
      BY BitsAre
    <3> QED
      BY <3>1
  <2>2. \A i \in 1 .. 24 :
          bits[i] = [level |-> IF i - 1 \in word THEN 1 ELSE 0, length |-> 8]
    BY BitsAre
  <2> QED
    BY <2>1, <2>2
<1>6. PartnerFrame(word) = frame
  BY <1>4 DEF PartnerFrame
<1> HIDE DEF start, bits, stop
<1>7. /\ head \in Seq(Pulses) /\ Len(head) = Len(start) + Len(bits)
      /\ \A i \in 1 .. Len(start) + Len(bits) :
           head[i] = IF i <= Len(start) THEN start[i] ELSE bits[i - Len(start)]
  <2>1. start \in Seq(Pulses) /\ bits \in Seq(Pulses)
    BY <1>2, <1>5
  <2> QED
    BY <2>1, ConcatProperties, Zenon
<1> HIDE DEF head
<1>8. /\ Len(frame) = Len(head) + Len(stop)
      /\ \A i \in 1 .. Len(head) + Len(stop) :
           frame[i] = IF i <= Len(head) THEN head[i] ELSE stop[i - Len(head)]
  <2>1. head \in Seq(Pulses) /\ stop \in Seq(Pulses)
    BY <1>3, <1>7
  <2> QED
    BY <2>1, ConcatProperties, Zenon
<1> HIDE DEF frame
<1>9. Len(start) = 3 /\ Len(bits) = 24 /\ Len(head) = 27 /\ Len(frame) = 28
  BY <1>2, <1>3, <1>5, <1>7, <1>8
<1>10. ASSUME NEW k \in 1 .. 28
       PROVE  frame[k] = [level |-> PartnerLevel(word, k), length |-> PartnerLength(k)]
  <2>1. CASE k \in 4 .. 27
    <3>1. frame[k] = bits[k - 3] /\ k - 3 \in 1 .. 24 /\ k - 3 - 1 = k - 4
      <4>5. k \in 1 .. Len(head) + Len(stop) /\ k <= Len(head)
        BY <1>3, <1>9, <2>1
      <4>1. frame[k] = head[k]
        BY <1>8, <4>5, Zenon
      <4>2. k \in 1 .. Len(start) + Len(bits) /\ ~(k <= Len(start))
        BY <1>9, <2>1
      <4>3. head[k] = bits[k - Len(start)]
        BY <1>7, <4>2, Zenon
      <4>4. k - Len(start) = k - 3 /\ k - 3 \in 1 .. 24 /\ k - 3 - 1 = k - 4
        BY <1>9, <2>1
      <4> QED
        BY <4>1, <4>3, <4>4, Zenon
    <3>2. bits[k - 3] = [level |-> IF k - 3 - 1 \in word THEN 1 ELSE 0, length |-> 8]
      BY <1>5, <3>1, Zenon
    <3>3. PartnerLength(k) = 8 /\ PartnerLevel(word, k) = IF k - 4 \in word THEN 1 ELSE 0
      BY <2>1 DEF PartnerLevel, PartnerLength
    <3> QED
      BY <3>1, <3>2, <3>3, Zenon
  <2>2. CASE k \in {1, 2, 3}
    <3>1. frame[k] = start[k]
      <4>1. /\ k \in 1 .. Len(head) + Len(stop) /\ k <= Len(head)
            /\ k \in 1 .. Len(start) + Len(bits) /\ k <= Len(start)
        BY <1>3, <1>9, <2>2
      <4>2. frame[k] = head[k]
        BY <1>8, <4>1, Zenon
      <4>3. head[k] = start[k]
        BY <1>7, <4>1, Zenon
      <4> QED
        BY <4>2, <4>3
    <3> QED
      BY <1>2, <2>2, <3>1 DEF PartnerLevel, PartnerLength
  <2>3. CASE k = 28
    <3>1. frame[k] = stop[k - 27]
      BY <1>3, <1>8, <1>9, <2>3
    <3> QED
      BY <1>3, <2>3, <3>1 DEF PartnerLevel, PartnerLength
  <2> QED
    BY <2>1, <2>2, <2>3
<1> QED
  BY <1>6, <1>9, <1>10

(***************************************************************************)
(* Each half by itself                                                     *)
(***************************************************************************)
AnchorTypes ==
  anchor \in [at : AnchorPlaces, left : Nat, n : Nat, pin : SUBSET {0, 1},
              byte : SUBSET (0 .. 7), word : SUBSET (0 .. 23), error : BOOLEAN]

PartnerTypes ==
  partner \in [at : PartnerPlaces, left : Nat, n : Nat, pin : SUBSET {0, 1},
               byte : SUBSET (0 .. 7), high : Nat, word : SUBSET (0 .. 23)]

DataTypes ==
  /\ anchor.byte \in Bytes \cup {{}} /\ partner.word \in Words \cup {{}}
  /\ met \in BOOLEAN /\ returned \in SUBSET (0 .. 31)
  /\ late \in Nat /\ late <= MaxLate

AnchorShape ==
  /\ anchor.at = "idle" => anchor.n = 0 /\ anchor.left <= Pause /\ anchor.pin = {0}
  /\ anchor.at = "send" =>
       /\ anchor.n \in 1 .. 12 /\ anchor.left <= AnchorLength(anchor.n)
       /\ anchor.pin = {AnchorLevel(anchor.byte, anchor.n)}
  /\ anchor.at = "hunt" =>
       /\ anchor.n < 64 /\ anchor.left <= 33 /\ anchor.pin = {}
       /\ anchor.n > 0 => anchor.left <= 1
  /\ anchor.at = "sample" =>
       /\ anchor.n <= 26 /\ anchor.left <= 8 /\ anchor.pin = {}
       /\ anchor.n = 0 => anchor.left <= 4
  /\ anchor.at # "sample" => anchor.word = {}

PartnerShape ==
  /\ partner.at # "send" => partner.pin = {}
  /\ partner.at \in {"away", "low"} => partner.left = 0 /\ partner.n = 0 /\ partner.high = 0
  /\ partner.at = "count" => partner.left <= 1 /\ partner.n <= 255
  /\ partner.at = "sample" => partner.n <= 8 /\ partner.left <= 8
  /\ partner.at # "measure" => partner.high = 0
  /\ partner.at = "measure" =>
       /\ partner.n <= 23 /\ partner.high <= partner.n /\ partner.left <= 5
       /\ partner.n > 0 => partner.left <= 1
  /\ partner.at = "turn" => partner.n = 0 /\ partner.left <= 24
  /\ partner.at = "send" =>
       /\ partner.n \in 1 .. 28 /\ partner.left <= PartnerLength(partner.n)
       /\ partner.pin = {PartnerLevel(partner.word, partner.n)}

AnchorFine == AnchorTypes /\ AnchorShape
PartnerFine == PartnerTypes /\ PartnerShape
Fine == AnchorFine /\ PartnerFine /\ DataTypes

LEMMA LineIsBinary == Fine => Line \subseteq {0, 1}
  BY DEF Fine, AnchorFine, PartnerFine, AnchorTypes, PartnerTypes, Line, Driven

LEMMA AnchorOutFine ==
  ASSUME AnchorFine, anchor.at # "sample",
         NEW k \in 1 .. 12, NEW byte \in SUBSET (0 .. 7), AnchorOut(k, byte)
  PROVE  /\ AnchorFine'
         /\ anchor'.at = "send" /\ anchor'.n = k /\ anchor'.byte = byte
         /\ anchor'.left = AnchorLength(k) /\ anchor'.error = FALSE
<1> DEFINE pulse == AnchorFrame(byte)[k]
<1>1. pulse = [level |-> AnchorLevel(byte, k), length |-> AnchorLength(k)]
  BY AnchorFrameIs
<1>2. pulse.level = AnchorLevel(byte, k) /\ pulse.length = AnchorLength(k)
  BY <1>1
<1>3. anchor' = [anchor EXCEPT !.at = "send", !.n = k, !.byte = byte,
                               !.pin = {AnchorLevel(byte, k)}, !.left = AnchorLength(k),
                               !.error = FALSE]
  BY <1>2 DEF AnchorOut
<1>4. {AnchorLevel(byte, k)} \in SUBSET {0, 1} /\ AnchorLength(k) \in Nat
  BY DEF AnchorLevel, AnchorLength
<1>5. /\ anchor'.at = "send" /\ anchor'.n = k /\ anchor'.byte = byte
      /\ anchor'.left = AnchorLength(k) /\ anchor'.error = FALSE
      /\ anchor'.pin = {AnchorLevel(byte, k)} /\ anchor'.word = anchor.word
  BY <1>3 DEF AnchorFine, AnchorTypes
<1>6. AnchorTypes'
  <2>1. PICK pin \in SUBSET {0, 1}, length \in Nat :
          pin = {AnchorLevel(byte, k)} /\ length = AnchorLength(k)
    BY <1>4
  <2>2. anchor' = [anchor EXCEPT !.at = "send", !.n = k, !.byte = byte, !.pin = pin,
                             !.left = length, !.error = FALSE]
    BY <1>3, <2>1
  <2>3. k \in Nat /\ "send" \in AnchorPlaces
    BY DEF AnchorPlaces
  <2> QED
    BY <2>2, <2>3 DEF AnchorFine, AnchorTypes
<1>7. AnchorShape'
  BY <1>4, <1>5 DEF AnchorFine, AnchorShape
<1> QED
  BY <1>5, <1>6, <1>7 DEF AnchorFine

LEMMA PartnerOutFine ==
  ASSUME PartnerFine, partner.at # "measure", NEW k \in 1 .. 28, PartnerOut(k)
  PROVE  /\ PartnerFine'
         /\ partner'.at = "send" /\ partner'.n = k /\ partner'.word = partner.word
         /\ partner'.left = PartnerLength(k)
<1> DEFINE pulse == PartnerFrame(partner.word)[k]
<1>1. pulse = [level |-> PartnerLevel(partner.word, k), length |-> PartnerLength(k)]
  BY PartnerFrameIs
<1>2. pulse.level = PartnerLevel(partner.word, k) /\ pulse.length = PartnerLength(k)
  BY <1>1
<1>3. partner' = [partner EXCEPT !.at = "send", !.n = k,
                                 !.pin = {PartnerLevel(partner.word, k)},
                                 !.left = PartnerLength(k)]
  BY <1>2 DEF PartnerOut
<1>4. {PartnerLevel(partner.word, k)} \in SUBSET {0, 1} /\ PartnerLength(k) \in Nat
  BY DEF PartnerLevel, PartnerLength
<1>5. /\ partner'.at = "send" /\ partner'.n = k /\ partner'.word = partner.word
      /\ partner'.left = PartnerLength(k) /\ partner'.high = partner.high
      /\ partner'.pin = {PartnerLevel(partner.word, k)}
  BY <1>3 DEF PartnerFine, PartnerTypes
<1>6. PartnerTypes'
  <2>1. PICK pin \in SUBSET {0, 1}, length \in Nat :
          pin = {PartnerLevel(partner.word, k)} /\ length = PartnerLength(k)
    BY <1>4
  <2>2. partner' = [partner EXCEPT !.at = "send", !.n = k, !.pin = pin,
                             !.left = length]
    BY <1>3, <2>1
  <2>3. k \in Nat /\ "send" \in PartnerPlaces
    BY DEF PartnerPlaces
  <2> QED
    BY <2>2, <2>3 DEF PartnerFine, PartnerTypes
<1>7. PartnerShape'
  BY <1>4, <1>5 DEF PartnerFine, PartnerShape
<1> QED
  BY <1>5, <1>6, <1>7 DEF PartnerFine

LEMMA PartnerWaitsFine ==
  ASSUME NEW word \in SUBSET (0 .. 23), partner' = PartnerWaits(word)
  PROVE  PartnerFine' /\ partner'.at = "low" /\ partner'.word = word
<1>1. partner' = [at |-> "low", left |-> 0, n |-> 0, pin |-> {}, byte |-> {},
                  high |-> 0, word |-> word]
  BY DEF PartnerWaits, PartnerAway
<1>2. PartnerTypes' /\ PartnerShape'
  BY <1>1 DEF PartnerTypes, PartnerShape, PartnerPlaces
<1> QED
  BY <1>1, <1>2 DEF PartnerFine

(* The steps of the anchor.                                                *)
LEMMA AnchorHuntIs ==
  ASSUME Fine, AnchorHunt
  PROVE  /\ anchor.at = "hunt" /\ anchor.left = 0
         /\ UNCHANGED <<partner, met, returned, late>>
         /\ \E level \in Line, samples \in Nat :
              /\ samples = anchor.n + 1 - level
              /\ anchor' = IF level = 1 \/ samples = 64
                           THEN [anchor EXCEPT !.at = "sample", !.n = 0, !.left = 4,
                                               !.error = samples < 48]
                           ELSE [anchor EXCEPT !.n = samples, !.left = 1]
<1>1. PICK level \in Line :
        anchor' = IF level = 1 \/ anchor.n + 1 - level = 64
                  THEN [anchor EXCEPT !.at = "sample", !.n = 0, !.left = 4,
                                      !.error = anchor.n + 1 - level < 48]
                  ELSE [anchor EXCEPT !.n = anchor.n + 1 - level, !.left = 1]
  <2> DEFINE all == SAMPLING_COUNT * IDLE_BITS
             few == SAMPLING_COUNT * (IDLE_BITS - 2)
  <2>1. PICK level \in Line :
          anchor' =
            IF level = 1 \/ anchor.n + 1 - level = all
            THEN [anchor EXCEPT !.at = "sample", !.n = 0, !.left = Half,
                                !.error = anchor.n + 1 - level < few]
            ELSE [anchor EXCEPT !.n = anchor.n + 1 - level, !.left = 1]
    BY Zenon DEF AnchorHunt
  <2>2. all = 64 /\ few = 48 /\ Half = 4
    BY DEF Half, BIT_INTERVAL, SAMPLING_COUNT, IDLE_BITS
  <2> HIDE DEF all, few
  <2>3. anchor' = IF level = 1 \/ anchor.n + 1 - level = 64
                  THEN [anchor EXCEPT !.at = "sample", !.n = 0, !.left = 4,
                                      !.error = anchor.n + 1 - level < 48]
                  ELSE [anchor EXCEPT !.n = anchor.n + 1 - level, !.left = 1]
    BY <2>1, <2>2, Zenon
  <2> QED
    BY <2>3, Zenon
<1>2. anchor.n + 1 - level \in Nat
  BY LineIsBinary DEF Fine, AnchorFine, AnchorTypes
<1>3. /\ anchor.at = "hunt" /\ anchor.left = 0
      /\ UNCHANGED <<partner, met, returned, late>>
  BY DEF AnchorHunt, AnchorDue
<1> QED
  BY <1>1, <1>2, <1>3, Zenon

LEMMA AnchorSampleIs ==
  ASSUME Fine, AnchorSample
  PROVE  /\ anchor.at = "sample" /\ anchor.left = 0 /\ anchor.n < 26
         /\ UNCHANGED <<partner, met, returned, late>>
         /\ \E level \in Line :
              anchor' =
                [anchor EXCEPT
                   !.n = anchor.n + 1, !.left = 8,
                   !.error = anchor.error \/ (anchor.n = 0 /\ level = 0)
                                          \/ (anchor.n = 1 /\ level = 1),
                   !.word = IF anchor.n >= 2 /\ level = 1
                            THEN anchor.word \cup {anchor.n - 2} ELSE anchor.word]
<1>1. FirstDataSample = 2 /\ BIT_INTERVAL = 8 /\ 2 + 3 * DATA_BITS = 26
  BY DEF FirstDataSample, BIT_INTERVAL, SAMPLING_COUNT, DATA_BITS
<1>2. /\ anchor.at = "sample" /\ anchor.left = 0 /\ anchor.n < 26
      /\ UNCHANGED <<partner, met, returned, late>>
  BY <1>1 DEF AnchorSample, AnchorDue
<1>3. PICK level \in Line :
        anchor' =
          [anchor EXCEPT
             !.n = anchor.n + 1, !.left = 8,
             !.error = anchor.error \/ (anchor.n = 0 /\ level = 0)
                                    \/ (anchor.n = 1 /\ level = 1),
             !.word = IF anchor.n >= 2 /\ level = 1
                      THEN anchor.word \cup {anchor.n - 2} ELSE anchor.word]
  BY <1>1 DEF AnchorSample
<1> QED
  BY <1>2, <1>3, Zenon

LEMMA AnchorReturnIs ==
  ASSUME Fine, AnchorReturn
  PROVE  /\ anchor.at = "sample" /\ anchor.left = 0 /\ anchor.n = 26
         /\ UNCHANGED <<partner, met, late>> /\ returned' = anchor.word
         /\ \E level \in Line, error \in BOOLEAN :
              /\ error <=> anchor.error \/ level = 0
              /\ anchor' = [at |-> "idle", left |-> Pause, n |-> 0, pin |-> {0},
                            byte |-> {}, word |-> {}, error |-> error]
<1>1. 2 + 3 * DATA_BITS = 26
  BY DEF DATA_BITS
<1>2. /\ anchor.at = "sample" /\ anchor.left = 0 /\ anchor.n = 26
      /\ UNCHANGED <<partner, met, late>> /\ returned' = anchor.word
  BY <1>1 DEF AnchorReturn, AnchorDue, AnchorValue
<1>3. PICK level \in Line :
        anchor' = [AnchorIdle EXCEPT !.left = Pause, !.error = anchor.error \/ level = 0]
  BY Zenon DEF AnchorReturn
<1>4. PICK error \in BOOLEAN : error <=> anchor.error \/ level = 0
  OBVIOUS
<1>5. anchor' = [at |-> "idle", left |-> Pause, n |-> 0, pin |-> {0},
                 byte |-> {}, word |-> {}, error |-> error]
  BY <1>3, <1>4 DEF AnchorIdle
<1> QED
  BY <1>2, <1>4, <1>5, Zenon

LEMMA AnchorFineStep ==
  ASSUME Fine, Anchor \/ \E byte \in Bytes : AnchorCall(byte)
  PROVE  Fine'
<1> USE DEF Fine
<1>1. ASSUME NEW byte \in Bytes, AnchorCall(byte)
      PROVE  Fine'
  <2>1. byte \in SUBSET (0 .. 7) /\ 1 \in 1 .. 12 /\ AnchorOut(1, byte) /\ anchor.at # "sample"
    BY <1>1, DataAssumption DEF AnchorCall, AnchorDue
  <2>2. AnchorFine' /\ anchor'.byte = byte
    BY <2>1, AnchorOutFine
  <2> QED
    BY <1>1, <2>2, DataAssumption DEF AnchorCall, DataTypes, PartnerFine, PartnerTypes, PartnerShape
<1>2. CASE AnchorSend
  <2>1. Len(AnchorFrame(anchor.byte)) = 12
    BY AnchorFrameIs
  <2>2. /\ anchor.n + 1 \in 1 .. 12 /\ anchor.byte \in SUBSET (0 .. 7)
        /\ AnchorOut(anchor.n + 1, anchor.byte) /\ anchor.at # "sample"
    BY <1>2, <2>1 DEF AnchorSend, AnchorDue, AnchorFine, AnchorTypes, AnchorShape
  <2>3. AnchorFine' /\ anchor'.byte = anchor.byte
    BY <2>2, AnchorOutFine
  <2>4. UNCHANGED <<partner, met, returned, late>>
    BY <1>2 DEF AnchorSend
  <2>5. DataTypes' /\ PartnerTypes' /\ PartnerShape'
    BY <2>3, <2>4 DEF DataTypes, PartnerFine, PartnerTypes, PartnerShape
  <2> QED
    BY <2>3, <2>5 DEF PartnerFine
<1>3. ASSUME UNCHANGED <<partner, met, late>>, AnchorFine', returned' \in SUBSET (0 .. 31),
             anchor'.byte \in Bytes \cup {{}}
      PROVE  Fine'
  BY <1>3 DEF DataTypes, PartnerFine, PartnerTypes, PartnerShape
<1>4. CASE AnchorRelease
  <2>1. anchor' = [anchor EXCEPT !.at = "hunt", !.pin = {}, !.n = 0, !.left = 33]
    BY <1>4 DEF AnchorRelease, PinAfterFrame, AnchorDmz, BIT_INTERVAL, SAMPLING_COUNT
  <2>2. AnchorFine' /\ anchor'.byte = anchor.byte
    <3>1. {} \in SUBSET {0, 1} /\ 0 \in Nat /\ 33 \in Nat /\ "hunt" \in AnchorPlaces
      BY DEF AnchorPlaces
    <3>2. AnchorTypes'
      BY <2>1, <3>1 DEF AnchorFine, AnchorTypes
    <3>3. AnchorShape'
      <4>1. anchor.at = "send"
        BY <1>4 DEF AnchorRelease, AnchorDue
      <4>2. /\ anchor'.at = "hunt" /\ anchor'.n = 0 /\ anchor'.left = 33
            /\ anchor'.pin = {} /\ anchor'.word = anchor.word
        BY <2>1 DEF AnchorFine, AnchorTypes
      <4> QED
        BY <4>1, <4>2 DEF AnchorFine, AnchorShape
    <3> QED
      BY <2>1, <3>2, <3>3 DEF AnchorFine, AnchorTypes
  <2> QED
    BY <1>3, <1>4, <2>2 DEF AnchorRelease, DataTypes
<1>5. CASE AnchorHunt
  <2>1. PICK level \in {0, 1}, samples \in Nat :
          /\ samples = anchor.n + 1 - level
          /\ anchor' = IF level = 1 \/ samples = 64
                       THEN [anchor EXCEPT !.at = "sample", !.n = 0, !.left = 4,
                                           !.error = samples < 48]
                       ELSE [anchor EXCEPT !.n = samples, !.left = 1]
    BY <1>5, AnchorHuntIs, LineIsBinary
  <2>2. anchor.at = "hunt"
    BY <1>5 DEF AnchorHunt, AnchorDue
  <2>3. level = 1 \/ samples = 64 => AnchorFine'
    <3> SUFFICES ASSUME level = 1 \/ samples = 64
                 PROVE  AnchorFine'
      OBVIOUS
    <3>1. PICK error \in BOOLEAN :
            anchor' = [anchor EXCEPT !.at = "sample", !.n = 0, !.left = 4, !.error = error]
      <4>1. (samples < 48) \in BOOLEAN
        OBVIOUS
      <4> QED
        BY <2>1, <4>1, Zenon
    <3>2. AnchorTypes'
      BY <3>1 DEF AnchorFine, AnchorTypes, AnchorPlaces
    <3>3. AnchorShape'
      BY <2>2, <3>1 DEF AnchorFine, AnchorTypes, AnchorShape
    <3> QED
      BY <3>2, <3>3 DEF AnchorFine
  <2>4. ~(level = 1 \/ samples = 64) => AnchorFine'
    <3> SUFFICES ASSUME ~(level = 1 \/ samples = 64)
                 PROVE  AnchorFine'
      OBVIOUS
    <3>1. anchor' = [anchor EXCEPT !.n = samples, !.left = 1] /\ samples = anchor.n + 1
      BY <2>1 DEF AnchorFine, AnchorTypes
    <3>2. AnchorTypes'
      BY <3>1 DEF AnchorFine, AnchorTypes
    <3>3. AnchorShape'
      BY <2>2, <3>1 DEF AnchorFine, AnchorTypes, AnchorShape
    <3> QED
      BY <3>2, <3>3 DEF AnchorFine
  <2>5. anchor'.byte = anchor.byte
    BY <2>1 DEF AnchorFine, AnchorTypes
  <2> QED
    BY <1>3, <1>5, <2>3, <2>4, <2>5 DEF AnchorHunt, DataTypes
<1>6. CASE AnchorSample
  <2>1. anchor.at = "sample" /\ anchor.n < 26
    BY <1>6 DEF AnchorSample, AnchorDue, DATA_BITS
  <2>2. PICK error \in BOOLEAN, word \in SUBSET (0 .. 23) :
          anchor' = [anchor EXCEPT !.n = anchor.n + 1, !.left = 8, !.error = error,
                                   !.word = word]
    <3>1. PICK level \in Line :
            anchor' =
              [anchor EXCEPT
                 !.n = anchor.n + 1, !.left = 8,
                 !.error = anchor.error \/ (anchor.n = 0 /\ level = 0)
                                        \/ (anchor.n = 1 /\ level = 1),
                 !.word = IF anchor.n >= 2 /\ level = 1
                          THEN anchor.word \cup {anchor.n - 2} ELSE anchor.word]
      BY <1>6, AnchorSampleIs
    <3>2. (IF anchor.n >= 2 /\ level = 1 THEN anchor.word \cup {anchor.n - 2}
           ELSE anchor.word) \in SUBSET (0 .. 23)
      BY <2>1 DEF AnchorFine, AnchorTypes
    <3> QED
      BY <3>1, <3>2 DEF AnchorFine, AnchorTypes
  <2>3. AnchorTypes' /\ anchor'.byte = anchor.byte
    <3>1. anchor.n + 1 \in Nat
      BY DEF AnchorFine, AnchorTypes
    <3> QED
      BY <2>2, <3>1 DEF AnchorFine, AnchorTypes
  <2>4. AnchorShape'
    BY <2>1, <2>2 DEF AnchorFine, AnchorTypes, AnchorShape
  <2> QED
    BY <1>3, <1>6, <2>3, <2>4 DEF AnchorSample, AnchorFine, DataTypes
<1>7. CASE AnchorReturn
  <2>1. PICK error \in BOOLEAN :
          anchor' = [at |-> "idle", left |-> Pause, n |-> 0, pin |-> {0},
                     byte |-> {}, word |-> {}, error |-> error]
    BY <1>7, AnchorReturnIs
  <2>2. returned' = anchor.word
    BY <1>7, AnchorReturnIs
  <2>3. AnchorFine' /\ anchor'.byte = {}
    BY <2>1, DataAssumption DEF AnchorFine, AnchorTypes, AnchorShape, AnchorPlaces
  <2>4. returned' \in SUBSET (0 .. 31)
    BY <2>2 DEF AnchorFine, AnchorTypes
  <2> QED
    BY <1>3, <1>7, <2>3, <2>4 DEF AnchorReturn
<1> QED
  BY <1>1, <1>2, <1>4, <1>5, <1>6, <1>7 DEF Anchor

(* The steps of the partner.                                               *)
LEMMA PartnerCountIs ==
  ASSUME Fine, PartnerCount
  PROVE  /\ partner.at = "count" /\ partner.left = 0
         /\ UNCHANGED <<anchor, met, returned, late>>
         /\ \/ /\ 1 \in Line
               /\ partner' = [partner EXCEPT !.n = (partner.n + 1) % 256, !.left = 1]
            \/ /\ 0 \in Line /\ partner.n \in 59 .. 69
               /\ partner' = [partner EXCEPT !.at = "sample", !.n = 0, !.left = 4,
                                             !.byte = {}]
            \/ /\ 0 \in Line /\ partner.n \notin 59 .. 69
               /\ partner' = PartnerWaits(partner.word)
<1>1. /\ partner.at = "count" /\ partner.left = 0
      /\ UNCHANGED <<anchor, met, returned, late>>
  BY DEF PartnerCount, PartnerDue
<1>2. Half = 4
  BY DEF Half, BIT_INTERVAL, SAMPLING_COUNT
<1>3. PICK level \in Line :
        partner' =
          IF level = 1
          THEN [partner EXCEPT !.n = (partner.n + 1) % 256, !.left = 1]
          ELSE IF IsLongStop(partner.n)
          THEN [partner EXCEPT !.at = "sample", !.n = 0, !.left = 4, !.byte = {}]
          ELSE PartnerWaits(partner.word)
  BY <1>2 DEF PartnerCount
<1>4. level \in {0, 1}
  BY LineIsBinary
<1>5. IsLongStop(partner.n) <=> partner.n \in 59 .. 69
  BY DEF IsLongStop, LongStop, SAMPLING_COUNT, LONG_STOP_BITS, Fine, PartnerFine, PartnerTypes
<1>6. CASE level = 1
  BY <1>1, <1>3, <1>6, Zenon
<1>7. CASE level = 0 /\ IsLongStop(partner.n)
  <2>1. level # 1
    BY <1>7
  <2> QED
    BY <1>1, <1>3, <1>5, <1>7, <2>1, Zenon
<1>8. CASE level = 0 /\ ~IsLongStop(partner.n)
  <2>1. level # 1
    BY <1>8
  <2> QED
    BY <1>1, <1>3, <1>5, <1>8, <2>1, Zenon
<1> QED
  BY <1>4, <1>6, <1>7, <1>8

LEMMA PartnerSampleIs ==
  ASSUME Fine, PartnerSample
  PROVE  /\ partner.at = "sample" /\ partner.left = 0
         /\ UNCHANGED <<anchor, met, returned, late>>
         /\ \E level \in Line :
              \/ /\ partner.n = 0 /\ level = 1
                 /\ partner' = PartnerWaits(partner.word)
              \/ /\ partner.n < 8 /\ ~(partner.n = 0 /\ level = 1)
                 /\ partner' = [partner EXCEPT
                      !.n = partner.n + 1, !.left = 8, !.high = 0,
                      !.byte = IF level = 1 THEN partner.byte \cup {partner.n - 1}
                               ELSE partner.byte]
              \/ /\ partner.n = 8
                 /\ partner' = [partner EXCEPT
                      !.at = "measure", !.n = 0, !.left = 5, !.high = 0,
                      !.byte = IF level = 1 THEN partner.byte \cup {partner.n - 1}
                               ELSE partner.byte]
<1>1. /\ partner.at = "sample" /\ partner.left = 0
      /\ UNCHANGED <<anchor, met, returned, late>>
  BY DEF PartnerSample, PartnerDue
<1>2. LastSample = 8 /\ Half + 1 = 5 /\ BIT_INTERVAL = 8
  BY DEF LastSample, DATA_BITS, Half, BIT_INTERVAL, SAMPLING_COUNT
<1>3. PICK level \in Line :
        partner' =
          IF partner.n = 0 /\ level = 1
          THEN PartnerWaits(partner.word)
          ELSE [partner EXCEPT
                  !.at = IF partner.n = 8 THEN "measure" ELSE partner.at,
                  !.n = IF partner.n = 8 THEN 0 ELSE partner.n + 1,
                  !.left = IF partner.n = 8 THEN 5 ELSE 8,
                  !.byte = IF level = 1 THEN partner.byte \cup {partner.n - 1}
                           ELSE partner.byte,
                  !.high = 0]
  BY <1>2 DEF PartnerSample
<1>4. partner.n \in Nat /\ partner.n <= 8
  BY <1>1 DEF Fine, PartnerFine, PartnerTypes, PartnerShape
<1> DEFINE byte == IF level = 1 THEN partner.byte \cup {partner.n - 1} ELSE partner.byte
<1>5. CASE partner.n = 0 /\ level = 1
  BY <1>1, <1>3, <1>5, Zenon
<1>6. CASE partner.n < 8 /\ ~(partner.n = 0 /\ level = 1)
  <2>1. partner.n # 8
    BY <1>6
  <2>2. partner' = [partner EXCEPT !.at = partner.at, !.n = partner.n + 1, !.left = 8,
                                   !.byte = byte, !.high = 0]
    BY <1>3, <1>6, <2>1, Zenon
  <2> HIDE DEF byte
  <2>3. partner' = [partner EXCEPT !.n = partner.n + 1, !.left = 8, !.high = 0,
                                   !.byte = byte]
    BY <2>2 DEF Fine, PartnerFine, PartnerTypes
  <2> USE DEF byte
  <2> QED
    BY <1>1, <1>6, <2>3, Zenon
<1>7. CASE partner.n = 8
  <2>1. partner.n # 0
    BY <1>7
  <2>2. partner' = [partner EXCEPT !.at = "measure", !.n = 0, !.left = 5,
                                   !.byte = byte, !.high = 0]
    BY <1>3, <1>7, <2>1, Zenon
  <2> HIDE DEF byte
  <2>3. partner' = [partner EXCEPT !.at = "measure", !.n = 0, !.left = 5, !.high = 0,
                                   !.byte = byte]
    BY <2>2 DEF Fine, PartnerFine, PartnerTypes
  <2> USE DEF byte
  <2> QED
    BY <1>1, <1>7, <2>3, Zenon
<1>8. \/ partner.n = 0 /\ level = 1
      \/ partner.n < 8 /\ ~(partner.n = 0 /\ level = 1)
      \/ partner.n = 8
  BY <1>4
<1> QED
  BY <1>5, <1>6, <1>7, <1>8, Zenon

LEMMA PartnerMeasureIs ==
  ASSUME Fine, PartnerMeasure
  PROVE  /\ partner.at = "measure" /\ partner.left = 0
         /\ UNCHANGED <<anchor, met, returned, late>>
         /\ \E level \in Line :
              \/ /\ partner.n < 23
                 /\ partner' = [partner EXCEPT !.n = partner.n + 1,
                                               !.high = partner.high + level, !.left = 1]
              \/ /\ partner.n = 23 /\ partner.high + level \in 14 .. 18
                 /\ partner' = [partner EXCEPT !.at = "turn", !.n = 0, !.high = 0,
                                               !.left = 24]
              \/ /\ partner.n = 23 /\ partner.high + level \notin 14 .. 18
                 /\ partner' = PartnerWaits(partner.word)
<1>1. /\ partner.at = "measure" /\ partner.left = 0
      /\ UNCHANGED <<anchor, met, returned, late>>
  BY DEF PartnerMeasure, PartnerDue
<1>2. SAMPLING_COUNT * (SHORT_STOP_BITS + 1) = 24 /\ BIT_INTERVAL + PartnerDmz = 24
  BY DEF PartnerDmz, BIT_INTERVAL, SAMPLING_COUNT, SHORT_STOP_BITS
<1>3. PICK level \in Line :
        partner' =
          IF partner.n + 1 < 24
          THEN [partner EXCEPT !.n = partner.n + 1, !.high = partner.high + level,
                               !.left = 1]
          ELSE IF IsShortStop(partner.high + level)
          THEN [partner EXCEPT !.at = "turn", !.n = 0, !.high = 0, !.left = 24]
          ELSE PartnerWaits(partner.word)
  BY <1>2 DEF PartnerMeasure
<1>4. level \in {0, 1} /\ partner.n \in Nat /\ partner.n <= 23 /\ partner.high \in Nat
  BY <1>1, LineIsBinary DEF Fine, PartnerFine, PartnerTypes, PartnerShape
<1>5. IsShortStop(partner.high + level) <=> partner.high + level \in 14 .. 18
  BY <1>4 DEF IsShortStop, ShortStop, SAMPLING_COUNT, SHORT_STOP_BITS
<1>6. CASE partner.n < 23
  <2>1. partner.n + 1 < 24
    BY <1>4, <1>6
  <2> QED
    BY <1>1, <1>3, <1>6, <2>1, Zenon
<1>7. CASE partner.n = 23
  <2>1. ~(partner.n + 1 < 24)
    BY <1>7
  <2> QED
    BY <1>1, <1>3, <1>5, <1>7, <2>1, Zenon
<1>8. partner.n < 23 \/ partner.n = 23
  BY <1>4
<1> QED
  BY <1>6, <1>7, <1>8, Zenon

LEMMA PartnerFineStep ==
  ASSUME Fine, Partner \/ \E word \in Words : PartnerListen(word)
  PROVE  Fine'
<1> USE DEF Fine
<1>1. ASSUME UNCHANGED <<anchor, met, returned, late>>, PartnerFine',
             partner'.word \in Words \cup {{}}
      PROVE  Fine'
  BY <1>1 DEF DataTypes, AnchorFine, AnchorTypes, AnchorShape
<1>2. partner.word \in SUBSET (0 .. 23) /\ partner.word \in Words \cup {{}}
  BY DEF PartnerFine, PartnerTypes, DataTypes
<1>3. ASSUME UNCHANGED <<anchor, met, returned, late>>,
             partner' = PartnerWaits(partner.word)
      PROVE  Fine'
  BY <1>1, <1>2, <1>3, PartnerWaitsFine
<1>4. ASSUME NEW word \in Words, PartnerListen(word)
      PROVE  Fine'
  <2>1. word \in SUBSET (0 .. 23)
    BY DataAssumption
  <2>2. PartnerFine' /\ partner'.word = word
    BY <1>4, <2>1, PartnerWaitsFine DEF PartnerListen
  <2> QED
    BY <1>1, <1>4, <2>2 DEF PartnerListen
<1>5. CASE PartnerRise
  <2>1. partner' = [partner EXCEPT !.at = "count", !.n = 0] /\ partner.at = "low"
    BY <1>5 DEF PartnerRise
  <2>2. PartnerTypes' /\ PartnerShape' /\ partner'.word = partner.word
    <3>1. PartnerTypes' /\ partner'.word = partner.word
      BY <2>1 DEF PartnerFine, PartnerTypes, PartnerShape, PartnerPlaces
    <3>2. PartnerShape'
      BY <2>1 DEF PartnerFine, PartnerTypes, PartnerShape, PartnerPlaces
    <3> QED
      BY <3>1, <3>2
  <2> QED
    BY <1>1, <1>2, <1>5, <2>2 DEF PartnerRise, PartnerFine
<1>6. CASE PartnerCount
  <2>1. CASE partner' = [partner EXCEPT !.n = (partner.n + 1) % 256, !.left = 1]
    <3>1. PICK n \in Nat : n = (partner.n + 1) % 256 /\ n <= 255
      BY DEF PartnerFine, PartnerTypes
    <3>2. partner' = [partner EXCEPT !.n = n, !.left = 1]
      BY <2>1, <3>1
    <3>3. PartnerTypes' /\ PartnerShape' /\ partner'.word = partner.word
      <4>1. PartnerTypes' /\ partner'.word = partner.word
        <5>1. PartnerTypes
          BY DEF PartnerFine
        <5>2. PartnerTypes'
          BY <3>2, <5>1 DEF PartnerTypes
        <5>3. partner'.word = partner.word
          BY <3>2, <5>1 DEF PartnerTypes
        <5> QED
          BY <5>2, <5>3
      <4>2. PartnerShape'
        BY <1>6, <3>1, <3>2, PartnerCountIs DEF PartnerFine, PartnerTypes, PartnerShape, PartnerPlaces
      <4> QED
        BY <4>1, <4>2
    <3> QED
      BY <1>1, <1>2, <1>6, <3>3, PartnerCountIs DEF PartnerFine
  <2>2. CASE partner' = [partner EXCEPT !.at = "sample", !.n = 0, !.left = 4, !.byte = {}]
    <3>1. PartnerTypes' /\ PartnerShape' /\ partner'.word = partner.word
      <4>1. PartnerTypes' /\ partner'.word = partner.word
        BY <1>6, <2>2, PartnerCountIs DEF PartnerFine, PartnerTypes, PartnerShape, PartnerPlaces
      <4>2. PartnerShape'
        BY <1>6, <2>2, PartnerCountIs DEF PartnerFine, PartnerTypes, PartnerShape, PartnerPlaces
      <4> QED
        BY <4>1, <4>2
    <3> QED
      BY <1>1, <1>2, <1>6, <3>1, PartnerCountIs DEF PartnerFine
  <2> QED
    BY <1>3, <1>6, <2>1, <2>2, PartnerCountIs
<1>7. CASE PartnerSample
  <2>1. PICK level \in Line :
          \/ /\ partner.n = 0 /\ level = 1
             /\ partner' = PartnerWaits(partner.word)
          \/ /\ partner.n < 8 /\ ~(partner.n = 0 /\ level = 1)
             /\ partner' = [partner EXCEPT
                  !.n = partner.n + 1, !.left = 8, !.high = 0,
                  !.byte = IF level = 1 THEN partner.byte \cup {partner.n - 1}
                           ELSE partner.byte]
          \/ /\ partner.n = 8
             /\ partner' = [partner EXCEPT
                  !.at = "measure", !.n = 0, !.left = 5, !.high = 0,
                  !.byte = IF level = 1 THEN partner.byte \cup {partner.n - 1}
                           ELSE partner.byte]
    BY <1>7, PartnerSampleIs
  <2>2. /\ partner.at = "sample" /\ partner.n \in Nat /\ partner.n <= 8
        /\ UNCHANGED <<anchor, met, returned, late>>
    BY <1>7, PartnerSampleIs DEF PartnerFine, PartnerTypes, PartnerShape
  <2> DEFINE heard == IF level = 1 THEN partner.byte \cup {partner.n - 1}
                      ELSE partner.byte
  <2>3. ~(partner.n = 0 /\ level = 1) => heard \in SUBSET (0 .. 7)
    <3>1. partner.byte \in SUBSET (0 .. 7)
      BY DEF PartnerFine, PartnerTypes
    <3>2. CASE level = 1 /\ partner.n # 0
      BY <2>2, <3>1, <3>2
    <3>3. CASE level # 1
      BY <3>1, <3>3
    <3> QED
      BY <3>2, <3>3
  <2>4. ASSUME partner.n < 8, ~(partner.n = 0 /\ level = 1),
               NEW byte \in SUBSET (0 .. 7),
               partner' = [partner EXCEPT !.n = partner.n + 1, !.left = 8, !.high = 0,
                                          !.byte = byte]
        PROVE  Fine'
    <3>1. PICK n \in Nat : n = partner.n + 1
      BY <2>2
    <3>2. partner' = [partner EXCEPT !.n = n, !.left = 8, !.high = 0, !.byte = byte]
      BY <2>4, <3>1
    <3>3. PartnerTypes' /\ PartnerShape' /\ partner'.word = partner.word
      <4>1. PartnerTypes' /\ partner'.word = partner.word
        BY <3>2 DEF PartnerFine, PartnerTypes
      <4>2. PartnerShape'
        BY <2>2, <2>4, <3>1, <3>2 DEF PartnerFine, PartnerTypes, PartnerShape
      <4> QED
        BY <4>1, <4>2
    <3> QED
      BY <1>1, <1>2, <2>2, <3>3 DEF PartnerFine
  <2>5. ASSUME partner.n = 8, NEW byte \in SUBSET (0 .. 7),
               partner' = [partner EXCEPT !.at = "measure", !.n = 0, !.left = 5,
                                          !.high = 0, !.byte = byte]
        PROVE  Fine'
    <3>1. PartnerTypes' /\ PartnerShape' /\ partner'.word = partner.word
      <4>1. PartnerTypes' /\ partner'.word = partner.word
        BY <2>2, <2>5 DEF PartnerFine, PartnerTypes, PartnerShape, PartnerPlaces
      <4>2. PartnerShape'
        BY <2>2, <2>5 DEF PartnerFine, PartnerTypes, PartnerShape, PartnerPlaces
      <4> QED
        BY <4>1, <4>2
    <3> QED
      BY <1>1, <1>2, <2>2, <3>1 DEF PartnerFine
  <2> HIDE DEF heard
  <2>6. \/ partner' = PartnerWaits(partner.word)
        \/ /\ partner.n < 8 /\ ~(partner.n = 0 /\ level = 1)
           /\ partner' = [partner EXCEPT !.n = partner.n + 1, !.left = 8, !.high = 0,
                                         !.byte = heard]
        \/ /\ partner.n = 8 /\ ~(partner.n = 0 /\ level = 1)
           /\ partner' = [partner EXCEPT !.at = "measure", !.n = 0, !.left = 5,
                                         !.high = 0, !.byte = heard]
    <3>1. partner.n = 8 => ~(partner.n = 0 /\ level = 1)
      OBVIOUS
    <3> QED
      BY <2>1, <3>1, Zenon DEF heard
  <2> QED
    BY <1>3, <2>2, <2>3, <2>4, <2>5, <2>6, Zenon
<1>8. CASE PartnerMeasure
  <2>1. PICK level \in Line :
          \/ /\ partner.n < 23
             /\ partner' = [partner EXCEPT !.n = partner.n + 1,
                                           !.high = partner.high + level, !.left = 1]
          \/ /\ partner.n = 23 /\ partner.high + level \in 14 .. 18
             /\ partner' = [partner EXCEPT !.at = "turn", !.n = 0, !.high = 0,
                                           !.left = 24]
          \/ /\ partner.n = 23 /\ partner.high + level \notin 14 .. 18
             /\ partner' = PartnerWaits(partner.word)
    BY <1>8, PartnerMeasureIs
  <2>2. /\ partner.at = "measure" /\ partner.n \in Nat /\ partner.n <= 23
        /\ UNCHANGED <<anchor, met, returned, late>> /\ level \in {0, 1}
    BY <1>8, PartnerMeasureIs, LineIsBinary DEF PartnerFine, PartnerTypes, PartnerShape
  <2>3. CASE /\ partner.n < 23
             /\ partner' = [partner EXCEPT !.n = partner.n + 1,
                                           !.high = partner.high + level, !.left = 1]
    <3>1. PICK n \in Nat, high \in Nat : n = partner.n + 1 /\ high = partner.high + level
      BY <2>2 DEF PartnerFine, PartnerTypes
    <3>2. partner' = [partner EXCEPT !.n = n, !.high = high, !.left = 1]
      BY <2>3, <3>1
    <3>3. PartnerTypes' /\ PartnerShape' /\ partner'.word = partner.word
      <4>1. PartnerTypes' /\ partner'.word = partner.word
        BY <3>2 DEF PartnerFine, PartnerTypes
      <4>2. PartnerShape'
        BY <2>2, <2>3, <3>1, <3>2 DEF PartnerFine, PartnerTypes, PartnerShape
      <4> QED
        BY <4>1, <4>2
    <3> QED
      BY <1>1, <1>2, <2>2, <3>3 DEF PartnerFine
  <2>4. CASE partner' = [partner EXCEPT !.at = "turn", !.n = 0, !.high = 0, !.left = 24]
    <3>1. PartnerTypes' /\ PartnerShape' /\ partner'.word = partner.word
      <4>1. PartnerTypes' /\ partner'.word = partner.word
        BY <2>2, <2>4 DEF PartnerFine, PartnerTypes, PartnerShape, PartnerPlaces
      <4>2. PartnerShape'
        BY <2>2, <2>4 DEF PartnerFine, PartnerTypes, PartnerShape, PartnerPlaces
      <4> QED
        BY <4>1, <4>2
    <3> QED
      BY <1>1, <1>2, <2>2, <3>1 DEF PartnerFine
  <2> QED
    BY <1>3, <2>1, <2>2, <2>3, <2>4
<1>9. CASE PartnerAnswer
  <2>1. PartnerOut(1) /\ partner.at # "measure" /\ 1 \in 1 .. 28
    BY <1>9 DEF PartnerAnswer, PartnerDue
  <2> QED
    BY <1>1, <1>2, <1>9, <2>1, PartnerOutFine DEF PartnerAnswer
<1>10. CASE PartnerSend
  <2>1. Len(PartnerFrame(partner.word)) = 28
    BY PartnerFrameIs
  <2>2. /\ PartnerOut(partner.n + 1) /\ partner.at # "measure"
        /\ partner.n + 1 \in 1 .. 28
    BY <1>10, <2>1 DEF PartnerSend, PartnerDue, PartnerFine, PartnerTypes, PartnerShape
  <2> QED
    BY <1>1, <1>2, <1>10, <2>2, PartnerOutFine DEF PartnerSend
<1>11. CASE PartnerReturn
  <2>1. partner' = [at |-> "away", left |-> 0, n |-> 0, pin |-> {}, byte |-> {},
                    high |-> 0, word |-> {}]
    BY <1>11 DEF PartnerReturn, PartnerAway
  <2>2. PartnerTypes' /\ PartnerShape'
    BY <2>1 DEF PartnerTypes, PartnerShape, PartnerPlaces
  <2> QED
    BY <1>1, <1>11, <2>1, <2>2 DEF PartnerReturn, PartnerFine
<1> QED
  BY <1>4, <1>5, <1>6, <1>7, <1>8, <1>9, <1>10, <1>11 DEF Partner

(* The steps of time.                                                      *)
LEMMA ElapseIs ==
  ASSUME Fine, Elapse
  PROVE  /\ UNCHANGED <<met, returned, late>>
         /\ \/ /\ anchor.left > 0
               /\ anchor' = [anchor EXCEPT !.left = anchor.left - 1]
            \/ anchor.at = "idle" /\ anchor.left = 0 /\ anchor' = anchor
         /\ \/ /\ partner.at \notin {"away", "low"} /\ partner.left > 0
               /\ partner' = [partner EXCEPT !.left = partner.left - 1]
            \/ partner.at \in {"away", "low"} /\ partner' = partner
         /\ partner.at = "low" => 1 \notin Line
<1>1. anchor.left > 0 \/ anchor.left = 0
  BY DEF Fine, AnchorFine, AnchorTypes
<1>2. AnchorSleeps <=> anchor.at # "idle" \/ anchor.left > 0
  BY DEF AnchorSleeps
<1>3. PartnerSleeps <=> partner.at \notin {"away", "low"}
  BY DEF PartnerSleeps
<1> QED
  BY <1>1, <1>2, <1>3 DEF Elapse

LEMMA OversleepIs ==
  ASSUME Fine, Oversleep
  PROVE  /\ UNCHANGED <<met, returned>>
         /\ late < MaxLate /\ late' = late + 1
         /\ \/ /\ anchor.at # "idle" /\ anchor.left = 0
               /\ anchor' = [anchor EXCEPT !.left = 1] /\ UNCHANGED partner
            \/ /\ partner.at \notin {"away", "low"} /\ partner.left = 0
               /\ partner' = [partner EXCEPT !.left = 1] /\ UNCHANGED anchor
<1>1. AnchorSleeps /\ anchor.left = 0 => anchor.at # "idle"
  BY DEF AnchorSleeps
<1>2. PartnerSleeps <=> partner.at \notin {"away", "low"}
  BY DEF PartnerSleeps
<1> QED
  BY <1>1, <1>2 DEF Oversleep

LEMMA AnchorLeftFine ==
  ASSUME AnchorFine, NEW left \in Nat, left < anchor.left \/ (left = 1 /\ anchor.at # "idle"),
         anchor' = [anchor EXCEPT !.left = left]
  PROVE  AnchorFine' /\ anchor'.byte = anchor.byte
<1>1. AnchorTypes' /\ anchor'.byte = anchor.byte
  BY DEF AnchorFine, AnchorTypes
<1>2. /\ anchor'.at = anchor.at /\ anchor'.left = left /\ anchor'.n = anchor.n
      /\ anchor'.pin = anchor.pin /\ anchor'.word = anchor.word
  BY DEF AnchorFine, AnchorTypes
<1>3. AnchorLength(anchor.n) >= 8 /\ AnchorLength(anchor.n) \in Nat
  BY DEF AnchorLength
<1>4. anchor.left \in Nat /\ anchor.n \in Nat /\ AnchorShape
  BY DEF AnchorFine, AnchorTypes
<1>5. AnchorShape'
  <2>1. CASE anchor.at = "idle"
    BY <1>2, <1>4, <2>1, DataAssumption DEF AnchorShape
  <2>2. CASE anchor.at = "send"
    BY <1>1, <1>2, <1>3, <1>4, <2>2 DEF AnchorShape
  <2>3. CASE anchor.at \notin {"idle", "send"}
    BY <1>2, <1>4, <2>3 DEF AnchorShape
  <2> QED
    BY <2>1, <2>2, <2>3
<1> QED
  BY <1>1, <1>5 DEF AnchorFine

LEMMA PartnerLeftFine ==
  ASSUME PartnerFine, NEW left \in Nat, partner.at \notin {"away", "low"},
         left < partner.left \/ left = 1, partner' = [partner EXCEPT !.left = left]
  PROVE  PartnerFine' /\ partner'.word = partner.word
<1>1. PartnerTypes' /\ partner'.word = partner.word
  BY DEF PartnerFine, PartnerTypes
<1>2. /\ partner'.at = partner.at /\ partner'.left = left /\ partner'.n = partner.n
      /\ partner'.pin = partner.pin /\ partner'.high = partner.high
  BY DEF PartnerFine, PartnerTypes
<1>3. PartnerLength(partner.n) >= 8 /\ PartnerLength(partner.n) \in Nat
  BY DEF PartnerLength
<1>4. PartnerShape'
  BY <1>1, <1>2, <1>3 DEF PartnerFine, PartnerTypes, PartnerShape
<1> QED
  BY <1>1, <1>4 DEF PartnerFine

LEMMA TimeFineStep ==
  ASSUME Fine, Elapse \/ Oversleep
  PROVE  Fine'
<1> USE DEF Fine
<1>1. AnchorFine' /\ anchor'.byte = anchor.byte
  <2>1. CASE anchor' = anchor
    BY <2>1 DEF AnchorFine, AnchorTypes, AnchorShape
  <2>2. CASE anchor.left > 0 /\ anchor' = [anchor EXCEPT !.left = anchor.left - 1]
    <3>1. anchor.left - 1 \in Nat /\ anchor.left - 1 < anchor.left
      BY <2>2 DEF AnchorFine, AnchorTypes
    <3> QED
      BY <2>2, <3>1, AnchorLeftFine
  <2>3. CASE anchor.at # "idle" /\ anchor' = [anchor EXCEPT !.left = 1]
    <3>1. 1 \in Nat
      OBVIOUS
    <3> QED
      BY <2>3, <3>1, AnchorLeftFine
  <2> QED
    BY <2>1, <2>2, <2>3, ElapseIs, OversleepIs
<1>2. PartnerFine' /\ partner'.word = partner.word
  <2>1. CASE partner' = partner
    BY <2>1 DEF PartnerFine, PartnerTypes, PartnerShape
  <2>2. CASE /\ partner.at \notin {"away", "low"} /\ partner.left > 0
             /\ partner' = [partner EXCEPT !.left = partner.left - 1]
    <3>1. partner.left - 1 \in Nat /\ partner.left - 1 < partner.left
      BY <2>2 DEF PartnerFine, PartnerTypes
    <3> QED
      BY <2>2, <3>1, PartnerLeftFine
  <2>3. CASE /\ partner.at \notin {"away", "low"}
             /\ partner' = [partner EXCEPT !.left = 1]
    <3>1. 1 \in Nat
      OBVIOUS
    <3> QED
      BY <2>3, <3>1, PartnerLeftFine
  <2> QED
    BY <2>1, <2>2, <2>3, ElapseIs, OversleepIs
<1>3. DataTypes'
  <2>1. UNCHANGED <<met, returned>> /\ late' \in Nat /\ late' <= MaxLate
    BY ElapseIs, OversleepIs, DataAssumption DEF DataTypes
  <2> QED
    BY <1>1, <1>2, <2>1 DEF DataTypes
<1> QED
  BY <1>1, <1>2, <1>3

LEMMA FineInit == Init => Fine
<1> SUFFICES ASSUME Init
             PROVE  Fine
  OBVIOUS
<1>1. anchor = [at |-> "idle", left |-> 0, n |-> 0, pin |-> {0},
                byte |-> {}, word |-> {}, error |-> FALSE]
  BY DEF Init, AnchorIdle
<1>2. partner = [at |-> "away", left |-> 0, n |-> 0, pin |-> {},
                 byte |-> {}, high |-> 0, word |-> {}]
  BY DEF Init, PartnerAway
<1>3. AnchorTypes /\ AnchorShape
  BY <1>1, DataAssumption DEF AnchorTypes, AnchorShape, AnchorPlaces
<1>4. PartnerTypes /\ PartnerShape
  BY <1>2 DEF PartnerTypes, PartnerShape, PartnerPlaces
<1>5. DataTypes
  <2>1. met = FALSE /\ returned = NIL /\ late = 0 /\ MaxLate \in Nat /\ NIL \subseteq 0 .. 31
    BY DataAssumption DEF Init
  <2>2. anchor.byte = {} /\ partner.word = {}
    BY <1>1, <1>2
  <2>3. late <= MaxLate /\ late \in Nat
    BY <2>1
  <2> QED
    BY <2>1, <2>2, <2>3, Zenon DEF DataTypes
<1> QED
  BY <1>3, <1>4, <1>5 DEF Fine, AnchorFine, PartnerFine

LEMMA FineStep == Fine /\ [Next]_vars => Fine'
<1> SUFFICES ASSUME Fine, [Next]_vars
             PROVE  Fine'
  OBVIOUS
<1>1. CASE Anchor \/ \E byte \in Bytes : AnchorCall(byte)
  BY <1>1, AnchorFineStep
<1>2. CASE Partner \/ \E word \in Words : PartnerListen(word)
  BY <1>2, PartnerFineStep
<1>3. CASE Elapse \/ Oversleep
  BY <1>3, TimeFineStep
<1>4. CASE UNCHANGED vars
  BY <1>4 DEF vars, Fine, AnchorFine, AnchorTypes, AnchorShape,
              PartnerFine, PartnerTypes, PartnerShape, DataTypes
<1> QED
  BY <1>1, <1>2, <1>3, <1>4 DEF Next

LEMMA FineTypes == Fine => TypeOK
<1> SUFFICES ASSUME Fine
             PROVE  TypeOK
  OBVIOUS
<1>1. LongStop = 64 /\ Pause \in Nat
  BY DataAssumption DEF LongStop, SAMPLING_COUNT, LONG_STOP_BITS
<1>2. anchor.left \in 0 .. LongStop + Pause /\ anchor.n \in 0 .. LongStop
  BY <1>1 DEF Fine, AnchorFine, AnchorTypes, AnchorShape, AnchorPlaces, AnchorLength
<1>3. anchor \in [at : AnchorPlaces, left : 0 .. LongStop + Pause, n : 0 .. LongStop,
                  pin : SUBSET {0, 1}, byte : Bytes \cup {{}},
                  word : SUBSET (0 .. 23), error : BOOLEAN]
  BY <1>2 DEF Fine, AnchorFine, AnchorTypes, DataTypes
<1>4. partner.left \in 0 .. LongStop /\ partner.n \in 0 .. 255 /\ partner.high \in 0 .. 24
  BY <1>1 DEF Fine, PartnerFine, PartnerTypes, PartnerShape, PartnerPlaces, PartnerLength
<1>5. partner \in [at : PartnerPlaces, left : 0 .. LongStop, n : 0 .. 255,
                   pin : SUBSET {0, 1}, byte : SUBSET (0 .. 7), high : 0 .. 24,
                   word : Words \cup {{}}]
  BY <1>4 DEF Fine, PartnerFine, PartnerTypes, DataTypes
<1> QED
  BY <1>3, <1>5, DataAssumption DEF TypeOK, Fine, DataTypes

LEMMA AlwaysFine == Spec => []Fine
<1> QED
  BY FineInit, FineStep, PTL DEF Spec

(* Every variable keeps its type whatever the timing: the counter of the   *)
(* samples at 1 wraps within a byte, the samples of 0 end at IDLE_BITS,    *)
(* and no bit is sampled outside the byte or the word.                     *)
THEOREM TypesOfUart == Spec => []TypeOK
<1> QED
  BY AlwaysFine, FineTypes, PTL

(***************************************************************************)
(* The clocks                                                              *)
(***************************************************************************)
(* The timing assumed from here on: one late tick from call to call at     *)
(* most, and an anchor that stays idle between its calls for longer than   *)
(* the partner needs to find out that it has not seen a frame.             *)
Timely == MaxLate <= 1 /\ Pause >= 85 + MaxLate

AnchorEnd(k) ==
  IF k = 1 THEN 64 ELSE IF k <= 10 THEN 56 + 8 * k ELSE IF k = 11 THEN 152 ELSE 160

(* Ticks since the anchor called, as its frame and its samples count them; *)
(* ticks since it became idle.                                             *)
AnchorClock ==
  IF anchor.at = "send" THEN AnchorEnd(anchor.n) - anchor.left
  ELSE IF anchor.at = "hunt" THEN 193 + anchor.n - anchor.left
  ELSE 197 + 8 * anchor.n - anchor.left
IdleClock == Pause - anchor.left

(* Ticks since the partner took a fall of the line for a start bit.        *)
PartnerClock ==
  IF partner.at = "sample" THEN 4 + 8 * partner.n - partner.left
  ELSE IF partner.at = "measure" THEN 73 + partner.n - partner.left
  ELSE IF partner.at = "turn" THEN 120 - partner.left
  ELSE IF partner.n = 1 THEN 184 - partner.left
  ELSE 176 + 8 * partner.n - partner.left

(* A half that waits for the other one notices at its next sample; from    *)
(* then on only late sleeps move one clock against the other.              *)
Close(ahead, behind) == -late <= ahead - behind /\ ahead - behind <= 1 + late

(* The partner listens: it sees a 0 on the line within a tick, unless its  *)
(* sleep is late, ...                                                      *)
LowPulse ==
  IF anchor.at = "idle" THEN IdleClock ELSE AnchorLength(anchor.n) - anchor.left
SeesLow ==
  partner.at = "count" /\ anchor.pin = {0} => LowPulse + partner.left <= 1 + late

(* ... so that what it counts among the anchor's data bits began there,    *)
(* behind the start bit: no run of ones that ends among them is as long as *)
(* a long stop bit.                                                        *)
CountsData ==
  partner.at = "count" /\ anchor.at = "send" /\ anchor.n \in 3 .. 10 =>
    partner.n <= 8 * anchor.n - 24 + late
                   + (IF AnchorLevel(anchor.byte, anchor.n) = 1
                      THEN 8 - anchor.left + partner.left ELSE 1)

(* The partner takes a fall of the line for a start bit: it is the         *)
(* anchor's start bit, ...                                                 *)
Framing == partner.at \in {"sample", "measure"}

Zeros == partner.n - partner.high
Aligned ==
  /\ Close(AnchorClock, 64 + PartnerClock)
  /\ partner.at = "sample" => partner.byte = {i \in anchor.byte : i < partner.n - 1}
  /\ partner.at \in {"measure", "turn"} => partner.byte = anchor.byte
  /\ partner.at = "measure" =>
       /\ anchor.at = "send" /\ anchor.n <= 11 => Zeros <= late
       /\ anchor.at = "send" /\ anchor.n = 12 =>
            /\ AnchorClock - 153 + partner.left - late <= Zeros
            /\ Zeros <= AnchorClock - 152 + partner.left + late
       /\ anchor.at = "hunt" => 7 - late <= Zeros /\ Zeros <= 9 + late

(* ... or its extra bit, and the partner finds the short stop bit too      *)
(* long, ...                                                               *)
Behind ==
  /\ Close(AnchorClock, 152 + PartnerClock)
  /\ partner.at = "measure" => partner.high = partner.n
  /\ met # TRUE

(* ... or the beginning of its idling, and the next call comes too late to *)
(* look like a short stop bit.                                             *)
Idles == IdleClock <= PartnerClock + 1 + late /\ partner.high = 0
CalledLate ==
  /\ partner.at = "measure"
  /\ AnchorClock + 84 <= PartnerClock + late
  /\ partner.high + 11 <= partner.n
  /\ met # TRUE

FrameTaken ==
  Framing =>
    /\ anchor.at = "idle" => Idles
    /\ anchor.at = "send" =>
         /\ anchor.n = 1 => CalledLate
         /\ anchor.n \in 2 .. 11 => Aligned
         /\ anchor.n = 12 => Aligned \/ Behind
    /\ anchor.at = "hunt" => anchor.n = 0 /\ (Aligned \/ Behind)
    /\ anchor.at = "sample" => Behind

Turning ==
  partner.at = "turn" =>
    /\ Aligned
    /\ \/ anchor.at = "send" /\ anchor.n = 12
       \/ anchor.at = "hunt" /\ anchor.n = 0

(* The partner answers.                                                    *)
AnchorSampleClock == 4 + 8 * anchor.n - anchor.left

Answering ==
  partner.at = "send" =>
    /\ anchor.at # "send"
    /\ anchor.at = "hunt" =>
         \/ partner.n = 1 /\ Close(AnchorClock, 64 + PartnerClock)
         \/ /\ partner.n = 2 /\ anchor.n >= 54
            /\ PartnerClock - 184 + anchor.left <= 1 + late
    /\ anchor.at = "sample" =>
         /\ partner.n >= 2 /\ Close(PartnerClock - 184, AnchorSampleClock)
         /\ anchor.error = FALSE
         /\ anchor.word = {i \in partner.word : i < anchor.n - 2}
    /\ anchor.at = "idle" =>
         partner.n = 28 /\ Close(PartnerClock - 184, 212 + IdleClock)

(* An anchor nobody answers sees an error at once.                         *)
Unanswered ==
  partner.at # "send" =>
    /\ anchor.at = "hunt" => anchor.n = 0
    /\ anchor.at = "sample" => anchor.error = TRUE /\ met # TRUE

(* The partner was listening when the anchor called.                       *)
Met ==
  met = TRUE =>
    /\ anchor.at = "send" /\ anchor.n = 1 =>
         \/ partner.at = "low" /\ anchor.left = 64
         \/ /\ partner.at = "count"
            /\ AnchorClock + partner.left - late <= partner.n
            /\ partner.n <= AnchorClock + partner.left + late
    /\ anchor.at = "send" /\ anchor.n = 2 =>
         \/ partner.at = "count" /\ partner.n \in 63 .. 66
         \/ partner.at = "sample"
    /\ anchor.at = "send" /\ anchor.n >= 3 =>
         partner.at \in {"sample", "measure", "turn"}
    /\ anchor.at = "hunt" => partner.at \in {"sample", "measure", "turn", "send"}

InStep ==
  SeesLow /\ CountsData /\ FrameTaken /\ Turning /\ Answering /\ Unanswered /\ Met

Timed == Timely /\ Fine /\ InStep

(* What the timing arguments use of the types.                             *)
Counts ==
  /\ anchor.at \in AnchorPlaces /\ partner.at \in PartnerPlaces
  /\ anchor.left \in Nat /\ anchor.n \in Nat
  /\ partner.left \in Nat /\ partner.n \in Nat /\ partner.high \in Nat
  /\ late \in Nat /\ late <= MaxLate
  /\ AnchorShape /\ PartnerShape

Delays == MaxLate \in Nat /\ MaxLate <= 1 /\ Pause \in Nat /\ Pause >= 85 + MaxLate

LEMMA FineCounts == Fine => Counts
  BY DEF Fine, Counts, AnchorFine, AnchorTypes, PartnerFine, PartnerTypes, DataTypes

LEMMA TimelyDelays == Timely => Delays
  BY DataAssumption DEF Timely, Delays

(***************************************************************************)
(* Time                                                                    *)
(***************************************************************************)
(* What passes for the two halves at once is a move of their clocks, by 1  *)
(* each or, for a late sleep, back by 1 for one of them.                   *)
TimeMoves(a, p, l) ==
  /\ met' = met /\ returned' = returned /\ late' = late + l
  /\ anchor'.at = anchor.at /\ anchor'.n = anchor.n /\ anchor'.pin = anchor.pin
  /\ anchor'.byte = anchor.byte /\ anchor'.word = anchor.word
  /\ anchor'.error = anchor.error
  /\ partner'.at = partner.at /\ partner'.n = partner.n /\ partner'.pin = partner.pin
  /\ partner'.byte = partner.byte /\ partner'.word = partner.word
  /\ partner'.high = partner.high
  /\ -l <= a - p /\ a - p <= l /\ 0 <= p + l
  /\ \/ anchor'.left = anchor.left - a
     \/ anchor.at = "idle" /\ anchor.left = 0 /\ anchor'.left = 0
  /\ partner.at \notin {"away", "low"} => partner'.left = partner.left - p
  /\ partner.at = "low" /\ 1 \in Line => anchor'.left = anchor.left \/ anchor.left = 0

LEMMA ElapseMoves ==
  ASSUME Fine, Elapse
  PROVE  TimeMoves(1, 1, 0)
<1>1. /\ anchor' = anchor \/ anchor' = [anchor EXCEPT !.left = anchor.left - 1]
      /\ partner' = partner \/ partner' = [partner EXCEPT !.left = partner.left - 1]
      /\ met' = met /\ returned' = returned /\ late' = late /\ late \in Nat
  BY ElapseIs DEF Fine, DataTypes
<1>2. /\ anchor'.at = anchor.at /\ anchor'.n = anchor.n /\ anchor'.pin = anchor.pin
      /\ anchor'.byte = anchor.byte /\ anchor'.word = anchor.word
      /\ anchor'.error = anchor.error
  BY <1>1 DEF Fine, AnchorFine, AnchorTypes
<1>3. /\ partner'.at = partner.at /\ partner'.n = partner.n /\ partner'.pin = partner.pin
      /\ partner'.byte = partner.byte /\ partner'.word = partner.word
      /\ partner'.high = partner.high
  BY <1>1 DEF Fine, PartnerFine, PartnerTypes
<1>4. \/ anchor'.left = anchor.left - 1
      \/ anchor.at = "idle" /\ anchor.left = 0 /\ anchor'.left = 0
  BY ElapseIs DEF Fine, AnchorFine, AnchorTypes
<1>5. partner.at \notin {"away", "low"} => partner'.left = partner.left - 1
  BY ElapseIs DEF Fine, PartnerFine, PartnerTypes
<1>6. -0 <= 1 - 1 /\ 1 - 1 <= 0 /\ 0 <= 1 + 0 /\ late' = late + 0
  BY <1>1
<1>7. ~(partner.at = "low" /\ 1 \in Line)
  BY ElapseIs
<1> QED
  BY <1>1, <1>2, <1>3, <1>4, <1>5, <1>6, <1>7, Zenon DEF TimeMoves

LEMMA OversleepMoves ==
  ASSUME Fine, Oversleep
  PROVE  TimeMoves(-1, 0, 1) \/ TimeMoves(0, -1, 1)
<1>1. /\ anchor' = anchor \/ anchor' = [anchor EXCEPT !.left = 1]
      /\ partner' = partner \/ partner' = [partner EXCEPT !.left = 1]
      /\ met' = met /\ returned' = returned /\ late' = late + 1
  BY OversleepIs
<1>2. /\ anchor'.at = anchor.at /\ anchor'.n = anchor.n /\ anchor'.pin = anchor.pin
      /\ anchor'.byte = anchor.byte /\ anchor'.word = anchor.word
      /\ anchor'.error = anchor.error
  BY <1>1 DEF Fine, AnchorFine, AnchorTypes
<1>3. /\ partner'.at = partner.at /\ partner'.n = partner.n /\ partner'.pin = partner.pin
      /\ partner'.byte = partner.byte /\ partner'.word = partner.word
      /\ partner'.high = partner.high
  BY <1>1 DEF Fine, PartnerFine, PartnerTypes
<1>4. \/ /\ anchor.left = 0 /\ anchor'.left = 1 /\ partner'.left = partner.left
      \/ /\ anchor'.left = anchor.left /\ partner.left = 0 /\ partner'.left = 1
  BY OversleepIs DEF Fine, AnchorFine, AnchorTypes, PartnerFine, PartnerTypes
<1>5. anchor.left \in Nat /\ partner.left \in Nat
  BY DEF Fine, AnchorFine, AnchorTypes, PartnerFine, PartnerTypes
<1>6. CASE anchor.left = 0 /\ anchor'.left = 1 /\ partner'.left = partner.left
  <2>1. /\ -1 <= -1 - 0 /\ -1 - 0 <= 1 /\ 0 <= 0 + 1
        /\ anchor'.left = anchor.left - (-1) /\ partner'.left = partner.left - 0
    BY <1>5, <1>6
  <2>2. TimeMoves(-1, 0, 1)
    BY <1>1, <1>2, <1>3, <1>6, <2>1 DEF TimeMoves
  <2> QED
    BY <2>2
<1>7. CASE anchor'.left = anchor.left /\ partner.left = 0 /\ partner'.left = 1
  <2>1. /\ -1 <= 0 - (-1) /\ 0 - (-1) <= 1 /\ 0 <= -1 + 1
        /\ anchor'.left = anchor.left - 0 /\ partner'.left = partner.left - (-1)
    BY <1>5, <1>7
  <2>2. TimeMoves(0, -1, 1)
    BY <1>1, <1>2, <1>3, <1>7, <2>1 DEF TimeMoves
  <2> QED
    BY <2>2
<1> QED
  BY <1>4, <1>6, <1>7

LEMMA TimeInStep ==
  ASSUME Timed, NEW a \in Int, NEW p \in Int, NEW l \in Nat, TimeMoves(a, p, l)
  PROVE  InStep'
<1>1. Counts /\ Delays /\ InStep
  BY FineCounts, TimelyDelays DEF Timed
<1> USE <1>1 DEF Counts, Delays, TimeMoves
<1>2. SeesLow'
  BY DEF InStep, SeesLow, LowPulse, IdleClock, AnchorShape, PartnerShape, AnchorLength
<1>3. CountsData'
  <2> DEFINE level == AnchorLevel(anchor.byte, anchor.n)
  <2>1. AnchorLevel(anchor.byte, anchor.n)' = level
    BY DEF AnchorLevel
  <2> HIDE DEF level
  <2> QED
    BY <2>1 DEF level, InStep, CountsData, AnchorShape, PartnerShape
<1>4. anchor.at # "idle" => AnchorClock' = AnchorClock + a
  BY DEF AnchorClock, AnchorEnd
<1>5. partner.at \notin {"away", "low", "count"} => PartnerClock' = PartnerClock + p
  BY DEF PartnerClock
<1>6. AnchorClock \in Int /\ PartnerClock \in Int
  BY DEF AnchorClock, PartnerClock, AnchorEnd
<1>7. partner.at \notin {"away", "low", "count"} /\ anchor.at # "idle" /\ Aligned => Aligned'
  <2> SUFFICES ASSUME partner.at \notin {"away", "low", "count"}, anchor.at # "idle", Aligned
               PROVE  Aligned'
    OBVIOUS
  <2>1. AnchorClock' = AnchorClock + a /\ PartnerClock' = PartnerClock + p
    BY <1>4, <1>5
  <2>2. Close(AnchorClock, 64 + PartnerClock)'
    BY <1>6, <2>1 DEF Aligned, Close
  <2>3. /\ partner'.at = "sample" => partner'.byte = {i \in anchor'.byte : i < partner'.n - 1}
        /\ partner'.at \in {"measure", "turn"} => partner'.byte = anchor'.byte
    BY Zenon DEF Aligned
  <2>4. Zeros' = Zeros /\ Zeros \in Int
    BY DEF Zeros
  <2>5. partner'.left = partner.left - p
    OBVIOUS
  <2>6. partner'.at = "measure" =>
          /\ anchor'.at = "send" /\ anchor'.n <= 11 => Zeros' <= late'
          /\ anchor'.at = "send" /\ anchor'.n = 12 =>
               /\ AnchorClock' - 153 + partner'.left - late' <= Zeros'
               /\ Zeros' <= AnchorClock' - 152 + partner'.left + late'
          /\ anchor'.at = "hunt" => 7 - late' <= Zeros' /\ Zeros' <= 9 + late'
    BY <1>6, <2>1, <2>4, <2>5 DEF Aligned
  <2> QED
    BY <2>2, <2>3, <2>6 DEF Aligned
<1>8. Framing /\ anchor.at # "idle" /\ Behind => Behind'
  <2> SUFFICES ASSUME Framing, anchor.at # "idle", Behind
               PROVE  Behind'
    OBVIOUS
  <2>1. AnchorClock' = AnchorClock + a /\ PartnerClock' = PartnerClock + p
    BY <1>4, <1>5 DEF Framing
  <2>2. Close(AnchorClock, 152 + PartnerClock)'
    BY <1>6, <2>1 DEF Behind, Close
  <2>3. (partner'.at = "measure" => partner'.high = partner'.n) /\ met' # TRUE
    BY Zenon DEF Behind
  <2> QED
    BY <2>2, <2>3 DEF Behind
<1>9. FrameTaken'
  <2>1. Framing' <=> Framing
    BY DEF Framing
  <2>2. Framing /\ anchor.at = "idle" /\ Idles => Idles'
    <3>1. anchor.at = "idle" =>
            IdleClock' <= IdleClock + p + l /\ IdleClock \in Int /\ IdleClock' \in Int
      BY DEF IdleClock
    <3>2. Framing => PartnerClock' = PartnerClock + p
      BY <1>5 DEF Framing
    <3> QED
      BY <1>6, <3>1, <3>2 DEF Idles
  <2>3. anchor.at # "idle" /\ CalledLate => CalledLate'
    <3> SUFFICES ASSUME anchor.at # "idle", CalledLate
                 PROVE  CalledLate'
      OBVIOUS
    <3>1. AnchorClock' = AnchorClock + a /\ PartnerClock' = PartnerClock + p
      BY <1>4, <1>5 DEF CalledLate
    <3>2. partner'.at = "measure" /\ met' # TRUE
      BY Zenon DEF CalledLate
    <3>3. AnchorClock' + 84 <= PartnerClock' + late' /\ partner'.high + 11 <= partner'.n
      BY <1>6, <3>1 DEF CalledLate
    <3> QED
      BY <3>2, <3>3, Zenon DEF CalledLate
  <2> QED
    BY <1>7, <1>8, <2>1, <2>2, <2>3 DEF InStep, FrameTaken, Framing
<1>10. Turning'
  BY <1>7 DEF InStep, Turning
<1>11. Answering'
  BY DEF InStep, Answering, Close, AnchorClock, PartnerClock, IdleClock, AnchorSampleClock
<1>12. Unanswered'
  BY DEF InStep, Unanswered
<1>13. Met'
  <2>1. anchor.at = "send" /\ partner.at = "low" => 1 \in Line \/ anchor.n # 1
    <3>1. anchor.at = "send" /\ anchor.n = 1 => anchor.pin = {1}
      BY DEF AnchorShape, AnchorLevel
    <3> QED
      BY <3>1 DEF Line, Driven
  <2> QED
    BY <1>4, <1>6, <2>1 DEF InStep, Met, PartnerShape
<1> QED
  BY <1>2, <1>3, <1>9, <1>10, <1>11, <1>12, <1>13 DEF InStep

(***************************************************************************)
(* The anchor                                                              *)
(***************************************************************************)
(* What a half reads.                                                      *)
LEMMA LineIs ==
  ASSUME Counts
  PROVE  /\ partner.at # "send" /\ anchor.at = "send" =>
              Line = {AnchorLevel(anchor.byte, anchor.n)}
         /\ partner.at # "send" /\ anchor.at = "idle" => Line = {0}
         /\ partner.at # "send" /\ anchor.at \in {"hunt", "sample"} => Line = {1}
         /\ partner.at = "send" /\ anchor.at \in {"hunt", "sample"} =>
              Line = {PartnerLevel(partner.word, partner.n)}
<1>1. partner.at # "send" => partner.pin = {}
  BY DEF Counts, PartnerShape
<1>2. anchor.at \in {"hunt", "sample"} => anchor.pin = {}
  BY DEF Counts, AnchorShape
<1>3. anchor.at = "send" => anchor.pin = {AnchorLevel(anchor.byte, anchor.n)}
  BY DEF Counts, AnchorShape
<1>4. anchor.at = "idle" => anchor.pin = {0}
  BY DEF Counts, AnchorShape
<1>5. partner.at = "send" => partner.pin = {PartnerLevel(partner.word, partner.n)}
  BY DEF Counts, PartnerShape
<1> QED
  BY <1>1, <1>2, <1>3, <1>4, <1>5 DEF Line, Driven

(* An idle anchor and a partner that still sends its last bit part soon.   *)
LEMMA AnchorCallInStep ==
  ASSUME Timed, Fine', NEW byte \in Bytes, AnchorCall(byte)
  PROVE  InStep'
<1>1. Counts /\ Delays /\ InStep /\ Counts'
  BY FineCounts, TimelyDelays, PTL DEF Timed
<1>2. /\ anchor.at = "idle" /\ anchor.left = 0
      /\ partner' = partner /\ met' = (partner.at = "low") /\ late' = 0
  BY DEF AnchorCall, AnchorDue
<1>3. anchor'.at = "send" /\ anchor'.n = 1 /\ anchor'.left = 64 /\ anchor'.pin = {1}
  <2>1. AnchorFine /\ AnchorOut(1, byte) /\ byte \in SUBSET (0 .. 7) /\ 1 \in 1 .. 12
    BY DataAssumption DEF AnchorCall, Timed, Fine
  <2>2. anchor'.at = "send" /\ anchor'.n = 1 /\ anchor'.left = AnchorLength(1)
    BY <1>2, <2>1, AnchorOutFine
  <2>3. anchor'.pin = {AnchorLevel(anchor.byte, anchor.n)'}
    BY <1>1, <2>2 DEF Counts, AnchorShape
  <2> QED
    BY <2>2, <2>3 DEF AnchorLength, AnchorLevel
<1> USE <1>1, <1>2, <1>3 DEF Counts, Delays
<1>4. IdleClock = Pause
  BY DEF IdleClock
<1>5. SeesLow' /\ CountsData' /\ Unanswered'
  BY DEF SeesLow, CountsData, Unanswered
<1>6. partner.at \notin {"turn", "send"}
  <2>1. partner.at # "turn"
    BY DEF InStep, Turning
  <2>2. partner.at = "send" => partner.n = 28 /\ Close(PartnerClock - 184, 212 + Pause)
    BY <1>4 DEF InStep, Answering
  <2> QED
    BY <2>1, <2>2 DEF Close, PartnerClock
<1>7. Turning' /\ Answering'
  BY <1>6 DEF Turning, Answering
<1>8. FrameTaken'
  <2> SUFFICES ASSUME Framing
               PROVE  CalledLate'
    BY DEF FrameTaken, Framing
  <2>1. Pause <= PartnerClock + 1 + late /\ partner.high = 0
    BY <1>4 DEF InStep, FrameTaken, Idles
  <2>2. partner.at = "measure" /\ PartnerClock >= 84 /\ partner.n >= 11
    BY <2>1 DEF Framing, PartnerClock, PartnerShape
  <2>3. AnchorClock' = 0 /\ PartnerClock' = PartnerClock
    BY DEF AnchorClock, AnchorEnd, PartnerClock
  <2>4. PartnerClock \in Int
    BY DEF PartnerClock
  <2>5. AnchorClock' + 84 <= PartnerClock' + late' /\ partner'.high + 11 <= partner'.n
    BY <2>1, <2>2, <2>3, <2>4
  <2>6. met' # TRUE
    BY <2>2
  <2> QED
    BY <2>2, <2>5, <2>6, Zenon DEF CalledLate
<1>9. Met'
  <2>1. met' = TRUE => partner.at = "low"
    BY Zenon
  <2> QED
    BY <2>1 DEF Met
<1> QED
  BY <1>5, <1>7, <1>8, <1>9 DEF InStep

LEMMA AnchorSendInStep ==
  ASSUME Timed, Fine', AnchorSend
  PROVE  InStep'
<1>1. Counts /\ Delays /\ InStep /\ Counts'
  BY FineCounts, TimelyDelays, PTL DEF Timed
<1>2. /\ anchor.at = "send" /\ anchor.left = 0 /\ anchor.n \in 1 .. 11
      /\ partner' = partner /\ met' = met /\ late' = late
  <2>1. Len(AnchorFrame(anchor.byte)) = 12
    BY AnchorFrameIs
  <2>2. /\ anchor.at = "send" /\ anchor.left = 0 /\ anchor.n < 12
        /\ partner' = partner /\ met' = met /\ late' = late
    BY <2>1 DEF AnchorSend, AnchorDue
  <2>3. anchor.n \in 1 .. 11
    BY <1>1, <2>2 DEF Counts, AnchorShape
  <2> QED
    BY <2>2, <2>3
<1>3. /\ anchor'.at = "send" /\ anchor'.n = anchor.n + 1 /\ anchor'.byte = anchor.byte
      /\ anchor'.left = AnchorLength(anchor.n + 1)
  <2>1. AnchorFine /\ anchor.byte \in SUBSET (0 .. 7) /\ anchor.n + 1 \in 1 .. 12
    BY <1>2 DEF Timed, Fine, AnchorFine, AnchorTypes
  <2>2. AnchorOut(anchor.n + 1, anchor.byte)
    BY Zenon DEF AnchorSend
  <2> QED
    BY <1>2, <2>1, <2>2, AnchorOutFine
<1> USE <1>1, <1>2, <1>3 DEF Counts, Delays
<1>4. /\ anchor.pin = {AnchorLevel(anchor.byte, anchor.n)}
      /\ anchor'.pin = {AnchorLevel(anchor.byte, anchor.n + 1)}
  BY DEF AnchorShape
<1>5. AnchorClock' = AnchorClock /\ PartnerClock' = PartnerClock /\ Zeros' = Zeros
  BY DEF AnchorClock, AnchorEnd, AnchorLength, PartnerClock, Zeros
<1>6. AnchorClock = AnchorEnd(anchor.n) /\ AnchorClock \in Int /\ PartnerClock \in Int
  BY DEF AnchorClock, AnchorEnd, PartnerClock
<1>7. SeesLow'
  BY DEF SeesLow, LowPulse, PartnerShape, AnchorLength
<1>8. partner.at = "count" => AnchorLevel(anchor.byte, anchor.n) = 1
  BY <1>4 DEF InStep, SeesLow, LowPulse, AnchorLength, AnchorLevel
<1>9. CountsData'
  <2>1. anchor.n = 2 => AnchorLevel(anchor.byte, anchor.n) = 0
    BY DEF AnchorLevel
  <2>2. partner.at = "count" /\ anchor'.n \in 3 .. 10 =>
          partner.n <= 8 * anchor.n - 16 + late + partner.left /\ partner.left <= 1
    BY <1>8, <2>1 DEF InStep, CountsData, PartnerShape
  <2>3. AnchorLength(anchor.n + 1) \in {8, 16, 64}
    BY DEF AnchorLength
  <2>4. anchor'.n \in 3 .. 10 => AnchorLength(anchor.n + 1) = 8
    BY DEF AnchorLength
  <2> DEFINE level == AnchorLevel(anchor.byte, anchor.n)'
  <2> HIDE DEF level
  <2> QED
    BY <2>2, <2>4 DEF CountsData, level
<1>10. Framing /\ Aligned => Aligned'
  <2> SUFFICES ASSUME Framing, Aligned
               PROVE  Aligned'
    OBVIOUS
  <2>1. Close(AnchorClock, 64 + PartnerClock)'
    BY <1>5 DEF Aligned, Close
  <2>2. /\ partner'.at = "sample" => partner'.byte = {i \in anchor'.byte : i < partner'.n - 1}
        /\ partner'.at \in {"measure", "turn"} => partner'.byte = anchor'.byte
    BY Zenon DEF Aligned
  <2>3. CASE partner.at = "measure" /\ anchor.n = 11
    <3>1. AnchorClock = 152
      BY <1>6, <2>3 DEF AnchorEnd
    <3>2. partner.n >= 13 /\ partner.left <= 1
      BY <2>3, <3>1 DEF Aligned, Close, PartnerClock, PartnerShape
    <3>3. Zeros <= late /\ Zeros \in Nat
      BY <2>3 DEF Aligned, Zeros, PartnerShape
    <3>4. /\ AnchorClock' - 153 + partner'.left - late' <= Zeros'
          /\ Zeros' <= AnchorClock' - 152 + partner'.left + late'
      BY <1>5, <3>1, <3>2, <3>3
    <3> QED
      BY <2>1, <2>2, <2>3, <3>4 DEF Aligned
  <2>4. CASE partner.at = "measure" /\ anchor.n <= 10
    BY <1>5, <2>1, <2>2, <2>4 DEF Aligned
  <2>5. CASE partner.at = "sample"
    BY <2>1, <2>2, <2>5 DEF Aligned
  <2> QED
    BY <2>3, <2>4, <2>5 DEF Framing
<1>11. FrameTaken'
  <2>1. Framing /\ CalledLate => anchor.n # 1
    BY <1>6 DEF CalledLate, PartnerClock, PartnerShape, AnchorEnd
  <2> QED
    BY <1>10, <2>1 DEF InStep, FrameTaken, Framing
<1>12. Turning' /\ Answering' /\ Unanswered'
  BY DEF InStep, Turning, Answering, Unanswered
<1>13. Met'
  <2>1. CASE anchor.n = 1
    BY <1>6, <2>1 DEF InStep, Met, PartnerShape, AnchorEnd
  <2>2. CASE anchor.n = 2
    <3>1. partner.at # "count"
      BY <1>8, <2>2 DEF AnchorLevel
    <3> QED
      BY <2>2, <3>1 DEF InStep, Met
  <2>3. CASE anchor.n > 2
    BY <2>3 DEF InStep, Met
  <2> QED
    BY <2>1, <2>2, <2>3
<1> QED
  BY <1>7, <1>9, <1>11, <1>12, <1>13 DEF InStep

LEMMA AnchorReleaseInStep ==
  ASSUME Timed, Fine', AnchorRelease
  PROVE  InStep'
<1>1. Counts /\ Delays /\ InStep /\ Counts'
  BY FineCounts, TimelyDelays, PTL DEF Timed
<1>2. /\ anchor.at = "send" /\ anchor.left = 0 /\ anchor.n = 12
      /\ partner' = partner /\ met' = met /\ late' = late
  BY AnchorFrameIs DEF AnchorRelease, AnchorDue
<1>3. /\ anchor'.at = "hunt" /\ anchor'.n = 0 /\ anchor'.left = 33 /\ anchor'.pin = {}
      /\ anchor'.byte = anchor.byte
  BY DEF AnchorRelease, PinAfterFrame, AnchorDmz, BIT_INTERVAL, SAMPLING_COUNT,
         Timed, Fine, AnchorFine, AnchorTypes
<1> USE <1>1, <1>2, <1>3 DEF Counts, Delays
<1>4. AnchorClock = 160 /\ AnchorClock' = 160 /\ PartnerClock' = PartnerClock
  BY DEF AnchorClock, AnchorEnd, PartnerClock
<1>5. SeesLow' /\ CountsData'
  BY DEF SeesLow, CountsData
<1>6. Aligned /\ partner.at \in {"sample", "measure", "turn"} => Aligned'
  <2> SUFFICES ASSUME Aligned
               PROVE  Aligned'
    OBVIOUS
  <2>1. Close(AnchorClock, 64 + PartnerClock)'
    BY <1>4 DEF Aligned, Close
  <2>2. /\ partner'.at = "sample" => partner'.byte = {i \in anchor'.byte : i < partner'.n - 1}
        /\ partner'.at \in {"measure", "turn"} => partner'.byte = anchor'.byte
    BY Zenon DEF Aligned
  <2>3. CASE partner.at = "measure"
    <3>1. partner.left <= 1
      BY <1>4, <2>3 DEF Aligned, Close, PartnerClock, PartnerShape
    <3>2. 7 - late <= Zeros /\ Zeros <= 9 + late
      <4>1. Zeros \in Int
        BY DEF Zeros
      <4> QED
        BY <1>4, <2>3, <3>1, <4>1 DEF Aligned
    <3>3. Zeros' = Zeros
      BY DEF Zeros
    <3> QED
      BY <2>1, <2>2, <3>2, <3>3 DEF Aligned
  <2>4. CASE partner.at # "measure"
    BY <2>1, <2>2, <2>4 DEF Aligned
  <2> QED
    BY <2>3, <2>4
<1>7. Behind => Behind'
  BY <1>4 DEF Behind, Close
<1>8. FrameTaken'
  BY <1>6, <1>7 DEF InStep, FrameTaken, Framing
<1>9. Turning'
  BY <1>6 DEF InStep, Turning
<1>10. Answering' /\ Unanswered' /\ Met'
  BY DEF InStep, Answering, Unanswered, Met
<1> QED
  BY <1>5, <1>8, <1>9, <1>10 DEF InStep

(* The anchor looks for the first 1: the partner's idle bits have begun,   *)
(* or nobody answers.                                                      *)
LEMMA AnchorHuntInStep ==
  ASSUME Timed, Fine', AnchorHunt
  PROVE  InStep'
<1>1. Counts /\ Delays /\ InStep /\ Counts'
  BY FineCounts, TimelyDelays, PTL DEF Timed
<1>2. /\ anchor.at = "hunt" /\ anchor.left = 0
      /\ partner' = partner /\ met' = met /\ late' = late
  BY AnchorHuntIs DEF Timed
<1>3. PICK level \in Line, samples \in Nat :
        /\ samples = anchor.n + 1 - level
        /\ anchor' = IF level = 1 \/ samples = 64
                     THEN [anchor EXCEPT !.at = "sample", !.n = 0, !.left = 4,
                                         !.error = samples < 48]
                     ELSE [anchor EXCEPT !.n = samples, !.left = 1]
  BY AnchorHuntIs DEF Timed
<1>4. /\ level = 1 \/ samples = 64 =>
           /\ anchor'.at = "sample" /\ anchor'.n = 0 /\ anchor'.left = 4
           /\ anchor'.pin = {} /\ anchor'.word = {}
           /\ samples < 48 => anchor'.error = TRUE
           /\ samples >= 48 => anchor'.error = FALSE
      /\ ~(level = 1 \/ samples = 64) =>
           /\ anchor'.at = "hunt" /\ anchor'.n = samples /\ anchor'.left = 1
           /\ anchor'.pin = {}
  <2>1. anchor.pin = {} /\ anchor.word = {}
    BY <1>1, <1>2 DEF Counts, AnchorShape
  <2>2. PICK error \in BOOLEAN : error = (samples < 48)
    <3>1. (samples < 48) \in BOOLEAN
      OBVIOUS
    <3> QED
      BY <3>1, Zenon
  <2>3. anchor' = IF level = 1 \/ samples = 64
                  THEN [anchor EXCEPT !.at = "sample", !.n = 0, !.left = 4, !.error = error]
                  ELSE [anchor EXCEPT !.n = samples, !.left = 1]
    BY <1>3, <2>2, Zenon
  <2>4. /\ samples < 48 => error = TRUE
        /\ samples >= 48 => error = FALSE
    <3>1. samples >= 48 => ~(samples < 48)
      OBVIOUS
    <3> QED
      BY <2>2, <3>1, Zenon
  <2> QED
    BY <1>2, <2>1, <2>3, <2>4 DEF Timed, Fine, AnchorFine, AnchorTypes
<1> USE <1>1, <1>2 DEF Counts, Delays
<1>5. AnchorClock = 193 + anchor.n /\ PartnerClock' = PartnerClock
  BY DEF AnchorClock, PartnerClock
<1>6. SeesLow' /\ CountsData' /\ anchor'.at # "send"
  BY <1>4 DEF SeesLow, CountsData
<1>7. CASE partner.at # "send"
  <2>1. anchor.n = 0 /\ Line = {1}
    BY <1>7, LineIs DEF InStep, Unanswered
  <2>2. /\ anchor'.at = "sample" /\ anchor'.n = 0 /\ anchor'.left = 4
        /\ anchor'.error = TRUE
    BY <1>3, <1>4, <2>1
  <2>3. partner.at \in {"sample", "measure", "turn"} => ~Aligned
    BY <1>5, <2>1 DEF Aligned, Close, PartnerClock, PartnerShape
  <2>4. partner.at # "turn"
    BY <2>3 DEF InStep, Turning
  <2>5. Framing => Behind
    BY <2>3 DEF InStep, FrameTaken, Framing
  <2>6. met # TRUE
    BY <1>7, <2>4, <2>5, Zenon DEF InStep, Met, Framing, Behind
  <2>7. AnchorClock' = AnchorClock
    BY <1>5, <2>1, <2>2 DEF AnchorClock
  <2>8. Behind => Behind'
    BY <1>5, <2>7 DEF Behind, Close
  <2>9. FrameTaken'
    BY <2>2, <2>5, <2>8 DEF FrameTaken, Framing
  <2>10. Turning' /\ Answering' /\ Unanswered' /\ Met'
    BY <1>7, <2>2, <2>4, <2>6 DEF Turning, Answering, Unanswered, Met
  <2> QED
    BY <1>6, <2>9, <2>10 DEF InStep
<1>8. CASE partner.at = "send"
  <2>1. Line = {PartnerLevel(partner.word, partner.n)}
    BY <1>8, LineIs
  <2>2. FrameTaken' /\ Turning' /\ Unanswered' /\ Met'
    BY <1>4, <1>8 DEF FrameTaken, Framing, Turning, Unanswered, Met
  <2>3. CASE partner.n = 1 /\ Close(AnchorClock, 64 + PartnerClock)
    <3>1. level = 0 /\ samples = anchor.n + 1
      BY <1>3, <2>1, <2>3 DEF PartnerLevel
    <3>2. samples # 64
      BY <1>5, <1>8, <2>3, <3>1 DEF Close, PartnerClock
    <3>3. anchor'.at = "hunt" /\ anchor'.n = anchor.n + 1 /\ anchor'.left = 1
      BY <1>4, <3>1, <3>2
    <3>4. AnchorClock' = AnchorClock
      BY <1>5, <3>3 DEF AnchorClock
    <3>5. Close(AnchorClock, 64 + PartnerClock)'
      BY <1>5, <2>3, <3>4 DEF Close
    <3>6. Answering'
      BY <1>8, <2>3, <3>3, <3>5 DEF Answering
    <3> QED
      BY <1>6, <2>2, <3>6 DEF InStep
  <2>4. CASE /\ partner.n = 2 /\ anchor.n >= 54
             /\ PartnerClock - 184 + anchor.left <= 1 + late
    <3>1. level = 1 /\ samples = anchor.n
      BY <1>3, <2>1, <2>4 DEF PartnerLevel
    <3>2. /\ anchor'.at = "sample" /\ anchor'.n = 0 /\ anchor'.left = 4
          /\ anchor'.error = FALSE /\ anchor'.word = {}
      BY <1>4, <2>4, <3>1
    <3>3. Close(PartnerClock - 184, AnchorSampleClock)'
      BY <1>5, <1>8, <2>4, <3>2 DEF Close, PartnerClock, PartnerShape, PartnerLength,
                                AnchorSampleClock
    <3>4. anchor'.word = {i \in partner'.word : i < anchor'.n - 2}
      <4>1. \A i \in partner.word : i \in Nat
        BY DEF Timed, Fine, PartnerFine, PartnerTypes
      <4> QED
        BY <3>2, <4>1
    <3>5. Answering'
      BY <1>8, <2>4, <3>2, <3>3, <3>4 DEF Answering
    <3> QED
      BY <1>6, <2>2, <3>5 DEF InStep
  <2> QED
    BY <1>8, <2>3, <2>4 DEF InStep, Answering
<1> QED
  BY <1>7, <1>8

(* The anchor samples in the middle of the partner's bits.                 *)
LEMMA AnchorSampleHits ==
  ASSUME Counts, Delays, Answering, anchor.at = "sample", anchor.left = 0,
         partner.at = "send"
  PROVE  /\ partner.n = anchor.n + 2
         /\ Line = {PartnerLevel(partner.word, anchor.n + 2)}
<1>1. Line = {PartnerLevel(partner.word, partner.n)}
  BY LineIs
<1>2. /\ partner.n \in 2 .. 28 /\ partner.left <= 8
      /\ Close(PartnerClock - 184, 4 + 8 * anchor.n)
  BY DEF Answering, AnchorSampleClock, Counts, PartnerShape, PartnerLength
<1>3. PartnerClock = 176 + 8 * partner.n - partner.left
  BY <1>2 DEF PartnerClock
<1>4. partner.n = anchor.n + 2
  BY <1>2, <1>3 DEF Close, Counts, Delays
<1> QED
  BY <1>1, <1>4

LEMMA AnchorSampleInStep ==
  ASSUME Timed, Fine', AnchorSample
  PROVE  InStep'
<1>1. Counts /\ Delays /\ InStep /\ Counts'
  BY FineCounts, TimelyDelays, PTL DEF Timed
<1>2. /\ anchor.at = "sample" /\ anchor.left = 0 /\ anchor.n < 26
      /\ partner' = partner /\ met' = met /\ late' = late
  BY AnchorSampleIs DEF Timed
<1>3. PICK level \in Line :
        anchor' =
          [anchor EXCEPT
             !.n = anchor.n + 1, !.left = 8,
             !.error = anchor.error \/ (anchor.n = 0 /\ level = 0)
                                    \/ (anchor.n = 1 /\ level = 1),
             !.word = IF anchor.n >= 2 /\ level = 1
                      THEN anchor.word \cup {anchor.n - 2} ELSE anchor.word]
  BY AnchorSampleIs DEF Timed
<1>4. /\ anchor'.at = "sample" /\ anchor'.n = anchor.n + 1 /\ anchor'.left = 8
      /\ anchor'.pin = anchor.pin
      /\ anchor'.error = (anchor.error \/ (anchor.n = 0 /\ level = 0)
                                       \/ (anchor.n = 1 /\ level = 1))
      /\ anchor'.word = IF anchor.n >= 2 /\ level = 1
                        THEN anchor.word \cup {anchor.n - 2} ELSE anchor.word
  BY <1>2, <1>3 DEF Timed, Fine, AnchorFine, AnchorTypes
<1> USE <1>1, <1>2 DEF Counts, Delays
<1>5. AnchorClock' = AnchorClock /\ PartnerClock' = PartnerClock
  BY <1>4 DEF AnchorClock, PartnerClock
<1>6. SeesLow' /\ CountsData' /\ Turning' /\ Met'
  BY <1>4 DEF SeesLow, CountsData, Turning, InStep, Met, AnchorShape
<1>7. FrameTaken'
  <2>1. Behind => Behind'
    BY <1>5 DEF Behind, Close
  <2> QED
    BY <1>4, <2>1 DEF InStep, FrameTaken, Framing
<1>8. Unanswered'
  BY <1>4 DEF InStep, Unanswered
<1>9. Answering'
  <2> SUFFICES ASSUME partner.at = "send"
               PROVE  Answering'
    BY DEF Answering
  <2>1. partner.n = anchor.n + 2 /\ level = PartnerLevel(partner.word, anchor.n + 2)
    BY AnchorSampleHits DEF InStep
  <2>2. /\ partner.n >= 2 /\ Close(PartnerClock - 184, AnchorSampleClock)
        /\ anchor.error = FALSE
        /\ anchor.word = {i \in partner.word : i < anchor.n - 2}
    BY DEF InStep, Answering
  <2>3. AnchorSampleClock' = AnchorSampleClock
    BY <1>4 DEF AnchorSampleClock
  <2>4. Close(PartnerClock - 184, AnchorSampleClock)'
    BY <1>5, <2>2, <2>3 DEF Close
  <2>5. ~(anchor.n = 0 /\ level = 0) /\ ~(anchor.n = 1 /\ level = 1)
    BY <2>1 DEF PartnerLevel
  <2>6. anchor'.error = FALSE
    BY <1>4, <2>2, <2>5, Zenon
  <2>7. anchor'.word = {i \in partner.word : i < anchor.n - 1}
    <3>1. \A i \in partner.word : i \in Nat
      BY DEF Timed, Fine, PartnerFine, PartnerTypes
    <3>2. CASE anchor.n < 2
      BY <1>4, <2>2, <3>1, <3>2
    <3>3. CASE anchor.n >= 2
      <4>1. level = 1 <=> anchor.n - 2 \in partner.word
        BY <2>1, <3>3 DEF PartnerLevel
      <4> QED
        BY <1>4, <2>2, <3>1, <3>3, <4>1
    <3> QED
      BY <3>2, <3>3
  <2>8. anchor'.n - 2 = anchor.n - 1
    BY <1>4
  <2> QED
    BY <1>4, <2>2, <2>4, <2>6, <2>7, <2>8 DEF Answering
<1> QED
  BY <1>6, <1>7, <1>8, <1>9 DEF InStep

LEMMA AnchorReturnInStep ==
  ASSUME Timed, Fine', AnchorReturn
  PROVE  /\ InStep'
         /\ partner.at = "send" => anchor'.error = FALSE /\ returned' = partner.word
         /\ partner.at # "send" => anchor'.error = TRUE /\ met # TRUE
<1>1. Counts /\ Delays /\ InStep /\ Counts'
  BY FineCounts, TimelyDelays, PTL DEF Timed
<1>2. /\ anchor.at = "sample" /\ anchor.left = 0 /\ anchor.n = 26
      /\ partner' = partner /\ met' = met /\ late' = late /\ returned' = anchor.word
  BY AnchorReturnIs DEF Timed
<1>3. PICK level \in Line, error \in BOOLEAN :
        /\ error <=> anchor.error \/ level = 0
        /\ anchor' = [at |-> "idle", left |-> Pause, n |-> 0, pin |-> {0},
                      byte |-> {}, word |-> {}, error |-> error]
  BY AnchorReturnIs DEF Timed
<1>4. anchor'.at = "idle" /\ anchor'.left = Pause /\ anchor'.n = 0 /\ anchor'.error = error
  BY <1>3
<1> USE <1>1, <1>2, <1>4 DEF Counts, Delays
<1>5. IdleClock' = 0 /\ PartnerClock' = PartnerClock
  BY DEF IdleClock, PartnerClock
<1>6. SeesLow' /\ CountsData'
  BY <1>5 DEF SeesLow, CountsData, LowPulse, PartnerShape
<1>7. ~Framing /\ partner.at # "turn"
  <2>1. Framing => Behind
    BY DEF InStep, FrameTaken
  <2>2. AnchorClock = 405
    BY DEF AnchorClock
  <2>3. ~(Framing /\ Behind)
    <3>1. Framing => PartnerClock <= 96 /\ PartnerClock \in Int
      BY DEF Framing, PartnerClock, PartnerShape
    <3>2. Behind => AnchorClock - (152 + PartnerClock) <= 1 + late
      BY DEF Behind, Close
    <3> QED
      BY <2>2, <3>1, <3>2
  <2> QED
    BY <2>1, <2>3 DEF InStep, Turning
<1>8. FrameTaken' /\ Turning' /\ Unanswered' /\ Met'
  BY <1>7 DEF FrameTaken, Framing, Turning, Unanswered, Met
<1>9. CASE partner.at = "send"
  <2>1. partner.n = 28 /\ level = PartnerLevel(partner.word, 28)
    BY <1>9, AnchorSampleHits DEF InStep
  <2>2. /\ Close(PartnerClock - 184, 212) /\ anchor.error = FALSE
        /\ anchor.word = {i \in partner.word : i < 24}
    BY <1>9 DEF InStep, Answering, AnchorSampleClock
  <2>3. anchor'.error = FALSE
    BY <1>3, <2>1, <2>2 DEF PartnerLevel
  <2>4. returned' = partner.word
    <3>1. \A i \in partner.word : i \in Nat /\ i < 24
      BY DEF Timed, Fine, PartnerFine, PartnerTypes
    <3> QED
      BY <2>2, <3>1
  <2>5. Answering'
    BY <1>5, <1>9, <2>1, <2>2 DEF Answering, Close
  <2> QED
    BY <1>6, <1>8, <1>9, <2>3, <2>4, <2>5 DEF InStep
<1>10. CASE partner.at # "send"
  <2>1. anchor.error = TRUE /\ met # TRUE
    BY <1>10 DEF InStep, Unanswered
  <2>2. anchor'.error = TRUE
    BY <1>3, <2>1
  <2>3. Answering'
    BY <1>10 DEF Answering
  <2> QED
    BY <1>6, <1>8, <1>10, <2>1, <2>2, <2>3 DEF InStep
<1> QED
  BY <1>9, <1>10

(***************************************************************************)
(* The partner                                                             *)
(***************************************************************************)
(* A partner that waits for the line to rise again has missed no call.     *)
LEMMA WaitsInStep ==
  ASSUME Counts, InStep, partner.at # "send", partner'.at \in {"away", "low"},
         anchor' = anchor, met' = met, late' = late,
         met = TRUE => anchor.at \notin {"send", "hunt"}
  PROVE  InStep'
<1>1. SeesLow' /\ CountsData' /\ FrameTaken' /\ Turning' /\ Answering'
  BY DEF SeesLow, CountsData, FrameTaken, Framing, Turning, Answering
<1>2. Unanswered'
  BY DEF InStep, Unanswered
<1>3. Met'
  BY DEF Met
<1> QED
  BY <1>1, <1>2, <1>3 DEF InStep

LEMMA PartnerListenInStep ==
  ASSUME Timed, NEW word \in Words, PartnerListen(word)
  PROVE  InStep'
<1>1. Counts /\ InStep
  BY FineCounts DEF Timed
<1>2. /\ partner.at = "away" /\ anchor' = anchor /\ met' = met /\ late' = late
      /\ partner'.at = "low"
  BY DEF PartnerListen, PartnerWaits, PartnerAway
<1>3. met = TRUE => anchor.at \notin {"send", "hunt"}
  BY <1>1, <1>2 DEF InStep, Met, Counts, AnchorShape
<1> QED
  BY <1>1, <1>2, <1>3, WaitsInStep

LEMMA PartnerRiseInStep ==
  ASSUME Timed, PartnerRise
  PROVE  InStep'
<1>1. Counts /\ Delays /\ InStep
  BY FineCounts, TimelyDelays DEF Timed
<1>2. /\ partner.at = "low" /\ partner.left = 0 /\ 1 \in Line
      /\ anchor' = anchor /\ met' = met /\ late' = late
  BY <1>1 DEF PartnerRise, Counts, PartnerShape
<1>3. partner'.at = "count" /\ partner'.n = 0 /\ partner'.left = 0
  BY <1>2 DEF PartnerRise, Timed, Fine, PartnerFine, PartnerTypes
<1> USE <1>1, <1>2, <1>3 DEF Counts, Delays
<1>4. anchor.at # "idle" /\ anchor.pin # {0}
  <2>1. anchor.at # "idle"
    BY LineIs
  <2>2. anchor.pin = {0} => Line = {0}
    BY DEF Line, Driven, PartnerShape
  <2> QED
    BY <2>1, <2>2
<1>5. SeesLow'
  BY <1>4 DEF SeesLow
<1>6. CountsData'
  <2>1. anchor.at = "send" => AnchorLevel(anchor.byte, anchor.n) = 1
    BY LineIs
  <2>2. anchor.at = "send" /\ anchor.n \in 3 .. 10 => anchor.left <= 8
    BY DEF AnchorShape, AnchorLength
  <2>3. AnchorLevel(anchor.byte, anchor.n)' = AnchorLevel(anchor.byte, anchor.n)
    BY DEF AnchorLevel
  <2> QED
    BY <2>1, <2>2, <2>3 DEF CountsData
<1>7. FrameTaken' /\ Turning' /\ Answering' /\ Unanswered'
  BY DEF FrameTaken, Framing, Turning, Answering, InStep, Unanswered
<1>8. Met'
  BY DEF InStep, Met, AnchorClock, AnchorEnd
<1> QED
  BY <1>5, <1>6, <1>7, <1>8 DEF InStep

(* The partner counts samples at 1 until the line falls.                   *)
LEMMA PartnerCountInStep ==
  ASSUME Timed, Fine', PartnerCount
  PROVE  InStep'
<1>1. Counts /\ Delays /\ InStep /\ Counts'
  BY FineCounts, TimelyDelays, PTL DEF Timed
<1>2. /\ partner.at = "count" /\ partner.left = 0
      /\ anchor' = anchor /\ met' = met /\ late' = late
  BY PartnerCountIs DEF Timed
<1> USE <1>1, <1>2 DEF Counts, Delays
<1>3. CASE /\ 1 \in Line
           /\ partner' = [partner EXCEPT !.n = (partner.n + 1) % 256, !.left = 1]
  <2>1. /\ partner'.at = "count" /\ partner'.left = 1
        /\ partner'.n = (partner.n + 1) % 256
    BY <1>3 DEF Timed, Fine, PartnerFine, PartnerTypes
  <2>2. partner'.n <= partner.n + 1 /\ (partner.n < 255 => partner'.n = partner.n + 1)
    BY <2>1
  <2>3. anchor.pin # {0} /\ (anchor.at = "send" => AnchorLevel(anchor.byte, anchor.n) = 1)
    <3>1. anchor.pin = {0} => Line = {0}
      BY DEF Line, Driven, PartnerShape
    <3> QED
      BY <1>3, <3>1, LineIs
  <2>4. SeesLow'
    BY <2>3 DEF SeesLow
  <2>5. CountsData'
    <3>1. AnchorLevel(anchor.byte, anchor.n)' = AnchorLevel(anchor.byte, anchor.n)
      BY DEF AnchorLevel
    <3> QED
      BY <2>1, <2>2, <2>3, <3>1 DEF InStep, CountsData
  <2>6. FrameTaken' /\ Turning' /\ Answering' /\ Unanswered'
    BY <2>1 DEF FrameTaken, Framing, Turning, Answering, InStep, Unanswered
  <2>7. Met'
    <3>1. anchor.at = "send" => anchor.n # 2
      BY <2>3 DEF AnchorLevel
    <3>2. anchor.at = "send" /\ anchor.n = 1 => AnchorClock <= 64 /\ AnchorClock \in Int
      BY DEF AnchorClock, AnchorEnd
    <3>3. AnchorClock' = AnchorClock
      BY DEF AnchorClock
    <3> QED
      BY <2>1, <2>2, <3>1, <3>2, <3>3 DEF InStep, Met
  <2> QED
    BY <2>4, <2>5, <2>6, <2>7 DEF InStep
<1>4. CASE /\ 0 \in Line /\ partner.n \in 59 .. 69
           /\ partner' = [partner EXCEPT !.at = "sample", !.n = 0, !.left = 4,
                                         !.byte = {}]
  <2>1. /\ partner'.at = "sample" /\ partner'.n = 0 /\ partner'.left = 4
        /\ partner'.byte = {} /\ partner'.high = 0
    BY <1>4 DEF Timed, Fine, PartnerFine, PartnerTypes, PartnerShape
  <2>2. PartnerClock' = 0
    BY <2>1 DEF PartnerClock
  <2>3. \/ anchor.at = "idle"
        \/ anchor.at = "send" /\ anchor.n \in {2, 12}
    <3>1. anchor.at \notin {"hunt", "sample"}
      BY <1>4, LineIs
    <3>2. anchor.at = "send" => AnchorLevel(anchor.byte, anchor.n) = 0
      BY <1>4, LineIs
    <3>3. anchor.at = "send" => anchor.n \in 1 .. 12 /\ anchor.n \notin {1, 11}
      BY <3>2 DEF AnchorLevel, AnchorShape
    <3>4. anchor.at = "send" => anchor.n \notin 3 .. 10
      BY <1>4, <3>2 DEF InStep, CountsData
    <3> QED
      BY <3>1, <3>3, <3>4 DEF AnchorPlaces
  <2>4. anchor.pin = {0} /\ LowPulse <= 1 + late
    <3>1. anchor.pin = {0}
      BY <2>3 DEF AnchorShape, AnchorLevel
    <3> QED
      BY <3>1 DEF InStep, SeesLow, LowPulse, IdleClock, AnchorLength
  <2>5. anchor.at = "idle" => Idles'
    BY <2>1, <2>2, <2>4 DEF Idles, IdleClock, LowPulse
  <2>6. anchor.at = "send" /\ anchor.n = 2 => Aligned'
    <3>1. anchor.at = "send" /\ anchor.n = 2 => Close(AnchorClock, 64 + PartnerClock)'
      BY <2>2, <2>4 DEF Close, AnchorClock, AnchorEnd, LowPulse, AnchorLength, AnchorShape
    <3>2. partner'.byte = {i \in anchor'.byte : i < partner'.n - 1}
      <4>1. \A i \in anchor.byte : i \in Nat
        BY DEF Timed, Fine, AnchorFine, AnchorTypes
      <4> QED
        BY <2>1, <4>1
    <3> QED
      BY <2>1, <3>1, <3>2 DEF Aligned
  <2>7. anchor.at = "send" /\ anchor.n = 12 => Behind'
    <3>1. anchor.at = "send" /\ anchor.n = 12 => Close(AnchorClock, 152 + PartnerClock)'
      BY <2>2, <2>4 DEF Close, AnchorClock, AnchorEnd, LowPulse, AnchorLength, AnchorShape
    <3>2. met = TRUE => ~(anchor.at = "send" /\ anchor.n = 12)
      BY DEF InStep, Met
    <3> QED
      BY <2>1, <3>1, <3>2 DEF Behind
  <2>8. FrameTaken'
    BY <2>3, <2>5, <2>6, <2>7 DEF FrameTaken
  <2>9. SeesLow' /\ CountsData' /\ Turning' /\ Answering' /\ Unanswered'
    BY <2>1 DEF SeesLow, CountsData, Turning, Answering, InStep, Unanswered
  <2>10. Met'
    BY <2>1, <2>3 DEF InStep, Met
  <2> QED
    BY <2>8, <2>9, <2>10 DEF InStep
<1>5. CASE /\ 0 \in Line /\ partner.n \notin 59 .. 69
           /\ partner' = PartnerWaits(partner.word)
  <2>1. partner'.at = "low"
    BY <1>5 DEF PartnerWaits, PartnerAway
  <2>2. anchor.at = "send" => AnchorLevel(anchor.byte, anchor.n) = 0
    BY <1>5, LineIs
  <2>3. met = TRUE => anchor.at \notin {"send", "hunt"}
    BY <1>5, <2>2 DEF InStep, Met, AnchorLevel, AnchorShape
  <2> QED
    BY <2>1, <2>3, WaitsInStep
<1> QED
  BY <1>3, <1>4, <1>5, PartnerCountIs DEF Timed

(* The partner samples the anchor's bits in their middle.                  *)
LEMMA PartnerSampleHits ==
  ASSUME Counts, Delays, FrameTaken, Aligned, anchor.at \in {"send", "hunt"},
         partner.at = "sample", partner.left = 0
  PROVE  /\ anchor.at = "send" /\ anchor.n = partner.n + 2
         /\ Line = {AnchorLevel(anchor.byte, anchor.n)}
<1>1. PartnerClock = 4 + 8 * partner.n /\ partner.n <= 8
  BY DEF PartnerClock, Counts, PartnerShape
<1>2. AnchorClock \in Int /\ AnchorClock >= 67 + 8 * partner.n
                          /\ AnchorClock <= 70 + 8 * partner.n
  <2>1. AnchorClock \in Int
    BY DEF AnchorClock, AnchorEnd, Counts
  <2> QED
    BY <1>1, <2>1 DEF Aligned, Close, Counts, Delays
<1>3. anchor.at = "send"
  BY <1>1, <1>2 DEF AnchorClock, Counts, AnchorShape
<1>4. anchor.n \in 1 .. 12 /\ anchor.left <= AnchorLength(anchor.n)
  BY <1>3 DEF Counts, AnchorShape
<1>5. anchor.n = partner.n + 2
  BY <1>1, <1>2, <1>3, <1>4 DEF AnchorClock, AnchorEnd, AnchorLength, Counts
<1> QED
  BY <1>3, <1>5, LineIs

LEMMA PartnerSampleInStep ==
  ASSUME Timed, Fine', PartnerSample
  PROVE  InStep'
<1>1. Counts /\ Delays /\ InStep /\ Counts'
  BY FineCounts, TimelyDelays, PTL DEF Timed
<1>2. /\ partner.at = "sample" /\ partner.left = 0
      /\ anchor' = anchor /\ met' = met /\ late' = late
  BY PartnerSampleIs DEF Timed
<1>3. PICK level \in Line :
        \/ /\ partner.n = 0 /\ level = 1
           /\ partner' = PartnerWaits(partner.word)
        \/ /\ partner.n < 8 /\ ~(partner.n = 0 /\ level = 1)
           /\ partner' = [partner EXCEPT
                !.n = partner.n + 1, !.left = 8, !.high = 0,
                !.byte = IF level = 1 THEN partner.byte \cup {partner.n - 1}
                         ELSE partner.byte]
        \/ /\ partner.n = 8
           /\ partner' = [partner EXCEPT
                !.at = "measure", !.n = 0, !.left = 5, !.high = 0,
                !.byte = IF level = 1 THEN partner.byte \cup {partner.n - 1}
                         ELSE partner.byte]
  BY PartnerSampleIs DEF Timed
<1> USE <1>1, <1>2 DEF Counts, Delays
<1>4. AnchorClock' = AnchorClock /\ AnchorClock \in Int /\ PartnerClock \in Int
  BY DEF AnchorClock, AnchorEnd, PartnerClock
<1>5. CASE partner.n = 0 /\ level = 1 /\ partner' = PartnerWaits(partner.word)
  <2>1. partner'.at = "low"
    BY <1>5 DEF PartnerWaits, PartnerAway
  <2>2. ~(Aligned /\ anchor.at \in {"send", "hunt"})
    BY <1>5, PartnerSampleHits DEF AnchorLevel, InStep
  <2>3. anchor.at \in {"send", "hunt"} => Behind
    BY <2>2 DEF InStep, FrameTaken, Framing, CalledLate, AnchorShape
  <2>4. met = TRUE => anchor.at \notin {"send", "hunt"}
    BY <2>3, Zenon DEF Behind
  <2> QED
    BY <2>1, <2>4, WaitsInStep
<1>6. CASE /\ partner.n <= 8
           /\ IF partner.n < 8
              THEN partner'.at = "sample" /\ partner'.n = partner.n + 1 /\ partner'.left = 8
              ELSE partner'.at = "measure" /\ partner'.n = 0 /\ partner'.left = 5
           /\ partner'.high = 0
           /\ partner'.byte = IF level = 1 THEN partner.byte \cup {partner.n - 1}
                              ELSE partner.byte
  <2>1. PartnerClock' = PartnerClock
    BY <1>6 DEF PartnerClock
  <2>2. anchor.at = "idle" => Idles'
    BY <1>4, <1>6, <2>1 DEF InStep, FrameTaken, Framing, Idles, IdleClock
  <2>3. Behind => Behind'
    BY <1>4, <1>6, <2>1 DEF Behind, Close
  <2>4. Aligned /\ anchor.at \in {"send", "hunt"} => Aligned' /\ anchor.at = "send" /\ anchor.n <= 10
    <3> SUFFICES ASSUME Aligned, anchor.at \in {"send", "hunt"}
                 PROVE  Aligned' /\ anchor.at = "send" /\ anchor.n <= 10
      OBVIOUS
    <3>1. /\ anchor.at = "send" /\ anchor.n = partner.n + 2
          /\ level = AnchorLevel(anchor.byte, anchor.n)
      BY PartnerSampleHits DEF InStep
    <3>2. Close(AnchorClock, 64 + PartnerClock)'
      BY <1>4, <2>1 DEF Aligned, Close
    <3>3. level = 1 <=> partner.n - 1 \in anchor.byte
      <4>1. \A i \in anchor.byte : i \in 0 .. 7
        BY DEF Timed, Fine, AnchorFine, AnchorTypes
      <4> QED
        BY <1>6, <3>1, <4>1 DEF AnchorLevel
    <3>4. partner'.byte = {i \in anchor.byte : i < partner.n}
      <4>1. \A i \in anchor.byte : i \in 0 .. 7
        BY DEF Timed, Fine, AnchorFine, AnchorTypes
      <4>2. partner.byte = {i \in anchor.byte : i < partner.n - 1}
        BY DEF Aligned
      <4> QED
        BY <1>6, <3>3, <4>1, <4>2
    <3>5. partner'.at = "sample" => partner'.n - 1 = partner.n
      BY <1>6
    <3>6. partner'.at = "sample" =>
            partner'.byte = {i \in anchor'.byte : i < partner'.n - 1}
      BY <3>4, <3>5
    <3>7. partner'.at \in {"measure", "turn"} => partner'.byte = anchor'.byte
      <4>1. \A i \in anchor.byte : i \in 0 .. 7
        BY DEF Timed, Fine, AnchorFine, AnchorTypes
      <4>2. partner'.at # "turn" /\ (partner'.at = "measure" => partner.n = 8)
        BY <1>6
      <4>3. partner.n = 8 => {i \in anchor.byte : i < partner.n} = anchor.byte
        BY <4>1
      <4> QED
        BY <3>4, <4>2, <4>3
    <3>8. partner'.at = "measure" => Zeros' = 0 /\ anchor.n <= 10
      BY <1>6, <3>1 DEF Zeros
    <3> QED
      BY <1>6, <3>1, <3>2, <3>6, <3>7, <3>8 DEF Aligned
  <2>5. partner'.at \in {"sample", "measure"} /\ partner'.at # "send"
    BY <1>6
  <2>6. FrameTaken'
    BY <2>2, <2>3, <2>4, <2>5 DEF InStep, FrameTaken, Framing, CalledLate
  <2>7. SeesLow' /\ CountsData' /\ Turning' /\ Answering' /\ Unanswered'
    BY <2>5 DEF SeesLow, CountsData, Turning, Answering, InStep, Unanswered
  <2>8. anchor.at = "send" /\ anchor.n = 2 => partner'.at = "sample"
    <3>1. anchor.at = "send" /\ anchor.n = 2 => Aligned
      BY DEF InStep, FrameTaken, Framing
    <3>2. anchor.at = "send" /\ anchor.n = 2 => partner.n = 0
      BY <3>1, PartnerSampleHits DEF InStep
    <3> QED
      BY <1>6, <3>2
  <2>9. Met'
    BY <2>5, <2>8 DEF InStep, Met
  <2> QED
    BY <2>6, <2>7, <2>9 DEF InStep
<1>7. \/ partner.n = 0 /\ level = 1 /\ partner' = PartnerWaits(partner.word)
      \/ /\ partner.n <= 8
         /\ IF partner.n < 8
            THEN partner'.at = "sample" /\ partner'.n = partner.n + 1 /\ partner'.left = 8
            ELSE partner'.at = "measure" /\ partner'.n = 0 /\ partner'.left = 5
         /\ partner'.high = 0
         /\ partner'.byte = IF level = 1 THEN partner.byte \cup {partner.n - 1}
                            ELSE partner.byte
  <2>1. PartnerTypes
    BY DEF Timed, Fine, PartnerFine
  <2>2. ASSUME partner.n < 8,
               partner' = [partner EXCEPT
                 !.n = partner.n + 1, !.left = 8, !.high = 0,
                 !.byte = IF level = 1 THEN partner.byte \cup {partner.n - 1}
                          ELSE partner.byte]
        PROVE  /\ partner'.at = "sample" /\ partner'.n = partner.n + 1 /\ partner'.left = 8
               /\ partner'.high = 0
               /\ partner'.byte = IF level = 1 THEN partner.byte \cup {partner.n - 1}
                                  ELSE partner.byte
    BY <2>1, <2>2 DEF PartnerTypes
  <2>3. ASSUME partner' = [partner EXCEPT
                 !.at = "measure", !.n = 0, !.left = 5, !.high = 0,
                 !.byte = IF level = 1 THEN partner.byte \cup {partner.n - 1}
                          ELSE partner.byte]
        PROVE  /\ partner'.at = "measure" /\ partner'.n = 0 /\ partner'.left = 5
               /\ partner'.high = 0
               /\ partner'.byte = IF level = 1 THEN partner.byte \cup {partner.n - 1}
                                  ELSE partner.byte
    BY <2>1, <2>3 DEF PartnerTypes
  <2>4. (partner.n < 8 => partner.n <= 8) /\ (partner.n = 8 => partner.n <= 8 /\ ~(partner.n < 8))
    OBVIOUS
  <2> QED
    BY <1>3, <2>2, <2>3, <2>4, Zenon
<1> QED
  BY <1>5, <1>6, <1>7

(* The partner measures the short stop bit.                                *)
LEMMA PartnerMeasureHits ==
  ASSUME Counts, Delays, Aligned, anchor.at \in {"send", "hunt"},
         anchor.at = "hunt" => anchor.n = 0,
         partner.at = "measure", partner.left = 0
  PROVE  /\ anchor.at = "send" => anchor.n >= 10
         /\ anchor.at = "send" /\ anchor.n = 10 => partner.n = 0 /\ late = 1
         /\ partner.n = 23 /\ anchor.at = "send" =>
              anchor.n = 12 /\ AnchorClock >= 160 - late
<1>1. PartnerClock = 73 + partner.n /\ partner.n <= 23
  BY DEF PartnerClock, Counts, PartnerShape
<1>2. AnchorClock \in Int /\ AnchorClock >= 137 + partner.n - late
                          /\ AnchorClock <= 138 + partner.n + late
  <2>1. AnchorClock \in Int
    BY DEF AnchorClock, AnchorEnd, Counts
  <2> QED
    BY <1>1, <2>1 DEF Aligned, Close, Counts, Delays
<1>3. CASE anchor.at = "send"
  <2>1. anchor.n \in 1 .. 12 /\ AnchorClock = AnchorEnd(anchor.n) - anchor.left
    BY <1>3 DEF AnchorClock, Counts, AnchorShape
  <2>2. /\ anchor.left \in Nat /\ late \in {0, 1} /\ partner.n \in Nat
    BY DEF Counts, Delays
  <2>3. AnchorEnd(anchor.n) >= 136
    BY <1>2, <2>1, <2>2 DEF AnchorEnd
  <2>4. anchor.n >= 10
    BY <2>1, <2>3 DEF AnchorEnd
  <2>5. anchor.n = 10 => partner.n = 0 /\ late = 1
    BY <1>2, <2>1, <2>2 DEF AnchorEnd
  <2>6. partner.n = 23 => anchor.n = 12 /\ AnchorClock >= 160 - late
    BY <1>2, <2>1, <2>2, <2>4 DEF AnchorEnd
  <2> QED
    BY <1>3, <2>4, <2>5, <2>6
<1>4. CASE anchor.at = "hunt"
  BY <1>4
<1> QED
  BY <1>3, <1>4

LEMMA PartnerMeasureInStep ==
  ASSUME Timed, Fine', PartnerMeasure
  PROVE  InStep'
<1>1. Counts /\ Delays /\ InStep /\ Counts'
  BY FineCounts, TimelyDelays, PTL DEF Timed
<1>2. /\ partner.at = "measure" /\ partner.left = 0 /\ partner.n <= 23
      /\ anchor' = anchor /\ met' = met /\ late' = late
  BY <1>1, PartnerMeasureIs DEF Timed, Counts, PartnerShape
<1>3. PICK level \in Line :
        \/ /\ partner.n < 23
           /\ partner' = [partner EXCEPT !.n = partner.n + 1,
                                         !.high = partner.high + level, !.left = 1]
        \/ /\ partner.n = 23 /\ partner.high + level \in 14 .. 18
           /\ partner' = [partner EXCEPT !.at = "turn", !.n = 0, !.high = 0, !.left = 24]
        \/ /\ partner.n = 23 /\ partner.high + level \notin 14 .. 18
           /\ partner' = PartnerWaits(partner.word)
  BY PartnerMeasureIs DEF Timed
<1> USE <1>1, <1>2 DEF Counts, Delays
<1>4. AnchorClock' = AnchorClock /\ AnchorClock \in Int /\ PartnerClock \in Int
      /\ Zeros \in Int
  BY DEF AnchorClock, AnchorEnd, PartnerClock, Zeros
<1>5. /\ anchor.at = "send" => level = AnchorLevel(anchor.byte, anchor.n)
      /\ anchor.at = "idle" => level = 0
      /\ anchor.at \in {"hunt", "sample"} => level = 1
      /\ level \in {0, 1}
  BY LineIs DEF AnchorLevel, AnchorPlaces
(* With one more sample.                                                   *)
<1> DEFINE zeros == Zeros + 1 - level
<1>6. Aligned /\ anchor.at \in {"send", "hunt"} =>
        /\ anchor.at = "send" /\ anchor.n <= 11 => zeros <= late
        /\ anchor.at = "send" /\ anchor.n = 12 =>
             /\ AnchorClock - 152 - late <= zeros
             /\ zeros <= AnchorClock - 151 + late
        /\ anchor.at = "hunt" => 7 - late <= zeros /\ zeros <= 9 + late
        /\ partner.n = 23 /\ anchor.at = "send" => anchor.n = 12 /\ AnchorClock >= 160 - late
  <2> SUFFICES ASSUME Aligned, anchor.at \in {"send", "hunt"}
               PROVE  /\ anchor.at = "send" /\ anchor.n <= 11 => zeros <= late
                      /\ anchor.at = "send" /\ anchor.n = 12 =>
                           /\ AnchorClock - 152 - late <= zeros
                           /\ zeros <= AnchorClock - 151 + late
                      /\ anchor.at = "hunt" => 7 - late <= zeros /\ zeros <= 9 + late
                      /\ partner.n = 23 /\ anchor.at = "send" =>
                           anchor.n = 12 /\ AnchorClock >= 160 - late
    OBVIOUS
  <2>1. anchor.at = "hunt" => anchor.n = 0
    BY DEF InStep, FrameTaken, Framing
  <2>2. /\ anchor.at = "send" => anchor.n >= 10
        /\ anchor.at = "send" /\ anchor.n = 10 => partner.n = 0 /\ late = 1
        /\ partner.n = 23 /\ anchor.at = "send" => anchor.n = 12 /\ AnchorClock >= 160 - late
    BY <2>1, PartnerMeasureHits
  <2>3. /\ anchor.at = "send" /\ anchor.n = 11 => level = 1
        /\ anchor.at = "send" /\ anchor.n = 12 => level = 0
        /\ anchor.at = "hunt" => level = 1
    BY <1>5 DEF AnchorLevel
  <2>4. /\ anchor.at = "send" /\ anchor.n <= 11 => Zeros <= late
        /\ anchor.at = "send" /\ anchor.n = 12 =>
             /\ AnchorClock - 153 - late <= Zeros
             /\ Zeros <= AnchorClock - 152 + late
        /\ anchor.at = "hunt" => 7 - late <= Zeros /\ Zeros <= 9 + late
    BY <1>4 DEF Aligned
  <2>5. partner.n = 0 => Zeros = 0
    BY DEF Zeros, PartnerShape
  <2>6. anchor.at = "send" /\ anchor.n <= 11 => zeros <= late
    BY <1>4, <1>5, <2>2, <2>3, <2>4, <2>5
  <2>7. anchor.at = "send" /\ anchor.n = 12 =>
          AnchorClock - 152 - late <= zeros /\ zeros <= AnchorClock - 151 + late
    BY <1>4, <2>3, <2>4
  <2>8. anchor.at = "hunt" => 7 - late <= zeros /\ zeros <= 9 + late
    BY <1>4, <2>3, <2>4
  <2> QED
    BY <2>2, <2>6, <2>7, <2>8
<1>7. Behind /\ anchor.at \in {"send", "hunt", "sample"} => level = 1
  <2>1. Behind => AnchorClock >= 225 - late
    BY <1>4 DEF Behind, Close, PartnerClock
  <2>2. anchor.at = "send" => AnchorClock <= 160
    BY DEF AnchorClock, AnchorEnd, AnchorShape
  <2> QED
    BY <1>4, <1>5, <2>1, <2>2
<1>8. CASE /\ partner.n < 23
           /\ partner' = [partner EXCEPT !.n = partner.n + 1,
                                         !.high = partner.high + level, !.left = 1]
  <2>1. /\ partner'.at = "measure" /\ partner'.n = partner.n + 1 /\ partner'.left = 1
        /\ partner'.high = partner.high + level /\ partner'.byte = partner.byte
    BY <1>8 DEF Timed, Fine, PartnerFine, PartnerTypes
  <2>2. PartnerClock' = PartnerClock /\ Zeros' = zeros
    BY <1>5, <2>1 DEF PartnerClock, Zeros
  <2>3. Aligned /\ anchor.at \in {"send", "hunt"} => Aligned'
    <3> SUFFICES ASSUME Aligned, anchor.at \in {"send", "hunt"}
                 PROVE  Aligned'
      OBVIOUS
    <3>1. Close(AnchorClock, 64 + PartnerClock)'
      BY <1>4, <2>2 DEF Aligned, Close
    <3>2. partner'.byte = anchor'.byte
      BY <2>1 DEF Aligned
    <3>3. /\ anchor'.at = "send" /\ anchor'.n <= 11 => Zeros' <= late'
          /\ anchor'.at = "send" /\ anchor'.n = 12 =>
               /\ AnchorClock' - 153 + partner'.left - late' <= Zeros'
               /\ Zeros' <= AnchorClock' - 152 + partner'.left + late'
          /\ anchor'.at = "hunt" => 7 - late' <= Zeros' /\ Zeros' <= 9 + late'
      <4> HIDE DEF zeros
      <4> QED
        BY <1>4, <1>6, <2>1, <2>2
    <3> QED
      BY <2>1, <3>1, <3>2, <3>3 DEF Aligned
  <2>4. Behind /\ anchor.at \in {"send", "hunt", "sample"} => Behind'
    BY <1>4, <1>7, <2>1, <2>2 DEF Behind, Close
  <2>5. anchor.at = "idle" => Idles'
    BY <1>4, <1>5, <2>1, <2>2 DEF InStep, FrameTaken, Framing, Idles, IdleClock
  <2>6. CalledLate => CalledLate'
    <3>1. CalledLate => partner'.high + 11 <= partner'.n
      BY <1>5, <2>1 DEF CalledLate
    <3>2. CalledLate => AnchorClock' + 84 <= PartnerClock' + late'
      BY <1>4, <2>2 DEF CalledLate
    <3>3. CalledLate => met' # TRUE
      BY Zenon DEF CalledLate
    <3> QED
      BY <2>1, <3>1, <3>2, <3>3, Zenon DEF CalledLate
  <2>7. FrameTaken'
    BY <2>3, <2>4, <2>5, <2>6 DEF InStep, FrameTaken, Framing
  <2>8. SeesLow' /\ CountsData' /\ Turning' /\ Answering' /\ Unanswered' /\ Met'
    BY <2>1 DEF SeesLow, CountsData, Turning, Answering, InStep, Unanswered, Met
  <2> QED
    BY <2>7, <2>8 DEF InStep
<1>9. CASE /\ partner.n = 23 /\ partner.high + level \in 14 .. 18
           /\ partner' = [partner EXCEPT !.at = "turn", !.n = 0, !.high = 0, !.left = 24]
  <2>1. /\ partner'.at = "turn" /\ partner'.n = 0 /\ partner'.left = 24
        /\ partner'.byte = partner.byte
    BY <1>9 DEF Timed, Fine, PartnerFine, PartnerTypes
  <2>2. PartnerClock' = PartnerClock
    BY <1>9, <2>1 DEF PartnerClock
  <2>3. partner.high + level >= 14 /\ partner.high + level <= 18 /\ partner.high \in Nat
    BY <1>9
  <2>4. anchor.at # "idle" /\ ~CalledLate
    <3>1. anchor.at = "idle" => partner.high = 0 /\ level = 0
      BY <1>5 DEF InStep, FrameTaken, Framing, Idles
    <3>2. CalledLate => partner.high <= 12
      BY <1>9 DEF CalledLate
    <3> QED
      BY <1>5, <2>3, <3>1, <3>2
  <2>5. Behind => anchor.at \notin {"send", "hunt", "sample"}
    <3>1. Behind => partner.high = 23
      BY <1>9 DEF Behind
    <3>2. ~(partner.high = 23)
      BY <1>5, <2>3
    <3> QED
      BY <3>1, <3>2
  <2>6. Aligned /\ anchor.at \in {"send", "hunt"} /\ (anchor.at = "hunt" => anchor.n = 0)
    BY <2>4, <2>5 DEF InStep, FrameTaken, Framing, AnchorShape, AnchorPlaces
  <2>7. anchor.at = "send" => anchor.n = 12
    BY <1>6, <1>9, <2>6
  <2>8. Aligned'
    <3>1. Close(AnchorClock, 64 + PartnerClock)'
      BY <1>4, <2>2, <2>6 DEF Aligned, Close
    <3> QED
      BY <2>1, <2>6, <3>1 DEF Aligned
  <2>9. Turning'
    BY <2>6, <2>7, <2>8 DEF Turning
  <2>10. FrameTaken' /\ SeesLow' /\ CountsData' /\ Answering' /\ Unanswered'
    BY <2>1 DEF FrameTaken, Framing, SeesLow, CountsData, Answering, InStep, Unanswered
  <2>11. Met'
    BY <2>1, <2>7 DEF InStep, Met
  <2> QED
    BY <2>9, <2>10, <2>11 DEF InStep
<1>10. CASE /\ partner.n = 23 /\ partner.high + level \notin 14 .. 18
            /\ partner' = PartnerWaits(partner.word)
  <2>1. partner'.at = "low"
    BY <1>10 DEF PartnerWaits, PartnerAway
  <2>2. Aligned => anchor.at \notin {"send", "hunt"}
    <3> SUFFICES ASSUME Aligned, anchor.at \in {"send", "hunt"}
                 PROVE  FALSE
      OBVIOUS
    <3>1. partner.high + level = 24 - zeros
      BY <1>10, <1>5 DEF Zeros
    <3>2. AnchorClock <= 160 \/ anchor.at = "hunt"
      BY DEF AnchorClock, AnchorEnd, AnchorShape
    <3>3. AnchorClock <= 161 + late
      BY <1>4, <1>10 DEF Aligned, Close, PartnerClock
    <3>4. 6 <= zeros /\ zeros <= 10
      <4>1. zeros \in Int
        BY <1>4, <1>5
      <4> HIDE DEF zeros
      <4> QED
        BY <1>4, <1>6, <1>10, <3>2, <4>1
    <3>5. zeros \in Int
      BY <1>4, <1>5
    <3> HIDE DEF zeros
    <3> QED
      BY <1>10, <3>1, <3>4, <3>5
  <2>3. anchor.at \in {"send", "hunt"} => met # TRUE
    <3>1. anchor.at \in {"send", "hunt"} => CalledLate \/ Behind
      BY <2>2 DEF InStep, FrameTaken, Framing, AnchorShape
    <3> QED
      BY <3>1, Zenon DEF CalledLate, Behind
  <2>4. met = TRUE => anchor.at \notin {"send", "hunt"}
    BY <2>3, Zenon
  <2> QED
    BY <2>1, <2>4, WaitsInStep
<1> QED
  BY <1>3, <1>8, <1>9, <1>10, Zenon

LEMMA PartnerAnswerInStep ==
  ASSUME Timed, PartnerAnswer
  PROVE  InStep'
<1>1. Counts /\ Delays /\ InStep
  BY FineCounts, TimelyDelays DEF Timed
<1>2. /\ partner.at = "turn" /\ partner.left = 0
      /\ anchor' = anchor /\ met' = met /\ late' = late
  BY DEF PartnerAnswer, PartnerDue
<1>3. partner'.at = "send" /\ partner'.n = 1 /\ partner'.left = 64
  <2>1. PartnerFine /\ PartnerOut(1) /\ 1 \in 1 .. 28 /\ partner.at # "measure"
    BY <1>2 DEF PartnerAnswer, Timed, Fine
  <2>2. partner'.at = "send" /\ partner'.n = 1 /\ partner'.left = PartnerLength(1)
    BY <2>1, PartnerOutFine
  <2> QED
    BY <2>2 DEF PartnerLength
<1> USE <1>1, <1>2, <1>3 DEF Counts, Delays
<1>4. PartnerClock = 120 /\ PartnerClock' = 120 /\ AnchorClock' = AnchorClock
  BY DEF PartnerClock, AnchorClock
<1>5. Aligned /\ Close(AnchorClock, 64 + PartnerClock)
  BY DEF InStep, Turning, Aligned
<1>6. anchor.at = "hunt"
  <2>1. anchor.at = "send" => AnchorClock <= 160
    BY DEF AnchorClock, AnchorEnd, AnchorShape
  <2>2. AnchorClock \in Int
    BY DEF AnchorClock, AnchorEnd
  <2>3. anchor.at # "send"
    BY <1>4, <1>5, <2>1, <2>2 DEF Close
  <2> QED
    BY <2>3 DEF InStep, Turning
<1>7. Answering'
  <2>1. Close(AnchorClock, 64 + PartnerClock)'
    BY <1>4, <1>5 DEF Close
  <2> QED
    BY <1>6, <2>1 DEF Answering
<1>8. SeesLow' /\ CountsData' /\ FrameTaken' /\ Turning' /\ Unanswered'
  BY DEF SeesLow, CountsData, FrameTaken, Framing, Turning, Unanswered
<1>9. Met'
  BY <1>6 DEF Met
<1> QED
  BY <1>7, <1>8, <1>9 DEF InStep

LEMMA PartnerSendInStep ==
  ASSUME Timed, PartnerSend
  PROVE  InStep'
<1>1. Counts /\ Delays /\ InStep
  BY FineCounts, TimelyDelays DEF Timed
<1>2. /\ partner.at = "send" /\ partner.left = 0 /\ partner.n \in 1 .. 27
      /\ anchor' = anchor /\ met' = met /\ late' = late
  <2>1. Len(PartnerFrame(partner.word)) = 28
    BY PartnerFrameIs
  <2>2. /\ partner.at = "send" /\ partner.left = 0 /\ partner.n < 28
        /\ anchor' = anchor /\ met' = met /\ late' = late
    BY <2>1 DEF PartnerSend, PartnerDue
  <2>3. partner.n \in 1 .. 27
    BY <1>1, <2>2 DEF Counts, PartnerShape
  <2> QED
    BY <2>2, <2>3
<1>3. /\ partner'.at = "send" /\ partner'.n = partner.n + 1 /\ partner'.left = 8
      /\ partner'.word = partner.word
  <2>1. PartnerFine /\ partner.n + 1 \in 1 .. 28 /\ partner.at # "measure"
    BY <1>2 DEF Timed, Fine
  <2>2. PartnerOut(partner.n + 1)
    BY Zenon DEF PartnerSend
  <2>3. /\ partner'.at = "send" /\ partner'.n = partner.n + 1
        /\ partner'.left = PartnerLength(partner.n + 1) /\ partner'.word = partner.word
    BY <2>1, <2>2, PartnerOutFine
  <2>4. PartnerLength(partner.n + 1) = 8
    BY <1>2 DEF PartnerLength
  <2> QED
    BY <2>3, <2>4
<1> USE <1>1, <1>2, <1>3 DEF Counts, Delays
<1>4. PartnerClock' = PartnerClock /\ AnchorClock' = AnchorClock
  BY DEF PartnerClock, AnchorClock
<1>5. PartnerClock = IF partner.n = 1 THEN 184 ELSE 176 + 8 * partner.n
  BY DEF PartnerClock
<1>6. anchor.at = "hunt" => partner'.n = 2 /\ anchor.n >= 54 /\ anchor.left <= 1
  <2>1. anchor.at = "hunt" /\ partner.n = 2 => anchor.left <= 1 /\ anchor.n >= 54 /\ 8 <= 1 + late
    BY <1>5 DEF InStep, Answering
  <2>2. anchor.at = "hunt" => partner.n = 1 /\ Close(AnchorClock, 64 + PartnerClock)
    BY <2>1 DEF InStep, Answering
  <2>3. anchor.at = "hunt" => AnchorClock = 193 + anchor.n - anchor.left
    BY DEF AnchorClock
  <2>4. anchor.at = "hunt" => anchor.n >= 54
    BY <1>5, <2>2, <2>3 DEF Close
  <2> QED
    BY <2>2, <2>4 DEF AnchorShape
<1>7. Answering'
  <2>1. anchor.at = "hunt" =>
          /\ partner'.n = 2 /\ anchor'.n >= 54
          /\ PartnerClock' - 184 + anchor'.left <= 1 + late'
    BY <1>4, <1>5, <1>6
  <2>2. anchor.at = "sample" =>
          /\ partner'.n >= 2 /\ Close(PartnerClock - 184, AnchorSampleClock)'
          /\ anchor'.error = FALSE
          /\ anchor'.word = {i \in partner'.word : i < anchor'.n - 2}
    <3>1. AnchorSampleClock' = AnchorSampleClock
      BY DEF AnchorSampleClock
    <3>2. anchor.at = "sample" => Close(PartnerClock - 184, AnchorSampleClock)'
      BY <1>4, <3>1 DEF InStep, Answering, Close
    <3> QED
      BY <3>2 DEF InStep, Answering
  <2>3. anchor.at \notin {"send", "idle"}
    BY DEF InStep, Answering
  <2> QED
    BY <2>1, <2>2, <2>3 DEF Answering
<1>8. SeesLow' /\ CountsData' /\ FrameTaken' /\ Turning' /\ Unanswered'
  BY DEF SeesLow, CountsData, FrameTaken, Framing, Turning, Unanswered
<1>9. Met'
  BY DEF InStep, Met, Answering
<1> QED
  BY <1>7, <1>8, <1>9 DEF InStep

LEMMA PartnerReturnInStep ==
  ASSUME Timed, PartnerReturn
  PROVE  InStep'
<1>1. Counts /\ Delays /\ InStep
  BY FineCounts, TimelyDelays DEF Timed
<1>2. /\ partner.at = "send" /\ partner.left = 0 /\ partner.n = 28
      /\ anchor' = anchor /\ met' = met /\ late' = late /\ partner'.at = "away"
  BY PartnerFrameIs DEF PartnerReturn, PartnerDue, PartnerAway
<1> USE <1>1, <1>2 DEF Counts, Delays
<1>3. anchor.at = "idle"
  <2>1. anchor.at \notin {"send", "hunt"}
    BY DEF InStep, Answering
  <2>2. anchor.at = "sample" => Close(216, AnchorSampleClock)
    BY DEF InStep, Answering, PartnerClock
  <2>3. anchor.at = "sample" => AnchorSampleClock <= 212 /\ AnchorSampleClock \in Int
    BY DEF AnchorSampleClock, AnchorShape
  <2>4. anchor.at # "sample"
    BY <2>2, <2>3 DEF Close
  <2> QED
    BY <2>1, <2>4 DEF AnchorPlaces
<1>4. SeesLow' /\ CountsData' /\ FrameTaken' /\ Turning' /\ Answering' /\ Unanswered' /\ Met'
  BY <1>3 DEF SeesLow, CountsData, FrameTaken, Framing, Turning, Answering, Unanswered, Met
<1> QED
  BY <1>4 DEF InStep

(***************************************************************************)
(* The halves understand each other                                        *)
(***************************************************************************)
LEMMA InStepInit == Init => InStep
<1> SUFFICES ASSUME Init
             PROVE  InStep
  OBVIOUS
<1>1. anchor.at = "idle" /\ partner.at = "away" /\ met = FALSE
  BY DEF Init, AnchorIdle, PartnerAway
<1>2. SeesLow /\ CountsData /\ FrameTaken /\ Turning /\ Answering /\ Unanswered /\ Met
  BY <1>1 DEF SeesLow, CountsData, FrameTaken, Framing, Turning, Answering, Unanswered, Met
<1> QED
  BY <1>2 DEF InStep

LEMMA InStepStep == Timed /\ [Next]_vars => Timed'
<1> SUFFICES ASSUME Timed, [Next]_vars
             PROVE  InStep' /\ Fine'
  BY DEF Timed, Timely
<1>1. Fine'
  BY FineStep DEF Timed
<1>2. ASSUME NEW byte \in Bytes, AnchorCall(byte)
      PROVE  InStep'
  BY <1>1, <1>2, AnchorCallInStep
<1>3. CASE Anchor
  BY <1>1, <1>3, AnchorSendInStep, AnchorReleaseInStep, AnchorHuntInStep,
     AnchorSampleInStep, AnchorReturnInStep DEF Anchor
<1>4. ASSUME NEW word \in Words, PartnerListen(word)
      PROVE  InStep'
  BY <1>4, PartnerListenInStep
<1>5. CASE Partner
  BY <1>1, <1>5, PartnerRiseInStep, PartnerCountInStep, PartnerSampleInStep,
     PartnerMeasureInStep, PartnerAnswerInStep, PartnerSendInStep, PartnerReturnInStep
     DEF Partner
<1>6. CASE Elapse
  <2>1. TimeMoves(1, 1, 0) /\ 1 \in Int /\ 0 \in Nat
    BY <1>6, ElapseMoves DEF Timed
  <2> QED
    BY <1>1, <2>1, TimeInStep
<1>7. CASE Oversleep
  <2>1. TimeMoves(-1, 0, 1) \/ TimeMoves(0, -1, 1)
    BY <1>7, OversleepMoves DEF Timed
  <2>2. -1 \in Int /\ 0 \in Int /\ 1 \in Nat
    OBVIOUS
  <2> QED
    BY <1>1, <2>1, <2>2, TimeInStep
<1>8. CASE UNCHANGED vars
  <2>1. /\ -0 <= 0 - 0 /\ 0 - 0 <= 0 /\ 0 <= 0 + 0 /\ 0 \in Int /\ 0 \in Nat
        /\ late + 0 = late /\ anchor.left - 0 = anchor.left /\ partner.left - 0 = partner.left
    BY FineCounts DEF Timed, Counts
  <2>2. TimeMoves(0, 0, 0)
    BY <1>8, <2>1, Zenon DEF TimeMoves, vars
  <2> QED
    BY <1>1, <2>1, <2>2, TimeInStep
<1> QED
  BY <1>1, <1>2, <1>3, <1>4, <1>5, <1>6, <1>7, <1>8 DEF Next

LEMMA AlwaysTimed == Timely /\ Spec => []Timed
<1>1. Timely /\ Init => Timed
  BY FineInit, InStepInit DEF Timed
<1> QED
  BY <1>1, InStepStep, PTL DEF Spec

(* While sleeps and pauses are Timely, a frame the partner accepts is the  *)
(* one the anchor has just ended, whenever it began to listen: neither the *)
(* data bits, nor the extra bit, nor the idle line pass for a frame.       *)
THEOREM PartnerUnderstands == Timely /\ Spec => []FrameUnderstood
<1>1. Timed => FrameUnderstood
  <2> SUFFICES ASSUME Timed, partner.at = "turn"
               PROVE  /\ partner.byte = anchor.byte
                      /\ \/ anchor.at = "hunt"
                         \/ anchor.at = "send" /\ anchor.n = Len(AnchorFrame(anchor.byte))
    BY DEF FrameUnderstood
  <2>1. Len(AnchorFrame(anchor.byte)) = 12
    BY AnchorFrameIs
  <2> QED
    BY <2>1 DEF Timed, InStep, Turning, Aligned
<1> QED
  BY <1>1, AlwaysTimed, PTL

(* The halves drive against each other while the partner sends its stop    *)
(* bit and the anchor has returned, and at no other time.                  *)
THEOREM ContentionAtTheEnd == Timely /\ Spec => []ContentionIsBrief
<1>1. Timed => ContentionIsBrief
  <2> SUFFICES ASSUME Timed, Driven = {0, 1}
               PROVE  /\ anchor.at = "idle"
                      /\ partner.at = "send"
                      /\ partner.n = Len(PartnerFrame(partner.word))
    BY DEF ContentionIsBrief
  <2>1. Counts /\ InStep
    BY FineCounts DEF Timed
  <2>2. Len(PartnerFrame(partner.word)) = 28
    BY PartnerFrameIs
  <2>3. partner.at = "send"
    <3>1. partner.at # "send" => Driven = anchor.pin
      BY <2>1 DEF Counts, PartnerShape, Driven
    <3>2. anchor.pin \in {{}, {0}, {1}}
      BY <2>1 DEF Counts, AnchorShape, AnchorPlaces, AnchorLevel
    <3> QED
      BY <3>1, <3>2
  <2>4. anchor.at = "idle"
    <3>1. anchor.at \in {"hunt", "sample"} => Driven = partner.pin
      BY <2>1 DEF Counts, AnchorShape, Driven
    <3>2. partner.pin \in {{0}, {1}}
      BY <2>1, <2>3 DEF Counts, PartnerShape, PartnerLevel
    <3>3. anchor.at \notin {"hunt", "sample"}
      BY <3>1, <3>2
    <3> QED
      BY <2>1, <2>3, <3>3 DEF Counts, AnchorPlaces, InStep, Answering
  <2> QED
    BY <2>1, <2>2, <2>3, <2>4 DEF InStep, Answering
<1> QED
  BY <1>1, AlwaysTimed, PTL

(* A call that saw no error returns the word the partner sent, bit by bit. *)
THEOREM AnchorUnderstands == Timely /\ Spec => WordIsPartners
<1>1. Timed /\ [Next]_vars =>
        [AnchorReturn /\ ~anchor'.error =>
           partner.at = "send" /\ returned' = partner.word]_vars
  <2> SUFFICES ASSUME Timed, [Next]_vars, AnchorReturn, ~anchor'.error
               PROVE  partner.at = "send" /\ returned' = partner.word
    OBVIOUS
  <2>1. Fine'
    BY FineStep DEF Timed
  <2> QED
    BY <2>1, AnchorReturnInStep
<1> QED
  BY <1>1, AlwaysTimed, PTL DEF Spec, WordIsPartners

(* A partner that was listening when the anchor called is understood.      *)
THEOREM MetIsAnswered == Timely /\ Spec => MetSucceeds
<1>1. Timed /\ [Next]_vars => [AnchorReturn /\ met => ~anchor'.error]_vars
  <2> SUFFICES ASSUME Timed, [Next]_vars, AnchorReturn, met
               PROVE  ~anchor'.error
    OBVIOUS
  <2>1. Fine' /\ met = TRUE
    BY FineStep DEF Timed, Fine, DataTypes
  <2> QED
    BY <2>1, AnchorReturnInStep, Zenon
<1> QED
  BY <1>1, AlwaysTimed, PTL DEF Spec, MetSucceeds

=============================================================================
