------------------------- MODULE InformationObjects -------------------------
(***************************************************************************)
(* The information objects of IEC 60870-5 as cs101_information_objects.c   *)
(* writes them into an ASDU and reads them back.  Each of its classes is a *)
(* pair of functions, encode and getFromBuffer, around a list of fields;   *)
(* here it is one record, its layout:                                      *)
(*   fields  what encode appends after the address, in order               *)
(*   room    the space encode asks for, beyond the address                 *)
(*   answer  what encode returns when it has written                       *)
(*   at      where getFromBuffer reads each field, from the first one      *)
(*   needs   the bytes it asks to be left, beyond an address (Unchecked:   *)
(*           it looks at no length)                                        *)
(*   unset   the fields that create leaves as it found the memory          *)
(* A field is what the callers give to create and get from the getters: a  *)
(* number, a flag, a quality.  Bytes are 0..255, a four byte number is a   *)
(* sequence of its bytes, the lowest first, and a float, a normalized      *)
(* value or a time is the bytes it is stored as.                           *)
(***************************************************************************)
EXTENDS Integers, Sequences

Byte == 0..255
Unchecked == -1

----------------------------------------------------------------------------
(* Fields: a kind and a size in bytes. *)
Field(kind, size) == [kind |-> kind, size |-> size]

OCTET == Field("raw", 1)
QDS   == Field("raw", 1)       \* quality
QOS   == Field("raw", 1)       \* qualifier of a set point
R32   == Field("raw", 4)       \* float, or the bit string of a command
SCD   == Field("raw", 4)       \* sixteen points and which of them changed
CP16  == Field("raw", 2)
CP24  == Field("raw", 3)
CP56  == Field("raw", 7)
SIQ   == Field("siq", 1)       \* single point with quality
DIQ   == Field("diq", 1)       \* double point with quality
VTI   == Field("vti", 1)       \* step position
BSI   == Field("bsi", 4)       \* bit string
NVA   == Field("nva", 2)       \* normalized or scaled value
BCR   == Field("bcr", 5)       \* counter
SEP   == Field("sep", 1)       \* event of protection equipment
SCO   == Field("sco", 1)       \* single command
DCO   == Field("dco", 1)       \* double or step command
NOF   == Field("u16", 2)       \* name of a file
LOF   == Field("u24", 3)       \* length of a file or a section
LOS   == Field("los", 1)       \* length of a segment

Bit(flag, weight) == IF flag THEN weight ELSE 0
HasBit(byte, weight) == (byte \div weight) % 2 = 1

\* The value and the quality of a point share a byte; encode adds them.
PointByte(v) == (v.quality + v.state) % 256
PointOf(byte, states) == [state |-> byte % states, quality |-> 16 * (byte \div 16)]

\* A step position keeps to -64..63 in seven bits, the transient flag is the eighth.
StepByte(v) == LET kept == IF v.value > 63 THEN 63
                           ELSE IF v.value < -64 THEN -64 ELSE v.value
               IN  (kept % 128) + Bit(v.transient, 128)
StepOf(byte) == LET seven == byte % 128
                IN  [value |-> IF seven > 63 THEN seven - 128 ELSE seven,
                     transient |-> HasBit(byte, 128)]

\* The bit string is taken apart with / and % on a signed int: for a number whose top bit
\* is set each division rounds towards zero, that is up.
BitstringBytes(v) ==
    [k \in 1..4 |-> (v[k] + Bit(v[4] >= 128 /\ \E j \in 1..(k - 1) : v[j] # 0, 1)) % 256]

\* setScaledValue and getScaledValue
ScaledBytes(v) == LET u == IF v < 0 THEN v + 65536 ELSE v
                  IN  <<u % 256, (u \div 256) % 256>>
ScaledOf(b) == LET u == b[1] + 256 * b[2]
               IN  IF u > 32767 THEN u - 65536 ELSE u

\* The counter and the byte of its flags, set one after the other.
CounterFlags(v) == (v.number % 32) + Bit(v.carry, 32) + Bit(v.adjusted, 64)
                     + Bit(v.invalid, 128)
CounterBytes(v) == Append(v.value, CounterFlags(v))
CounterOf(b) == [value |-> SubSeq(b, 1, 4), number |-> b[5] % 32, carry |-> HasBit(b[5], 32),
                 adjusted |-> HasBit(b[5], 64), invalid |-> HasBit(b[5], 128)]

\* The state of a protection event in two bits, its quality in the other six.
EventByte(v) == (v.qdp + v.state) % 256
EventOf(byte) == [state |-> byte % 4, qdp |-> 4 * (byte \div 4)]

\* State, qualifier and select of a command.
CommandByte(v) == v.state + 4 * (v.qu % 32) + Bit(v.select, 128)
CommandOf(byte, states) == [state |-> byte % states, qu |-> (byte % 128) \div 4,
                            select |-> HasBit(byte, 128)]

\* A number in so many bytes, the lowest first, each weighs 256 times the one before.
Weight(k) == 256 ^ k
NumberBytes(v, size) == [k \in 1..size |-> (v \div Weight(k - 1)) % 256]
NumberOf(b) ==
    LET sum[k \in 0..Len(b)] == IF k = 0 THEN 0 ELSE sum[k - 1] + b[k] * Weight(k - 1)
    IN  sum[Len(b)]

\* The bytes encode appends for a field.
Encoded(f, v) ==
    CASE f.kind = "raw" -> v
      [] f.kind \in {"siq", "diq"} -> <<PointByte(v)>>
      [] f.kind = "vti" -> <<StepByte(v)>>
      [] f.kind = "bsi" -> BitstringBytes(v)
      [] f.kind = "nva" -> ScaledBytes(v)
      [] f.kind = "bcr" -> CounterBytes(v)
      [] f.kind = "sep" -> <<EventByte(v)>>
      [] f.kind \in {"sco", "dco"} -> <<CommandByte(v)>>
      [] f.kind \in {"u16", "u24", "los"} -> NumberBytes(v, f.size)

\* The value the getters give for the bytes getFromBuffer has read.
Decoded(f, b) ==
    CASE f.kind \in {"raw", "bsi"} -> b
      [] f.kind = "siq" -> PointOf(b[1], 2)
      [] f.kind = "diq" -> PointOf(b[1], 4)
      [] f.kind = "vti" -> StepOf(b[1])
      [] f.kind = "nva" -> ScaledOf(b)
      [] f.kind = "bcr" -> CounterOf(b)
      [] f.kind = "sep" -> EventOf(b[1])
      [] f.kind = "sco" -> CommandOf(b[1], 2)
      [] f.kind = "dco" -> CommandOf(b[1], 4)
      [] f.kind \in {"u16", "u24", "los"} -> NumberOf(b)

----------------------------------------------------------------------------
(* The values the application can give to a field and expect to get back.  A quality has  *)
(* bits of its own; of the bit strings whose top bit is set those that end in three zero  *)
(* bytes survive the divisions; a segment says its own length.                            *)
SegmentLength == 3

Quality == {16 * q : q \in 0..15}
EventQuality == {4 * q : q \in 0..63}
ScaledValue == {v \in Int : -32768 <= v /\ v <= 32767}
Counter == [value : [1..4 -> Byte], number : 0..31, carry : BOOLEAN, adjusted : BOOLEAN,
            invalid : BOOLEAN]

Holds(f, v) ==
    /\ f.kind = "raw" => v \in [1..f.size -> Byte]
    /\ f.kind = "siq" => v \in [state : 0..1, quality : Quality]
    /\ f.kind = "diq" => v \in [state : 0..3, quality : Quality]
    /\ f.kind = "vti" => v \in [value : -64..63, transient : BOOLEAN]
    /\ f.kind = "bsi" => /\ v \in [1..4 -> Byte]
                         /\ v[4] >= 128 => v[1] = 0 /\ v[2] = 0 /\ v[3] = 0
    /\ f.kind = "nva" => v \in ScaledValue
    /\ f.kind = "bcr" => v \in Counter
    /\ f.kind = "sep" => v \in [state : 0..3, qdp : EventQuality]
    /\ f.kind = "sco" => v \in [state : 0..1, qu : 0..31, select : BOOLEAN]
    /\ f.kind = "dco" => v \in [state : 0..3, qu : 0..31, select : BOOLEAN]
    /\ f.kind \in {"u16", "u24"} => v \in Nat /\ v < Weight(f.size)
    /\ f.kind = "los" => v = SegmentLength

----------------------------------------------------------------------------
(* Layouts. *)
\* Where the first k fields end, and the bytes all of them take.
Ends(fields) ==
    LET end[k \in 0..Len(fields)] == IF k = 0 THEN 0 ELSE end[k - 1] + fields[k].size
    IN  end
Width(fields) == Ends(fields)[Len(fields)]

\* A class whose encode and getFromBuffer go through the same fields: encode asks for the
\* room they take, getFromBuffer looks at no length.
Monitored(fields) ==
    [fields |-> fields, room |-> Width(fields), answer |-> TRUE,
     at |-> [k \in 1..Len(fields) |-> Ends(fields)[k - 1]],
     needs |-> Unchecked, unset |-> {}]

\* The same, where getFromBuffer asks for an address and so many bytes.
Measured(layout, needs) == [layout EXCEPT !.needs = needs]

(* Monitored points (M_...). *)
SinglePointInformation == Monitored(<<SIQ>>)
StepPositionInformation == Monitored(<<VTI, QDS>>)
\* encode returns false after it has written.
StepPositionWithCP56Time2a == [Monitored(<<VTI, QDS, CP56>>) EXCEPT !.answer = FALSE]
\* The index stays on the quality: the time is read one byte early.
StepPositionWithCP24Time2a == [Monitored(<<VTI, QDS, CP24>>) EXCEPT !.at = <<0, 1, 1>>]
\* Mutant: encode answers as that of the step position with a long time does.
DoublePointUnanswered == [Monitored(<<DIQ>>) EXCEPT !.answer = FALSE]
DoublePointInformation == Monitored(<<DIQ>>)
DoublePointWithCP24Time2a == Monitored(<<DIQ, CP24>>)
DoublePointWithCP56Time2a == Monitored(<<DIQ, CP56>>)
SinglePointWithCP24Time2a == Monitored(<<SIQ, CP24>>)
SinglePointWithCP56Time2a == Monitored(<<SIQ, CP56>>)
BitString32 == Monitored(<<BSI, QDS>>)
Bitstring32WithCP24Time2a == Monitored(<<BSI, QDS, CP24>>)
Bitstring32WithCP56Time2a == Monitored(<<BSI, QDS, CP56>>)
MeasuredValueNormalized == Monitored(<<NVA, QDS>>)
MeasuredValueNormalizedWithoutQuality == Monitored(<<NVA>>)
MeasuredValueNormalizedWithCP24Time2a == Monitored(<<NVA, QDS, CP24>>)
MeasuredValueNormalizedWithCP56Time2a == Monitored(<<NVA, QDS, CP56>>)
MeasuredValueScaled == Monitored(<<NVA, QDS>>)
MeasuredValueScaledWithCP24Time2a == Monitored(<<NVA, QDS, CP24>>)
MeasuredValueScaledWithCP56Time2a == Monitored(<<NVA, QDS, CP56>>)
MeasuredValueShort == Monitored(<<R32, QDS>>)
MeasuredValueShortWithCP24Time2a == Monitored(<<R32, QDS, CP24>>)
MeasuredValueShortWithCP56Time2a == Monitored(<<R32, QDS, CP56>>)
IntegratedTotals == Monitored(<<BCR>>)
IntegratedTotalsWithCP24Time2a == Monitored(<<BCR, CP24>>)
IntegratedTotalsWithCP56Time2a == Monitored(<<BCR, CP56>>)

(* Protection equipment (M_EP_..., M_PS_...): the length is compared before the address is skipped. *)
EventOfProtectionEquipment == Measured(Monitored(<<SEP, CP16, CP24>>), 6)
EventOfProtectionEquipmentWithCP56Time2a == Measured(Monitored(<<SEP, CP16, CP56>>), 10)
PackedStartEventsOfProtectionEquipment ==
    Measured(Monitored(<<OCTET, OCTET, CP16, CP24>>), 7)
PackedStartEventsOfProtectionEquipmentWithCP56Time2a ==
    Measured(Monitored(<<OCTET, OCTET, CP16, CP56>>), 7)
PackedOutputCircuitInfo == Measured(Monitored(<<OCTET, OCTET, CP16, CP24>>), 7)
PackedOutputCircuitInfoWithCP56Time2a ==
    Measured(Monitored(<<OCTET, OCTET, CP16, CP56>>), 7)
PackedSinglePointWithSCD == Measured(Monitored(<<SCD, QDS>>), 5)

(* Commands (C_...). *)
SingleCommand == Measured(Monitored(<<SCO>>), 1)
SingleCommandWithCP56Time2a == Measured(Monitored(<<SCO, CP56>>), 1)
DoubleCommand == Measured(Monitored(<<DCO>>), 1)
DoubleCommandWithCP56Time2a == Measured(Monitored(<<DCO, CP56>>), 1)
StepCommand == Measured(Monitored(<<DCO>>), 1)
StepCommandWithCP56Time2a == Measured(Monitored(<<DCO, CP56>>), 8)
SetpointCommandNormalized == Measured(Monitored(<<NVA, QOS>>), 3)
SetpointCommandNormalizedWithCP56Time2a == Measured(Monitored(<<NVA, QOS, CP56>>), 10)
SetpointCommandScaled == Measured(Monitored(<<NVA, QOS>>), 3)
SetpointCommandScaledWithCP56Time2a == Measured(Monitored(<<NVA, QOS, CP56>>), 10)
SetpointCommandShort == Measured(Monitored(<<R32, QOS>>), 5)
SetpointCommandShortWithCP56Time2a == Measured(Monitored(<<R32, QOS, CP56>>), 10)
Bitstring32Command == Measured([Monitored(<<R32>>) EXCEPT !.room = 5], 4)
Bitstring32CommandWithCP56Time2a ==
    Measured([Monitored(<<R32, CP56>>) EXCEPT !.room = 12], 11)

(* System commands, parameters and the end of the initialisation. *)
ReadCommand == Measured(Monitored(<<>>), 0)
ClockSynchronizationCommand == Measured(Monitored(<<CP56>>), 7)
InterrogationCommand == Measured(Monitored(<<OCTET>>), 1)
CounterInterrogationCommand == Measured(Monitored(<<OCTET>>), 1)
TestCommand == Measured(Monitored(<<OCTET, OCTET>>), 1)
ResetProcessCommand == Measured(Monitored(<<OCTET>>), 1)
DelayAcquisitionCommand == Measured(Monitored(<<CP16>>), 1)
ParameterNormalizedValue == MeasuredValueNormalized
ParameterScaledValue == MeasuredValueScaled
ParameterFloatValue == MeasuredValueShort
ParameterActivation == Monitored(<<OCTET>>)
EndOfInitialization == Measured(Monitored(<<OCTET>>), 1)

(* File transfer (F_...). *)
FileReady == Measured([Monitored(<<NOF, LOF, OCTET>>) EXCEPT !.room = 1], 6)
SectionReady == Measured([Monitored(<<NOF, OCTET, LOF, OCTET>>) EXCEPT !.room = 1], 7)
FileCallOrSelect == Measured([Monitored(<<NOF, OCTET, OCTET>>) EXCEPT !.room = 1], 4)
\* Both the qualifier and the checksum are read from the fourth byte.
FileLastSegmentOrSection == Measured([Monitored(<<NOF, OCTET, OCTET, OCTET>>)
                 EXCEPT !.room = Unchecked, !.at = <<0, 2, 3, 3>>], 5)
FileACK == Measured([Monitored(<<NOF, OCTET, OCTET>>) EXCEPT !.room = Unchecked], 4)
\* A segment carries SegmentLength bytes of the file, after their number; encode compares
\* that number with the longest ASDU and not with the space left (FileSegment_GetMaxDataSize).
FileSegment == Measured([Monitored(<<NOF, OCTET, LOS, Field("raw", SegmentLength)>>)
                           EXCEPT !.room = Unchecked], 4 + SegmentLength)
\* create does not store the length.
FileDirectory == [Monitored(<<NOF, LOF, OCTET, CP56>>) EXCEPT !.unset = {2}]
=============================================================================
