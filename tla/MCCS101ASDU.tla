----------------------------- MODULE MCCS101ASDU -----------------------------
(* An instance of CS101ASDU for TLC. *)
EXTENDS CS101ASDU, TimeTags

\* Of IEC 60870-5-104, of the shortest IEC 60870-5-101, and a short ASDU that a few objects
\* fill.
ParametersDef == {[cot |-> 2, ca |-> 2, ioa |-> 3, max |-> 249],
                  [cot |-> 1, ca |-> 1, ioa |-> 1, max |-> 24],
                  [cot |-> 2, ca |-> 1, ioa |-> 2, max |-> 30]}

AddressesDef == {-1, 300, 70000}

\* Two values of each kind of field; the objects of an ASDU take them in turn.
Value(f, turn) ==
    LET even == turn % 2 = 0
    IN  CASE f.kind = "raw" -> [k \in 1..f.size |-> (199 * (turn % 2) + 31 * k) % 256]
          [] f.kind = "siq" -> [state |-> turn % 2, quality |-> IF even THEN 240 ELSE 16]
          [] f.kind = "diq" -> [state |-> 3 - (turn % 2), quality |-> IF even THEN 0 ELSE 128]
          [] f.kind = "vti" -> [value |-> IF even THEN -64 ELSE 63, transient |-> even]
          [] f.kind = "bsi" -> IF even THEN <<255, 0, 254, 127>> ELSE <<1, 2, 3, 4>>
          [] f.kind = "nva" -> IF even THEN -32768 ELSE 32767
          [] f.kind = "bcr" -> [value |-> IF even THEN <<0, 0, 0, 128>> ELSE <<255, 1, 2, 127>>,
                                number |-> 30 + (turn % 2), carry |-> even,
                                adjusted |-> ~even, invalid |-> even]
          [] f.kind = "sep" -> [state |-> turn % 4, qdp |-> IF even THEN 252 ELSE 8]
          [] f.kind = "sco" -> [state |-> turn % 2, qu |-> IF even THEN 31 ELSE 1,
                                select |-> even]
          [] f.kind = "dco" -> [state |-> 1 + (turn % 2), qu |-> IF even THEN 31 ELSE 2,
                                select |-> ~even]
          [] f.kind = "u16" -> IF even THEN 65535 ELSE 258
          [] f.kind = "u24" -> IF even THEN 16777215 ELSE 65794
          [] f.kind = "los" -> SegmentLength

GivenDef(type, turn) ==
    LET fields == Elements[type].class.fields
    IN  [k \in 1..Len(fields) |-> Value(fields[k], turn)]

\* The addresses of the objects, near the highest one: in a sequence the one that follows and
\* one that does not, else any, in turn.
OfferedDef(size, sequence, turn) ==
    LET base == Weight(size) - 5
    IN  IF sequence THEN {base + turn, base + turn + 1} ELSE {base + ((3 * turn) % 5)}

----------------------------------------------------------------------------
(* The conversions, over all the values that matter. *)
LeapYear(year) == (year + 1900) % 4 = 0 /\ ((year + 1900) % 100 # 0 \/ (year + 1900) % 400 = 0)
DaysOfMonth(year, month) ==
    CASE month = 1 -> IF LeapYear(year) THEN 29 ELSE 28
      [] month \in {3, 5, 8, 10} -> 30
      [] OTHER -> 31

At(year, month, day, clock) ==
    [year |-> year, month |-> month, day |-> day, hour |-> clock[1], minute |-> clock[2],
     second |-> clock[3], ms |-> clock[4]]

Clocks == {<<0, 0, 0, 0>>, <<23, 59, 59, 999>>, <<12, 34, 56, 255>>, <<1, 2, 4, 97>>}
Blank == <<0, 0, 0, 0, 0, 0, 0>>

NextDay(t) ==
    IF t.day < DaysOfMonth(t.year, t.month) THEN [t EXCEPT !.day = @ + 1]
    ELSE IF t.month < 11 THEN [t EXCEPT !.day = 1, !.month = @ + 1]
    ELSE [t EXCEPT !.day = 1, !.month = 0, !.year = @ + 1]

\* A moment of this century survives CP56Time2a: each setter keeps what the others have set.
ASSUME MomentsAreKept ==
    \A year \in 100..199, month \in 0..11, clock \in Clocks :
      \A day \in 1..DaysOfMonth(year, month) :
        LET t == At(year, month, day, clock) IN MomentOf(SetFromMoment(Blank, t)) = t

\* my_mktime counts the days as the calendar does, leap years and the year 2000 included.
ASSUME DaysFollow ==
    /\ DayOf(At(100, 0, 1, <<0, 0, 0, 0>>)) = 10957
    /\ \A year \in 100..199, month \in 0..11 : \A day \in 1..DaysOfMonth(year, month) :
         LET t == At(year, month, day, <<0, 0, 0, 0>>) IN DayOf(NextDay(t)) = DayOf(t) + 1

\* The flags of a tag live beside its minute and its hour.
ASSUME FlagsAreKept ==
    \A minute \in {0, 59}, hour \in {0, 23}, invalid, substituted, summer \in BOOLEAN :
      LET t == At(119, 5, 30, <<hour, minute, 59, 999>>)
          marked == SetSubstituted(SetInvalid(SetFromMoment(Blank, t), invalid), substituted)
          tag == SetSummerTime(marked, summer)
      IN  /\ MomentOf(tag) = t
          /\ IsInvalid(tag) = invalid /\ IsSubstituted(tag) = substituted
          /\ IsSummerTime(tag) = summer
          /\ SubSeq(SetFromMoment32(Blank, t), 1, 4) = SubSeq(SetFromMoment(Blank, t), 1, 4)
          /\ SetFromMoment(tag, [t EXCEPT !.minute = 1, !.hour = 2, !.ms = 3]) =
               SetSummerTime(SetSubstituted(SetInvalid(SetFromMoment(Blank,
                 [t EXCEPT !.minute = 1, !.hour = 2, !.ms = 3]), invalid), substituted), summer)

\* The counter is what create was given, whatever the memory held before.
ASSUME CountersAreKept ==
    \A memory \in {0, 91, 255}, number \in 0..31, carry, adjusted, invalid \in BOOLEAN :
      LET value == <<1, 2, 254, 255>>
          tag == CounterReading(memory, value, number, carry, adjusted, invalid)
          counter == [value |-> value, number |-> number, carry |-> carry,
                      adjusted |-> adjusted, invalid |-> invalid]
      IN  tag = CounterBytes(counter) /\ CounterOf(tag) = counter

\* Every scaled value and every step position within its range survives.
ASSUME ValuesAreKept ==
    /\ \A v \in -32768..32767 : ScaledOf(ScaledBytes(v)) = v
    /\ \A v \in -64..63, on \in BOOLEAN :
         LET step == [value |-> v, transient |-> on] IN StepOf(StepByte(step)) = step
    /\ \A ms \in 0..65535 : ElapsedOf(SetElapsed(ms)) = ms
=============================================================================
