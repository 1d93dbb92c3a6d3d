------------------------------ MODULE CS101ASDU ------------------------------
(***************************************************************************)
(* An ASDU of cs101_asdu.c: the application creates it, adds information   *)
(* objects and changes its header; whoever receives its bytes asks for the *)
(* header and for its elements.  The bytes are those of                    *)
(* InformationObjects; the application layer parameters (sizes of the      *)
(* cause, of the common address and of the object address, longest ASDU)   *)
(* are chosen once.                                                        *)
(***************************************************************************)
EXTENDS InformationObjects

CONSTANTS
    Types,           \* the type identifications the application uses
    Sequenced,       \* those it uses in ASDUs that are sequences
    Endless,         \* those of which it adds as many as the ASDU takes
    MaxObjects,      \* how many objects of any other type it adds
    Parameters,      \* the application layer parameters: [cot, ca, ioa, max]
    Given(_, _),     \* by type and turn, the fields of an object that it adds
    Offered(_, _, _),\* by size, sequence and turn, the addresses that it gives them
    Causes,          \* causes of transmission it sets
    Addresses,       \* common addresses it sets
    Originator       \* the originator address

VARIABLES
    parameters,
    head,            \* [type, vsq, cause, oa, ca]: the header, vsq and cause as bytes
    payload,         \* the bytes after the header
    objects,         \* the objects added since it was last emptied, in order
    told,            \* what the header was last told to say: [cot, test, negative, ca]
    answer           \* what the last addInformationObject returned

vars == <<parameters, head, payload, objects, told, answer>>

----------------------------------------------------------------------------
(* The type identifications (CS101_ASDU_getElementEx): the class that reads an element   *)
(* and where the element is looked for.  An Indexed one is found by the size the table   *)
(* gives, with or without an address before it; an Addressed one always has an address;  *)
(* an element that is Alone is read at the start whatever index is asked for.            *)
Indexed(class, size)   == [class |-> class, size |-> size, place |-> "indexed"]
Addressed(class, size) == [class |-> class, size |-> size, place |-> "addressed"]
Alone(class)           == [class |-> class, size |-> 0, place |-> "alone"]

PointElements ==
    [M_SP_NA_1 |-> Indexed(SinglePointInformation, 1),
     M_SP_TA_1 |-> Indexed(SinglePointWithCP24Time2a, 4),
     M_DP_NA_1 |-> Indexed(DoublePointInformation, 1),
     M_DP_TA_1 |-> Indexed(DoublePointWithCP24Time2a, 4),
     M_ST_NA_1 |-> Indexed(StepPositionInformation, 2),
     M_ST_TA_1 |-> Indexed(StepPositionWithCP24Time2a, 5),
     M_BO_NA_1 |-> Indexed(BitString32, 5),
     M_BO_TA_1 |-> Indexed(Bitstring32WithCP24Time2a, 8)]

MeasuredElements ==
    [M_ME_NA_1 |-> Indexed(MeasuredValueNormalized, 3),
     M_ME_TA_1 |-> Indexed(MeasuredValueNormalizedWithCP24Time2a, 6),
     M_ME_NB_1 |-> Indexed(MeasuredValueScaled, 3),
     M_ME_TB_1 |-> Indexed(MeasuredValueScaledWithCP24Time2a, 6),
     M_ME_NC_1 |-> Indexed(MeasuredValueShort, 5),
     M_ME_TC_1 |-> Indexed(MeasuredValueShortWithCP24Time2a, 8),
     M_IT_NA_1 |-> Indexed(IntegratedTotals, 5),
     M_IT_TA_1 |-> Indexed(IntegratedTotalsWithCP24Time2a, 8)]

ProtectionElements ==
    [M_EP_TA_1 |-> Indexed(EventOfProtectionEquipment, 6),
     M_EP_TB_1 |-> Indexed(PackedStartEventsOfProtectionEquipment, 7),
     M_EP_TC_1 |-> Indexed(PackedOutputCircuitInfo, 7),
     M_PS_NA_1 |-> Indexed(PackedSinglePointWithSCD, 5),
     M_ME_ND_1 |-> Indexed(MeasuredValueNormalizedWithoutQuality, 2)]

TimedElements ==
    [M_SP_TB_1 |-> Indexed(SinglePointWithCP56Time2a, 8),
     M_DP_TB_1 |-> Indexed(DoublePointWithCP56Time2a, 8),
     M_ST_TB_1 |-> Indexed(StepPositionWithCP56Time2a, 9),
     M_BO_TB_1 |-> Indexed(Bitstring32WithCP56Time2a, 12),
     M_ME_TD_1 |-> Indexed(MeasuredValueNormalizedWithCP56Time2a, 10),
     M_ME_TE_1 |-> Indexed(MeasuredValueScaledWithCP56Time2a, 10),
     M_ME_TF_1 |-> Indexed(MeasuredValueShortWithCP56Time2a, 12),
     M_IT_TB_1 |-> Indexed(IntegratedTotalsWithCP56Time2a, 12),
     M_EP_TD_1 |-> Indexed(EventOfProtectionEquipmentWithCP56Time2a, 10),
     M_EP_TE_1 |-> Indexed(PackedStartEventsOfProtectionEquipmentWithCP56Time2a, 11),
     M_EP_TF_1 |-> Indexed(PackedOutputCircuitInfoWithCP56Time2a, 11)]

CommandElements ==
    [C_SC_NA_1 |-> Addressed(SingleCommand, 1),
     C_DC_NA_1 |-> Addressed(DoubleCommand, 1),
     C_RC_NA_1 |-> Addressed(StepCommand, 1),
     C_SE_NA_1 |-> Addressed(SetpointCommandNormalized, 3),
     C_SE_NB_1 |-> Addressed(SetpointCommandScaled, 3),
     C_SE_NC_1 |-> Addressed(SetpointCommandShort, 5),
     C_BO_NA_1 |-> Addressed(Bitstring32Command, 4),
     C_SC_TA_1 |-> Addressed(SingleCommandWithCP56Time2a, 8),
     C_DC_TA_1 |-> Addressed(DoubleCommandWithCP56Time2a, 8),
     C_RC_TA_1 |-> Addressed(StepCommandWithCP56Time2a, 8),
     C_SE_TA_1 |-> Addressed(SetpointCommandNormalizedWithCP56Time2a, 10),
     C_SE_TB_1 |-> Addressed(SetpointCommandScaledWithCP56Time2a, 10),
     C_SE_TC_1 |-> Addressed(SetpointCommandShortWithCP56Time2a, 12),
     C_BO_TA_1 |-> Addressed(Bitstring32CommandWithCP56Time2a, 11)]

ParameterElements ==
    [P_ME_NA_1 |-> Addressed(ParameterNormalizedValue, 3),
     P_ME_NB_1 |-> Addressed(ParameterScaledValue, 3),
     P_ME_NC_1 |-> Addressed(ParameterFloatValue, 5),
     P_AC_NA_1 |-> Addressed(ParameterActivation, 1)]

SystemElements ==
    [M_EI_NA_1 |-> Alone(EndOfInitialization),
     C_IC_NA_1 |-> Alone(InterrogationCommand),
     C_CI_NA_1 |-> Alone(CounterInterrogationCommand),
     C_RD_NA_1 |-> Alone(ReadCommand),
     C_CS_NA_1 |-> Alone(ClockSynchronizationCommand),
     C_TS_NA_1 |-> Alone(TestCommand),
     C_RP_NA_1 |-> Alone(ResetProcessCommand),
     C_CD_NA_1 |-> Alone(DelayAcquisitionCommand)]

FileElements ==
    [F_FR_NA_1 |-> Alone(FileReady),
     F_SR_NA_1 |-> Alone(SectionReady),
     F_SC_NA_1 |-> Alone(FileCallOrSelect),
     F_LS_NA_1 |-> Alone(FileLastSegmentOrSection),
     F_AF_NA_1 |-> Alone(FileACK),
     F_SG_NA_1 |-> Alone(FileSegment),
     F_DR_TA_1 |-> Indexed(FileDirectory, 13)]

Elements ==
    [type \in UNION {DOMAIN PointElements, DOMAIN MeasuredElements, DOMAIN ProtectionElements,
                     DOMAIN TimedElements, DOMAIN CommandElements, DOMAIN ParameterElements,
                     DOMAIN SystemElements, DOMAIN FileElements} |->
       CASE type \in DOMAIN PointElements      -> PointElements[type]
         [] type \in DOMAIN MeasuredElements   -> MeasuredElements[type]
         [] type \in DOMAIN ProtectionElements -> ProtectionElements[type]
         [] type \in DOMAIN TimedElements      -> TimedElements[type]
         [] type \in DOMAIN CommandElements    -> CommandElements[type]
         [] type \in DOMAIN ParameterElements  -> ParameterElements[type]
         [] type \in DOMAIN SystemElements     -> SystemElements[type]
         [] type \in DOMAIN FileElements       -> FileElements[type]]

\* Types whose elements do not come back as they were added: the layouts say why.
Faulty == {"M_ST_TA_1", "M_ST_TB_1", "F_LS_NA_1", "F_DR_TA_1"}
SoundTypes == DOMAIN Elements \ Faulty

\* Of the monitored points those that compare no length can be read from a sequence.
SoundInSequence ==
    {type \in SoundTypes : /\ Elements[type].place = "indexed"
                           /\ Elements[type].class.needs = Unchecked}

\* The types of which the properties hold.
ASSUME TypesAssumption == Types \subseteq SoundTypes /\ Sequenced \subseteq SoundInSequence

\* The sizes the standard has, which are those the code tells apart, and an ASDU that has room
\* for the longest of the objects that are added without looking for room (SectionReady).
ASSUME ParametersAssumption ==
    \A p \in Parameters : /\ p.cot \in 1..2 /\ p.ca \in 1..2 /\ p.ioa \in 1..3
                          /\ p.max \in Nat /\ 2 + p.cot + p.ca + p.ioa + 7 <= p.max

\* The fields can hold what they are given; an object that is written with its address has
\* one that fits. No ASDU takes more than 127 objects.
Turns == 0..127

ASSUME ObjectsAssumption ==
    \A type \in Types, turn \in Turns :
      LET fields == Elements[type].class.fields
      IN  /\ Given(type, turn) = [k \in 1..Len(fields) |-> Given(type, turn)[k]]
          /\ \A k \in 1..Len(fields) : Holds(fields[k], Given(type, turn)[k])

ASSUME OffersAssumption ==
    \A p \in Parameters, sequence \in BOOLEAN, turn \in Turns :
      \A ioa \in Offered(p.ioa, sequence, turn) :
        ioa \in Nat /\ (~ sequence \/ turn = 0 => ioa < Weight(p.ioa))

\* Six bits hold a cause, one byte the originator.
ASSUME HeaderAssumption ==
    Causes \subseteq 0..63 /\ Addresses \subseteq Int /\ Originator \in Byte

----------------------------------------------------------------------------
(* The header. *)
HeaderLength == 2 + parameters.cot + parameters.ca
IsSequence == head.vsq >= 128
NumberOfElements == head.vsq % 128
SpaceLeft == parameters.max - Len(payload) - HeaderLength

CauseByte(cot, test, negative) == (cot % 64) + Bit(test, 128) + Bit(negative, 64)

\* CS101_ASDU_setCA: out of range is brought into range.
InRange(ca) == IF ca < 0 THEN 0
               ELSE IF ca > Weight(parameters.ca) - 1 THEN Weight(parameters.ca) - 1 ELSE ca

\* What the getters say.
GetCOT == head.cause % 64
IsTest == HasBit(head.cause, 128)
IsNegative == HasBit(head.cause, 64)
GetCA == NumberOf(head.ca)

----------------------------------------------------------------------------
(* The objects the application adds. *)

\* The bytes of an object, without its address: its fields one after the other; one that
\* create does not store has whatever value the memory held.
Contents(layout, values, left) ==
    LET stored(k) == IF k \in layout.unset THEN left[k] ELSE values[k]
        bytes[k \in 0..Len(layout.fields)] ==
            IF k = 0 THEN <<>> ELSE bytes[k - 1] \o Encoded(layout.fields[k], stored(k))
    IN  bytes[Len(layout.fields)]

AddressBytes(ioa) == NumberBytes(ioa, parameters.ioa)

\* getFirstIOA, InformationObject_ParseObjectAddress
FirstAddress == NumberOf(SubSeq(payload, 1, parameters.ioa))

\* Mutant: the address is not counted.
HasRoomForTheFields(type, bare) ==
    Elements[type].class.room # Unchecked => SpaceLeft >= Elements[type].class.room

\* encode finds enough space. The file classes with Unchecked room do not look; a segment
\* is compared with the longest ASDU.
HasRoom(type, bare) ==
    LET room == Elements[type].class.room
    IN  /\ room # Unchecked => SpaceLeft >= room + (IF bare THEN 0 ELSE parameters.ioa)
        /\ type = "F_SG_NA_1" => SegmentLength <= parameters.max - HeaderLength

\* CS101_ASDU_addInformationObject takes an object: the first gives the ASDU its type; in a
\* sequence the next ones have the addresses that follow and are written without them.
Takes(object) ==
    \/ NumberOfElements = 0
    \/ /\ NumberOfElements < 127
       /\ IsSequence => object.ioa = FirstAddress + NumberOfElements

----------------------------------------------------------------------------
(* What the receiver reads. CS101_ASDU_encode sends header and payload as they are and    *)
(* CS101_ASDU_createFromBuffer takes them apart at the same place. A byte that is not     *)
(* there is Unwritten.                                                                    *)
Unwritten == 256
ByteAt(i) == IF i < Len(payload) THEN payload[i + 1] ELSE Unwritten
BytesAt(i, n) == [k \in 1..n |-> ByteAt(i + k - 1)]

NoElement == [type |-> "none", ioa |-> 0, values |-> <<>>]
Crashed   == [type |-> "crashed", ioa |-> 0, values |-> <<>>]

\* Mutant: the elements of a sequence are counted from the start of the payload.
ElementStartWithoutAddress(element, index) ==
    CASE element.place = "alone" -> 0
      [] element.place = "indexed" /\ IsSequence -> index * element.size
      [] OTHER -> index * (parameters.ioa + element.size)

ElementStart(element, index) ==
    CASE element.place = "alone" -> 0
      [] element.place = "indexed" /\ IsSequence -> parameters.ioa + index * element.size
      [] OTHER -> index * (parameters.ioa + element.size)

\* CS101_ASDU_getElement. The length is compared as if an address came first, in a sequence
\* too; there the address is then set in the object that was not made.
GetElement(index) ==
    LET element == Elements[head.type]
        layout  == element.class
        start   == ElementStart(element, index)
        bare    == element.place = "indexed" /\ IsSequence
        tooShort == /\ layout.needs # Unchecked
                    /\ Len(payload) - start < parameters.ioa + layout.needs
        body    == IF bare THEN start ELSE start + parameters.ioa
    IN  IF tooShort THEN IF bare THEN Crashed ELSE NoElement
        ELSE [type   |-> head.type,
              ioa    |-> IF bare THEN FirstAddress + index
                         ELSE NumberOf(BytesAt(start, parameters.ioa)),
              values |-> [k \in 1..Len(layout.fields) |->
                            LET f == layout.fields[k]
                            IN  Decoded(f, BytesAt(body + layout.at[k], f.size))]]

----------------------------------------------------------------------------
(* CS101_ASDU_initializeStatic: the address is written as it comes. *)
Init ==
    /\ parameters \in Parameters
    /\ \E sequence \in BOOLEAN, cot \in Causes, test, negative \in BOOLEAN :
         /\ told = [cot |-> cot, test |-> test, negative |-> negative, ca |-> 1]
         /\ head = [type |-> "none", vsq |-> Bit(sequence, 128),
                    cause |-> CauseByte(cot, test, negative), oa |-> Originator,
                    ca |-> NumberBytes(1, parameters.ca)]
    /\ payload = <<>>
    /\ objects = <<>>
    /\ answer = TRUE

\* What the callers keep to, and the code does not ask for: the objects of an ASDU have one
\* type, a type read at the start comes alone, sequences are for monitored points.
Suits(type) ==
    /\ objects # <<>> => type = head.type /\ Elements[type].place # "alone"
    /\ IsSequence => type \in Sequenced

MayGrow(type) == type \in Endless \/ Len(objects) < MaxObjects

\* CS101_ASDU_addInformationObject
AddInformationObject(type, ioa, left) ==
    LET first  == NumberOfElements = 0
        bare   == IsSequence /\ ~first
        layout == Elements[type].class
        object == [type |-> type, ioa |-> ioa, values |-> Given(type, Len(objects))]
        written == Takes(object) /\ HasRoom(type, bare)
        added  == written /\ layout.answer
    IN  /\ Suits(type) /\ MayGrow(type)
        /\ payload' = IF ~written THEN payload
                      ELSE payload \o (IF bare THEN <<>> ELSE AddressBytes(ioa))
                                   \o Contents(layout, object.values, left)
        /\ answer' = added
        /\ head' = [head EXCEPT !.type = IF first THEN type ELSE @,
                                !.vsq = IF added THEN @ + 1 ELSE @]
        /\ objects' = IF added THEN Append(objects, object) ELSE objects
        /\ UNCHANGED <<parameters, told>>

\* CS101_ASDU_removeAllElements
RemoveAllElements ==
    /\ head' = [head EXCEPT !.vsq = Bit(IsSequence, 128)]
    /\ payload' = <<>>
    /\ objects' = <<>>
    /\ answer' = TRUE
    /\ UNCHANGED <<parameters, told>>

\* CS101_ASDU_setCOT, CS101_ASDU_setTest, CS101_ASDU_setNegative: each keeps the other bits.
SetCause(cause, now) ==
    /\ head' = [head EXCEPT !.cause = cause]
    /\ told' = now
    /\ answer' = TRUE
    /\ UNCHANGED <<parameters, payload, objects>>

SetCOT(cot) == SetCause(64 * (head.cause \div 64) + (cot % 64), [told EXCEPT !.cot = cot])
SetTest(on) == SetCause((head.cause % 128) + Bit(on, 128), [told EXCEPT !.test = on])
SetNegative(on) ==
    SetCause(128 * (head.cause \div 128) + (head.cause % 64) + Bit(on, 64),
             [told EXCEPT !.negative = on])

\* CS101_ASDU_setCA
SetCA(ca) ==
    /\ head' = [head EXCEPT !.ca = NumberBytes(InRange(ca), parameters.ca)]
    /\ told' = [told EXCEPT !.ca = ca]
    /\ answer' = TRUE
    /\ UNCHANGED <<parameters, payload, objects>>

Next ==
    \/ \E type \in Types, ioa \in Offered(parameters.ioa, IsSequence, Len(objects)),
          left \in 0..1 :
         AddInformationObject(type, ioa, Given(type, left))
    \/ RemoveAllElements
    \/ \E cot \in Causes : SetCOT(cot)
    \/ \E on \in BOOLEAN : SetTest(on)
    \/ \E on \in BOOLEAN : SetNegative(on)
    \/ \E ca \in Addresses : SetCA(ca)

Spec == Init /\ [][Next]_vars

----------------------------------------------------------------------------
(* Properties. *)

\* The header and the payload are bytes, the number of elements and its flag share one.
TypeOK ==
    /\ parameters \in Parameters
    /\ head.vsq \in Byte /\ head.cause \in Byte /\ head.oa \in Byte
    /\ head.ca \in [1..parameters.ca -> Byte]
    /\ payload \in Seq(Byte)
    /\ answer \in BOOLEAN

\* The header says what it was last told, whatever else was changed since: cause, test and
\* negative share a byte, the number of elements another with the sequence flag.
HeaderAnswers ==
    /\ GetCOT = told.cot /\ IsTest = told.test /\ IsNegative = told.negative
    /\ GetCA = InRange(told.ca)

\* What was added is what getElement gives back: every object of the ASDU, with its type, its
\* address and its fields, at the place it was added, and no other (addInformationObject and
\* encode against getElement and getFromBuffer, class by class); and the header.
AddedIsRead ==
    /\ NumberOfElements = Len(objects)
    /\ \A i \in 1..NumberOfElements : GetElement(i - 1) = objects[i]
    /\ HeaderAnswers

\* The ASDU never grows past the length the parameters allow, whatever is added: it must fit
\* into an APDU (the space encode asks for against what it writes).
FitsInTheASDU == HeaderLength + Len(payload) <= parameters.max

\* An object that is refused leaves no bytes behind: the ASDU is as good as before, so that
\* the caller can send it and start the next with the same object.
RefusedLeavesNoTrace == [][~answer' => payload' = payload]_vars
=============================================================================
