---------------------------- MODULE ModbusFrames ----------------------------
(***************************************************************************)
(* Requests, responses and their lengths (libmodbus/modbus.c and           *)
(* modbus-rtu.c): what a device answers to a request (modbus_reply), how   *)
(* many bytes a receiver asks for after each part of a message, and how    *)
(* many a master expects.                                                  *)
(*                                                                         *)
(* A response is a record: the slave that sends it, the function and the   *)
(* body, a sequence of byte values.  On the line it is slave, function,    *)
(* body and two bytes of CRC.  The CRC is ideal: it is not computed, and a *)
(* message passes the check exactly when it is a frame as it was sent.     *)
(***************************************************************************)
EXTENDS Integers, Sequences, FiniteSets, SequencesExt

ReadBits == {1, 2}                \* coils, discrete inputs
ReadRegisters == {3, 4}           \* holding and input registers
WriteSingle == {5, 6}
WriteMultiple == {15, 16}
MaskWrite == 22
WriteAndRead == 23
ReportSlaveId == 17

HeaderLength == 1
ChecksumLength == 2
MaxAduLength == 256
ExceptionBit == 128
IllegalFunction == 1
IllegalAddress == 2
IllegalValue == 3

MaxWord == 65535
Words == 0 .. MaxWord             \* registers, addresses, numbers of values
Hi(n) == n \div 256
Lo(n) == n % 256
Word(hi, lo) == hi * 256 + lo
BytesFor(bits) == bits \div 8 + (IF bits % 8 = 0 THEN 0 ELSE 1)

\* response_io_status: eight bits to a byte, the first bit lowest.
PackBits(bits) ==
  [i \in 1 .. BytesFor(Len(bits)) |->
     LET At(b) == LET j == 8 * (i - 1) + b + 1 IN IF j <= Len(bits) THEN bits[j] ELSE 0
     IN  At(0) + 2 * At(1) + 4 * At(2) + 8 * At(3) + 16 * At(4) + 32 * At(5)
           + 64 * At(6) + 128 * At(7)]

\* modbus_set_bits_from_bytes
UnpackBits(bytes, nb) ==
  [i \in 1 .. nb |-> (bytes[(i - 1) \div 8 + 1] \div 2 ^ ((i - 1) % 8)) % 2]

PackRegisters(words) == [i \in 1 .. 2 * Len(words) |->
   IF i % 2 = 1 THEN Hi(words[(i + 1) \div 2]) ELSE Lo(words[i \div 2])]
UnpackRegisters(bytes) == [i \in 1 .. Len(bytes) \div 2 |->
   Word(bytes[2 * i - 1], bytes[2 * i])]

(***************************************************************************)
(* modbus_reply.  A device is a record of four tables, each a sequence of  *)
(* values from address 0 on; a request has a slave, a function, an         *)
(* address, a number of values and, to write, their bytes.                 *)
(***************************************************************************)
TableOf(function) ==
  CASE function \in {1, 5, 15} -> "bits"
    [] function = 2 -> "inputBits"
    [] function \in {3, 6, 16} -> "registers"
    [] OTHER -> "inputRegisters"      \* 4

Functions == ReadBits \union ReadRegisters \union WriteSingle \union WriteMultiple
MaxNb(function) ==
  CASE function \in ReadBits -> 2000
    [] function \in ReadRegisters -> 125
    [] function = 15 -> 1968
    [] function = 16 -> 123
    [] OTHER -> 1                     \* WriteSingle

Cells(device, req) == SubSeq(device[TableOf(req.fn)], req.addr + 1, req.addr + req.nb)

\* What a request reads, in the bytes of the answer.
Held(device, req) ==
  IF req.fn \in ReadBits THEN PackBits(Cells(device, req)) ELSE PackRegisters(Cells(device, req))

Values(req) ==
  CASE req.fn = 5 -> <<IF req.data[1] = 255 THEN 1 ELSE 0>>
    [] req.fn = 15 -> UnpackBits(req.data, req.nb)
    [] OTHER -> UnpackRegisters(req.data)

Exception(req, code) ==
  [slave |-> req.slave, fn |-> req.fn + ExceptionBit, body |-> <<code>>]

AddressInRange(device, req) == req.addr + req.nb <= Len(device[TableOf(req.fn)])
ValueInRange(req) ==
  CASE req.fn = 5 -> req.data \in {<<255, 0>>, <<0, 0>>}
    [] req.fn = 6 -> TRUE
    [] req.fn = 15 -> req.nb \in 1 .. MaxNb(15) /\ Len(req.data) * 8 >= req.nb
    [] req.fn = 16 -> req.nb \in 1 .. MaxNb(16) /\ Len(req.data) = 2 * req.nb
    [] OTHER -> req.nb \in 1 .. MaxNb(req.fn)

\* A count is checked before the address, the value of a single write after it.
\* The functions 17, 22 and 23, which the gateway never sends, are left out.
Refusal(device, req) ==
  CASE req.fn \notin Functions -> IllegalFunction
    [] req.fn \in Functions \ WriteSingle /\ ~ValueInRange(req) -> IllegalValue
    [] req.fn \in Functions /\ ~AddressInRange(device, req) -> IllegalAddress
    [] req.fn \in WriteSingle /\ ~ValueInRange(req) -> IllegalValue
    [] OTHER -> 0

Executed(device, req) ==
  IF Refusal(device, req) # 0 \/ req.fn \in ReadBits \union ReadRegisters
    THEN device
    ELSE [device EXCEPT ![TableOf(req.fn)] =
            [i \in DOMAIN @ |-> IF i \in req.addr + 1 .. req.addr + req.nb
                                  THEN Values(req)[i - req.addr] ELSE @[i]]]

Reply(device, req) ==
  IF Refusal(device, req) # 0
    THEN Exception(req, Refusal(device, req))
    ELSE [slave |-> req.slave, fn |-> req.fn,
          body |-> CASE req.fn \in ReadBits \union ReadRegisters ->
                          <<Len(Held(device, req))>> \o Held(device, req)
                     [] req.fn \in WriteSingle ->
                          <<Hi(req.addr), Lo(req.addr)>> \o req.data
                     [] OTHER -> <<Hi(req.addr), Lo(req.addr), Hi(req.nb), Lo(req.nb)>>]

(***************************************************************************)
(* The bytes of a response on the line.  A byte knows the frame it comes   *)
(* from and its place there; its value is what the receiver sees, Crc for  *)
(* a byte of the checksum, whose value may look like anything.             *)
(***************************************************************************)
Crc == -1
Contents(f) == <<f.slave, f.fn>> \o f.body \o <<Crc, Crc>>
Bytes(f) ==
  LET contents == Contents(f)
  IN  [i \in DOMAIN contents |-> [frame |-> f, at |-> i, v |-> contents[i]]]

\* The CRC of a received message is right.
IsFrame(msg) == Len(msg) > 0 /\ msg = Bytes(msg[1].frame)

\* What is read after the function, and after what follows it: what a
\* confirmation announces with its count byte, and the checksum.
MetaLength(function) ==
  CASE function \in WriteSingle \union WriteMultiple -> 4
    [] function = MaskWrite -> 6
    [] OTHER -> 1
DataLength(function, count) ==
  (IF function <= 4 \/ function \in {ReportSlaveId, WriteAndRead} THEN count ELSE 0)
    + ChecksumLength

\* compute_response_length_from_request
ResponseLength(req) ==
  HeaderLength + ChecksumLength +
    CASE req.fn \in ReadBits -> 2 + BytesFor(req.nb)
      [] req.fn \in ReadRegisters \union {WriteAndRead} -> 2 + 2 * req.nb
      [] req.fn = MaskWrite -> 7
      [] OTHER -> 5
=============================================================================
