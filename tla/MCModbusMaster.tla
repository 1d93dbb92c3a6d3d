--------------------------- MODULE MCModbusMaster ---------------------------
\* Two slaves on a line: two registers and a command on the first, a register
\* on the second.
EXTENDS ModbusMaster

Cmd(fn, addr, nb) == [fn |-> fn, addr |-> addr, nb |-> nb]
TwoSlaves == <<1, 2>>
TheReads == <<<<Cmd(3, 0, 1), Cmd(3, 1, 1)>>, <<Cmd(3, 0, 1)>>>>
TheWrites == <<<<Cmd(6, 1, 1)>>, <<>>>>
Tables(bits, registers) ==
  [bits |-> bits, inputBits |-> <<>>, registers |-> registers, inputRegisters |-> <<>>]
TheDevices == <<Tables(<<>>, <<10, 11>>), Tables(<<>>, <<20>>)>>
TheValues == <<[bits |-> {}, registers |-> {}], [bits |-> {}, registers |-> {21}]>>
TheData == [fn \in {6} |-> {<<1, 13>>}]

-----------------------------------------------------------------------------
(***************************************************************************)
(* What a device answers, over the requests at and about the limits of a   *)
(* small device: the data go through unchanged, a write is read back, and  *)
(* the answer is as long as the reader, who knows only its first bytes,    *)
(* takes it to be and the master expects.                                  *)
(***************************************************************************)
Bits == UNION {[1 .. n -> {0, 1}] : n \in 0 .. 9}
ASSUME BitsAreKept == \A bits \in Bits : UnpackBits(PackBits(bits), Len(bits)) = bits
ASSUME RegistersAreKept ==
  \A a, b \in {0, 1, 255, 256, 65535} : UnpackRegisters(PackRegisters(<<a, b>>)) = <<a, b>>

ADevice == [bits |-> <<1, 0, 1, 1, 0, 0, 1, 0, 1, 1>>, inputBits |-> <<0, 1>>,
            registers |-> <<10, 511, 65535>>, inputRegisters |-> <<7>>]
DataFor(fn, nb) ==
  CASE fn = 5 -> <<255, 0>> [] fn = 6 -> <<1, 2>>
    [] fn = 15 -> [i \in 1 .. BytesFor(nb) |-> 173] [] fn = 16 -> [i \in 1 .. 2 * nb |-> i]
    [] OTHER -> <<>>
Requests ==
  {[slave |-> 1, fn |-> fn, addr |-> addr, nb |-> nb, data |-> DataFor(fn, nb)] :
     fn \in {1, 2, 3, 4, 15, 16, 99}, addr \in 0 .. 3, nb \in 0 .. 10}
  \union {[slave |-> 1, fn |-> fn, addr |-> addr, nb |-> 1, data |-> DataFor(fn, 1)] :
            fn \in WriteSingle, addr \in 0 .. 11}
Length(f) ==
  HeaderLength + 1 + MetaLength(f.fn) + DataLength(f.fn, f.body[1])

ASSUME AnswersAreAsLongAsTheyAreRead ==
  \A r \in Requests : LET f == Reply(ADevice, r) IN
    /\ Length(f) = Len(Bytes(f))
    /\ f.fn < ExceptionBit => Length(f) = ResponseLength(r)

ASSUME WritesAreReadBack ==
  \A r \in Requests : r.fn \in {15, 16} /\ Refusal(ADevice, r) = 0 =>
    LET back == [r EXCEPT !.fn = r.fn - 14 + (IF r.fn = 16 THEN 1 ELSE 0), !.data = <<>>]
    IN  Values(r) = IF r.fn = 15 THEN UnpackBits(Held(Executed(ADevice, r), back), r.nb)
                                 ELSE UnpackRegisters(Held(Executed(ADevice, r), back))
=============================================================================
