--------------------------- MODULE CS101ASDUProofs ---------------------------
(***************************************************************************)
(* Proofs about CS101ASDU and the layouts of InformationObjects, for all   *)
(* the sound types, all sizes the parameters may have, and all values and  *)
(* addresses an object may have: what is added is read, the ASDU keeps to  *)
(* its length, and an object that is refused leaves no bytes.              *)
(*                                                                         *)
(* The payload is the objects one after the other, each with its fields    *)
(* where the layout says, and the layouts of the table write their fields  *)
(* where they read them; so the proof goes from bytes and fields over      *)
(* layouts and the table to the payload as a whole.                        *)
(***************************************************************************)
EXTENDS CS101ASDU, SequenceTheorems, WellFoundedInduction, TLAPS

----------------------------------------------------------------------------
(* Recursive functions.  The library's induction theorems take a predicate; here a *)
(* statement is proved for all numbers by looking at the least one it fails for.    *)

(* A set of numbers that is not empty has a least one.                     *)
LEMMA LeastElement ==
  ASSUME NEW S \in SUBSET Nat, S # {}
  PROVE  \E m \in S : \A k \in S : m <= k
<1>1. PICK m \in S : \A k \in S : <<k, m>> \notin OpToRel(<, Nat)
  BY WFMin, NatLessThanWellFounded, Zenon
<1>2. \A k \in S : ~ (k < m)
  BY <1>1, Zenon DEF OpToRel
<1>3. \A k \in S : m <= k
  BY <1>2
<1> QED BY <1>3

(* The sums of the first terms of a sequence, as a function of how many.   *)
SumsOf(s, n, term) == s = [k \in 0..n |-> IF k = 0 THEN 0 ELSE s[k - 1] + term[k]]

(* There is a function that adds up the terms, one more each time.         *)
LEMMA SumsExist ==
  ASSUME NEW n \in Nat, NEW term
  PROVE  \E s : SumsOf(s, n, term)
<1> DEFINE Without == {i \in Nat : ~ \E s : SumsOf(s, i, term)}
<1>1. SUFFICES ASSUME Without # {} PROVE FALSE
  OBVIOUS
<1>2. PICK m \in Without : \A i \in Without : m <= i
  BY <1>1, LeastElement
<1>3. SumsOf([k \in 0..0 |-> 0], 0, term)
  BY DEF SumsOf
<1>4. m - 1 \in Nat /\ m - 1 \notin Without
  BY <1>2, <1>3
<1>5. PICK s : SumsOf(s, m - 1, term)
  BY <1>4
<1> DEFINE t == [k \in 0..m |-> IF k < m THEN s[k] ELSE s[m - 1] + term[m]]
<1>6. \A k \in 0..(m - 1) : s[k] = IF k = 0 THEN 0 ELSE s[k - 1] + term[k]
  BY <1>5, <1>4 DEF SumsOf
<1>7. \A k \in 0..m : t[k] = IF k = 0 THEN 0 ELSE t[k - 1] + term[k]
  BY <1>6, <1>4
<1>8. SumsOf(t, m, term)
  BY <1>7 DEF SumsOf
<1> QED BY <1>8, <1>2

(* They are numbers that do not fall, when the terms are.                  *)
LEMMA SumsAreNumbers ==
  ASSUME NEW n \in Nat, NEW term, \A k \in 1..n : term[k] \in Nat, NEW s, SumsOf(s, n, term)
  PROVE  /\ s[0] = 0
         /\ \A k \in 0..n : s[k] \in Nat
         /\ \A k \in 1..n : s[k] = s[k - 1] + term[k]
<1>1. \A k \in 0..n : s[k] = IF k = 0 THEN 0 ELSE s[k - 1] + term[k]
  BY DEF SumsOf
<1> DEFINE Odd == {k \in 0..n : s[k] \notin Nat}
<1>2. SUFFICES ASSUME Odd # {} PROVE FALSE
  BY <1>1
<1>3. PICK m \in Odd : \A i \in Odd : m <= i
  <2>1. Odd \in SUBSET Nat
    OBVIOUS
  <2> QED BY <2>1, <1>2, LeastElement
<1>4. m # 0 /\ m - 1 \in 0..n /\ m - 1 \notin Odd
  BY <1>1, <1>3
<1> QED BY <1>1, <1>3, <1>4

(* Where the fields of a layout end.                                       *)
LEMMA EndsAreSums ==
  ASSUME NEW fields, Len(fields) \in Nat, \A k \in 1..Len(fields) : fields[k].size \in Nat
  PROVE  /\ Ends(fields)[0] = 0
         /\ \A k \in 0..Len(fields) : Ends(fields)[k] \in Nat
         /\ \A k \in 1..Len(fields) : Ends(fields)[k] = Ends(fields)[k - 1] + fields[k].size
         /\ Width(fields) = Ends(fields)[Len(fields)] /\ Width(fields) \in Nat
<1> DEFINE n == Len(fields)
           size == [k \in 1..n |-> fields[k].size]
           Sums(s) == s = [k \in 0..n |-> IF k = 0 THEN 0 ELSE s[k - 1] + fields[k].size]
<1>1. \A s : SumsOf(s, n, size) <=> Sums(s)
  <2> SUFFICES ASSUME NEW s PROVE SumsOf(s, n, size) <=> Sums(s)
    OBVIOUS
  <2>1. [k \in 0..n |-> IF k = 0 THEN 0 ELSE s[k - 1] + size[k]] =
        [k \in 0..n |-> IF k = 0 THEN 0 ELSE s[k - 1] + fields[k].size]
    OBVIOUS
  <2> QED BY <2>1 DEF SumsOf
<1>2. \E s : Sums(s)
  BY <1>1, SumsExist
<1>3. Ends(fields) = CHOOSE s : Sums(s)
  BY DEF Ends
<1>4. Sums(Ends(fields))
  <2> HIDE DEF Sums
  <2> QED BY <1>2, <1>3, Zenon
<1>5. SumsOf(Ends(fields), n, size) /\ \A k \in 1..n : size[k] = fields[k].size
  BY <1>1, <1>4
<1> HIDE DEF size
<1> QED BY <1>5, SumsAreNumbers DEF Width

(* Sequences put one after the other, as a function of how many.           *)
JoinsOf(b, n, part) == b = [k \in 0..n |-> IF k = 0 THEN <<>> ELSE b[k - 1] \o part[k]]

(* There is a function that appends the parts, one more each time.         *)
LEMMA JoinsExist ==
  ASSUME NEW n \in Nat, NEW part
  PROVE  \E b : JoinsOf(b, n, part)
<1> DEFINE Without == {i \in Nat : ~ \E b : JoinsOf(b, i, part)}
<1>1. SUFFICES ASSUME Without # {} PROVE FALSE
  OBVIOUS
<1>2. PICK m \in Without : \A i \in Without : m <= i
  BY <1>1, LeastElement
<1>3. JoinsOf([k \in 0..0 |-> <<>>], 0, part)
  BY DEF JoinsOf
<1>4. m - 1 \in Nat /\ m - 1 \notin Without
  BY <1>2, <1>3
<1>5. PICK b : JoinsOf(b, m - 1, part)
  BY <1>4
<1> DEFINE t == [k \in 0..m |-> IF k < m THEN b[k] ELSE b[m - 1] \o part[m]]
<1>6. \A k \in 0..(m - 1) : b[k] = IF k = 0 THEN <<>> ELSE b[k - 1] \o part[k]
  BY <1>5, <1>4 DEF JoinsOf
<1>7. \A k \in 0..m : t[k] = IF k = 0 THEN <<>> ELSE t[k - 1] \o part[k]
  BY <1>6, <1>4
<1>8. JoinsOf(t, m, part)
  BY <1>7 DEF JoinsOf
<1> QED BY <1>8, <1>2

(* Parts of bytes that lie one after the other, where each of them ends,   *)
(* and all of them together.                                               *)
Laid(n, part, end) ==
  /\ n \in Nat /\ end[0] = 0
  /\ \A k \in 1..n : part[k] \in Seq(Byte)
  /\ \A k \in 0..n : end[k] \in Nat
  /\ \A k \in 1..n : end[k] = end[k - 1] + Len(part[k])
FoundIn(all, n, part, end) ==
  /\ all \in Seq(Byte) /\ Len(all) = end[n]
  /\ \A k \in 1..n : \A j \in 1..Len(part[k]) :
       end[k - 1] + j \in 1..end[n] /\ all[end[k - 1] + j] = part[k][j]

(* Each part is found where the lengths of those before it say.            *)
LEMMA JoinedParts ==
  ASSUME NEW n, NEW part, NEW end, Laid(n, part, end), NEW b, JoinsOf(b, n, part)
  PROVE  FoundIn(b[n], n, part, end)
<1>0. /\ n \in Nat /\ end[0] = 0
      /\ \A k \in 1..n : part[k] \in Seq(Byte)
      /\ \A k \in 0..n : end[k] \in Nat
      /\ \A k \in 1..n : end[k] = end[k - 1] + Len(part[k])
  BY DEF Laid
<1> USE <1>0
<1> DEFINE P(m) ==
      /\ b[m] \in Seq(Byte) /\ Len(b[m]) = end[m]
      /\ \A k \in 1..m : \A j \in 1..Len(part[k]) :
           end[k - 1] + j \in 1..end[m] /\ b[m][end[k - 1] + j] = part[k][j]
      Odd == {m \in 0..n : ~ P(m)}
<1>1. b[0] = <<>> /\ \A k \in 1..n : b[k] = b[k - 1] \o part[k]
  <2>1. \A k \in 0..n : b[k] = IF k = 0 THEN <<>> ELSE b[k - 1] \o part[k]
    BY Zenon DEF JoinsOf
  <2>2. b[0] = <<>>
    BY <2>1
  <2>3. ASSUME NEW k \in 1..n PROVE b[k] = b[k - 1] \o part[k]
    <3>1. k \in 0..n /\ k # 0
      OBVIOUS
    <3> QED BY <2>1, <3>1, Zenon
  <2> QED BY <2>2, <2>3
<1>2. SUFFICES ASSUME Odd # {} PROVE FALSE
  <2>1. Odd = {} => P(n)
    <3> HIDE DEF P
    <3> QED OBVIOUS
  <2>2. P(n) => FoundIn(b[n], n, part, end)
    BY DEF FoundIn
  <2> HIDE DEF P, Odd
  <2> QED BY <2>1, <2>2
<1>3. PICK m \in Odd : \A i \in Odd : m <= i
  <2>1. Odd \in SUBSET Nat
    OBVIOUS
  <2> HIDE DEF Odd
  <2> QED BY <2>1, <1>2, LeastElement
<1>4. P(0)
  BY <1>1
<1>5. m \in 1..n /\ m - 1 \in 0..n /\ P(m - 1)
  <2>1. m # 0
    BY <1>4, <1>3
  <2>2. m \in 1..n /\ m - 1 \in 0..n /\ m - 1 \notin Odd
    BY <2>1, <1>3
  <2> QED BY <2>2
<1> DEFINE a == b[m - 1]
           c == part[m]
<1>6. a \in Seq(Byte) /\ c \in Seq(Byte) /\ b[m] = a \o c /\ Len(a) = end[m - 1]
      /\ end[m] = end[m - 1] + Len(c) /\ end[m] \in Nat /\ end[m - 1] \in Nat
  BY <1>5, <1>1
<1> HIDE DEF a, c
<1>7. /\ a \o c \in Seq(Byte) /\ Len(a \o c) = Len(a) + Len(c)
      /\ \A i \in 1..Len(a) : (a \o c)[i] = a[i]
      /\ \A i \in 1..Len(c) : (a \o c)[Len(a) + i] = c[i]
      /\ Len(a) \in Nat /\ Len(c) \in Nat
  <2>1. /\ a \o c \in Seq(Byte) /\ Len(a \o c) = Len(a) + Len(c)
        /\ \A i \in 1..Len(a) + Len(c) : (a \o c)[i] =
              IF i <= Len(a) THEN a[i] ELSE c[i - Len(a)]
    BY <1>6, ConcatProperties, Zenon
  <2>2. Len(a) \in Nat /\ Len(c) \in Nat
    BY <1>6, LenProperties
  <2>3. ASSUME NEW i \in 1..Len(a) PROVE (a \o c)[i] = a[i]
    BY <2>1, <2>2
  <2>4. ASSUME NEW i \in 1..Len(c) PROVE (a \o c)[Len(a) + i] = c[i]
    <3>1. Len(a) + i \in 1..Len(a) + Len(c) /\ ~ (Len(a) + i <= Len(a)) /\ (Len(a) + i) - Len(a) = i
      BY <2>2
    <3> QED BY <3>1, <2>1
  <2> QED BY <2>1, <2>2, <2>3, <2>4
<1>8. ASSUME NEW k \in 1..m, NEW j \in 1..Len(part[k])
      PROVE  end[k - 1] + j \in 1..end[m] /\ b[m][end[k - 1] + j] = part[k][j]
  <2>1. CASE k = m
    <3>1. part[k] = c /\ j \in 1..Len(c) /\ end[k - 1] = Len(a)
      BY <2>1, <1>6 DEF c
    <3>2. (a \o c)[Len(a) + j] = c[j]
      BY <3>1, <1>7
    <3>3. Len(a) + j \in 1..end[m]
      <4>1. end[m] = Len(a) + Len(c) /\ Len(a) \in Nat /\ Len(c) \in Nat
        BY <1>6, <1>7
      <4> QED BY <3>1, <4>1
    <3> QED BY <3>1, <3>2, <3>3, <1>6
  <2>2. CASE k # m
    <3>1. k \in 1..(m - 1) /\ k - 1 \in 0..n
      BY <2>2, <1>5
    <3>2. end[k - 1] + j \in 1..end[m - 1] /\ a[end[k - 1] + j] = part[k][j]
      BY <3>1, <1>5 DEF a
    <3>3. end[m - 1] = Len(a)
      BY <1>6
    <3>4. end[k - 1] + j \in 1..Len(a) /\ (a \o c)[end[k - 1] + j] = a[end[k - 1] + j]
      BY <3>2, <3>3, <1>7
    <3>5. end[k - 1] + j \in 1..end[m]
      BY <3>2, <1>6, <1>7
    <3> QED BY <3>2, <3>4, <3>5, <1>6
  <2> QED BY <2>1, <2>2
<1>9. P(m)
  BY <1>6, <1>7, <1>8
<1> QED BY <1>9, <1>3

----------------------------------------------------------------------------
(* Fields. *)

(* The fields there are: of bytes that are kept as they come, any size.    *)
Kinds == {"raw", "siq", "diq", "vti", "sep", "sco", "dco", "los", "nva", "u16", "u24", "bsi", "bcr"}
Fields ==
  {f \in [kind : Kinds, size : Nat] :
     \/ f.kind = "raw"
     \/ f.kind \in {"siq", "diq", "vti", "sep", "sco", "dco", "los"} /\ f.size = 1
     \/ f.kind \in {"nva", "u16"} /\ f.size = 2
     \/ f.kind = "u24" /\ f.size = 3
     \/ f.kind = "bsi" /\ f.size = 4
     \/ f.kind = "bcr" /\ f.size = 5}

(* What encode appends, kind by kind.                                      *)
LEMMA EncodedByKind ==
  ASSUME NEW f, NEW v
  PROVE  /\ f.kind = "raw" => Encoded(f, v) = v
         /\ f.kind \in {"siq", "diq"} => Encoded(f, v) = <<PointByte(v)>>
         /\ f.kind = "vti" => Encoded(f, v) = <<StepByte(v)>>
         /\ f.kind = "bsi" => Encoded(f, v) = BitstringBytes(v)
         /\ f.kind = "nva" => Encoded(f, v) = ScaledBytes(v)
         /\ f.kind = "bcr" => Encoded(f, v) = CounterBytes(v)
         /\ f.kind = "sep" => Encoded(f, v) = <<EventByte(v)>>
         /\ f.kind \in {"sco", "dco"} => Encoded(f, v) = <<CommandByte(v)>>
         /\ f.kind \in {"u16", "u24", "los"} => Encoded(f, v) = NumberBytes(v, f.size)
<1>1. ASSUME f.kind = "raw" PROVE Encoded(f, v) = v
  BY <1>1, Zenon DEF Encoded
<1>2. ASSUME f.kind \in {"siq", "diq"} PROVE Encoded(f, v) = <<PointByte(v)>>
  BY <1>2, Zenon DEF Encoded
<1>3. ASSUME f.kind = "vti" PROVE Encoded(f, v) = <<StepByte(v)>>
  BY <1>3, Zenon DEF Encoded
<1>4. ASSUME f.kind = "bsi" PROVE Encoded(f, v) = BitstringBytes(v)
  BY <1>4, Zenon DEF Encoded
<1>5. ASSUME f.kind = "nva" PROVE Encoded(f, v) = ScaledBytes(v)
  BY <1>5, Zenon DEF Encoded
<1>6. ASSUME f.kind = "bcr" PROVE Encoded(f, v) = CounterBytes(v)
  BY <1>6, Zenon DEF Encoded
<1>7. ASSUME f.kind = "sep" PROVE Encoded(f, v) = <<EventByte(v)>>
  BY <1>7, Zenon DEF Encoded
<1>8. ASSUME f.kind \in {"sco", "dco"} PROVE Encoded(f, v) = <<CommandByte(v)>>
  BY <1>8, Zenon DEF Encoded
<1>9. ASSUME f.kind \in {"u16", "u24", "los"} PROVE Encoded(f, v) = NumberBytes(v, f.size)
  BY <1>9, Zenon DEF Encoded
<1> QED BY <1>1, <1>2, <1>3, <1>4, <1>5, <1>6, <1>7, <1>8, <1>9, Zenon

(* What the getters give, kind by kind.                                    *)
LEMMA DecodedByKind ==
  ASSUME NEW f, NEW b
  PROVE  /\ f.kind \in {"raw", "bsi"} => Decoded(f, b) = b
         /\ f.kind = "siq" => Decoded(f, b) = PointOf(b[1], 2)
         /\ f.kind = "diq" => Decoded(f, b) = PointOf(b[1], 4)
         /\ f.kind = "vti" => Decoded(f, b) = StepOf(b[1])
         /\ f.kind = "nva" => Decoded(f, b) = ScaledOf(b)
         /\ f.kind = "bcr" => Decoded(f, b) = CounterOf(b)
         /\ f.kind = "sep" => Decoded(f, b) = EventOf(b[1])
         /\ f.kind = "sco" => Decoded(f, b) = CommandOf(b[1], 2)
         /\ f.kind = "dco" => Decoded(f, b) = CommandOf(b[1], 4)
         /\ f.kind \in {"u16", "u24", "los"} => Decoded(f, b) = NumberOf(b)
<1>1. ASSUME f.kind \in {"raw", "bsi"} PROVE Decoded(f, b) = b
  BY <1>1, Zenon DEF Decoded
<1>2. ASSUME f.kind = "siq" PROVE Decoded(f, b) = PointOf(b[1], 2)
  BY <1>2, Zenon DEF Decoded
<1>3. ASSUME f.kind = "diq" PROVE Decoded(f, b) = PointOf(b[1], 4)
  BY <1>3, Zenon DEF Decoded
<1>4. ASSUME f.kind = "vti" PROVE Decoded(f, b) = StepOf(b[1])
  BY <1>4, Zenon DEF Decoded
<1>5. ASSUME f.kind = "nva" PROVE Decoded(f, b) = ScaledOf(b)
  BY <1>5, Zenon DEF Decoded
<1>6. ASSUME f.kind = "bcr" PROVE Decoded(f, b) = CounterOf(b)
  BY <1>6, Zenon DEF Decoded
<1>7. ASSUME f.kind = "sep" PROVE Decoded(f, b) = EventOf(b[1])
  BY <1>7, Zenon DEF Decoded
<1>8. ASSUME f.kind = "sco" PROVE Decoded(f, b) = CommandOf(b[1], 2)
  BY <1>8, Zenon DEF Decoded
<1>9. ASSUME f.kind = "dco" PROVE Decoded(f, b) = CommandOf(b[1], 4)
  BY <1>9, Zenon DEF Decoded
<1>10. ASSUME f.kind \in {"u16", "u24", "los"} PROVE Decoded(f, b) = NumberOf(b)
  BY <1>10, Zenon DEF Decoded
<1> QED BY <1>1, <1>2, <1>3, <1>4, <1>5, <1>6, <1>7, <1>8, <1>9, <1>10, Zenon

(* The weights of the bytes.                                               *)
LEMMA Weights ==
  /\ Weight(0) = 1 /\ Weight(1) = 256 /\ Weight(2) = 65536 /\ Weight(3) = 16777216
  /\ \A e \in 0..3 : Weight(e) \in Nat \ {0}
<1>1. Weight(0) = 1 /\ Weight(1) = 256 /\ Weight(2) = 65536 /\ Weight(3) = 16777216
  BY DEF Weight
<1>2. ASSUME NEW e \in 0..3 PROVE Weight(e) \in Nat \ {0}
  <2>1. e = 0 \/ e = 1 \/ e = 2 \/ e = 3
    OBVIOUS
  <2> QED BY <1>1, <2>1
<1> QED BY <1>1, <1>2

(* The number that up to three bytes stand for, the lowest first.          *)
LEMMA NumberOfBytes ==
  ASSUME NEW b, Len(b) \in 1..3, \A k \in 1..Len(b) : b[k] \in Int
  PROVE  /\ Len(b) = 1 => NumberOf(b) = b[1]
         /\ Len(b) = 2 => NumberOf(b) = b[1] + 256 * b[2]
         /\ Len(b) = 3 => NumberOf(b) = b[1] + 256 * b[2] + 65536 * b[3]
<1> DEFINE n == Len(b)
           term == [k \in 1..n |-> b[k] * Weight(k - 1)]
           Sums(s) == s = [k \in 0..n |-> IF k = 0 THEN 0 ELSE s[k - 1] + b[k] * Weight(k - 1)]
           sum == CHOOSE s : Sums(s)
<1>1. \A s : SumsOf(s, n, term) => Sums(s)
  <2> SUFFICES ASSUME NEW s, SumsOf(s, n, term) PROVE Sums(s)
    OBVIOUS
  <2>1. [k \in 0..n |-> IF k = 0 THEN 0 ELSE s[k - 1] + term[k]] =
        [k \in 0..n |-> IF k = 0 THEN 0 ELSE s[k - 1] + b[k] * Weight(k - 1)]
    OBVIOUS
  <2> QED BY <2>1 DEF SumsOf
<1>2. \E s : Sums(s)
  <2>1. PICK s : SumsOf(s, n, term)
    <3> HIDE DEF term
    <3> QED BY SumsExist
  <2> QED BY <2>1, <1>1
<1>3. NumberOf(b) = sum[n]
  BY DEF NumberOf
<1>4. Sums(sum)
  <2> HIDE DEF Sums
  <2> QED BY <1>2, Zenon
<1>5. sum[0] = 0 /\ \A k \in 1..n : sum[k] = sum[k - 1] + b[k] * Weight(k - 1)
  <2> HIDE DEF sum
  <2>1. \A k \in 0..n : sum[k] = IF k = 0 THEN 0 ELSE sum[k - 1] + b[k] * Weight(k - 1)
    BY <1>4, Zenon
  <2>2. 0 \in 0..n /\ \A k \in 1..n : k \in 0..n /\ k # 0
    OBVIOUS
  <2> QED BY <2>1, <2>2, Zenon
<1> HIDE DEF sum
<1>6. sum[1] = sum[0] + b[1] * Weight(0)
  <2>1. 1 \in 1..n /\ 1 - 1 = 0
    OBVIOUS
  <2> QED BY <1>5, <2>1, Zenon
<1>7. ASSUME n >= 2 PROVE sum[2] = sum[1] + b[2] * Weight(1)
  <2>1. 2 \in 1..n /\ 2 - 1 = 1
    BY <1>7
  <2> QED BY <1>5, <2>1, Zenon
<1>8. ASSUME n >= 3 PROVE sum[3] = sum[2] + b[3] * Weight(2)
  <2>1. 3 \in 1..n /\ 3 - 1 = 2
    BY <1>8
  <2> QED BY <1>5, <2>1, Zenon
<1>9. Weight(0) = 1 /\ Weight(1) = 256 /\ Weight(2) = 65536
  BY Weights
<1>10. sum[1] = b[1]
  BY <1>5, <1>6, <1>9
<1>11. n >= 2 => sum[2] = b[1] + 256 * b[2]
  BY <1>7, <1>9, <1>10
<1>12. n >= 3 => sum[3] = b[1] + 256 * b[2] + 65536 * b[3]
  BY <1>8, <1>9, <1>11
<1> HIDE DEF term
<1>13. n = 1 => sum[n] = b[1]
  BY <1>10, Zenon
<1>14. n = 2 => sum[n] = b[1] + 256 * b[2]
  BY <1>11
<1>15. n = 3 => sum[n] = b[1] + 256 * b[2] + 65536 * b[3]
  BY <1>12
<1> HIDE DEF n
<1>16. NumberOf(b) = sum[n] /\ n = Len(b)
  BY <1>3 DEF n
<1> QED BY <1>13, <1>14, <1>15, <1>16

(* A number survives as bytes when they are enough.                        *)
LEMMA NumberIsKept ==
  ASSUME NEW n \in 1..3, NEW v \in Nat, v < Weight(n)
  PROVE  /\ NumberBytes(v, n) \in Seq(Byte) /\ Len(NumberBytes(v, n)) = n
         /\ NumberOf(NumberBytes(v, n)) = v
<1> DEFINE b == NumberBytes(v, n)
<1>1. ASSUME NEW k \in 1..n PROVE Weight(k - 1) \in Nat \ {0}
  <2>1. k - 1 \in 0..3
    OBVIOUS
  <2> QED BY <2>1, Weights
<1>2. \A k \in 1..n : (v \div Weight(k - 1)) % 256 \in Byte
  BY <1>1 DEF Byte
<1>3. b \in Seq(Byte) /\ Len(b) = n /\ \A k \in 1..n : b[k] = (v \div Weight(k - 1)) % 256
  BY <1>2 DEF NumberBytes
<1> HIDE DEF b
<1>4. \A k \in 1..n : b[k] \in Int
  BY <1>2, <1>3 DEF Byte
<1>5. CASE n = 1
  <2>1. b[1] = v
    BY Weights, <1>3, <1>5
  <2> QED BY <2>1, <1>3, <1>4, <1>5, NumberOfBytes DEF b
<1>6. CASE n = 2
  <2>1. b[1] = v % 256 /\ b[2] = (v \div 256) % 256 /\ v < 65536
    BY Weights, <1>3, <1>6
  <2>2. b[1] + 256 * b[2] = v
    BY <2>1
  <2> QED BY <2>2, <1>3, <1>4, <1>6, NumberOfBytes DEF b
<1>7. CASE n = 3
  <2>1. b[1] = v % 256 /\ b[2] = (v \div 256) % 256 /\ b[3] = (v \div 65536) % 256
        /\ v < 16777216
    BY Weights, <1>3, <1>7
  <2>2. b[1] + 256 * b[2] + 65536 * b[3] = v
    BY <2>1
  <2>3. NumberOf(b) = b[1] + 256 * b[2] + 65536 * b[3]
    BY <1>3, <1>4, <1>7, NumberOfBytes, SMTT(30)
  <2> QED BY <2>2, <2>3, <1>3, <1>7 DEF b
<1> QED BY <1>5, <1>6, <1>7

(* So many bytes are a sequence.                                           *)
LEMMA SeqOfBytes ==
  ASSUME NEW n \in Nat, NEW v \in [1..n -> Byte]
  PROVE  v \in Seq(Byte) /\ Len(v) = n
OBVIOUS

(* A scaled value survives setScaledValue and getScaledValue.              *)
LEMMA ScaledIsKept ==
  ASSUME NEW v \in Int, -32768 <= v, v <= 32767
  PROVE  ScaledBytes(v) \in Seq(Byte) /\ Len(ScaledBytes(v)) = 2 /\ ScaledOf(ScaledBytes(v)) = v
<1>1. PICK u \in Nat : u = IF v < 0 THEN v + 65536 ELSE v
  <2>1. CASE v < 0
    BY <2>1
  <2>2. CASE ~ (v < 0)
    BY <2>2
  <2> QED BY <2>1, <2>2
<1>2. u < 65536 /\ (u > 32767 => u - 65536 = v) /\ (~ (u > 32767) => u = v)
  BY <1>1
<1>3. (u % 256) + 256 * ((u \div 256) % 256) = u
  BY <1>2
<1>4. u % 256 \in Byte /\ (u \div 256) % 256 \in Byte
  BY DEF Byte
<1>5. ScaledBytes(v) = <<u % 256, (u \div 256) % 256>>
  BY <1>1 DEF ScaledBytes
<1>6. ScaledOf(<<u % 256, (u \div 256) % 256>>) = v
  BY <1>2, <1>3 DEF ScaledOf
<1> QED BY <1>4, <1>5, <1>6

(* A field comes back from the bytes it was written as, whatever value of  *)
(* its range it has (encode and getFromBuffer of its class, and the getters*)
(* against create).                                                        *)
THEOREM FieldIsKept ==
  ASSUME NEW f \in Fields, NEW v, Holds(f, v)
  PROVE  /\ Encoded(f, v) \in Seq(Byte) /\ Len(Encoded(f, v)) = f.size
         /\ Decoded(f, Encoded(f, v)) = v
<1>1. CASE f.kind = "raw"
  <2>1. v \in [1..f.size -> Byte]
    BY <1>1, Zenon DEF Holds
  <2>2. v \in Seq(Byte) /\ Len(v) = f.size
    <3>1. f.size \in Nat
      BY DEF Fields
    <3> QED BY <2>1, <3>1, SeqOfBytes
  <2> QED BY <1>1, <2>2, EncodedByKind, DecodedByKind
<1>2. CASE f.kind \in {"siq", "diq"}
  <2> DEFINE byte == PointByte(v)
  <2>1. f.size = 1 /\ Encoded(f, v) = <<byte>>
    BY <1>2, EncodedByKind DEF Fields
  <2>2. /\ v.state \in 0..3 /\ v.quality \in Quality
        /\ v = [state |-> v.state, quality |-> v.quality]
        /\ f.kind = "siq" => v.state \in 0..1
    <3>1. f.kind = "siq" => v \in [state : 0..1, quality : Quality]
      BY Zenon DEF Holds
    <3>2. f.kind = "diq" => v \in [state : 0..3, quality : Quality]
      BY Zenon DEF Holds
    <3> QED BY <1>2, <3>1, <3>2
  <2>3. byte = v.quality + v.state /\ byte \in Byte /\ 16 * (byte \div 16) = v.quality
        /\ byte % 4 = v.state
    BY <2>2 DEF PointByte, Quality, Byte
  <2>4. CASE f.kind = "siq"
    <3>1. byte % 2 = v.state
      <4>1. v.state = 0 \/ v.state = 1
        BY <2>2, <2>4
      <4> QED BY <2>2, <2>3, <4>1 DEF Quality, Byte
    <3>2. PointOf(byte, 2) = v
      BY <2>2, <2>3, <3>1 DEF PointOf
    <3> HIDE DEF byte
    <3> QED BY <2>1, <2>3, <2>4, <3>2, DecodedByKind
  <2>5. CASE f.kind = "diq"
    <3>1. PointOf(byte, 4) = v
      BY <2>2, <2>3 DEF PointOf
    <3> HIDE DEF byte
    <3> QED BY <2>1, <2>3, <2>5, <3>1, DecodedByKind
  <2> QED BY <1>2, <2>4, <2>5
<1>3. CASE f.kind = "vti"
  <2> DEFINE byte == StepByte(v)
  <2>1. f.size = 1 /\ Encoded(f, v) = <<byte>>
    BY <1>3, EncodedByKind DEF Fields
  <2>2. v.value \in -64..63 /\ v.transient \in BOOLEAN
        /\ v = [value |-> v.value, transient |-> v.transient]
    <3>1. v \in [value : -64..63, transient : BOOLEAN]
      BY <1>3, Zenon DEF Holds
    <3> QED BY <3>1
  <2>3. byte = (v.value % 128) + Bit(v.transient, 128)
    BY <2>2 DEF StepByte
  <2>4. /\ byte \in Byte /\ byte % 128 = v.value % 128
        /\ HasBit(byte, 128) = v.transient
    <3>1. CASE v.transient = TRUE
      BY <2>2, <2>3, <3>1 DEF Bit, HasBit, Byte
    <3>2. CASE v.transient = FALSE
      BY <2>2, <2>3, <3>2 DEF Bit, HasBit, Byte
    <3> QED BY <2>2, <3>1, <3>2
  <2>5. (IF byte % 128 > 63 THEN (byte % 128) - 128 ELSE byte % 128) = v.value
    BY <2>2, <2>4
  <2>6. StepOf(byte) = v
    <3> HIDE DEF byte
    <3> QED BY <2>2, <2>4, <2>5 DEF StepOf
  <2> HIDE DEF byte
  <2> QED BY <1>3, <2>1, <2>4, <2>6, DecodedByKind
<1>4. CASE f.kind = "bsi"
  <2>1. v \in [1..4 -> Byte] /\ f.size = 4
        /\ (v[4] >= 128 => v[1] = 0 /\ v[2] = 0 /\ v[3] = 0)
    <3>1. f.size = 4
      BY <1>4 DEF Fields
    <3> QED BY <1>4, <3>1, Zenon DEF Holds
  <2>2. ASSUME NEW k \in 1..4
        PROVE  (v[k] + Bit(v[4] >= 128 /\ \E j \in 1..(k - 1) : v[j] # 0, 1)) % 256 = v[k]
    <3>1. ~ (v[4] >= 128 /\ \E j \in 1..(k - 1) : v[j] # 0)
      <4> SUFFICES ASSUME v[4] >= 128, NEW j \in 1..(k - 1), v[j] # 0 PROVE FALSE
        OBVIOUS
      <4>1. j = 1 \/ j = 2 \/ j = 3
        OBVIOUS
      <4> QED BY <4>1, <2>1
    <3>2. Bit(v[4] >= 128 /\ \E j \in 1..(k - 1) : v[j] # 0, 1) = 0
      BY <3>1, Zenon DEF Bit
    <3>3. (v[k] + 0) % 256 = v[k]
      BY <2>1 DEF Byte
    <3> QED BY <3>2, <3>3
  <2>3. BitstringBytes(v) = v
    BY <2>1, <2>2 DEF BitstringBytes
  <2>4. v \in Seq(Byte) /\ Len(v) = 4
    BY <2>1, SeqOfBytes
  <2> QED BY <1>4, <2>1, <2>3, <2>4, EncodedByKind, DecodedByKind
<1>5. CASE f.kind = "nva"
  <2>1. f.size = 2
    BY <1>5 DEF Fields
  <2>2. v \in ScaledValue
    BY <1>5, Zenon DEF Holds
  <2>3. Encoded(f, v) = ScaledBytes(v) /\ \A b : Decoded(f, b) = ScaledOf(b)
    BY <1>5, EncodedByKind, DecodedByKind, Zenon
  <2>4. v \in Int /\ -32768 <= v /\ v <= 32767
    BY <2>2 DEF ScaledValue
  <2> QED BY <2>1, <2>3, <2>4, ScaledIsKept
<1>6. CASE f.kind = "bcr"
  <2> DEFINE flags == CounterFlags(v)
             b == CounterBytes(v)
  <2>1. /\ v.value \in [1..4 -> Byte] /\ v.number \in 0..31 /\ v.carry \in BOOLEAN
        /\ v.adjusted \in BOOLEAN /\ v.invalid \in BOOLEAN
        /\ v = [value |-> v.value, number |-> v.number, carry |-> v.carry,
                adjusted |-> v.adjusted, invalid |-> v.invalid]
        /\ f.size = 5 /\ Encoded(f, v) = b
    <3>1. f.size = 5
      BY <1>6 DEF Fields
    <3>2. v \in Counter
      BY <1>6, Zenon DEF Holds
    <3>3. Encoded(f, v) = b
      BY <1>6, EncodedByKind, Zenon
    <3> HIDE DEF b
    <3> QED BY <3>1, <3>2, <3>3 DEF Counter
  <2>2. v.value \in Seq(Byte) /\ Len(v.value) = 4
    BY <2>1, SeqOfBytes
  <2>3. flags = v.number + Bit(v.carry, 32) + Bit(v.adjusted, 64) + Bit(v.invalid, 128)
    BY <2>1 DEF CounterFlags
  <2>4. /\ flags \in Byte /\ flags % 32 = v.number /\ HasBit(flags, 32) = v.carry
        /\ HasBit(flags, 64) = v.adjusted /\ HasBit(flags, 128) = v.invalid
    <3> HIDE DEF flags
    <3>1. CASE v.carry = TRUE /\ v.adjusted = TRUE
      BY <2>1, <2>3, <3>1 DEF Bit, HasBit, Byte
    <3>2. CASE v.carry = TRUE /\ v.adjusted = FALSE
      BY <2>1, <2>3, <3>2 DEF Bit, HasBit, Byte
    <3>3. CASE v.carry = FALSE /\ v.adjusted = TRUE
      BY <2>1, <2>3, <3>3 DEF Bit, HasBit, Byte
    <3>4. CASE v.carry = FALSE /\ v.adjusted = FALSE
      BY <2>1, <2>3, <3>4 DEF Bit, HasBit, Byte
    <3> QED BY <2>1, <3>1, <3>2, <3>3, <3>4
  <2>5. b = Append(v.value, flags)
    BY DEF CounterBytes
  <2> HIDE DEF flags, b
  <2>6. b \in Seq(Byte) /\ Len(b) = 5 /\ b[5] = flags /\ \A i \in 1..4 : b[i] = v.value[i]
    <3>1. /\ b \in Seq(Byte) /\ Len(b) = Len(v.value) + 1 /\ b[Len(v.value) + 1] = flags
          /\ \A i \in 1..Len(v.value) : b[i] = v.value[i]
      <4>1. flags \in Byte
        BY <2>4
      <4> QED BY <2>2, <4>1, <2>5, AppendProperties
    <3> QED BY <3>1, <2>2
  <2>7. SubSeq(b, 1, 4) = v.value
    <3>1. \A i \in 1..4 : b[i] \in Byte
      <4>1. b \in Seq(Byte) /\ Len(b) = 5
        BY <2>6
      <4>2. \A i \in 1..Len(b) : b[i] \in Byte
        BY <4>1, ElementOfSeq, Zenon
      <4> QED BY <4>1, <4>2
    <3>2. /\ SubSeq(b, 1, 4) \in Seq(Byte) /\ Len(SubSeq(b, 1, 4)) = 4
          /\ \A i \in 1..4 : SubSeq(b, 1, 4)[i] = b[i]
      BY <3>1
    <3> QED BY <2>2, <2>6, <3>2, SeqEqual
  <2>8. CounterOf(b) = v
    BY <2>1, <2>4, <2>6, <2>7 DEF CounterOf
  <2> QED BY <1>6, <2>1, <2>6, <2>8, DecodedByKind
<1>7. CASE f.kind = "sep"
  <2> DEFINE byte == EventByte(v)
  <2>1. f.size = 1 /\ Encoded(f, v) = <<byte>>
    BY <1>7, EncodedByKind DEF Fields
  <2>2. v.state \in 0..3 /\ v.qdp \in EventQuality /\ v = [state |-> v.state, qdp |-> v.qdp]
    <3>1. v \in [state : 0..3, qdp : EventQuality]
      BY <1>7, Zenon DEF Holds
    <3> QED BY <3>1
  <2>3. byte \in Byte /\ 4 * (byte \div 4) = v.qdp /\ byte % 4 = v.state
    BY <2>2 DEF EventByte, EventQuality, Byte
  <2> HIDE DEF byte
  <2>4. EventOf(byte) = v
    BY <2>2, <2>3 DEF EventOf
  <2> QED BY <1>7, <2>1, <2>3, <2>4, DecodedByKind
<1>8. CASE f.kind \in {"sco", "dco"}
  <2> DEFINE byte == CommandByte(v)
  <2>1. f.size = 1 /\ Encoded(f, v) = <<byte>>
    BY <1>8, EncodedByKind DEF Fields
  <2>2. /\ v.state \in 0..3 /\ v.qu \in 0..31 /\ v.select \in BOOLEAN
        /\ v = [state |-> v.state, qu |-> v.qu, select |-> v.select]
        /\ f.kind = "sco" => v.state \in 0..1
    <3>1. f.kind = "sco" => v \in [state : 0..1, qu : 0..31, select : BOOLEAN]
      BY Zenon DEF Holds
    <3>2. f.kind = "dco" => v \in [state : 0..3, qu : 0..31, select : BOOLEAN]
      BY Zenon DEF Holds
    <3> QED BY <1>8, <3>1, <3>2
  <2>3. byte = v.state + 4 * v.qu + Bit(v.select, 128)
    BY <2>2 DEF CommandByte
  <2> HIDE DEF byte
  <2>4. /\ byte \in Byte /\ byte % 4 = v.state /\ (byte % 128) \div 4 = v.qu
        /\ HasBit(byte, 128) = v.select /\ byte % 2 = v.state % 2
    <3>1. CASE v.select = TRUE
      BY <2>2, <2>3, <3>1 DEF Bit, HasBit, Byte
    <3>2. CASE v.select = FALSE
      BY <2>2, <2>3, <3>2 DEF Bit, HasBit, Byte
    <3> QED BY <2>2, <3>1, <3>2
  <2>5. CASE f.kind = "sco"
    <3>1. CommandOf(byte, 2) = v
      BY <2>2, <2>4, <2>5 DEF CommandOf
    <3> QED BY <2>1, <2>4, <2>5, <3>1, DecodedByKind
  <2>6. CASE f.kind = "dco"
    <3>1. CommandOf(byte, 4) = v
      BY <2>2, <2>4 DEF CommandOf
    <3> QED BY <2>1, <2>4, <2>6, <3>1, DecodedByKind
  <2> QED BY <1>8, <2>5, <2>6
<1>9. CASE f.kind \in {"u16", "u24", "los"}
  <2>1. v \in Nat /\ v < Weight(f.size)
    <3>1. CASE f.kind \in {"u16", "u24"}
      BY <3>1, Zenon DEF Holds
    <3>2. CASE f.kind = "los"
      <4>1. v = 3
        BY <3>2 DEF Holds, SegmentLength
      <4>2. f.size = 1
        BY <3>2 DEF Fields
      <4> QED BY <4>1, <4>2, Weights
    <3> QED BY <1>9, <3>1, <3>2
  <2>2. f.size \in 1..3
    BY <1>9 DEF Fields
  <2>3. Encoded(f, v) = NumberBytes(v, f.size) /\ \A b : Decoded(f, b) = NumberOf(b)
    BY <1>9, EncodedByKind, DecodedByKind, Zenon
  <2> QED BY <2>1, <2>2, <2>3, NumberIsKept
<1> QED BY <1>1, <1>2, <1>3, <1>4, <1>5, <1>6, <1>7, <1>8, <1>9 DEF Fields

----------------------------------------------------------------------------
(* Layouts. *)

Sized(f, n) == f \in Fields /\ f.size = n
Wide(fields, n) == fields \in Seq(Fields) /\ n \in Nat /\ Width(fields) = n

(* A field of a size its kind can have is one of that size.              *)
LEMMA FieldOfSize ==
  ASSUME NEW kind \in Kinds, NEW size \in Nat,
         \/ kind = "raw"
         \/ kind \in {"siq", "diq", "vti", "sep", "sco", "dco", "los"} /\ size = 1
         \/ kind \in {"nva", "u16"} /\ size = 2
         \/ kind = "u24" /\ size = 3
         \/ kind = "bsi" /\ size = 4
         \/ kind = "bcr" /\ size = 5
  PROVE  Sized(Field(kind, size), size)
<1> DEFINE f == Field(kind, size)
<1>1. f \in [kind : Kinds, size : Nat] /\ f.kind = kind /\ f.size = size
  BY DEF Field
<1> HIDE DEF f
<1>2. Sized(f, size)
  BY <1>1 DEF Sized, Fields
<1> QED BY <1>2 DEF f

(* The fields the layouts are made of, and their sizes.                  *)
LEMMA FieldSizes ==
  /\ Sized(OCTET, 1) /\ Sized(QDS, 1) /\ Sized(QOS, 1) /\ Sized(R32, 4) /\ Sized(SCD, 4)
  /\ Sized(CP16, 2) /\ Sized(CP24, 3) /\ Sized(CP56, 7) /\ Sized(SIQ, 1) /\ Sized(DIQ, 1)
  /\ Sized(VTI, 1) /\ Sized(BSI, 4) /\ Sized(NVA, 2) /\ Sized(BCR, 5) /\ Sized(SEP, 1)
  /\ Sized(SCO, 1) /\ Sized(DCO, 1) /\ Sized(NOF, 2) /\ Sized(LOF, 3) /\ Sized(LOS, 1)
  /\ Sized(Field("raw", SegmentLength), 3)
<1>1. Sized(OCTET, 1)
  BY FieldOfSize DEF Kinds, OCTET
<1>2. Sized(QDS, 1)
  BY FieldOfSize DEF Kinds, QDS
<1>3. Sized(QOS, 1)
  BY FieldOfSize DEF Kinds, QOS
<1>4. Sized(R32, 4)
  BY FieldOfSize DEF Kinds, R32
<1>5. Sized(SCD, 4)
  BY FieldOfSize DEF Kinds, SCD
<1>6. Sized(CP16, 2)
  BY FieldOfSize DEF Kinds, CP16
<1>7. Sized(CP24, 3)
  BY FieldOfSize DEF Kinds, CP24
<1>8. Sized(CP56, 7)
  BY FieldOfSize DEF Kinds, CP56
<1>9. Sized(SIQ, 1)
  BY FieldOfSize DEF Kinds, SIQ
<1>10. Sized(DIQ, 1)
  BY FieldOfSize DEF Kinds, DIQ
<1>11. Sized(VTI, 1)
  BY FieldOfSize DEF Kinds, VTI
<1>12. Sized(BSI, 4)
  BY FieldOfSize DEF Kinds, BSI
<1>13. Sized(NVA, 2)
  BY FieldOfSize DEF Kinds, NVA
<1>14. Sized(BCR, 5)
  BY FieldOfSize DEF Kinds, BCR
<1>15. Sized(SEP, 1)
  BY FieldOfSize DEF Kinds, SEP
<1>16. Sized(SCO, 1)
  BY FieldOfSize DEF Kinds, SCO
<1>17. Sized(DCO, 1)
  BY FieldOfSize DEF Kinds, DCO
<1>18. Sized(NOF, 2)
  BY FieldOfSize DEF Kinds, NOF
<1>19. Sized(LOF, 3)
  BY FieldOfSize DEF Kinds, LOF
<1>20. Sized(LOS, 1)
  BY FieldOfSize DEF Kinds, LOS
<1>21. Sized(Field("raw", SegmentLength), 3)
  BY FieldOfSize DEF Kinds, SegmentLength
<1> QED BY <1>1, <1>2, <1>3, <1>4, <1>5, <1>6, <1>7, <1>8, <1>9, <1>10, <1>11,
           <1>12, <1>13, <1>14, <1>15, <1>16, <1>17, <1>18, <1>19, <1>20, <1>21, Zenon

(* The bytes a list of fields takes are the sum of their sizes.            *)
LEMMA Width0 == Wide(<<>>, 0)
BY EndsAreSums DEF Wide

(* One field.                                                            *)
LEMMA Width1 ==
  ASSUME NEW i \in Nat, NEW a, Sized(a, i)
  PROVE  Wide(<<a>>, i)
<1>1. <<a>> \in Seq(Fields) /\ Len(<<a>>) = 1 /\ <<a>>[1] = a /\ a.size = i
  BY DEF Sized
<1> QED BY <1>1, EndsAreSums DEF Wide

(* Two fields.                                                           *)
LEMMA Width2 ==
  ASSUME NEW i \in Nat, NEW a, Sized(a, i), NEW j \in Nat, NEW b, Sized(b, j)
  PROVE  Wide(<<a, b>>, i + j)
<1> DEFINE s == <<a, b>>
<1>1. s \in Seq(Fields) /\ Len(s) = 2 /\ s[1] = a /\ s[2] = b /\ a.size = i /\ b.size = j
  BY DEF Sized
<1> HIDE DEF s
<1>2. \A k \in 1..Len(s) : s[k].size \in Nat
  BY <1>1
<1>3. /\ Ends(s)[0] = 0 /\ Width(s) = Ends(s)[2]
      /\ \A m \in 1..2 : Ends(s)[m] = Ends(s)[m - 1] + s[m].size
  <2>1. /\ Ends(s)[0] = 0 /\ Width(s) = Ends(s)[Len(s)]
        /\ \A m \in 1..Len(s) : Ends(s)[m] = Ends(s)[m - 1] + s[m].size
    <3>1. Len(s) \in Nat
      BY <1>1
    <3> QED BY <3>1, <1>2, EndsAreSums
  <2> QED BY <2>1, <1>1
<1>4. Wide(s, i + j)
  BY <1>1, <1>3 DEF Wide
<1> QED BY <1>4 DEF s

(* Three fields.                                                         *)
LEMMA Width3 ==
  ASSUME NEW i \in Nat, NEW a, Sized(a, i), NEW j \in Nat, NEW b, Sized(b, j),
         NEW k \in Nat, NEW c, Sized(c, k)
  PROVE  Wide(<<a, b, c>>, i + j + k)
<1> DEFINE s == <<a, b, c>>
<1>1. s \in Seq(Fields) /\ Len(s) = 3 /\ s[1] = a /\ s[2] = b /\ s[3] = c
      /\ a.size = i /\ b.size = j /\ c.size = k
  BY DEF Sized
<1> HIDE DEF s
<1>2. \A m \in 1..Len(s) : s[m].size \in Nat
  BY <1>1
<1>3. /\ Ends(s)[0] = 0 /\ Width(s) = Ends(s)[3]
      /\ \A m \in 1..3 : Ends(s)[m] = Ends(s)[m - 1] + s[m].size
  <2>1. /\ Ends(s)[0] = 0 /\ Width(s) = Ends(s)[Len(s)]
        /\ \A m \in 1..Len(s) : Ends(s)[m] = Ends(s)[m - 1] + s[m].size
    <3>1. Len(s) \in Nat
      BY <1>1
    <3> QED BY <3>1, <1>2, EndsAreSums
  <2> QED BY <2>1, <1>1
<1>4. Wide(s, i + j + k)
  BY <1>1, <1>3 DEF Wide
<1> QED BY <1>4 DEF s

(* Four fields.                                                          *)
LEMMA Width4 ==
  ASSUME NEW i \in Nat, NEW a, Sized(a, i), NEW j \in Nat, NEW b, Sized(b, j),
         NEW k \in Nat, NEW c, Sized(c, k), NEW l \in Nat, NEW d, Sized(d, l)
  PROVE  Wide(<<a, b, c, d>>, i + j + k + l)
<1> DEFINE s == <<a, b, c, d>>
<1>1. s \in Seq(Fields) /\ Len(s) = 4 /\ s[1] = a /\ s[2] = b /\ s[3] = c /\ s[4] = d
      /\ a.size = i /\ b.size = j /\ c.size = k /\ d.size = l
  BY DEF Sized
<1> HIDE DEF s
<1>2. \A m \in 1..Len(s) : s[m].size \in Nat
  BY <1>1
<1>3. /\ Ends(s)[0] = 0 /\ Width(s) = Ends(s)[4]
      /\ \A m \in 1..4 : Ends(s)[m] = Ends(s)[m - 1] + s[m].size
  <2>1. /\ Ends(s)[0] = 0 /\ Width(s) = Ends(s)[Len(s)]
        /\ \A m \in 1..Len(s) : Ends(s)[m] = Ends(s)[m - 1] + s[m].size
    <3>1. Len(s) \in Nat
      BY <1>1
    <3> QED BY <3>1, <1>2, EndsAreSums
  <2> QED BY <2>1, <1>1
<1>4. Wide(s, i + j + k + l)
  BY <1>1, <1>3 DEF Wide
<1> QED BY <1>4 DEF s

(* A layout that getFromBuffer reads as encode has written it, and for     *)
(* which it asks for no more bytes than there are.                         *)
Layouts == [fields : Seq(Fields), room : Int, answer : {TRUE}, at : Seq(Nat), needs : Int,
            unset : {{}}]
SoundLayout(layout, width) ==
  /\ layout \in Layouts /\ Wide(layout.fields, width)
  /\ layout.at = [k \in 1..Len(layout.fields) |-> Ends(layout.fields)[k - 1]]
  /\ layout.needs <= width

(* An entry of the table whose size is that of the fields, and whose class *)
(* asks for the room they take, or comes alone and is short.               *)
SoundElement(element) ==
  \E width \in Nat :
    /\ SoundLayout(element.class, width)
    /\ \/ /\ element.place \in {"indexed", "addressed"} /\ element.size = width
          /\ element.class.room >= width
       \/ /\ element.place = "alone"
          /\ element.class.room >= width \/ width <= 7

(* A layout that asks for the room of its fields and compares no length. *)
LEMMA MonitoredIsSound ==
  ASSUME NEW n \in Nat, NEW fields, Wide(fields, n)
  PROVE  SoundLayout(Monitored(fields), n) /\ Monitored(fields).room = n
<1> DEFINE layout == Monitored(fields)
           at == [k \in 1..Len(fields) |-> Ends(fields)[k - 1]]
<1>1. Len(fields) \in Nat /\ \A k \in 1..Len(fields) : fields[k].size \in Nat
  BY DEF Wide, Fields
<1>2. \A k \in 1..Len(fields) : Ends(fields)[k - 1] \in Nat
  BY <1>1, EndsAreSums
<1>3. at \in Seq(Nat)
  BY <1>1, <1>2
<1> HIDE DEF at
<1>4. layout = [fields |-> fields, room |-> n, answer |-> TRUE, at |-> at, needs |-> -1,
                unset |-> {}]
  BY DEF Monitored, Wide, Unchecked, at
<1> HIDE DEF layout
<1>5. /\ layout \in Layouts /\ layout.fields = fields /\ layout.at = at /\ layout.needs = -1
      /\ layout.room = n
  BY <1>3, <1>4 DEF Layouts, Wide
<1>6. SoundLayout(layout, n)
  BY <1>5 DEF SoundLayout, at
<1> QED BY <1>5, <1>6 DEF layout

(* It may ask the receiver for as many bytes as there are, or fewer.     *)
LEMMA MeasuredIsSound ==
  ASSUME NEW n \in Nat, NEW layout, SoundLayout(layout, n), NEW needs \in Int, needs <= n
  PROVE  SoundLayout(Measured(layout, needs), n) /\ Measured(layout, needs).room = layout.room
<1> DEFINE l == Measured(layout, needs)
<1>1. layout \in Layouts
  BY DEF SoundLayout
<1>2. l \in Layouts /\ l.fields = layout.fields /\ l.at = layout.at /\ l.needs = needs
      /\ l.room = layout.room
  BY <1>1 DEF Measured, Layouts
<1> HIDE DEF l
<1>3. SoundLayout(l, n)
  BY <1>2 DEF SoundLayout
<1> QED BY <1>2, <1>3 DEF l

(* What it asks for when it is written makes no difference when it is read. *)
LEMMA RoomIsFree ==
  ASSUME NEW n \in Nat, NEW layout, SoundLayout(layout, n), NEW room \in Int
  PROVE  /\ SoundLayout([layout EXCEPT !.room = room], n)
         /\ [layout EXCEPT !.room = room].room = room
<1> DEFINE l == [layout EXCEPT !.room = room]
<1>1. layout \in Layouts
  BY DEF SoundLayout
<1>2. l \in Layouts /\ l.fields = layout.fields /\ l.at = layout.at /\ l.needs = layout.needs
      /\ l.room = room
  BY <1>1 DEF Layouts
<1> HIDE DEF l
<1>3. SoundLayout(l, n)
  BY <1>2 DEF SoundLayout
<1> QED BY <1>2, <1>3 DEF l

(* Entries of the table for such a layout, by the place of the element.  *)
LEMMA SoundEntries ==
  ASSUME NEW n \in Nat, NEW layout, SoundLayout(layout, n)
  PROVE  /\ layout.room >= n => /\ SoundElement(Indexed(layout, n))
                                /\ SoundElement(Addressed(layout, n))
         /\ layout.room >= n \/ n <= 7 => SoundElement(Alone(layout))
<1>1. ASSUME layout.room >= n PROVE SoundElement(Indexed(layout, n))
  BY <1>1 DEF Indexed, SoundElement
<1>2. ASSUME layout.room >= n PROVE SoundElement(Addressed(layout, n))
  BY <1>2 DEF Addressed, SoundElement
<1>3. ASSUME layout.room >= n \/ n <= 7 PROVE SoundElement(Alone(layout))
  BY <1>3 DEF Alone, SoundElement
<1> QED BY <1>1, <1>2, <1>3

(* The entries as they are written in the table.                           *)
LEMMA IndexedMonitored ==
  ASSUME NEW n \in Nat, NEW fields, Wide(fields, n)
  PROVE  /\ SoundElement(Indexed(Monitored(fields), n))
         /\ SoundElement(Addressed(Monitored(fields), n))
<1>1. SoundLayout(Monitored(fields), n) /\ Monitored(fields).room >= n
  BY MonitoredIsSound
<1> QED BY <1>1, SoundEntries

(* Those whose class compares a length.                                  *)
LEMMA IndexedMeasured ==
  ASSUME NEW n \in Nat, NEW fields, Wide(fields, n), NEW needs \in Int, needs <= n
  PROVE  /\ SoundElement(Indexed(Measured(Monitored(fields), needs), n))
         /\ SoundElement(Addressed(Measured(Monitored(fields), needs), n))
         /\ SoundElement(Alone(Measured(Monitored(fields), needs)))
<1> DEFINE m == Monitored(fields)
           l == Measured(m, needs)
<1>1. SoundLayout(m, n) /\ m.room = n
  BY MonitoredIsSound
<1>2. SoundLayout(l, n) /\ l.room >= n
  <2> HIDE DEF m
  <2> QED BY <1>1, MeasuredIsSound
<1> HIDE DEF l
<1>3. SoundElement(Indexed(l, n)) /\ SoundElement(Addressed(l, n)) /\ SoundElement(Alone(l))
  BY <1>2, SoundEntries
<1> QED BY <1>3 DEF l

(* Those whose class asks for another room than its fields take.         *)
LEMMA MeasuredWithRoom ==
  ASSUME NEW n \in Nat, NEW fields, Wide(fields, n), NEW needs \in Int, needs <= n,
         NEW room \in Int
  PROVE  /\ room >= n =>
              SoundElement(Addressed(Measured([Monitored(fields) EXCEPT !.room = room], needs), n))
         /\ n <= 7 =>
              SoundElement(Alone(Measured([Monitored(fields) EXCEPT !.room = room], needs)))
<1> DEFINE m == [Monitored(fields) EXCEPT !.room = room]
           l == Measured(m, needs)
<1>1. SoundLayout(m, n) /\ m.room = room
  BY MonitoredIsSound, RoomIsFree
<1>2. SoundLayout(l, n) /\ l.room = room
  <2> HIDE DEF m
  <2> QED BY <1>1, MeasuredIsSound
<1> HIDE DEF l
<1>3. /\ room >= n => SoundElement(Addressed(l, n))
      /\ n <= 7 => SoundElement(Alone(l))
  BY <1>2, SoundEntries
<1> QED BY <1>3 DEF l

(* The lists of fields the sound classes have.                             *)
LEMMA Lists0 ==
  /\ Wide(<<>>, 0)
BY Width0

(* One field.                                                            *)
LEMMA Lists1 ==
  /\ Wide(<<SIQ>>, 1)
  /\ Wide(<<DIQ>>, 1)
  /\ Wide(<<BCR>>, 5)
  /\ Wide(<<NVA>>, 2)
  /\ Wide(<<SCO>>, 1)
  /\ Wide(<<DCO>>, 1)
  /\ Wide(<<R32>>, 4)
  /\ Wide(<<OCTET>>, 1)
  /\ Wide(<<CP56>>, 7)
  /\ Wide(<<CP16>>, 2)
<1>1. Wide(<<SIQ>>, 1)
  BY FieldSizes, Width1
<1>2. Wide(<<DIQ>>, 1)
  BY FieldSizes, Width1
<1>3. Wide(<<BCR>>, 5)
  BY FieldSizes, Width1
<1>4. Wide(<<NVA>>, 2)
  BY FieldSizes, Width1
<1>5. Wide(<<SCO>>, 1)
  BY FieldSizes, Width1
<1>6. Wide(<<DCO>>, 1)
  BY FieldSizes, Width1
<1>7. Wide(<<R32>>, 4)
  BY FieldSizes, Width1
<1>8. Wide(<<OCTET>>, 1)
  BY FieldSizes, Width1
<1>9. Wide(<<CP56>>, 7)
  BY FieldSizes, Width1
<1>10. Wide(<<CP16>>, 2)
  BY FieldSizes, Width1
<1> QED BY <1>1, <1>2, <1>3, <1>4, <1>5, <1>6, <1>7, <1>8, <1>9, <1>10

(* Two fields.                                                           *)
LEMMA Lists2 ==
  /\ Wide(<<SIQ, CP24>>, 4)
  /\ Wide(<<DIQ, CP24>>, 4)
  /\ Wide(<<VTI, QDS>>, 2)
  /\ Wide(<<BSI, QDS>>, 5)
  /\ Wide(<<NVA, QDS>>, 3)
  /\ Wide(<<R32, QDS>>, 5)
  /\ Wide(<<BCR, CP24>>, 8)
  /\ Wide(<<SCD, QDS>>, 5)
  /\ Wide(<<SIQ, CP56>>, 8)
  /\ Wide(<<DIQ, CP56>>, 8)
  /\ Wide(<<BCR, CP56>>, 12)
  /\ Wide(<<NVA, QOS>>, 3)
  /\ Wide(<<R32, QOS>>, 5)
  /\ Wide(<<SCO, CP56>>, 8)
  /\ Wide(<<DCO, CP56>>, 8)
  /\ Wide(<<R32, CP56>>, 11)
  /\ Wide(<<OCTET, OCTET>>, 2)
<1>1. Wide(<<SIQ, CP24>>, 4)
  BY FieldSizes, Width2
<1>2. Wide(<<DIQ, CP24>>, 4)
  BY FieldSizes, Width2
<1>3. Wide(<<VTI, QDS>>, 2)
  BY FieldSizes, Width2
<1>4. Wide(<<BSI, QDS>>, 5)
  BY FieldSizes, Width2
<1>5. Wide(<<NVA, QDS>>, 3)
  BY FieldSizes, Width2
<1>6. Wide(<<R32, QDS>>, 5)
  BY FieldSizes, Width2
<1>7. Wide(<<BCR, CP24>>, 8)
  BY FieldSizes, Width2
<1>8. Wide(<<SCD, QDS>>, 5)
  BY FieldSizes, Width2
<1>9. Wide(<<SIQ, CP56>>, 8)
  BY FieldSizes, Width2
<1>10. Wide(<<DIQ, CP56>>, 8)
  BY FieldSizes, Width2
<1>11. Wide(<<BCR, CP56>>, 12)
  BY FieldSizes, Width2
<1>12. Wide(<<NVA, QOS>>, 3)
  BY FieldSizes, Width2
<1>13. Wide(<<R32, QOS>>, 5)
  BY FieldSizes, Width2
<1>14. Wide(<<SCO, CP56>>, 8)
  BY FieldSizes, Width2
<1>15. Wide(<<DCO, CP56>>, 8)
  BY FieldSizes, Width2
<1>16. Wide(<<R32, CP56>>, 11)
  BY FieldSizes, Width2
<1>17. Wide(<<OCTET, OCTET>>, 2)
  BY FieldSizes, Width2
<1> QED BY <1>1, <1>2, <1>3, <1>4, <1>5, <1>6, <1>7, <1>8, <1>9, <1>10, <1>11, <1>12,
           <1>13, <1>14, <1>15, <1>16, <1>17

(* Three fields.                                                         *)
LEMMA Lists3 ==
  /\ Wide(<<BSI, QDS, CP24>>, 8)
  /\ Wide(<<NVA, QDS, CP24>>, 6)
  /\ Wide(<<R32, QDS, CP24>>, 8)
  /\ Wide(<<SEP, CP16, CP24>>, 6)
  /\ Wide(<<BSI, QDS, CP56>>, 12)
  /\ Wide(<<NVA, QDS, CP56>>, 10)
  /\ Wide(<<R32, QDS, CP56>>, 12)
  /\ Wide(<<SEP, CP16, CP56>>, 10)
  /\ Wide(<<NVA, QOS, CP56>>, 10)
  /\ Wide(<<R32, QOS, CP56>>, 12)
  /\ Wide(<<NOF, LOF, OCTET>>, 6)
  /\ Wide(<<NOF, OCTET, OCTET>>, 4)
<1>1. Wide(<<BSI, QDS, CP24>>, 8)
  BY FieldSizes, Width3
<1>2. Wide(<<NVA, QDS, CP24>>, 6)
  BY FieldSizes, Width3
<1>3. Wide(<<R32, QDS, CP24>>, 8)
  BY FieldSizes, Width3
<1>4. Wide(<<SEP, CP16, CP24>>, 6)
  BY FieldSizes, Width3
<1>5. Wide(<<BSI, QDS, CP56>>, 12)
  BY FieldSizes, Width3
<1>6. Wide(<<NVA, QDS, CP56>>, 10)
  BY FieldSizes, Width3
<1>7. Wide(<<R32, QDS, CP56>>, 12)
  BY FieldSizes, Width3
<1>8. Wide(<<SEP, CP16, CP56>>, 10)
  BY FieldSizes, Width3
<1>9. Wide(<<NVA, QOS, CP56>>, 10)
  BY FieldSizes, Width3
<1>10. Wide(<<R32, QOS, CP56>>, 12)
  BY FieldSizes, Width3
<1>11. Wide(<<NOF, LOF, OCTET>>, 6)
  BY FieldSizes, Width3
<1>12. Wide(<<NOF, OCTET, OCTET>>, 4)
  BY FieldSizes, Width3
<1> QED BY <1>1, <1>2, <1>3, <1>4, <1>5, <1>6, <1>7, <1>8, <1>9, <1>10, <1>11, <1>12

(* Four fields.                                                          *)
LEMMA Lists4 ==
  /\ Wide(<<OCTET, OCTET, CP16, CP24>>, 7)
  /\ Wide(<<OCTET, OCTET, CP16, CP56>>, 11)
  /\ Wide(<<NOF, OCTET, LOF, OCTET>>, 7)
  /\ Wide(<<NOF, OCTET, LOS, Field("raw", SegmentLength)>>, 7)
<1>1. Wide(<<OCTET, OCTET, CP16, CP24>>, 7)
  BY FieldSizes, Width4, SMTT(30)
<1>2. Wide(<<OCTET, OCTET, CP16, CP56>>, 11)
  BY FieldSizes, Width4, SMTT(30)
<1>3. Wide(<<NOF, OCTET, LOF, OCTET>>, 7)
  BY FieldSizes, Width4, SMTT(30)
<1>4. Wide(<<NOF, OCTET, LOS, Field("raw", SegmentLength)>>, 7)
  BY FieldSizes, Width4, SMTT(30)
<1> QED BY <1>1, <1>2, <1>3, <1>4

(* The table, points.                                                     *)
LEMMA PointElementsAreSound ==
  \A type \in DOMAIN PointElements : type \notin Faulty => SoundElement(PointElements[type])
<1>1. SoundElement(Indexed(SinglePointInformation, 1))
  BY Lists1, IndexedMonitored DEF SinglePointInformation
<1>2. SoundElement(Indexed(SinglePointWithCP24Time2a, 4))
  BY Lists2, IndexedMonitored DEF SinglePointWithCP24Time2a
<1>3. SoundElement(Indexed(DoublePointInformation, 1))
  BY Lists1, IndexedMonitored DEF DoublePointInformation
<1>4. SoundElement(Indexed(DoublePointWithCP24Time2a, 4))
  BY Lists2, IndexedMonitored DEF DoublePointWithCP24Time2a
<1>5. SoundElement(Indexed(StepPositionInformation, 2))
  BY Lists2, IndexedMonitored DEF StepPositionInformation
<1>6. SoundElement(Indexed(BitString32, 5))
  BY Lists2, IndexedMonitored DEF BitString32
<1>7. SoundElement(Indexed(Bitstring32WithCP24Time2a, 8))
  BY Lists3, IndexedMonitored DEF Bitstring32WithCP24Time2a
<1> QED BY <1>1, <1>2, <1>3, <1>4, <1>5, <1>6, <1>7
      DEF PointElements, Faulty

(* The table, measured values and counters.                               *)
LEMMA MeasuredElementsAreSound ==
  \A type \in DOMAIN MeasuredElements : type \notin Faulty => SoundElement(MeasuredElements[type])
<1>1. SoundElement(Indexed(MeasuredValueNormalized, 3))
  BY Lists2, IndexedMonitored DEF MeasuredValueNormalized
<1>2. SoundElement(Indexed(MeasuredValueNormalizedWithCP24Time2a, 6))
  BY Lists3, IndexedMonitored DEF MeasuredValueNormalizedWithCP24Time2a
<1>3. SoundElement(Indexed(MeasuredValueScaled, 3))
  BY Lists2, IndexedMonitored DEF MeasuredValueScaled
<1>4. SoundElement(Indexed(MeasuredValueScaledWithCP24Time2a, 6))
  BY Lists3, IndexedMonitored DEF MeasuredValueScaledWithCP24Time2a
<1>5. SoundElement(Indexed(MeasuredValueShort, 5))
  BY Lists2, IndexedMonitored DEF MeasuredValueShort
<1>6. SoundElement(Indexed(MeasuredValueShortWithCP24Time2a, 8))
  BY Lists3, IndexedMonitored DEF MeasuredValueShortWithCP24Time2a
<1>7. SoundElement(Indexed(IntegratedTotals, 5))
  BY Lists1, IndexedMonitored DEF IntegratedTotals
<1>8. SoundElement(Indexed(IntegratedTotalsWithCP24Time2a, 8))
  BY Lists2, IndexedMonitored DEF IntegratedTotalsWithCP24Time2a
<1> QED BY <1>1, <1>2, <1>3, <1>4, <1>5, <1>6, <1>7, <1>8
      DEF MeasuredElements, Faulty

(* The table, protection equipment.                                       *)
LEMMA ProtectionElementsAreSound ==
  \A type \in DOMAIN ProtectionElements :
    type \notin Faulty => SoundElement(ProtectionElements[type])
<1>1. SoundElement(Indexed(EventOfProtectionEquipment, 6))
  BY Lists3, IndexedMeasured DEF EventOfProtectionEquipment
<1>2. SoundElement(Indexed(PackedStartEventsOfProtectionEquipment, 7))
  BY Lists4, IndexedMeasured DEF PackedStartEventsOfProtectionEquipment
<1>3. SoundElement(Indexed(PackedOutputCircuitInfo, 7))
  BY Lists4, IndexedMeasured DEF PackedOutputCircuitInfo
<1>4. SoundElement(Indexed(PackedSinglePointWithSCD, 5))
  BY Lists2, IndexedMeasured DEF PackedSinglePointWithSCD
<1>5. SoundElement(Indexed(MeasuredValueNormalizedWithoutQuality, 2))
  BY Lists1, IndexedMonitored DEF MeasuredValueNormalizedWithoutQuality
<1> QED BY <1>1, <1>2, <1>3, <1>4, <1>5
      DEF ProtectionElements, Faulty

(* The table, points and values with a long time.                         *)
LEMMA TimedElementsAreSound ==
  \A type \in DOMAIN TimedElements : type \notin Faulty => SoundElement(TimedElements[type])
<1>1. SoundElement(Indexed(SinglePointWithCP56Time2a, 8))
  BY Lists2, IndexedMonitored DEF SinglePointWithCP56Time2a
<1>2. SoundElement(Indexed(DoublePointWithCP56Time2a, 8))
  BY Lists2, IndexedMonitored DEF DoublePointWithCP56Time2a
<1>3. SoundElement(Indexed(Bitstring32WithCP56Time2a, 12))
  BY Lists3, IndexedMonitored DEF Bitstring32WithCP56Time2a
<1>4. SoundElement(Indexed(MeasuredValueNormalizedWithCP56Time2a, 10))
  BY Lists3, IndexedMonitored DEF MeasuredValueNormalizedWithCP56Time2a
<1>5. SoundElement(Indexed(MeasuredValueScaledWithCP56Time2a, 10))
  BY Lists3, IndexedMonitored DEF MeasuredValueScaledWithCP56Time2a
<1>6. SoundElement(Indexed(MeasuredValueShortWithCP56Time2a, 12))
  BY Lists3, IndexedMonitored DEF MeasuredValueShortWithCP56Time2a
<1>7. SoundElement(Indexed(IntegratedTotalsWithCP56Time2a, 12))
  BY Lists2, IndexedMonitored DEF IntegratedTotalsWithCP56Time2a
<1>8. SoundElement(Indexed(EventOfProtectionEquipmentWithCP56Time2a, 10))
  BY Lists3, IndexedMeasured DEF EventOfProtectionEquipmentWithCP56Time2a
<1>9. SoundElement(Indexed(PackedStartEventsOfProtectionEquipmentWithCP56Time2a, 11))
  BY Lists4, IndexedMeasured DEF PackedStartEventsOfProtectionEquipmentWithCP56Time2a
<1>10. SoundElement(Indexed(PackedOutputCircuitInfoWithCP56Time2a, 11))
  BY Lists4, IndexedMeasured DEF PackedOutputCircuitInfoWithCP56Time2a
<1> QED BY <1>1, <1>2, <1>3, <1>4, <1>5, <1>6, <1>7, <1>8, <1>9, <1>10
      DEF TimedElements, Faulty

(* The table, commands.                                                   *)
LEMMA CommandElementsAreSound ==
  \A type \in DOMAIN CommandElements : type \notin Faulty => SoundElement(CommandElements[type])
<1>1. SoundElement(Addressed(SingleCommand, 1))
  BY Lists1, IndexedMeasured DEF SingleCommand
<1>2. SoundElement(Addressed(DoubleCommand, 1))
  BY Lists1, IndexedMeasured DEF DoubleCommand
<1>3. SoundElement(Addressed(StepCommand, 1))
  BY Lists1, IndexedMeasured DEF StepCommand
<1>4. SoundElement(Addressed(SetpointCommandNormalized, 3))
  BY Lists2, IndexedMeasured DEF SetpointCommandNormalized
<1>5. SoundElement(Addressed(SetpointCommandScaled, 3))
  BY Lists2, IndexedMeasured DEF SetpointCommandScaled
<1>6. SoundElement(Addressed(SetpointCommandShort, 5))
  BY Lists2, IndexedMeasured DEF SetpointCommandShort
<1>7. SoundElement(Addressed(Bitstring32Command, 4))
  <2>1. Wide(<<R32>>, 4)
    BY Lists1
  <2> QED BY <2>1, MeasuredWithRoom DEF Bitstring32Command
<1>8. SoundElement(Addressed(SingleCommandWithCP56Time2a, 8))
  BY Lists2, IndexedMeasured DEF SingleCommandWithCP56Time2a
<1>9. SoundElement(Addressed(DoubleCommandWithCP56Time2a, 8))
  BY Lists2, IndexedMeasured DEF DoubleCommandWithCP56Time2a
<1>10. SoundElement(Addressed(StepCommandWithCP56Time2a, 8))
  BY Lists2, IndexedMeasured DEF StepCommandWithCP56Time2a
<1>11. SoundElement(Addressed(SetpointCommandNormalizedWithCP56Time2a, 10))
  BY Lists3, IndexedMeasured DEF SetpointCommandNormalizedWithCP56Time2a
<1>12. SoundElement(Addressed(SetpointCommandScaledWithCP56Time2a, 10))
  BY Lists3, IndexedMeasured DEF SetpointCommandScaledWithCP56Time2a
<1>13. SoundElement(Addressed(SetpointCommandShortWithCP56Time2a, 12))
  BY Lists3, IndexedMeasured DEF SetpointCommandShortWithCP56Time2a
<1>14. SoundElement(Addressed(Bitstring32CommandWithCP56Time2a, 11))
  <2>1. Wide(<<R32, CP56>>, 11)
    BY Lists2
  <2> QED BY <2>1, MeasuredWithRoom DEF Bitstring32CommandWithCP56Time2a
<1> QED BY <1>1, <1>2, <1>3, <1>4, <1>5, <1>6, <1>7, <1>8, <1>9, <1>10, <1>11, <1>12, <1>13, <1>14
      DEF CommandElements, Faulty

(* The table, parameters.                                                 *)
LEMMA ParameterElementsAreSound ==
  \A type \in DOMAIN ParameterElements : type \notin Faulty => SoundElement(ParameterElements[type])
<1>1. SoundElement(Addressed(ParameterNormalizedValue, 3))
  BY Lists2, IndexedMonitored DEF ParameterNormalizedValue, MeasuredValueNormalized
<1>2. SoundElement(Addressed(ParameterScaledValue, 3))
  BY Lists2, IndexedMonitored DEF ParameterScaledValue, MeasuredValueScaled
<1>3. SoundElement(Addressed(ParameterFloatValue, 5))
  BY Lists2, IndexedMonitored DEF ParameterFloatValue, MeasuredValueShort
<1>4. SoundElement(Addressed(ParameterActivation, 1))
  BY Lists1, IndexedMonitored DEF ParameterActivation
<1> QED BY <1>1, <1>2, <1>3, <1>4
      DEF ParameterElements, Faulty

(* The table, system commands.                                            *)
LEMMA SystemElementsAreSound ==
  \A type \in DOMAIN SystemElements : type \notin Faulty => SoundElement(SystemElements[type])
<1>1. SoundElement(Alone(EndOfInitialization))
  BY Lists1, IndexedMeasured DEF EndOfInitialization
<1>2. SoundElement(Alone(InterrogationCommand))
  BY Lists1, IndexedMeasured DEF InterrogationCommand
<1>3. SoundElement(Alone(CounterInterrogationCommand))
  BY Lists1, IndexedMeasured DEF CounterInterrogationCommand
<1>4. SoundElement(Alone(ReadCommand))
  BY Lists0, IndexedMeasured DEF ReadCommand
<1>5. SoundElement(Alone(ClockSynchronizationCommand))
  BY Lists1, IndexedMeasured DEF ClockSynchronizationCommand
<1>6. SoundElement(Alone(TestCommand))
  BY Lists2, IndexedMeasured DEF TestCommand
<1>7. SoundElement(Alone(ResetProcessCommand))
  BY Lists1, IndexedMeasured DEF ResetProcessCommand
<1>8. SoundElement(Alone(DelayAcquisitionCommand))
  BY Lists1, IndexedMeasured DEF DelayAcquisitionCommand
<1> QED BY <1>1, <1>2, <1>3, <1>4, <1>5, <1>6, <1>7, <1>8
      DEF SystemElements, Faulty

(* The table, files.                                                      *)
LEMMA FileElementsAreSound ==
  \A type \in DOMAIN FileElements : type \notin Faulty => SoundElement(FileElements[type])
<1>1. SoundElement(Alone(FileReady))
  <2>1. Wide(<<NOF, LOF, OCTET>>, 6)
    BY Lists3
  <2> QED BY <2>1, MeasuredWithRoom DEF FileReady
<1>2. SoundElement(Alone(SectionReady))
  <2>1. Wide(<<NOF, OCTET, LOF, OCTET>>, 7)
    BY Lists4
  <2> QED BY <2>1, MeasuredWithRoom DEF SectionReady
<1>3. SoundElement(Alone(FileCallOrSelect))
  <2>1. Wide(<<NOF, OCTET, OCTET>>, 4)
    BY Lists3
  <2> QED BY <2>1, MeasuredWithRoom DEF FileCallOrSelect
<1>4. SoundElement(Alone(FileACK))
  <2>1. Wide(<<NOF, OCTET, OCTET>>, 4)
    BY Lists3
  <2> QED BY <2>1, MeasuredWithRoom DEF FileACK, Unchecked
<1>5. SoundElement(Alone(FileSegment))
  <2>1. Wide(<<NOF, OCTET, LOS, Field("raw", SegmentLength)>>, 7)
    BY Lists4
  <2>2. 4 + SegmentLength \in Int /\ 4 + SegmentLength <= 7
    BY DEF SegmentLength
  <2> QED BY <2>1, <2>2, MeasuredWithRoom DEF FileSegment, Unchecked
<1> QED BY <1>1, <1>2, <1>3, <1>4, <1>5
      DEF FileElements, Faulty

(* Every type but the faulty ones has a sound entry: getFromBuffer reads   *)
(* each field where encode writes it, the size CS101_ASDU_getElementEx goes*)
(* by is that of the fields, the class asks for enough room.               *)
THEOREM ElementsAreSound ==
  ASSUME NEW type \in SoundTypes
  PROVE  SoundElement(Elements[type])
<1> DEFINE In(group) == type \in DOMAIN group /\ Elements[type] = group[type]
           All == UNION {DOMAIN PointElements, DOMAIN MeasuredElements, DOMAIN ProtectionElements,
                         DOMAIN TimedElements, DOMAIN CommandElements, DOMAIN ParameterElements,
                         DOMAIN SystemElements, DOMAIN FileElements}
           Entry(t) ==
             CASE t \in DOMAIN PointElements      -> PointElements[t]
               [] t \in DOMAIN MeasuredElements   -> MeasuredElements[t]
               [] t \in DOMAIN ProtectionElements -> ProtectionElements[t]
               [] t \in DOMAIN TimedElements      -> TimedElements[t]
               [] t \in DOMAIN CommandElements    -> CommandElements[t]
               [] t \in DOMAIN ParameterElements  -> ParameterElements[t]
               [] t \in DOMAIN SystemElements     -> SystemElements[t]
               [] t \in DOMAIN FileElements       -> FileElements[t]
<1>1. Elements = [t \in All |-> Entry(t)]
  BY DEF Elements
<1>2. type \in All /\ type \notin Faulty /\ Elements[type] = Entry(type)
  <2>1. DOMAIN Elements = All
    <3> HIDE DEF All, Entry
    <3> QED BY <1>1
  <2>2. type \in All /\ type \notin Faulty
    BY <2>1 DEF SoundTypes
  <2> HIDE DEF All, Entry
  <2> QED BY <1>1, <2>2
<1>3. \/ In(PointElements) \/ In(MeasuredElements) \/ In(ProtectionElements)
      \/ In(TimedElements) \/ In(CommandElements) \/ In(ParameterElements)
      \/ In(SystemElements) \/ In(FileElements)
  <2>1. \/ type \in DOMAIN PointElements \/ type \in DOMAIN MeasuredElements
        \/ type \in DOMAIN ProtectionElements \/ type \in DOMAIN TimedElements
        \/ type \in DOMAIN CommandElements \/ type \in DOMAIN ParameterElements
        \/ type \in DOMAIN SystemElements \/ type \in DOMAIN FileElements
    BY <1>2, Zenon
  <2> QED BY <1>2, <2>1, Zenon
<1> QED BY <1>2, <1>3, PointElementsAreSound, MeasuredElementsAreSound,
           ProtectionElementsAreSound, TimedElementsAreSound, CommandElementsAreSound,
           ParameterElementsAreSound, SystemElementsAreSound, FileElementsAreSound, Zenon

----------------------------------------------------------------------------
(* What an object leaves in the payload, and what is read from there. *)

(* Each field of an object is where the layout says.                       *)
LEMMA ContentsAre ==
  ASSUME NEW width \in Nat, NEW layout, SoundLayout(layout, width), NEW values, NEW left,
         \A k \in 1..Len(layout.fields) : Holds(layout.fields[k], values[k]),
         NEW c, c = Contents(layout, values, left)
  PROVE  /\ c \in Seq(Byte) /\ Len(c) = width
         /\ \A k \in 1..Len(layout.fields) : \A j \in 1..layout.fields[k].size :
              /\ layout.at[k] \in Nat /\ layout.at[k] + j \in 1..width
              /\ c[layout.at[k] + j] = Encoded(layout.fields[k], values[k])[j]
<1> DEFINE fields == layout.fields
           n == Len(fields)
           part(k) == Encoded(fields[k], values[k])
           parts == [k \in 1..n |-> part(k)]
           stored(k) == IF k \in layout.unset THEN left[k] ELSE values[k]
           Joins(b) == b = [k \in 0..n |-> IF k = 0 THEN <<>>
                                           ELSE b[k - 1] \o Encoded(fields[k], stored(k))]
           bytes == CHOOSE b : Joins(b)
           end == Ends(fields)
<1>1. /\ fields \in Seq(Fields) /\ n \in Nat /\ Width(fields) = width /\ layout.unset = {}
      /\ layout.at = [k \in 1..n |-> end[k - 1]]
  BY DEF SoundLayout, Wide, Layouts
<1>2. \A k \in 1..n : fields[k] \in Fields /\ fields[k].size \in Nat
  <2>1. \A k \in 1..n : fields[k] \in Fields
    BY <1>1, ElementOfSeq
  <2> QED BY <2>1 DEF Fields
<1>3. \A k \in 1..n : part(k) \in Seq(Byte) /\ Len(part(k)) = fields[k].size
  BY <1>2, FieldIsKept
<1>4. \A k \in 1..n : stored(k) = values[k]
  BY <1>1
<1>5. c = bytes[n]
  BY DEF Contents
<1>6. \A b : JoinsOf(b, n, parts) <=> Joins(b)
  <2> SUFFICES ASSUME NEW b PROVE JoinsOf(b, n, parts) <=> Joins(b)
    OBVIOUS
  <2>1. \A k \in 1..n : parts[k] = Encoded(fields[k], stored(k))
    BY <1>4
  <2> HIDE DEF parts, stored
  <2>2. [k \in 0..n |-> IF k = 0 THEN <<>> ELSE b[k - 1] \o parts[k]] =
        [k \in 0..n |-> IF k = 0 THEN <<>> ELSE b[k - 1] \o Encoded(fields[k], stored(k))]
    BY <2>1, <1>1
  <2> QED BY <2>2 DEF JoinsOf
<1> HIDE DEF Joins
<1>7. JoinsOf(bytes, n, parts)
  <2>1. \E b : Joins(b)
    <3> HIDE DEF parts
    <3> QED BY <1>1, <1>6, JoinsExist
  <2>2. Joins(bytes)
    BY <2>1, Zenon
  <2> QED BY <2>2, <1>6, Zenon
<1>8. /\ end[0] = 0 /\ (\A k \in 0..n : end[k] \in Nat) /\ end[n] = width
      /\ \A k \in 1..n : end[k] = end[k - 1] + fields[k].size
  BY <1>1, <1>2, EndsAreSums
<1>9. \A k \in 1..n : parts[k] = part(k)
  OBVIOUS
<1> HIDE DEF bytes, end, parts
<1>10. /\ \A k \in 1..n : parts[k] \in Seq(Byte)
       /\ \A k \in 1..n : end[k] = end[k - 1] + Len(parts[k])
  BY <1>3, <1>8, <1>9
<1>11. /\ bytes[n] \in Seq(Byte) /\ Len(bytes[n]) = end[n]
       /\ \A k \in 1..n : \A j \in 1..Len(parts[k]) :
            end[k - 1] + j \in 1..end[n] /\ bytes[n][end[k - 1] + j] = parts[k][j]
  <2> HIDE DEF n
  <2>1. n \in Nat
    BY <1>1
  <2>2. \A k \in 1..n : parts[k] \in Seq(Byte)
    BY <1>10
  <2>3. end[0] = 0 /\ \A k \in 0..n : end[k] \in Nat
    BY <1>8
  <2>4. \A k \in 1..n : end[k] = end[k - 1] + Len(parts[k])
    BY <1>10
  <2>5. Laid(n, parts, end)
    BY <2>1, <2>2, <2>3, <2>4 DEF Laid
  <2>6. FoundIn(bytes[n], n, parts, end)
    BY <2>5, <1>7, JoinedParts, Zenon
  <2> QED BY <2>6 DEF FoundIn
<1>12. ASSUME NEW k \in 1..n, NEW j \in 1..fields[k].size
       PROVE  /\ layout.at[k] \in Nat /\ layout.at[k] + j \in 1..width
              /\ c[layout.at[k] + j] = part(k)[j]
  <2>1. layout.at[k] = end[k - 1] /\ end[k - 1] \in Nat
    BY <1>1, <1>8
  <2>2. Len(parts[k]) = fields[k].size /\ parts[k] = part(k)
    BY <1>3, <1>9
  <2>3. end[k - 1] + j \in 1..end[n] /\ bytes[n][end[k - 1] + j] = parts[k][j]
    BY <1>11, <2>2, Zenon
  <2> QED BY <2>1, <2>2, <2>3, <1>5, <1>8
<1> QED BY <1>5, <1>8, <1>11, <1>12

(* What the table says of a type the application uses.                    *)
Room(t) == Width(Elements[t].class.fields)
LEMMA SoundTypeIs ==
  ASSUME NEW t \in Types
  PROVE  /\ Room(t) \in Nat /\ SoundLayout(Elements[t].class, Room(t))
         /\ \/ /\ Elements[t].place \in {"indexed", "addressed"} /\ Elements[t].size = Room(t)
               /\ Elements[t].class.room >= Room(t)
            \/ /\ Elements[t].place = "alone"
               /\ Elements[t].class.room >= Room(t) \/ Room(t) <= 7
         /\ Elements[t].class.answer = TRUE /\ Elements[t].class.room \in Int
         /\ Elements[t].class.needs \in Int /\ Elements[t].class.needs <= Room(t)
         /\ Elements[t].class.fields \in Seq(Fields)
<1> DEFINE e == Elements[t]
<1>1. PICK width \in Nat :
        /\ SoundLayout(e.class, width)
        /\ \/ /\ e.place \in {"indexed", "addressed"} /\ e.size = width
              /\ e.class.room >= width
           \/ /\ e.place = "alone"
              /\ e.class.room >= width \/ width <= 7
  BY TypesAssumption, ElementsAreSound DEF SoundElement
<1> HIDE DEF e
<1>2. width = Width(e.class.fields) /\ e.class.fields \in Seq(Fields)
  BY <1>1 DEF SoundLayout, Wide
<1>3. e.class \in Layouts /\ e.class.needs <= width
  BY <1>1 DEF SoundLayout
<1>4. e.class.answer = TRUE /\ e.class.room \in Int /\ e.class.needs \in Int
  BY <1>3 DEF Layouts
<1>5. Room(t) = width
  BY <1>2 DEF Room, e
<1> QED BY <1>1, <1>2, <1>3, <1>4, <1>5 DEF e

(* Bytes that hold a part from some place on.                              *)
Carries(bytes, at, part) ==
  /\ at \in Nat
  /\ \A j \in 1..Len(part) : at + j <= Len(bytes) /\ bytes[at + j] = part[j]

(* They still do when more is appended, and then hold that too.            *)
LEMMA CarriesMore ==
  ASSUME NEW p \in Seq(Byte), NEW q \in Seq(Byte)
  PROVE  /\ p \o q \in Seq(Byte) /\ Len(p \o q) = Len(p) + Len(q)
         /\ Carries(p \o q, Len(p), q)
         /\ \A at, part : Len(part) \in Nat /\ Carries(p, at, part) => Carries(p \o q, at, part)
<1>1. /\ p \o q \in Seq(Byte) /\ Len(p \o q) = Len(p) + Len(q)
      /\ \A i \in 1..Len(p) + Len(q) : (p \o q)[i] = IF i <= Len(p) THEN p[i] ELSE q[i - Len(p)]
  BY ConcatProperties, Zenon
<1>2. Len(p) \in Nat /\ Len(q) \in Nat
  BY LenProperties
<1> DEFINE r == p \o q
<1> HIDE DEF r
<1>3. ASSUME NEW j \in 1..Len(q) PROVE r[Len(p) + j] = q[j]
  <2>1. Len(p) + j \in 1..Len(p) + Len(q) /\ ~ (Len(p) + j <= Len(p)) /\ (Len(p) + j) - Len(p) = j
    BY <1>2
  <2> QED BY <2>1, <1>1 DEF r
<1>4. Carries(r, Len(p), q)
  BY <1>1, <1>2, <1>3 DEF Carries, r
<1>5. ASSUME NEW at, NEW part, Len(part) \in Nat, Carries(p, at, part)
      PROVE  Carries(r, at, part)
  <2>1. at \in Nat /\ \A j \in 1..Len(part) : at + j <= Len(p) /\ p[at + j] = part[j]
    BY <1>5 DEF Carries
  <2>2. ASSUME NEW j \in 1..Len(part) PROVE at + j <= Len(r) /\ r[at + j] = part[j]
    <3>1. at + j \in 1..Len(p) + Len(q) /\ at + j <= Len(p)
      BY <1>2, <1>5, <2>1
    <3> QED BY <3>1, <2>1, <1>1 DEF r
  <2> QED BY <2>1, <2>2 DEF Carries
<1> QED BY <1>1, <1>4, <1>5 DEF r

(* A part of a part.                                                       *)
LEMMA CarriesPart ==
  ASSUME NEW p, NEW at, NEW c, Carries(p, at, c), NEW off, NEW part, Carries(c, off, part),
         Len(p) \in Nat, Len(c) \in Nat, Len(part) \in Nat
  PROVE  Carries(p, at + off, part)
<1>1. at \in Nat /\ \A j \in 1..Len(c) : at + j <= Len(p) /\ p[at + j] = c[j]
  BY DEF Carries
<1>2. off \in Nat /\ \A j \in 1..Len(part) : off + j <= Len(c) /\ c[off + j] = part[j]
  BY DEF Carries
<1>3. ASSUME NEW j \in 1..Len(part)
      PROVE  (at + off) + j <= Len(p) /\ p[(at + off) + j] = part[j]
  <2>1. off + j \in 1..Len(c) /\ (at + off) + j = at + (off + j)
    BY <1>1, <1>2
  <2>2. at + (off + j) <= Len(p) /\ p[at + (off + j)] = c[off + j]
    BY <2>1, <1>1
  <2> QED BY <2>1, <2>2, <1>2
<1> QED BY <1>1, <1>2, <1>3 DEF Carries

(* Bytes are read as they are carried.                                     *)
LEMMA CarriedIsRead ==
  ASSUME NEW at, NEW part \in Seq(Byte), Carries(payload, at, part), payload \in Seq(Byte)
  PROVE  BytesAt(at, Len(part)) = part
<1>1. /\ at \in Nat /\ Len(part) \in Nat /\ Len(payload) \in Nat
      /\ \A j \in 1..Len(part) : at + j <= Len(payload) /\ payload[at + j] = part[j]
  BY DEF Carries
<1>2. ASSUME NEW j \in 1..Len(part) PROVE ByteAt(at + j - 1) = part[j]
  <2>1. at + j - 1 < Len(payload) /\ (at + j - 1) + 1 = at + j
    BY <1>1
  <2>2. ByteAt(at + j - 1) = payload[(at + j - 1) + 1]
    BY <2>1 DEF ByteAt
  <2> QED BY <2>1, <2>2, <1>1
<1>3. part = [j \in 1..Len(part) |-> part[j]]
  OBVIOUS
<1>4. BytesAt(at, Len(part)) = [j \in 1..Len(part) |-> part[j]]
  BY <1>2 DEF BytesAt
<1> QED BY <1>3, <1>4

(* The objects of an ASDU as its bytes hold them: where the fields of the  *)
(* i-th object start and how long n objects are, for addresses of a bytes  *)
(* and objects of w, in a sequence or not.                                 *)
BodyAt(seq, a, w, i)   == IF seq THEN a + (i - 1) * w ELSE (i - 1) * (a + w) + a
LengthOf(seq, a, w, n) == IF seq THEN a + n * w ELSE n * (a + w)
Object(t, x, i) == [type |-> t, ioa |-> x, values |-> Given(t, i - 1)]

(* The fields of the i-th object stand in the bytes from some place on.    *)
HasFields(p, at, t, i) ==
  \A k \in 1..Len(Elements[t].class.fields) :
    Carries(p, at + Elements[t].class.at[k],
            Encoded(Elements[t].class.fields[k], Given(t, i - 1)[k]))

(* The i-th object, at an address: the first of a sequence alone has it    *)
(* in the bytes.                                                           *)
StoredAt(p, a, seq, t, first, x, i) ==
  /\ x \in Nat
  /\ BodyAt(seq, a, Room(t), i) + Room(t) <= Len(p)
  /\ seq => x = first + (i - 1)
  /\ ~ seq => x < Weight(a) /\ Carries(p, (i - 1) * (a + Room(t)), NumberBytes(x, a))
  /\ HasFields(p, BodyAt(seq, a, Room(t), i), t, i)

(* All of them, and nothing else.                                          *)
Stored(p, obj, a, seq, t) ==
  /\ Len(p) = LengthOf(seq, a, Room(t), Len(obj))
  /\ seq => obj[1].ioa < Weight(a) /\ Carries(p, 0, NumberBytes(obj[1].ioa, a))
  /\ \A i \in 1..Len(obj) : /\ obj[i] = Object(t, obj[i].ioa, i)
                            /\ StoredAt(p, a, seq, t, obj[1].ioa, obj[i].ioa, i)

(* The fields of a sound type, written and read.                           *)
LEMMA FieldBytes ==
  ASSUME NEW t \in Types, NEW turn \in Turns, NEW k \in 1..Len(Elements[t].class.fields),
         NEW f, f = Elements[t].class.fields[k]
  PROVE  /\ f \in Fields /\ Encoded(f, Given(t, turn)[k]) \in Seq(Byte)
         /\ Len(Encoded(f, Given(t, turn)[k])) = f.size /\ f.size \in Nat
         /\ Decoded(f, Encoded(f, Given(t, turn)[k])) = Given(t, turn)[k]
<1>1. f \in Fields
  <2> DEFINE s == Elements[t].class.fields
  <2>1. s \in Seq(Fields) /\ k \in 1..Len(s) /\ f = s[k]
    BY SoundTypeIs
  <2> HIDE DEF s
  <2> QED BY <2>1, ElementOfSeq
<1>2. Holds(f, Given(t, turn)[k])
  BY ObjectsAssumption
<1>3. f.size \in Nat
  BY <1>1 DEF Fields
<1> QED BY <1>1, <1>2, <1>3, FieldIsKept

(* What encode writes for an object after its address holds the fields.    *)
LEMMA ContentsHold ==
  ASSUME NEW t \in Types, NEW i \in 1..128, NEW left,
         NEW c, c = Contents(Elements[t].class, Given(t, i - 1), left)
  PROVE  c \in Seq(Byte) /\ Len(c) = Room(t) /\ HasFields(c, 0, t, i)
<1> DEFINE layout == Elements[t].class
<1>1. Room(t) \in Nat /\ SoundLayout(layout, Room(t))
  BY SoundTypeIs
<1>2. i - 1 \in Turns
  BY DEF Turns
<1>3. c = Contents(layout, Given(t, i - 1), left)
  OBVIOUS
<1>4. /\ c \in Seq(Byte) /\ Len(c) = Room(t)
      /\ \A k \in 1..Len(layout.fields) : \A j \in 1..layout.fields[k].size :
           /\ layout.at[k] \in Nat /\ layout.at[k] + j \in 1..Room(t)
           /\ c[layout.at[k] + j] = Encoded(layout.fields[k], Given(t, i - 1)[k])[j]
  <2>1. \A k \in 1..Len(layout.fields) : Holds(layout.fields[k], Given(t, i - 1)[k])
    BY <1>2, ObjectsAssumption
  <2> HIDE DEF layout
  <2> QED BY <1>1, <1>3, <2>1, ContentsAre
<1>5. ASSUME NEW k \in 1..Len(layout.fields)
      PROVE  Carries(c, 0 + layout.at[k], Encoded(layout.fields[k], Given(t, i - 1)[k]))
  <2> DEFINE f == layout.fields[k]
             part == Encoded(f, Given(t, i - 1)[k])
             at == layout.at[k]
  <2>1. Len(part) = f.size /\ f.size \in Nat
    BY <1>2, FieldBytes
  <2>2. at \in Nat
    <3> HIDE DEF layout
    <3> QED BY <1>1, <1>5, ElementOfSeq DEF SoundLayout, Layouts
  <2>3. \A j \in 1..f.size : at + j <= Room(t) /\ c[at + j] = part[j]
    BY <1>1, <1>4
  <2> HIDE DEF at, part, f
  <2>4. Carries(c, at, part)
    BY <1>1, <1>4, <2>1, <2>2, <2>3 DEF Carries
  <2>5. 0 + at = at
    BY <2>2
  <2> QED BY <2>4, <2>5 DEF at, part, f
<1> QED BY <1>4, <1>5 DEF HasFields

(* Fields stay where they are when more is appended, and those of an       *)
(* object that is appended start where the bytes ended.                    *)
LEMMA HasFieldsMore ==
  ASSUME NEW t \in Types, NEW i \in 1..128, NEW at, NEW p \in Seq(Byte),
         NEW q \in Seq(Byte), HasFields(p, at, t, i)
  PROVE  HasFields(p \o q, at, t, i)
<1>1. ASSUME NEW k \in 1..Len(Elements[t].class.fields)
      PROVE  Carries(p \o q, at + Elements[t].class.at[k],
               Encoded(Elements[t].class.fields[k], Given(t, i - 1)[k]))
  <2> DEFINE f == Elements[t].class.fields[k]
             part == Encoded(f, Given(t, i - 1)[k])
             place == at + Elements[t].class.at[k]
  <2>1. Carries(p, place, part)
    BY DEF HasFields
  <2>2. Len(part) \in Nat
    <3>1. i - 1 \in Turns
      BY DEF Turns
    <3>2. part \in Seq(Byte)
      BY <3>1, FieldBytes
    <3> QED BY <3>2, LenProperties
  <2> HIDE DEF part, place
  <2>3. Carries(p \o q, place, part)
    BY <2>1, <2>2, CarriesMore
  <2> QED BY <2>3 DEF part, place
<1> QED BY <1>1 DEF HasFields

(* They are further on when bytes come before them.                      *)
LEMMA HasFieldsAfter ==
  ASSUME NEW t \in Types, NEW i \in 1..128, NEW p \in Seq(Byte), NEW c \in Seq(Byte),
         HasFields(c, 0, t, i)
  PROVE  HasFields(p \o c, Len(p), t, i)
<1>1. ASSUME NEW k \in 1..Len(Elements[t].class.fields)
      PROVE  Carries(p \o c, Len(p) + Elements[t].class.at[k],
               Encoded(Elements[t].class.fields[k], Given(t, i - 1)[k]))
  <2> DEFINE layout == Elements[t].class
             f == layout.fields[k]
             part == Encoded(f, Given(t, i - 1)[k])
             at == layout.at[k]
  <2>1. Carries(c, 0 + at, part)
    BY DEF HasFields
  <2>2. Len(part) \in Nat
    <3>1. i - 1 \in Turns
      BY DEF Turns
    <3>2. part \in Seq(Byte)
      BY <3>1, FieldBytes
    <3> QED BY <3>2, LenProperties
  <2>3. at \in Nat
    <3>1. SoundLayout(layout, Room(t)) /\ k \in 1..Len(layout.fields)
      BY SoundTypeIs
    <3> HIDE DEF layout
    <3> QED BY <3>1, ElementOfSeq DEF SoundLayout, Layouts
  <2> HIDE DEF part, at
  <2>4. Carries(c, at, part)
    BY <2>1, <2>3
  <2>5. Carries(p \o c, Len(p), c) /\ p \o c \in Seq(Byte)
    BY CarriesMore
  <2>6. Carries(p \o c, Len(p) + at, part)
    <3>1. Len(p \o c) \in Nat /\ Len(c) \in Nat
      BY <2>5, LenProperties
    <3> QED BY <2>2, <2>4, <2>5, <3>1, CarriesPart
  <2> QED BY <2>6 DEF part, at
<1> QED BY <1>1 DEF HasFields

(* An object stays where it is.                                            *)
LEMMA StoredAtMore ==
  ASSUME NEW t \in Types, NEW i \in 1..128, NEW a \in 1..3, NEW seq \in BOOLEAN,
         NEW first, NEW x, NEW p \in Seq(Byte), NEW q \in Seq(Byte),
         StoredAt(p, a, seq, t, first, x, i)
  PROVE  StoredAt(p \o q, a, seq, t, first, x, i)
<1> DEFINE w == Room(t)
           body == BodyAt(seq, a, w, i)
           start == (i - 1) * (a + w)
           address == NumberBytes(x, a)
<1>1. /\ x \in Nat /\ body + w <= Len(p) /\ (seq => x = first + (i - 1))
      /\ ~ seq => x < Weight(a) /\ Carries(p, start, address)
      /\ HasFields(p, body, t, i)
  BY DEF StoredAt
<1>2. HasFields(p \o q, body, t, i)
  <2> HIDE DEF body
  <2> QED BY <1>1, HasFieldsMore
<1>3. ~ seq => Carries(p \o q, start, address)
  <2>1. ~ seq => Len(address) \in Nat
    <3>1. ASSUME ~ seq PROVE address \in Seq(Byte)
      BY <1>1, <3>1, NumberIsKept
    <3> QED BY <3>1, LenProperties
  <2> HIDE DEF address, start
  <2> QED BY <1>1, <2>1, CarriesMore
<1>4. body + w <= Len(p \o q)
  <2>1. Len(p \o q) = Len(p) + Len(q) /\ Len(p) \in Nat /\ Len(q) \in Nat
    BY CarriesMore, LenProperties
  <2>2. w \in Nat /\ body \in Int
    <3>1. w \in Nat
      BY SoundTypeIs
    <3> HIDE DEF w
    <3>2. (i - 1) * w \in Int /\ (i - 1) * (a + w) \in Int
      BY <3>1
    <3> QED BY <3>1, <3>2 DEF BodyAt
  <2> HIDE DEF w, body
  <2> QED BY <1>1, <2>1, <2>2
<1> QED BY <1>1, <1>2, <1>3, <1>4 DEF StoredAt

(* The objects are numbered from 1, the turns from 0.                      *)
LEMMA Numbers ==
  ASSUME NEW n \in Turns
  PROVE  /\ n \in Nat /\ n + 1 \in 1..128 /\ (n + 1) - 1 = n
         /\ \A i \in 1..n : i \in 1..128 /\ i - 1 \in Nat
BY DEF Turns

(* What addInformationObject appends after n objects: the address x, but   *)
(* not in a sequence that has begun, and the contents.                     *)
Appends(t, n, a, seq, first, x, p, q, c) ==
  /\ n \in Turns /\ a \in 1..3 /\ seq \in BOOLEAN /\ p \in Seq(Byte)
  /\ Len(p) = IF n = 0 THEN 0 ELSE LengthOf(seq, a, Room(t), n)
  /\ x \in Nat /\ (seq => x = first + n) /\ ((seq /\ n # 0) \/ x < Weight(a))
  /\ q = IF seq /\ n # 0 THEN <<>> ELSE NumberBytes(x, a)
  /\ \E left : c = Contents(Elements[t].class, Given(t, n), left)

(* It is the object, where it belongs.                                     *)
LEMMA StoredAtEnd ==
  ASSUME NEW t \in Types, NEW n, NEW a, NEW seq, NEW first, NEW x, NEW p, NEW q, NEW c,
         Appends(t, n, a, seq, first, x, p, q, c)
  PROVE  /\ p \o q \in Seq(Byte) /\ (p \o q) \o c \in Seq(Byte)
         /\ Len((p \o q) \o c) = LengthOf(seq, a, Room(t), n + 1)
         /\ Len((p \o q) \o c) = Len(p) + Len(q) + Room(t)
         /\ q \in Seq(Byte) /\ Len(q) = IF seq /\ n # 0 THEN 0 ELSE a
         /\ c \in Seq(Byte)
         /\ StoredAt((p \o q) \o c, a, seq, t, first, x, n + 1)
<1>0. /\ n \in Nat /\ a \in 1..3 /\ seq \in BOOLEAN /\ p \in Seq(Byte)
      /\ Len(p) = IF n = 0 THEN 0 ELSE LengthOf(seq, a, Room(t), n)
      /\ x \in Nat /\ (seq => x = first + n) /\ ((seq /\ n # 0) \/ x < Weight(a))
      /\ q = IF seq /\ n # 0 THEN <<>> ELSE NumberBytes(x, a)
  BY DEF Appends, Turns
<1> USE <1>0
<1> DEFINE w == Room(t)
           i == n + 1
           address == NumberBytes(x, a)
           pq == p \o q
           r == pq \o c
           body == BodyAt(seq, a, w, i)
<1>1. w \in Nat
  BY SoundTypeIs
<1>2. i \in 1..128 /\ i - 1 = n
  <2>1. n \in Turns
    BY DEF Appends
  <2> QED BY <2>1, Numbers
<1>3. c \in Seq(Byte) /\ Len(c) = w /\ HasFields(c, 0, t, i)
  <2>1. PICK left : c = Contents(Elements[t].class, Given(t, i - 1), left)
    BY <1>2 DEF Appends
  <2> HIDE DEF i, w
  <2> QED BY <1>2, <2>1, ContentsHold DEF w
<1>4. ~ (seq /\ n # 0) => address \in Seq(Byte) /\ Len(address) = a
  BY NumberIsKept
<1>5. q \in Seq(Byte) /\ Len(q) = IF seq /\ n # 0 THEN 0 ELSE a
  <2>1. CASE seq /\ n # 0
    BY <2>1
  <2>2. CASE ~ (seq /\ n # 0)
    <3>1. q = address
      BY <2>2
    <3> HIDE DEF address
    <3> QED BY <2>2, <3>1, <1>4
  <2> QED BY <2>1, <2>2
<1> HIDE DEF w, i, address
<1>6. pq \in Seq(Byte) /\ Len(pq) = Len(p) + Len(q) /\ Carries(pq, Len(p), q)
  BY <1>5, CarriesMore
<1>7. Len(p) \in Nat /\ Len(pq) \in Nat
  BY <1>6, LenProperties
<1> HIDE DEF pq
<1>8. r \in Seq(Byte) /\ Len(r) = Len(pq) + w
  BY <1>3, <1>6, CarriesMore
<1>9. Len(p) = IF n = 0 THEN 0 ELSE LengthOf(seq, a, w, n)
  BY DEF w
<1>10. Len(pq) = body /\ body + w = LengthOf(seq, a, w, i) /\ (~ seq => Len(p) = (i - 1) * (a + w))
  <2>1. CASE ~ seq
    <3>1. Len(p) = n * (a + w)
      <4>1. n = 0 => n * (a + w) = 0
        BY <1>1
      <4> QED BY <2>1, <1>9, <4>1 DEF LengthOf
    <3>2. body = n * (a + w) + a /\ LengthOf(seq, a, w, i) = i * (a + w)
      BY <2>1, <1>2 DEF BodyAt, LengthOf
    <3>3. i * (a + w) = n * (a + w) + a + w /\ n * (a + w) \in Int
      <4>1. a + w \in Int
        BY <1>1
      <4> QED BY <1>1, <4>1 DEF i
    <3> HIDE DEF body
    <3> QED BY <1>1, <1>2, <1>5, <1>6, <2>1, <3>1, <3>2, <3>3
  <2>2. CASE seq /\ n = 0
    <3>1. body = a + n * w /\ LengthOf(seq, a, w, i) = a + i * w
      BY <2>2, <1>2 DEF BodyAt, LengthOf
    <3>2. n * w = 0 /\ i * w = w
      BY <2>2, <1>1 DEF i
    <3>3. Len(p) = 0 /\ Len(q) = a
      BY <1>5, <1>9, <2>2
    <3> HIDE DEF body
    <3>4. body = a /\ LengthOf(seq, a, w, i) = a + w
      BY <3>1, <3>2
    <3>5. Len(pq) = a
      BY <1>6, <3>3
    <3> QED BY <2>2, <3>4, <3>5
  <2>3. CASE seq /\ n # 0
    <3>1. body = a + n * w /\ LengthOf(seq, a, w, i) = a + i * w /\ Len(p) = a + n * w
      BY <2>3, <1>2, <1>9 DEF BodyAt, LengthOf
    <3>2. i * w = n * w + w /\ n * w \in Int
      BY <1>1 DEF i
    <3>3. Len(q) = 0
      BY <1>5, <2>3
    <3> HIDE DEF body
    <3>4. Len(pq) = body
      BY <1>6, <3>1, <3>2, <3>3
    <3>5. body + w = LengthOf(seq, a, w, i)
      BY <1>1, <3>1, <3>2
    <3> QED BY <2>3, <3>4, <3>5
  <2> QED BY <2>1, <2>2, <2>3
<1> HIDE DEF body
<1>11. HasFields(r, body, t, i)
  <2>1. HasFields(r, Len(pq), t, i)
    BY <1>2, <1>3, <1>6, HasFieldsAfter
  <2> QED BY <2>1, <1>10
<1>12. ASSUME ~ seq PROVE x < Weight(a) /\ Carries(r, (i - 1) * (a + w), address)
  <2>1. q = address /\ x < Weight(a) /\ Len(p) = (i - 1) * (a + w)
    BY <1>12, <1>10 DEF address
  <2>2. Len(q) \in Nat
    BY <1>5, LenProperties
  <2>3. Carries(r, Len(p), q)
    BY <1>3, <1>6, <2>2, CarriesMore
  <2> QED BY <2>1, <2>3
<1> HIDE DEF r
<1>13. StoredAt(r, a, seq, t, first, x, i)
  <2>1. body + w <= Len(r)
    BY <1>1, <1>7, <1>8, <1>10
  <2>2. seq => x = first + (i - 1)
    BY <1>2
  <2> QED BY <1>11, <1>12, <2>1, <2>2 DEF StoredAt, body, w, address
<1>14. Len(r) = LengthOf(seq, a, w, i) /\ Len(r) = Len(p) + Len(q) + w
  BY <1>6, <1>8, <1>10
<1> QED BY <1>3, <1>5, <1>6, <1>8, <1>13, <1>14 DEF r, pq, i, w

(* The bytes of the objects stay those of the objects when one is added.   *)
LEMMA StoredAppend ==
  ASSUME NEW t \in Types, NEW S, NEW obj \in Seq(S), NEW n, n = Len(obj), NEW a, NEW seq,
         NEW x, NEW p, n = 0 => p = <<>>, n # 0 => Stored(p, obj, a, seq, t), NEW q, NEW c,
         Appends(t, n, a, seq, IF n = 0 THEN x ELSE obj[1].ioa, x, p, q, c)
  PROVE  Stored((p \o q) \o c, Append(obj, Object(t, x, n + 1)), a, seq, t)
<1> DEFINE o == Object(t, x, n + 1)
           new == Append(obj, o)
           first == new[1].ioa
           pq == p \o q
           r == pq \o c
<1>0. /\ n \in Nat /\ a \in 1..3 /\ seq \in BOOLEAN /\ p \in Seq(Byte)
      /\ x \in Nat /\ ((seq /\ n # 0) \/ x < Weight(a))
      /\ q = IF seq /\ n # 0 THEN <<>> ELSE NumberBytes(x, a)
  BY DEF Appends, Turns
<1> USE <1>0
<1>1. n \in Nat /\ o.ioa = x
  BY DEF Object
<1> HIDE DEF o
<1>2. /\ Len(new) = n + 1 /\ new[n + 1] = o
      /\ \A i \in 1..n : new[i] = obj[i]
  OBVIOUS
<1> HIDE DEF new
<1>3. first = IF n = 0 THEN x ELSE obj[1].ioa
  <2>1. CASE n = 0
    <3>1. new[1] = o
      BY <1>2, <2>1
    <3> QED BY <1>1, <2>1, <3>1
  <2>2. CASE n # 0
    <3>1. 1 \in 1..n
      BY <1>1, <2>2
    <3>2. new[1] = obj[1]
      BY <1>2, <3>1
    <3> QED BY <2>2, <3>2
  <2> QED BY <2>1, <2>2
<1> HIDE DEF first
<1>5. Appends(t, n, a, seq, first, x, p, q, c)
  BY <1>3
<1>6. /\ pq \in Seq(Byte) /\ r \in Seq(Byte) /\ Len(r) = LengthOf(seq, a, Room(t), n + 1)
      /\ q \in Seq(Byte) /\ c \in Seq(Byte)
      /\ StoredAt(r, a, seq, t, first, x, n + 1)
  <2> HIDE DEF first
  <2>1. p \o q \in Seq(Byte) /\ (p \o q) \o c \in Seq(Byte) /\ q \in Seq(Byte) /\ c \in Seq(Byte)
    <3> HIDE <1>0
    <3> QED BY ONLY t \in Types, <1>5, StoredAtEnd, Zenon
  <2>3. Len((p \o q) \o c) = LengthOf(seq, a, Room(t), n + 1)
    <3> HIDE <1>0
    <3> QED BY ONLY t \in Types, <1>5, StoredAtEnd, SMT
  <2>2. StoredAt((p \o q) \o c, a, seq, t, first, x, n + 1)
    <3> HIDE <1>0
    <3> QED BY ONLY t \in Types, <1>5, StoredAtEnd, Zenon
  <2> QED BY <2>1, <2>2, <2>3
<1> HIDE DEF pq, r
<1>7. ASSUME NEW i \in 1..n PROVE StoredAt(r, a, seq, t, first, new[i].ioa, i)
  <2>0. n \in Turns
    BY DEF Appends
  <2>1. i \in 1..128 /\ n # 0 /\ new[i] = obj[i] /\ first = obj[1].ioa
    <3>1. i \in 1..128
      BY <2>0, Numbers
    <3>2. n # 0 /\ new[i] = obj[i]
      BY <1>1, <1>2
    <3> QED BY <1>3, <3>1, <3>2
  <2>2. StoredAt(p, a, seq, t, first, new[i].ioa, i)
    BY <2>1 DEF Stored
  <2>3. StoredAt(pq, a, seq, t, first, new[i].ioa, i)
    BY <1>6, <2>1, <2>2, StoredAtMore DEF pq
  <2> QED BY <1>6, <2>1, <2>3, StoredAtMore DEF r
<1>8. ASSUME NEW i \in 1..(n + 1)
      PROVE  new[i] = Object(t, new[i].ioa, i) /\ StoredAt(r, a, seq, t, first, new[i].ioa, i)
  <2>1. CASE i \in 1..n
    <3>1. obj[i] = Object(t, obj[i].ioa, i)
      BY <1>1, <2>1 DEF Stored
    <3> QED BY <1>2, <1>7, <2>1, <3>1
  <2>2. CASE i = n + 1
    <3>1. new[i] = o /\ new[i].ioa = x
      BY <1>1, <1>2, <2>2
    <3> QED BY <1>6, <2>2, <3>1 DEF o
  <2> QED BY <1>1, <2>1, <2>2
<1>9. ASSUME seq PROVE first < Weight(a) /\ Carries(r, 0, NumberBytes(first, a))
  <2>1. CASE n = 0
    <3>1. p = <<>> /\ Len(p) = 0 /\ q = NumberBytes(first, a) /\ first < Weight(a)
      BY <1>3, <2>1
    <3>2. Carries(pq, Len(p), q)
      BY <1>6, CarriesMore DEF pq
    <3>3. Len(q) \in Nat
      BY <1>6, LenProperties
    <3>4. Carries(r, 0, q)
      BY <1>6, <3>1, <3>2, <3>3, CarriesMore DEF r
    <3> QED BY <3>1, <3>4
  <2>2. CASE n # 0
    <3> DEFINE address == NumberBytes(first, a)
    <3>1. first = obj[1].ioa /\ first < Weight(a) /\ Carries(p, 0, address)
      BY <1>3, <1>9, <2>2 DEF Stored
    <3>2. first \in Nat
      <4>1. 1 \in 1..n
        BY <1>1, <2>2
      <4>2. StoredAt(p, a, seq, t, obj[1].ioa, obj[1].ioa, 1)
        BY <2>2, <4>1 DEF Stored
      <4> QED BY <3>1, <4>2 DEF StoredAt
    <3>3. Len(address) \in Nat
      BY <3>1, <3>2, NumberIsKept, LenProperties
    <3> HIDE DEF address
    <3>4. Carries(pq, 0, address)
      BY <1>6, <3>1, <3>3, CarriesMore DEF pq
    <3>5. Carries(r, 0, address)
      BY <1>6, <3>3, <3>4, CarriesMore DEF r
    <3> QED BY <3>1, <3>5 DEF address
  <2> QED BY <2>1, <2>2
<1>10. Stored(r, new, a, seq, t)
  BY <1>2, <1>6, <1>8, <1>9 DEF Stored, first
<1> QED BY <1>10 DEF r, pq, new, o

----------------------------------------------------------------------------
(* The header. *)

(* The parts of the byte of the cause.                                     *)
LEMMA CauseBits ==
  ASSUME NEW cot \in 0..63, NEW test \in BOOLEAN, NEW negative \in BOOLEAN,
         NEW c, c = CauseByte(cot, test, negative)
  PROVE  /\ c \in Byte /\ c % 64 = cot
         /\ HasBit(c, 128) = test /\ HasBit(c, 64) = negative
         /\ \A other \in 0..63 : 64 * (c \div 64) + (other % 64) = CauseByte(other, test, negative)
         /\ \A on \in BOOLEAN : (c % 128) + Bit(on, 128) = CauseByte(cot, on, negative)
         /\ \A on \in BOOLEAN :
              128 * (c \div 128) + (c % 64) + Bit(on, 64) = CauseByte(cot, test, on)
<1>1. CASE test /\ negative
  <2>1. c = cot + 192
    BY <1>1 DEF CauseByte, Bit
  <2>2. c % 64 = cot /\ c \div 64 = 3 /\ c % 128 = cot + 64 /\ c \div 128 = 1
    BY <2>1
  <2>3. c \in Byte
    BY <2>1 DEF Byte
  <2>4. HasBit(c, 128) = test /\ HasBit(c, 64) = negative
    <3>1. (c \div 128) % 2 = 1 /\ (c \div 64) % 2 = 1
      BY <2>2
    <3>2. HasBit(c, 128) = TRUE /\ HasBit(c, 64) = TRUE
      BY <3>1 DEF HasBit
    <3> QED BY <1>1, <3>2
  <2>5. ASSUME NEW other \in 0..63
        PROVE  64 * (c \div 64) + (other % 64) = CauseByte(other, test, negative)
    BY <1>1, <2>2 DEF CauseByte, Bit
  <2>6. ASSUME NEW on \in BOOLEAN
        PROVE  /\ (c % 128) + Bit(on, 128) = CauseByte(cot, on, negative)
               /\ 128 * (c \div 128) + (c % 64) + Bit(on, 64) = CauseByte(cot, test, on)
    BY <1>1, <2>2 DEF CauseByte, Bit
  <2> QED BY <2>2, <2>3, <2>4, <2>5, <2>6
<1>2. CASE test /\ ~ negative
  <2>1. c = cot + 128
    BY <1>2 DEF CauseByte, Bit
  <2>2. c % 64 = cot /\ c \div 64 = 2 /\ c % 128 = cot /\ c \div 128 = 1
    BY <2>1
  <2>3. c \in Byte
    BY <2>1 DEF Byte
  <2>4. HasBit(c, 128) = test /\ HasBit(c, 64) = negative
    <3>1. (c \div 128) % 2 = 1 /\ (c \div 64) % 2 = 0
      BY <2>2
    <3>2. HasBit(c, 128) = TRUE /\ HasBit(c, 64) = FALSE
      BY <3>1 DEF HasBit
    <3> QED BY <1>2, <3>2
  <2>5. ASSUME NEW other \in 0..63
        PROVE  64 * (c \div 64) + (other % 64) = CauseByte(other, test, negative)
    BY <1>2, <2>2 DEF CauseByte, Bit
  <2>6. ASSUME NEW on \in BOOLEAN
        PROVE  /\ (c % 128) + Bit(on, 128) = CauseByte(cot, on, negative)
               /\ 128 * (c \div 128) + (c % 64) + Bit(on, 64) = CauseByte(cot, test, on)
    BY <1>2, <2>2 DEF CauseByte, Bit
  <2> QED BY <2>2, <2>3, <2>4, <2>5, <2>6
<1>3. CASE ~ test /\ negative
  <2>1. c = cot + 64
    BY <1>3 DEF CauseByte, Bit
  <2>2. c % 64 = cot /\ c \div 64 = 1 /\ c % 128 = cot + 64 /\ c \div 128 = 0
    BY <2>1
  <2>3. c \in Byte
    BY <2>1 DEF Byte
  <2>4. HasBit(c, 128) = test /\ HasBit(c, 64) = negative
    <3>1. (c \div 128) % 2 = 0 /\ (c \div 64) % 2 = 1
      BY <2>2
    <3>2. HasBit(c, 128) = FALSE /\ HasBit(c, 64) = TRUE
      BY <3>1 DEF HasBit
    <3> QED BY <1>3, <3>2
  <2>5. ASSUME NEW other \in 0..63
        PROVE  64 * (c \div 64) + (other % 64) = CauseByte(other, test, negative)
    BY <1>3, <2>2 DEF CauseByte, Bit
  <2>6. ASSUME NEW on \in BOOLEAN
        PROVE  /\ (c % 128) + Bit(on, 128) = CauseByte(cot, on, negative)
               /\ 128 * (c \div 128) + (c % 64) + Bit(on, 64) = CauseByte(cot, test, on)
    BY <1>3, <2>2 DEF CauseByte, Bit
  <2> QED BY <2>2, <2>3, <2>4, <2>5, <2>6
<1>4. CASE ~ test /\ ~ negative
  <2>1. c = cot
    BY <1>4 DEF CauseByte, Bit
  <2>2. c % 64 = cot /\ c \div 64 = 0 /\ c % 128 = cot /\ c \div 128 = 0
    BY <2>1
  <2>3. c \in Byte
    BY <2>1 DEF Byte
  <2>4. HasBit(c, 128) = test /\ HasBit(c, 64) = negative
    <3>1. (c \div 128) % 2 = 0 /\ (c \div 64) % 2 = 0
      BY <2>2
    <3>2. HasBit(c, 128) = FALSE /\ HasBit(c, 64) = FALSE
      BY <3>1 DEF HasBit
    <3> QED BY <1>4, <3>2
  <2>5. ASSUME NEW other \in 0..63
        PROVE  64 * (c \div 64) + (other % 64) = CauseByte(other, test, negative)
    BY <1>4, <2>2 DEF CauseByte, Bit
  <2>6. ASSUME NEW on \in BOOLEAN
        PROVE  /\ (c % 128) + Bit(on, 128) = CauseByte(cot, on, negative)
               /\ 128 * (c \div 128) + (c % 64) + Bit(on, 64) = CauseByte(cot, test, on)
    BY <1>4, <2>2 DEF CauseByte, Bit
  <2> QED BY <2>2, <2>3, <2>4, <2>5, <2>6
<1> QED BY <1>1, <1>2, <1>3, <1>4

(* One more object is counted beside the sequence flag.                    *)
LEMMA OneMore ==
  ASSUME NEW v \in Byte, v % 128 < 127
  PROVE  v + 1 \in Byte /\ (v + 1) % 128 = (v % 128) + 1 /\ (v + 1 >= 128 <=> v >= 128)
BY DEF Byte

(* The sizes there are.                                                    *)
LEMMA SizesAre ==
  ASSUME parameters \in Parameters
  PROVE  /\ parameters.cot \in 1..2 /\ parameters.ca \in 1..2 /\ parameters.ioa \in 1..3
         /\ parameters.max \in Nat
         /\ 2 + parameters.cot + parameters.ca + parameters.ioa + 7 <= parameters.max
BY ParametersAssumption

(* The common address is what it was told to be, brought into range.       *)
LEMMA AddressIsKept ==
  ASSUME parameters \in Parameters, NEW ca \in Int
  PROVE  /\ InRange(ca) \in Nat /\ InRange(ca) < Weight(parameters.ca)
         /\ NumberBytes(InRange(ca), parameters.ca) \in [1..parameters.ca -> Byte]
         /\ NumberOf(NumberBytes(InRange(ca), parameters.ca)) = InRange(ca)
<1>1. parameters.ca \in 1..3 /\ Weight(parameters.ca) \in Nat \ {0}
  BY SizesAre, Weights
<1>2. InRange(ca) \in Nat /\ InRange(ca) < Weight(parameters.ca)
  BY <1>1 DEF InRange
<1> DEFINE b == NumberBytes(InRange(ca), parameters.ca)
<1>3. b \in Seq(Byte) /\ Len(b) = parameters.ca /\ NumberOf(b) = InRange(ca)
  BY <1>1, <1>2, NumberIsKept
<1> HIDE DEF b
<1>4. b \in [1..parameters.ca -> Byte]
  BY <1>1, <1>3
<1> QED BY <1>2, <1>3, <1>4 DEF b

(* The address at the start of the payload.                                *)
LEMMA FirstAddressIs ==
  ASSUME parameters \in Parameters, payload \in Seq(Byte), NEW x \in Nat,
         x < Weight(parameters.ioa), Carries(payload, 0, NumberBytes(x, parameters.ioa))
  PROVE  FirstAddress = x
<1> DEFINE a == parameters.ioa
           b == NumberBytes(x, a)
<1>1. a \in 1..3
  BY SizesAre
<1>2. b \in Seq(Byte) /\ Len(b) = a /\ NumberOf(b) = x
  BY <1>1, NumberIsKept
<1>3. FirstAddress = NumberOf(SubSeq(payload, 1, a))
  BY DEF FirstAddress
<1>4. Carries(payload, 0, b)
  OBVIOUS
<1> HIDE DEF a, b
<1>5. \A j \in 1..a : j <= Len(payload) /\ payload[j] = b[j]
  BY <1>1, <1>2, <1>4 DEF Carries
<1>6. a <= Len(payload) /\ Len(payload) \in Nat
  BY <1>1, <1>5, LenProperties
<1>7. SubSeq(payload, 1, a) = b
  <2> DEFINE s == SubSeq(payload, 1, a)
  <2>1. s = [j \in 1..a |-> payload[j]]
    BY <1>1, <1>6
  <2>2. b = [j \in 1..a |-> b[j]]
    BY <1>2
  <2> HIDE DEF s
  <2> QED BY <1>5, <2>1, <2>2 DEF s
<1> QED BY <1>2, <1>3, <1>7

----------------------------------------------------------------------------
(* The inductive invariant. *)

Objects == {Object(t, x, i) : t \in Types, x \in Nat, i \in 1..128}

(* Every such object is one of them.                                     *)
LEMMA ObjectIs ==
  ASSUME NEW t \in Types, NEW x \in Nat, NEW i \in 1..128
  PROVE  Object(t, x, i) \in Objects
BY DEF Objects

(* The header holds what it was told.                                      *)
HeaderHolds ==
  /\ parameters \in Parameters
  /\ head \in [type : Types \cup {"none"}, vsq : Byte, cause : Byte, oa : Byte,
               ca : [1..parameters.ca -> Byte]]
  /\ told \in [cot : 0..63, test : BOOLEAN, negative : BOOLEAN, ca : Int]
  /\ head.cause = CauseByte(told.cot, told.test, told.negative)
  /\ head.ca = NumberBytes(InRange(told.ca), parameters.ca)
  /\ answer \in BOOLEAN

(* The payload holds the objects.                                          *)
PayloadHolds ==
  /\ payload \in Seq(Byte) /\ objects \in Seq(Objects)
  /\ NumberOfElements = Len(objects)
  /\ objects = <<>> => payload = <<>>
  /\ objects # <<>> =>
       /\ head.type \in Types /\ (IsSequence => head.type \in Sequenced)
       /\ Elements[head.type].place = "alone" => Len(objects) = 1
       /\ Stored(payload, objects, parameters.ioa, IsSequence, head.type)

ASDUInv == HeaderHolds /\ PayloadHolds /\ FitsInTheASDU

(* It holds of a new ASDU.                                                 *)
LEMMA ASDUInit == Init => ASDUInv
<1> SUFFICES ASSUME Init PROVE ASDUInv
  OBVIOUS
<1>1. PICK sequence \in BOOLEAN, cot \in Causes, test \in BOOLEAN, negative \in BOOLEAN :
        /\ told = [cot |-> cot, test |-> test, negative |-> negative, ca |-> 1]
        /\ head = [type |-> "none", vsq |-> Bit(sequence, 128),
                   cause |-> CauseByte(cot, test, negative), oa |-> Originator,
                   ca |-> NumberBytes(1, parameters.ca)]
  BY DEF Init
<1>2. parameters \in Parameters /\ payload = <<>> /\ objects = <<>> /\ answer = TRUE
  BY DEF Init
<1>3. cot \in 0..63 /\ Originator \in Byte
  BY HeaderAssumption
<1>4. CauseByte(cot, test, negative) \in Byte
  BY <1>3, CauseBits
<1>5. InRange(1) = 1
  <2>1. Weight(parameters.ca) >= 256 /\ Weight(parameters.ca) \in Int
    <3>1. parameters.ca = 1 \/ parameters.ca = 2
      BY <1>2, SizesAre
    <3> QED BY <3>1, Weights
  <2> QED BY <2>1 DEF InRange
<1>6. NumberBytes(1, parameters.ca) \in [1..parameters.ca -> Byte]
  BY <1>2, <1>5, AddressIsKept
<1>7. Bit(sequence, 128) \in Byte /\ Bit(sequence, 128) % 128 = 0
  BY DEF Bit, Byte
<1>8. HeaderHolds
  BY <1>1, <1>2, <1>3, <1>4, <1>5, <1>6, <1>7 DEF HeaderHolds
<1>9. PayloadHolds
  <2>1. NumberOfElements = 0
    BY <1>1, <1>7 DEF NumberOfElements
  <2> QED BY <1>2, <2>1 DEF PayloadHolds
<1>10. FitsInTheASDU
  BY <1>2, SizesAre DEF FitsInTheASDU, HeaderLength
<1> QED BY <1>8, <1>9, <1>10 DEF ASDUInv

(* Changes of the header leave the objects alone.                          *)
LEMMA PayloadStays ==
  ASSUME ASDUInv, UNCHANGED <<parameters, payload, objects>>, head'.type = head.type,
         head'.vsq = head.vsq
  PROVE  PayloadHolds' /\ FitsInTheASDU'
<1>1. PayloadHolds /\ FitsInTheASDU
  BY DEF ASDUInv
<1>2. NumberOfElements' = NumberOfElements /\ IsSequence' = IsSequence
  BY DEF NumberOfElements, IsSequence
<1>3. FitsInTheASDU'
  BY <1>1 DEF FitsInTheASDU, HeaderLength
<1>4. Elements[head'.type] = Elements[head.type]
  OBVIOUS
<1>5. PayloadHolds'
  BY <1>1, <1>2, <1>4 DEF PayloadHolds
<1> QED BY <1>3, <1>5

(* A change of the byte with the cause, as it is told.                   *)
LEMMA SetCauseKeeps ==
  ASSUME ASDUInv, NEW cause, NEW now, SetCause(cause, now),
         now \in [cot : 0..63, test : BOOLEAN, negative : BOOLEAN, ca : Int], now.ca = told.ca,
         cause = CauseByte(now.cot, now.test, now.negative)
  PROVE  ASDUInv'
<1>1. HeaderHolds
  BY DEF ASDUInv
<1>2. /\ head' = [head EXCEPT !.cause = cause] /\ told' = now /\ answer' = TRUE
      /\ UNCHANGED <<parameters, payload, objects>>
  BY DEF SetCause
<1>3. cause \in Byte
  BY CauseBits
<1>4. head \in [type : Types \cup {"none"}, vsq : Byte, cause : Byte, oa : Byte,
                ca : [1..parameters.ca -> Byte]]
  BY <1>1 DEF HeaderHolds
<1>5. /\ head' \in [type : Types \cup {"none"}, vsq : Byte, cause : Byte, oa : Byte,
                    ca : [1..parameters.ca -> Byte]]
      /\ head'.type = head.type /\ head'.vsq = head.vsq /\ head'.cause = cause
      /\ head'.ca = head.ca
  BY <1>2, <1>3, <1>4
<1>6. InRange(told.ca)' = InRange(told.ca)
  BY <1>2 DEF InRange
<1>7. HeaderHolds'
  BY <1>1, <1>2, <1>5, <1>6 DEF HeaderHolds
<1>8. PayloadHolds' /\ FitsInTheASDU'
  BY <1>2, <1>5, PayloadStays
<1> QED BY <1>7, <1>8 DEF ASDUInv

(* The setters of the header.                                              *)
LEMMA SettersKeep ==
  ASSUME ASDUInv,
         \/ \E cot \in Causes : SetCOT(cot)
         \/ \E on \in BOOLEAN : SetTest(on)
         \/ \E on \in BOOLEAN : SetNegative(on)
         \/ \E ca \in Addresses : SetCA(ca)
  PROVE  ASDUInv'
<1>1. HeaderHolds
  BY DEF ASDUInv
<1>2. /\ told \in [cot : 0..63, test : BOOLEAN, negative : BOOLEAN, ca : Int]
      /\ told.cot \in 0..63 /\ told.test \in BOOLEAN /\ told.negative \in BOOLEAN
      /\ head.cause = CauseByte(told.cot, told.test, told.negative)
  BY <1>1 DEF HeaderHolds
<1>3. ASSUME NEW cot \in Causes, SetCOT(cot) PROVE ASDUInv'
  <2> DEFINE now == [told EXCEPT !.cot = cot]
             cause == 64 * (head.cause \div 64) + (cot % 64)
  <2>1. cot \in 0..63
    BY HeaderAssumption
  <2>2. /\ now \in [cot : 0..63, test : BOOLEAN, negative : BOOLEAN, ca : Int]
        /\ now.ca = told.ca /\ now.cot = cot /\ now.test = told.test
        /\ now.negative = told.negative
    BY <1>2, <2>1
  <2>3. cause = CauseByte(cot, told.test, told.negative)
    BY <1>2, <2>1, CauseBits, SMTT(30)
  <2>4. SetCause(cause, now)
    BY <1>3 DEF SetCOT
  <2> HIDE DEF now, cause
  <2> QED BY <2>2, <2>3, <2>4, SetCauseKeeps
<1>4. ASSUME NEW on \in BOOLEAN, SetTest(on) PROVE ASDUInv'
  <2> DEFINE now == [told EXCEPT !.test = on]
             cause == (head.cause % 128) + Bit(on, 128)
  <2>2. /\ now \in [cot : 0..63, test : BOOLEAN, negative : BOOLEAN, ca : Int]
        /\ now.ca = told.ca /\ now.cot = told.cot /\ now.test = on
        /\ now.negative = told.negative
    BY <1>2
  <2>3. cause = CauseByte(told.cot, on, told.negative)
    BY <1>2, CauseBits
  <2>4. SetCause(cause, now)
    BY <1>4 DEF SetTest
  <2> HIDE DEF now, cause
  <2> QED BY <2>2, <2>3, <2>4, SetCauseKeeps
<1>5. ASSUME NEW on \in BOOLEAN, SetNegative(on) PROVE ASDUInv'
  <2> DEFINE now == [told EXCEPT !.negative = on]
             cause == 128 * (head.cause \div 128) + (head.cause % 64) + Bit(on, 64)
  <2>2. /\ now \in [cot : 0..63, test : BOOLEAN, negative : BOOLEAN, ca : Int]
        /\ now.ca = told.ca /\ now.cot = told.cot /\ now.test = told.test
        /\ now.negative = on
    BY <1>2
  <2>3. cause = CauseByte(told.cot, told.test, on)
    BY <1>2, CauseBits
  <2>4. SetCause(cause, now)
    BY <1>5 DEF SetNegative
  <2> HIDE DEF now, cause
  <2> QED BY <2>2, <2>3, <2>4, SetCauseKeeps
<1>6. ASSUME NEW ca \in Addresses, SetCA(ca) PROVE ASDUInv'
  <2> DEFINE b == NumberBytes(InRange(ca), parameters.ca)
  <2>1. ca \in Int /\ parameters \in Parameters
    BY <1>1, HeaderAssumption DEF HeaderHolds
  <2>2. b \in [1..parameters.ca -> Byte]
    BY <2>1, AddressIsKept
  <2>3. /\ head' = [head EXCEPT !.ca = b] /\ told' = [told EXCEPT !.ca = ca] /\ answer' = TRUE
        /\ UNCHANGED <<parameters, payload, objects>>
    BY <1>6 DEF SetCA
  <2>4. NumberBytes(InRange(ca), parameters.ca)' = b
    BY <2>3 DEF InRange
  <2> HIDE DEF b
  <2>5. head \in [type : Types \cup {"none"}, vsq : Byte, cause : Byte, oa : Byte,
                  ca : [1..parameters.ca -> Byte]]
    BY <1>1 DEF HeaderHolds
  <2>6. /\ head' \in [type : Types \cup {"none"}, vsq : Byte, cause : Byte, oa : Byte,
                      ca : [1..parameters.ca -> Byte]]
        /\ head'.type = head.type /\ head'.vsq = head.vsq /\ head'.cause = head.cause
        /\ head'.ca = b
    BY <2>2, <2>3, <2>5
  <2>7. /\ told' \in [cot : 0..63, test : BOOLEAN, negative : BOOLEAN, ca : Int]
        /\ told'.cot = told.cot /\ told'.test = told.test /\ told'.negative = told.negative
        /\ told'.ca = ca
    BY <1>2, <2>1, <2>3
  <2>8. HeaderHolds'
    BY <1>1, <1>2, <2>3, <2>4, <2>6, <2>7 DEF HeaderHolds
  <2>9. PayloadHolds' /\ FitsInTheASDU'
    BY <2>3, <2>6, PayloadStays
  <2> QED BY <2>8, <2>9 DEF ASDUInv
<1> QED BY <1>3, <1>4, <1>5, <1>6

(* An ASDU that is emptied keeps its header.                               *)
LEMMA RemoveAllElementsKeeps ==
  ASSUME ASDUInv, RemoveAllElements
  PROVE  ASDUInv'
<1>1. HeaderHolds
  BY DEF ASDUInv
<1>2. /\ head' = [head EXCEPT !.vsq = Bit(IsSequence, 128)] /\ payload' = <<>>
      /\ objects' = <<>> /\ answer' = TRUE /\ UNCHANGED <<parameters, told>>
  BY DEF RemoveAllElements
<1>3. Bit(IsSequence, 128) \in Byte /\ Bit(IsSequence, 128) % 128 = 0
  BY DEF Bit, Byte
<1>4. head \in [type : Types \cup {"none"}, vsq : Byte, cause : Byte, oa : Byte,
                ca : [1..parameters.ca -> Byte]]
  BY <1>1 DEF HeaderHolds
<1>5. /\ head' \in [type : Types \cup {"none"}, vsq : Byte, cause : Byte, oa : Byte,
                    ca : [1..parameters.ca -> Byte]]
      /\ head'.vsq = Bit(IsSequence, 128) /\ head'.cause = head.cause /\ head'.ca = head.ca
  <2> DEFINE v == Bit(IsSequence, 128)
  <2>1. v \in Byte /\ head' = [head EXCEPT !.vsq = v]
    BY <1>2, <1>3
  <2> HIDE DEF v
  <2>2. /\ head' \in [type : Types \cup {"none"}, vsq : Byte, cause : Byte, oa : Byte,
                      ca : [1..parameters.ca -> Byte]]
        /\ head'.vsq = v /\ head'.cause = head.cause /\ head'.ca = head.ca
    BY <1>4, <2>1
  <2> QED BY <1>2, <2>2 DEF v
<1>6. InRange(told.ca)' = InRange(told.ca)
  BY <1>2 DEF InRange
<1>7. HeaderHolds'
  BY <1>1, <1>2, <1>5, <1>6 DEF HeaderHolds
<1>8. PayloadHolds'
  <2>1. NumberOfElements' = 0
    BY <1>3, <1>5 DEF NumberOfElements
  <2> QED BY <1>2, <2>1 DEF PayloadHolds
<1>9. FitsInTheASDU'
  <2>1. parameters \in Parameters
    BY <1>1 DEF HeaderHolds
  <2> QED BY <1>2, <2>1, SizesAre DEF FitsInTheASDU, HeaderLength
<1> QED BY <1>7, <1>8, <1>9 DEF ASDUInv

(* There are never more than the header can count.                         *)
LEMMA ObjectsAreCounted ==
  ASSUME ASDUInv
  PROVE  Len(objects) \in Turns /\ (objects = <<>> <=> Len(objects) = 0)
<1>1. head.vsq \in Byte
  BY DEF ASDUInv, HeaderHolds
<1>2. head.vsq % 128 = Len(objects) /\ objects \in Seq(Objects)
  BY DEF ASDUInv, PayloadHolds, NumberOfElements
<1>3. head.vsq % 128 \in 0..127
  BY <1>1 DEF Byte
<1>4. objects = <<>> <=> Len(objects) = 0
  BY <1>2
<1> QED BY <1>2, <1>3, <1>4 DEF Turns

(* The addresses that are offered, and the one a sequence must go on with. *)
LEMMA OfferedAre ==
  ASSUME ASDUInv, NEW x \in Offered(parameters.ioa, IsSequence, Len(objects))
  PROVE  x \in Nat /\ (~ IsSequence \/ objects = <<>> => x < Weight(parameters.ioa))
<1>1. Len(objects) \in Turns /\ (objects = <<>> => Len(objects) = 0)
  BY ObjectsAreCounted
<1>2. parameters \in Parameters
  BY DEF ASDUInv, HeaderHolds
<1>3. IsSequence \in BOOLEAN
  BY DEF IsSequence
<1> QED BY <1>1, <1>2, <1>3, OffersAssumption

(* In a sequence that has begun the address of the first object is found   *)
(* at the start.                                                           *)
LEMMA SequenceAddress ==
  ASSUME ASDUInv, IsSequence, objects # <<>>
  PROVE  FirstAddress = objects[1].ioa
<1> DEFINE x == objects[1].ioa
<1>1. HeaderHolds /\ PayloadHolds
  BY DEF ASDUInv
<1>2. parameters \in Parameters /\ payload \in Seq(Byte) /\ 1 \in 1..Len(objects)
  BY <1>1 DEF HeaderHolds, PayloadHolds
<1>3. Stored(payload, objects, parameters.ioa, TRUE, head.type)
  <2>1. IsSequence = TRUE
    BY DEF IsSequence
  <2>2. Stored(payload, objects, parameters.ioa, IsSequence, head.type)
    BY <1>1 DEF PayloadHolds
  <2> QED BY <2>1, <2>2
<1>4. x < Weight(parameters.ioa) /\ Carries(payload, 0, NumberBytes(x, parameters.ioa))
  BY <1>3 DEF Stored
<1>5. x \in Nat
  BY <1>2, <1>3 DEF Stored, StoredAt
<1> HIDE DEF x
<1>6. FirstAddress = x
  BY <1>2, <1>4, <1>5, FirstAddressIs
<1> QED BY <1>6 DEF x

(* addInformationObject, when it writes.                                   *)
LEMMA Written ==
  ASSUME ASDUInv, NEW t \in Types, NEW left,
         NEW x \in Offered(parameters.ioa, IsSequence, Len(objects)), Suits(t),
         NEW bare, bare = (IsSequence /\ objects # <<>>), Takes(Object(t, x, Len(objects) + 1)),
         HasRoom(t, bare),
         NEW q, q = IF bare THEN <<>> ELSE NumberBytes(x, parameters.ioa),
         NEW c, c = Contents(Elements[t].class, Given(t, Len(objects)), left)
  PROVE  /\ (payload \o q) \o c \in Seq(Byte)
         /\ HeaderLength + Len((payload \o q) \o c) <= parameters.max
         /\ Stored((payload \o q) \o c, Append(objects, Object(t, x, Len(objects) + 1)),
                   parameters.ioa, IsSequence, t)
<1> DEFINE n == Len(objects)
           a == parameters.ioa
           seq == IsSequence
           first == IF n = 0 THEN x ELSE objects[1].ioa
<1>0. HeaderHolds /\ PayloadHolds /\ FitsInTheASDU
  BY DEF ASDUInv
<1>1. /\ parameters \in Parameters /\ payload \in Seq(Byte) /\ objects \in Seq(Objects)
      /\ n \in Nat /\ (objects = <<>> <=> n = 0) /\ seq \in BOOLEAN /\ a \in 1..3
      /\ NumberOfElements = n
  BY <1>0, SizesAre DEF HeaderHolds, PayloadHolds, IsSequence
<1>2. t \in Types
  BY TypesAssumption
<1>3. n = 0 => payload = <<>>
  BY <1>0, <1>1 DEF PayloadHolds
<1>4. n # 0 => t = head.type /\ Stored(payload, objects, a, seq, t)
  BY <1>0, <1>1 DEF PayloadHolds, Suits
<1>5. x \in Nat /\ ((seq /\ n # 0) \/ x < Weight(a))
  BY <1>1, OfferedAre
<1>6. seq => x = first + n
  <2>1. CASE n = 0
    BY <1>5, <2>1
  <2>2. ASSUME n # 0, seq PROVE x = objects[1].ioa + n
    <3>1. Object(t, x, n + 1).ioa = FirstAddress + n
      BY <1>1, <2>2 DEF Takes
    <3>2. FirstAddress = objects[1].ioa
      BY <1>1, <2>2, SequenceAddress
    <3> QED BY <3>1, <3>2 DEF Object
  <2> QED BY <2>1, <2>2
<1>7. Len(payload) = IF n = 0 THEN 0 ELSE LengthOf(seq, a, Room(t), n)
  BY <1>1, <1>3, <1>4 DEF Stored
<1>8. q = IF seq /\ n # 0 THEN <<>> ELSE NumberBytes(x, a)
  BY <1>1
<1>9. Appends(t, n, a, seq, first, x, payload, q, c)
  <2>1. n \in Turns
    BY ObjectsAreCounted
  <2>2. \E l : c = Contents(Elements[t].class, Given(t, n), l)
    OBVIOUS
  <2> HIDE DEF first, n, a, seq
  <2> QED BY <1>1, <1>5, <1>6, <1>7, <1>8, <2>1, <2>2 DEF Appends
<1>10. /\ (payload \o q) \o c \in Seq(Byte)
       /\ Len((payload \o q) \o c) = Len(payload) + Len(q) + Room(t)
       /\ Len(q) = IF seq /\ n # 0 THEN 0 ELSE a
  <2> HIDE DEF first, n, a, seq
  <2> QED BY ONLY <1>2, <1>9, StoredAtEnd, SMT
<1>11. Stored((payload \o q) \o c, Append(objects, Object(t, x, n + 1)), a, seq, t)
  <2>1. n = Len(objects)
    OBVIOUS
  <2>2. Appends(t, n, a, seq, IF n = 0 THEN x ELSE objects[1].ioa, x, payload, q, c)
    BY <1>9
  <2>3. n # 0 => Stored(payload, objects, a, seq, t)
    BY <1>4
  <2>4. objects \in Seq(Objects)
    BY <1>1
  <2> HIDE DEF first, n, a, seq
  <2> QED BY ONLY <1>2, <1>3, <2>1, <2>2, <2>3, <2>4, StoredAppend, Zenon
<1>12. HeaderLength + Len((payload \o q) \o c) <= parameters.max
  <2> DEFINE room == Elements[t].class.room
             w == Room(t)
             before == Len(payload)
             more == Len(q)
             total == Len((payload \o q) \o c)
             max == parameters.max
             header == HeaderLength
  <2>1. /\ w \in Nat /\ room \in Int
        /\ \/ Elements[t].place \in {"indexed", "addressed"} /\ room >= w
           \/ Elements[t].place = "alone" /\ (room >= w \/ w <= 7)
    BY <1>2, SoundTypeIs
  <2>2. max \in Nat /\ header \in Nat /\ header + a + 7 <= max
    BY <1>1, SizesAre DEF HeaderLength
  <2>3. before \in Nat /\ total = before + more + w
    <3>1. before \in Nat
      BY <1>1
    <3> QED BY <3>1, <1>10, Zenon
  <2>4. more = (IF bare THEN 0 ELSE a) /\ more \in Nat
    <3>1. more = IF seq /\ n # 0 THEN 0 ELSE a
      BY <1>10
    <3>2. bare <=> (seq /\ n # 0)
      BY <1>1
    <3> HIDE DEF more, a, seq, n
    <3> QED BY <1>1, <3>1, <3>2
  <2>5. CASE room >= w
    <3>1. room # Unchecked
      BY <2>1, <2>5 DEF Unchecked
    <3>2. SpaceLeft >= room + (IF bare THEN 0 ELSE a)
      BY <3>1 DEF HasRoom
    <3>3. SpaceLeft = max - before - header
      BY DEF SpaceLeft
    <3> HIDE DEF room, a, w, before, more, total, max, header
    <3>4. max - before - header >= room + more /\ more \in Nat
      BY <2>4, <3>2, <3>3
    <3>5. w \in Nat /\ room \in Int /\ max \in Nat /\ header \in Nat
      BY <2>1, <2>2
    <3>6. header + total <= max
      BY <2>3, <2>5, <3>4, <3>5
    <3> QED BY <3>6 DEF header, total, max
  <2>6. CASE Elements[t].place = "alone" /\ w <= 7
    <3>1. n = 0
      BY <1>1, <2>6 DEF Suits
    <3>2. before = 0 /\ more = a
      BY <1>3, <3>1, <1>10
    <3> HIDE DEF room, a, w, before, more, total, max, header
    <3>3. header + total <= max
      BY <1>1, <2>1, <2>2, <2>3, <2>6, <3>2
    <3> QED BY <3>3 DEF header, total, max
  <2> QED BY <2>1, <2>5, <2>6
<1> QED BY <1>10, <1>11, <1>12

(* Whether the object is written without an address, and whether at all.   *)
Bare == IsSequence /\ objects # <<>>
Added(t, x) == Object(t, x, Len(objects) + 1)
Writes(t, x) == Takes(Added(t, x)) /\ HasRoom(t, Bare)

(* What addInformationObject does, for a sound type: it answers whether it *)
(* has written.                                                            *)
LEMMA AddedIs ==
  ASSUME ASDUInv, NEW t \in Types, NEW left,
         NEW x \in Offered(parameters.ioa, IsSequence, Len(objects)),
         AddInformationObject(t, x, left)
  PROVE  /\ Suits(t) /\ answer' = Writes(t, x) /\ UNCHANGED <<parameters, told>>
         /\ head' = [head EXCEPT !.type = IF Len(objects) = 0 THEN t ELSE @,
                                 !.vsq = IF Writes(t, x) THEN @ + 1 ELSE @]
         /\ ~ Writes(t, x) => payload' = payload /\ objects' = objects
         /\ Writes(t, x) =>
              /\ payload' = (payload \o (IF Bare THEN <<>> ELSE NumberBytes(x, parameters.ioa)))
                     \o Contents(Elements[t].class, Given(t, Len(objects)), left)
              /\ objects' = Append(objects, Added(t, x))
<1> DEFINE n == Len(objects)
           written == Writes(t, x)
           bare == Bare
<1>1. /\ NumberOfElements = n /\ n \in Nat /\ (objects = <<>> <=> n = 0)
  BY DEF ASDUInv, PayloadHolds
<1>2. Elements[t].class.answer = TRUE
  BY TypesAssumption, SoundTypeIs
<1> DEFINE object == [type |-> t, ioa |-> x, values |-> Given(t, Len(objects))]
           naked == IsSequence /\ ~ (NumberOfElements = 0)
           wrote == Takes(object) /\ HasRoom(t, naked)
<1>3. object = Added(t, x)
  <2>1. (Len(objects) + 1) - 1 = Len(objects)
    BY <1>1
  <2> QED BY <2>1 DEF Object, Added
<1>4. naked = bare
  BY <1>1 DEF Bare
<1>5. wrote = written
  <2> HIDE DEF object, naked
  <2> QED BY <1>3, <1>4 DEF Writes
<1>6. /\ Suits(t) /\ UNCHANGED <<parameters, told>>
      /\ payload' = IF ~ wrote THEN payload
                    ELSE payload \o (IF naked THEN <<>> ELSE NumberBytes(x, parameters.ioa))
                                 \o Contents(Elements[t].class, object.values, left)
      /\ answer' = (wrote /\ Elements[t].class.answer)
      /\ head' = [head EXCEPT !.type = IF NumberOfElements = 0 THEN t ELSE @,
                              !.vsq = IF wrote /\ Elements[t].class.answer THEN @ + 1 ELSE @]
      /\ objects' = IF wrote /\ Elements[t].class.answer THEN Append(objects, object) ELSE objects
  BY DEF AddInformationObject, AddressBytes
<1>7. object.values = Given(t, n)
  OBVIOUS
<1>8. written \in BOOLEAN
  BY DEF Writes
<1> HIDE DEF object, naked, wrote
<1>9. answer' = written
  BY <1>2, <1>5, <1>6, <1>8
<1>10. head' = [head EXCEPT !.type = IF n = 0 THEN t ELSE @, !.vsq = IF written THEN @ + 1 ELSE @]
  BY <1>1, <1>2, <1>5, <1>6, <1>8
<1>11. ASSUME ~ written PROVE payload' = payload /\ objects' = objects
  BY <1>5, <1>6, <1>11
<1>12. ASSUME written
       PROVE  /\ payload' = (payload \o (IF bare THEN <<>> ELSE NumberBytes(x, parameters.ioa)))
                              \o Contents(Elements[t].class, Given(t, n), left)
              /\ objects' = Append(objects, Added(t, x))
  BY <1>2, <1>3, <1>4, <1>5, <1>6, <1>7, <1>12
<1> QED BY <1>6, <1>9, <1>10, <1>11, <1>12

(* addInformationObject keeps the invariant.                               *)
LEMMA AddInformationObjectKeeps ==
  ASSUME ASDUInv, NEW t \in Types, NEW left,
         NEW x \in Offered(parameters.ioa, IsSequence, Len(objects)),
         AddInformationObject(t, x, left)
  PROVE  ASDUInv'
<1> DEFINE n == Len(objects)
           o == Added(t, x)
           written == Writes(t, x)
           q == IF Bare THEN <<>> ELSE NumberBytes(x, parameters.ioa)
           c == Contents(Elements[t].class, Given(t, n), left)
           Heads == [type : Types \cup {"none"}, vsq : Byte, cause : Byte, oa : Byte,
                     ca : [1..parameters.ca -> Byte]]
<1>1. HeaderHolds /\ PayloadHolds /\ FitsInTheASDU
  BY DEF ASDUInv
<1>2. /\ Suits(t) /\ answer' = written /\ UNCHANGED <<parameters, told>>
      /\ head' = [head EXCEPT !.type = IF n = 0 THEN t ELSE @,
                              !.vsq = IF written THEN @ + 1 ELSE @]
      /\ ~ written => payload' = payload /\ objects' = objects
      /\ written => payload' = (payload \o q) \o c /\ objects' = Append(objects, o)
  BY AddedIs
<1>3. /\ n \in Nat /\ (objects = <<>> <=> n = 0) /\ NumberOfElements = n
      /\ objects \in Seq(Objects) /\ payload \in Seq(Byte) /\ head.vsq \in Byte
  BY <1>1 DEF PayloadHolds, HeaderHolds
<1>4. written \in BOOLEAN
  BY DEF Writes
<1>5. written => head.vsq % 128 < 127
  <2>1. Takes(o) => NumberOfElements = 0 \/ NumberOfElements < 127
    BY DEF Takes
  <2> QED BY <1>3, <2>1 DEF NumberOfElements, Writes
<1>6. ASSUME written
      PROVE  /\ (payload \o q) \o c \in Seq(Byte)
             /\ HeaderLength + Len((payload \o q) \o c) <= parameters.max
             /\ Stored((payload \o q) \o c, Append(objects, o), parameters.ioa, IsSequence, t)
  BY <1>2, <1>6, Written DEF Writes, Bare, Added
<1>7. o \in Objects
  <2>1. x \in Nat
    BY OfferedAre
  <2>2. Len(objects) + 1 \in 1..128
    BY ObjectsAreCounted, Numbers
  <2>3. o = Object(t, x, Len(objects) + 1)
    BY Zenon DEF Added
  <2> HIDE DEF o
  <2> QED BY <2>1, <2>2, <2>3, ObjectIs
<1>8. objects' \in Seq(Objects) /\ Len(objects') = (IF written THEN n + 1 ELSE n)
  <2>1. Append(objects, o) \in Seq(Objects) /\ Len(Append(objects, o)) = n + 1
    <3> HIDE DEF o
    <3> QED BY <1>3, <1>7
  <2> HIDE DEF written, o
  <2> QED BY <1>2, <1>3, <1>4, <2>1
<1>9. head \in Heads
  BY <1>1 DEF HeaderHolds
<1> HIDE DEF o, written, q, c, n
<1>10. /\ head' \in Heads /\ head'.type = (IF n = 0 THEN t ELSE head.type)
       /\ head'.vsq = (IF written THEN head.vsq + 1 ELSE head.vsq)
       /\ head'.cause = head.cause /\ head'.ca = head.ca
  <2> DEFINE v == IF written THEN head.vsq + 1 ELSE head.vsq
             type == IF n = 0 THEN t ELSE head.type
  <2>1. v \in Byte /\ type \in Types \cup {"none"}
    BY <1>3, <1>4, <1>5, <1>9, OneMore
  <2>2. head' = [head EXCEPT !.type = type, !.vsq = v]
    BY <1>2
  <2> HIDE DEF v, type
  <2>3. /\ head' \in Heads /\ head'.type = type /\ head'.vsq = v
        /\ head'.cause = head.cause /\ head'.ca = head.ca
    BY <1>9, <2>1, <2>2
  <2> QED BY <2>3 DEF v, type
<1>11. NumberOfElements' = Len(objects') /\ IsSequence' = IsSequence
  <2>1. CASE written
    <3>1. head'.vsq = head.vsq + 1 /\ Len(objects') = n + 1
      BY <1>8, <1>10, <2>1
    <3> QED BY <1>3, <1>5, <2>1, <3>1, OneMore DEF NumberOfElements, IsSequence
  <2>2. CASE ~ written
    <3>1. head'.vsq = head.vsq /\ Len(objects') = n
      BY <1>8, <1>10, <2>2
    <3> QED BY <1>3, <3>1 DEF NumberOfElements, IsSequence
  <2> QED BY <2>1, <2>2
<1>12. InRange(told.ca)' = InRange(told.ca) /\ HeaderLength' = HeaderLength
  BY <1>2 DEF InRange, HeaderLength
<1>13. HeaderHolds'
  BY <1>1, <1>2, <1>4, <1>10, <1>12 DEF HeaderHolds
<1>14. payload' \in Seq(Byte) /\ FitsInTheASDU'
  <2>1. CASE written
    BY <1>2, <1>6, <1>12, <2>1 DEF FitsInTheASDU
  <2>2. CASE ~ written
    BY <1>1, <1>2, <1>3, <1>12, <2>2 DEF FitsInTheASDU
  <2> QED BY <2>1, <2>2
<1>15. objects' = <<>> => payload' = <<>>
  <2>1. ASSUME objects' = <<>> PROVE payload' = <<>>
    <3>1. Len(objects') = 0
      BY <2>1
    <3>2. ~ written /\ n = 0
      <4>1. ASSUME written PROVE FALSE
        BY <1>3, <1>8, <3>1, <4>1
      <4> QED BY <1>8, <3>1, <4>1
    <3> QED BY <1>1, <1>2, <1>3, <3>2 DEF PayloadHolds
  <2> QED BY <2>1
<1>16. ASSUME objects' # <<>>
       PROVE  /\ head'.type \in Types /\ (IsSequence' => head'.type \in Sequenced)
              /\ Elements[head'.type].place = "alone" => Len(objects') = 1
              /\ Stored(payload', objects', parameters'.ioa, IsSequence', head'.type)
  <2>1. CASE written
    <3>1. head'.type = t
      BY <1>2, <1>3, <1>10 DEF Suits
    <3>2. IsSequence => t \in Sequenced
      BY <1>2 DEF Suits
    <3>3. Elements[t].place = "alone" => Len(objects') = 1
      <4>1. Elements[t].place = "alone" => n = 0
        BY <1>2, <1>3 DEF Suits
      <4> QED BY <1>8, <2>1, <4>1
    <3>4. Stored(payload', objects', parameters.ioa, IsSequence, t)
      BY <1>2, <1>6, <2>1
    <3> QED BY <1>2, <1>11, <3>1, <3>2, <3>3, <3>4
  <2>2. CASE ~ written
    <3>1. objects' = objects /\ payload' = payload /\ objects # <<>> /\ n # 0
      BY <1>2, <1>3, <1>16, <2>2
    <3>2. head'.type = head.type
      BY <1>10, <3>1
    <3> QED BY <1>1, <1>2, <1>11, <3>1, <3>2 DEF PayloadHolds
  <2> QED BY <2>1, <2>2
<1>17. PayloadHolds'
  BY <1>8, <1>11, <1>14, <1>15, <1>16 DEF PayloadHolds
<1> QED BY <1>13, <1>14, <1>17 DEF ASDUInv

(* The invariant is inductive.                                             *)
LEMMA ASDUStep == ASDUInv /\ [Next]_vars => ASDUInv'
<1> SUFFICES ASSUME ASDUInv, [Next]_vars PROVE ASDUInv'
  OBVIOUS
<1>1. CASE \E t \in Types, x \in Offered(parameters.ioa, IsSequence, Len(objects)), left \in 0..1 :
             AddInformationObject(t, x, Given(t, left))
  BY <1>1, AddInformationObjectKeeps
<1>2. CASE RemoveAllElements
  BY <1>2, RemoveAllElementsKeeps
<1>3. CASE \/ \E cot \in Causes : SetCOT(cot)
           \/ \E on \in BOOLEAN : SetTest(on)
           \/ \E on \in BOOLEAN : SetNegative(on)
           \/ \E ca \in Addresses : SetCA(ca)
  BY <1>3, SettersKeep
<1>4. CASE UNCHANGED vars
  BY <1>4 DEF vars, ASDUInv, HeaderHolds, PayloadHolds, FitsInTheASDU, NumberOfElements,
              IsSequence, HeaderLength, InRange
<1> QED BY <1>1, <1>2, <1>3, <1>4 DEF Next

(* In every state header and payload hold what they were told and given. *)
THEOREM ASDUInvariant == Spec => []ASDUInv
<1>1. Init => ASDUInv
  BY ASDUInit
<1>2. ASDUInv /\ [Next]_vars => ASDUInv'
  BY ASDUStep
<1> QED BY <1>1, <1>2, PTL DEF Spec

(* The ASDU is made of bytes, and its header has the parts it should       *)
(* (TypeOK).                                                               *)
THEOREM BytesStayBytes == Spec => []TypeOK
<1>1. ASDUInv => TypeOK
  <2> SUFFICES ASSUME ASDUInv PROVE TypeOK
    OBVIOUS
  <2>1. HeaderHolds /\ payload \in Seq(Byte)
    BY DEF ASDUInv, PayloadHolds
  <2>2. head \in [type : Types \cup {"none"}, vsq : Byte, cause : Byte, oa : Byte,
                  ca : [1..parameters.ca -> Byte]]
    BY <2>1 DEF HeaderHolds
  <2>3. head.vsq \in Byte /\ head.cause \in Byte /\ head.oa \in Byte
        /\ head.ca \in [1..parameters.ca -> Byte]
    BY <2>2
  <2> QED BY <2>1, <2>3 DEF TypeOK, HeaderHolds
<1> QED BY <1>1, ASDUInvariant, PTL

(* Whatever objects of whatever sound types are added, in a sequence or    *)
(* not, the ASDU never grows past the longest the parameters allow         *)
(* (FitsInTheASDU).                                                        *)
THEOREM NeverTooLong == Spec => []FitsInTheASDU
<1>1. ASDUInv => FitsInTheASDU
  BY DEF ASDUInv
<1> QED BY <1>1, ASDUInvariant, PTL

(* An object that is refused leaves the payload as it was, for every sound *)
(* type (RefusedLeavesNoTrace).                                            *)
THEOREM RefusalIsClean == Spec => RefusedLeavesNoTrace
<1>1. ASDUInv /\ [Next]_vars => [~ answer' => payload' = payload]_vars
  <2> SUFFICES ASSUME ASDUInv, Next, ~ answer' PROVE payload' = payload
    BY DEF vars
  <2>1. ASSUME NEW t \in Types, NEW left,
         NEW x \in Offered(parameters.ioa, IsSequence, Len(objects)),
               AddInformationObject(t, x, left)
        PROVE  payload' = payload
    BY <2>1, AddedIs
  <2>2. ~ RemoveAllElements
    BY DEF RemoveAllElements
  <2>3. \A cause, now : ~ SetCause(cause, now)
    BY DEF SetCause
  <2>4. \A ca : ~ SetCA(ca)
    BY DEF SetCA
  <2>5. \A cot : ~ SetCOT(cot)
    BY <2>3 DEF SetCOT
  <2>6. \A on : ~ SetTest(on) /\ ~ SetNegative(on)
    BY <2>3 DEF SetTest, SetNegative
  <2> QED BY <2>1, <2>2, <2>4, <2>5, <2>6 DEF Next
<1> QED BY <1>1, ASDUInvariant, PTL DEF Spec, RefusedLeavesNoTrace

(* The header answers what it was told (HeaderAnswers).                    *)
LEMMA HeaderIsKept == ASSUME ASDUInv PROVE HeaderAnswers
<1>1. /\ parameters \in Parameters
      /\ told \in [cot : 0..63, test : BOOLEAN, negative : BOOLEAN, ca : Int]
      /\ head.cause = CauseByte(told.cot, told.test, told.negative)
      /\ head.ca = NumberBytes(InRange(told.ca), parameters.ca)
  BY DEF ASDUInv, HeaderHolds
<1>2. told.cot \in 0..63 /\ told.test \in BOOLEAN /\ told.negative \in BOOLEAN /\ told.ca \in Int
  BY <1>1
<1>3. GetCOT = told.cot /\ IsTest = told.test /\ IsNegative = told.negative
  BY <1>1, <1>2, CauseBits DEF GetCOT, IsTest, IsNegative
<1>4. GetCA = InRange(told.ca)
  BY <1>1, <1>2, AddressIsKept DEF GetCA
<1> QED BY <1>3, <1>4 DEF HeaderAnswers

(* The values of an object, from where its fields are.                     *)
ValuesFrom(layout, at) ==
  [k \in 1..Len(layout.fields) |->
     Decoded(layout.fields[k], BytesAt(at + layout.at[k], layout.fields[k].size))]

LEMMA ValuesAreRead ==
  ASSUME NEW t \in Types, NEW i \in 1..128, NEW at \in Nat, payload \in Seq(Byte),
         HasFields(payload, at, t, i)
  PROVE  ValuesFrom(Elements[t].class, at) = Given(t, i - 1)
<1> DEFINE layout == Elements[t].class
<1>1. ASSUME NEW k \in 1..Len(layout.fields)
      PROVE  Decoded(layout.fields[k], BytesAt(at + layout.at[k], layout.fields[k].size))
               = Given(t, i - 1)[k]
  <2> DEFINE f == layout.fields[k]
             v == Given(t, i - 1)[k]
             part == Encoded(f, v)
             place == at + layout.at[k]
  <2>1. i - 1 \in Turns
    BY DEF Turns
  <2>2. part \in Seq(Byte) /\ Len(part) = f.size /\ Decoded(f, part) = v
    BY <2>1, FieldBytes
  <2>3. Carries(payload, place, part)
    BY DEF HasFields
  <2> HIDE DEF part, place, v, f
  <2>4. BytesAt(place, Len(part)) = part
    BY <2>2, <2>3, CarriedIsRead
  <2>5. Decoded(f, BytesAt(place, f.size)) = v
    BY <2>2, <2>4
  <2> QED BY <2>5 DEF place, v, f
<1>2. Given(t, i - 1) = [k \in 1..Len(layout.fields) |-> Given(t, i - 1)[k]]
  <2>1. i - 1 \in Turns
    BY DEF Turns
  <2> QED BY <2>1, ObjectsAssumption
<1> HIDE DEF layout
<1> QED BY <1>1, <1>2 DEF ValuesFrom, layout

(* What getElement returns for an index is the object that was added then. *)
LEMMA ElementIsRead ==
  ASSUME ASDUInv, NEW i \in 1..Len(objects)
  PROVE  GetElement(i - 1) = objects[i]
<1> DEFINE t == head.type
           element == Elements[t]
           layout == element.class
           a == parameters.ioa
           seq == IsSequence
           w == Room(t)
           x == objects[i].ioa
           index == i - 1
           start == ElementStart(element, index)
           bare == element.place = "indexed" /\ seq
           body == IF bare THEN start ELSE start + a
           place == BodyAt(seq, a, w, i)
<1>1. /\ parameters \in Parameters /\ a \in 1..3
      /\ payload \in Seq(Byte) /\ objects \in Seq(Objects) /\ objects # <<>>
      /\ t \in Types /\ (seq => t \in Sequenced) /\ (element.place = "alone" => Len(objects) = 1)
      /\ Stored(payload, objects, a, seq, t) /\ seq \in BOOLEAN
  <2>1. parameters \in Parameters
    BY DEF ASDUInv, HeaderHolds
  <2>2. objects \in Seq(Objects) /\ objects # <<>>
    BY DEF ASDUInv, PayloadHolds
  <2> QED BY <2>1, <2>2, SizesAre DEF ASDUInv, PayloadHolds, IsSequence
<1>2. /\ t \in Types /\ i \in 1..128 /\ index \in Nat
      /\ seq => element.place = "indexed" /\ layout.needs = Unchecked
  <2>1. Len(objects) \in Turns
    BY ObjectsAreCounted
  <2>2. i \in 1..128 /\ index \in Nat
    BY <2>1, Numbers
  <2>3. ASSUME seq PROVE element.place = "indexed" /\ layout.needs = Unchecked
    <3>1. t \in SoundInSequence
      BY <1>1, <2>3, TypesAssumption
    <3> QED BY <3>1 DEF SoundInSequence
  <2> QED BY <1>1, <2>2, <2>3
<1>3. /\ w \in Nat /\ layout.needs \in Int /\ layout.needs <= w
      /\ \/ element.place \in {"indexed", "addressed"} /\ element.size = w
         \/ element.place = "alone"
  BY <1>2, SoundTypeIs
<1>4. objects[i] = Object(t, x, i) /\ StoredAt(payload, a, seq, t, objects[1].ioa, x, i)
  BY <1>1 DEF Stored
<1>5. /\ x \in Nat /\ place + w <= Len(payload) /\ (seq => x = objects[1].ioa + (i - 1))
      /\ ~ seq => x < Weight(a) /\ Carries(payload, (i - 1) * (a + w), NumberBytes(x, a))
      /\ HasFields(payload, place, t, i)
  BY <1>4 DEF StoredAt
<1>6. index * w \in Nat /\ index * (a + w) \in Nat
  <2>1. index \in Nat /\ w \in Nat /\ a + w \in Nat
    BY <1>1, <1>2, <1>3
  <2>2. \A m, k \in Nat : m * k \in Nat
    OBVIOUS
  <2> HIDE DEF index, w, a
  <2> QED BY ONLY <2>1, <2>2
<1>7. /\ bare <=> seq
      /\ seq => start = a + index * w
      /\ ~ seq => start = index * (a + w)
  <2>1. bare <=> seq
    BY <1>2
  <2>2. ASSUME seq PROVE start = a + index * w
    <3>1. element.place = "indexed" /\ element.size = w /\ element.place # "alone"
      BY <1>2, <1>3, <2>2
    <3> HIDE DEF element, w
    <3> QED BY <2>2, <3>1 DEF ElementStart
  <2>3. ASSUME ~ seq PROVE start = index * (a + w)
    <3>1. CASE element.place = "alone"
      <4>0. Len(objects) = 1
        BY <1>1, <3>1, Zenon
      <4>1. index = 0
        BY <4>0
      <4>2. start = 0
        BY <3>1 DEF ElementStart
      <4>3. 0 * (a + w) = 0
        BY <1>1, <1>3
      <4> HIDE DEF start, index, w
      <4> QED BY <4>1, <4>2, <4>3
    <3>2. CASE element.place # "alone"
      <4>1. element.size = w
        BY <1>3, <3>2
      <4> HIDE DEF element, w
      <4> QED BY <2>3, <3>2, <4>1 DEF ElementStart
    <3> QED BY <3>1, <3>2
  <2> HIDE DEF bare, start
  <2> QED BY <2>1, <2>2, <2>3
<1>8. body = place /\ place \in Nat
  <2> HIDE DEF start, bare, w, index
  <2>1. CASE seq
    BY <1>1, <1>6, <1>7, <2>1 DEF BodyAt, index
  <2>2. CASE ~ seq
    BY <1>1, <1>6, <1>7, <2>2 DEF BodyAt, index
  <2> QED BY <2>1, <2>2
<1>9. ~ (layout.needs # Unchecked /\ Len(payload) - start < a + layout.needs)
  <2>1. ASSUME layout.needs # Unchecked PROVE ~ (Len(payload) - start < a + layout.needs)
    <3>1. ~ seq /\ start = index * (a + w) /\ place = start + a
      <4>1. ~ seq
        BY <1>2, <2>1
      <4> HIDE DEF start, bare, place
      <4> QED BY <1>7, <1>8, <4>1
    <3>2. Len(payload) \in Nat /\ a \in Nat
      BY <1>1
    <3> HIDE DEF start, place, w, layout, a, index
    <3>3. start \in Nat /\ start + a + w <= Len(payload)
      BY <1>5, <1>6, <3>1
    <3> QED BY <1>3, <3>2, <3>3
  <2> QED BY <2>1
<1>10. ValuesFrom(layout, body) = Given(t, i - 1)
  <2> HIDE DEF place, body
  <2>1. ValuesFrom(Elements[t].class, place) = Given(t, i - 1)
    <3>1. t \in Types /\ i \in 1..128 /\ place \in Nat /\ payload \in Seq(Byte)
      BY <1>1, <1>2, <1>8
    <3>2. HasFields(payload, place, t, i)
      BY <1>5
    <3> HIDE DEF t, place
    <3> QED BY ONLY <3>1, <3>2, ValuesAreRead
  <2> QED BY <1>8, <2>1
<1>11. (IF bare THEN FirstAddress + index ELSE NumberOf(BytesAt(start, a))) = x
  <2>1. CASE seq
    <3>1. FirstAddress = objects[1].ioa
      BY <1>1, <2>1, SequenceAddress
    <3> QED BY <1>5, <1>7, <2>1, <3>1
  <2>2. CASE ~ seq
    <3> DEFINE b == NumberBytes(x, a)
    <3>1. b \in Seq(Byte) /\ Len(b) = a /\ NumberOf(b) = x
      BY <1>1, <1>5, <2>2, NumberIsKept
    <3>2. Carries(payload, start, b)
      BY <1>5, <1>7, <2>2
    <3> HIDE DEF b, start
    <3>3. BytesAt(start, a) = b
      BY <1>1, <3>1, <3>2, CarriedIsRead
    <3> QED BY <1>7, <2>2, <3>1, <3>3
  <2> QED BY <2>1, <2>2
<1>12. GetElement(index) =
         IF layout.needs # Unchecked /\ Len(payload) - start < a + layout.needs
         THEN IF bare THEN Crashed ELSE NoElement
         ELSE [type |-> t, ioa |-> IF bare THEN FirstAddress + index ELSE NumberOf(BytesAt(start, a)),
               values |-> ValuesFrom(layout, body)]
  BY DEF GetElement, ValuesFrom
<1>13. objects[i] = [type |-> t, ioa |-> x, values |-> Given(t, i - 1)]
  BY <1>4 DEF Object
<1> HIDE DEF t, layout, element, a, seq, w, x, start, bare, body, place
<1>14. GetElement(index) = [type |-> t, ioa |-> x, values |-> Given(t, i - 1)]
  BY <1>9, <1>10, <1>11, <1>12
<1> QED BY <1>13, <1>14

(* What was added is what is read: every object at its place, with its     *)
(* type, its address and its fields, and the header (AddedIsRead).         *)
THEOREM WhatIsAddedIsRead == Spec => []AddedIsRead
<1>1. ASDUInv => AddedIsRead
  <2> SUFFICES ASSUME ASDUInv PROVE AddedIsRead
    OBVIOUS
  <2>1. NumberOfElements = Len(objects)
    BY DEF ASDUInv, PayloadHolds
  <2>2. \A i \in 1..Len(objects) : GetElement(i - 1) = objects[i]
    BY ElementIsRead
  <2>3. HeaderAnswers
    BY HeaderIsKept
  <2> QED BY <2>1, <2>2, <2>3 DEF AddedIsRead
<1> QED BY <1>1, ASDUInvariant, PTL
=============================================================================
