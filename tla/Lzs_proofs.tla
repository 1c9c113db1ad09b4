----------------------------- MODULE Lzs_proofs -----------------------------
(***************************************************************************)
(* For every size of a byte and every compressed file: that Lzs never      *)
(* writes or reads outside the output buffer, and that it puts out, byte   *)
(* by byte, what a decoder with a window puts out (RingWindow).            *)
(***************************************************************************)
EXTENDS Lzs, Induction_proofs

\* The sizes that follow from the nibble: the buffer grows by at least one byte.
LEMMA Sizes ==
  /\ Nibble \in Nat /\ Nibble >= 2 /\ ControlBits \in Nat \ {0}
  /\ BufferStep \in Nat /\ BufferStep > 0
  /\ WindowSize \in Nat /\ WindowSize > 0
  /\ MaxLength \in Nat /\ MaxLength >= 4
  /\ 0 \in Byte
<1>1. Nibble \in Nat /\ Nibble >= 2 /\ ControlBits \in Nat \ {0}
  BY LzsAssumption
<1>2. Nibble * Nibble \in Nat /\ Nibble * Nibble > 0
  BY <1>1, SMT
<1>3. Nibble * Nibble * Nibble \in Nat /\ Nibble * Nibble * Nibble > 0
  <2> DEFINE square == Nibble * Nibble
  <2>1. square \in Nat /\ square > 0
    BY <1>2
  <2> HIDE DEF square
  <2>2. square * Nibble \in Nat /\ square * Nibble > 0
    BY <1>1, <2>1, SMT
  <2> QED BY <2>2 DEF square
<1> QED BY <1>1, <1>2, <1>3 DEF BufferStep, WindowSize, MaxLength, Byte

\* Rounding up to a multiple of the step never gives nothing.
LEMMA RoundedUp ==
  ASSUME NEW n \in Nat, NEW step \in Nat \ {0}, n >= step
  PROVE  (n \div step) * step \in Nat /\ (n \div step) * step > 0
<1> DEFINE q == n \div step
<1>1. q \in Int /\ n = step * q + (n % step) /\ n % step \in 0 .. step - 1
  BY SMT
<1>2. q > 0
  <2>1. SUFFICES ASSUME q <= 0 PROVE FALSE
    BY <1>1
  <2>2. step * q <= 0
    BY <1>1, <2>1, SMT
  <2> QED BY <1>1, <2>2
<1> HIDE DEF q
<1>3. q * step \in Nat /\ q * step > 0
  BY <1>1, <1>2, SMT
<1> QED BY <1>3 DEF q

\* Half a byte is a byte.
LEMMA Halved ==
  ASSUME NEW b \in Byte
  PROVE  b \div 2 \in Byte
<1>1. Nibble * Nibble \in Nat
  BY Sizes DEF BufferStep
<1> QED BY <1>1, SMT DEF Byte

\* A reference is not longer than MaxLength, and begins no later than the output ends.
LEMMA Lengths ==
  ASSUME NEW b \in Byte
  PROVE  ReferenceLength(b) \in 1 .. MaxLength
<1>1. b \in Nat
  BY DEF Byte
<1>2. (b % Nibble) \in 0 .. Nibble - 1
  BY <1>1, Sizes, SMT
<1> QED BY <1>2, Sizes, SMT DEF ReferenceLength, MinLength, MaxLength

LEMMA References ==
  ASSUME NEW a \in Byte, NEW b \in Byte, NEW offset \in Nat
  PROVE  /\ RealOffset(offset, ReferenceOffset(a, b)) \in Int
         /\ RealOffset(offset, ReferenceOffset(a, b)) <= offset
<1> DEFINE reference == ReferenceOffset(a, b)
<1>1. reference \in Int
  <2>1. b \div Nibble \in Int
    BY Sizes, SMT DEF Byte
  <2>2. (b \div Nibble) * Nibble \in Int
    BY <2>1, Sizes, SMT
  <2>3. (b \div Nibble) * Nibble * Nibble \in Int
    BY <2>2, Sizes, SMT
  <2> QED BY <2>3 DEF ReferenceOffset, Byte
<1> HIDE DEF reference
<1>2. (offset - MaxLength - reference) % WindowSize \in 0 .. WindowSize - 1
  BY <1>1, Sizes, SMT
<1>3. RealOffset(offset, reference) \in Int /\ RealOffset(offset, reference) <= offset
  BY <1>2, Sizes, SMT DEF RealOffset
<1> QED BY <1>3 DEF reference

\* Writing a byte leaves the buffer with room for the next one.
LEMMA Written ==
  ASSUME extract_size \in Nat, output_offset \in Nat, output_offset < extract_size,
         extract_buffer \in [0 .. extract_size - 1 -> Byte],
         NEW byte \in Byte, Write(byte)
  PROVE  /\ extract_size' \in Nat /\ output_offset' \in Nat
         /\ output_offset' = output_offset + 1 /\ output_offset' < extract_size'
         /\ extract_buffer' \in [0 .. extract_size' - 1 -> Byte]
<1> DEFINE written == [extract_buffer EXCEPT ![output_offset] = byte]
<1>1. written \in [0 .. extract_size - 1 -> Byte]
  OBVIOUS
<1>2. BufferStep \in Nat /\ BufferStep > 0 /\ 0 \in Byte
  BY Sizes
<1>3. Grown(written, extract_size) \in [0 .. extract_size + BufferStep - 1 -> Byte]
  <2> SUFFICES ASSUME NEW i \in 0 .. extract_size + BufferStep - 1
               PROVE  (IF i < extract_size THEN written[i] ELSE 0) \in Byte
    BY DEF Grown
  <2>1. CASE i < extract_size
    <3>1. i \in 0 .. extract_size - 1
      BY <1>2, <2>1
    <3> HIDE DEF written
    <3> QED BY <1>1, <2>1, <3>1
  <2>2. CASE ~(i < extract_size)
    BY <1>2, <2>2
  <2> QED BY <2>1, <2>2
<1> HIDE DEF written
<1>4. output_offset' = output_offset + 1
  BY DEF Write
<1>5. CASE Full(output_offset + 1, extract_size)
  <2>1. extract_size' = extract_size + BufferStep /\ extract_buffer' = Grown(written, extract_size)
    BY <1>5 DEF Write, written
  <2> QED BY <1>2, <1>3, <1>4, <1>5, <2>1 DEF Full
<1>6. CASE ~Full(output_offset + 1, extract_size)
  <2>1. extract_size' = extract_size /\ extract_buffer' = written
    BY <1>6 DEF Write, written
  <2> QED BY <1>1, <1>4, <1>6, <2>1 DEF Full
<1> QED BY <1>5, <1>6
-----------------------------------------------------------------------------
\* Nothing has been put out before the buffer is made.
NothingYet == phase = "start" => output_offset = 0
LzsInv == LzsTypeOK /\ NothingYet

\* What is said of the file is true of it as long as it is the same.
LEMMA SameFile ==
  ASSUME LzsInv, file' = file
  PROVE  /\ (file.declared \in Nat /\ file.data \in Seq(Byte))'
         /\ InputSize' = InputSize
BY DEF LzsInv, LzsTypeOK, InputSize

LEMMA LzsInitInv == LzsInit => LzsInv
<1> SUFFICES ASSUME LzsInit PROVE LzsInv
  OBVIOUS
<1>1. Len(file.data) \in Nat /\ file.declared \in Nat /\ file.data \in Seq(Byte)
  BY LzsAssumption DEF LzsInit
<1>2. extract_buffer \in [0 .. extract_size - 1 -> Byte]
  BY Sizes DEF LzsInit, Zeros
<1> QED BY <1>1, <1>2, Sizes DEF LzsInit, LzsInv, LzsTypeOK, NothingYet, InputSize

LEMMA StartInv ==
  ASSUME LzsInv, Start
  PROVE  LzsInv'
<1>1. InputSize \in Nat /\ output_offset = 0 /\ 0 \in Byte
  BY Sizes DEF LzsInv, LzsTypeOK, NothingYet, Start, InputSize
<1>2. CASE file.declared # InputSize
  BY <1>1, <1>2 DEF LzsInv, LzsTypeOK, NothingYet, Start, InputSize
<1>3. CASE file.declared = InputSize
  <2> DEFINE size == ((InputSize + 4 + BufferStep - 1) \div BufferStep) * BufferStep
  <2>1. size \in Nat /\ size > 0
    <3>1. BufferStep \in Nat \ {0} /\ InputSize + 4 + BufferStep - 1 \in Nat
          /\ InputSize + 4 + BufferStep - 1 >= BufferStep
      BY <1>1, Sizes
    <3> QED BY <3>1, RoundedUp
  <2>2. extract_size' = size /\ extract_buffer' = Zeros(size)
    BY <1>3 DEF Start
  <2> HIDE DEF size
  <2>3. extract_buffer' \in [0 .. extract_size' - 1 -> Byte]
    BY <1>1, <2>2 DEF Zeros
  <2> QED BY <1>1, <1>3, <2>1, <2>2, <2>3
          DEF LzsInv, LzsTypeOK, NothingYet, Start, InputSize
<1> QED BY <1>2, <1>3

\* The control byte, and where the item behind it is.
LEMMA Controls ==
  ASSUME LzsInv, input_offset <= InputSize
  PROVE  /\ Control \div 2 \in Byte /\ BitsLeft - 1 \in 0 .. ControlBits
         /\ Control \in Int /\ ItemOffset \in 1 .. InputSize + 1 /\ InputSize \in Nat
         /\ \A i \in 1 .. InputSize : file.data[i] \in Byte
<1>1. InputSize \in Nat /\ input_offset \in 1 .. InputSize
      /\ \A i \in 1 .. InputSize : file.data[i] \in Byte
  BY DEF LzsInv, LzsTypeOK, InputSize
<1>2. Control \in Byte
  BY <1>1 DEF LzsInv, LzsTypeOK, Control
<1>3. Control \in Int
  BY <1>2 DEF Byte
<1>4. BitsLeft - 1 \in 0 .. ControlBits
  BY Sizes DEF LzsInv, LzsTypeOK, BitsLeft, NewControl
<1> QED BY <1>1, <1>2, <1>3, <1>4, Halved DEF ItemOffset, NewControl

LEMMA ReadItemInv ==
  ASSUME LzsInv, ReadItem
  PROVE  LzsInv'
<1>1. input_offset <= InputSize /\ file' = file /\ phase = "items"
      /\ control_byte' = Control \div 2 /\ control_bit' = BitsLeft - 1
  BY DEF ReadItem
<1>2. /\ control_byte' \in Byte /\ control_bit' \in 0 .. ControlBits
      /\ ItemOffset \in 1 .. InputSize + 1 /\ InputSize \in Nat
      /\ \A i \in 1 .. InputSize : file.data[i] \in Byte
      /\ Control \in Int
  BY <1>1, Controls
<1>3. /\ extract_size \in Nat /\ output_offset \in Nat /\ output_offset < extract_size
      /\ extract_buffer \in [0 .. extract_size - 1 -> Byte]
      /\ real_offset \in Int /\ real_offset <= output_offset /\ left \in 0 .. MaxLength
  BY <1>1 DEF LzsInv, LzsTypeOK
<1>4. CASE /\ Control % 2 = 1 /\ ItemOffset <= InputSize
           /\ input_offset' = ItemOffset + 1 /\ Write(file.data[ItemOffset])
           /\ UNCHANGED <<phase, real_offset, left>>
  <2>1. file.data[ItemOffset] \in Byte
    BY <1>2, <1>4
  <2>2. /\ extract_size' \in Nat /\ output_offset' \in Nat
        /\ output_offset' = output_offset + 1 /\ output_offset' < extract_size'
        /\ extract_buffer' \in [0 .. extract_size' - 1 -> Byte]
    BY <1>3, <1>4, <2>1, Written
  <2>3. input_offset' \in 1 .. InputSize + 1
    BY <1>2, <1>4
  <2>4. phase' = "items" /\ left' = left /\ real_offset' = real_offset
    BY <1>1, <1>4
  <2>5. /\ real_offset' \in Int /\ real_offset' <= output_offset' /\ left' \in 0 .. MaxLength
        /\ output_offset' \in 0 .. extract_size'
    BY <1>3, <2>2, <2>4
  <2> QED BY <1>1, <1>2, <2>2, <2>3, <2>4, <2>5, SameFile DEF LzsInv, LzsTypeOK, NothingYet
<1>5. CASE /\ Control % 2 = 0 /\ ItemOffset + 1 <= InputSize
           /\ input_offset' = ItemOffset + 2 /\ phase' = "copy"
           /\ real_offset' = RealOffset(output_offset,
                 ReferenceOffset(file.data[ItemOffset], file.data[ItemOffset + 1]))
           /\ left' = ReferenceLength(file.data[ItemOffset + 1])
           /\ UNCHANGED <<extract_buffer, extract_size, output_offset>>
  <2>1. file.data[ItemOffset] \in Byte /\ file.data[ItemOffset + 1] \in Byte
    BY <1>2, <1>5
  <2>2. real_offset' \in Int /\ real_offset' <= output_offset
    BY <1>3, <1>5, <2>1, References
  <2>3. left' \in 1 .. MaxLength
    BY <1>5, <2>1, Lengths
  <2>4. input_offset' \in 1 .. InputSize + 1
    BY <1>2, <1>5
  <2>5. /\ phase' = "copy" /\ output_offset' = output_offset /\ left' > 0
        /\ extract_size' = extract_size /\ extract_buffer' = extract_buffer
    BY <1>5, <2>3, Sizes
  <2>6. left' \in 0 .. MaxLength
    BY <2>3, Sizes
  <2> QED BY <1>1, <1>2, <1>3, <2>2, <2>4, <2>5, <2>6, SameFile
          DEF LzsInv, LzsTypeOK, NothingYet
<1>6. CASE /\ phase' = "undefined"
           /\ UNCHANGED <<input_offset, extract_buffer, extract_size, output_offset,
                          real_offset, left>>
  BY <1>1, <1>2, <1>3, <1>6 DEF LzsInv, LzsTypeOK, NothingYet, InputSize
<1> QED BY <1>4, <1>5, <1>6 DEF ReadItem

LEMMA CopyByteInv ==
  ASSUME LzsInv, CopyByte
  PROVE  LzsInv'
<1>1. /\ extract_size \in Nat /\ output_offset \in Nat /\ output_offset < extract_size
      /\ extract_buffer \in [0 .. extract_size - 1 -> Byte]
      /\ real_offset \in Int /\ real_offset <= output_offset /\ left \in 1 .. MaxLength
      /\ MaxLength \in Nat
  BY Sizes DEF LzsInv, LzsTypeOK, CopyByte
<1>2. Copied \in Byte
  <2>1. CASE real_offset < 0
    BY <2>1, Sizes DEF Copied
  <2>2. CASE ~(real_offset < 0)
    <3>1. real_offset \in 0 .. extract_size - 1
      BY <1>1, <2>2
    <3> QED BY <1>1, <2>2, <3>1 DEF Copied
  <2> QED BY <2>1, <2>2
<1>3. /\ extract_size' \in Nat /\ output_offset' \in Nat
      /\ output_offset' = output_offset + 1 /\ output_offset' < extract_size'
      /\ extract_buffer' \in [0 .. extract_size' - 1 -> Byte]
  BY <1>1, <1>2, Written DEF CopyByte
<1>4. /\ real_offset' \in Int /\ real_offset' <= output_offset'
      /\ left' \in 0 .. MaxLength /\ (phase' = "copy" => left' > 0)
  BY <1>1, <1>3 DEF CopyByte
<1>5. /\ file' = file /\ input_offset' = input_offset /\ control_byte' = control_byte
      /\ control_bit' = control_bit /\ phase' \in {"items", "copy"}
  BY DEF CopyByte
<1>6. /\ input_offset \in 1 .. InputSize + 1 /\ control_byte \in Byte
      /\ control_bit \in 0 .. ControlBits
  BY DEF LzsInv, LzsTypeOK
<1> QED BY <1>3, <1>4, <1>5, <1>6, SameFile DEF LzsInv, LzsTypeOK, NothingYet

LEMMA FinishInv ==
  ASSUME LzsInv, Finish
  PROVE  LzsInv'
<1>1. /\ extract_size \in Nat /\ output_offset \in Nat /\ output_offset < extract_size
      /\ extract_buffer \in [0 .. extract_size - 1 -> Byte]
  BY DEF LzsInv, LzsTypeOK, Finish
<1>2. extract_buffer' \in [0 .. extract_size' - 1 -> Byte]
  BY <1>1 DEF Finish
<1> QED BY <1>1, <1>2 DEF LzsInv, LzsTypeOK, NothingYet, Finish, InputSize

\* The output buffer always has room for the byte written next, and no byte outside it is
\* read: growing it after the write that fills it is enough (common/lzs.h:46, 74), and a
\* reference never begins behind the output (common/lzs.h:61).
THEOREM LzsTypeCorrect == LzsSpec => []LzsTypeOK
<1>1. LzsInit => LzsInv
  BY LzsInitInv
<1>2. LzsInv /\ [LzsNext]_lzsVars => LzsInv'
  <2> SUFFICES ASSUME LzsInv, [LzsNext]_lzsVars PROVE LzsInv'
    OBVIOUS
  <2>1. CASE Start
    BY <2>1, StartInv
  <2>2. CASE ReadItem
    BY <2>2, ReadItemInv
  <2>3. CASE CopyByte
    BY <2>3, CopyByteInv
  <2>4. CASE Finish
    BY <2>4, FinishInv
  <2>5. CASE UNCHANGED lzsVars
    BY <2>5 DEF lzsVars, LzsInv, LzsTypeOK, NothingYet, InputSize
  <2> QED BY <2>1, <2>2, <2>3, <2>4, <2>5 DEF LzsNext
<1>3. LzsInv => LzsTypeOK
  BY DEF LzsInv
<1> QED BY <1>1, <1>2, <1>3, PTL DEF LzsSpec

-----------------------------------------------------------------------------
(***************************************************************************)
(* Places in the window are remainders.                                    *)
(***************************************************************************)
\* Numbers with the same remainder that are less than w apart are the same.
LEMMA Nearby ==
  ASSUME NEW w \in Nat, w > 0, NEW a \in Int, NEW b \in Int, NEW k \in Int,
         a - b = w * k, a - b < w, b - a < w
  PROVE  a = b
<1>1. ~(k >= 1)
  <2> SUFFICES ASSUME k >= 1 PROVE FALSE
    OBVIOUS
  <2>1. w * k >= w
    BY SMT
  <2> QED
    BY <2>1
<1>2. ~(k <= -1)
  <2> SUFFICES ASSUME k <= -1 PROVE FALSE
    OBVIOUS
  <2>1. w * k <= -w
    BY SMT
  <2> QED
    BY <2>1
<1>3. k = 0
  BY <1>1, <1>2
<1> QED
  BY <1>3, SMT

LEMMA SameRemainder ==
  ASSUME NEW w \in Nat, w > 0, NEW a \in Int, NEW b \in Int, a % w = b % w, a - b < w, b - a < w
  PROVE  a = b
<1> DEFINE d == a \div w
           e == b \div w
           r == a % w
<1>1. d \in Int /\ r \in 0 .. w - 1 /\ a = w * d + r
  BY Divided
<1>2. e \in Int /\ b = w * e + r
  BY Divided
<1> HIDE DEF d, e, r
<1>3. d - e \in Int /\ a - b = w * (d - e)
  BY <1>1, <1>2, SMT
<1> QED
  BY <1>3, Nearby

LEMMA Shifted ==
  ASSUME NEW w \in Nat, w > 0, NEW x \in Int, NEW k \in Int
  PROVE  x + w * k \in Int /\ (x + w * k) % w = x % w
<1> DEFINE y == x + w * k
           d == x \div w
           e == y \div w
           r == x % w
           s == y % w
<1>1. y \in Int
  BY SMT
<1>2. d \in Int /\ r \in 0 .. w - 1 /\ x = w * d + r
  BY Divided
<1>3. e \in Int /\ s \in 0 .. w - 1 /\ y = w * e + s
  <2> HIDE DEF y
  <2> QED
    BY <1>1, Divided
<1>4. y = x + w * k
  OBVIOUS
<1> HIDE DEF y, d, e, r, s
<1>5. (d + k) - e \in Int /\ s - r = w * ((d + k) - e)
  BY <1>1, <1>2, <1>3, <1>4, SMT
<1>6. s - r < w /\ r - s < w /\ s \in Int /\ r \in Int
  BY <1>2, <1>3
<1>7. s = r
  BY <1>5, <1>6, Nearby
<1> QED
  BY <1>1, <1>7 DEF y, r, s

LEMMA SmallRemainder ==
  ASSUME NEW w \in Nat, w > 0, NEW x \in 0 .. w - 1
  PROVE  x % w = x
BY SMT

\* A reference begins less than a window before the end of the output, at its place in
\* the window.
LEMMA ReferencePlaces ==
  ASSUME NEW offset \in Int, NEW reference \in 0 .. WindowSize - 1
  PROVE  /\ RealOffset(offset, reference) \in Int
         /\ offset - WindowSize < RealOffset(offset, reference)
         /\ RealOffset(offset, reference) <= offset
         /\ (RealOffset(offset, reference) - MaxLength) % WindowSize = reference
<1> DEFINE w == WindowSize
           y == offset - MaxLength - reference
           d == y \div w
<1>1. w \in Nat /\ w > 0 /\ MaxLength \in Int
  BY Sizes
<1>2. y \in Int /\ reference \in Int
  BY <1>1
<1>3. d \in Int /\ y % w \in 0 .. w - 1 /\ y = w * d + (y % w)
  <2> HIDE DEF w, y
  <2> QED
    BY <1>1, <1>2, Divided
<1>4. RealOffset(offset, reference) = offset - (y % w)
  BY DEF RealOffset
<1> DEFINE m == y % w
           real == RealOffset(offset, reference)
<1>5. y = offset - MaxLength - reference
  OBVIOUS
<1> HIDE DEF w, y, d
<1>6. real \in Int /\ offset - w < real /\ real <= offset
  BY <1>1, <1>3, <1>4
<1> DEFINE p == w * d
<1>7. real - MaxLength = reference + w * d
  <2>1. real = offset - m /\ p \in Int /\ y = p + m /\ m \in Int
    BY <1>1, <1>3, <1>4
  <2> HIDE DEF real, m, p
  <2>2. real - MaxLength = reference + p
    BY <1>1, <1>5, <1>2, <2>1
  <2> QED
    BY <2>2 DEF p
<1>8. (reference + w * d) % w = reference % w
  BY <1>1, <1>2, <1>3, Shifted
<1>9. reference % w = reference
  BY <1>1, SmallRemainder DEF w
<1> QED
  BY <1>6, <1>7, <1>8, <1>9 DEF w

LEMMA ReferenceRange ==
  ASSUME NEW a \in Byte, NEW b \in Byte
  PROVE  ReferenceOffset(a, b) \in 0 .. WindowSize - 1
<1> DEFINE n == Nibble
           square == n * n
           q == b \div n
<1>1. n \in Nat /\ n >= 2 /\ square \in Nat
  BY Sizes DEF BufferStep
<1>2. a \in 0 .. square - 1 /\ b \in 0 .. square - 1
  BY DEF Byte
<1>3. q \in Int /\ b % n \in 0 .. n - 1 /\ b = n * q + (b % n)
  BY <1>1, <1>2, Divided
<1>4. square = n * n
  OBVIOUS
<1> HIDE DEF n, q
<1>5. q >= 0
  <2> SUFFICES ASSUME q <= -1 PROVE FALSE
    BY <1>3
  <2> DEFINE p == n * q
  <2>1. p \in Int /\ p <= -n
    BY <1>1, <1>3, SMT
  <2>2. b = p + (b % n) /\ b \in Nat
    BY <1>2, <1>3
  <2> HIDE DEF p
  <2> QED
    BY <1>1, <1>3, <2>1, <2>2
<1>6. q <= n - 1
  <2> SUFFICES ASSUME q >= n PROVE FALSE
    BY <1>1, <1>3
  <2> DEFINE p == n * q
  <2>1. p \in Int /\ p >= square
    BY <1>1, <1>3, <1>4, SMT
  <2>2. b = p + (b % n) /\ b < square
    BY <1>1, <1>2, <1>3
  <2> HIDE DEF p, square
  <2> QED
    BY <1>1, <1>2, <1>3, <2>1, <2>2
<1> HIDE DEF square
<1>7. q * n * n = q * square
  BY <1>1, <1>3, <1>4, SMT
<1>8. q * square >= 0 /\ q * square <= (n - 1) * square
  BY <1>1, <1>3, <1>5, <1>6, SMT
<1>9. (n - 1) * square = n * n * n - square
  BY <1>1, <1>4, SMT
<1>10. q * square \in Int /\ n * n * n \in Int
  BY <1>1, <1>3, <1>4, SMT
<1>11. ReferenceOffset(a, b) = a + q * square
  BY <1>7 DEF ReferenceOffset, n, q
<1>12. WindowSize = n * n * n
  BY DEF WindowSize, n
<1> QED
  BY <1>1, <1>2, <1>8, <1>9, <1>10, <1>11, <1>12
-----------------------------------------------------------------------------
(***************************************************************************)
(* The window as a function of the output: a place holds the last of the   *)
(* bytes that belong there.                                                *)
(***************************************************************************)
PlaceOf(i) == (i - 1 - MaxLength) % WindowSize
PutAt(n, place) == {i \in 1 .. n : PlaceOf(i) = place}
LastAt(n, place) == CHOOSE i \in PutAt(n, place) : \A j \in PutAt(n, place) : j <= i

WindowOf(n, buffer) ==
  [place \in 0 .. WindowSize - 1 |->
     IF PutAt(n, place) = {} THEN 0 ELSE [i \in 1 .. n |-> buffer[i - 1]][LastAt(n, place)]]

LEMMA GreatestOf ==
  ASSUME NEW n \in Nat, NEW S, S \subseteq 1 .. n, S # {}
  PROVE  \E i \in S : \A j \in S : j <= i
<1> DEFINE T == {m \in Nat : \E i \in S : m = n - i}
<1>1. \A i \in S : n - i \in Nat /\ i \in Nat
  OBVIOUS
<1>2. T \subseteq Nat /\ T # {}
  BY <1>1
<1> HIDE DEF T
<1>3. PICK m \in T : \A k \in T : m <= k
  BY <1>2, LeastNatural
<1>4. PICK i \in S : m = n - i
  BY <1>3 DEF T
<1>5. ASSUME NEW j \in S PROVE j <= i
  <2>1. n - j \in T
    BY <1>1 DEF T
  <2>2. m <= n - j
    BY <1>3, <2>1
  <2> QED
    BY <1>1, <1>4, <2>2
<1> QED
  BY <1>4, <1>5

LEMMA WindowEmpty ==
  ASSUME NEW n \in Nat, NEW buffer, NEW place \in 0 .. WindowSize - 1,
         \A i \in 1 .. n : PlaceOf(i) # place
  PROVE  WindowOf(n, buffer)[place] = 0
<1>1. PutAt(n, place) = {}
  BY DEF PutAt
<1> QED
  BY <1>1 DEF WindowOf

LEMMA WindowLast ==
  ASSUME NEW n \in Nat, NEW buffer, NEW i \in 1 .. n,
         \A j \in i + 1 .. n : PlaceOf(j) # PlaceOf(i)
  PROVE  WindowOf(n, buffer)[PlaceOf(i)] = buffer[i - 1]
<1> DEFINE place == PlaceOf(i)
           S == PutAt(n, place)
           last == LastAt(n, place)
<1>1. place \in 0 .. WindowSize - 1
  <2>1. i - 1 - MaxLength \in Int /\ WindowSize \in Nat /\ WindowSize > 0
    BY Sizes
  <2> QED
    BY <2>1, Divided DEF PlaceOf
<1>2. i \in S /\ S \subseteq 1 .. n
  BY DEF PutAt
<1>3. \A j \in S : j <= i
  <2> SUFFICES ASSUME NEW j \in 1 .. n, PlaceOf(j) = place, i < j PROVE FALSE
    BY DEF PutAt
  <2>1. j \in i + 1 .. n
    OBVIOUS
  <2> QED
    BY <2>1
<1>4. last \in S /\ \A j \in S : j <= last
  BY <1>2, <1>3 DEF LastAt
<1> HIDE DEF place, S, last
<1>5. last = i
  BY <1>2, <1>3, <1>4
<1>6. WindowOf(n, buffer)[place] = [k \in 1 .. n |-> buffer[k - 1]][last]
  BY <1>1, <1>2 DEF WindowOf, S, last
<1> QED
  BY <1>5, <1>6 DEF place

\* Putting out a byte changes the window at one place.
LEMMA WindowGrows ==
  ASSUME NEW n \in Nat, NEW b, NEW c, NEW byte,
         \A i \in 0 .. n - 1 : c[i] = b[i], c[n] = byte
  PROVE  WindowOf(n + 1, c)
           = [WindowOf(n, b) EXCEPT ![(WindowSize - MaxLength + n) % WindowSize] = byte]
<1> DEFINE w == WindowSize
           here == (w - MaxLength + n) % w
<1>1. w \in Nat /\ w > 0 /\ MaxLength \in Nat
  BY Sizes
<1>2. here = PlaceOf(n + 1) /\ here \in 0 .. w - 1
  <2>1. n - MaxLength \in Int /\ n - MaxLength + w * 1 = w - MaxLength + n
        /\ (n + 1) - 1 - MaxLength = n - MaxLength
    BY <1>1
  <2>2. (n - MaxLength + w * 1) % w = (n - MaxLength) % w
    <3> DEFINE x == n - MaxLength
    <3>1. x \in Int /\ 1 \in Int
      BY <2>1
    <3> HIDE DEF w, x
    <3>2. (x + w * 1) % w = x % w
      BY <1>1, <3>1, Shifted
    <3> QED
      BY <3>2 DEF x
  <2>3. (n - MaxLength) % w \in 0 .. w - 1
    BY <1>1, <2>1, Divided
  <2> QED
    BY <2>1, <2>2, <2>3 DEF PlaceOf
<1> HIDE DEF here
<1>3. n + 1 \in Nat /\ (n + 1) - 1 = n /\ n + 1 \in 1 .. n + 1
  OBVIOUS
<1>4. \A i \in 1 .. n : i \in 1 .. n + 1 /\ c[i - 1] = b[i - 1]
  OBVIOUS
<1>5. WindowOf(n + 1, c)[here] = byte
  <2>1. \A j \in (n + 1) + 1 .. n + 1 : PlaceOf(j) # PlaceOf(n + 1)
    OBVIOUS
  <2>2. WindowOf(n + 1, c)[PlaceOf(n + 1)] = c[(n + 1) - 1]
    BY <1>3, <2>1, WindowLast
  <2> QED
    BY <1>2, <1>3, <2>2
<1>6. ASSUME NEW place \in 0 .. w - 1, place # here
      PROVE  WindowOf(n + 1, c)[place] = WindowOf(n, b)[place]
  <2>1. \A i \in 1 .. n + 1 : PlaceOf(i) = place => i \in 1 .. n
    <3>1. \A i \in 1 .. n + 1 : i = n + 1 \/ i \in 1 .. n
      OBVIOUS
    <3> QED
      BY <1>2, <1>6, <3>1
  <2>2. CASE PutAt(n, place) = {}
    <3>1. \A i \in 1 .. n : PlaceOf(i) # place
      BY <2>2 DEF PutAt
    <3>2. \A i \in 1 .. n + 1 : PlaceOf(i) # place
      BY <2>1, <3>1
    <3>3. WindowOf(n, b)[place] = 0
      BY <3>1, WindowEmpty DEF w
    <3>4. WindowOf(n + 1, c)[place] = 0
      BY <1>3, <3>2, WindowEmpty DEF w
    <3> QED
      BY <3>3, <3>4
  <2>3. CASE PutAt(n, place) # {}
    <3>1. PICK i \in PutAt(n, place) : \A j \in PutAt(n, place) : j <= i
      <4>1. PutAt(n, place) \subseteq 1 .. n
        BY DEF PutAt
      <4> QED
        BY <2>3, <4>1, GreatestOf
    <3>2. i \in 1 .. n /\ PlaceOf(i) = place
      BY DEF PutAt
    <3>3. \A j \in i + 1 .. n : PlaceOf(j) # PlaceOf(i)
      <4> SUFFICES ASSUME NEW j \in i + 1 .. n, PlaceOf(j) = place PROVE FALSE
        BY <3>2
      <4>1. j \in PutAt(n, place)
        BY <3>2 DEF PutAt
      <4> QED
        BY <3>1, <3>2, <4>1
    <3>4. \A j \in i + 1 .. n + 1 : PlaceOf(j) # PlaceOf(i)
      <4> SUFFICES ASSUME NEW j \in i + 1 .. n + 1, PlaceOf(j) = place PROVE FALSE
        BY <3>2
      <4>1. j \in 1 .. n + 1
        BY <3>2
      <4>2. j \in 1 .. n
        BY <2>1, <4>1
      <4>3. j \in i + 1 .. n
        BY <3>2, <4>2
      <4> QED
        BY <3>2, <3>3, <4>3
    <3>5. WindowOf(n, b)[place] = b[i - 1]
      BY <3>2, <3>3, WindowLast
    <3>6. WindowOf(n + 1, c)[place] = c[i - 1]
      BY <1>3, <1>4, <3>2, <3>4, WindowLast
    <3> QED
      BY <1>4, <3>2, <3>5, <3>6
  <2> QED
    BY <2>2, <2>3
<1>7. WindowOf(n + 1, c) = [place \in 0 .. w - 1 |-> WindowOf(n + 1, c)[place]]
      /\ WindowOf(n, b) = [place \in 0 .. w - 1 |-> WindowOf(n, b)[place]]
  BY DEF WindowOf
<1> DEFINE new == WindowOf(n + 1, c)
           old == WindowOf(n, b)
<1>8. new = [place \in 0 .. w - 1 |-> new[place]] /\ old = [place \in 0 .. w - 1 |-> old[place]]
      /\ new[here] = byte /\ \A place \in 0 .. w - 1 : place # here => new[place] = old[place]
  BY <1>5, <1>6, <1>7
<1> HIDE DEF new, old, w
<1>9. new = [old EXCEPT ![here] = byte]
  BY <1>2, <1>8
<1> QED
  BY <1>9 DEF new, old, here, w
-----------------------------------------------------------------------------
(***************************************************************************)
(* What the loop reads of a file from a place on, item by item.            *)
(***************************************************************************)
LEMMA PlaceTypes ==
  ASSUME NEW data \in Seq(Byte), NEW p \in Places(data)
  PROVE  /\ Len(data) \in Nat /\ p[1] \in 1 .. Len(data) + 1 /\ p[2] \in Byte
         /\ p[3] \in 0 .. ControlBits /\ OffsetAt(p) \in p[1] .. p[1] + 1
         /\ p[1] <= Len(data) => ControlAt(data, p) \in Byte
         /\ BitsAt(p) \in 1 .. ControlBits /\ ControlBits \in Nat \ {0}
         /\ \A i \in 1 .. Len(data) : data[i] \in Byte
<1>1. /\ Len(data) \in Nat /\ p[1] \in 1 .. Len(data) + 1 /\ p[2] \in Byte
      /\ p[3] \in 0 .. ControlBits /\ ControlBits \in Nat \ {0}
      /\ \A i \in 1 .. Len(data) : data[i] \in Byte
  BY Sizes DEF Places
<1>2. p[1] <= Len(data) => ControlAt(data, p) \in Byte
  BY <1>1 DEF ControlAt
<1>3. OffsetAt(p) \in p[1] .. p[1] + 1
  BY <1>1 DEF OffsetAt
<1>4. BitsAt(p) \in 1 .. ControlBits
  BY <1>1 DEF BitsAt
<1> QED
  BY <1>1, <1>2, <1>3, <1>4

LEMMA ItemRead ==
  ASSUME NEW data \in Seq(Byte), NEW p \in Places(data), ~NoItem(data, p)
  PROVE  /\ ItemAt(data, p) \in Ring!Item
         /\ Behind(data, p) \in Places(data) /\ Behind(data, p)[1] > p[1]
<1> DEFINE i == OffsetAt(p)
           c == ControlAt(data, p)
           bit == c % 2
           n == Len(data)
<1>1. /\ n \in Nat /\ p[1] \in 1 .. n + 1 /\ i \in p[1] .. p[1] + 1
      /\ BitsAt(p) \in 1 .. ControlBits /\ ControlBits \in Nat \ {0}
      /\ \A k \in 1 .. n : data[k] \in Byte
      /\ p[1] <= n => c \in Byte
  BY PlaceTypes
<1>2. p[1] <= n /\ i + 1 - bit <= n /\ c \in Byte /\ bit \in {0, 1}
  <2>1. ~ (p[1] > n) /\ ~ (i + 1 - bit > n)
    BY DEF NoItem
  <2>2. c \in Byte
    BY <1>1, <2>1
  <2>3. bit \in {0, 1}
    BY <2>2 DEF Byte
  <2> HIDE DEF i, c, bit, n
  <2> QED
    BY <1>1, <2>1, <2>2, <2>3
<1> HIDE DEF bit
<1>3. Behind(data, p) = <<i + 2 - bit, c \div 2, BitsAt(p) - 1>>
  BY DEF Behind, bit
<1>4. c \div 2 \in Byte
  BY <1>2, Halved
<1> HIDE DEF i, c, n
<1>5. i + 2 - bit \in 1 .. n + 1 /\ i + 2 - bit > p[1] /\ BitsAt(p) - 1 \in 0 .. ControlBits
  BY <1>1, <1>2
<1>6. Behind(data, p) \in Places(data) /\ Behind(data, p)[1] > p[1]
  BY <1>3, <1>4, <1>5 DEF Places, n
<1>7. CASE bit = 1
  <2>1. i \in 1 .. n
    BY <1>1, <1>2, <1>7
  <2>2. data[i] \in Byte
    BY <1>1, <2>1
  <2>3. data[i] \in Nat /\ 0 \in 0 .. WindowSize - 1 /\ 1 \in Nat \ {0}
    BY <2>2, Sizes DEF Byte
  <2>4. ItemAt(data, p) = [copied |-> FALSE, byte |-> data[i], at |-> 0, left |-> 1]
    BY <1>7 DEF ItemAt, i, c, bit
  <2> QED
    BY <1>6, <2>3, <2>4 DEF Ring!Item
<1>8. CASE bit = 0
  <2>1. i \in 1 .. n /\ i + 1 \in 1 .. n
    BY <1>1, <1>2, <1>8
  <2>2. data[i] \in Byte /\ data[i + 1] \in Byte
    BY <1>1, <2>1
  <2>3. ReferenceLength(data[i + 1]) \in Nat \ {0} /\ 0 \in Nat
    BY <2>2, Lengths, Sizes
  <2>4. ReferenceOffset(data[i], data[i + 1]) \in 0 .. WindowSize - 1
    BY <2>2, ReferenceRange
  <2>5. ItemAt(data, p)
          = [copied |-> TRUE, byte |-> 0, at |-> ReferenceOffset(data[i], data[i + 1]),
             left |-> ReferenceLength(data[i + 1])]
    BY <1>8 DEF ItemAt, i, c, bit
  <2> QED
    BY <1>6, <2>3, <2>4, <2>5 DEF Ring!Item
<1> QED
  BY <1>2, <1>7, <1>8

LEMMA ItemsUnfold ==
  ASSUME NEW data \in Seq(Byte)
  PROVE  /\ \A p \in Places(data) : ItemsOf(data)[p] \in Seq(Ring!Item)
         /\ \A p \in Places(data) :
              ItemsOf(data)[p] = IF NoItem(data, p) THEN <<>>
                                 ELSE <<ItemAt(data, p)>> \o ItemsOf(data)[Behind(data, p)]
<1> DEFINE D == Places(data)
           S == Seq(Ring!Item)
           bound == Len(data)
           rank == [p \in D |-> bound + 1 - p[1]]
           stop == [p \in D |-> NoItem(data, p)]
           base == [p \in D |-> <<>>]
           next == [p \in D |-> Behind(data, p)]
           G == [p \in D |-> [x \in S |-> IF NoItem(data, p) THEN x ELSE <<ItemAt(data, p)>> \o x]]
           Body(h, p) == IF NoItem(data, p) THEN <<>> ELSE <<ItemAt(data, p)>> \o h[Behind(data, p)]
           Eqn(h) == h = [p \in D |-> Body(h, p)]
<1>1. \A p \in D : bound \in Nat /\ p[1] \in 1 .. bound + 1
  BY PlaceTypes
<1>2. \A p \in D : ~NoItem(data, p) =>
        ItemAt(data, p) \in Ring!Item /\ Behind(data, p) \in D /\ Behind(data, p)[1] > p[1]
  BY ItemRead
<1>3. bound \in Nat
  OBVIOUS
<1> HIDE DEF D, bound
<1>4. \A p \in D : rank[p] \in 0 .. bound
  BY <1>1
<1>5. \A p \in D : base[p] \in S
  OBVIOUS
<1>6. \A p \in D : ~stop[p] => next[p] \in D /\ rank[next[p]] < rank[p]
  BY <1>1, <1>2
<1>7. \A p \in D : \A x \in S : ~NoItem(data, p) => <<ItemAt(data, p)>> \o x \in S
  <2> SUFFICES ASSUME NEW p \in D, NEW x \in S, ~NoItem(data, p)
               PROVE  <<ItemAt(data, p)>> \o x \in S
    OBVIOUS
  <2> DEFINE item == ItemAt(data, p)
             Item == Ring!Item
  <2>1. item \in Item /\ x \in Seq(Item)
    BY <1>2
  <2> HIDE DEF item, Item
  <2>2. <<item>> \o x \in Seq(Item)
    BY <2>1
  <2> QED
    BY <2>2 DEF item, Item
<1>8. \A p \in D : \A x \in S : G[p][x] \in S
  BY <1>7
<1>9. \E h \in [D -> S] : Unfolds(h, D, stop, base, next, G)
  <2> HIDE DEF rank, stop, base, next, G, S
  <2> QED
    BY <1>3, <1>4, <1>5, <1>6, <1>8, RecursionByRank
<1>10. PICK h \in [D -> S] : Unfolds(h, D, stop, base, next, G)
  BY <1>9
<1>11. \A p \in D : h[p] = Body(h, p)
  BY <1>2, <1>10 DEF Unfolds
<1>12. Eqn(h)
  <2> HIDE DEF Body
  <2> QED
    BY <1>10, <1>11
<1> DEFINE items == CHOOSE k : Eqn(k)
<1>13. Eqn(items)
  <2> HIDE DEF Eqn
  <2> QED
    BY <1>12
<1>14. ItemsOf(data) = items
  BY DEF ItemsOf, D
<1> HIDE DEF items
<1>15. \A p \in D : items[p] = Body(items, p)
  <2> HIDE DEF Body
  <2> QED
    BY <1>13
<1> HIDE DEF Eqn
<1>16. \A p \in D : items[p] \in S
  <2> DEFINE T == {p \in D : items[p] \in S}
  <2>1. ASSUME NEW q \in D \ T
        PROVE  \E r \in D \ T : rank[r] < rank[q]
    <3>1. q \in D /\ items[q] \notin S /\ items[q] = Body(items, q)
      BY <1>15
    <3>2. ~NoItem(data, q)
      BY <3>1
    <3>3. Behind(data, q) \in D /\ rank[Behind(data, q)] < rank[q]
      BY <1>6, <3>1, <3>2
    <3>4. items[Behind(data, q)] \notin S
      BY <1>7, <3>1, <3>2
    <3> QED
      BY <3>3, <3>4
  <2>2. \A q \in D : rank[q] \in Nat
    BY <1>4, <1>3
  <2> HIDE DEF rank, T
  <2>3. D \subseteq T
    BY <2>1, <2>2, NoDescent
  <2> QED
    BY <2>3 DEF T
<1> QED
  BY <1>14, <1>15, <1>16 DEF D
-----------------------------------------------------------------------------
(***************************************************************************)
(* The refinement of RingWindow, step by step.                             *)
(***************************************************************************)

\* The buffer behind the output is as it was made, a reference is no more than a window
\* back, and only a file of the declared length is read.
FreshZeros == \A i \in output_offset .. extract_size - 1 : extract_buffer[i] = 0
WithinWindow == phase = "copy" => output_offset - WindowSize < real_offset
WholeRead == phase \in {"items", "copy"} => Whole
RingInv == LzsInv /\ FreshZeros /\ WithinWindow /\ WholeRead

LEMMA WindowIs ==
  /\ Window = WindowOf(output_offset, extract_buffer)
  /\ Window' = WindowOf(output_offset', extract_buffer')
BY DEF Window, WindowOf, PutAt, PlaceOf, LastAt, Output

LEMMA WindowSame ==
  ASSUME NEW n \in Nat, NEW b, NEW c, \A i \in 0 .. n - 1 : c[i] = b[i]
  PROVE  /\ [i \in 1 .. n |-> c[i - 1]] = [i \in 1 .. n |-> b[i - 1]]
         /\ WindowOf(n, c) = WindowOf(n, b)
<1>1. \A i \in 1 .. n : i - 1 \in 0 .. n - 1
  OBVIOUS
<1>2. [i \in 1 .. n |-> c[i - 1]] = [i \in 1 .. n |-> b[i - 1]]
  BY <1>1
<1> QED
  BY <1>2 DEF WindowOf

LEMMA OutputSame ==
  ASSUME output_offset \in Nat, output_offset' = output_offset,
         \A i \in 0 .. output_offset - 1 : extract_buffer'[i] = extract_buffer[i]
  PROVE  Output' = Output /\ Window' = Window
<1>1. Window = WindowOf(output_offset, extract_buffer)
      /\ Window' = WindowOf(output_offset, extract_buffer')
  <2>1. Window' = WindowOf(output_offset', extract_buffer')
    BY WindowIs
  <2> QED
    BY <2>1, WindowIs
<1> QED
  BY <1>1, WindowSame DEF Output

\* Writing a byte puts it out and into the window.
LEMMA ByteWritten ==
  ASSUME RingInv, phase \in {"items", "copy"}, NEW byte \in Byte, Write(byte)
  PROVE  /\ Output' = Append(Output, byte)
         /\ Window' = [Window EXCEPT ![Ring!WritePlace] = byte]
         /\ FreshZeros' /\ output_offset' = output_offset + 1
<1> DEFINE n == output_offset
           b == extract_buffer
           c == extract_buffer'
           size == extract_size
<1>1. /\ n \in Nat /\ size \in Nat /\ n < size /\ b \in [0 .. size - 1 -> Byte]
      /\ BufferStep \in Nat /\ BufferStep > 0
  BY Sizes DEF RingInv, LzsInv, LzsTypeOK
<1>2. \A i \in n .. size - 1 : b[i] = 0
  BY DEF RingInv, FreshZeros
<1> DEFINE written == [b EXCEPT ![n] = byte]
<1>3. /\ written[n] = byte /\ \A i \in 0 .. n - 1 : written[i] = b[i]
      /\ \A i \in n + 1 .. size - 1 : written[i] = 0
  BY <1>1, <1>2
<1>4. /\ output_offset' = n + 1
      /\ \/ Full(n + 1, size) /\ extract_size' = size + BufferStep /\ c = Grown(written, size)
         \/ ~Full(n + 1, size) /\ extract_size' = size /\ c = written
  BY DEF Write
<1> HIDE DEF n, b, c, size, written
<1>5. /\ \A i \in 0 .. n - 1 : c[i] = b[i]
      /\ c[n] = byte
      /\ \A i \in n + 1 .. extract_size' - 1 : c[i] = 0
  <2>1. CASE Full(n + 1, size) /\ extract_size' = size + BufferStep /\ c = Grown(written, size)
    <3>1. \A i \in 0 .. size + BufferStep - 1 : c[i] = IF i < size THEN written[i] ELSE 0
      BY <2>1 DEF Grown
    <3>2. \A i \in 0 .. n : i \in 0 .. size + BufferStep - 1 /\ i < size
      BY <1>1
    <3>3. \A i \in n + 1 .. extract_size' - 1 : i \in 0 .. size + BufferStep - 1 /\ ~ (i < size)
      BY <1>1, <2>1 DEF Full
    <3>4. n \in 0 .. n /\ \A i \in 0 .. n - 1 : i \in 0 .. n
      BY <1>1
    <3> QED
      BY <1>3, <3>1, <3>2, <3>3, <3>4
  <2>2. CASE extract_size' = size /\ c = written
    BY <1>3, <2>2
  <2> QED
    BY <1>4, <2>1, <2>2
<1>6. Output = [i \in 1 .. n |-> b[i - 1]] /\ Output' = [i \in 1 .. n + 1 |-> c[i - 1]]
  BY <1>4 DEF Output, n, b, c
<1>7. Output \in Seq(Byte) /\ Len(Output) = n
  <2>1. \A i \in 1 .. n : b[i - 1] \in Byte
    BY <1>1
  <2>2. [i \in 1 .. n |-> b[i - 1]] \in [1 .. n -> Byte]
    BY <2>1
  <2> DEFINE o == [i \in 1 .. n |-> b[i - 1]]
  <2>3. o \in [1 .. n -> Byte]
    BY <2>2
  <2> HIDE DEF o
  <2>4. o \in Seq(Byte) /\ Len(o) = n
    BY <1>1, <2>3
  <2> QED
    BY <1>6, <2>4 DEF o
<1>8. Output' = Append(Output, byte)
  <2> DEFINE o == Output
             x == Append(o, byte)
  <2>1. x \in Seq(Byte) /\ Len(x) = n + 1 /\ \A i \in 1 .. n + 1 : x[i] = IF i <= n THEN o[i] ELSE byte
    <3> HIDE DEF o
    <3>1. o \in Seq(Byte) /\ Len(o) = n
      BY <1>7 DEF o
    <3> QED
      BY <1>1, <3>1
  <2>2. x = [i \in 1 .. n + 1 |-> x[i]]
    <3> HIDE DEF x
    <3> QED
      BY <1>1, <2>1
  <2>3. \A i \in 1 .. n + 1 : x[i] = c[i - 1]
    <3>1. \A i \in 1 .. n : x[i] = b[i - 1]
      <4>1. \A i \in 1 .. n : i \in 1 .. n + 1 /\ i <= n /\ o[i] = b[i - 1]
        BY <1>1, <1>6
      <4> QED
        BY <2>1, <4>1
    <3>2. x[n + 1] = byte /\ (n + 1) - 1 = n
      BY <1>1, <2>1
    <3>3. \A i \in 1 .. n + 1 : i = n + 1 \/ (i \in 1 .. n /\ i - 1 \in 0 .. n - 1)
      BY <1>1
    <3> HIDE DEF x, o
    <3> QED
      BY <1>5, <3>1, <3>2, <3>3
  <2> HIDE DEF x
  <2>4. x = [i \in 1 .. n + 1 |-> c[i - 1]]
    BY <2>2, <2>3
  <2> QED
    BY <1>6, <2>4 DEF x
<1>9. Window' = [Window EXCEPT ![Ring!WritePlace] = byte]
  <2>1. Window = WindowOf(n, b)
    BY WindowIs DEF n, b
  <2>2. Window' = WindowOf(n + 1, c)
    <3>1. Window' = WindowOf(output_offset', extract_buffer')
      BY WindowIs
    <3> QED
      BY <1>4, <3>1 DEF c
  <2>3. Ring!WritePlace = (WindowSize - MaxLength + n) % WindowSize
    BY <1>7 DEF Ring!WritePlace
  <2>4. WindowOf(n + 1, c)
          = [WindowOf(n, b) EXCEPT ![(WindowSize - MaxLength + n) % WindowSize] = byte]
    BY <1>1, <1>5, WindowGrows
  <2> QED
    BY <2>1, <2>2, <2>3, <2>4
<1>10. FreshZeros'
  BY <1>4, <1>5 DEF FreshZeros, c
<1> QED
  BY <1>4, <1>8, <1>9, <1>10 DEF n

\* The byte that is copied is the one in the window, unless the reference is a whole
\* window back: then it is a zero.
WholeWindowBack ==
  phase = "copy" /\ real_offset = output_offset /\ output_offset >= WindowSize

LEMMA CopiedIs ==
  ASSUME RingInv, phase = "copy"
  PROVE  /\ Copied \in Byte
         /\ WholeWindowBack => Copied = 0
         /\ ~WholeWindowBack => Window[(real_offset - MaxLength) % WindowSize] = Copied
<1> DEFINE n == output_offset
           b == extract_buffer
           r == real_offset
           w == WindowSize
           place == (r - MaxLength) % w
<1>1. /\ n \in Nat /\ extract_size \in Nat /\ n < extract_size
      /\ b \in [0 .. extract_size - 1 -> Byte]
      /\ r \in Int /\ r <= n /\ n - w < r
      /\ w \in Nat /\ w > 0 /\ MaxLength \in Nat /\ 0 \in Byte
  BY Sizes DEF RingInv, LzsInv, LzsTypeOK, WithinWindow
<1>2. b[n] = 0
  BY <1>1 DEF RingInv, FreshZeros
<1>3. Copied = IF r < 0 THEN 0 ELSE b[r]
  BY DEF Copied
<1>4. WholeWindowBack <=> r = n /\ n >= w
  BY DEF WholeWindowBack
<1>5. place \in 0 .. w - 1
  <2>1. r - MaxLength \in Int
    BY <1>1
  <2> HIDE DEF r, w
  <2> QED
    BY <1>1, <2>1, Divided
<1>6. Window = WindowOf(n, b)
  BY WindowIs
<1>7. PlaceOf(r + 1) = place
  <2>1. (r + 1) - 1 - MaxLength = r - MaxLength
    BY <1>1
  <2> QED
    BY <2>1 DEF PlaceOf
<1> HIDE DEF n, b, r, place, w
<1>8. Copied \in Byte /\ (r = n => Copied = 0)
  <2>1. r >= 0 => r \in 0 .. extract_size - 1
    BY <1>1
  <2> QED
    BY <1>1, <1>2, <1>3, <2>1
<1>9. ASSUME NEW i \in 1 .. n, PlaceOf(i) = place, i - 1 - r < w, r - (i - 1) < w
      PROVE  i = r + 1
  <2> DEFINE x == i - 1 - MaxLength
             y == r - MaxLength
  <2>1. x \in Int /\ y \in Int /\ x - y < w /\ y - x < w
    BY <1>1, <1>9
  <2>2. x % w = y % w
    BY <1>9 DEF PlaceOf, place, w
  <2>3. x = y
    <3> HIDE DEF x, y
    <3> QED
      BY <1>1, <2>1, <2>2, SameRemainder
  <2> QED
    BY <1>1, <2>3
<1>10. ASSUME ~WholeWindowBack
       PROVE  Window[place] = Copied
  <2>1. CASE 0 <= r /\ r < n
    <3>1. r + 1 \in 1 .. n
      BY <1>1, <2>1
    <3>2. \A j \in (r + 1) + 1 .. n : PlaceOf(j) # PlaceOf(r + 1)
      <4> SUFFICES ASSUME NEW j \in (r + 1) + 1 .. n, PlaceOf(j) = place PROVE FALSE
        BY <1>7
      <4>1. j \in 1 .. n /\ j - 1 - r < w /\ r - (j - 1) < w /\ j # r + 1
        BY <1>1, <2>1
      <4> QED
        BY <1>9, <4>1
    <3>3. WindowOf(n, b)[PlaceOf(r + 1)] = b[(r + 1) - 1]
      BY <1>1, <3>1, <3>2, WindowLast
    <3>4. (r + 1) - 1 = r /\ Copied = b[r]
      BY <1>1, <1>3, <2>1
    <3> QED
      BY <1>6, <1>7, <3>3, <3>4
  <2>2. CASE r < 0 \/ r = n
    <3>1. Copied = 0
      BY <1>3, <1>8, <2>2
    <3>2. \A i \in 1 .. n : PlaceOf(i) # place
      <4> SUFFICES ASSUME NEW i \in 1 .. n, PlaceOf(i) = place PROVE FALSE
        OBVIOUS
      <4>1. i - 1 - r < w /\ r - (i - 1) < w /\ i # r + 1
        BY <1>1, <1>4, <1>10, <2>2
      <4> QED
        BY <1>9, <4>1
    <3>3. WindowOf(n, b)[place] = 0
      BY <1>1, <1>5, <3>2, WindowEmpty DEF w
    <3> QED
      BY <1>6, <3>1, <3>3
  <2> QED
    BY <1>1, <2>1, <2>2
<1> QED
  BY <1>4, <1>8, <1>10 DEF place, r, w, n
-----------------------------------------------------------------------------
LEMMA FirstAndRest ==
  ASSUME NEW S, NEW x \in S, NEW rest \in Seq(S)
  PROVE  /\ <<x>> \o rest # <<>> /\ Head(<<x>> \o rest) = x /\ Tail(<<x>> \o rest) = rest
         /\ (<<x>> \o rest)[1] = x
         /\ \A y \in S : [<<x>> \o rest EXCEPT ![1] = y] = <<y>> \o rest
<1> DEFINE s == <<x>> \o rest
<1>1. /\ s \in Seq(S) /\ Len(s) = Len(rest) + 1 /\ Len(rest) \in Nat /\ s[1] = x
      /\ \A i \in 2 .. Len(rest) + 1 : s[i] = rest[i - 1]
  OBVIOUS
<1>2. s # <<>> /\ Head(s) = x
  <2> HIDE DEF s
  <2> QED
    BY <1>1
<1>3. Tail(s) = rest
  <2> DEFINE t == Tail(s)
  <2>1. t \in Seq(S) /\ Len(t) = Len(rest) /\ \A i \in 1 .. Len(rest) : t[i] = s[i + 1]
    <3> HIDE DEF s
    <3> QED
      BY <1>1
  <2>2. \A i \in 1 .. Len(rest) : i + 1 \in 2 .. Len(rest) + 1 /\ (i + 1) - 1 = i
    BY <1>1
  <2>3. \A i \in 1 .. Len(rest) : t[i] = rest[i]
    <3> HIDE DEF s, t
    <3> QED
      BY <1>1, <2>1, <2>2
  <2> HIDE DEF t
  <2>4. t = rest
    BY <1>1, <2>1, <2>3
  <2> QED
    BY <2>4 DEF t
<1>4. ASSUME NEW y \in S
      PROVE  [s EXCEPT ![1] = y] = <<y>> \o rest
  <2> DEFINE u == [s EXCEPT ![1] = y]
             v == <<y>> \o rest
  <2>1. /\ v \in Seq(S) /\ Len(v) = Len(rest) + 1 /\ v[1] = y
        /\ \A i \in 2 .. Len(rest) + 1 : v[i] = rest[i - 1]
    OBVIOUS
  <2>2. u \in Seq(S) /\ Len(u) = Len(rest) + 1 /\ u[1] = y
        /\ \A i \in 2 .. Len(rest) + 1 : u[i] = s[i]
    <3> HIDE DEF s
    <3> QED
      BY <1>1
  <2>3. \A i \in 1 .. Len(rest) + 1 : i = 1 \/ i \in 2 .. Len(rest) + 1
    BY <1>1
  <2> HIDE DEF u, v, s
  <2>4. \A i \in 1 .. Len(rest) + 1 : u[i] = v[i]
    BY <1>1, <2>1, <2>2, <2>3
  <2>5. u = [i \in 1 .. Len(rest) + 1 |-> u[i]] /\ v = [i \in 1 .. Len(rest) + 1 |-> v[i]]
    BY <1>1, <2>1, <2>2
  <2>6. u = v
    BY <2>4, <2>5
  <2> QED
    BY <2>6 DEF u, v
<1> QED
  BY <1>1, <1>2, <1>3, <1>4

\* Where the loop reads is a place of the file.
LEMMA ReadsAt ==
  ASSUME LzsInv
  PROVE  /\ file.data \in Seq(Byte) /\ Reading \in Places(file.data)
         /\ InputSize = Len(file.data)
         /\ Control = ControlAt(file.data, Reading) /\ BitsLeft = BitsAt(Reading)
         /\ ItemOffset = OffsetAt(Reading) /\ Reading[1] = input_offset
<1>1. /\ file.data \in Seq(Byte) /\ InputSize = Len(file.data)
      /\ input_offset \in 1 .. Len(file.data) + 1 /\ control_byte \in Byte
      /\ control_bit \in 0 .. ControlBits
  BY DEF LzsInv, LzsTypeOK, InputSize
<1>2. Reading[1] = input_offset /\ Reading[2] = control_byte /\ Reading[3] = control_bit
  BY DEF Reading
<1>3. Reading \in Places(file.data)
  BY <1>1 DEF Reading, Places
<1> QED
  BY <1>1, <1>2, <1>3
     DEF Control, NewControl, ControlAt, BitsLeft, BitsAt, ItemOffset, OffsetAt

LEMMA ReadingAfter == Reading' = <<input_offset', control_byte', control_bit'>>
BY DEF Reading

\* The items left, by phase.
LEMMA LeftNow ==
  ASSUME Whole
  PROVE  /\ phase \in {"start", "items", "done"} => ItemsLeft = <<>> \o ItemsOf(file.data)[Reading]
         /\ phase = "copy" =>
              ItemsLeft = << [copied |-> TRUE, byte |-> 0,
                              at |-> (real_offset - MaxLength) % WindowSize, left |-> left] >>
                          \o ItemsOf(file.data)[Reading]
         /\ phase = "undefined" => ItemsLeft = <<>>
BY DEF ItemsLeft

LEMMA LeftAfter ==
  ASSUME Whole'
  PROVE  /\ phase' \in {"start", "items", "done"} =>
              ItemsLeft' = <<>> \o ItemsOf(file'.data)[Reading']
         /\ phase' = "copy" =>
              ItemsLeft' = << [copied |-> TRUE, byte |-> 0,
                               at |-> (real_offset' - MaxLength) % WindowSize, left |-> left'] >>
                           \o ItemsOf(file'.data)[Reading']
         /\ phase' = "undefined" => ItemsLeft' = <<>>
BY DEF ItemsLeft

LEMMA RingInvInit == LzsInit => RingInv /\ Ring!RingInit
<1> SUFFICES ASSUME LzsInit PROVE RingInv /\ Ring!RingInit
  OBVIOUS
<1>1. LzsInv /\ phase = "start" /\ extract_size = 0 /\ output_offset = 0
  BY LzsInitInv DEF LzsInit
<1>2. RingInv
  BY <1>1 DEF RingInv, FreshZeros, WithinWindow, WholeRead
<1>3. Output = <<>>
  BY <1>1 DEF Output
<1>4. Window = [i \in 0 .. WindowSize - 1 |-> 0]
  <2>1. \A place : PutAt(0, place) = {}
    BY DEF PutAt
  <2> QED
    BY <1>1, <2>1, WindowIs DEF WindowOf
<1>5. ItemsLeft \in Seq(Ring!Item)
  <2> DEFINE Item == Ring!Item
             rest == ItemsOf(file.data)[Reading]
  <2>1. rest \in Seq(Item)
    <3>1. file.data \in Seq(Byte) /\ Reading \in Places(file.data)
      BY <1>1, ReadsAt
    <3> QED
      BY <3>1, ItemsUnfold
  <2>2. CASE Whole
    <3>1. ItemsLeft = <<>> \o rest
      BY <1>1, <2>2, LeftNow
    <3> HIDE DEF Item, rest
    <3>2. <<>> \o rest \in Seq(Item)
      BY <2>1
    <3> QED
      BY <3>1, <3>2 DEF Item
  <2>3. CASE ~Whole
    <3>1. ItemsLeft = <<>>
      BY <2>3 DEF ItemsLeft
    <3> QED
      BY <3>1
  <2> QED
    BY <2>2, <2>3
<1> QED
  BY <1>2, <1>3, <1>4, <1>5 DEF Ring!RingInit

LEMMA StartRing ==
  ASSUME RingInv, Start
  PROVE  RingInv' /\ UNCHANGED Ring!ringVars
<1>1. /\ LzsInv /\ LzsInv' /\ phase = "start" /\ output_offset = 0
      /\ UNCHANGED <<file, input_offset, control_byte, control_bit, output_offset>>
      /\ \/ file.declared # InputSize /\ phase' = "aborted"
            /\ UNCHANGED <<extract_size, extract_buffer>>
         \/ file.declared = InputSize /\ phase' = "items" /\ extract_buffer' = Zeros(extract_size')
  BY StartInv DEF RingInv, LzsInv, NothingYet, Start
<1>2. Whole' = Whole /\ Reading' = Reading /\ (Whole <=> file.declared = InputSize)
  BY <1>1 DEF Whole, Reading, InputSize
<1>3. FreshZeros'
  <2>1. CASE phase' = "aborted" /\ UNCHANGED <<extract_size, extract_buffer>>
    BY <1>1, <2>1 DEF RingInv, FreshZeros
  <2>2. CASE extract_buffer' = Zeros(extract_size')
    <3>1. extract_size' \in Nat /\ output_offset' = 0
      BY <1>1 DEF LzsInv, LzsTypeOK
    <3> QED
      BY <2>2, <3>1 DEF FreshZeros, Zeros
  <2> QED
    BY <1>1, <2>1, <2>2
<1>4. RingInv'
  BY <1>1, <1>2, <1>3 DEF RingInv, WithinWindow, WholeRead
<1>5. Output' = Output /\ Window' = Window
  BY <1>1, OutputSame
<1>6. ItemsLeft' = ItemsLeft
  <2>1. CASE Whole
    BY <1>1, <1>2, <2>1, LeftNow, LeftAfter
  <2>2. CASE ~Whole
    BY <1>2, <2>2 DEF ItemsLeft
  <2> QED
    BY <2>1, <2>2
<1> QED
  BY <1>4, <1>5, <1>6 DEF Ring!ringVars

\* A byte of the text is put out; reading a reference leaves what is left to be put out
\* as it is, and so does a file that ends inside an item.
LEMMA ReadItemRing ==
  ASSUME RingInv, ReadItem
  PROVE  RingInv' /\ (Ring!Emit \/ UNCHANGED Ring!ringVars)
<1> DEFINE data == file.data
           rest == ItemsOf(data)[Behind(data, Reading)]
           item == ItemAt(data, Reading)
           Item == Ring!Item
<1>1. /\ LzsInv /\ LzsInv' /\ phase = "items" /\ input_offset <= InputSize /\ file' = file
      /\ control_byte' = Control \div 2 /\ control_bit' = BitsLeft - 1
      /\ FreshZeros /\ Whole /\ output_offset \in Nat
  BY ReadItemInv DEF RingInv, ReadItem, WholeRead, LzsInv, LzsTypeOK
<1>2. Whole' /\ file'.data = data
  BY <1>1 DEF Whole, InputSize
<1>3. /\ data \in Seq(Byte) /\ Reading \in Places(data) /\ InputSize = Len(data)
      /\ Control = ControlAt(data, Reading) /\ BitsLeft = BitsAt(Reading)
      /\ ItemOffset = OffsetAt(Reading) /\ Reading[1] = input_offset
  BY <1>1, ReadsAt
<1>4. /\ Control \in Byte /\ Control \in Nat /\ Control % 2 \in {0, 1}
      /\ ItemOffset \in Nat /\ Len(data) \in Nat /\ input_offset \in Nat
      /\ \A i \in 1 .. Len(data) : data[i] \in Byte
  <2>1. Control \in Byte /\ OffsetAt(Reading) \in Reading[1] .. Reading[1] + 1
        /\ Reading[1] \in Nat /\ Len(data) \in Nat /\ \A i \in 1 .. Len(data) : data[i] \in Byte
    BY <1>1, <1>3, PlaceTypes
  <2>2. Control \in Nat
    BY <2>1 DEF Byte
  <2>3. Control % 2 \in {0, 1}
    BY <2>2
  <2> QED
    BY <1>3, <2>1, <2>2, <2>3
<1>5. ItemsOf(data)[Reading]
        = IF NoItem(data, Reading) THEN <<>> ELSE <<item>> \o rest
  BY <1>3, ItemsUnfold
<1>6. NoItem(data, Reading) <=> ItemOffset + 1 - (Control % 2) > Len(data)
  BY <1>1, <1>3, <1>4 DEF NoItem
<1>7. ~NoItem(data, Reading) => item \in Item /\ rest \in Seq(Item)
  <2> SUFFICES ASSUME ~NoItem(data, Reading) PROVE item \in Item /\ rest \in Seq(Item)
    OBVIOUS
  <2>1. Behind(data, Reading) \in Places(data) /\ item \in Item
    BY <1>3, ItemRead
  <2> QED
    BY <1>3, <2>1, ItemsUnfold
<1>8. ItemsLeft = <<>> \o ItemsOf(data)[Reading]
  BY <1>1, LeftNow
<1>9. ~NoItem(data, Reading) => ItemsLeft = <<item>> \o rest
  <2> SUFFICES ASSUME ~NoItem(data, Reading) PROVE ItemsLeft = <<item>> \o rest
    OBVIOUS
  <2> DEFINE s == <<item>> \o rest
  <2>1. item \in Item /\ rest \in Seq(Item) /\ ItemsLeft = <<>> \o s
    BY <1>5, <1>7, <1>8
  <2> HIDE DEF item, rest, Item
  <2>2. s \in Seq(Item)
    BY <2>1
  <2> HIDE DEF s
  <2>3. <<>> \o s = s
    BY <2>2
  <2> QED
    BY <2>1, <2>3 DEF s
<1>10. Behind(data, Reading) = <<ItemOffset + 2 - (Control % 2), Control \div 2, BitsLeft - 1>>
  BY <1>3 DEF Behind
<1> HIDE DEF data, rest, item, Item
<1>11. CASE /\ Control % 2 = 1 /\ ItemOffset <= InputSize
            /\ input_offset' = ItemOffset + 1 /\ Write(file.data[ItemOffset])
            /\ UNCHANGED <<phase, real_offset, left>>
  <2> DEFINE byte == data[ItemOffset]
  <2>1. byte \in Byte /\ Write(byte) /\ byte \in Nat
    <3>1. ItemOffset \in 1 .. Len(data)
      <4>1. ItemOffset >= 1
        BY <1>1, Controls
      <4> QED
        BY <1>3, <1>4, <1>11, <4>1
    <3>2. byte \in Byte
      BY <1>4, <3>1
    <3> QED
      BY <1>11, <3>2 DEF Byte, data
  <2>2. ~NoItem(data, Reading)
    BY <1>3, <1>4, <1>6, <1>11
  <2>3. item = [copied |-> FALSE, byte |-> byte, at |-> 0, left |-> 1]
    BY <1>3, <1>11 DEF ItemAt, item
  <2>4. item \in Item /\ rest \in Seq(Item) /\ ItemsLeft = <<item>> \o rest
    BY <2>2, <1>7, <1>9
  <2> HIDE DEF byte
  <2>5. /\ Output' = Append(Output, byte)
        /\ Window' = [Window EXCEPT ![Ring!WritePlace] = byte]
        /\ FreshZeros' /\ output_offset' = output_offset + 1
    BY <2>1, <1>1, ByteWritten
  <2>6. Reading' = Behind(data, Reading)
    <3>1. ItemOffset + 2 - (Control % 2) = ItemOffset + 1
      BY <1>4, <1>11
    <3> QED
      BY <1>1, <1>10, <1>11, <3>1, ReadingAfter
  <2>7. ItemsLeft' = rest
    <3>1. ItemsLeft' = <<>> \o rest
      BY <1>1, <1>2, <1>11, <2>6, LeftAfter DEF rest
    <3>2. <<>> \o rest = rest
      BY <2>4
    <3> QED
      BY <3>1, <3>2
  <2>8. ItemsLeft # <<>> /\ Head(ItemsLeft) = item /\ Tail(ItemsLeft) = rest
    BY <2>4, FirstAndRest
  <2>9. Ring!Emit
    <3>1. item.copied = FALSE /\ item.byte = byte /\ item.left = 1
      BY <2>3
    <3> QED
      BY <2>5, <2>7, <2>8, <3>1 DEF Ring!Emit
  <2>10. WithinWindow' /\ WholeRead'
    BY <1>1, <1>2, <1>11 DEF WithinWindow, WholeRead
  <2> QED
    BY <1>1, <2>5, <2>9, <2>10 DEF RingInv
<1>12. CASE /\ Control % 2 = 0 /\ ItemOffset + 1 <= InputSize
            /\ input_offset' = ItemOffset + 2 /\ phase' = "copy"
            /\ real_offset' = RealOffset(output_offset,
                  ReferenceOffset(file.data[ItemOffset], file.data[ItemOffset + 1]))
            /\ left' = ReferenceLength(file.data[ItemOffset + 1])
            /\ UNCHANGED <<extract_buffer, extract_size, output_offset>>
  <2> DEFINE place == ReferenceOffset(data[ItemOffset], data[ItemOffset + 1])
  <2>1. place \in 0 .. WindowSize - 1
    <3>1. ItemOffset \in 1 .. Len(data) /\ ItemOffset + 1 \in 1 .. Len(data)
      <4>1. ItemOffset >= 1
        BY <1>1, Controls
      <4> QED
        BY <1>3, <1>4, <1>12, <4>1
    <3> QED
      BY <1>4, <3>1, ReferenceRange
  <2>2. ~NoItem(data, Reading)
    BY <1>3, <1>4, <1>6, <1>12
  <2>3. real_offset' = RealOffset(output_offset, place)
        /\ left' = ReferenceLength(data[ItemOffset + 1])
    BY <1>12 DEF data
  <2>4. item = [copied |-> TRUE, byte |-> 0, at |-> place, left |-> left']
    BY <1>3, <1>12, <2>3 DEF ItemAt, item
  <2> HIDE DEF place
  <2>5. /\ output_offset - WindowSize < real_offset'
        /\ (real_offset' - MaxLength) % WindowSize = place
    BY <1>1, <2>1, <2>3, ReferencePlaces
  <2>6. Reading' = Behind(data, Reading)
    <3>1. ItemOffset + 2 - (Control % 2) = ItemOffset + 2
      BY <1>4, <1>12
    <3> QED
      BY <1>1, <1>10, <1>12, <3>1, ReadingAfter
  <2>7. ItemsLeft' = ItemsLeft
    <3>1. ItemsLeft' = <<item>> \o rest
      BY <1>2, <1>12, <2>4, <2>5, <2>6, LeftAfter DEF rest
    <3> QED
      BY <2>2, <3>1, <1>9
  <2>8. Output' = Output /\ Window' = Window
    BY <1>1, <1>12, OutputSame
  <2>9. RingInv'
    BY <1>1, <1>2, <1>12, <2>5 DEF RingInv, FreshZeros, WithinWindow, WholeRead
  <2> QED
    BY <2>7, <2>8, <2>9 DEF Ring!ringVars
<1>13. CASE /\ ItemOffset + 1 - (Control % 2) > InputSize
            /\ phase' = "undefined"
            /\ UNCHANGED <<input_offset, extract_buffer, extract_size, output_offset,
                           real_offset, left>>
  <2>1. ItemsLeft = <<>> \o <<>>
    BY <1>3, <1>5, <1>6, <1>8, <1>13
  <2>2. ItemsLeft' = <<>>
    BY <1>2, <1>13, LeftAfter
  <2>3. Output' = Output /\ Window' = Window
    BY <1>1, <1>13, OutputSame
  <2>4. RingInv'
    BY <1>1, <1>2, <1>13 DEF RingInv, FreshZeros, WithinWindow, WholeRead
  <2> QED
    BY <2>1, <2>2, <2>3, <2>4 DEF Ring!ringVars
<1> QED
  BY <1>11, <1>12, <1>13 DEF ReadItem

\* The step of a ring decoder for every byte of a reference but one a whole window back,
\* for which a zero is put out.
PutsZero == WholeWindowBack /\ Output' = Append(Output, 0)

LEMMA CopyByteRing ==
  ASSUME RingInv, CopyByte
  PROVE  RingInv' /\ (Ring!Emit \/ PutsZero)
<1> DEFINE w == WindowSize
           rest == ItemsOf(file.data)[Reading]
           here == (real_offset - MaxLength) % w
           behind == (real_offset' - MaxLength) % w
           Item == Ring!Item
           yes == TRUE
           now == [copied |-> yes, byte |-> 0, at |-> here, left |-> left]
           next == [copied |-> yes, byte |-> 0, at |-> behind, left |-> left']
<1>1. /\ LzsInv /\ LzsInv' /\ phase = "copy" /\ Whole /\ Write(Copied)
      /\ real_offset' = real_offset + 1 /\ left' = left - 1
      /\ phase' = (IF left = 1 THEN "items" ELSE "copy")
      /\ UNCHANGED <<file, input_offset, control_byte, control_bit>>
      /\ output_offset - w < real_offset
  BY CopyByteInv DEF RingInv, CopyByte, WholeRead, WithinWindow
<1>2. /\ output_offset \in Nat /\ real_offset \in Int /\ left \in Nat /\ left > 0
      /\ w \in Nat /\ w > 0 /\ MaxLength \in Nat
  BY <1>1, Sizes DEF LzsInv, LzsTypeOK
<1>3. Copied \in Byte
  BY <1>1, CopiedIs
<1>4. /\ Output' = Append(Output, Copied)
      /\ Window' = [Window EXCEPT ![Ring!WritePlace] = Copied]
      /\ FreshZeros' /\ output_offset' = output_offset + 1
  BY <1>1, <1>3, ByteWritten
<1>5. RingInv'
  <2>1. output_offset' - w < real_offset'
    BY <1>1, <1>2, <1>4
  <2>2. Whole'
    BY <1>1 DEF Whole, InputSize
  <2> QED
    BY <1>1, <1>4, <2>1, <2>2 DEF RingInv, WithinWindow, WholeRead
<1>6. Whole' /\ Reading' = Reading /\ file'.data = file.data
  BY <1>1 DEF Whole, InputSize, Reading
<1>7. rest \in Seq(Item)
  <2>1. file.data \in Seq(Byte) /\ Reading \in Places(file.data)
    BY <1>1, ReadsAt
  <2> QED
    BY <2>1, ItemsUnfold
<1>8. here \in 0 .. w - 1 /\ behind \in 0 .. w - 1 /\ behind = (here + 1) % w
  <2> DEFINE x == real_offset - MaxLength
             d == x \div w
  <2>1. x \in Int /\ real_offset' - MaxLength = x + 1
    BY <1>1, <1>2
  <2>2. d \in Int /\ here \in 0 .. w - 1 /\ x = w * d + here
    <3> HIDE DEF w, x
    <3>1. d \in Int /\ x % w \in 0 .. w - 1 /\ x = w * d + (x % w)
      BY <1>2, <2>1, Divided
    <3> QED
      BY <3>1 DEF x
  <2>3. behind = (x + 1) % w
    BY <2>1
  <2> HIDE DEF w, x, d, here, behind
  <2>4. behind \in 0 .. w - 1
    BY <1>2, <2>1, <2>3, Divided
  <2>5. here + 1 \in Int /\ x + 1 = (here + 1) + w * d
    BY <1>2, <2>1, <2>2
  <2>6. ((here + 1) + w * d) % w = (here + 1) % w
    BY <1>2, <2>2, <2>5, Shifted
  <2> QED
    BY <2>2, <2>3, <2>4, <2>5, <2>6
<1>9. now \in Item
  BY <1>2, <1>8 DEF Ring!Item
<1>10. ItemsLeft = <<now>> \o rest
  BY <1>1, LeftNow
<1>11. left = 1 => ItemsLeft' = <<>> \o rest
  BY <1>1, <1>6, LeftAfter
<1>12. left # 1 => ItemsLeft' = <<next>> \o rest
  BY <1>1, <1>6, LeftAfter
<1>13. left # 1 => next \in Item
  BY <1>1, <1>2, <1>8 DEF Ring!Item
<1>14. /\ now.copied = yes /\ now.at = here /\ now.left = left
       /\ [now EXCEPT !.at = (here + 1) % w, !.left = left - 1] = next
  <2> DEFINE after == (here + 1) % w
             less == left - 1
  <2>1. left' = less /\ behind = after
    BY <1>1, <1>8
  <2> HIDE DEF here, behind, yes, after, less
  <2>2. now.copied = yes /\ now.at = here /\ now.left = left
    OBVIOUS
  <2>3. [now EXCEPT !.at = after, !.left = less]
          = [copied |-> yes, byte |-> 0, at |-> after, left |-> less]
    <3> DEFINE one == [now EXCEPT !.at = after]
    <3>1. one = [copied |-> yes, byte |-> 0, at |-> after, left |-> left]
      BY SMT
    <3> HIDE DEF one
    <3>2. [one EXCEPT !.left = less] = [copied |-> yes, byte |-> 0, at |-> after, left |-> less]
      BY <3>1, SMT
    <3> QED
      BY <3>2 DEF one
  <2> QED
    BY <2>1, <2>2, <2>3 DEF after, less
<1>15. <<>> \o rest = rest
  <2> HIDE DEF rest, Item
  <2> QED
    BY <1>7
<1> HIDE DEF w, rest, here, behind, Item, now, next, yes
<1>16. /\ ItemsLeft # <<>> /\ Head(ItemsLeft) = now /\ Tail(ItemsLeft) = rest
       /\ ItemsLeft[1] = now
       /\ \A y \in Item : [ItemsLeft EXCEPT ![1] = y] = <<y>> \o rest
  BY <1>7, <1>9, <1>10, FirstAndRest
<1>17. CASE WholeWindowBack
  BY <1>1, <1>4, <1>5, <1>17, CopiedIs DEF PutsZero
<1>18. CASE ~WholeWindowBack
  <2>1. Window[here] = Copied
    BY <1>1, <1>18, CopiedIs DEF here, w
  <2>2. ItemsLeft' = IF now.left = 1 THEN Tail(ItemsLeft)
                     ELSE [ItemsLeft EXCEPT ![1] = next]
    BY <1>11, <1>12, <1>13, <1>14, <1>15, <1>16
  <2>3. ItemsLeft \in Seq(Item)
    BY <1>7, <1>9, <1>10
  <2>4. [ItemsLeft EXCEPT ![1].at = (@ + 1) % w, ![1].left = @ - 1]
          = [ItemsLeft EXCEPT ![1] = next]
    BY <1>14, <1>16, <2>3
  <2>5. Ring!Emit
    BY <1>4, <1>14, <1>16, <2>1, <2>2, <2>4 DEF Ring!Emit, w, yes
  <2> QED
    BY <1>5, <2>5
<1> QED
  BY <1>17, <1>18

LEMMA FinishRing ==
  ASSUME RingInv, Finish
  PROVE  RingInv' /\ UNCHANGED Ring!ringVars
<1>1. /\ LzsInv /\ LzsInv' /\ phase = "items" /\ phase' = "done" /\ Whole
      /\ extract_size' = output_offset
      /\ extract_buffer' = [i \in 0 .. output_offset - 1 |-> extract_buffer[i]]
      /\ UNCHANGED <<file, input_offset, control_byte, control_bit, output_offset>>
      /\ output_offset \in Nat
  BY FinishInv DEF RingInv, Finish, WholeRead, LzsInv, LzsTypeOK
<1>2. Whole' /\ Reading' = Reading
  BY <1>1 DEF Whole, InputSize, Reading
<1>3. RingInv'
  BY <1>1, <1>2 DEF RingInv, FreshZeros, WithinWindow, WholeRead
<1>4. Output' = Output /\ Window' = Window
  BY <1>1, OutputSame
<1>5. ItemsLeft' = ItemsLeft
  BY <1>1, <1>2, LeftNow, LeftAfter
<1> QED
  BY <1>3, <1>4, <1>5 DEF Ring!ringVars

\* Decompress is a decoder with a window (common/lzs.h:28-85): it begins as one does, and
\* each of its steps puts out the byte that one would, or none, for every file and every
\* size of a nibble; but for a reference to the byte a whole window back, for which it
\* takes the byte it is about to write and puts out a zero.
THEOREM DecodesAsRing ==
  LzsSpec => Ring!RingInit /\ [][Ring!Emit \/ PutsZero]_(Ring!ringVars)
<1>1. LzsInit => RingInv /\ Ring!RingInit
  BY RingInvInit
<1>2. RingInv /\ [LzsNext]_lzsVars => RingInv' /\ [Ring!Emit \/ PutsZero]_(Ring!ringVars)
  <2> SUFFICES ASSUME RingInv, [LzsNext]_lzsVars
               PROVE  RingInv' /\ (Ring!Emit \/ PutsZero \/ UNCHANGED Ring!ringVars)
    OBVIOUS
  <2>1. CASE Start
    BY <2>1, StartRing
  <2>2. CASE ReadItem
    BY <2>2, ReadItemRing
  <2>3. CASE CopyByte
    BY <2>3, CopyByteRing
  <2>4. CASE Finish
    BY <2>4, FinishRing
  <2>5. CASE UNCHANGED lzsVars
    <3>1. UNCHANGED Ring!ringVars
      BY <2>5 DEF lzsVars, Ring!ringVars, ItemsLeft, Whole, InputSize, Reading, Window, Output
    <3>2. RingInv'
      BY <2>5 DEF lzsVars, RingInv, LzsInv, LzsTypeOK, NothingYet, FreshZeros, WithinWindow,
                  WholeRead, Whole, InputSize
    <3> QED
      BY <3>1, <3>2
  <2> QED
    BY <2>1, <2>2, <2>3, <2>4, <2>5 DEF LzsNext
<1> QED
  BY <1>1, <1>2, PTL DEF LzsSpec
=============================================================================
