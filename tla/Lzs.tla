-------------------------------- MODULE Lzs ---------------------------------
(***************************************************************************)
(* Lzs::Decompress (common/lzs.h).  A byte is two nibbles of Nibble values *)
(* each, 16 in the source, and the other numbers of the format follow: a   *)
(* reference is three nibbles of a place in a window of 4096 bytes and one *)
(* of a length from 3 to 18, a control byte has a bit for each of 8 items, *)
(* and the output buffer grows by 256 bytes.                               *)
(*                                                                         *)
(* A file is the bytes behind the 4 of its header, and the length that     *)
(* header declares.                                                        *)
(***************************************************************************)
EXTENDS Integers, Sequences

CONSTANTS
  Nibble,       \* the values of half a byte, 16
  ControlBits,  \* the bits of a byte, 8
  Compressed    \* the files

Byte == 0 .. Nibble * Nibble - 1
WindowSize == Nibble * Nibble * Nibble
MinLength == 3
MaxLength == Nibble + 2
BufferStep == Nibble * Nibble

ASSUME LzsAssumption ==
  /\ Nibble \in Nat /\ Nibble >= 2 /\ ControlBits \in Nat \ {0}
  /\ \A f \in Compressed : f.declared \in Nat /\ f.data \in Seq(Byte)

VARIABLES
  file,           \* compressed
  phase,          \* "start", "items", "copy" in the loop over a reference, "done";
                  \*  "aborted", and "undefined" after a read behind the input
  input_offset,   \* the next byte of the data
  control_byte,
  control_bit,
  extract_buffer,
  extract_size,
  output_offset,
  real_offset,    \* the next byte to copy; before the output if negative
  left            \* reference_length - j

lzsVars == <<file, phase, input_offset, control_byte, control_bit, extract_buffer,
             extract_size, output_offset, real_offset, left>>

InputSize == Len(file.data)
Zeros(n) == [i \in 0 .. n - 1 |-> 0]

LzsInit ==
  /\ file \in Compressed
  /\ phase = "start" /\ input_offset = 1 /\ control_byte = 0 /\ control_bit = 0
  /\ extract_size = 0 /\ extract_buffer = Zeros(0)
  /\ output_offset = 0 /\ real_offset = 0 /\ left = 0

\* The size of the input with its header, rounded up; 0 is never the result.
Start ==
  /\ phase = "start"
  /\ IF file.declared # InputSize
     THEN phase' = "aborted" /\ UNCHANGED <<extract_size, extract_buffer>>
     ELSE /\ phase' = "items"
          /\ extract_size' = ((InputSize + 4 + BufferStep - 1) \div BufferStep) * BufferStep
          /\ extract_buffer' = Zeros(extract_size')
  /\ UNCHANGED <<file, input_offset, control_byte, control_bit, output_offset, real_offset, left>>
-----------------------------------------------------------------------------
\* A byte is written before it is known whether there is room for the next one.
FullBehind(offset, size) == offset = size + 1
Full(offset, size) == offset = size

Grown(buffer, size) ==
  [i \in 0 .. size + BufferStep - 1 |-> IF i < size THEN buffer[i] ELSE 0]

Write(byte) ==
  LET written == [extract_buffer EXCEPT ![output_offset] = byte]
      full == Full(output_offset + 1, extract_size)
  IN /\ output_offset' = output_offset + 1
     /\ extract_size' = IF full THEN extract_size + BufferStep ELSE extract_size
     /\ extract_buffer' = IF full THEN Grown(written, extract_size) ELSE written

\* The control byte is read when the last one has been used up.
NewControl == control_bit = 0
Control == IF NewControl THEN file.data[input_offset] ELSE control_byte
BitsLeft == IF NewControl THEN ControlBits ELSE control_bit
ItemOffset == IF NewControl THEN input_offset + 1 ELSE input_offset

ReferenceOffset(byte1, byte2) == byte1 + (byte2 \div Nibble) * Nibble * Nibble
ReferenceLength(byte2) == (byte2 % Nibble) + MinLength

\* The place in the window, relative to the one written next, is taken back from the
\* end of the output; the window is first written MaxLength bytes before its end.
FromWindowStart(offset, reference) == offset - ((offset - reference) % WindowSize)
RealOffset(offset, reference) == offset - ((offset - MaxLength - reference) % WindowSize)

ReadItem ==
  /\ phase = "items" /\ input_offset <= InputSize /\ UNCHANGED file
  /\ control_byte' = Control \div 2 /\ control_bit' = BitsLeft - 1
  /\ \/ /\ Control % 2 = 1 /\ ItemOffset <= InputSize
        /\ input_offset' = ItemOffset + 1 /\ Write(file.data[ItemOffset])
        /\ UNCHANGED <<phase, real_offset, left>>
     \/ /\ Control % 2 = 0 /\ ItemOffset + 1 <= InputSize
        /\ input_offset' = ItemOffset + 2 /\ phase' = "copy"
        /\ real_offset' = RealOffset(output_offset,
                            ReferenceOffset(file.data[ItemOffset], file.data[ItemOffset + 1]))
        /\ left' = ReferenceLength(file.data[ItemOffset + 1])
        /\ UNCHANGED <<extract_buffer, extract_size, output_offset>>
     \/ /\ ItemOffset + 1 - (Control % 2) > InputSize
        /\ phase' = "undefined"
        /\ UNCHANGED <<input_offset, extract_buffer, extract_size, output_offset, real_offset, left>>

Copied == IF real_offset < 0 THEN 0 ELSE extract_buffer[real_offset]

CopyByte ==
  /\ phase = "copy"
  /\ Write(Copied)
  /\ real_offset' = real_offset + 1 /\ left' = left - 1
  /\ phase' = IF left = 1 THEN "items" ELSE "copy"
  /\ UNCHANGED <<file, input_offset, control_byte, control_bit>>

\* The buffer is cut to what has been written.
Finish ==
  /\ phase = "items" /\ input_offset > InputSize
  /\ phase' = "done" /\ extract_size' = output_offset
  /\ extract_buffer' = [i \in 0 .. output_offset - 1 |-> extract_buffer[i]]
  /\ UNCHANGED <<file, input_offset, control_byte, control_bit, output_offset, real_offset, left>>

LzsNext == Start \/ ReadItem \/ CopyByte \/ Finish

LzsSpec == LzsInit /\ [][LzsNext]_lzsVars /\ WF_lzsVars(LzsNext)
-----------------------------------------------------------------------------
(* Properties.                                                             *)

\* The byte written next, and every byte read of the output, lies in the buffer
\* (common/lzs.h:44-50, 71-78), and reading the input never passes its end, unless the
\* behaviour is undefined.
LzsTypeOK ==
  /\ file.declared \in Nat /\ file.data \in Seq(Byte)
  /\ phase \in {"start", "items", "copy", "done", "aborted", "undefined"}
  /\ input_offset \in 1 .. InputSize + 1
  /\ control_byte \in Byte /\ control_bit \in 0 .. ControlBits
  /\ extract_size \in Nat /\ output_offset \in 0 .. extract_size
  /\ extract_buffer \in [0 .. extract_size - 1 -> Byte]
  /\ phase \in {"items", "copy"} => output_offset < extract_size
  /\ left \in 0 .. MaxLength /\ real_offset \in Int /\ real_offset <= output_offset
  /\ phase = "copy" => left > 0
-----------------------------------------------------------------------------
(* The refinement.  The items left are read from the file as the loop      *)
(* reads them, and the window is the last WindowSize bytes of the output.  *)

Whole == file.declared = InputSize

\* Where the loop reads: the next byte, and the control byte and its bits that are left.
Reading == <<input_offset, control_byte, control_bit>>
Places(data) == (1 .. Len(data) + 1) \X Byte \X (0 .. ControlBits)

ControlAt(data, p) == IF p[3] = 0 THEN data[p[1]] ELSE p[2]
BitsAt(p) == IF p[3] = 0 THEN ControlBits ELSE p[3]
OffsetAt(p) == IF p[3] = 0 THEN p[1] + 1 ELSE p[1]
NoItem(data, p) ==
  p[1] > Len(data) \/ OffsetAt(p) + 1 - (ControlAt(data, p) % 2) > Len(data)

ItemAt(data, p) ==
  LET i == OffsetAt(p)
  IN IF ControlAt(data, p) % 2 = 1
     THEN [copied |-> FALSE, byte |-> data[i], at |-> 0, left |-> 1]
     ELSE [copied |-> TRUE, byte |-> 0, at |-> ReferenceOffset(data[i], data[i + 1]),
           left |-> ReferenceLength(data[i + 1])]
Behind(data, p) ==
  <<OffsetAt(p) + 2 - (ControlAt(data, p) % 2), ControlAt(data, p) \div 2, BitsAt(p) - 1>>

ItemsOf(data) ==
  LET items[p \in Places(data)] ==
        IF NoItem(data, p) THEN <<>> ELSE <<ItemAt(data, p)>> \o items[Behind(data, p)]
  IN items

ItemsLeft ==
  IF ~Whole \/ phase = "undefined" THEN <<>>
  ELSE (IF phase = "copy"
        THEN << [copied |-> TRUE, byte |-> 0, at |-> (real_offset - MaxLength) % WindowSize,
                 left |-> left] >>
        ELSE <<>>)
       \o ItemsOf(file.data)[Reading]

Output == [i \in 1 .. output_offset |-> extract_buffer[i - 1]]

Window ==
  [place \in 0 .. WindowSize - 1 |->
     LET written == {i \in 1 .. output_offset : (i - 1 - MaxLength) % WindowSize = place}
     IN IF written = {} THEN 0 ELSE Output[CHOOSE i \in written : \A j \in written : j <= i]]

Ring == INSTANCE RingWindow WITH
          Ahead <- MaxLength, items <- ItemsLeft, ring <- Window, output <- Output

\* Decompress puts out what a decoder with a window puts out, byte by byte, also for
\* references that lie before the output or run into the bytes they copy
\* (common/lzs.h:61), and it comes to an end.
DecodesRing == Ring!RingSpec
=============================================================================
