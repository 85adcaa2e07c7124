---------------------------- MODULE PackedVector ----------------------------
(***************************************************************************)
(* SecAggVector: vectors of w-bit elements packed into bytes, least        *)
(* significant bits first.  There are two codecs, one element at an index  *)
(* and a branchless one that moves eight bytes at a time; both run on the  *)
(* code's own widths.  Elements, bytes and blocks are Words; byte strings  *)
(* are functions from 0.                                                   *)
(***************************************************************************)
EXTENDS Integers, Sequences, Words

kBlockSize == 8
kBlockSizeBits == 8 * kBlockSize

GetBitWidth(modulus) ==
  LET m == Word(modulus - 1, 31) IN IF m = {} THEN 0 ELSE 1 + Max(m)

NumBytes(n, width) == DivideRoundUp(n * width, 8)

\* PackUint64IntoByteStringAt: the rest of a started byte, whole bytes, and the
\* bits left over.
PackAt(bytes, index, element, width) ==
  LET start == (index * width) % 8
      head  == IF start = 0 THEN 0 ELSE 8 - start
      next  == DivideRoundUp(index * width, 8)
      rest  == ShiftRight(element, head)
      whole == Max({0, (width - head) \div 8})
      tail  == width - head - 8 * whole
  IN  [b \in DOMAIN bytes |->
         CASE start # 0 /\ b = next - 1 ->
                bytes[b] \cup ShiftLeft(LowBits(element, Min({head, width})), start, 8)
           [] b \in next..next+whole-1 -> LowBits(ShiftRight(rest, 8 * (b - next)), 8)
           [] tail > 0 /\ b = next + whole -> bytes[b] \cup ShiftRight(rest, 8 * whole)
           [] OTHER -> bytes[b]]

Pack(span, width) ==
  LET packed[i \in 0..Len(span)] ==
        IF i = 0 THEN [b \in 0..NumBytes(Len(span), width)-1 |-> {}]
        ELSE PackAt(packed[i-1], i - 1, span[i], width)
  IN  packed[Len(span)]

\* UnpackUint64FromByteStringAt: from the most significant bits down.
UnpackAt(bytes, index, width) ==
  LET left  == index * width
      right == (index + 1) * width
      first == left \div 8
      last  == (right - 1) \div 8
      skip  == left % 8
      top   == right % 8
      cur   == IF top = 0 THEN last ELSE last - 1
      whole == (width - top) \div 8
      low   == (width - top) % 8
  IN  IF first = last
      THEN ShiftRight(bytes[first] \cap (skip..skip+width-1), skip)
      ELSE ShiftLeft(LowBits(bytes[last], top), width - top, kBlockSizeBits)
           \cup UNION {ShiftLeft(bytes[cur - j], width - top - 8 * (j + 1), kBlockSizeBits) :
                         j \in 0..whole-1}
           \cup (IF low = 0 THEN {} ELSE ShiftRight(bytes[cur - whole], 8 - low))

Unpack(bytes, n, width) == [i \in 1..n |-> UnpackAt(bytes, i - 1, width)]

\* Eight bytes written at the cursor.
Store(bytes, cursor, block) ==
  [b \in DOMAIN bytes |->
     IF b \in cursor..cursor+kBlockSize-1
     THEN LowBits(ShiftRight(block, 8 * (b - cursor)), 8) ELSE bytes[b]]

\* Mutant: the bits of a value that a block had no room for are dropped.
WriteValueNoRunt(c, value, width) ==
  LET target  == LowBits(c.target, c.start) \cup ShiftLeft(value, c.start, kBlockSizeBits)
      advance == (c.start + width) \div 8
  IN  [bytes |-> Store(c.bytes, c.cursor, target), cursor |-> c.cursor + advance,
       start |-> (c.start + width) % 8, target |-> ShiftRight(target, 8 * advance)]

\* Coder::WriteValue.
WriteValue(c, value, width) ==
  LET target  == LowBits(c.target, c.start) \cup ShiftLeft(value, c.start, kBlockSizeBits)
      advance == (c.start + width) \div 8
      start   == (c.start + width) % 8
      runt    == IF start = 0 THEN {}
                 ELSE ShiftRight(value, (kBlockSizeBits - c.start) % kBlockSizeBits)
  IN  [bytes |-> Store(c.bytes, c.cursor, target), cursor |-> c.cursor + advance,
       start |-> start,
       target |-> IF advance = kBlockSize THEN runt ELSE ShiftRight(target, 8 * advance)]

\* The Coder of a vector, and Create, which cuts the spare block off.
PackBranchless(span, width) ==
  LET n == NumBytes(Len(span), width)
      coder[i \in 0..Len(span)] ==
        IF i = 0 THEN [bytes |-> [b \in 0..n+kBlockSize-1 |-> {}],
                       cursor |-> 0, start |-> 0, target |-> {}]
        ELSE WriteValue(coder[i-1], span[i], width)
      end == coder[Len(span)]
  IN  [b \in 0..n-1 |-> Store(end.bytes, end.cursor, end.target)[b]]

\* Decoder::ReadData: as many of the next eight bytes as there are; the others
\* keep what was read before.
ReadData(d, bytes) ==
  LET remaining == Cardinality(DOMAIN bytes) - d.cursor
      n == Min({kBlockSize, Max({0, remaining})})
      block == UNION {ShiftLeft(bytes[d.cursor + j], 8 * j, kBlockSizeBits) : j \in 0..n-1}
      value == block \cup (d.value \ Ones(8 * n))
  IN  [d EXCEPT !.value = value,
                !.scratch = @ \cup ShiftLeft(value, d.bit, kBlockSizeBits)]

Decoder(bytes) ==
  ReadData([cursor |-> 0, value |-> {}, scratch |-> {}, bit |-> 0], bytes)

\* Decoder::ReadValue: the state after it; the value is the low bits of scratch.
ReadValue(d, bytes, width) ==
  LET shift == width - d.bit
      value == ShiftLeft(ShiftRight(d.value, Max({shift, 0})), Max({-shift, 0}), kBlockSizeBits)
      bit   == d.bit - width
      valid == Min({kBlockSizeBits, kBlockSizeBits - width + d.bit})
      moved == bit + 8 * ((valid - bit) \div 8)
      new   == IF moved = kBlockSizeBits THEN kBlockSizeBits - 8 ELSE moved
  IN  ReadData([cursor |-> d.cursor + (new - bit) \div 8, bit |-> new, value |-> value,
                scratch |-> ShiftRight(d.scratch, width) \cup value], bytes)

UnpackBranchless(bytes, n, width) ==
  LET decoder[i \in 1..n] ==
        IF i = 1 THEN Decoder(bytes) ELSE ReadValue(decoder[i-1], bytes, width)
  IN  [i \in 1..n |-> LowBits(decoder[i].scratch, width)]
=============================================================================
