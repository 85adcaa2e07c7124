----------------------------- MODULE Subsecrets -----------------------------
(***************************************************************************)
(* How ShamirSecretSharing packs the bytes of a secret into subsecrets of  *)
(* kBitsPerSubsecret bits and unpacks them again.                          *)
(***************************************************************************)
EXTENDS Integers, Sequences, SequencesExt, Words

CONSTANTS
  kBitsPerSubsecret,  \* 31 in the code
  ByteBits            \* 8 in the code

ASSUME SubsecretsHoldBytes ==
  /\ ByteBits \in Nat \ {0}
  /\ kBitsPerSubsecret \in Nat
  /\ ByteBits < kBitsPerSubsecret

\* The state of a loop that walks the bytes from the last to the first: the
\* current part, the bits of it that are done, and what has been written.
Loop(parts, cur, done) == [parts |-> parts, cur |-> cur, done |-> done]

\* One byte; the last byte taken (the first of the secret) may end a part
\* exactly, and then no part follows.
DivideByte(l, byte, first) ==
  LET left == kBitsPerSubsecret - l.done
      done == (l.done + ByteBits) % kBitsPerSubsecret
      low  == [l.parts EXCEPT ![l.cur] = @ \cup
                 ShiftLeft(LowBits(byte, left), l.done, kBitsPerSubsecret)]
  IN  CASE left > ByteBits -> Loop(low, l.cur, l.done + ByteBits)
        [] left <= ByteBits /\ first /\ l.done + ByteBits = kBitsPerSubsecret ->
             Loop(low, l.cur, l.done)
        [] OTHER ->
             Loop([low EXCEPT ![l.cur - 1] = @ \cup ShiftRight(byte, ByteBits - done)],
                  l.cur - 1, done)

\* Part 0 stands for the memory before the vector; the loop should end at part 1.
DivideLoop(secret) ==
  LET number == DivideRoundUp(Len(secret) * ByteBits, kBitsPerSubsecret)
      loop[i \in 1..Len(secret)+1] ==
        IF i > Len(secret) THEN Loop([p \in 0..number |-> {}], number, 0)
        ELSE DivideByte(loop[i+1], secret[i], i = 1)
  IN  loop[1]

DivideIntoSubsecrets(secret) ==
  [p \in 1..DivideRoundUp(Len(secret) * ByteBits, kBitsPerSubsecret) |->
     DivideLoop(secret).parts[p]]

\* One byte back.  When the parts have run out the secret keeps its zeroes.
RebuildByte(l, parts, i) ==
  LET left == kBitsPerSubsecret - l.done
      done == (l.done + ByteBits) % kBitsPerSubsecret
      low  == LowBits(ShiftRight(parts[l.cur], l.done), ByteBits)
      high == IF l.cur > 1 THEN LowBits(parts[l.cur - 1], ByteBits - left) ELSE {}
  IN  CASE l.cur = 0 -> l
        [] l.cur > 0 /\ left > ByteBits ->
             Loop([l.parts EXCEPT ![i] = low], l.cur, l.done + ByteBits)
        [] OTHER ->
             Loop([l.parts EXCEPT ![i] = ShiftLeft(high, ByteBits - done, ByteBits) \cup low],
                  l.cur - 1, done)

RebuildFromSubsecrets(parts, length) ==
  LET loop[i \in 1..length+1] ==
        IF i > length THEN Loop([b \in 1..length |-> {}], Len(parts), 0)
        ELSE RebuildByte(loop[i+1], parts, i)
  IN  loop[1].parts
=============================================================================
