-------------------------- MODULE TrustCipher_proof --------------------------
(***************************************************************************)
(* Proofs about TrustCipher: reading gives back what was written, for      *)
(* every block size, block cipher and input, and of a file that was cut    *)
(* every whole block.                                                      *)
(***************************************************************************)
EXTENDS TrustCipher, TLAPS

(* Arithmetic of block counts.                                             *)

\* What division and remainder are.
LEMMA DivMod ==
  ASSUME NEW n \in Nat, NEW b \in Nat \ {0}
  PROVE  /\ n \div b \in Nat
         /\ n % b \in 0 .. b - 1
         /\ n = b * (n \div b) + (n % b)
  OBVIOUS

\* A product that is smaller has the smaller factor.
LEMMA Between ==
  ASSUME NEW a \in Int, NEW b \in Int, NEW c \in Nat \ {0}
  PROVE  a * c < b * c => a < b
<1> SUFFICES ASSUME a >= b PROVE a * c >= b * c
  OBVIOUS
<1> QED OBVIOUS

\* get_qtd_blocks gives the number of blocks that hold n bytes.
LEMMA QtdBounds ==
  ASSUME NEW n \in Nat
  PROVE  /\ Qtd(n) \in Nat
         /\ n <= Qtd(n) * Block
         /\ Qtd(n) * Block < n + Block
<1> DEFINE d == n \div Block
           m == n % Block
<1>1. Block \in Nat \ {0} BY SizeAssumption
<1>2. d \in Nat /\ m \in 0 .. Block - 1 /\ n = Block * d + m
  BY <1>1, DivMod
<1>3. Qtd(n) = IF m = 0 THEN d ELSE d + 1
  BY DEF Qtd
<1> HIDE DEF d, m
<1> QED BY <1>1, <1>2, <1>3

\* More bytes do not fit in fewer blocks.
LEMMA QtdMono ==
  ASSUME NEW a \in Nat, NEW b \in Nat, a <= b
  PROVE Qtd(a) <= Qtd(b)
<1>1. Block \in Nat \ {0} BY SizeAssumption
<1>2. Qtd(a) \in Nat /\ Qtd(b) \in Nat /\ Qtd(a) * Block < (Qtd(b) + 1) * Block
  BY <1>1, QtdBounds
<1>3. Qtd(a) < Qtd(b) + 1
  BY <1>1, <1>2, Between
<1> QED BY <1>2, <1>3

\* The padded size fills as many blocks, to the end of the last one.
LEMMA QtdOutput ==
  ASSUME NEW n \in Nat
  PROVE OutputSize(n) \in Nat /\ Qtd(OutputSize(n)) = Qtd(n) /\ OutputSize(n) = Qtd(n) * Block
<1> DEFINE d == n \div Block
           m == n % Block
<1>1. Block \in Nat \ {0} BY SizeAssumption
<1>2. d \in Nat /\ m \in 0 .. Block - 1 /\ n = Block * d + m
  BY <1>1, DivMod
<1>3. Qtd(n) = IF m = 0 THEN d ELSE d + 1
  BY DEF Qtd
<1>4. OutputSize(n) = IF m = 0 THEN n ELSE Block * (d + 1)
  BY DEF OutputSize
<1> HIDE DEF d, m
<1>5. OutputSize(n) \in Nat /\ OutputSize(n) = Qtd(n) * Block
  BY <1>1, <1>2, <1>3, <1>4
<1> DEFINE q == Qtd(n)
           r == Qtd(OutputSize(n))
<1>6. q \in Nat /\ r \in Nat /\ q * Block <= r * Block /\ r * Block < q * Block + Block
  BY <1>1, <1>5, QtdBounds
<1> HIDE DEF q, r
<1>7. q * Block < (r + 1) * Block /\ r * Block < (q + 1) * Block
  BY <1>1, <1>6
<1>8. q < r + 1 /\ r < q + 1
  BY <1>1, <1>6, <1>7, Between
<1>9. q = r BY <1>6, <1>8
<1> QED BY <1>5, <1>9 DEF q, r

------------------------------------------------------------------------------
(* Blocks.                                                                 *)

\* Exclusive or stays within blocks and undoes itself.
LEMMA XorBlocks ==
  ASSUME NEW a \in Blocks, NEW b \in Blocks
  PROVE  /\ Xor(a, b) \in Blocks
         /\ Xor(Xor(a, b), b) = a
<1>0. \A x, y \in Byte : XorByte[x][y] \in Byte /\ XorByte[XorByte[x][y]][y] = x
  <2>1. \A x \in Byte : XorByte[x] \in [Byte -> Byte]
    BY CipherAssumption
  <2> QED BY <2>1, CipherAssumption
<1>1. \A j \in 1 .. Block : a[j] \in Byte /\ b[j] \in Byte
  BY DEF Blocks
<1>2. \A j \in 1 .. Block : XorByte[a[j]][b[j]] \in Byte
  BY <1>0, <1>1
<1>3. Xor(a, b) \in Blocks
  BY <1>2 DEF Xor, Blocks
<1>4. \A j \in 1 .. Block : Xor(a, b)[j] = XorByte[a[j]][b[j]]
  BY DEF Xor
<1>5. \A j \in 1 .. Block : XorByte[Xor(a, b)[j]][b[j]] = a[j]
  BY <1>0, <1>1, <1>4
<1>6. Xor(Xor(a, b), b) = [j \in 1 .. Block |-> a[j]]
  BY <1>5 DEF Xor
<1>7. a = [j \in 1 .. Block |-> a[j]]
  BY DEF Blocks
<1> QED BY <1>3, <1>6, <1>7

\* The initialization vector is a block.
LEMMA ZeroBlock == Zero \in Blocks
  BY CipherAssumption DEF Zero, Blocks

\* The block the loop takes from a buffer, and when it is the whole one.
LEMMA InputBlocks ==
  ASSUME NEW buf, buf.blocks \in Seq(Blocks), buf.size \in Nat,
         NEW k \in 1 .. Len(buf.blocks)
  PROVE  /\ InputBlock(buf, k) \in Blocks
         /\ k * Block <= buf.size => InputBlock(buf, k) = buf.blocks[k]
<1> DEFINE left == buf.size - (k - 1) * Block
<1>1. Block \in Nat \ {0} /\ k \in Nat BY SizeAssumption
<1>2. buf.blocks[k] \in Blocks OBVIOUS
<1>3. k * Block <= buf.size => left >= Block
  BY <1>1
<1>4. left \in Int BY <1>1
<1>5. InputBlock(buf, k) =
        IF left < Block THEN [j \in 1 .. Block |-> IF j <= left THEN buf.blocks[k][j] ELSE 0]
                        ELSE buf.blocks[k]
  BY DEF InputBlock
<1> HIDE DEF left
<1>6. [j \in 1 .. Block |-> IF j <= left THEN buf.blocks[k][j] ELSE 0] \in Blocks
  BY <1>2, CipherAssumption DEF Blocks
<1> QED BY <1>1, <1>2, <1>3, <1>4, <1>5, <1>6

\* What TypeOK and the constants' assumption say of the input.
LEMMA InputType ==
  ASSUME p \in Inputs
  PROVE  /\ p.size \in Nat /\ p.blocks \in Seq(Blocks)
         /\ Qtd(p.size) \in Nat
         /\ \A k \in 1 .. Qtd(p.size) : InputBlock(p, k) \in Blocks
<1>1. p.size \in Nat /\ p.blocks \in Seq(Blocks) /\ Len(p.blocks) = Qtd(p.size)
  BY SizeAssumption
<1> QED BY <1>1, QtdBounds, InputBlocks

------------------------------------------------------------------------------
(* The invariant.                                                          *)

\* The invariant holds when TPwrite is called.
THEOREM InitInv == Init => CipherInv
<1> SUFFICES ASSUME Init PROVE CipherInv
  OBVIOUS
<1>1. TypeOK
  <2>1. << >> \in Seq(Blocks) OBVIOUS
  <2> QED BY <2>1, ZeroBlock, SizeAssumption DEF Init, TypeOK, NoFile
<1>2. Len(out) = 0 /\ DOMAIN out = {}
  BY DEF Init
<1> QED BY <1>1, <1>2, InputType DEF Init, CipherInv, Chained

\* One more block encrypted.
LEMMA EncryptStep == CipherInv /\ EncryptBlock => CipherInv'
<1> SUFFICES ASSUME CipherInv, EncryptBlock PROVE CipherInv'
  OBVIOUS
<1>1. /\ pc = "encrypt" /\ i \in Nat /\ iv \in Blocks /\ out \in Seq(Blocks)
      /\ Len(out) = i /\ i < Qtd(p.size) /\ Qtd(p.size) \in Nat
      /\ iv = IF i = 0 THEN Zero ELSE out[i]
      /\ Chained(out)
      /\ ret # "TP_OK" /\ p \in Inputs
  BY InputType DEF EncryptBlock, CipherInv, TypeOK
<1>2. /\ iv' = E[Xor(InputBlock(p, i + 1), iv)] /\ out' = Append(out, iv') /\ i' = i + 1
      /\ UNCHANGED << p, pc, file, len, ret >>
  BY DEF EncryptBlock
<1>3. iv' \in Blocks
  <2>1. InputBlock(p, i + 1) \in Blocks BY <1>1, InputType
  <2>2. Xor(InputBlock(p, i + 1), iv) \in Blocks BY <2>1, <1>1, XorBlocks
  <2> QED BY <2>2, <1>2, CipherAssumption
<1>4. /\ out' \in Seq(Blocks) /\ Len(out') = i + 1
      /\ \A k \in 1 .. i : out'[k] = out[k]
      /\ out'[i + 1] = iv'
  BY <1>1, <1>2, <1>3
<1>5. TypeOK'
  BY <1>1, <1>2, <1>3, <1>4 DEF CipherInv, TypeOK
<1>6. Chained(out)'
  <2>0. DOMAIN out' = 1 .. i + 1 /\ p' = p
    BY <1>2, <1>4
  <2> SUFFICES ASSUME NEW k \in 1 .. i + 1
               PROVE out'[k] = E[Xor(InputBlock(p, k), IF k = 1 THEN Zero ELSE out'[k - 1])]
    BY <2>0 DEF Chained, InputBlock
  <2>1. CASE k = i + 1
    <3>1. iv = IF k = 1 THEN Zero ELSE out'[k - 1]
      BY <2>1, <1>1, <1>4
    <3> QED BY <3>1, <2>1, <1>2, <1>4
  <2>2. CASE k \in 1 .. i
    <3>1. k \in DOMAIN out /\ (k # 1 => k - 1 \in 1 .. i)
      BY <2>2, <1>1
    <3>2. out[k] = E[Xor(InputBlock(p, k), IF k = 1 THEN Zero ELSE out[k - 1])]
      BY <3>1, <1>1 DEF Chained
    <3> QED BY <3>1, <3>2, <2>2, <1>4
  <2> QED BY <2>1, <2>2, <1>1
<1>7. i' <= Qtd(p'.size) /\ iv' = IF i' = 0 THEN Zero ELSE out'[i']
  BY <1>1, <1>2, <1>4
<1> QED BY <1>1, <1>2, <1>4, <1>5, <1>6, <1>7 DEF CipherInv

\* The padded ciphertext is in the file.
LEMMA WriteStep == CipherInv /\ WriteFile => CipherInv'
<1> SUFFICES ASSUME CipherInv, WriteFile PROVE CipherInv'
  OBVIOUS
<1>1. /\ pc = "encrypt" /\ i = Qtd(p.size) /\ out \in Seq(Blocks) /\ Len(out) = i
      /\ Chained(out) /\ ret # "TP_OK" /\ p \in Inputs
  BY DEF WriteFile, CipherInv, TypeOK
<1>2. /\ p.size \in Nat /\ OutputSize(p.size) \in Nat /\ Qtd(OutputSize(p.size)) = Qtd(p.size)
      /\ Qtd(p.size) \in Nat
  BY <1>1, InputType, QtdOutput
<1>3. /\ file'.blocks = out /\ file'.size = OutputSize(p.size) /\ pc' = "written"
      /\ UNCHANGED << p, i, iv, out, len, ret >>
  BY DEF WriteFile
<1>4. TypeOK'
  BY <1>1, <1>2, <1>3 DEF CipherInv, TypeOK
<1>5. Chained(file.blocks)'
  BY <1>1, <1>3 DEF Chained, InputBlock
<1> QED BY <1>1, <1>2, <1>3, <1>4, <1>5 DEF CipherInv

\* A cut file keeps the chain of what is left of it.
LEMMA CutStep == CipherInv /\ CutFile => CipherInv'
<1> SUFFICES ASSUME CipherInv, CutFile PROVE CipherInv'
  OBVIOUS
<1>1. /\ pc = "written" /\ file.blocks \in Seq(Blocks) /\ file.size \in Nat
      /\ Len(file.blocks) = Qtd(file.size) /\ Len(file.blocks) <= Qtd(p.size)
      /\ Chained(file.blocks) /\ ret # "TP_OK" /\ Qtd(p.size) \in Nat
  BY InputType DEF CutFile, CipherInv, TypeOK
<1>2. PICK size \in 0 .. file.size - 1 :
        /\ file' = [blocks |-> SubSeq(file.blocks, 1, Qtd(size)), size |-> size]
        /\ UNCHANGED << p, pc, i, iv, out, len, ret >>
  BY Zenon DEF CutFile
<1> DEFINE q == Qtd(size)
<1>3. size \in Nat /\ q \in Nat /\ q <= Len(file.blocks)
  <2>1. size \in Nat /\ size <= file.size
    BY <1>1
  <2> QED BY <1>1, <2>1, QtdBounds, QtdMono
<1> HIDE DEF q
<1>4. /\ SubSeq(file.blocks, 1, q) \in Seq(Blocks) /\ Len(SubSeq(file.blocks, 1, q)) = q
      /\ \A k \in 1 .. q : SubSeq(file.blocks, 1, q)[k] = file.blocks[k]
  BY <1>1, <1>3
<1>5. /\ file'.blocks \in Seq(Blocks) /\ Len(file'.blocks) = q
      /\ \A k \in 1 .. q : file'.blocks[k] = file.blocks[k]
  BY <1>2, <1>4 DEF q
<1>6. TypeOK'
  BY <1>1, <1>2, <1>3, <1>5 DEF CipherInv, TypeOK
<1>7. Chained(file.blocks)'
  <2>0. DOMAIN file'.blocks = 1 .. q /\ p' = p
    BY <1>2, <1>5
  <2> SUFFICES ASSUME NEW k \in 1 .. q
               PROVE file'.blocks[k] =
                       E[Xor(InputBlock(p, k), IF k = 1 THEN Zero ELSE file'.blocks[k - 1])]
    BY <2>0 DEF Chained, InputBlock
  <2>1. k \in DOMAIN file.blocks /\ (k # 1 => k - 1 \in 1 .. q)
    BY <1>1, <1>3
  <2> QED BY <2>1, <1>1, <1>5 DEF Chained
<1>8. Len(file'.blocks) = Qtd(file'.size) /\ Len(file'.blocks) <= Qtd(p'.size)
  BY <1>1, <1>2, <1>3, <1>5 DEF q
<1> QED BY <1>1, <1>2, <1>6, <1>7, <1>8 DEF CipherInv

\* TPread starts to decrypt, or returns an error.
LEMMA ReadStep == ASSUME NEW n \in 0 .. UINT16_MAX PROVE CipherInv /\ ReadFile(n) => CipherInv'
<1> SUFFICES ASSUME CipherInv, ReadFile(n) PROVE CipherInv'
  OBVIOUS
<1>1. /\ pc = "written" /\ file.size \in Nat /\ ret # "TP_OK" /\ Qtd(file.size) \in Nat
      /\ Len(file.blocks) = Qtd(file.size) /\ Len(file.blocks) <= Qtd(p.size)
      /\ Chained(file.blocks)
  BY QtdBounds DEF ReadFile, CipherInv, TypeOK
<1>2. /\ len' = n /\ i' = 0 /\ iv' = Zero /\ out' = << >> /\ UNCHANGED << p, file >>
      /\ \/ n >= file.size /\ pc' = "decrypt" /\ ret' = ret
         \/ pc' = "done" /\ ret' \in {"TP_ERR_READ_FILE", "TP_ERR_BUFFER_TO_SMALL"}
  BY DEF ReadFile
<1>3. << >> \in Seq(Blocks) /\ Len(<< >>) = 0
  OBVIOUS
<1>4. TypeOK'
  BY <1>2, <1>3, ZeroBlock DEF CipherInv, TypeOK
<1>5. Chained(file.blocks)'
  BY <1>1, <1>2 DEF Chained, InputBlock
<1> QED BY <1>1, <1>2, <1>3, <1>4, <1>5 DEF CipherInv

\* One more block decrypted: of a whole one, the input block comes back.
LEMMA DecryptStep == CipherInv /\ DecryptBlock => CipherInv'
<1> SUFFICES ASSUME CipherInv, DecryptBlock PROVE CipherInv'
  OBVIOUS
<1>1. /\ pc = "decrypt" /\ i \in Nat /\ iv \in Blocks /\ out \in Seq(Blocks)
      /\ file.blocks \in Seq(Blocks) /\ file.size \in Nat /\ p \in Inputs
      /\ Len(file.blocks) = Qtd(file.size) /\ Len(file.blocks) <= Qtd(p.size)
      /\ Chained(file.blocks)
      /\ Len(out) = i /\ i < Qtd(file.size)
      /\ iv = IF i = 0 THEN Zero ELSE InputBlock(file, i)
      /\ \A k \in 1 .. i : k * Block <= file.size => out[k] = InputBlock(p, k)
      /\ file.size <= len /\ ret # "TP_OK"
  BY DEF DecryptBlock, CipherInv, TypeOK
<1>2. /\ iv' = InputBlock(file, i + 1) /\ out' = Append(out, Xor(D[iv'], iv)) /\ i' = i + 1
      /\ UNCHANGED << p, pc, file, len, ret >>
  BY DEF DecryptBlock
<1>3. Block \in Nat \ {0} /\ Qtd(file.size) \in Nat /\ i + 1 \in 1 .. Len(file.blocks)
      /\ i + 1 \in 1 .. Qtd(p.size) /\ Qtd(p.size) \in Nat
  <2>1. Block \in Nat \ {0} /\ Qtd(file.size) \in Nat /\ Qtd(p.size) \in Nat
    BY <1>1, SizeAssumption, QtdBounds, InputType
  <2>2. i + 1 <= Qtd(file.size) /\ i + 1 <= Qtd(p.size)
    BY <1>1, <2>1
  <2> QED BY <1>1, <2>1, <2>2
<1>4. iv' \in Blocks /\ Xor(D[iv'], iv) \in Blocks
  <2>1. iv' \in Blocks BY <1>1, <1>2, <1>3, InputBlocks
  <2>2. D[iv'] \in Blocks BY <2>1, CipherAssumption
  <2> QED BY <2>1, <2>2, <1>1, XorBlocks
<1>5. /\ out' \in Seq(Blocks) /\ Len(out') = i + 1
      /\ \A k \in 1 .. i : out'[k] = out[k]
      /\ out'[i + 1] = Xor(D[iv'], iv)
  BY <1>1, <1>2, <1>4
<1>6. TypeOK'
  BY <1>1, <1>2, <1>4, <1>5 DEF CipherInv, TypeOK
<1>7. (i + 1) * Block <= file.size => out'[i + 1] = InputBlock(p, i + 1)
  <2> SUFFICES ASSUME (i + 1) * Block <= file.size PROVE out'[i + 1] = InputBlock(p, i + 1)
    OBVIOUS
  <2> DEFINE prev == IF i + 1 = 1 THEN Zero ELSE file.blocks[i]
  <2>1. iv' = file.blocks[i + 1]
    BY <1>1, <1>2, <1>3, InputBlocks
  <2>2. iv = prev
    <3>1. CASE i = 0
      BY <3>1, <1>1
    <3>2. CASE i # 0
      <4>1. i \in 1 .. Len(file.blocks) /\ i * Block <= file.size
        BY <3>2, <1>1, <1>3
      <4>2. InputBlock(file, i) = file.blocks[i]
        BY <4>1, <1>1, InputBlocks
      <4> QED BY <3>2, <4>2, <1>1
    <3> QED BY <3>1, <3>2
  <2>3. file.blocks[i + 1] = E[Xor(InputBlock(p, i + 1), prev)]
    <3>1. i + 1 \in DOMAIN file.blocks BY <1>1, <1>3
    <3>2. (i + 1) - 1 = i BY <1>1
    <3> QED BY <3>1, <3>2, <1>1 DEF Chained
  <2>4. InputBlock(p, i + 1) \in Blocks BY <1>1, <1>3, InputType
  <2>5. Xor(InputBlock(p, i + 1), iv) \in Blocks
        /\ Xor(Xor(InputBlock(p, i + 1), iv), iv) = InputBlock(p, i + 1)
    BY <2>4, <1>1, XorBlocks
  <2>6. D[iv'] = Xor(InputBlock(p, i + 1), iv)
    BY <2>1, <2>2, <2>3, <2>5, CipherAssumption
  <2> QED BY <2>5, <2>6, <1>5
<1>8. \A k \in 1 .. i + 1 : k * Block <= file.size => out'[k] = InputBlock(p, k)
  BY <1>1, <1>5, <1>7
<1>9. Chained(file.blocks)'
  BY <1>1, <1>2 DEF Chained, InputBlock
<1>10. /\ i' <= Qtd(file'.size) /\ Len(out') = i' /\ i' # 0
       /\ iv' = InputBlock(file', i')
       /\ \A k \in 1 .. i' : k * Block <= file'.size => out'[k] = InputBlock(p', k)
  <2>1. i' = i + 1 /\ p' = p /\ file' = file /\ (i + 1) - 1 = i
    BY <1>1, <1>2
  <2>2. i' <= Qtd(file'.size) /\ Len(out') = i' /\ i' # 0
    BY <1>1, <1>3, <1>5, <2>1
  <2>3. iv' = InputBlock(file', i')
    BY <1>2, <2>1
  <2>4. \A k \in 1 .. i' : k * Block <= file'.size => out'[k] = InputBlock(p', k)
    BY <1>8, <2>1
  <2> QED BY <2>2, <2>3, <2>4
<1> QED BY <1>1, <1>2, <1>6, <1>9, <1>10 DEF CipherInv, InputBlock

\* TPread returns TP_OK.
LEMMA DoneStep == CipherInv /\ ReadDone => CipherInv'
<1> SUFFICES ASSUME CipherInv, ReadDone PROVE CipherInv'
  OBVIOUS
<1>1. /\ pc = "decrypt" /\ i = Qtd(file.size) /\ file.size \in Nat /\ file.size <= len
      /\ len \in 0 .. UINT16_MAX /\ UINT16_MAX \in Nat
  BY SizeAssumption DEF ReadDone, CipherInv, TypeOK
<1>2. /\ len' = file.size /\ ret' = "TP_OK" /\ pc' = "done"
      /\ UNCHANGED << p, i, iv, out, file >>
  BY DEF ReadDone
<1>3. TypeOK'
  BY <1>1, <1>2 DEF CipherInv, TypeOK
<1> QED BY <1>1, <1>2, <1>3 DEF CipherInv, Chained, InputBlock

\* Every step keeps the invariant.
THEOREM NextInv == CipherInv /\ [Next]_vars => CipherInv'
<1> SUFFICES ASSUME CipherInv, [Next]_vars PROVE CipherInv'
  OBVIOUS
<1>1. CASE UNCHANGED vars
  BY <1>1 DEF vars, CipherInv, TypeOK, Chained, InputBlock
<1> QED BY <1>1, EncryptStep, WriteStep, CutStep, ReadStep, DecryptStep, DoneStep DEF Next

\* The invariant holds in every reachable state.
THEOREM Invariance == Spec => []CipherInv
  BY InitInv, NextInv, PTL DEF Spec

------------------------------------------------------------------------------
(* What it implies.                                                        *)

\* Byte by byte, TPread gives back what was handed to TPwrite, zeros after its end, and of a
\* cut file every block that is whole.
THEOREM RoundTrip == Spec => []ReadsBack
<1>1. CipherInv => ReadsBack
  <2> SUFFICES ASSUME CipherInv, ret = "TP_OK",
                      NEW k \in 1 .. Qtd(file.size), NEW j \in 1 .. Block,
                      k * Block <= file.size
               PROVE out[k][j] = IF (k - 1) * Block + j <= p.size THEN p.blocks[k][j] ELSE 0
    BY DEF ReadsBack
  <2> DEFINE before == (k - 1) * Block
  <2>1. out[k] = InputBlock(p, k)
    BY DEF CipherInv
  <2>2. Block \in Nat \ {0} /\ p.size \in Nat /\ k \in Nat
    <3>1. file.size \in Nat /\ p \in Inputs
      BY DEF CipherInv, TypeOK
    <3>2. Qtd(file.size) \in Nat
      BY <3>1, QtdBounds
    <3> QED BY <3>1, <3>2, SizeAssumption, InputType
  <2>3. before \in Int BY <2>2
  <2>4. InputBlock(p, k) = IF p.size - before < Block
                             THEN [m \in 1 .. Block |-> IF m <= p.size - before
                                                          THEN p.blocks[k][m] ELSE 0]
                             ELSE p.blocks[k]
    BY DEF InputBlock
  <2> HIDE DEF before
  <2>5. out[k][j] = IF before + j <= p.size THEN p.blocks[k][j] ELSE 0
    BY <2>1, <2>2, <2>3, <2>4
  <2> QED BY <2>5 DEF before
<1> QED BY <1>1, Invariance, PTL

\* A buffer of whole blocks is never overrun.
THEOREM InBuffer == Spec => []StaysInBuffer
<1>1. CipherInv => StaysInBuffer
  <2> SUFFICES ASSUME CipherInv, pc = "decrypt", len % Block = 0
               PROVE Len(out) * Block <= len
    BY DEF StaysInBuffer
  <2> DEFINE q == Qtd(file.size)
             c == len \div Block
  <2>1. /\ Block \in Nat \ {0} /\ file.size \in Nat /\ file.size <= len /\ len \in Nat
        /\ Len(out) = i /\ i \in Nat /\ i <= q
    BY SizeAssumption DEF CipherInv, TypeOK
  <2>2. q \in Nat /\ q * Block < file.size + Block
    BY <2>1, QtdBounds
  <2>3. c \in Nat /\ len = Block * c
    <3>1. c \in Nat /\ len = Block * c + (len % Block)
      BY <2>1, DivMod
    <3> HIDE DEF c
    <3>2. len = Block * c + 0
      BY <3>1
    <3> QED BY <2>1, <3>1, <3>2
  <2> HIDE DEF q, c
  <2>4. q * Block < (c + 1) * Block
    BY <2>1, <2>2, <2>3
  <2>5. q < c + 1
    BY <2>1, <2>2, <2>3, <2>4, Between
  <2>6. i <= c
    BY <2>1, <2>2, <2>3, <2>5
  <2> QED BY <2>1, <2>3, <2>6
<1> QED BY <1>1, Invariance, PTL
=============================================================================
