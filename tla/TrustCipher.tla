----------------------------- MODULE TrustCipher -----------------------------
(***************************************************************************)
(* How main/TrustPlatform.c puts a value into a file and gets it back:     *)
(* aes_encrypt and the fwrite of TPwrite, then TPread and aes_decrypt, in  *)
(* CBC mode block by block, with a file that may have been cut in between. *)
(*                                                                         *)
(* A run is one TPwrite followed by one TPread of the same file.  A buffer *)
(* is a sequence of blocks and a size in bytes, which may end inside the   *)
(* last block.  The block cipher is any permutation with its inverse.      *)
(***************************************************************************)
EXTENDS Integers, Sequences

CONSTANTS
  Block,       \* bytes in a block (16)
  UINT16_MAX,  \* the largest length a caller can name
  Byte,        \* the values of a byte
  XorByte,     \* its exclusive or
  E, D,        \* the block cipher under the system key, and its inverse
  Inputs       \* the buffers handed to TPwrite

Blocks == [1 .. Block -> Byte]
Zero == [j \in 1 .. Block |-> 0]

\* get_qtd_blocks and get_output_size
Qtd(size) == IF size % Block = 0 THEN size \div Block ELSE size \div Block + 1
OutputSize(size) == IF size % Block = 0 THEN size ELSE Block * (size \div Block + 1)

ASSUME SizeAssumption ==
  /\ Block \in Nat \ {0}
  /\ UINT16_MAX \in Nat
  /\ \A b \in Inputs : /\ b.size \in 0 .. UINT16_MAX
                       /\ b.blocks \in Seq(Blocks)
                       /\ Len(b.blocks) = Qtd(b.size)

ASSUME CipherAssumption ==
  /\ 0 \in Byte
  /\ XorByte \in [Byte -> [Byte -> Byte]]
  /\ \A a, b \in Byte : XorByte[XorByte[a][b]][b] = a
  /\ E \in [Blocks -> Blocks]
  /\ D \in [Blocks -> Blocks]
  /\ \A b \in Blocks : D[E[b]] = b

Xor(a, b) == [j \in 1 .. Block |-> XorByte[a[j]][b[j]]]

VARIABLES
  p,     \* what was handed to TPwrite
  pc,    \* where the two calls are
  i,     \* the blocks the loop has done
  iv,
  out,   \* the blocks in p_out
  file,  \* the file in flash
  len,   \* *p_len of TPread
  ret    \* what TPread returned

vars == << p, pc, i, iv, out, file, len, ret >>

NoFile == [blocks |-> << >>, size |-> 0]

\* Every variable has its type.
TypeOK ==
  /\ p \in Inputs
  /\ pc \in {"encrypt", "written", "decrypt", "done"}
  /\ i \in Nat
  /\ iv \in Blocks
  /\ out \in Seq(Blocks)
  /\ file.blocks \in Seq(Blocks) /\ file.size \in Nat
  /\ len \in 0 .. UINT16_MAX
  /\ ret \in {"TP_FAIL", "TP_OK", "TP_ERR_BUFFER_TO_SMALL", "TP_ERR_READ_FILE"}

Init ==
  /\ p \in Inputs
  /\ pc = "encrypt"
  /\ i = 0
  /\ iv = Zero
  /\ out = << >>
  /\ file = NoFile
  /\ len = 0
  /\ ret = "TP_FAIL"

------------------------------------------------------------------------------
(* The two loops.  input_block is zeroed, then filled with what is left of *)
(* the input.                                                              *)

\* A changed loop, which takes over whatever lies behind the end of the input.
InputBlockRaw(buf, k) == buf.blocks[k]

InputBlock(buf, k) ==
  LET left == buf.size - (k - 1) * Block
  IN  IF left < Block THEN [j \in 1 .. Block |-> IF j <= left THEN buf.blocks[k][j] ELSE 0]
                      ELSE buf.blocks[k]

EncryptBlock ==
  /\ pc = "encrypt"
  /\ i < Qtd(p.size)
  /\ iv' = E[Xor(InputBlock(p, i + 1), iv)]
  /\ out' = Append(out, iv')
  /\ i' = i + 1
  /\ UNCHANGED << p, pc, file, len, ret >>

\* A changed loop, which chains with the block it has just decrypted.
ChainsPlain ==
  /\ pc = "decrypt"
  /\ i < Qtd(file.size)
  /\ iv' = Xor(D[InputBlock(file, i + 1)], iv)
  /\ out' = Append(out, iv')
  /\ i' = i + 1
  /\ UNCHANGED << p, pc, file, len, ret >>

DecryptBlock ==
  /\ pc = "decrypt"
  /\ i < Qtd(file.size)
  /\ iv' = InputBlock(file, i + 1)
  /\ out' = Append(out, Xor(D[iv'], iv))
  /\ i' = i + 1
  /\ UNCHANGED << p, pc, file, len, ret >>

------------------------------------------------------------------------------
(* TPwrite and TPread around them.                                         *)

\* fwrite of the padded buffer.
WriteFile ==
  /\ pc = "encrypt"
  /\ i = Qtd(p.size)
  /\ file' = [blocks |-> out, size |-> OutputSize(p.size)]
  /\ pc' = "written"
  /\ UNCHANGED << p, i, iv, out, len, ret >>

\* Not all of it reached the flash: a short write, or a power loss.
CutFile ==
  /\ pc = "written"
  /\ \E size \in 0 .. file.size - 1 :
       file' = [blocks |-> SubSeq(file.blocks, 1, Qtd(size)), size |-> size]
  /\ UNCHANGED << p, pc, i, iv, out, len, ret >>

\* A changed TPread, which lets the last block stand out of the buffer.
ReadFileInto(n) ==
  /\ pc = "written"
  /\ len' = n
  /\ n + Block > file.size /\ pc' = "decrypt" /\ UNCHANGED ret
  /\ i' = 0 /\ iv' = Zero /\ out' = << >>
  /\ UNCHANGED << p, file >>

\* TPread with a buffer of n bytes, up to the decryption.
ReadFile(n) ==
  /\ pc = "written"
  /\ len' = n
  /\ \/ n >= file.size /\ pc' = "decrypt" /\ UNCHANGED ret
     \/ n >= file.size /\ pc' = "done" /\ ret' = "TP_ERR_READ_FILE"
     \/ n < file.size /\ pc' = "done" /\ ret' = "TP_ERR_BUFFER_TO_SMALL"
  /\ i' = 0 /\ iv' = Zero /\ out' = << >>
  /\ UNCHANGED << p, file >>

ReadDone ==
  /\ pc = "decrypt"
  /\ i = Qtd(file.size)
  /\ len' = file.size
  /\ ret' = "TP_OK"
  /\ pc' = "done"
  /\ UNCHANGED << p, i, iv, out, file >>

Next ==
  \/ EncryptBlock \/ WriteFile
  \/ CutFile
  \/ \E n \in 0 .. UINT16_MAX : ReadFile(n)
  \/ DecryptBlock \/ ReadDone

Spec == Init /\ [][Next]_vars

------------------------------------------------------------------------------
(* Properties.                                                             *)

\* TPread gives back what was handed to TPwrite, up to zeros that fill the last block, and
\* of a file that was cut every block that is still whole.
ReadsBack ==
  ret = "TP_OK" =>
    \A k \in 1 .. Qtd(file.size), j \in 1 .. Block : k * Block <= file.size =>
      out[k][j] = IF (k - 1) * Block + j <= p.size THEN p.blocks[k][j] ELSE 0

\* aes_decrypt writes whole blocks, also for the rest of a file that was cut.  They stay
\* within a buffer whose size is a multiple of the block size, as the callers' is.
StaysInBuffer ==
  pc = "decrypt" /\ len % Block = 0 => Len(out) * Block <= len

\* Each ciphertext block is the encryption of its input block chained to the one before it.
Chained(c) ==
  \A k \in DOMAIN c :
    c[k] = E[Xor(InputBlock(p, k), IF k = 1 THEN Zero ELSE c[k - 1])]

\* The inductive invariant: what the two loops have done by the block they are at.
CipherInv ==
  /\ TypeOK
  /\ pc = "encrypt" =>
       /\ Len(out) = i /\ i <= Qtd(p.size)
       /\ iv = IF i = 0 THEN Zero ELSE out[i]
       /\ Chained(out)
  /\ pc # "encrypt" =>
       /\ Len(file.blocks) = Qtd(file.size)
       /\ Len(file.blocks) <= Qtd(p.size)
       /\ Chained(file.blocks)
  /\ pc = "decrypt" \/ ret = "TP_OK" =>
       /\ Len(out) = i /\ i <= Qtd(file.size)
       /\ iv = IF i = 0 THEN Zero ELSE InputBlock(file, i)
       /\ \A k \in 1 .. i : k * Block <= file.size => out[k] = InputBlock(p, k)
  /\ pc = "decrypt" => file.size <= len
  /\ ret = "TP_OK" => pc = "done" /\ i = Qtd(file.size) /\ len = file.size
=============================================================================
