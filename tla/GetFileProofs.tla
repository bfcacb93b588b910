--------------------------- MODULE GetFileProofs ---------------------------
(***************************************************************************)
(* Proofs about GetFile: its type invariant, that the local file holds the *)
(* remote one in order, or whole blocks of it while others change the card, *)
(* that success means full length, that failing returns release what they  *)
(* hold, and that it implements FileCopy and DirectoryListing.             *)
(***************************************************************************)
EXTENDS GetFile, ListDirProofs, TransferLemmas, SequenceTheorems, TLAPS

-----------------------------------------------------------------------------
(* Arithmetic. *)

\* A long that fits is not changed by wrapping.
LEMMA WrapFits ==
    ASSUME NEW n \in 0..LongMax
    PROVE  Wrap(n) = n
<1>1. (n + LongMax + 1) % (2 * LongMax + 2) = n + LongMax + 1
  BY ModSmall, GetAssumption DEF GetAssumption
<1> QED
  BY <1>1, GetAssumption DEF Wrap, GetAssumption

LEMMA WrapType == \A n \in Int : Wrap(n) \in Int
  BY GetAssumption DEF Wrap, GetAssumption

\* What the transfer is set up with adds up to the file, and every block number
\* of it fits in the CDB.
LEMMA BlocksAddUp ==
    ASSUME NEW n \in Nat
    PROVE  /\ Quotient(n) \in Nat
           /\ Remainder(n) \in 0..(BlockSize - 1)
           /\ n = BlockSize * Quotient(n) + Remainder(n)
<1>1. BlockSize \in Nat \ {0}
  BY GetAssumption DEF GetAssumption
<1>2. Quotient(n) = n \div BlockSize /\ Remainder(n) = n % BlockSize
  BY DEF Quotient, Remainder
<1> QED
  BY <1>1, <1>2, DivMod

LEMMA SplitType == \A n \in Int : Quotient(n) \in Int /\ Remainder(n) \in Int
  BY GetAssumption DEF Quotient, Remainder, GetAssumption

LEMMA OffsetType == \A n \in Int : Offset(n) \in Nat
  BY GetAssumption DEF Offset, GetAssumption

LEMMA OffsetFits ==
    ASSUME NEW n \in Nat, BlockSize * n <= MaxSize
    PROVE  Offset(n) = n
<1>1. SUFFICES n < OffsetLimit
  BY ModSmall, GetAssumption DEF Offset, GetAssumption
<1>2. SUFFICES ASSUME OffsetLimit <= n PROVE FALSE
  BY GetAssumption DEF GetAssumption
<1>3. BlockSize * OffsetLimit <= BlockSize * n
  BY <1>2, GetAssumption DEF GetAssumption
<1> QED
  BY <1>3, GetAssumption, ListAssumption DEF GetAssumption, ListAssumption

LEMMA CycleType == LongMax \in Nat /\ Cycle \in Nat \ {0} /\ BlockSize \in Nat \ {0}
  BY GetAssumption DEF Cycle, GetAssumption

\* Wrapping takes away a multiple of what a long can count.
LEMMA WrapCycle ==
    ASSUME NEW n \in Int
    PROVE  \E w \in Int : Wrap(n) = n + Cycle * w
<1> DEFINE m == n + LongMax + 1
           d == m \div Cycle
<1>1. /\ m \in Int /\ d \in Int /\ m % Cycle \in Int
      /\ m = Cycle * d + (m % Cycle)
  <2>1. m \in Int /\ Cycle \in Nat \ {0}
    BY CycleType
  <2> HIDE DEF m
  <2> QED
    BY <2>1, DivModInt
<1>2. Wrap(n) = (m % Cycle) - (LongMax + 1)
  BY DEF Wrap, Cycle
<1>3. m = n + (LongMax + 1) /\ LongMax + 1 \in Int
  BY CycleType
<1> HIDE DEF m, d
<1>4. -d \in Int /\ Cycle * (-d) = -(Cycle * d) /\ Cycle * d \in Int
  BY <1>1, CycleType
<1>5. Wrap(n) = n + Cycle * (-d)
  BY <1>1, <1>2, <1>3, <1>4
<1> QED
  BY <1>4, <1>5

\* A quotient and a remainder that are cut towards zero add up, of negative numbers
\* too.
LEMMA SplitSum ==
    ASSUME NEW n \in Int
    PROVE  n = BlockSize * Quotient(n) + Remainder(n)
<1>1. CASE n >= 0
  BY <1>1, BlocksAddUp
<1>2. CASE ~(n >= 0)
  <2> DEFINE k == -n
             q == k \div BlockSize
             r == k % BlockSize
  <2>1. k \in Nat /\ BlockSize \in Nat \ {0}
    BY <1>2, CycleType
  <2>a. Quotient(n) = -q /\ Remainder(n) = -r
    BY <1>2 DEF Quotient, Remainder
  <2>b. n = -k
    OBVIOUS
  <2> HIDE DEF k
  <2>2. q \in Nat /\ r \in 0..(BlockSize - 1) /\ k = BlockSize * q + r
    BY <2>1, DivMod
  <2> HIDE DEF q, r
  <2>4. BlockSize * (-q) = -(BlockSize * q) /\ BlockSize * q \in Int
    BY <2>1, <2>2
  <2> QED
    BY <2>1, <2>2, <2>a, <2>b, <2>4
<1> QED
  BY <1>1, <1>2

-----------------------------------------------------------------------------
(* What GET_FILE returns. *)

LEMMA WireOperands ==
    ASSUME NEW i \in 0..MaxCount, NEW n \in Int, NEW len \in Nat
    PROVE  /\ OnWire(Platform, GetCmd(i, n, len)).args[1] \in Nat
           /\ OnWire(Platform, GetCmd(i, n, len)).args[2] \in Nat
           /\ Platform # "next" =>
                 /\ OnWire(Platform, GetCmd(i, n, len)).args[1] = i
                 /\ OnWire(Platform, GetCmd(i, n, len)).args[2] = Offset(n)
  BY OffsetType DEF OnWire, WireArgs, GetCmd, ReadCmd, ScsiCmd

\* The answer fills the buffer asked for, with bytes.
LEMMA AnswerType ==
    ASSUME card \in Cards, NEW i \in 0..MaxCount, NEW n \in Int, NEW len \in Nat
    PROVE  /\ Answer(GetCmd(i, n, len)) \in Seq(Bytes)
           /\ Len(Answer(GetCmd(i, n, len))) = len
<1> DEFINE args  == OnWire(Platform, GetCmd(i, n, len)).args
           start == args[2] * BlockSize
           byte(k) == IF args[1] + 1 \in DOMAIN card.files
                         /\ start + k <= card.files[args[1] + 1].size
                      THEN <<card.files[args[1] + 1].body, start + k>> ELSE Zero
<1>1. Answer(GetCmd(i, n, len)) = [k \in 1..len |-> byte(k)]
  BY DEF Answer, GetCmd, ReadCmd, ScsiCmd, Buffer
<1>2. args[1] \in Nat /\ start \in Nat
  <2>1. args[1] \in Nat /\ args[2] \in Nat
    BY WireOperands
  <2> QED
    BY <2>1, GetAssumption DEF GetAssumption
<1>3. ASSUME NEW k \in 1..len PROVE byte(k) \in Bytes
  <2>1. CASE args[1] + 1 \in DOMAIN card.files
    <3>1. card.files[args[1] + 1] \in Files
      BY <2>1, CardType, ElementOfSeq, LenProperties
    <3> QED
      BY <3>1, <1>2 DEF Bytes, Files
  <2>2. CASE args[1] + 1 \notin DOMAIN card.files
    BY <2>2 DEF Bytes
  <2> QED
    BY <2>1, <2>2
<1> HIDE DEF byte
<1>4. [k \in 1..len |-> byte(k)] \in [1..len -> Bytes]
  BY <1>3
<1>5. [k \in 1..len |-> byte(k)] \in Seq(Bytes) /\ Len([k \in 1..len |-> byte(k)]) = len
  BY <1>4, SeqDef, LenProperties
<1> QED
  BY <1>1, <1>5

\* On a platform that passes the operands on, the answer for block n of index i is
\* that part of whatever file has the index now.
LEMMA AnswerBytes ==
    ASSUME Platform # "next", NEW i \in 0..MaxCount, NEW n \in Nat, BlockSize * n <= MaxSize,
           NEW len \in Nat
    PROVE  \A k \in 1..len : Answer(GetCmd(i, n, len))[k] = ByteAt(card, i, BlockSize * n + k)
<1>1. /\ OnWire(Platform, GetCmd(i, n, len)).args[1] = i
      /\ OnWire(Platform, GetCmd(i, n, len)).args[2] = n
  <2>1. n \in Int
    OBVIOUS
  <2>2. /\ OnWire(Platform, GetCmd(i, n, len)).args[1] = i
        /\ OnWire(Platform, GetCmd(i, n, len)).args[2] = Offset(n)
    BY <2>1, WireOperands, Zenon
  <2> QED
    BY <2>2, OffsetFits, Zenon
<1>2. n * BlockSize = BlockSize * n
  BY GetAssumption DEF GetAssumption
<1>3. GetCmd(i, n, len).recv.len = len
  BY DEF GetCmd, ReadCmd, ScsiCmd, Buffer
<1> QED
  BY <1>1, <1>2, <1>3 DEF Answer, ByteAt

\* Of a file that goes on for as long, these are its own bytes.
LEMMA AnswerContents ==
    ASSUME Platform # "next", card \in Cards,
           NEW i \in 1..Len(card.files), NEW n \in Nat, NEW len \in Nat,
           BlockSize * n + len <= card.files[i].size
    PROVE  \A k \in 1..len : Answer(GetCmd(i - 1, n, len))[k]
                                = <<card.files[i].body, BlockSize * n + k>>
<1>1. card.files[i] \in Files /\ DOMAIN card.files = 1..Len(card.files)
  BY CardType, ElementOfSeq, LenProperties
<1>2. BlockSize * n \in Nat /\ BlockSize * n <= MaxSize /\ card.files[i].size \in Nat
  BY <1>1, GetAssumption, ListAssumption DEF Files, GetAssumption, ListAssumption
<1>3. i - 1 \in 0..MaxCount /\ i - 1 + 1 = i
  <2>1. Len(card.files) \in Nat /\ Len(card.files) <= MaxCount
    BY CardType, MaxCountType
  <2> QED
    BY <2>1, MaxCountType
<1>4. \A k \in 1..len : BlockSize * n + k <= card.files[i].size
  BY <1>2
<1> QED
  <2>1. \A k \in 1..len : Answer(GetCmd(i - 1, n, len))[k] = ByteAt(card, i - 1, BlockSize * n + k)
    <3>1. i - 1 \in 0..MaxCount
      BY <1>3
    <3> QED
      BY <1>2, <3>1, AnswerBytes
  <2>2. \A k \in 1..len : ByteAt(card, i - 1, BlockSize * n + k)
                            = <<card.files[i].body, BlockSize * n + k>>
    BY <1>1, <1>3, <1>4 DEF ByteAt
  <2> QED
    BY <2>1, <2>2

-----------------------------------------------------------------------------
(* The inductive invariant. *)

Started == pc \in {"transfer", "close"} \/ (pc = "exit" /\ ret = NO_ERROR)

\* Where the two programs are, and what they hold there.
Control ==
    /\ past # <<>> /\ past[Len(past)] = card
    /\ toolbox_cmd = TOOLBOX_SCSI_LIST_FILES
    /\ pc = "call" => lpc = "call"
    /\ pc \in {"call", "listing"} => f = 0
    /\ Started \/ pc = "open" => f # 0
    /\ f = 0 \/ pc = "open" => local = <<>> /\ fp = "none" /\ blocks_transferred = 0
    /\ f # 0 => /\ blocks = Quotient(FileSize(dir[f]))
                /\ last_block_size = Remainder(FileSize(dir[f]))
    /\ pc = "listing" /\ ~(lpc = "returned" /\ lret = NO_ERROR) => heap = {}
    /\ pc = "call" => heap = {}
    /\ pc = "exit" /\ ret # NO_ERROR => fp # "open" /\ heap = {}
    /\ pc = "transfer" \/ pc = "close" => fp \in {"open", "null"}

\* What has been written, by where the transfer is.
Progress ==
    f # 0 /\ FitsLong(dir[f].size) =>
        /\ blocks_transferred \in 0..blocks
        /\ Len(local) <= dir[f].size
        /\ pc \in {"open", "transfer"} =>
              /\ Len(local) <= BlockSize * blocks_transferred
              /\ failures = 0 => Len(local) = BlockSize * blocks_transferred
        /\ (pc = "close" \/ (pc = "exit" /\ ret = NO_ERROR)) /\ failures = 0
             => Len(local) = dir[f].size

\* The same for any size, but for a multiple of what a long can count.
Modular ==
    f # 0 /\ failures = 0 =>
        \E q \in Int :
            /\ pc \in {"open", "transfer"}
                 => Len(local) = BlockSize * blocks_transferred + Cycle * q
            /\ pc = "close" \/ (pc = "exit" /\ ret = NO_ERROR)
                 => Len(local) = dir[f].size + Cycle * q

\* The sequence s holds bytes of the body up to position n, in their order.
InOrder(s, body, n) ==
    /\ \A k \in 1..Len(s) : \E p \in 1..n : s[k] = <<body, p>>
    /\ \A j, k \in 1..Len(s) : j < k => s[j][2] < s[k][2]

\* While nobody else has touched the card, the listing agrees with it, and
\* what has been written is of the file, up to where the transfer is.
Untouched ==
    changes = 0 =>
        /\ lpc = "list" => file_count <= Len(card.files)
        /\ Len(dir) <= Len(card.files)
        /\ \A i \in 1..Len(dir) : dir[i] = Entry(card.files, i)
        /\ f # 0 /\ FitsLong(dir[f].size) =>
             /\ InOrder(local, Remote.body, Remote.size)
             /\ pc = "transfer" => InOrder(local, Remote.body, BlockSize * blocks_transferred)
             /\ failures = 0 => \A k \in 1..Len(local) : local[k] = <<Remote.body, k>>

IInv == TypeOK /\ Control /\ Progress /\ Modular /\ (Platform # "next" => Untouched)

-----------------------------------------------------------------------------
(* Initially. *)

LEMMA InitIInv == Init => IInv
<1> SUFFICES ASSUME Init PROVE IInv
  OBVIOUS
<1>1. <<>> \in Seq(Entries) /\ <<>> \in Seq(Bytes) /\ Len(<<>>) = 0
  BY EmptySeq
<1>2. changes \in 0..MaxChanges /\ file_count \in 0..MaxCount
  BY MaxCountType, ListAssumption DEF Init, ListInit, ListAssumption
<1>a. ListTypeOK
  BY <1>1, <1>2 DEF Init, ListInit, ListTypeOK, ReturnCodes
<1>b. f \in 0..Len(dir)
  <2>1. \A n \in Nat : 0 \in 0..n
    OBVIOUS
  <2> QED
    BY <1>1, <2>1, LenProperties DEF Init, ListInit
<1>c. /\ blocks \in Int /\ last_block_size \in Int /\ blocks_transferred \in Int
      /\ local \in Seq(Bytes)
  BY <1>1 DEF Init
<1>e. past \in Seq(Cards) /\ past # <<>> /\ past[Len(past)] = card /\ failures \in 0..MaxFailures
  <2>1. <<card>> \in Seq(Cards) /\ Len(<<card>>) = 1 /\ <<card>> # <<>> /\ <<card>>[1] = card
    BY DEF Init, ListInit
  <2> QED
    BY <2>1, GetAssumption DEF Init, GetAssumption
<1>d. TypeOK
  BY <1>a, <1>b, <1>c, <1>e, Zenon DEF Init, TypeOK, ReturnCodes
<1>3. Control /\ Progress /\ Modular
  BY <1>e DEF Init, ListInit, Control, Started, Progress, Modular, NO_ERROR
<1>4. Untouched
  BY <1>1, CardType DEF Init, ListInit, Untouched
<1> QED
  BY <1>d, <1>3, <1>4 DEF IInv

-----------------------------------------------------------------------------
(* Types. *)

\* What GET_FILE brings is a sequence of bytes, of the length asked for.
LEMMA BlockType ==
    ASSUME TypeOK, f # 0, NEW n \in Int, NEW len \in Nat
    PROVE  /\ Answer(GetCmd(dir[f].index, n, len)) \in Seq(Bytes)
           /\ Len(Answer(GetCmd(dir[f].index, n, len))) = len
<1>1. f \in 1..Len(dir)
  BY DEF TypeOK, ListTypeOK
<1>2. dir[f] \in Entries
  BY <1>1, ElementOfSeq DEF TypeOK, ListTypeOK
<1>3. dir[f].index \in 0..MaxCount
  BY <1>2 DEF Entries
<1> QED
  BY <1>3, AnswerType DEF TypeOK, ListTypeOK

\* What a write leaves in the file: what was there and the beginning of its buffer.
LEMMA WriteType ==
    ASSUME TypeOK, NEW bytes \in Seq(Bytes), WriteLocal(bytes)
    PROVE  /\ local' \in Seq(Bytes) /\ failures' \in 0..MaxFailures
           /\ failures' = 0 => failures = 0 /\ local' = local \o bytes
           /\ \E n \in 0..Len(bytes) :
                 /\ Len(local') = Len(local) + n
                 /\ \A k \in 1..(Len(local) + n) :
                       local'[k] = IF k <= Len(local) THEN local[k] ELSE bytes[k - Len(local)]
                 /\ failures' = 0 => n = Len(bytes)
<1>0. /\ local \in Seq(Bytes) /\ Len(local) \in Nat /\ Len(bytes) \in Nat
      /\ failures \in 0..MaxFailures /\ MaxFailures \in Nat
  BY LenProperties, GetAssumption DEF TypeOK, GetAssumption
<1>1. CASE local' = local \o bytes /\ UNCHANGED failures
  <2>1. /\ local \o bytes \in Seq(Bytes) /\ Len(local \o bytes) = Len(local) + Len(bytes)
        /\ \A k \in 1..(Len(local) + Len(bytes)) :
              (local \o bytes)[k] = IF k <= Len(local) THEN local[k] ELSE bytes[k - Len(local)]
    BY <1>0, ConcatProperties
  <2>2. Len(bytes) \in 0..Len(bytes)
    BY <1>0
  <2> QED
    BY <1>0, <1>1, <2>1, <2>2
<1>2. CASE /\ failures < MaxFailures
           /\ failures' = failures + 1
           /\ \E n \in 0..(Len(bytes) - 1) : local' = local \o SubSeq(bytes, 1, n)
  <2>1. PICK n \in 0..(Len(bytes) - 1) : local' = local \o SubSeq(bytes, 1, n)
    BY <1>2
  <2>2. n \in 0..Len(bytes) /\ n \in Nat
    BY <1>0
  <2> DEFINE part == SubSeq(bytes, 1, n)
  <2>3. /\ part \in Seq(Bytes) /\ Len(part) = n
        /\ \A k \in 1..n : part[k] = bytes[k]
    <3>1. \A k \in 1..n : bytes[k] \in Bytes
      <4>1. \A k \in 1..n : k \in 1..Len(bytes)
        BY <1>0, <2>2
      <4> QED
        BY <4>1, ElementOfSeq
    <3>2. /\ SubSeq(bytes, 1, n) \in Seq(Bytes)
          /\ Len(SubSeq(bytes, 1, n)) = IF 1 <= n THEN n - 1 + 1 ELSE 0
          /\ \A k \in 1..(n - 1 + 1) : SubSeq(bytes, 1, n)[k] = bytes[1 + k - 1]
      BY <2>2, <3>1, SubSeqProperties
    <3> QED
      BY <2>2, <3>2
  <2> HIDE DEF part
  <2>4. /\ local \o part \in Seq(Bytes) /\ Len(local \o part) = Len(local) + n
        /\ \A k \in 1..(Len(local) + n) :
              (local \o part)[k] = IF k <= Len(local) THEN local[k] ELSE part[k - Len(local)]
    BY <1>0, <2>3, ConcatProperties
  <2>5. ASSUME NEW k \in 1..(Len(local) + n)
        PROVE  (local \o part)[k] = IF k <= Len(local) THEN local[k] ELSE bytes[k - Len(local)]
    <3>1. k > Len(local) => k - Len(local) \in 1..n
      BY <1>0, <2>2
    <3> QED
      BY <1>0, <2>2, <2>3, <2>4, <3>1
  <2>6. local' = local \o part
    BY <2>1 DEF part
  <2>7. failures' # 0 /\ failures' \in 0..MaxFailures
    BY <1>0, <1>2
  <2> QED
    BY <2>2, <2>4, <2>5, <2>6, <2>7
<1> QED
  BY <1>1, <1>2 DEF WriteLocal

\* What closing the file leaves in it: all of it, or its beginning.
LEMMA CloseType ==
    ASSUME TypeOK, CloseLocal
    PROVE  /\ local' \in Seq(Bytes) /\ failures' \in 0..MaxFailures /\ fp' = "closed"
           /\ failures' = 0 => failures = 0 /\ local' = local
           /\ Len(local') \in Nat /\ Len(local') <= Len(local)
           /\ \A k \in 1..Len(local') : local'[k] = local[k]
<1>0. /\ local \in Seq(Bytes) /\ Len(local) \in Nat
      /\ failures \in 0..MaxFailures /\ MaxFailures \in Nat
  BY LenProperties, GetAssumption DEF TypeOK, GetAssumption
<1>1. CASE UNCHANGED <<local, failures>>
  BY <1>0, <1>1 DEF CloseLocal
<1>2. CASE /\ failures < MaxFailures
           /\ failures' = failures + 1
           /\ \E n \in 0..(Len(local) - 1) : local' = SubSeq(local, 1, n)
  <2>1. PICK n \in 0..(Len(local) - 1) : local' = SubSeq(local, 1, n)
    BY <1>2
  <2>2. n \in Nat /\ n <= Len(local)
    BY <1>0
  <2>3. \A k \in 1..n : local[k] \in Bytes
    <3>1. \A k \in 1..n : k \in 1..Len(local)
      BY <1>0, <2>2
    <3> QED
      BY <1>0, <3>1, ElementOfSeq
  <2>4. /\ SubSeq(local, 1, n) \in Seq(Bytes)
        /\ Len(SubSeq(local, 1, n)) = IF 1 <= n THEN n - 1 + 1 ELSE 0
        /\ \A k \in 1..(n - 1 + 1) : SubSeq(local, 1, n)[k] = local[1 + k - 1]
    BY <2>2, <2>3, SubSeqProperties
  <2>5. /\ Len(SubSeq(local, 1, n)) = n
        /\ \A k \in 1..n : SubSeq(local, 1, n)[k] = local[k]
    BY <2>2, <2>4
  <2> QED
    BY <1>0, <1>2, <2>1, <2>2, <2>4, <2>5 DEF CloseLocal
<1> QED
  BY <1>1, <1>2 DEF CloseLocal

LEMMA TypeStep ==
    ASSUME TypeOK, Control, [Next]_vars
    PROVE  TypeOK'
<1> USE DEF TypeOK, ReturnCodes
<1>1. CASE CallGet
  BY <1>1 DEF CallGet, ListTypeOK, Return, INVALID_ARGS
<1>2. CASE Listing
  <2>1. ListTypeOK' /\ f = 0
    BY <1>2, ListStepType DEF Listing, Control
  <2>2. Len(dir') \in Nat
    BY <2>1, LenProperties DEF ListTypeOK
  <2> QED
    BY <1>2, <2>1, <2>2 DEF Listing, getVars
<1>3. CASE Scan
  <2>1. \A k \in 1..Len(dir) : dir[k] \in Entries
    BY ElementOfSeq DEF ListTypeOK
  <2>2. \A k \in 1..Len(dir) : FileSize(dir[k]) \in Int
    <3>1. \A k \in 1..Len(dir) : dir[k].size \in Int
      BY <2>1, ListAssumption DEF Entries, ListAssumption
    <3> QED
      BY <3>1, WrapType DEF FileSize
  <2>a. ASSUME NEW k \in 1..Len(dir)
        PROVE  Quotient(FileSize(dir[k])) \in Int /\ Remainder(FileSize(dir[k])) \in Int
    BY <2>2, SplitType
  <2>b. ASSUME NEW k \in 0..Len(dir), k # 0 PROVE k \in 1..Len(dir)
    <3>1. Len(dir) \in Nat
      BY LenProperties DEF ListTypeOK
    <3>2. k \in Int /\ 0 <= k /\ k <= Len(dir)
      BY <2>b, <3>1
    <3> QED
      BY <2>b, <3>1, <3>2
  <2>3. blocks' \in Int /\ last_block_size' \in Int
    <3>1. CASE blocks' = blocks /\ last_block_size' = last_block_size
      BY <3>1
    <3>2. CASE \E k \in 0..Len(dir) : /\ k # 0
                                     /\ blocks' = Quotient(FileSize(dir[k]))
                                     /\ last_block_size' = Remainder(FileSize(dir[k]))
      BY <3>2, <2>a, <2>b
    <3> QED
      BY <1>3, <3>1, <3>2, Zenon DEF Scan
  <2>4. f' \in 0..Len(dir) /\ ret' \in ReturnCodes /\ heap' \subseteq {"entries", "dir"}
    BY <1>3 DEF Scan, Return, ListTypeOK, CMD_FAILED, NOT_FOUND
  <2> QED
    BY <1>3, <2>3, <2>4 DEF Scan, Return, ListTypeOK
<1>4. CASE Open
  BY <1>4, EmptySeq DEF Open, listVars, ListTypeOK
<1>5. CASE Block
  <2>1. f # 0
    BY <1>5 DEF Block, Control, Started
  <2>2. local' \in Seq(Bytes) /\ failures' \in 0..MaxFailures
    BY <1>5, <2>1, BlockType, WriteType, GetAssumption DEF Block, GetAssumption
  <2> QED
    BY <1>5, <2>2, WrapType DEF Block, listVars, ListTypeOK
<1>6. CASE LastBlock
  <2>1. f # 0
    BY <1>6 DEF LastBlock, Control, Started
  <2>2. local' \in Seq(Bytes) /\ failures' \in 0..MaxFailures
    BY <1>6, <2>1, BlockType, WriteType DEF LastBlock
  <2> QED
    BY <1>6, <2>2 DEF LastBlock, listVars, ListTypeOK
<1>7. CASE OverlongLastBlock
  BY <1>7 DEF OverlongLastBlock, listVars, ListTypeOK
<1>8. CASE CommandFails
  BY <1>8, CloseType DEF CommandFails, Return, ListTypeOK, CMD_FAILED
<1>9. CASE UseOfNullFile
  BY <1>9 DEF UseOfNullFile, listVars, ListTypeOK
<1>10. CASE Close
  BY <1>10, CloseType DEF Close, Return, listVars, ListTypeOK, NO_ERROR
<1>11. CASE CardChanges
  <2>1. card' \in Cards
    BY <1>11 DEF CardChanges, Change
  <2>2. past' \in Seq(Cards)
    BY <1>11, <2>1, AppendProperties DEF CardChanges
  <2> QED
    BY <1>11, <2>1, <2>2, ListAssumption DEF CardChanges, Change, ListTypeOK, ListAssumption
<1>12. CASE UNCHANGED vars
  BY <1>12 DEF vars, listVars, getVars, ListTypeOK
<1> QED
  BY <1>1, <1>2, <1>3, <1>4, <1>5, <1>6, <1>7, <1>8, <1>9, <1>10, <1>11, <1>12
     DEF Next, GetStep

-----------------------------------------------------------------------------
(* Control. *)

LEMMA ControlStep ==
    ASSUME TypeOK, Control, [Next]_vars
    PROVE  Control'
<1> USE DEF Control, Started
<1>1. CASE CallGet
  BY <1>1 DEF CallGet, Return, NO_ERROR, INVALID_ARGS
<1>2. CASE Listing
  <2>1. CASE Count
    BY <1>2, <2>1 DEF Listing, Count, getVars, INVALID_ARGS, NO_ERROR
  <2>2. CASE List
    BY <1>2, <2>2 DEF Listing, List, ReturnList, getVars
  <2> QED
    BY <1>2, <2>1, <2>2 DEF Listing, ListStep
<1>3. CASE Scan
  <2>1. CASE lret # NO_ERROR
    BY <1>3, <2>1 DEF Scan, Return, CMD_FAILED, NO_ERROR
  <2>2. CASE lret = NO_ERROR
    <3>1. PICK k \in 0..Len(dir) :
             /\ f' = k
             /\ IF k = 0
                THEN /\ Return(NOT_FOUND)
                     /\ heap' = {}
                     /\ UNCHANGED <<blocks, last_block_size>>
                ELSE /\ pc' = "open"
                     /\ blocks' = Quotient(FileSize(dir[k]))
                     /\ last_block_size' = Remainder(FileSize(dir[k]))
                     /\ UNCHANGED <<ret, heap>>
      BY <1>3, <2>2, Zenon DEF Scan
    <3>2. CASE k = 0
      BY <1>3, <2>2, <3>1, <3>2 DEF Scan, Return, NOT_FOUND, NO_ERROR
    <3>3. CASE k # 0
      BY <1>3, <2>2, <3>1, <3>3 DEF Scan, FileSize
    <3> QED
      BY <3>2, <3>3
  <2> QED
    BY <2>1, <2>2
<1>4. CASE Open
  BY <1>4 DEF Open, listVars, FileSize
<1>5. CASE Block
  BY <1>5 DEF Block, listVars, FileSize
<1>6. CASE LastBlock
  BY <1>6 DEF LastBlock, listVars, FileSize
<1>7. CASE OverlongLastBlock
  BY <1>7 DEF OverlongLastBlock, listVars, FileSize
<1>8. CASE CommandFails
  BY <1>8 DEF CommandFails, CloseLocal, Return, FileSize, CMD_FAILED, NO_ERROR
<1>9. CASE UseOfNullFile
  BY <1>9 DEF UseOfNullFile, listVars, FileSize
<1>10. CASE Close
  BY <1>10 DEF Close, CloseLocal, Return, listVars, FileSize, NO_ERROR
<1>11. CASE CardChanges
  <2>1. past \in Seq(Cards) /\ card' \in Cards /\ past' = Append(past, card')
    BY <1>11 DEF CardChanges, Change, TypeOK
  <2>2. past' # <<>> /\ past'[Len(past')] = card'
    <3>1. Len(past) \in Nat /\ Len(past') = Len(past) + 1 /\ past'[Len(past) + 1] = card'
      BY <2>1, LenProperties, AppendProperties
    <3> QED
      BY <3>1, EmptySeq
  <2> QED
    BY <1>11, <2>2 DEF CardChanges, Change, FileSize
<1>12. CASE UNCHANGED vars
  BY <1>12 DEF vars, listVars, getVars, FileSize
<1> QED
  BY <1>1, <1>2, <1>3, <1>4, <1>5, <1>6, <1>7, <1>8, <1>9, <1>10, <1>11, <1>12
     DEF Next, GetStep

-----------------------------------------------------------------------------
(* Progress. *)

\* A size that fits a long is split into blocks and a rest that add up to it.
LEMMA EntrySplit ==
    ASSUME NEW e \in Entries, FitsLong(e.size)
    PROVE  /\ e.size \in 0..MaxSize
           /\ Quotient(FileSize(e)) \in Nat
           /\ Remainder(FileSize(e)) \in 0..(BlockSize - 1)
           /\ e.size = BlockSize * Quotient(FileSize(e)) + Remainder(FileSize(e))
           /\ Quotient(FileSize(e)) <= LongMax
<1> DEFINE q == Quotient(FileSize(e))
<1>1. e.size \in 0..MaxSize /\ e.size \in 0..LongMax
  BY ListAssumption, GetAssumption DEF Entries, FitsLong, ListAssumption, GetAssumption
<1>2. FileSize(e) = e.size /\ e.size \in Nat
  BY <1>1, WrapFits, GetAssumption DEF FileSize, GetAssumption
<1>3. /\ q \in Nat
      /\ Remainder(FileSize(e)) \in 0..(BlockSize - 1)
      /\ e.size = BlockSize * q + Remainder(FileSize(e))
  BY <1>2, BlocksAddUp
<1> HIDE DEF q
<1>4. q <= BlockSize * q /\ BlockSize * q \in Nat
  BY <1>3, GetAssumption DEF GetAssumption
<1>5. q <= LongMax
  BY <1>1, <1>3, <1>4, GetAssumption DEF GetAssumption
<1> QED
  BY <1>1, <1>3, <1>5 DEF q

LEMMA SizeSplit ==
    ASSUME TypeOK, Control, f # 0, FitsLong(dir[f].size)
    PROVE  /\ f \in 1..Len(dir) /\ dir[f] \in Entries
           /\ dir[f].size \in 0..MaxSize
           /\ blocks \in Nat /\ last_block_size \in 0..(BlockSize - 1)
           /\ dir[f].size = BlockSize * blocks + last_block_size
           /\ blocks <= LongMax
<1>1. Len(dir) \in Nat
  BY LenProperties DEF TypeOK, ListTypeOK
<1>2. f \in 1..Len(dir)
  BY <1>1 DEF TypeOK
<1>3. dir[f] \in Entries
  BY <1>2, ElementOfSeq DEF TypeOK, ListTypeOK
<1> QED
  BY <1>2, <1>3, EntrySplit DEF Control

\* There is as much left of the file as the next command asks for.
LEMMA Room ==
    ASSUME TypeOK, Control, Progress, f # 0, FitsLong(dir[f].size)
    PROVE  /\ blocks \in Nat /\ last_block_size \in 0..(BlockSize - 1)
           /\ blocks_transferred \in 0..blocks /\ dir[f].size <= MaxSize
           /\ BlockSize * blocks_transferred \in Nat
           /\ BlockSize * blocks_transferred <= dir[f].size
           /\ Block => BlockSize * blocks_transferred + BlockSize <= dir[f].size
           /\ LastBlock => BlockSize * blocks_transferred + last_block_size <= dir[f].size
<1>0. BlockSize \in Nat \ {0} /\ MaxSize \in Nat
  BY GetAssumption, ListAssumption DEF GetAssumption, ListAssumption
<1>1. /\ dir[f].size = BlockSize * blocks + last_block_size
      /\ blocks \in Nat /\ last_block_size \in 0..(BlockSize - 1)
      /\ blocks_transferred \in 0..blocks /\ dir[f].size \in 0..MaxSize
  BY SizeSplit DEF Progress
<1>2. BlockSize * blocks \in Nat /\ BlockSize * blocks_transferred \in Nat
  BY <1>0, <1>1
<1>3. CASE blocks_transferred = blocks
  BY <1>0, <1>1, <1>2, <1>3 DEF Block
<1>4. CASE blocks_transferred < blocks
  <2>1. /\ BlockSize * (blocks_transferred + 1) = BlockSize * blocks_transferred + BlockSize
        /\ BlockSize * (blocks_transferred + 1) <= BlockSize * blocks
    BY <1>0, <1>1, <1>4, NextBlock
  <2>2. ~LastBlock
    BY <1>1, <1>4 DEF LastBlock
  <2> QED
    BY <1>0, <1>1, <1>2, <2>1, <2>2
<1> QED
  BY <1>1, <1>3, <1>4

LEMMA ProgressStep ==
    ASSUME TypeOK, Control, Progress, [Next]_vars
    PROVE  Progress'
<1>0. LongMax \in Nat /\ BlockSize \in Nat \ {0} /\ MaxSize \in Nat
  BY ListAssumption, GetAssumption DEF ListAssumption, GetAssumption
<1>1. CASE CallGet
  BY <1>1 DEF CallGet, Control, Progress
<1>2. CASE Listing
  BY <1>2 DEF Listing, getVars, Control, Progress
<1>3. CASE Scan
  <2>1. SUFFICES ASSUME f' # 0, FitsLong(dir[f'].size) PROVE Progress'
    BY <1>3 DEF Scan, Progress
  <2>2. /\ f' \in 1..Len(dir) /\ blocks' = Quotient(FileSize(dir[f']))
        /\ pc' = "open" /\ dir' = dir /\ local' = local
        /\ blocks_transferred' = blocks_transferred
    <3>1. \A k \in 0..Len(dir) : k # 0 => k \in 1..Len(dir)
      BY LenProperties DEF TypeOK, ListTypeOK
    <3>2. dir' = dir /\ local' = local /\ blocks_transferred' = blocks_transferred
      BY <1>3 DEF Scan
    <3>3. CASE lret # NO_ERROR
      BY <1>3, <2>1, <3>3 DEF Scan, Control
    <3>4. CASE lret = NO_ERROR
      BY <1>3, <2>1, <3>1, <3>2, <3>4, Zenon DEF Scan
    <3> QED
      BY <3>3, <3>4
  <2>3. dir[f'] \in Entries
    BY <2>2, ElementOfSeq DEF TypeOK, ListTypeOK
  <2>4. blocks' \in Nat /\ dir[f'].size \in Nat
    BY <1>0, <2>1, <2>2, <2>3, EntrySplit
  <2>5. local = <<>> /\ blocks_transferred = 0 /\ Len(local) = 0
    BY <1>3, EmptySeq DEF Scan, Control
  <2> QED
    BY <1>0, <2>2, <2>4, <2>5 DEF Progress
<1>4. SUFFICES ASSUME f # 0, FitsLong(dir[f].size), f' = f, dir' = dir, blocks' = blocks,
                      [Next]_vars, ~CallGet, ~Listing, ~Scan
               PROVE  Progress'
  BY <1>1, <1>2, <1>3 DEF Next, GetStep, vars, listVars, getVars, Open, Block, LastBlock,
     OverlongLastBlock, CommandFails, UseOfNullFile, Close, CardChanges, Change,
     Progress
<1>5. /\ f \in 1..Len(dir) /\ dir[f] \in Entries
      /\ dir[f].size \in Nat
      /\ blocks \in Nat /\ last_block_size \in 0..(BlockSize - 1)
      /\ dir[f].size = BlockSize * blocks + last_block_size
      /\ blocks <= LongMax
  BY <1>0, <1>4, SizeSplit
<1>6. /\ blocks_transferred \in 0..blocks
      /\ Len(local) <= dir[f].size
      /\ pc \in {"open", "transfer"} =>
            /\ Len(local) <= BlockSize * blocks_transferred
            /\ failures = 0 => Len(local) = BlockSize * blocks_transferred
      /\ (pc = "close" \/ (pc = "exit" /\ ret = NO_ERROR)) /\ failures = 0
           => Len(local) = dir[f].size
  BY <1>4 DEF Progress
<1>7. Len(local) \in Nat /\ BlockSize * blocks_transferred \in Nat /\ BlockSize * blocks \in Nat
  BY <1>0, <1>5, <1>6, LenProperties DEF TypeOK
<1>8. SUFFICES /\ blocks_transferred' \in 0..blocks
               /\ Len(local') <= dir[f].size
               /\ pc' \in {"open", "transfer"} =>
                     /\ Len(local') <= BlockSize * blocks_transferred'
                     /\ failures' = 0 => Len(local') = BlockSize * blocks_transferred'
               /\ (pc' = "close" \/ (pc' = "exit" /\ ret' = NO_ERROR)) /\ failures' = 0
                    => Len(local') = dir[f].size
  BY <1>4 DEF Progress
<1>9. CASE Open
  <2>1. blocks_transferred = 0 /\ Len(local') = 0
    BY <1>9, EmptySeq DEF Open, Control
  <2> QED
    BY <1>9, <1>0, <1>5, <2>1 DEF Open
<1>10. CASE Block
  <2>1. /\ blocks_transferred < blocks
        /\ BlockSize * (blocks_transferred + 1) = BlockSize * blocks_transferred + BlockSize
        /\ BlockSize * (blocks_transferred + 1) <= BlockSize * blocks
    <3>1. blocks_transferred < blocks
      BY <1>10, <1>5, <1>6 DEF Block
    <3>2. blocks_transferred \in Nat /\ blocks \in Nat /\ BlockSize \in Nat
      BY <1>0, <1>5, <1>6
    <3> QED
      BY <3>1, <3>2, NextBlock
  <2>2. blocks_transferred' = blocks_transferred + 1
    <3>1. blocks_transferred + 1 \in 0..LongMax
      BY <2>1, <1>0, <1>5, <1>6
    <3> QED
      BY <1>10, <3>1, WrapFits DEF Block
  <2>3. PICK n \in 0..BlockSize :
           /\ Len(local') = Len(local) + n
           /\ failures' = 0 => failures = 0 /\ n = BlockSize
    <3> DEFINE bytes == Answer(GetCmd(dir[f].index, blocks_transferred, BlockSize))
    <3>1. WriteLocal(bytes)
      BY <1>10 DEF Block
    <3>2. blocks_transferred \in Int /\ BlockSize \in Nat
      BY <1>0, <1>5, <1>6
    <3>3. bytes \in Seq(Bytes) /\ Len(bytes) = BlockSize
      BY <3>2, <1>4, BlockType
    <3> HIDE DEF bytes
    <3> QED
      BY <3>1, <3>3, WriteType
  <2>4. pc' = "transfer" /\ pc = "transfer"
    BY <1>10 DEF Block
  <2>5. /\ Len(local) <= BlockSize * blocks_transferred
        /\ BlockSize * blocks_transferred' = BlockSize * blocks_transferred + BlockSize
        /\ BlockSize * blocks_transferred' <= dir[f].size
        /\ blocks_transferred' \in 0..blocks
    BY <2>1, <2>2, <2>4, <1>0, <1>5, <1>6, <1>7
  <2>6. n \in Nat /\ n <= BlockSize
    BY <1>0
  <2>7. Len(local') <= BlockSize * blocks_transferred' /\ Len(local') <= dir[f].size
    <3> DEFINE here == BlockSize * blocks_transferred
               next == BlockSize * blocks_transferred'
    <3>1. /\ here \in Nat /\ Len(local) \in Nat /\ Len(local) <= here
          /\ next = here + BlockSize /\ next <= dir[f].size
      BY <1>7, <2>5
    <3> HIDE DEF here, next
    <3>2. Len(local') <= next
      BY <1>0, <2>3, <2>6, <3>1
    <3>3. Len(local') <= dir[f].size
      BY <1>0, <1>5, <2>3, <2>6, <3>1, <3>2
    <3> QED
      BY <3>2, <3>3 DEF next
  <2>8. failures' = 0 => Len(local') = BlockSize * blocks_transferred'
    BY <2>3, <2>4, <2>5, <1>6
  <2> QED
    BY <2>4, <2>5, <2>7, <2>8
<1>11. CASE LastBlock
  <2>1. PICK n \in 0..last_block_size :
           /\ Len(local') = Len(local) + n
           /\ failures' = 0 => failures = 0 /\ n = last_block_size
    <3> DEFINE bytes == Answer(GetCmd(dir[f].index, blocks_transferred, last_block_size))
    <3>1. WriteLocal(bytes)
      BY <1>11 DEF LastBlock
    <3>2. blocks_transferred \in Int /\ last_block_size \in Nat
      BY <1>0, <1>5, <1>6
    <3>3. bytes \in Seq(Bytes) /\ Len(bytes) = last_block_size
      BY <3>2, <1>4, BlockType
    <3> HIDE DEF bytes
    <3> QED
      BY <3>1, <3>3, WriteType
  <2>2. /\ pc' = "close" /\ pc = "transfer"
        /\ blocks_transferred' = blocks_transferred /\ blocks_transferred = blocks
    BY <1>11 DEF LastBlock
  <2>3. n \in Nat /\ n <= last_block_size /\ last_block_size \in Nat
    BY <1>0, <1>5
  <2>4. /\ Len(local) <= BlockSize * blocks
        /\ failures = 0 => Len(local) = BlockSize * blocks
    BY <2>2, <1>6
  <2>5. Len(local') <= dir[f].size
    BY <2>1, <2>3, <2>4, <1>5, <1>7
  <2>6. failures' = 0 => Len(local') = dir[f].size
    BY <2>1, <2>3, <2>4, <1>5, <1>7
  <2> QED
    BY <2>2, <2>5, <2>6, <1>6
<1>12. CASE OverlongLastBlock
  BY <1>12, <1>6 DEF OverlongLastBlock
<1>13. CASE CommandFails
  <2>1. Len(local') \in Nat /\ Len(local') <= Len(local)
    BY <1>13, CloseType DEF CommandFails
  <2>2. Len(local') <= dir[f].size
    BY <2>1, <1>5, <1>6, <1>7
  <2> QED
    BY <1>13, <2>2, <1>6 DEF CommandFails, Return, CMD_FAILED, NO_ERROR
<1>14. CASE UseOfNullFile
  BY <1>14, <1>6 DEF UseOfNullFile
<1>15. CASE Close
  <2>1. /\ pc' = "exit" /\ blocks_transferred' = blocks_transferred
        /\ pc = "close" \/ (pc = "transfer" /\ blocks_transferred = blocks /\ last_block_size = 0)
    BY <1>15 DEF Close, Return, MoreToFetch
  <2>2. /\ Len(local') \in Nat /\ Len(local') <= Len(local)
        /\ failures' = 0 => failures = 0 /\ local' = local
    BY <1>15, CloseType DEF Close
  <2>3. Len(local') <= dir[f].size
    BY <2>2, <1>5, <1>6, <1>7
  <2>4. failures = 0 => Len(local) = dir[f].size
    BY <2>1, <1>0, <1>5, <1>6, <1>7
  <2> QED
    BY <2>1, <2>2, <2>3, <2>4, <1>6
<1>16. CASE CardChanges
  BY <1>16, <1>6 DEF CardChanges
<1>17. CASE UNCHANGED vars
  BY <1>17, <1>6 DEF vars, getVars
<1> QED
  BY <1>4, <1>9, <1>10, <1>11, <1>12, <1>13, <1>14, <1>15, <1>16, <1>17
     DEF Next, GetStep

-----------------------------------------------------------------------------
(* Lengths of any size. *)

\* The blocks and the rest that are fetched add up to the size of the entry, but for
\* a multiple of what a long can count.
LEMMA SizeSum ==
    ASSUME TypeOK, Control, f # 0
    PROVE  /\ dir[f].size \in Int
           /\ \E w \in Int : BlockSize * blocks + last_block_size = dir[f].size + Cycle * w
<1>1. f \in 1..Len(dir) /\ Len(dir) \in Nat
  BY LenProperties DEF TypeOK, ListTypeOK
<1>2. dir[f] \in Entries
  BY <1>1, ElementOfSeq DEF TypeOK, ListTypeOK
<1>3. dir[f].size \in Int
  BY <1>2, ListAssumption DEF Entries, ListAssumption
<1>4. PICK w \in Int : FileSize(dir[f]) = dir[f].size + Cycle * w
  BY <1>3, WrapCycle DEF FileSize
<1>5. FileSize(dir[f]) \in Int
  BY <1>3, WrapType DEF FileSize
<1>6. FileSize(dir[f]) = BlockSize * blocks + last_block_size
  BY <1>5, SplitSum DEF Control
<1> QED
  BY <1>3, <1>4, <1>6

LEMMA ModularStep ==
    ASSUME TypeOK, Control, Modular, [Next]_vars
    PROVE  Modular'
<1>0. Cycle \in Nat \ {0} /\ BlockSize \in Nat \ {0} /\ Cycle \in Int /\ BlockSize \in Int
  BY CycleType
<1>1. CASE CallGet
  BY <1>1 DEF CallGet, Control, Modular
<1>2. CASE Listing
  BY <1>2 DEF Listing, getVars, Control, Modular
<1>3. CASE Scan \/ Open
  <2>1. SUFFICES ASSUME f' # 0 PROVE Modular'
    BY DEF Modular
  <2>2. pc' \in {"open", "transfer"} /\ local' = <<>> /\ blocks_transferred' = 0
    BY <1>3, <2>1 DEF Scan, Open, Control, Return
  <2>3. Len(local') = BlockSize * blocks_transferred' + Cycle * 0
    BY <1>0, <2>2
  <2> QED
    BY <2>2, <2>3 DEF Modular
<1>4. SUFFICES ASSUME f # 0, failures' = 0, f' = f, dir' = dir,
                      [Next]_vars, ~CallGet, ~Listing, ~Scan, ~Open
               PROVE  \E q \in Int :
                        /\ pc' \in {"open", "transfer"}
                             => Len(local') = BlockSize * blocks_transferred' + Cycle * q
                        /\ pc' = "close" \/ (pc' = "exit" /\ ret' = NO_ERROR)
                             => Len(local') = dir[f].size + Cycle * q
  BY <1>1, <1>2, <1>3 DEF Next, GetStep, vars, listVars, getVars, Block, LastBlock,
     OverlongLastBlock, CommandFails, UseOfNullFile, Close, CardChanges, Change, Modular
<1>5. /\ blocks_transferred \in Int /\ blocks \in Int /\ last_block_size \in Int
      /\ Len(local) \in Nat
  BY LenProperties DEF TypeOK
<1>6. PICK s \in Int : BlockSize * blocks + last_block_size = dir[f].size + Cycle * s
  BY <1>4, SizeSum
<1>a. dir[f].size \in Int
  BY <1>4, SizeSum
<1>7. ASSUME failures = 0
      PROVE  \E q \in Int :
                /\ pc \in {"open", "transfer"}
                     => Len(local) = BlockSize * blocks_transferred + Cycle * q
                /\ pc = "close" \/ (pc = "exit" /\ ret = NO_ERROR)
                     => Len(local) = dir[f].size + Cycle * q
  BY <1>4, <1>7 DEF Modular
<1>8. CASE Block
  <2>1. failures = 0 /\ Len(local') = Len(local) + BlockSize
    <3> DEFINE bytes == Answer(GetCmd(dir[f].index, blocks_transferred, BlockSize))
    <3>1. WriteLocal(bytes)
      BY <1>8 DEF Block
    <3>2. bytes \in Seq(Bytes) /\ Len(bytes) = BlockSize
      BY <1>0, <1>4, <1>5, BlockType
    <3> HIDE DEF bytes
    <3> QED
      BY <1>4, <3>1, <3>2, WriteType
  <2>2. pc = "transfer" /\ pc' = "transfer" /\ blocks_transferred' = Wrap(blocks_transferred + 1)
    BY <1>8 DEF Block
  <2>3. PICK q \in Int : Len(local) = BlockSize * blocks_transferred + Cycle * q
    BY <1>7, <2>1, <2>2
  <2>4. PICK w \in Int : blocks_transferred' = blocks_transferred + 1 + Cycle * w
    BY <1>5, <2>2, WrapCycle
  <2>5. BlockSize * blocks_transferred' + Cycle * (q - BlockSize * w)
          = BlockSize * blocks_transferred + BlockSize + Cycle * q
    BY <1>0, <1>5, <2>3, <2>4, Spread
  <2>6. q - BlockSize * w \in Int
    BY <1>0
  <2>7. Len(local') = BlockSize * blocks_transferred' + Cycle * (q - BlockSize * w)
    <3>1. BlockSize * blocks_transferred \in Int /\ Cycle * q \in Int
      BY <1>0, <1>5
    <3> QED
      BY <1>0, <2>1, <2>3, <2>5, <3>1
  <2> QED
    BY <2>2, <2>6, <2>7
<1>9. CASE LastBlock
  <2>1. failures = 0 /\ Len(local') = Len(local) + last_block_size
    <3> DEFINE bytes == Answer(GetCmd(dir[f].index, blocks_transferred, last_block_size))
    <3>1. WriteLocal(bytes) /\ last_block_size \in Nat
      BY <1>5, <1>9 DEF LastBlock
    <3>2. bytes \in Seq(Bytes) /\ Len(bytes) = last_block_size
      BY <1>4, <1>5, <3>1, BlockType
    <3> HIDE DEF bytes
    <3> QED
      BY <1>4, <3>1, <3>2, WriteType
  <2>2. pc = "transfer" /\ pc' = "close" /\ blocks_transferred = blocks
    BY <1>9 DEF LastBlock
  <2>3. PICK q \in Int : Len(local) = BlockSize * blocks + Cycle * q
    BY <1>7, <2>1, <2>2
  <2>4. Len(local') = dir[f].size + Cycle * (s + q)
    <3>1. Cycle * (s + q) = Cycle * s + Cycle * q /\ BlockSize * blocks \in Int
          /\ Cycle * s \in Int /\ Cycle * q \in Int
      BY <1>0, <1>5
    <3>2. Len(local') = (BlockSize * blocks + last_block_size) + Cycle * q
      BY <1>5, <2>1, <2>3, <3>1
    <3>3. Len(local') = (dir[f].size + Cycle * s) + Cycle * q
      BY <1>6, <3>2
    <3> QED
      BY <1>a, <3>1, <3>3
  <2> QED
    BY <2>2, <2>4
<1>10. CASE Close
  <2>1. failures = 0 /\ local' = local /\ pc' = "exit"
    BY <1>4, <1>10, CloseType DEF Close, Return
  <2>2. CASE pc = "close"
    BY <1>7, <2>1, <2>2
  <2>3. CASE pc = "transfer" /\ ~MoreToFetch
    <3>1. PICK q \in Int : Len(local) = BlockSize * blocks + Cycle * q
      BY <1>7, <2>1, <2>3 DEF MoreToFetch
    <3>2. Len(local) = dir[f].size + Cycle * (s + q)
      <4>1. Cycle * (s + q) = Cycle * s + Cycle * q /\ BlockSize * blocks \in Int
            /\ Cycle * s \in Int /\ Cycle * q \in Int
        BY <1>0, <1>5
      <4>2. last_block_size = 0
        BY <2>3 DEF MoreToFetch
      <4> QED
        BY <1>5, <1>6, <1>a, <3>1, <4>1, <4>2
    <3> QED
      BY <2>1, <3>2
  <2> QED
    BY <1>10, <2>2, <2>3 DEF Close
<1>11. CASE OverlongLastBlock \/ CommandFails \/ UseOfNullFile
  <2>1. pc' = "crashed" \/ (pc' = "exit" /\ ret' # NO_ERROR)
    BY <1>11 DEF OverlongLastBlock, CommandFails, UseOfNullFile, Return, CMD_FAILED, NO_ERROR
  <2>2. 0 \in Int
    OBVIOUS
  <2> QED
    BY <2>1, <2>2
<1>12. CASE CardChanges \/ UNCHANGED vars
  <2>1. UNCHANGED <<pc, ret, local, failures, blocks_transferred>>
    BY <1>12 DEF CardChanges, vars, getVars
  <2> QED
    BY <1>4, <1>7, <2>1
<1> QED
  BY <1>4, <1>8, <1>9, <1>10, <1>11, <1>12 DEF Next, GetStep

-----------------------------------------------------------------------------
(* Contents. *)

\* In order up to one position is in order up to a later one, and so is a beginning.
LEMMA InOrderWider ==
    ASSUME NEW s, NEW body, NEW n \in Nat, NEW m \in Nat, n <= m, InOrder(s, body, n)
    PROVE  InOrder(s, body, m)
<1>1. ASSUME NEW k \in 1..Len(s) PROVE \E p \in 1..m : s[k] = <<body, p>>
  <2>1. PICK p \in 1..n : s[k] = <<body, p>>
    BY DEF InOrder
  <2>2. p \in 1..m
    OBVIOUS
  <2> QED
    BY <2>1, <2>2
<1> QED
  BY <1>1 DEF InOrder

LEMMA InOrderPrefix ==
    ASSUME NEW s, NEW t, NEW body, NEW n \in Nat, InOrder(s, body, n),
           Len(s) \in Nat, Len(t) \in Nat, Len(t) <= Len(s),
           \A k \in 1..Len(t) : t[k] = s[k]
    PROVE  InOrder(t, body, n)
<1>1. \A k \in 1..Len(t) : k \in 1..Len(s)
  OBVIOUS
<1> QED
  BY <1>1 DEF InOrder

\* Bytes from a position on may follow what is in order up to there.
LEMMA InOrderLonger ==
    ASSUME NEW s, NEW t, NEW bytes, NEW body, NEW at \in Nat, NEW len \in Nat,
           NEW n \in 0..len, Len(s) \in Nat, Len(t) = Len(s) + n,
           InOrder(s, body, at),
           \A k \in 1..(Len(s) + n) :
              t[k] = IF k <= Len(s) THEN s[k] ELSE bytes[k - Len(s)],
           \A k \in 1..len : bytes[k] = <<body, at + k>>
    PROVE  InOrder(t, body, at + len)
<1>1. ASSUME NEW k \in 1..Len(t), k <= Len(s)
      PROVE  k \in 1..Len(s) /\ t[k] = s[k] /\ \E p \in 1..at : t[k] = <<body, p>>
  <2>1. k \in 1..Len(s) /\ k \in 1..(Len(s) + n)
    BY <1>1
  <2> QED
    BY <1>1, <2>1 DEF InOrder
<1>2. ASSUME NEW k \in 1..Len(t), ~(k <= Len(s))
      PROVE  /\ at + (k - Len(s)) \in (at + 1)..(at + len)
             /\ t[k] = <<body, at + (k - Len(s))>>
  <2>1. k - Len(s) \in 1..len /\ k \in 1..(Len(s) + n)
    BY <1>2
  <2>2. at + (k - Len(s)) \in (at + 1)..(at + len)
    BY <2>1
  <2> QED
    BY <1>2, <2>1, <2>2
<1>3. ASSUME NEW k \in 1..Len(t) PROVE \E p \in 1..(at + len) : t[k] = <<body, p>>
  <2>1. CASE k <= Len(s)
    <3>1. PICK p \in 1..at : t[k] = <<body, p>>
      BY <1>1, <2>1
    <3>2. p \in 1..(at + len)
      OBVIOUS
    <3> QED
      BY <3>1, <3>2
  <2>2. CASE ~(k <= Len(s))
    <3>1. at + (k - Len(s)) \in 1..(at + len)
      BY <1>2, <2>2
    <3> QED
      BY <1>2, <2>2, <3>1
  <2> QED
    BY <2>1, <2>2
<1>4. ASSUME NEW j \in 1..Len(t), NEW k \in 1..Len(t), j < k PROVE t[j][2] < t[k][2]
  <2>1. CASE k <= Len(s)
    <3>1. j <= Len(s)
      BY <1>4, <2>1
    <3> QED
      BY <1>1, <1>4, <2>1, <3>1 DEF InOrder
  <2>2. CASE j <= Len(s) /\ ~(k <= Len(s))
    <3>1. PICK p \in 1..at : t[j] = <<body, p>>
      BY <1>1, <2>2
    <3>2. t[j][2] = p /\ t[k][2] = at + (k - Len(s)) /\ k - Len(s) >= 1
      BY <1>2, <2>2, <3>1
    <3> QED
      BY <3>2
  <2>3. CASE ~(j <= Len(s)) /\ ~(k <= Len(s))
    <3>1. t[j][2] = at + (j - Len(s)) /\ t[k][2] = at + (k - Len(s))
      BY <1>2, <2>3
    <3> QED
      BY <1>4, <3>1
  <2> QED
    BY <1>4, <2>1, <2>2, <2>3
<1> QED
  BY <1>3, <1>4 DEF InOrder

\* What a step of the transfer appends continues the remote file.
LEMMA WrittenContents ==
    ASSUME Platform # "next", TypeOK, Control, Progress, Untouched,
           changes = 0, pc = "transfer", f # 0, FitsLong(dir[f].size),
           NEW len \in Nat,
           BlockSize * blocks_transferred + len <= dir[f].size,
           WriteLocal(Answer(GetCmd(dir[f].index, blocks_transferred, len)))
    PROVE  /\ InOrder(local', Remote.body, BlockSize * blocks_transferred + len)
           /\ failures' = 0 => \A k \in 1..Len(local') : local'[k] = <<Remote.body, k>>
<1> DEFINE bytes == Answer(GetCmd(dir[f].index, blocks_transferred, len))
           there == BlockSize * blocks_transferred
<1>1. /\ f \in 1..Len(dir) /\ f \in 1..Len(card.files)
      /\ dir[f].index = f - 1 /\ dir[f].size = Remote.size
  <2>1. f \in 1..Len(dir) /\ Len(dir) \in Nat /\ Len(card.files) \in Nat
    BY SizeSplit, LenProperties, CardType DEF TypeOK, ListTypeOK
  <2>2. Len(dir) <= Len(card.files) /\ dir[f] = Entry(card.files, f)
    BY <2>1 DEF Untouched
  <2> QED
    BY <2>1, <2>2 DEF Entry, Remote
<1>2. blocks_transferred \in Nat /\ there \in Nat
  BY SizeSplit, Room DEF Progress
<1>3. \A k \in 1..len : bytes[k] = <<Remote.body, there + k>>
  <2>1. /\ f \in 1..Len(card.files) /\ blocks_transferred \in Nat /\ card \in Cards
        /\ BlockSize * blocks_transferred + len <= card.files[f].size
    BY <1>1, <1>2 DEF Remote, TypeOK, ListTypeOK
  <2>2. \A k \in 1..len : Answer(GetCmd(f - 1, blocks_transferred, len))[k]
                             = <<card.files[f].body, BlockSize * blocks_transferred + k>>
    BY <2>1, AnswerContents
  <2> QED
    BY <1>1, <2>2 DEF Remote
<1>4. bytes \in Seq(Bytes) /\ Len(bytes) = len
  BY <1>2, BlockType
<1>5. /\ InOrder(local, Remote.body, there)
      /\ failures = 0 => /\ \A k \in 1..Len(local) : local[k] = <<Remote.body, k>>
                         /\ Len(local) = there
      /\ local \in Seq(Bytes) /\ Len(local) \in Nat
  BY LenProperties DEF Untouched, Progress, TypeOK
<1>6. WriteLocal(bytes)
  OBVIOUS
<1> HIDE DEF bytes, there
<1>7. PICK n \in 0..len :
         /\ Len(local') = Len(local) + n
         /\ \A k \in 1..(Len(local) + n) :
               local'[k] = IF k <= Len(local) THEN local[k] ELSE bytes[k - Len(local)]
         /\ failures' = 0 => failures = 0 /\ n = len
  BY <1>4, <1>6, WriteType
<1>8. InOrder(local', Remote.body, there + len)
  BY <1>2, <1>3, <1>5, <1>7, InOrderLonger
<1>9. ASSUME failures' = 0, NEW k \in 1..Len(local') PROVE local'[k] = <<Remote.body, k>>
  <2>1. /\ Len(local) = there /\ n = len /\ k \in 1..(Len(local) + n)
        /\ \A i \in 1..Len(local) : local[i] = <<Remote.body, i>>
    BY <1>5, <1>7, <1>9
  <2>2. CASE k <= Len(local)
    <3>1. k \in 1..Len(local)
      BY <1>5, <2>1, <2>2
    <3> QED
      BY <1>7, <2>1, <2>2, <3>1
  <2>3. CASE ~(k <= Len(local))
    <3>1. k - Len(local) \in 1..len /\ there + (k - Len(local)) = k
      BY <1>2, <1>5, <2>1, <2>3
    <3> QED
      BY <1>3, <1>7, <2>1, <2>3, <3>1
  <2> QED
    BY <2>2, <2>3
<1> QED
  BY <1>8, <1>9 DEF there

LEMMA UntouchedStep ==
    ASSUME Platform # "next", TypeOK, Control, Progress, Untouched, [Next]_vars
    PROVE  Untouched'
<1>0. BlockSize \in Nat \ {0}
  BY GetAssumption DEF GetAssumption
<1>1. CASE CallGet
  BY <1>1 DEF CallGet, Control, Untouched
<1>2. CASE Listing
  <2>1. CASE Count
    <3>1. Len(card.files) \in Nat
      BY CardType, MaxCountType DEF TypeOK, ListTypeOK
    <3>2. Served(CountCmd(toolbox_cmd)) = card.files
      BY DEF Served, CountCmd, Control
    <3>3. lpc' = "returned" \/ file_count' = 0 \/ file_count' = Len(card.files)
      BY <2>1, <3>2 DEF Count
    <3>4. lpc' = "list" => file_count' <= Len(card.files)
      BY <3>1, <3>3
    <3> QED
      BY <1>2, <2>1, <3>4 DEF Listing, Count, getVars, Control, Untouched
  <2>2. CASE List
    <3>1. f' = 0 /\ lpc' # "list" /\ card' = card /\ changes' = changes
      BY <1>2, <2>2 DEF Listing, List, ReturnList, getVars, Control
    <3>2. CASE dir' = dir
      BY <3>1, <3>2 DEF Untouched
    <3>3. CASE \E junk \in Garbage : dir' = Listed(Served(toolbox_cmd), junk)
      <4>1. Served(toolbox_cmd) = card.files
        BY DEF Served, Control
      <4>2. Len(card.files) \in Nat /\ file_count \in Nat
        BY CardType, MaxCountType DEF TypeOK, ListTypeOK
      <4>3. Len(dir') = file_count
            /\ \A i \in 1..file_count : i <= Len(card.files) => dir'[i] = Entry(card.files, i)
        BY <3>3, <4>1, ListedType DEF TypeOK, ListTypeOK
      <4>4. changes = 0 => file_count <= Len(card.files)
        BY <2>2 DEF List, Untouched
      <4> QED
        BY <3>1, <4>2, <4>3, <4>4 DEF Untouched, Entry
    <3> QED
      BY <2>2, <3>2, <3>3 DEF List
  <2> QED
    BY <1>2, <2>1, <2>2 DEF Listing, ListStep
<1>3. CASE Scan
  <2>1. local' = <<>> /\ pc' # "transfer" /\ UNCHANGED <<card, changes, lpc, dir, file_count>>
    BY <1>3 DEF Scan, Control, Return
  <2>2. Len(local') = 0
    BY <2>1, EmptySeq
  <2> QED
    BY <2>1, <2>2 DEF Untouched, Entry, InOrder
<1>4. SUFFICES ASSUME UNCHANGED <<card, changes, lpc, dir, file_count, f>>,
                      changes = 0, f # 0, FitsLong(dir[f].size),
                      [Next]_vars, ~CallGet, ~Listing, ~Scan
               PROVE  /\ InOrder(local', Remote.body, Remote.size)
                      /\ pc' = "transfer"
                           => InOrder(local', Remote.body, BlockSize * blocks_transferred')
                      /\ failures' = 0 => \A k \in 1..Len(local') : local'[k] = <<Remote.body, k>>
  <2>1. CASE CardChanges
    BY <2>1 DEF CardChanges, Change, Untouched, TypeOK, ListTypeOK
  <2>2. CASE ~CardChanges
    <3>1. UNCHANGED <<card, changes, lpc, dir, file_count, f>> \/ CallGet \/ Listing \/ Scan
      BY <2>2 DEF Next, GetStep, vars, listVars, getVars, Open, Block, LastBlock,
         OverlongLastBlock, CommandFails, UseOfNullFile, Close
    <3> QED
      BY <3>1, <1>1, <1>2, <1>3, <1>4 DEF Untouched, Entry, Remote
  <2> QED
    BY <2>1, <2>2
<1>5. /\ InOrder(local, Remote.body, Remote.size)
      /\ pc = "transfer" => InOrder(local, Remote.body, BlockSize * blocks_transferred)
      /\ failures = 0 => \A k \in 1..Len(local) : local[k] = <<Remote.body, k>>
  BY <1>4 DEF Untouched
<1>6. Remote.size = dir[f].size /\ dir[f].size \in Nat /\ Len(local) \in Nat
  <2>1. f \in 1..Len(dir) /\ dir[f].size \in 0..MaxSize
    BY <1>4, SizeSplit
  <2>2. dir[f] = Entry(card.files, f)
    BY <1>4, <2>1 DEF Untouched
  <2>3. dir[f].size \in Nat
    BY <2>1, ListAssumption DEF ListAssumption
  <2>4. Len(local) \in Nat
    BY LenProperties DEF TypeOK
  <2> QED
    BY <2>2, <2>3, <2>4 DEF Entry, Remote
<1>7. CASE Open
  <2>1. Len(local') = 0
    BY <1>7, EmptySeq DEF Open
  <2> QED
    BY <2>1 DEF InOrder
<1>8. CASE Block
  <2>1. /\ BlockSize * blocks_transferred + BlockSize <= dir[f].size
        /\ BlockSize * blocks_transferred \in Nat /\ pc = "transfer"
        /\ WriteLocal(Answer(GetCmd(dir[f].index, blocks_transferred, BlockSize)))
    BY <1>4, <1>8, Room DEF Block
  <2>2. /\ InOrder(local', Remote.body, BlockSize * blocks_transferred + BlockSize)
        /\ failures' = 0 => \A k \in 1..Len(local') : local'[k] = <<Remote.body, k>>
    BY <1>0, <1>4, <2>1, WrittenContents
  <2>3. InOrder(local', Remote.body, Remote.size)
    <3>1. BlockSize * blocks_transferred + BlockSize \in Nat
      BY <1>0, <2>1
    <3> QED
      BY <1>6, <2>1, <2>2, <3>1, InOrderWider
  <2>4. BlockSize * blocks_transferred' = BlockSize * blocks_transferred + BlockSize
    <3>1. /\ blocks_transferred \in 0..blocks /\ blocks_transferred # blocks /\ blocks \in Nat
          /\ blocks <= LongMax /\ LongMax \in Nat
      BY <1>4, <1>8, SizeSplit, CycleType DEF Block, Progress
    <3>2. blocks_transferred + 1 \in 0..LongMax
      BY <3>1
    <3>3. blocks_transferred' = blocks_transferred + 1
      BY <1>8, <3>2, WrapFits DEF Block
    <3> QED
      BY <1>0, <3>1, <3>3
  <2> QED
    BY <2>2, <2>3, <2>4
<1>9. CASE LastBlock
  <2>1. /\ BlockSize * blocks_transferred + last_block_size <= dir[f].size
        /\ BlockSize * blocks_transferred \in Nat /\ last_block_size \in Nat
        /\ pc = "transfer" /\ pc' = "close"
        /\ WriteLocal(Answer(GetCmd(dir[f].index, blocks_transferred, last_block_size)))
    BY <1>4, <1>9, Room DEF LastBlock
  <2>2. /\ InOrder(local', Remote.body, BlockSize * blocks_transferred + last_block_size)
        /\ failures' = 0 => \A k \in 1..Len(local') : local'[k] = <<Remote.body, k>>
    BY <1>4, <2>1, WrittenContents
  <2>3. InOrder(local', Remote.body, Remote.size)
    <3>1. BlockSize * blocks_transferred + last_block_size \in Nat
      BY <2>1
    <3> QED
      BY <1>6, <2>1, <2>2, <3>1, InOrderWider
  <2> QED
    BY <2>1, <2>2, <2>3
<1>10. CASE CommandFails \/ Close
  <2>1. CloseLocal /\ pc' = "exit"
    BY <1>10 DEF CommandFails, Close, Return
  <2>2. /\ Len(local') \in Nat /\ Len(local') <= Len(local)
        /\ \A k \in 1..Len(local') : local'[k] = local[k]
        /\ failures' = 0 => failures = 0 /\ local' = local
    BY <2>1, CloseType
  <2>3. InOrder(local', Remote.body, Remote.size)
    BY <1>5, <1>6, <2>2, InOrderPrefix
  <2> QED
    BY <1>5, <2>1, <2>2, <2>3
<1>11. CASE UNCHANGED <<local, failures, blocks_transferred>> /\ (pc' = "transfer" => pc = "transfer")
  BY <1>5, <1>11
<1> QED
  BY <1>4, <1>7, <1>8, <1>9, <1>10, <1>11 DEF Next, GetStep, vars, getVars, OverlongLastBlock,
     UseOfNullFile, CardChanges

-----------------------------------------------------------------------------
(* The blocks of a get while others change the card. *)

LEMMA PastType ==
    ASSUME TypeOK, Control
    PROVE  Len(past) \in Nat \ {0} /\ Len(past) \in 1..Len(past) /\ past[Len(past)] = card
<1>1. Len(past) \in Nat \ {0}
  BY EmptySeq DEF TypeOK, Control
<1> QED
  BY <1>1 DEF Control

\* A block that is not written to keeps its bytes; the one that is gets those of
\* the card of now.
LEMMA AppendBlock ==
    ASSUME Platform # "next", TypeOK, Control, Progress, BlocksAreWhole,
           pc = "transfer", f # 0, FitsLong(dir[f].size),
           failures' = 0, UNCHANGED <<f, dir, blocks, past>>,
           NEW len \in 0..BlockSize,
           WriteLocal(Answer(GetCmd(dir[f].index, blocks_transferred, len)))
    PROVE  \E m \in [0..blocks -> 1..Len(past)] : BlocksFrom(m)'
<1> DEFINE bytes == Answer(GetCmd(dir[f].index, blocks_transferred, len))
           there == BlockSize * blocks_transferred
<1>0. BlockSize \in Nat \ {0} /\ len \in Nat /\ len <= BlockSize
  BY GetAssumption DEF GetAssumption
<1>1. /\ blocks \in Nat /\ blocks_transferred \in Nat /\ there \in Nat /\ there <= MaxSize
      /\ blocks_transferred \in 0..blocks
  <2>1. /\ blocks \in Nat /\ blocks_transferred \in 0..blocks
        /\ there \in Nat /\ there <= dir[f].size /\ dir[f].size <= MaxSize
    BY Room
  <2>2. dir[f].size \in Nat /\ MaxSize \in Nat
    BY SizeSplit, ListAssumption DEF ListAssumption
  <2> HIDE DEF there
  <2>3. there <= MaxSize
    BY <2>1, <2>2
  <2>4. blocks_transferred \in Nat
    BY <2>1
  <2> QED
    BY <2>1, <2>3, <2>4
<1>2. dir[f].index \in 0..MaxCount
  BY SizeSplit DEF Entries
<1>3. bytes \in Seq(Bytes) /\ Len(bytes) = len
  <2>1. blocks_transferred \in Int /\ len \in Nat
    BY <1>0, <1>1
  <2> QED
    BY <2>1, BlockType, Zenon
<1>4. \A k \in 1..len : bytes[k] = ByteAt(card, dir[f].index, there + k)
  BY <1>0, <1>1, <1>2, AnswerBytes
<1>5. WriteLocal(bytes)
  OBVIOUS
<1> HIDE DEF bytes
<1>6. failures = 0 /\ local' = local \o bytes
  BY <1>3, <1>5, WriteType
<1>7. /\ local \in Seq(Bytes) /\ Len(local) = there /\ DOMAIN local = 1..there
  BY <1>6, LenProperties DEF TypeOK, Progress
<1>8. PICK m \in [0..blocks -> 1..Len(past)] : BlocksFrom(m)
  BY <1>6 DEF BlocksAreWhole
<1> HIDE DEF there
<1>9. /\ DOMAIN local' = 1..(there + len)
      /\ \A k \in 1..(there + len) :
            local'[k] = IF k <= there THEN local[k] ELSE bytes[k - there]
  <2>1. /\ local \o bytes \in Seq(Bytes) /\ Len(local \o bytes) = there + len
        /\ \A k \in 1..(there + len) :
              (local \o bytes)[k] = IF k <= there THEN local[k] ELSE bytes[k - there]
    BY <1>3, <1>7, ConcatProperties
  <2> QED
    BY <1>6, <2>1, LenProperties
<1> DEFINE now == [n \in 0..blocks |-> IF n < blocks_transferred THEN m[n] ELSE Len(past)]
<1>10. Len(past) \in Nat /\ Len(past) \in 1..Len(past) /\ past[Len(past)] = card
  BY PastType
<1>11. now \in [0..blocks -> 1..Len(past)]
  BY <1>8, <1>10
<1>12. ASSUME NEW n \in 0..blocks, NEW o \in 0..blocks, n <= o PROVE now[n] <= now[o]
  <2>1. m[n] <= m[o] /\ m[n] \in 1..Len(past)
    BY <1>8, <1>12 DEF BlocksFrom
  <2> QED
    BY <1>1, <1>10, <1>12, <2>1
<1>13. ASSUME NEW n \in 0..blocks, NEW k \in BlockOf(n) \cap (1..(there + len))
       PROVE  local'[k] = ByteAt(past[now[n]], dir[f].index, k)
  <2>0. n \in Nat /\ BlockSize * n \in Nat
    BY <1>0, <1>1
  <2>1. CASE n < blocks_transferred
    <3>1. BlockSize * (n + 1) = BlockSize * n + BlockSize /\ BlockSize * (n + 1) <= there
      BY <1>0, <1>1, <2>0, <2>1, NextBlock DEF there
    <3>0. BlockSize * n + BlockSize <= there
      BY <3>1
    <3>5. k \in Int /\ 1 <= k /\ k <= BlockSize * n + BlockSize
      BY <1>0, <1>1, <1>13, <2>0 DEF BlockOf
    <3>2. k <= there /\ k \in 1..there
      BY <1>0, <1>1, <2>0, <3>0, <3>5
    <3>3. local[k] = ByteAt(past[m[n]], dir[f].index, k)
      BY <1>7, <1>8, <1>13, <3>2 DEF BlocksFrom
    <3>4. now[n] = m[n]
      BY <2>1
    <3> QED
      BY <1>9, <1>13, <3>2, <3>3, <3>4
  <2>2. CASE n = blocks_transferred
    <3>1. k - there \in 1..len /\ there + (k - there) = k /\ ~(k <= there)
      BY <1>0, <1>1, <1>13, <2>2 DEF BlockOf, there
    <3>2. now[n] = Len(past)
      BY <1>1, <2>2
    <3> QED
      BY <1>4, <1>9, <1>10, <1>13, <3>1, <3>2
  <2>3. CASE blocks_transferred < n
    <3>1. /\ BlockSize * (blocks_transferred + 1) = there + BlockSize
          /\ BlockSize * (blocks_transferred + 1) <= BlockSize * n
      BY <1>0, <1>1, <2>0, <2>3, NextBlock DEF there
    <3>2. k \in Int /\ k >= BlockSize * n + 1 /\ k <= there + len
      BY <1>0, <1>1, <1>13, <2>0 DEF BlockOf
    <3>3. there + BlockSize <= BlockSize * n
      BY <3>1
    <3> QED
      BY <1>0, <1>1, <2>0, <3>2, <3>3
  <2> QED
    BY <1>1, <2>1, <2>2, <2>3
<1> HIDE DEF now
<1>14. PICK w : w = now
  OBVIOUS
<1>15. BlocksFrom(w)'
  <2>1. \A n \in 0..blocks : \A k \in BlockOf(n) \cap DOMAIN local' :
           local'[k] = ByteAt(past[w[n]], dir[f].index, k)
    BY <1>9, <1>13, <1>14
  <2>2. \A n, o \in 0..blocks : n <= o => w[n] <= w[o]
    BY <1>12, <1>14
  <2> QED
    BY <2>1, <2>2 DEF BlocksFrom
<1> QED
  BY <1>11, <1>14, <1>15

LEMMA WholeStep ==
    ASSUME Platform # "next", IInv, IInv', BlocksAreWhole, [Next]_vars
    PROVE  BlocksAreWhole'
<1>0. BlockSize \in Nat \ {0} /\ BlockSize \in 0..BlockSize
  BY GetAssumption DEF GetAssumption
<1>1. CASE f' = 0
  BY <1>1 DEF BlocksAreWhole
<1>2. ASSUME local' = <<>>, f' # 0, FitsLong(dir'[f'].size) PROVE BlocksAreWhole'
  <2>1. Len(local') <= dir'[f'].size /\ Len(past') \in 1..Len(past')
    <3>1. Len(local') <= dir'[f'].size
      BY <1>2 DEF IInv, Progress
    <3>2. TypeOK' /\ Control'
      BY DEF IInv
    <3>3. past' # <<>> /\ past' \in Seq(Cards)
      BY <3>2 DEF TypeOK, Control
    <3>4. Len(past') \in Nat \ {0}
      BY <3>3, EmptySeq
    <3> QED
      BY <3>1, <3>4
  <2>2. DOMAIN local' = {}
    BY <1>2
  <2>3. PICK m : m = [n \in 0..blocks' |-> Len(past')]
    OBVIOUS
  <2>a. m \in [0..blocks' -> 1..Len(past')]
    BY <2>1, <2>3
  <2>4. \A n, o \in 0..blocks' : m[n] <= m[o]
    BY <2>1, <2>3
  <2>5. BlocksFrom(m)'
    BY <2>2, <2>4 DEF BlocksFrom
  <2> QED
    BY <2>1, <2>a, <2>5 DEF BlocksAreWhole
<1>3. CASE CallGet \/ Listing
  BY <1>1, <1>3 DEF CallGet, Listing, getVars, IInv, Control
<1>4. CASE Scan \/ Open
  <2>1. local' = <<>>
    BY <1>4 DEF Scan, Open, IInv, Control
  <2> QED
    BY <1>2, <2>1 DEF BlocksAreWhole
<1>5. SUFFICES ASSUME UNCHANGED <<f, dir, blocks>>, f # 0, FitsLong(dir[f].size), failures' = 0,
                      [Next]_vars, ~CallGet, ~Listing, ~Scan, ~Open
               PROVE  \E m \in [0..blocks -> 1..Len(past')] : BlocksFrom(m)'
  <2>1. UNCHANGED <<f, dir, blocks>> \/ CallGet \/ Listing \/ Scan \/ Open
    BY DEF Next, GetStep, vars, listVars, getVars, Block, LastBlock, OverlongLastBlock,
       CommandFails, UseOfNullFile, Close, CardChanges, Change
  <2>2. f' # 0 /\ FitsLong(dir'[f'].size) => Len(local') <= dir'[f'].size
    BY DEF IInv, Progress
  <2> QED
    BY <1>3, <1>4, <1>5, <2>1, <2>2 DEF BlocksAreWhole
<1>6. CASE UNCHANGED <<local, past, failures>>
  BY <1>5, <1>6 DEF BlocksAreWhole, BlocksFrom
<1>7. CASE Block
  <2>1. /\ pc = "transfer" /\ UNCHANGED past
        /\ WriteLocal(Answer(GetCmd(dir[f].index, blocks_transferred, BlockSize)))
    BY <1>7 DEF Block
  <2> QED
    BY <1>0, <1>5, <2>1, AppendBlock DEF IInv
<1>8. CASE LastBlock
  <2>1. /\ pc = "transfer" /\ UNCHANGED past
        /\ WriteLocal(Answer(GetCmd(dir[f].index, blocks_transferred, last_block_size)))
    BY <1>8 DEF LastBlock
  <2>2. last_block_size \in 0..BlockSize
    BY <1>0, <1>5, Room DEF IInv
  <2> QED
    BY <1>5, <2>1, <2>2, AppendBlock DEF IInv
<1>9. CASE CommandFails \/ Close
  <2>1. CloseLocal /\ UNCHANGED past
    BY <1>9 DEF CommandFails, Close
  <2>2. UNCHANGED <<local, failures>>
    BY <1>5, <2>1, CloseType DEF IInv
  <2> QED
    BY <1>6, <2>1, <2>2
<1>10. CASE CardChanges
  <2>1. /\ local' = local /\ failures = 0 /\ card' \in Cards /\ past' = Append(past, card')
        /\ past \in Seq(Cards)
    BY <1>5, <1>10 DEF CardChanges, Change, IInv, TypeOK
  <2>2. /\ Len(past') = Len(past) + 1 /\ Len(past) \in Nat
        /\ \A i \in 1..Len(past) : past'[i] = past[i]
    BY <2>1, AppendProperties, LenProperties
  <2>3. PICK m \in [0..blocks -> 1..Len(past)] : BlocksFrom(m)
    BY <1>5, <2>1 DEF BlocksAreWhole
  <2>4. m \in [0..blocks -> 1..Len(past')]
    <3>1. \A i \in 1..Len(past) : i \in 1..Len(past')
      BY <2>2
    <3> QED
      BY <2>3, <3>1
  <2>5. \A n \in 0..blocks : past'[m[n]] = past[m[n]]
    BY <2>2, <2>3
  <2>6. BlocksFrom(m)'
    BY <1>5, <2>1, <2>3, <2>5 DEF BlocksFrom
  <2> QED
    BY <2>4, <2>6
<1> QED
  BY <1>5, <1>6, <1>7, <1>8, <1>9, <1>10 DEF Next, GetStep, vars, getVars, OverlongLastBlock,
     UseOfNullFile

-----------------------------------------------------------------------------
(* The listing of a get. *)

\* All but the listing itself leave it alone.
LEMMA ListingStays ==
    ASSUME IInv, [Next]_vars, ~Listing, ~CardChanges
    PROVE  /\ UNCHANGED <<card, changes, toolbox_cmd, lret, file_count, dir, counted>>
           /\ lpc' = lpc \/ (lpc = "call" /\ lpc' = "count")
  BY DEF IInv, Control, Next, GetStep, vars, listVars, CallGet, Scan, Open, Block, LastBlock,
     OverlongLastBlock, CommandFails, UseOfNullFile, Close

LEMMA SameDirectoryKept == IInv /\ SameDirectory /\ [Next]_vars => SameDirectory'
<1> SUFFICES ASSUME IInv, SameDirectory, [Next]_vars PROVE SameDirectory'
  OBVIOUS
<1>1. CASE Listing
  BY <1>1, SameDirectoryStep DEF Listing, IInv, TypeOK
<1>2. CASE CardChanges
  BY <1>2 DEF CardChanges, Change, SameDirectory, IInv, TypeOK, ListTypeOK
<1>3. CASE ~Listing /\ ~CardChanges
  BY <1>3, ListingStays DEF SameDirectory, Served, Entry
<1> QED
  BY <1>1, <1>2, <1>3

LEMMA GetListing ==
    IInv /\ SameDirectory /\ [Next]_vars => [AListing!Next]_(AListing!listingVars)
<1> SUFFICES ASSUME IInv, SameDirectory, [Next]_vars
             PROVE  AListing!Next \/ UNCHANGED AListing!listingVars
  OBVIOUS
<1>1. CASE Listing
  BY <1>1, ListStepListing DEF Listing, IInv, TypeOK
<1>2. CASE CardChanges
  BY <1>2, ChangeListing DEF CardChanges, IInv, TypeOK, AListing!Next
<1>3. CASE ~Listing /\ ~CardChanges
  <2>1. /\ UNCHANGED <<card, changes, toolbox_cmd, lret, file_count, dir, counted>>
        /\ lpc' = lpc \/ (lpc = "call" /\ lpc' = "count")
    BY <1>3, ListingStays
  <2>2. ListingStatus' = ListingStatus /\ Misled' = Misled
    BY <2>1 DEF ListingStatus, Misled
  <2> QED
    BY <2>1, <2>2, UnseenListing
<1> QED
  BY <1>1, <1>2, <1>3

-----------------------------------------------------------------------------
(* The theorems. *)

LEMMA IInvStep == IInv /\ [Next]_vars => IInv'
<1> SUFFICES ASSUME IInv, [Next]_vars PROVE IInv'
  OBVIOUS
<1>1. TypeOK' /\ Control' /\ Progress' /\ Modular'
  BY TypeStep, ControlStep, ProgressStep, ModularStep DEF IInv
<1>2. Platform # "next" => Untouched'
  BY UntouchedStep DEF IInv
<1> QED
  BY <1>1, <1>2 DEF IInv

LEMMA Invariance == Spec => []IInv
  BY InitIInv, IInvStep, PTL DEF Spec

\* The variables of a get and of its listing keep their types, whatever the
\* card, the size of a block and the width of a long.
THEOREM TypeCorrect == Spec => []TypeOK
<1>1. IInv => TypeOK
  BY DEF IInv
<1> QED
  BY <1>1, Invariance, PTL

\* On every platform that passes the operands of a command on, and while nobody else
\* changes the card, the local file holds bytes of the remote one in their order, and
\* all of them from the first on until a write falls short, if the size fits a long.
THEOREM InOrderCorrect ==
    ASSUME Platform # "next"
    PROVE  Spec => []LocalInOrder
<1>1. IInv => LocalInOrder
  <2> SUFFICES ASSUME IInv, f # 0, changes = 0, FitsLong(dir[f].size)
               PROVE  /\ \A k \in DOMAIN local : \E p \in 1..Remote.size :
                            local[k] = <<Remote.body, p>>
                      /\ \A j, k \in DOMAIN local : j < k => local[j][2] < local[k][2]
                      /\ failures = 0 => \A k \in DOMAIN local : local[k] = <<Remote.body, k>>
    BY DEF LocalInOrder
  <2>1. DOMAIN local = 1..Len(local)
    BY LenProperties DEF IInv, TypeOK
  <2> QED
    BY <2>1 DEF IInv, Untouched, InOrder
<1> QED
  BY <1>1, Invariance, PTL

\* On every platform that passes the operands on, and however often others change
\* the card during a get, each block of the local file is the block at its place of
\* the file that had the index on one card the device has held, the cards in their
\* order, until a write falls short; and there are never more bytes than the listing
\* promised.  (If the size fits a long.)
THEOREM BlocksCorrect ==
    ASSUME Platform # "next"
    PROVE  Spec => []BlocksAreWhole
<1>1. Init => BlocksAreWhole
  BY DEF Init, BlocksAreWhole
<1>2. IInv /\ IInv' /\ BlocksAreWhole /\ [Next]_vars => BlocksAreWhole'
  BY WholeStep
<1> QED
  BY <1>1, <1>2, Invariance, PTL DEF Spec

\* A get that reports success has as many bytes as the listing said, on every
\* platform and whatever happens to the card meanwhile, if no write fell short; and
\* if the size does not fit a long, as many but for a multiple of what a long counts.
THEOREM FullLengthCorrect == Spec => []SuccessHasFullLength
<1>1. IInv => SuccessHasFullLength
  <2> SUFFICES ASSUME IInv, pc = "exit", ret = NO_ERROR, failures = 0
               PROVE  /\ (Len(local) - dir[f].size) % Cycle = 0
                      /\ FitsLong(dir[f].size) => Len(local) = dir[f].size
    BY DEF SuccessHasFullLength
  <2>1. f # 0
    BY DEF IInv, Control, Started
  <2>2. PICK q \in Int : Len(local) = dir[f].size + Cycle * q
    BY <2>1 DEF IInv, Modular
  <2>3. Len(local) \in Int /\ dir[f].size \in Int /\ Cycle \in Nat \ {0} /\ Cycle * q \in Int
    BY <2>1, SizeSum, CycleType, LenProperties DEF IInv, TypeOK
  <2>4. Len(local) - dir[f].size = Cycle * q
    BY <2>2, <2>3
  <2>5. (Cycle * q) % Cycle = 0
    BY <2>3, ModMultiple
  <2> QED
    BY <2>1, <2>4, <2>5 DEF IInv, Progress
<1> QED
  BY <1>1, Invariance, PTL

\* No failing return leaves the local file open or the listing allocated.
THEOREM ReleaseCorrect == Spec => []FailureReleases
<1>1. IInv => FailureReleases
  BY DEF IInv, Control, FailureReleases
<1> QED
  BY <1>1, Invariance, PTL

-----------------------------------------------------------------------------
(* GetFile implements FileCopy. *)

LEMMA GrowBytes ==
    ASSUME NEW w \in Seq(Bytes), NEW d \in Seq(Bytes), NEW e \in Seq(Bytes),
           Len(d) <= Len(e), Len(e) <= Len(w),
           \A k \in 1..Len(d) : d[k] = w[k],
           \A k \in 1..Len(e) : e[k] = w[k]
    PROVE  \/ e = d
           \/ \E n \in (Len(d) + 1)..Len(w) : e = SubSeq(w, 1, n)
  BY GrowOrSame

WholeFile == [k \in 1..Remote.size |-> <<Remote.body, k>>]

\* What has been written of an entry that was chosen is a prefix of its file.
LEMMA PrefixOfWhole ==
    ASSUME Platform # "next", IInv, ~Disturbed, f # 0
    PROVE  /\ WholeFile \in Seq(Bytes) /\ Len(WholeFile) = dir[f].size
           /\ local \in Seq(Bytes) /\ Len(local) <= Len(WholeFile)
           /\ \A k \in 1..Len(local) : local[k] = WholeFile[k]
<1>1. changes = 0 /\ failures = 0 /\ FitsLong(dir[f].size)
  BY DEF Disturbed, IInv, TypeOK, ListTypeOK
<1>2. /\ f \in 1..Len(dir) /\ dir[f] = Entry(card.files, f) /\ Len(dir) <= Len(card.files)
  BY <1>1, SizeSplit DEF IInv, Untouched
<1>3. Remote \in Files /\ Remote.size = dir[f].size
  <2>1. f \in 1..Len(card.files)
    BY <1>2, CardType, LenProperties DEF IInv, TypeOK, ListTypeOK
  <2>2. card.files[f] \in Files
    BY <2>1, CardType, ElementOfSeq DEF IInv, TypeOK, ListTypeOK
  <2> QED
    BY <1>2, <2>2 DEF Remote, Entry
<1>4. Remote.size \in Nat /\ Remote.body \in Bodies
  BY <1>3, ListAssumption DEF Files, ListAssumption
<1>5. WholeFile \in [1..Remote.size -> Bytes]
  BY <1>4 DEF WholeFile, Bytes
<1>6. WholeFile \in Seq(Bytes) /\ Len(WholeFile) = Remote.size
  BY <1>4, <1>5, SeqDef, LenProperties
<1>7. /\ local \in Seq(Bytes) /\ Len(local) \in Nat /\ Len(local) <= Remote.size
      /\ \A k \in 1..Len(local) : local[k] = <<Remote.body, k>>
  BY <1>1, <1>2, <1>3, LenProperties DEF IInv, TypeOK, Progress, Untouched
<1>8. ASSUME NEW k \in 1..Len(local) PROVE local[k] = WholeFile[k]
  <2>1. k \in 1..Remote.size
    BY <1>4, <1>7
  <2> QED
    BY <1>7, <2>1 DEF WholeFile
<1> QED
  BY <1>3, <1>6, <1>7, <1>8

WholePrefix ==
    f # 0 /\ ~Disturbed =>
        /\ local \in Seq(Bytes) /\ Len(local) <= Len(WholeFile)
        /\ \A k \in 1..Len(local) : local[k] = WholeFile[k]

\* What the mapping shows of a get that nobody disturbs.
Shown ==
    ~Disturbed =>
        /\ pc \in {"call", "listing", "open"} => CopyStatus = "idle"
        /\ pc \in {"transfer", "close"} => CopyStatus = "copying"
        /\ pc = "exit" => CopyStatus = IF ret = NO_ERROR THEN "ok" ELSE "failed"
        /\ pc = "crashed" => CopyStatus = "failed"
        /\ CopySource = IF f = 0 \/ fp = "none" THEN <<>> ELSE WholeFile
        /\ CopyData = local

LEMMA MappingShown == Shown /\ Shown'
<1>1. Shown
  BY DEF Shown, CopyStatus, CopySource, CopyData, WholeFile
<1>2. Shown'
  BY DEF Shown, CopyStatus, CopySource, CopyData, WholeFile
<1> QED
  BY <1>1, <1>2

LEMMA DisturbedStep ==
    ASSUME Disturbed'
    PROVE  [Copy!Next]_(Copy!vars)
<1>1. CopyStatus' = "void" /\ CopySource' = <<>> /\ CopyData' = <<>>
  BY DEF CopyStatus, CopySource, CopyData
<1>2. CASE Disturbed
  BY <1>1, <1>2 DEF CopyStatus, CopySource, CopyData, Copy!vars
<1>3. CASE ~Disturbed
  <2>1. CopyStatus # "void"
    BY <1>3 DEF CopyStatus
  <2> QED
    BY <1>1, <2>1 DEF Copy!Next, Copy!Disturb
<1> QED
  BY <1>2, <1>3

\* Until the local file is opened the copy is idle; opening it begins the copy.
LEMMA BeginStep ==
    ASSUME Platform # "next", IInv, IInv', ~Disturbed, ~Disturbed',
           CallGet \/ Listing \/ Scan \/ Open
    PROVE  [Copy!Next]_(Copy!vars)
<1>1. /\ pc \in {"call", "listing", "open"} /\ local = <<>> /\ fp = "none"
  BY DEF IInv, Control, CallGet, Listing, Scan, Open
<1>2. CopyStatus = "idle" /\ CopySource = <<>> /\ CopyData = <<>>
  BY <1>1, MappingShown DEF Shown
<1>3. CASE CallGet \/ Listing \/ Scan
  <2>1. /\ UNCHANGED <<local, fp>>
        /\ \/ pc' \in {"call", "listing", "open"}
           \/ pc' = "exit" /\ ret' # NO_ERROR
    BY <1>3 DEF CallGet, Listing, Scan, Return, getVars, NO_ERROR, INVALID_ARGS, CMD_FAILED,
       NOT_FOUND
  <2>2. CopySource' = <<>> /\ CopyData' = <<>> /\ CopyStatus' \in {"idle", "failed"}
    BY <1>1, <2>1, MappingShown DEF Shown
  <2> QED
    BY <1>2, <2>2 DEF Copy!Next, Copy!Fail, Copy!vars
<1>4. CASE Open
  <2>1. /\ pc' = "transfer" /\ fp' # "none" /\ local' = <<>> /\ f' = f /\ f # 0
    BY <1>4 DEF Open, IInv, Control
  <2>2. CopyStatus' = "copying" /\ CopyData' = <<>> /\ CopySource' = WholeFile'
    BY <2>1, MappingShown DEF Shown
  <2>3. WholeFile' = WholeFile
    BY <1>4 DEF Open, listVars, WholeFile, Remote
  <2>4. WholeFile \in Seq(Bytes)
    BY <2>1, PrefixOfWhole
  <2> QED
    BY <1>2, <2>2, <2>3, <2>4 DEF Copy!Next, Copy!Begin
<1> QED
  BY <1>3, <1>4

\* A block extends the copy, in order; an error or a crash makes it fail.
LEMMA BlockStep ==
    ASSUME Platform # "next", IInv, IInv', WholePrefix', ~Disturbed, ~Disturbed',
           Block \/ LastBlock \/ OverlongLastBlock \/ CommandFails \/ UseOfNullFile
    PROVE  [Copy!Next]_(Copy!vars)
<1>0. failures' = 0
  BY DEF Disturbed, IInv, TypeOK
<1>1. /\ pc = "transfer" /\ f # 0 /\ f' = f /\ card' = card /\ dir' = dir
      /\ fp # "none" /\ fp' # "none"
      /\ \/ pc' \in {"transfer", "close"}
         \/ /\ local' = local
            /\ pc' = "crashed" \/ (pc' = "exit" /\ ret' # NO_ERROR)
  BY <1>0, CloseType DEF IInv, Control, Started, Block, LastBlock, OverlongLastBlock, CommandFails,
     UseOfNullFile, Return, listVars, Disturbed, NO_ERROR, CMD_FAILED
<1>2. /\ CopyStatus = "copying" /\ CopySource = WholeFile /\ CopyData = local
      /\ CopySource' = WholeFile /\ CopyData' = local'
  BY <1>1, MappingShown DEF Shown, WholeFile, Remote
<1>3. CASE pc' \in {"transfer", "close"}
  <2>1. CopyStatus' = "copying"
    BY <1>3, MappingShown DEF Shown
  <2>2. Block \/ LastBlock
    BY <1>3 DEF OverlongLastBlock, CommandFails, UseOfNullFile, Return
  <2>3. Len(local) <= Len(local')
    <3>1. FitsLong(dir[f].size) /\ BlockSize \in Nat
      BY <1>1, GetAssumption DEF Disturbed, GetAssumption
    <3>2. PICK n \in Int, len \in Nat :
             WriteLocal(Answer(GetCmd(dir[f].index, n, len)))
      <4>1. last_block_size \in Nat /\ blocks_transferred \in Int
        BY <1>1, <3>1, SizeSplit DEF IInv, TypeOK
      <4> QED
        BY <2>2, <3>1, <4>1 DEF Block, LastBlock
    <3> DEFINE bytes == Answer(GetCmd(dir[f].index, n, len))
    <3>3. bytes \in Seq(Bytes) /\ Len(bytes) = len
      BY <1>1, BlockType DEF IInv
    <3> HIDE DEF bytes
    <3>4. PICK more \in 0..len : Len(local') = Len(local) + more
      BY <3>2, <3>3, WriteType DEF IInv, bytes
    <3>5. Len(local) \in Nat
      BY LenProperties DEF IInv, TypeOK
    <3> QED
      BY <3>4, <3>5
  <2>4. /\ WholeFile \in Seq(Bytes) /\ local \in Seq(Bytes)
        /\ \A k \in 1..Len(local) : local[k] = WholeFile[k]
    BY <1>1, PrefixOfWhole
  <2>5. /\ local' \in Seq(Bytes) /\ Len(local') <= Len(WholeFile)
        /\ \A k \in 1..Len(local') : local'[k] = WholeFile[k]
    <3>1. WholeFile' = WholeFile
      BY <1>1 DEF WholeFile, Remote
    <3>2. /\ local' \in Seq(Bytes) /\ Len(local') <= Len(WholeFile')
          /\ \A k \in 1..Len(local') : local'[k] = WholeFile'[k]
      BY <1>1 DEF WholePrefix
    <3> QED
      BY <3>1, <3>2
  <2>6. (local' = local) \/ (\E n \in (Len(local) + 1)..Len(WholeFile) :
                                  local' = SubSeq(WholeFile, 1, n))
    BY <2>3, <2>4, <2>5, GrowBytes
  <2> QED
    BY <1>2, <2>1, <2>6 DEF Copy!Next, Copy!Extend, Copy!Grow, Copy!vars
<1>4. CASE local' = local /\ (pc' = "crashed" \/ (pc' = "exit" /\ ret' # NO_ERROR))
  <2>1. CopyStatus' = "failed"
    BY <1>4, MappingShown DEF Shown
  <2> QED
    BY <1>2, <1>4, <2>1 DEF Copy!Next, Copy!Fail
<1> QED
  BY <1>1, <1>3, <1>4

\* A get that reports success has finished the copy of the whole file.
LEMMA FinishStep ==
    ASSUME Platform # "next", IInv, IInv', ~Disturbed, ~Disturbed', Close
    PROVE  [Copy!Next]_(Copy!vars)
<1>1. /\ pc \in {"transfer", "close"} /\ pc' = "exit" /\ ret' = NO_ERROR
      /\ f # 0 /\ f' = f /\ card' = card /\ dir' = dir /\ local' = local
      /\ fp # "none" /\ fp' # "none" /\ failures' = 0
  <2>1. failures' = 0
    BY DEF Disturbed, IInv, TypeOK
  <2> QED
    BY <2>1, CloseType DEF IInv, Control, Started, Close, CloseLocal, Return, listVars
<1>2. /\ CopyStatus = "copying" /\ CopySource = WholeFile /\ CopyData = local
      /\ CopyStatus' = "ok" /\ CopySource' = WholeFile /\ CopyData' = local
  BY <1>1, MappingShown DEF Shown, WholeFile, Remote
<1>3. Len(local) = dir[f].size
  BY <1>1 DEF IInv, Progress, Disturbed
<1>4. local = WholeFile
  BY <1>1, <1>3, PrefixOfWhole, SeqEqual
<1> QED
  BY <1>2, <1>4 DEF Copy!Next, Copy!Finish

LEMMA CopyStep ==
    ASSUME Platform # "next", IInv, IInv', WholePrefix', [Next]_vars
    PROVE  [Copy!Next]_(Copy!vars)
<1>1. CASE Disturbed'
  BY <1>1, DisturbedStep
<1>2. CASE ~Disturbed'
  <2>1. ~CardChanges
    BY <1>2 DEF CardChanges, Change, Disturbed, IInv, TypeOK, ListTypeOK
  <2>2. ~Disturbed
    <3>1. failures = 0
      <4>1. failures' = 0 /\ failures \in 0..MaxFailures /\ MaxFailures \in Nat
        BY <1>2, GetAssumption DEF Disturbed, IInv, TypeOK, GetAssumption
      <4>2. failures' = failures \/ failures' = failures + 1
        BY <2>1 DEF Next, GetStep, CallGet, Listing, Scan, Open, Block, LastBlock,
           OverlongLastBlock, CommandFails, UseOfNullFile, Close, WriteLocal, CloseLocal,
           vars, getVars
      <4> QED
        BY <4>1, <4>2
    <3> QED
      BY <1>2, <2>1, <3>1 DEF Disturbed, IInv, Control, Next, GetStep, CallGet, Listing,
         ListStep, Count, List, Scan, Open, Block, LastBlock, OverlongLastBlock,
         CommandFails, UseOfNullFile, Close, vars, listVars, getVars
  <2>3. CASE UNCHANGED vars
    <3>1. UNCHANGED <<pc, ret, f, fp, local, card>>
      BY <2>3 DEF vars, listVars, getVars
    <3>2. CopyStatus' = CopyStatus /\ CopySource' = CopySource /\ CopyData' = CopyData
      BY <1>2, <2>2, <3>1 DEF CopyStatus, CopySource, CopyData, Remote
    <3> QED
      BY <3>2 DEF Copy!vars
  <2> QED
    BY <1>2, <2>1, <2>2, <2>3, BeginStep, BlockStep, FinishStep DEF Next, GetStep
<1> QED
  BY <1>1, <1>2

\* On every platform that passes the operands on, a get is a copy of the remote
\* file: the local one grows along it and success is only said of a whole one,
\* until somebody changes the card or a write to the local file falls short.
THEOREM RefinesCopy ==
    ASSUME Platform # "next"
    PROVE  Spec => CopySpec
<1>1. Init => Copy!Init
  <2>1. SUFFICES ASSUME Init PROVE Copy!Init
    OBVIOUS
  <2>2. ~Disturbed /\ pc = "call" /\ f = 0 /\ local = <<>>
    BY <2>1 DEF Init, ListInit, Disturbed
  <2> QED
    BY <2>2, MappingShown DEF Shown, Copy!Init
<1>2. IInv => WholePrefix
  BY PrefixOfWhole DEF WholePrefix
<1>3. IInv /\ IInv' /\ WholePrefix' /\ [Next]_vars => [Copy!Next]_(Copy!vars)
  BY CopyStep
<1> QED
  BY <1>1, <1>2, <1>3, Invariance, PTL DEF Spec, CopySpec, Copy!Spec

\* The listing a get begins with is one step for the rest of it too, whatever happens
\* to the card before, during and after.
THEOREM GetRefinesListing == Spec => ListingSpec
<1>1. Init => AListing!Init /\ SameDirectory
  BY InitListing DEF Init, ListInit, SameDirectory
<1>2. Spec => []SameDirectory
  BY <1>1, SameDirectoryKept, Invariance, PTL DEF Spec
<1>3. IInv /\ SameDirectory /\ [Next]_vars => [AListing!Next]_(AListing!listingVars)
  BY GetListing
<1> QED
  BY <1>1, <1>2, <1>3, Invariance, PTL DEF Spec, ListingSpec, AListing!Spec
=============================================================================
