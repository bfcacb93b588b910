--------------------------- MODULE SendFileProofs ---------------------------
(***************************************************************************)
(* Proofs about SendFile: its type invariant, that the upload is always a  *)
(* prefix of the local file, that success means full length unless a block *)
(* was lost, that uploads and the local file are closed, and that the      *)
(* bytes of the put stay in order whatever other clients of the device do. *)
(***************************************************************************)
EXTENDS SendFile, TransferLemmas, SequenceTheorems, TLAPS

-----------------------------------------------------------------------------
(* What a SEND_FILE_10 adds to the upload. *)

\* How many of n bytes arrive: NeXT loses the count.
Arrived(n) == IF Platform = "next" THEN 0 ELSE n

LEMMA WireCount ==
    ASSUME NEW n \in 0..BlockSize, NEW len
    PROVE  OnWire(Platform, SendCmd(n, len)).args[1] = Arrived(n)
<1>1. n % CountLimit = n
  BY ModSmall, SendAssumption DEF SendAssumption
<1> QED
  BY <1>1 DEF OnWire, WireArgs, SendCmd, WriteCmd, ScsiCmd, Arrived

LEMMA SourceType ==
    ASSUME source \in Sources
    PROVE  source.size \in Nat /\ source.body \in Bodies
  BY SendAssumption DEF SendAssumption, Files

LEMMA AvailableType ==
    ASSUME source \in Sources, pos \in Nat
    PROVE  /\ Available \in 0..BlockSize
           /\ pos <= source.size => pos + Available <= source.size
           /\ pos + BlockSize <= source.size => Available = BlockSize
           /\ source.size - pos \in 0..(BlockSize - 1) => Available = source.size - pos
  BY SourceType, SendAssumption DEF Available, SendAssumption

LEMMA ReadType ==
    ASSUME source \in Sources, pos \in Nat, NEW old \in [1..BlockSize -> Bytes]
    PROVE  /\ Read(old) \in [1..BlockSize -> Bytes]
           /\ \A n \in 1..Available : Read(old)[n] = <<source.body, pos + n>>
<1>1. Available \in 0..BlockSize /\ BlockSize \in Nat
  BY AvailableType, SendAssumption DEF SendAssumption
<1>2. \A n \in 1..BlockSize : <<source.body, pos + n>> \in Bytes
  BY SourceType DEF Bytes
<1>3. \A n \in 1..Available : n \in 1..BlockSize /\ n <= Available
  BY <1>1
<1>4. \A n \in 1..BlockSize :
         (IF n <= Available THEN <<source.body, pos + n>> ELSE old[n]) \in Bytes
  BY <1>2
<1>5. Read(old) \in [1..BlockSize -> Bytes]
  BY <1>4, Zenon DEF Read
<1>6. \A n \in 1..Available : Read(old)[n] = <<source.body, pos + n>>
  BY <1>3 DEF Read
<1> QED
  BY <1>5, <1>6

LEMMA ClearedType == Cleared \in [1..BlockSize -> Bytes]
  BY DEF Cleared, Zero, Bytes

\* An open upload is extended by what arrives; a closed one stays as it is.
LEMMA AppendedType ==
    ASSUME upload \in Uploads,
           NEW b \in [1..BlockSize -> Bytes], NEW n \in 0..BlockSize, NEW len
    PROVE  LET new == Appended(SendCmd(n, len), b)
               m   == Len(upload.data)
           IN  /\ new \in Uploads
               /\ new.open = upload.open
               /\ ~upload.open => new = upload
               /\ upload.open =>
                    /\ Len(new.data) = m + Arrived(n)
                    /\ \A i \in 1..(m + Arrived(n)) :
                          new.data[i] = IF i <= m THEN upload.data[i] ELSE b[i - m]
<1> DEFINE a == Arrived(n)
           part == SubSeq(b, 1, a)
           new == Appended(SendCmd(n, len), b)
           data == upload.data
<1>1. a \in 0..BlockSize /\ BlockSize \in Nat
  BY SendAssumption DEF SendAssumption, Arrived
<1>2. OnWire(Platform, SendCmd(n, len)).args[1] = a
  BY WireCount
<1>3. data \in Seq(Bytes) /\ upload.open \in BOOLEAN
  BY DEF Uploads
<1>4. part \in Seq(Bytes) /\ Len(part) = a /\ \A i \in 1..a : part[i] = b[i]
  <2> HIDE DEF a
  <2>1. \A i \in 1..a : b[i] \in Bytes
    BY <1>1
  <2>2. /\ part \in Seq(Bytes)
        /\ Len(part) = IF 1 <= a THEN a - 1 + 1 ELSE 0
        /\ \A i \in 1..(a - 1 + 1) : part[i] = b[1 + i - 1]
    BY <1>1, <2>1, SubSeqProperties
  <2> QED
    BY <1>1, <2>2
<1>5. /\ data \o part \in Seq(Bytes)
      /\ Len(data \o part) = Len(data) + a
      /\ \A i \in 1..(Len(data) + a) :
            (data \o part)[i] = IF i <= Len(data) THEN data[i] ELSE part[i - Len(data)]
  <2> HIDE DEF part, a, data
  <2>1. data \in Seq(Bytes) /\ part \in Seq(Bytes) /\ Len(part) = a
    BY <1>3, <1>4
  <2> QED
    BY <2>1, ConcatProperties
<1>6. new = IF upload.open THEN [upload EXCEPT !.data = data \o part] ELSE upload
  BY <1>2 DEF Appended
<1> HIDE DEF part, new
<1>7. CASE upload.open
  <2>1. new.data = data \o part /\ new \in Uploads /\ new.open = upload.open
    BY <1>5, <1>6, <1>7 DEF Uploads
  <2>2. ASSUME NEW i \in 1..(Len(data) + a)
        PROVE  new.data[i] = IF i <= Len(data) THEN data[i] ELSE b[i - Len(data)]
    <3>1. Len(data) \in Nat /\ a \in Nat
      BY <1>1, <1>3, LenProperties
    <3>2. i <= Len(data) \/ i - Len(data) \in 1..a
      BY <3>1
    <3> QED
      BY <1>4, <1>5, <2>1, <3>1, <3>2
  <2> QED
    BY <1>5, <1>7, <2>1, <2>2 DEF new
<1>8. CASE ~upload.open
  BY <1>6, <1>8 DEF new
<1> QED
  BY <1>7, <1>8

-----------------------------------------------------------------------------
(* The inductive invariant. *)

\* Where the program is, and what it holds and has done there.
Control ==
    /\ pc \in {"call", "stat", "open"} => handle = "none"
    /\ pc \in {"prep", "send", "end"} => handle = "open"
    /\ pc = "exit" => handle # "open"
    /\ pc \in {"call", "stat", "open", "prep"} =>
          /\ pos = 0 /\ block_index = 0 /\ blocks = 0 /\ last_block_size = 0
          /\ failed = {}
          /\ others = 0 => ~upload.open
    /\ pc \in {"send", "end"} =>
          /\ failed \subseteq {TOOLBOX_SCSI_SEND_FILE_10}
          /\ others = 0 => upload.open
    /\ pc = "send" =>
          /\ TOOLBOX_SCSI_SEND_FILE_10 \notin failed
          /\ blocks = st_size \div BlockSize
          /\ last_block_size = st_size % BlockSize
    /\ pc = "exit" /\ others = 0 /\ upload.open =>
          failed \cap {TOOLBOX_SCSI_SEND_FILE_PREP, TOOLBOX_SCSI_SEND_FILE_END} # {}

\* How much has arrived, by where the program is.
Progress ==
    others = 0 =>
        /\ pc \in {"call", "stat", "open", "prep"} => upload.data = <<>>
        /\ pc = "send" => Len(upload.data) = Arrived(BlockSize * block_index)
        /\ pc = "end" /\ TOOLBOX_SCSI_SEND_FILE_10 \notin failed /\ last_block_size >= 0
             => Len(upload.data) = Arrived(st_size)
        /\ Succeeded /\ TOOLBOX_SCSI_SEND_FILE_10 \notin failed
             => Len(upload.data) = Arrived(st_size)

\* While nobody rewrites the local file, stat() has told the truth, and the file
\* has been read as far as blocks were sent.
Untouched ==
    changes = 0 =>
        /\ pc \in {"open", "prep", "send"} => st_size = source.size
        /\ pc = "send" => pos = BlockSize * block_index

\* The last byte of this put in an open upload is the last one that was read.
LastIsRead ==
    changes = 0 =>
        /\ pc \in {"call", "stat", "open", "prep"} \/ Platform = "next" => Own = {}
        /\ pc = "send" /\ upload.open =>
             \A k \in Own : (\A m \in Own : m <= k) => upload.data[k][2] = pos

IInv == TypeOK /\ Control /\ Progress /\ Untouched /\ UploadIsPrefix

OwnIInv == LastIsRead /\ OwnBytesInOrder
-----------------------------------------------------------------------------
(* Initially. *)

LEMMA InitIInv == Init => IInv /\ OwnIInv
<1> SUFFICES ASSUME Init PROVE IInv /\ OwnIInv
  OBVIOUS
<1>1. NoUpload \in Uploads /\ upload.data = <<>> /\ DOMAIN upload.data = {}
  <2>1. <<>> \in Seq(Bytes) /\ Len(<<>>) = 0 /\ DOMAIN <<>> = {}
    BY EmptySeq
  <2> QED
    BY <2>1 DEF Init, NoUpload, Uploads
<1>2. TypeOK
  BY <1>1, ClearedType, SendAssumption DEF Init, TypeOK, ReturnCodes, SendAssumption
<1>3. Control
  BY DEF Init, Control, NoUpload
<1>4. Progress /\ Untouched /\ UploadIsPrefix
  <2>1. Len(upload.data) = 0
    BY <1>1, EmptySeq
  <2> QED
    BY <1>1, <2>1, SourceType DEF Init, Progress, Succeeded, Untouched, UploadIsPrefix
<1>5. OwnIInv
  BY <1>1 DEF Init, OwnIInv, LastIsRead, OwnBytesInOrder, Own
<1> QED
  BY <1>2, <1>3, <1>4, <1>5 DEF IInv

-----------------------------------------------------------------------------
(* Types. *)

LEMMA TypeStep ==
    ASSUME TypeOK, Control, [Next]_vars
    PROVE  TypeOK'
<1> USE DEF TypeOK
<1>0. /\ BlockSize \in Nat \ {0} /\ BlockSize \in 0..BlockSize
      /\ source.size \in Nat
      /\ Available \in 0..BlockSize
  BY SourceType, AvailableType, SendAssumption DEF SendAssumption
<1>a. INVALID_ARGS \in ReturnCodes /\ CMD_FAILED \in ReturnCodes /\ NO_ERROR \in ReturnCodes
  BY DEF ReturnCodes
<1>b. pos + Available \in Nat
  BY <1>0
<1>1. CASE CallSend
  BY <1>1, <1>a DEF CallSend, Return, fileVars, argVars, planVars, historyVars
<1>2. CASE Stat
  BY <1>2, <1>0, <1>a DEF Stat, Return, fileVars, argVars, historyVars
<1>3. CASE Open
  BY <1>3, <1>a DEF Open, Return, fileVars, argVars, planVars, historyVars
<1>4. CASE Prep
  <2>1. buffer' \in [1..BlockSize -> Bytes]
    BY <1>4 DEF Prep, Name, Bytes
  <2>2. upload' \in Uploads
    <3>1. [open |-> TRUE, name |-> RemoteName, data |-> <<>>] \in Uploads
      BY EmptySeq DEF RemoteName, Uploads
    <3> QED
      BY <1>4, <3>1 DEF Prep, Succeeds, Fails
  <2>3. blocks' \in Nat /\ last_block_size' \in -1..(BlockSize - 1) /\ block_index' \in 0..blocks'
    <3>1. /\ st_size \div BlockSize \in Nat /\ st_size % BlockSize \in 0..(BlockSize - 1)
          /\ block_index = 0 /\ block_index' = block_index
      BY <1>0, <1>4, DivMod DEF Prep, Control
    <3> QED
      BY <1>0, <1>4, <3>1 DEF Prep
  <2>4. acked' \subseteq Opcodes /\ failed' \subseteq Opcodes
    BY <1>4 DEF Prep, Succeeds, Fails, Opcodes
  <2>5. pc' \in {"send", "exit"} /\ ret' \in ReturnCodes /\ handle' \in {"open", "closed", "none"}
    BY <1>4, <1>a DEF Prep, Return
  <2> QED
    BY <1>4, <2>1, <2>2, <2>3, <2>4, <2>5 DEF Prep, fileVars, argVars
<1>5. CASE SendBlock
  <2>1. buffer' \in [1..BlockSize -> Bytes]
    BY <1>5, ReadType DEF SendBlock
  <2>2. upload' \in Uploads
    BY <1>5, <1>0, <2>1, AppendedType DEF SendBlock, Succeeds, Fails
  <2>3. block_index' \in 0..blocks
    BY <1>5 DEF SendBlock
  <2>4. last_block_size' \in -1..(BlockSize - 1)
    BY <1>5, <1>0 DEF SendBlock
  <2>5. acked' \subseteq Opcodes /\ failed' \subseteq Opcodes
    BY <1>5 DEF SendBlock, Succeeds, Fails, Opcodes
  <2>6. pc' \in {"send", "end"} /\ pos' \in Nat
    BY <1>5, <1>b DEF SendBlock
  <2> QED
    BY <1>5, <2>1, <2>2, <2>3, <2>4, <2>5, <2>6 DEF SendBlock, fileVars, argVars, planVars
<1>6. CASE SendLast
  <2>1. buffer' \in [1..BlockSize -> Bytes]
    BY <1>6, ReadType, ClearedType DEF SendLast
  <2>2. upload' \in Uploads
    <3>1. CASE Available # last_block_size
      BY <1>6, <3>1 DEF SendLast
    <3>2. CASE Available = last_block_size
      <4>1. Appended(SendCmd(last_block_size, Available), buffer') \in Uploads
        BY <1>0, <3>2, <2>1, AppendedType
      <4> QED
        BY <1>6, <3>2, <4>1 DEF SendLast, Succeeds, Fails
    <3> QED
      BY <3>1, <3>2
  <2>3. last_block_size' \in -1..(BlockSize - 1)
    BY <1>6, <1>0 DEF SendLast
  <2>4. acked' \subseteq Opcodes /\ failed' \subseteq Opcodes
    BY <1>6 DEF SendLast, Succeeds, Fails, Opcodes, historyVars
  <2>5. pos' \in Nat
    BY <1>6, <1>b DEF SendLast
  <2> QED
    BY <1>6, <2>1, <2>2, <2>3, <2>4, <2>5 DEF SendLast, fileVars, argVars, planVars
<1>7. CASE SendEnd
  <2>1. [upload EXCEPT !.open = FALSE] \in Uploads
    BY DEF Uploads
  <2>2. upload' \in Uploads /\ acked' \subseteq Opcodes /\ failed' \subseteq Opcodes
    BY <1>7, <2>1 DEF SendEnd, Succeeds, Fails, Opcodes
  <2>3. ret' \in ReturnCodes /\ pc' = "exit"
    BY <1>7, <1>a DEF SendEnd, Return
  <2> QED
    BY <1>7, <2>2, <2>3 DEF SendEnd, fileVars, argVars, planVars
<1>8. CASE FileChanges
  BY <1>8, SendAssumption DEF FileChanges, SendAssumption, stepVars, argVars, planVars, historyVars
<1>9. CASE OtherPrep \/ OtherSend \/ OtherEnd
  <2>1. UNCHANGED <<stepVars, fileVars>> /\ others' = others + 1 /\ others < MaxOthers
    BY <1>9 DEF OtherPrep, OtherSend, OtherEnd, OtherClient
  <2>2. upload' \in Uploads
    <3>1. CASE OtherPrep
      BY <3>1, EmptySeq DEF OtherPrep, Uploads
    <3>2. CASE OtherSend
      <4>1. Other(others') \in Bytes /\ upload.data \in Seq(Bytes)
        BY <2>1 DEF Other, Bytes, Uploads
      <4>2. Append(upload.data, Other(others')) \in Seq(Bytes)
        BY <4>1, AppendProperties
      <4> QED
        BY <3>2, <4>2 DEF OtherSend, Uploads
    <3>3. CASE OtherEnd
      BY <3>3 DEF OtherEnd, Uploads
    <3> QED
      BY <1>9, <3>1, <3>2, <3>3
  <2>3. others' \in 0..MaxOthers
    BY <2>1, SendAssumption DEF SendAssumption
  <2> QED
    BY <2>1, <2>2, <2>3 DEF stepVars, fileVars, argVars, planVars, historyVars
<1>10. CASE UNCHANGED vars
  BY <1>10 DEF vars, stepVars, fileVars, argVars, planVars, historyVars
<1> QED
  BY <1>1, <1>2, <1>3, <1>4, <1>5, <1>6, <1>7, <1>8, <1>9, <1>10 DEF Next, SendStep

-----------------------------------------------------------------------------
(* Control. *)

LEMMA ControlStep ==
    ASSUME TypeOK, Control, [Next]_vars
    PROVE  Control'
<1> USE DEF Control
<1>0. /\ TOOLBOX_SCSI_SEND_FILE_PREP # TOOLBOX_SCSI_SEND_FILE_10
      /\ TOOLBOX_SCSI_SEND_FILE_END # TOOLBOX_SCSI_SEND_FILE_10
  BY DEF TOOLBOX_SCSI_SEND_FILE_PREP, TOOLBOX_SCSI_SEND_FILE_10, TOOLBOX_SCSI_SEND_FILE_END
<1>1. CASE CallSend
  BY <1>1 DEF CallSend, Return, fileVars, argVars, planVars, historyVars
<1>2. CASE Stat
  BY <1>2 DEF Stat, Return, fileVars, argVars, historyVars
<1>3. CASE Open
  BY <1>3 DEF Open, Return, fileVars, argVars, planVars, historyVars
<1>4. CASE Prep
  <2>1. CASE pc' = "send"
    BY <1>4, <2>1 DEF Prep, Succeeds, Return
  <2>2. CASE pc' = "exit"
    BY <1>4, <2>2 DEF Prep, Fails, Return
  <2> QED
    BY <1>4, <2>1, <2>2 DEF Prep, Return
<1>5. CASE SendBlock
  <2>1. upload'.open = upload.open
    <3>1. buffer' \in [1..BlockSize -> Bytes]
      BY <1>5, ReadType DEF SendBlock, TypeOK
    <3>2. upload \in Uploads /\ BlockSize \in 0..BlockSize
      BY SendAssumption DEF SendAssumption, TypeOK
    <3>3. upload' \in {upload, Appended(SendCmd(BlockSize, BlockSize), buffer')}
      BY <1>5 DEF SendBlock, Succeeds, Fails
    <3> QED
      BY <3>1, <3>2, <3>3, AppendedType
  <2>2. failed' \subseteq {TOOLBOX_SCSI_SEND_FILE_10} /\ (pc' = "send" => failed' = failed)
    BY <1>5 DEF SendBlock, Succeeds, Fails
  <2> QED
    BY <1>5, <2>1, <2>2 DEF SendBlock, fileVars, argVars, planVars
<1>6. CASE SendLast
  <2>1. upload'.open = upload.open
    <3>1. \A c, bytes : Appended(c, bytes).open = upload.open
      BY DEF Appended, TypeOK, Uploads
    <3> QED
      BY <1>6, <3>1 DEF SendLast, Succeeds, Fails
  <2>2. failed' \subseteq {TOOLBOX_SCSI_SEND_FILE_10}
    BY <1>6 DEF SendLast, Succeeds, Fails, historyVars, BlocksDone
  <2> QED
    BY <1>6, <2>1, <2>2 DEF SendLast, BlocksDone, fileVars, argVars, planVars
<1>7. CASE SendEnd
  <2>1. \/ upload'.open = FALSE
        \/ TOOLBOX_SCSI_SEND_FILE_END \in failed'
    BY <1>7 DEF SendEnd, Succeeds, Fails, TypeOK, Uploads
  <2> QED
    BY <1>7, <2>1 DEF SendEnd, Return
<1>8. CASE FileChanges
  BY <1>8 DEF FileChanges, stepVars, argVars, planVars, historyVars
<1>9. CASE OtherPrep \/ OtherSend \/ OtherEnd
  <2>1. UNCHANGED <<stepVars, fileVars>> /\ others' # 0
    BY <1>9 DEF OtherPrep, OtherSend, OtherEnd, OtherClient, TypeOK
  <2> QED
    BY <2>1 DEF stepVars, planVars, historyVars
<1>10. CASE UNCHANGED vars
  BY <1>10 DEF vars, stepVars, fileVars, argVars, planVars, historyVars
<1> QED
  BY <1>1, <1>2, <1>3, <1>4, <1>5, <1>6, <1>7, <1>8, <1>9, <1>10 DEF Next, SendStep

-----------------------------------------------------------------------------
(* Progress. *)

LEMMA ProgressStep ==
    ASSUME TypeOK, Control, Progress, [Next]_vars
    PROVE  Progress'
<1> USE DEF Progress
<1>0. /\ BlockSize \in Nat \ {0} /\ BlockSize \in 0..BlockSize
      /\ block_index \in Nat /\ blocks \in Nat /\ st_size \in Nat
      /\ Available \in 0..BlockSize
  BY AvailableType, SendAssumption DEF SendAssumption, TypeOK
<1>1. CASE CallSend
  BY <1>1 DEF CallSend, Return, Succeeded, INVALID_ARGS, NO_ERROR
<1>2. CASE Stat
  BY <1>2 DEF Stat, Return, Succeeded, CMD_FAILED, NO_ERROR
<1>3. CASE Open
  BY <1>3 DEF Open, Return, Succeeded, planVars, CMD_FAILED, NO_ERROR
<1>4. CASE Prep
  <2>1. CASE pc' = "send"
    <3>1. upload'.data = <<>> /\ block_index' = 0
      BY <1>4, <2>1 DEF Prep, Succeeds, Return, Control
    <3>2. Arrived(BlockSize * 0) = 0
      BY <1>0 DEF Arrived
    <3> QED
      BY <2>1, <3>1, <3>2, EmptySeq DEF Succeeded
  <2>2. CASE pc' = "exit"
    BY <1>4, <2>2 DEF Prep, Return, Succeeded, CMD_FAILED, NO_ERROR
  <2> QED
    BY <1>4, <2>1, <2>2 DEF Prep, Return
<1>5. CASE SendBlock
  <2>1. CASE pc' = "send"
    <3>1. /\ upload' = Appended(SendCmd(BlockSize, BlockSize), buffer')
          /\ block_index' = block_index + 1 /\ block_index < blocks
          /\ others' = others /\ pc = "send"
      BY <1>5, <2>1 DEF SendBlock, Succeeds, Fails
    <3>2. buffer' \in [1..BlockSize -> Bytes]
      BY <1>5, ReadType DEF SendBlock, TypeOK
    <3>3. upload.open => Len(upload'.data) = Len(upload.data) + Arrived(BlockSize)
      <4>1. upload \in Uploads /\ BlockSize \in 0..BlockSize
        BY <1>0 DEF TypeOK
      <4> QED
        BY <3>1, <3>2, <4>1, AppendedType
    <3>4. BlockSize * (block_index + 1) = BlockSize * block_index + BlockSize
      BY <1>0, <3>1, NextBlock
    <3>5. Arrived(BlockSize * (block_index + 1)) = Arrived(BlockSize * block_index) + Arrived(BlockSize)
      BY <1>0, <3>4 DEF Arrived
    <3> QED
      BY <2>1, <3>1, <3>3, <3>5 DEF Control, Succeeded
  <2>2. CASE pc' = "end"
    BY <1>5, <2>2 DEF SendBlock, Succeeds, Fails, Control, Succeeded
  <2> QED
    BY <1>5, <2>1, <2>2 DEF SendBlock
<1>6. CASE SendLast
  <2>1. SUFFICES ASSUME others' = 0, TOOLBOX_SCSI_SEND_FILE_10 \notin failed', last_block_size' >= 0
                 PROVE  Len(upload'.data) = Arrived(st_size)
    BY <1>6 DEF SendLast, planVars, Succeeded
  <2>2. /\ Available = last_block_size
        /\ upload' = Appended(SendCmd(last_block_size, Available), buffer')
    BY <1>6, <2>1 DEF SendLast, Succeeds, Fails
  <2>3. buffer' \in [1..BlockSize -> Bytes]
    BY <1>6, ReadType, ClearedType DEF SendLast, TypeOK
  <2>4. others = 0 /\ upload.open /\ Len(upload.data) = Arrived(BlockSize * blocks)
    BY <1>6, <2>1 DEF SendLast, BlocksDone, Control
  <2>5. Len(upload'.data) = Len(upload.data) + Arrived(last_block_size)
    <3>1. last_block_size \in 0..BlockSize /\ upload \in Uploads
      BY <1>0, <2>2 DEF TypeOK
    <3> QED
      BY <2>2, <2>3, <2>4, <3>1, AppendedType, Zenon
  <2>6. st_size = BlockSize * blocks + last_block_size
    BY <1>0, <1>6, DivMod DEF SendLast, BlocksDone, Control
  <2>7. BlockSize * blocks \in Nat /\ last_block_size \in Nat
    BY <1>0, <2>2
  <2> QED
    BY <2>4, <2>5, <2>6, <2>7 DEF Arrived
<1>7. CASE SendEnd
  <2>1. SUFFICES ASSUME others' = 0, Succeeded', TOOLBOX_SCSI_SEND_FILE_10 \notin failed'
                 PROVE  Len(upload'.data) = Arrived(st_size)
    BY <1>7 DEF SendEnd, Return, planVars
  <2>2. /\ upload'.data = upload.data /\ others = 0
        /\ TOOLBOX_SCSI_SEND_FILE_10 \notin failed /\ last_block_size >= 0
    BY <1>7, <2>1 DEF SendEnd, Succeeds, Fails, Return, Succeeded, CMD_FAILED, NO_ERROR, TypeOK,
       Uploads
  <2>3. CASE pc = "end"
    BY <2>2, <2>3
  <2>4. CASE BlocksDone /\ last_block_size = 0
    <3>1. st_size = BlockSize * blocks + 0
      BY <1>0, <2>4, DivMod DEF BlocksDone, Control
    <3>2. st_size = BlockSize * block_index
      BY <1>0, <2>4, <3>1 DEF BlocksDone
    <3> QED
      BY <2>2, <2>4, <3>2 DEF BlocksDone
  <2> QED
    BY <1>7, <2>3, <2>4 DEF SendEnd
<1>8. CASE FileChanges
  BY <1>8 DEF FileChanges, stepVars, argVars, planVars, historyVars, Succeeded
<1>9. CASE OtherPrep \/ OtherSend \/ OtherEnd
  BY <1>9 DEF OtherPrep, OtherSend, OtherEnd, OtherClient, TypeOK
<1>10. CASE UNCHANGED vars
  BY <1>10 DEF vars, stepVars, fileVars, argVars, planVars, historyVars, Succeeded
<1> QED
  BY <1>1, <1>2, <1>3, <1>4, <1>5, <1>6, <1>7, <1>8, <1>9, <1>10 DEF Next, SendStep
-----------------------------------------------------------------------------
(* Contents. *)

LEMMA UntouchedStep ==
    ASSUME TypeOK, Control, Untouched, [Next]_vars
    PROVE  Untouched'
<1> USE DEF Untouched
<1>0. /\ BlockSize \in Nat \ {0} /\ block_index \in Nat /\ blocks \in Nat
      /\ st_size \in Nat
  BY SendAssumption DEF SendAssumption, TypeOK
<1>1. CASE CallSend
  BY <1>1 DEF CallSend, Return, fileVars
<1>2. CASE Stat
  BY <1>2 DEF Stat, Return, fileVars
<1>3. CASE Open
  BY <1>3 DEF Open, Return, fileVars, planVars
<1>4. CASE Prep
  BY <1>4, <1>0 DEF Prep, Return, Control, fileVars
<1>5. CASE SendBlock
  <2>1. SUFFICES ASSUME changes' = 0, pc' = "send"
                 PROVE  st_size' = source'.size /\ pos' = BlockSize * block_index'
    BY <1>5 DEF SendBlock
  <2>2. /\ changes = 0 /\ pc = "send" /\ block_index < blocks
        /\ block_index' = block_index + 1 /\ pos' = pos + Available
        /\ UNCHANGED <<st_size, source>>
    BY <1>5, <2>1 DEF SendBlock, fileVars, planVars
  <2>3. pos = BlockSize * block_index /\ st_size = source.size
    BY <2>2
  <2>4. pos + BlockSize = BlockSize * (block_index + 1) /\ pos + BlockSize <= source.size
    <3>1. /\ BlockSize * (block_index + 1) = BlockSize * block_index + BlockSize
          /\ BlockSize * (block_index + 1) <= BlockSize * blocks
      BY <1>0, <2>2, NextBlock
    <3>2. BlockSize * blocks <= st_size
      BY <1>0, <2>2, BlocksBound DEF Control
    <3>3. BlockSize * blocks \in Nat /\ BlockSize * (block_index + 1) \in Nat
      BY <1>0
    <3> QED
      BY <1>0, <2>3, <3>1, <3>2, <3>3
  <2>5. Available = BlockSize
    BY <2>4, AvailableType DEF TypeOK
  <2> QED
    BY <2>2, <2>3, <2>4, <2>5
<1>6. CASE SendLast
  BY <1>6 DEF SendLast, fileVars
<1>7. CASE SendEnd
  BY <1>7 DEF SendEnd, Return, fileVars
<1>8. CASE FileChanges
  BY <1>8 DEF FileChanges, TypeOK
<1>9. CASE OtherPrep \/ OtherSend \/ OtherEnd
  BY <1>9 DEF OtherPrep, OtherSend, OtherEnd, OtherClient, stepVars, fileVars, planVars
<1>10. CASE UNCHANGED vars
  BY <1>10 DEF vars, stepVars, fileVars, planVars
<1> QED
  BY <1>1, <1>2, <1>3, <1>4, <1>5, <1>6, <1>7, <1>8, <1>9, <1>10 DEF Next, SendStep

\* What a SEND_FILE_10 is sent with, while the file is as stat() saw it: the bytes
\* behind the last ones read, as many as there are.
LEMMA SentContents ==
    ASSUME TypeOK, Control, Untouched, changes = 0, pc = "send",
           NEW old \in [1..BlockSize -> Bytes]
    PROVE  /\ Read(old) \in [1..BlockSize -> Bytes]
           /\ \A n \in 1..Available : Read(old)[n] = <<source.body, pos + n>>
           /\ pos + Available <= source.size
           /\ block_index < blocks => Available = BlockSize
           /\ pos \in Nat /\ pos + Available \in Nat /\ source.size \in Nat
           /\ Available \in 0..BlockSize
<1>0. /\ BlockSize \in Nat \ {0} /\ block_index \in 0..blocks /\ blocks \in Nat
      /\ st_size \in Nat /\ pos \in Nat /\ source.size \in Nat /\ source \in Sources
  BY SourceType, SendAssumption DEF SendAssumption, TypeOK
<1>1. pos = BlockSize * block_index /\ st_size = source.size /\ blocks = st_size \div BlockSize
  BY DEF Untouched, Control
<1>2. BlockSize * blocks <= source.size /\ BlockSize * blocks \in Nat
  BY <1>0, <1>1, BlocksBound
<1>3. CASE block_index < blocks
  <2>1. /\ BlockSize * (block_index + 1) = BlockSize * block_index + BlockSize
        /\ BlockSize * (block_index + 1) <= BlockSize * blocks
    BY <1>0, <1>3, NextBlock
  <2>2. pos + BlockSize <= source.size
    BY <1>0, <1>1, <1>2, <2>1
  <2>3. Available = BlockSize /\ Available \in 0..BlockSize
    BY <1>0, <2>2, AvailableType
  <2> QED
    BY <1>0, <2>2, <2>3, ReadType
<1>4. CASE block_index = blocks
  <2>1. pos <= source.size
    BY <1>1, <1>2, <1>4
  <2>2. pos + Available <= source.size /\ Available \in 0..BlockSize
    BY <1>0, <2>1, AvailableType
  <2> QED
    BY <1>0, <1>4, <2>2, ReadType
<1> QED
  BY <1>0, <1>3, <1>4

\* It continues the prefix that is there.
LEMMA AppendedPrefix ==
    ASSUME TypeOK, Control, Progress, Untouched, UploadIsPrefix,
           changes = 0, others = 0, pc = "send",
           NEW old \in [1..BlockSize -> Bytes], NEW len
    PROVE  LET new == Appended(SendCmd(Available, len), Read(old))
           IN  /\ Len(new.data) <= source.size
               /\ \A k \in 1..Len(new.data) : new.data[k] = <<source.body, k>>
<1> DEFINE new == Appended(SendCmd(Available, len), Read(old))
           m   == Len(upload.data)
<1>1. /\ Read(old) \in [1..BlockSize -> Bytes]
      /\ \A n \in 1..Available : Read(old)[n] = <<source.body, pos + n>>
      /\ pos + Available <= source.size
      /\ pos \in Nat /\ source.size \in Nat
      /\ Available \in 0..BlockSize
  BY SentContents
<1>2. m = Arrived(pos) /\ upload.open
  BY DEF Progress, Untouched, Control
<1>3. /\ Len(new.data) = m + Arrived(Available)
      /\ \A i \in 1..(m + Arrived(Available)) :
            new.data[i] = IF i <= m THEN upload.data[i] ELSE Read(old)[i - m]
  BY <1>1, <1>2, AppendedType DEF TypeOK
<1>4. \A k \in 1..m : upload.data[k] = <<source.body, k>>
  BY DEF UploadIsPrefix
<1> HIDE DEF new, m
<1>5. CASE Platform = "next"
  <2>1. m = 0 /\ Len(new.data) = 0
    BY <1>2, <1>3, <1>5 DEF Arrived
  <2> QED
    BY <1>1, <2>1 DEF new
<1>6. CASE Platform # "next"
  <2>1. m = pos /\ Len(new.data) = pos + Available /\ Arrived(Available) = Available
    BY <1>2, <1>3, <1>6 DEF Arrived
  <2>2. Available \in Nat
    BY <1>1, SendAssumption DEF SendAssumption
  <2>3. ASSUME NEW k \in 1..(pos + Available) PROVE new.data[k] = <<source.body, k>>
    <3>1. CASE k <= pos
      <4>1. k \in 1..m
        BY <1>1, <2>1, <2>2, <3>1
      <4> QED
        BY <1>3, <1>4, <2>1, <3>1, <4>1
    <3>2. CASE ~(k <= pos)
      <4>1. k - pos \in 1..Available /\ pos + (k - pos) = k
        BY <1>1, <2>2, <3>2
      <4> QED
        BY <1>1, <1>3, <2>1, <3>2, <4>1
    <3> QED
      BY <3>1, <3>2
  <2> QED
    BY <1>1, <2>1, <2>3 DEF new
<1> QED
  BY <1>5, <1>6

LEMMA PrefixStep ==
    ASSUME TypeOK, Control, Progress, Untouched, UploadIsPrefix, [Next]_vars
    PROVE  UploadIsPrefix'
<1>1. CASE upload' = upload /\ UNCHANGED <<source, changes, others>>
  BY <1>1 DEF UploadIsPrefix
<1>2. CASE Prep
  <2>1. UNCHANGED <<source, changes, others>>
    BY <1>2 DEF Prep, fileVars
  <2>2. CASE upload'.data = <<>>
    <3>1. Len(upload'.data) = 0
      BY <2>2, EmptySeq
    <3>2. source.size \in Nat
      BY SourceType DEF TypeOK
    <3> QED
      BY <2>1, <3>1, <3>2 DEF UploadIsPrefix
  <2>3. upload' = upload \/ upload'.data = <<>>
    BY <1>2 DEF Prep, Succeeds, Fails
  <2> QED
    BY <1>1, <2>1, <2>2, <2>3
<1>3. CASE SendBlock
  <2>1. UNCHANGED <<source, changes, others>> /\ pc = "send" /\ block_index < blocks
    BY <1>3 DEF SendBlock, fileVars
  <2>2. upload' = upload \/ upload' = Appended(SendCmd(BlockSize, BlockSize), Read(buffer))
    BY <1>3 DEF SendBlock, Succeeds, Fails
  <2>3. CASE upload' = Appended(SendCmd(BlockSize, BlockSize), Read(buffer))
    <3>1. SUFFICES ASSUME changes = 0, others = 0 PROVE UploadIsPrefix'
      BY <2>1 DEF UploadIsPrefix
    <3>2. buffer \in [1..BlockSize -> Bytes]
      BY DEF TypeOK
    <3>3. Available = BlockSize
      BY <2>1, <3>1, <3>2, SentContents
    <3> QED
      BY <2>1, <2>3, <3>1, <3>2, <3>3, AppendedPrefix DEF UploadIsPrefix
  <2> QED
    BY <1>1, <2>1, <2>2, <2>3
<1>4. CASE SendLast
  <2>1. UNCHANGED <<source, changes, others>> /\ pc = "send"
    BY <1>4 DEF SendLast, BlocksDone, fileVars
  <2>2. upload' = upload \/ upload' = Appended(SendCmd(Available, Available), Read(Cleared))
    BY <1>4 DEF SendLast, Succeeds, Fails
  <2>3. CASE upload' = Appended(SendCmd(Available, Available), Read(Cleared))
    <3>1. SUFFICES ASSUME changes = 0, others = 0 PROVE UploadIsPrefix'
      BY <2>1 DEF UploadIsPrefix
    <3> QED
      BY <2>1, <2>3, <3>1, ClearedType, AppendedPrefix DEF UploadIsPrefix
  <2> QED
    BY <1>1, <2>1, <2>2, <2>3
<1>5. CASE SendEnd
  BY <1>5 DEF SendEnd, Succeeds, Fails, fileVars, UploadIsPrefix, TypeOK, Uploads
<1>6. CASE FileChanges \/ OtherPrep \/ OtherSend \/ OtherEnd
  BY <1>6 DEF FileChanges, OtherPrep, OtherSend, OtherEnd, OtherClient, UploadIsPrefix, TypeOK
<1> QED
  BY <1>1, <1>2, <1>3, <1>4, <1>5, <1>6
     DEF Next, SendStep, CallSend, Stat, Open, vars, fileVars

-----------------------------------------------------------------------------
(* Order, when other clients use the upload too. *)

\* What a SEND_FILE_10 adds to an open upload continues the bytes of this put that
\* are in it, with or without bytes of others between them.
LEMMA AppendedOwn ==
    ASSUME TypeOK, Control, Untouched, LastIsRead, OwnBytesInOrder,
           changes = 0, pc = "send", upload.open,
           NEW old \in [1..BlockSize -> Bytes], NEW len
    PROVE  LET new  == Appended(SendCmd(Available, len), Read(old))
               own  == {k \in DOMAIN new.data : new.data[k][1] # "other"}
           IN  /\ Platform = "next" => own = {}
               /\ \A k \in own : new.data[k][1] = source.body
               /\ \A i, j \in own : i < j /\ (\A m \in own : m <= i \/ j <= m)
                     => new.data[j][2] = new.data[i][2] + 1
               /\ \A k \in own : (\A m \in own : m <= k) => new.data[k][2] = pos + Available
<1> DEFINE new == Appended(SendCmd(Available, len), Read(old))
           own == {k \in DOMAIN new.data : new.data[k][1] # "other"}
           l   == Len(upload.data)
           a   == Arrived(Available)
<1>1. /\ Read(old) \in [1..BlockSize -> Bytes]
      /\ \A n \in 1..Available : Read(old)[n] = <<source.body, pos + n>>
      /\ pos \in Nat /\ Available \in 0..BlockSize /\ BlockSize \in Nat
  BY SentContents, SendAssumption DEF SendAssumption
<1>2. /\ new.data \in Seq(Bytes) /\ Len(new.data) = l + a
      /\ \A i \in 1..(l + a) :
            new.data[i] = IF i <= l THEN upload.data[i] ELSE Read(old)[i - l]
  <2>1. new \in Uploads
    BY <1>1, AppendedType DEF TypeOK
  <2>2. new.data \in Seq(Bytes)
    BY <2>1 DEF Uploads
  <2> QED
    BY <1>1, <2>2, AppendedType DEF TypeOK
<1>3. /\ l \in Nat /\ a \in Nat /\ a <= Available
      /\ DOMAIN upload.data = 1..l /\ DOMAIN new.data = 1..(l + a)
  BY <1>1, <1>2, LenProperties DEF TypeOK, Uploads, Arrived
<1>4. source.body # "other"
  BY SourceType, SendAssumption DEF SendAssumption, TypeOK
<1> HIDE DEF new, l, a
\* The bytes that are there stay, and all that arrive are the put's own.
<1>5. ASSUME NEW k \in 1..(l + a), k <= l
      PROVE  new.data[k] = upload.data[k] /\ (k \in own <=> k \in Own)
  <2>1. k \in 1..l
    BY <1>3, <1>5
  <2>2. new.data[k] = upload.data[k]
    BY <1>2, <1>5
  <2> QED
    BY <1>3, <2>1, <2>2 DEF Own
<1>6. ASSUME NEW k \in 1..(l + a), ~(k <= l)
      PROVE  new.data[k] = <<source.body, pos + (k - l)>> /\ k \in own
  <2>1. k - l \in 1..Available
    BY <1>1, <1>3, <1>6
  <2>2. new.data[k] = <<source.body, pos + (k - l)>>
    BY <1>1, <1>2, <1>6, <2>1
  <2> QED
    BY <1>3, <1>4, <2>2
<1>7. own \subseteq 1..(l + a) /\ Own \subseteq 1..l
  BY <1>3 DEF Own
<1>8. \A k \in Own : k \in own /\ k \in 1..(l + a) /\ k <= l /\ new.data[k] = upload.data[k]
  BY <1>3, <1>5, <1>7
<1> HIDE DEF own
<1>9. Platform = "next" => own = {}
  <2> SUFFICES ASSUME Platform = "next", NEW k \in own PROVE FALSE
    OBVIOUS
  <2>1. a = 0 /\ Own = {}
    BY DEF a, Arrived, LastIsRead
  <2>2. k \in 1..(l + a) /\ k <= l
    BY <1>3, <1>7, <2>1
  <2> QED
    BY <1>5, <2>1, <2>2
<1>10. ASSUME NEW k \in own PROVE new.data[k][1] = source.body
  BY <1>5, <1>6, <1>7 DEF OwnBytesInOrder
<1>11. ASSUME NEW i \in own, NEW j \in own, i < j, \A m \in own : m <= i \/ j <= m
       PROVE  new.data[j][2] = new.data[i][2] + 1
  <2>0. i \in 1..(l + a) /\ j \in 1..(l + a) /\ l \in Nat /\ a \in Nat
    BY <1>3, <1>7
  <2>1. CASE j <= l
    <3>1. i \in Own /\ j \in Own
      BY <1>5, <1>11, <2>0, <2>1
    <3>2. \A m \in Own : m <= i \/ j <= m
      BY <1>8, <1>11
    <3> QED
      BY <1>8, <1>11, <3>1, <3>2 DEF OwnBytesInOrder
  <2>2. CASE ~(j <= l) /\ i <= l
    <3>1. i \in Own /\ \A m \in Own : m <= i
      <4>1. i \in Own
        BY <1>5, <2>0, <2>2
      <4>2. ASSUME NEW m \in Own PROVE m <= i
        BY <1>8, <1>11, <2>0, <2>2
      <4> QED
        BY <4>1, <4>2
    <3>2. new.data[i][2] = pos
      BY <1>8, <3>1 DEF LastIsRead
    <3>3. l + 1 \in own
      BY <1>6, <2>0, <2>2
    <3>4. j = l + 1
      BY <1>11, <2>0, <2>2, <3>3
    <3>5. new.data[j] = <<source.body, pos + (j - l)>> /\ j - l = 1
      BY <1>6, <2>0, <2>2, <3>4
    <3> QED
      BY <3>2, <3>5
  <2>3. CASE ~(j <= l) /\ ~(i <= l)
    <3>1. i + 1 \in own
      BY <1>6, <1>11, <2>0, <2>3
    <3>2. j = i + 1
      BY <1>11, <2>0, <3>1
    <3>3. new.data[i] = <<source.body, pos + (i - l)>> /\ new.data[j] = <<source.body, pos + (j - l)>>
      BY <1>6, <2>0, <2>3
    <3>4. pos + (j - l) = pos + (i - l) + 1
      BY <1>1, <2>0, <3>2
    <3> QED
      BY <3>3, <3>4
  <2> QED
    BY <2>1, <2>2, <2>3
<1>12. ASSUME NEW k \in own, \A m \in own : m <= k
       PROVE  new.data[k][2] = pos + Available
  <2>0. k \in 1..(l + a) /\ l \in Nat /\ a \in Nat /\ Available \in Nat
    BY <1>1, <1>3, <1>7
  <2>1. a = Available
    BY <1>9, <1>12 DEF a, Arrived
  <2>2. CASE k <= l
    <3>1. a = 0
      <4>1. a # 0 => l + a \in own
        BY <1>6, <2>0
      <4> QED
        BY <1>12, <2>0, <2>2, <4>1
    <3>2. k \in Own /\ \A m \in Own : m <= k
      BY <1>5, <1>8, <1>12, <2>0, <2>2
    <3>3. new.data[k][2] = pos
      BY <1>8, <3>2 DEF LastIsRead
    <3> QED
      BY <1>1, <2>1, <3>1, <3>3
  <2>3. CASE ~(k <= l)
    <3>1. l + a \in own
      BY <1>6, <2>0, <2>3
    <3>2. k = l + a
      BY <1>12, <2>0, <3>1
    <3>3. new.data[k] = <<source.body, pos + (k - l)>> /\ k - l = a
      BY <1>6, <2>0, <2>3, <3>2
    <3> QED
      BY <2>1, <3>3
  <2> QED
    BY <2>2, <2>3
<1> QED
  BY <1>9, <1>10, <1>11, <1>12 DEF own, new

LEMMA OwnStep ==
    ASSUME TypeOK, Control, Untouched, OwnIInv, [Next]_vars
    PROVE  OwnIInv'
<1> USE DEF OwnIInv
\* A step that leaves the bytes of this put as they are, or takes them all away.
<1>1. ASSUME UNCHANGED <<source, changes>>, upload'.data = upload.data,
             pc' \in {"call", "stat", "open", "prep"} => pc \in {"call", "stat", "open", "prep"},
             pc' = "send" /\ upload'.open => pc = "send" /\ upload.open /\ pos' = pos
      PROVE  OwnIInv'
  BY <1>1 DEF LastIsRead, OwnBytesInOrder, Own
<1>2. ASSUME upload'.data = <<>>
      PROVE  OwnIInv'
  <2>1. Own' = {}
    BY <1>2, EmptySeq DEF Own
  <2> QED
    BY <2>1 DEF LastIsRead, OwnBytesInOrder
\* A block, or the last block, that is appended to an open upload.
<1>3. ASSUME NEW old \in [1..BlockSize -> Bytes], NEW len,
             pc = "send", changes = 0, upload.open,
             UNCHANGED <<source, changes>>, pc' \in {"send", "end"}, pos' = pos + Available,
             upload' = Appended(SendCmd(Available, len), Read(old))
      PROVE  OwnIInv'
  <2> DEFINE new == Appended(SendCmd(Available, len), Read(old))
             own == {k \in DOMAIN new.data : new.data[k][1] # "other"}
  <2>1. /\ Platform = "next" => own = {}
        /\ \A k \in own : new.data[k][1] = source.body
        /\ \A i, j \in own : i < j /\ (\A m \in own : m <= i \/ j <= m)
              => new.data[j][2] = new.data[i][2] + 1
        /\ \A k \in own : (\A m \in own : m <= k) => new.data[k][2] = pos + Available
    BY <1>3, AppendedOwn
  <2>2. upload' = new /\ Own' = own
    BY <1>3 DEF Own
  <2> HIDE DEF new, own
  <2>3. LastIsRead'
    BY <1>3, <2>1, <2>2 DEF LastIsRead
  <2>4. OwnBytesInOrder'
    BY <1>3, <2>1, <2>2 DEF OwnBytesInOrder
  <2> QED
    BY <2>3, <2>4
<1>4. CASE CallSend \/ Stat \/ Open
  BY <1>1, <1>4 DEF CallSend, Stat, Open, Return, fileVars
<1>5. CASE Prep
  <2>1. CASE upload' = upload /\ pc' = "exit"
    BY <1>1, <1>5, <2>1 DEF Prep, fileVars
  <2>2. CASE upload'.data = <<>>
    BY <1>2, <2>2
  <2>3. (upload' = upload /\ pc' = "exit") \/ upload'.data = <<>>
    BY <1>5 DEF Prep, Succeeds, Fails, Return
  <2> QED
    BY <2>1, <2>2, <2>3
<1>6. CASE changes' # 0
  BY <1>6 DEF LastIsRead, OwnBytesInOrder
<1>7. CASE SendBlock /\ changes' = 0
  <2>1. /\ UNCHANGED <<source, changes>> /\ pc = "send" /\ block_index < blocks
        /\ pos' = pos + Available
    BY <1>7 DEF SendBlock, fileVars
  <2>2. Available = BlockSize
    BY <1>7, <2>1, SentContents, ClearedType
  <2>3. CASE upload' = Appended(SendCmd(BlockSize, BlockSize), Read(buffer)) /\ upload.open
    <3>1. buffer \in [1..BlockSize -> Bytes]
      BY DEF TypeOK
    <3>2. pc' \in {"send", "end"}
      BY <1>7, <2>1 DEF SendBlock
    <3>3. changes = 0
      BY <1>7, <2>1
    <3> QED
      BY <1>3, <2>1, <2>2, <2>3, <3>1, <3>2, <3>3
  <2>4. CASE upload' = upload /\ (pc' = "end" \/ ~upload.open)
    BY <1>1, <1>7, <2>1, <2>4 DEF SendBlock
  <2>5. \/ upload' = upload /\ (pc' = "end" \/ ~upload.open)
        \/ upload' = Appended(SendCmd(BlockSize, BlockSize), Read(buffer)) /\ upload.open
    BY <1>7 DEF SendBlock, Succeeds, Fails, Appended
  <2> QED
    BY <2>3, <2>4, <2>5
<1>8. CASE SendLast /\ changes' = 0
  <2>1. /\ UNCHANGED <<source, changes>> /\ pc = "send" /\ pc' = "end"
        /\ pos' = pos + Available
    BY <1>8 DEF SendLast, BlocksDone, fileVars
  <2>2. CASE upload' = Appended(SendCmd(Available, Available), Read(Cleared)) /\ upload.open
    BY <1>3, <1>8, <2>1, <2>2, ClearedType
  <2>3. CASE upload' = upload
    BY <1>1, <2>1, <2>3
  <2>4. \/ upload' = upload
        \/ upload' = Appended(SendCmd(Available, Available), Read(Cleared)) /\ upload.open
    BY <1>8 DEF SendLast, Succeeds, Fails, Appended
  <2> QED
    BY <2>2, <2>3, <2>4
<1>9. CASE SendEnd
  <2>1. upload'.data = upload.data
    BY <1>9 DEF SendEnd, Succeeds, Fails, TypeOK, Uploads
  <2> QED
    BY <1>1, <1>9, <2>1 DEF SendEnd, Return, fileVars
<1>10. CASE FileChanges
  BY <1>6, <1>10 DEF FileChanges, TypeOK
<1>11. CASE OtherPrep
  BY <1>2, <1>11 DEF OtherPrep
<1>12. CASE OtherSend
  <2>1. /\ UNCHANGED <<stepVars, source, changes>> /\ upload.open /\ upload'.open
        /\ upload'.data = Append(upload.data, Other(others'))
    BY <1>12 DEF OtherSend, OtherClient, TypeOK, Uploads, fileVars
  <2>2. upload.data \in Seq(Bytes) /\ Other(others') \in Bytes /\ Other(others')[1] = "other"
    BY <1>12 DEF TypeOK, Uploads, OtherSend, OtherClient, Other, Bytes
  <2>3. /\ DOMAIN upload.data = 1..Len(upload.data) /\ Len(upload.data) \in Nat
        /\ DOMAIN upload'.data = 1..(Len(upload.data) + 1)
        /\ \A k \in 1..Len(upload.data) : upload'.data[k] = upload.data[k]
        /\ upload'.data[Len(upload.data) + 1] = Other(others')
    <3>1. /\ Append(upload.data, Other(others')) \in Seq(Bytes)
          /\ Len(Append(upload.data, Other(others'))) = Len(upload.data) + 1
          /\ \A k \in 1..Len(upload.data) : Append(upload.data, Other(others'))[k] = upload.data[k]
          /\ Append(upload.data, Other(others'))[Len(upload.data) + 1] = Other(others')
      BY <2>2, AppendProperties
    <3> QED
      BY <2>1, <2>2, <3>1, LenProperties
  <2>4. Own' = Own /\ \A k \in Own : upload'.data[k] = upload.data[k]
    <3>1. \A k \in 1..(Len(upload.data) + 1) : k \in 1..Len(upload.data) \/ k = Len(upload.data) + 1
      BY <2>3
    <3>2. \A k \in 1..Len(upload.data) : k \in 1..(Len(upload.data) + 1)
      BY <2>3
    <3> QED
      BY <2>2, <2>3, <3>1, <3>2 DEF Own
  <2>5. UNCHANGED <<pc, pos, source, changes>> /\ upload.open
    BY <2>1 DEF stepVars
  <2>6. LastIsRead'
    BY <2>4, <2>5 DEF LastIsRead
  <2>7. OwnBytesInOrder'
    BY <2>4, <2>5 DEF OwnBytesInOrder
  <2> QED
    BY <2>6, <2>7
<1>13. CASE OtherEnd
  <2>1. UNCHANGED <<stepVars, source, changes>> /\ upload'.data = upload.data /\ ~upload'.open
    BY <1>13 DEF OtherEnd, OtherClient, TypeOK, Uploads, fileVars
  <2> QED
    BY <1>1, <2>1 DEF stepVars
<1>14. CASE UNCHANGED vars
  BY <1>1, <1>14 DEF vars, stepVars, fileVars
<1> QED
  BY <1>4, <1>5, <1>6, <1>7, <1>8, <1>9, <1>10, <1>11, <1>12, <1>13, <1>14 DEF Next, SendStep

-----------------------------------------------------------------------------
(* The theorems. *)

LEMMA IInvStep == IInv /\ OwnIInv /\ [Next]_vars => IInv' /\ OwnIInv'
  BY TypeStep, ControlStep, ProgressStep, UntouchedStep, PrefixStep, OwnStep DEF IInv

LEMMA Invariance == Spec => [](IInv /\ OwnIInv)
  BY InitIInv, IInvStep, PTL DEF Spec

\* The variables of a put, the device's upload among them, keep their types,
\* whatever the local file, the size of a block and the other clients.
THEOREM TypeCorrect == Spec => []TypeOK
<1>1. IInv => TypeOK
  BY DEF IInv
<1> QED
  BY <1>1, Invariance, PTL

\* On every platform and for every file, the upload is a prefix of the local file
\* at every moment, whichever commands fail, while nobody else disturbs either.
THEOREM PrefixCorrect == Spec => []UploadIsPrefix
<1>1. IInv => UploadIsPrefix
  BY DEF IInv
<1> QED
  BY <1>1, Invariance, PTL

\* On every platform that passes the count on, a put that succeeds and lost no
\* block has sent all that stat() counted, even of a file rewritten meanwhile.
THEOREM CompleteCorrect ==
    ASSUME Platform # "next"
    PROVE  Spec => []CompleteUnlessBlockLost
<1>1. IInv => CompleteUnlessBlockLost
  BY DEF IInv, Progress, CompleteUnlessBlockLost, Arrived
<1> QED
  BY <1>1, Invariance, PTL

\* No block that fails and no change of the file leaves the upload open.
THEOREM UploadClosedCorrect == Spec => []UploadClosed
<1>1. IInv => UploadClosed
  BY DEF IInv, Control, UploadClosed
<1> QED
  BY <1>1, Invariance, PTL

\* Every return of a put has closed the local file.
THEOREM SourceClosedCorrect == Spec => []SourceClosed
<1>1. IInv => SourceClosed
  BY DEF IInv, Control, SourceClosed
<1> QED
  BY <1>1, Invariance, PTL

\* Whatever any number of other commands do to the upload, the bytes of a put that
\* are in it are an unbroken piece of its file.
THEOREM OrderCorrect == Spec => []OwnBytesInOrder
<1>1. OwnIInv => OwnBytesInOrder
  BY DEF OwnIInv
<1> QED
  BY <1>1, Invariance, PTL
=============================================================================
