-------------------------- MODULE SendFileRefines --------------------------
(***************************************************************************)
(* Proof that SendFile implements FileCopy: while nobody disturbs the      *)
(* local file or the upload, a put is a copy, and once a block is lost it  *)
(* counts as failed.                                                       *)
(***************************************************************************)
EXTENDS SendFileProofs

-----------------------------------------------------------------------------
(* What else the refinement needs of a state. *)

\* PREP has been carried out exactly when blocks may be sent; and the marker of
\* failure is only set by a block that failed or a file that has changed.
Acknowledged ==
    /\ pc \in {"call", "stat", "open", "prep"} => acked = {}
    /\ pc \in {"send", "end"} => TOOLBOX_SCSI_SEND_FILE_PREP \in acked
    /\ Succeeded => TOOLBOX_SCSI_SEND_FILE_PREP \in acked
    /\ pc = "end" /\ changes = 0 /\ TOOLBOX_SCSI_SEND_FILE_10 \notin failed
         => last_block_size >= 0 /\ st_size = source.size
    /\ Succeeded /\ changes = 0 /\ TOOLBOX_SCSI_SEND_FILE_10 \notin failed
         => st_size = source.size

LEMMA AcknowledgedStep ==
    ASSUME TypeOK, Control, Untouched, Acknowledged, [Next]_vars
    PROVE  Acknowledged'
<1> USE DEF Acknowledged
<1>0. /\ BlockSize \in Nat \ {0} /\ st_size \in Nat /\ source.size \in Nat
      /\ pos \in Nat /\ Available \in 0..BlockSize
  BY SourceType, AvailableType, SendAssumption DEF SendAssumption, TypeOK
<1>1. CASE CallSend \/ Stat \/ Open
  BY <1>1 DEF CallSend, Stat, Open, Return, Succeeded, historyVars, INVALID_ARGS, CMD_FAILED,
     NO_ERROR
<1>2. CASE Prep
  BY <1>2 DEF Prep, Succeeds, Fails, Return, Succeeded, CMD_FAILED, NO_ERROR
<1>3. CASE SendBlock
  BY <1>3 DEF SendBlock, Succeeds, Fails, Succeeded
<1>4. CASE SendLast
  <2>1. /\ pc = "send" /\ pc' = "end" /\ TOOLBOX_SCSI_SEND_FILE_PREP \in acked'
        /\ UNCHANGED <<st_size, source, changes>>
    BY <1>4 DEF SendLast, BlocksDone, Succeeds, Fails, fileVars, planVars, historyVars
  <2>2. SUFFICES ASSUME changes = 0, TOOLBOX_SCSI_SEND_FILE_10 \notin failed'
                 PROVE  last_block_size' >= 0 /\ st_size = source.size
    BY <2>1 DEF Succeeded
  <2>3. st_size = source.size /\ pos = BlockSize * block_index
    BY <2>1, <2>2 DEF Untouched
  <2>4. Available = last_block_size /\ last_block_size \in 0..(BlockSize - 1)
    <3>1. /\ st_size = BlockSize * (st_size \div BlockSize) + (st_size % BlockSize)
          /\ st_size % BlockSize \in 0..(BlockSize - 1) /\ st_size \div BlockSize \in Nat
      BY <1>0, DivMod
    <3>2. /\ last_block_size = st_size % BlockSize
          /\ block_index = st_size \div BlockSize
      BY <1>4, <2>1 DEF SendLast, BlocksDone, Control
    <3>3. st_size = pos + last_block_size /\ last_block_size \in 0..(BlockSize - 1)
      BY <2>3, <3>1, <3>2
    <3>4. source.size - pos = last_block_size
      BY <1>0, <2>3, <3>3
    <3> QED
      BY <1>0, <3>3, <3>4, AvailableType DEF TypeOK
  <2> QED
    BY <1>4, <2>2, <2>3, <2>4, <1>0 DEF SendLast, Succeeds, Fails
<1>5. CASE SendEnd
  <2>1. /\ UNCHANGED <<st_size, source, changes>> /\ pc' = "exit"
        /\ TOOLBOX_SCSI_SEND_FILE_PREP \in acked'
        /\ TOOLBOX_SCSI_SEND_FILE_10 \notin failed' => TOOLBOX_SCSI_SEND_FILE_10 \notin failed
    BY <1>5 DEF SendEnd, BlocksDone, Succeeds, Fails, Return, fileVars, planVars
  <2>2. changes = 0 /\ TOOLBOX_SCSI_SEND_FILE_10 \notin failed' => st_size = source.size
    BY <1>5, <2>1 DEF SendEnd, BlocksDone, Untouched
  <2> QED
    BY <2>1, <2>2
<1>6. CASE FileChanges
  BY <1>6 DEF FileChanges, stepVars, planVars, historyVars, Succeeded, TypeOK
<1>7. CASE OtherPrep \/ OtherSend \/ OtherEnd
  BY <1>7 DEF OtherPrep, OtherSend, OtherEnd, OtherClient, stepVars, fileVars, planVars,
     historyVars, Succeeded
<1>8. CASE UNCHANGED vars
  BY <1>8 DEF vars, stepVars, fileVars, planVars, historyVars, Succeeded
<1> QED
  BY <1>1, <1>2, <1>3, <1>4, <1>5, <1>6, <1>7, <1>8 DEF Next, SendStep

RInv == IInv /\ Acknowledged

LEMMA RInvariance == Spec => []RInv
<1>1. Init => Acknowledged
  BY DEF Init, Acknowledged, Succeeded
<1>2. IInv /\ Acknowledged /\ [Next]_vars => Acknowledged'
  BY AcknowledgedStep DEF IInv
<1>3. Spec => []IInv
  BY Invariance, PTL
<1>4. RInv <=> IInv /\ Acknowledged
  BY DEF RInv
<1> QED
  BY <1>1, <1>2, <1>3, <1>4, PTL DEF Spec

-----------------------------------------------------------------------------
(* Steps of the copy. *)

\* The same of bytes.
LEMMA GrowBytes ==
    ASSUME NEW w \in Seq(Bytes), NEW d \in Seq(Bytes), NEW e \in Seq(Bytes),
           Len(d) <= Len(e), Len(e) <= Len(w),
           \A k \in 1..Len(d) : d[k] = w[k],
           \A k \in 1..Len(e) : e[k] = w[k]
    PROVE  \/ e = d
           \/ \E n \in (Len(d) + 1)..Len(w) : e = SubSeq(w, 1, n)
  BY GrowOrSame

WholeFile == [k \in 1..source.size |-> <<source.body, k>>]

LEMMA WholeFileType ==
    ASSUME source \in Sources
    PROVE  WholeFile \in Seq(Bytes) /\ Len(WholeFile) = source.size
<1>1. source.size \in Nat
  BY SourceType
<1>2. \A k \in 1..source.size : <<source.body, k>> \in Bytes
  BY SourceType DEF Bytes
<1>3. WholeFile \in [1..source.size -> Bytes]
  BY <1>2 DEF WholeFile
<1> QED
  BY <1>1, <1>3, SeqDef, LenProperties

\* A SEND_FILE_10 that is carried out, or not, lets the upload grow along the file.
LEMMA SendGrows ==
    ASSUME RInv, UploadIsPrefix', ~Disturbed, UNCHANGED <<source, changes, others>>,
           NEW b \in [1..BlockSize -> Bytes], NEW n \in 0..BlockSize, NEW len,
           upload' \in {upload, Appended(SendCmd(n, len), b)}
    PROVE  \/ upload'.data = upload.data
           \/ \E m \in (Len(upload.data) + 1)..Len(WholeFile) :
                 upload'.data = SubSeq(WholeFile, 1, m)
<1>1. /\ WholeFile \in Seq(Bytes) /\ Len(WholeFile) = source.size
      /\ \A k \in 1..source.size : WholeFile[k] = <<source.body, k>>
  BY WholeFileType DEF RInv, IInv, TypeOK, WholeFile
<1>2. changes = 0 /\ others = 0
  BY DEF Disturbed, RInv, IInv, TypeOK
<1>3. /\ upload.data \in Seq(Bytes) /\ upload'.data \in Seq(Bytes)
      /\ Len(upload.data) \in Nat /\ Len(upload'.data) \in Nat
      /\ Len(upload.data) <= Len(upload'.data)
  <2>1. upload \in Uploads
    BY DEF RInv, IInv, TypeOK
  <2>2. CASE upload' = upload
    BY <2>1, <2>2, LenProperties DEF Uploads
  <2>3. CASE upload' = Appended(SendCmd(n, len), b)
    <3>1. upload' \in Uploads /\ ~upload.open => upload' = upload
      BY <2>1, <2>3, AppendedType
    <3>2. upload.open => Len(upload'.data) = Len(upload.data) + Arrived(n)
      BY <2>1, <2>3, AppendedType
    <3>3. upload' \in Uploads
      BY <2>1, <2>3, AppendedType
    <3>4. Arrived(n) \in Nat /\ Len(upload.data) \in Nat /\ Len(upload'.data) \in Nat
      BY <2>1, <3>3, LenProperties, SendAssumption DEF Arrived, Uploads, SendAssumption
    <3>5. upload.open \/ upload' = upload
      BY <2>1, <2>3, AppendedType
    <3> QED
      BY <2>1, <3>2, <3>3, <3>4, <3>5 DEF Uploads
  <2> QED
    BY <2>2, <2>3
<1>4. /\ Len(upload.data) <= source.size
      /\ \A k \in 1..Len(upload.data) : upload.data[k] = <<source.body, k>>
  BY <1>2 DEF RInv, IInv, UploadIsPrefix
<1>5. /\ Len(upload'.data) <= source.size
      /\ \A k \in 1..Len(upload'.data) : upload'.data[k] = <<source.body, k>>
  BY <1>2 DEF UploadIsPrefix
<1>6. ASSUME NEW k \in 1..source.size
      PROVE  WholeFile[k] = <<source.body, k>>
  BY <1>1
<1>7. source.size \in Nat
  BY SourceType DEF RInv, IInv, TypeOK
<1>8. \A k \in 1..Len(upload.data) : upload.data[k] = WholeFile[k]
  <2>1. SUFFICES ASSUME NEW k \in 1..Len(upload.data)
                 PROVE  upload.data[k] = WholeFile[k]
    OBVIOUS
  <2>2. k \in 1..source.size
    BY <1>3, <1>4, <1>7
  <2> QED
    BY <1>4, <1>6, <2>2
<1>9. \A k \in 1..Len(upload'.data) : upload'.data[k] = WholeFile[k]
  <2>1. SUFFICES ASSUME NEW k \in 1..Len(upload'.data)
                 PROVE  upload'.data[k] = WholeFile[k]
    OBVIOUS
  <2>2. k \in 1..source.size
    BY <1>3, <1>5, <1>7
  <2> QED
    BY <1>5, <1>6, <2>2
<1>10. Len(upload'.data) <= Len(WholeFile)
  BY <1>1, <1>5
<1> QED
  <2> DEFINE d == upload.data
             e == upload'.data
             w == WholeFile
  <2>1. /\ w \in Seq(Bytes) /\ d \in Seq(Bytes) /\ e \in Seq(Bytes)
        /\ Len(d) <= Len(e) /\ Len(e) <= Len(w)
        /\ \A k \in 1..Len(d) : d[k] = w[k]
        /\ \A k \in 1..Len(e) : e[k] = w[k]
    BY <1>1, <1>3, <1>8, <1>9, <1>10
  <2>2. (e = d) \/ (\E m \in (Len(d) + 1)..Len(w) : e = SubSeq(w, 1, m))
    <3> HIDE DEF d, e, w
    <3> QED
      BY <2>1, GrowBytes
  <2> QED
    BY <2>2

-----------------------------------------------------------------------------
(* The refinement. *)

\* What the mapping shows of a put that nobody disturbs.
Shown ==
    ~Disturbed =>
        /\ CopyStatus = IF BlockLost \/ (pc = "exit" /\ ret # NO_ERROR) THEN "failed"
                        ELSE IF pc = "exit" THEN "ok"
                        ELSE IF Started THEN "copying" ELSE "idle"
        /\ CopySource = IF Started THEN WholeFile ELSE <<>>
        /\ CopyData = upload.data

LEMMA MappingShown == Shown /\ Shown'
<1>1. Shown
  BY DEF Shown, CopyStatus, CopySource, CopyData, Succeeded, WholeFile
<1>2. Shown'
  BY DEF Shown, CopyStatus, CopySource, CopyData, Succeeded, WholeFile
<1> QED
  BY <1>1, <1>2

\* A put that is disturbed promises nothing more.
LEMMA DisturbedStep ==
    ASSUME RInv, [Next]_vars, Disturbed'
    PROVE  [Copy!Next]_(Copy!vars)
<1>1. /\ CopyStatus' = "void" /\ CopySource' = <<>> /\ CopyData' = <<>>
  BY DEF CopyStatus, CopySource, CopyData
<1>2. CASE Disturbed
  BY <1>1, <1>2 DEF CopyStatus, CopySource, CopyData, Copy!vars
<1>3. CASE ~Disturbed
  <2>1. CopyStatus # "void"
    BY <1>3, MappingShown DEF Shown
  <2> QED
    BY <1>1, <2>1 DEF Copy!Next, Copy!Disturb
<1> QED
  BY <1>2, <1>3

\* Until PREP has been carried out the copy is idle; PREP begins it.
LEMMA BeginStep ==
    ASSUME RInv, ~Disturbed, ~Disturbed', CallSend \/ Stat \/ Open \/ Prep
    PROVE  [Copy!Next]_(Copy!vars)
<1>1. /\ ~Started /\ ~BlockLost /\ upload.data = <<>>
      /\ pc \in {"call", "stat", "open", "prep"}
  BY DEF RInv, IInv, TypeOK, Control, Progress, Acknowledged, Disturbed, Started, BlockLost,
     CallSend, Stat, Open, Prep
<1>2. CopyStatus = "idle" /\ CopySource = <<>> /\ CopyData = <<>>
  BY <1>1, MappingShown DEF Shown
<1>3. ASSUME UNCHANGED acked, upload'.data = <<>>,
             \/ pc' = "exit" /\ ret' = CMD_FAILED
             \/ pc' = "exit" /\ ret' = INVALID_ARGS
             \/ pc' # "exit" /\ UNCHANGED failed
      PROVE  [Copy!Next]_(Copy!vars)
  <2>1. CopySource' = <<>> /\ CopyData' = <<>> /\ CopyStatus' \in {"idle", "failed"}
    BY <1>1, <1>3, MappingShown DEF Shown, Started, BlockLost, NO_ERROR, CMD_FAILED,
       INVALID_ARGS
  <2> QED
    BY <1>2, <2>1 DEF Copy!Next, Copy!Fail, Copy!vars
<1>4. CASE CallSend \/ Stat \/ Open
  BY <1>1, <1>3, <1>4 DEF CallSend, Stat, Open, Return, historyVars
<1>5. CASE Prep
  <2>1. upload'.data = <<>>
    BY <1>1, <1>5 DEF Prep, Succeeds, Fails
  <2>2. CASE UNCHANGED acked /\ pc' = "exit" /\ ret' = CMD_FAILED
    BY <1>3, <2>1, <2>2
  <2>3. CASE /\ pc' = "send" /\ TOOLBOX_SCSI_SEND_FILE_PREP \in acked'
             /\ UNCHANGED <<failed, source>>
    <3>1. CopyStatus' = "copying" /\ CopySource' = WholeFile /\ CopyData' = <<>>
      BY <1>1, <2>1, <2>3, MappingShown DEF Shown, Started, BlockLost, WholeFile
    <3>2. WholeFile \in Seq(Bytes)
      BY WholeFileType DEF RInv, IInv, TypeOK
    <3> QED
      BY <1>2, <3>1, <3>2 DEF Copy!Next, Copy!Begin
  <2> QED
    BY <1>5, <2>2, <2>3 DEF Prep, Succeeds, Fails, Return, fileVars
<1> QED
  BY <1>4, <1>5

\* A block extends the copy; one that fails makes it fail.
LEMMA BlockStep ==
    ASSUME RInv, RInv', ~Disturbed, ~Disturbed', SendBlock \/ SendLast
    PROVE  [Copy!Next]_(Copy!vars)
<1>1. /\ pc = "send" /\ pc' # "exit" /\ UNCHANGED <<source, changes, others>>
      /\ acked \subseteq acked'
  BY DEF SendBlock, SendLast, BlocksDone, fileVars, Succeeds, Fails, historyVars
<1>2. ~BlockLost /\ Started /\ Started'
  BY <1>1 DEF RInv, IInv, Control, Acknowledged, BlockLost, Started
<1>3. /\ CopyStatus = "copying" /\ CopySource = WholeFile /\ CopyData = upload.data
      /\ CopyStatus' \in {"copying", "failed"} /\ CopySource' = WholeFile
      /\ CopyData' = upload'.data
  BY <1>1, <1>2, MappingShown DEF Shown, WholeFile
<1>4. \/ upload'.data = upload.data
      \/ \E m \in (Len(upload.data) + 1)..Len(WholeFile) :
            upload'.data = SubSeq(WholeFile, 1, m)
  <2>1. UploadIsPrefix'
    BY DEF RInv, IInv
  <2>2. CASE SendBlock
    <3>1. Read(buffer) \in [1..BlockSize -> Bytes]
      BY ReadType DEF RInv, IInv, TypeOK
    <3>2. BlockSize \in 0..BlockSize
      BY SendAssumption DEF SendAssumption
    <3>3. upload' \in {upload, Appended(SendCmd(BlockSize, BlockSize), Read(buffer))}
      BY <2>2 DEF SendBlock, Succeeds, Fails
    <3> QED
      BY <1>1, <2>1, <3>1, <3>2, <3>3, SendGrows
  <2>3. CASE SendLast
    <3>1. Read(Cleared) \in [1..BlockSize -> Bytes] /\ Available \in 0..BlockSize
      BY ReadType, ClearedType, AvailableType DEF RInv, IInv, TypeOK
    <3>2. upload' \in {upload, Appended(SendCmd(Available, Available), Read(Cleared))}
      BY <2>3 DEF SendLast, Succeeds, Fails
    <3> QED
      BY <1>1, <2>1, <3>1, <3>2, SendGrows
  <2> QED
    BY <2>2, <2>3
<1> QED
  BY <1>3, <1>4 DEF Copy!Next, Copy!Extend, Copy!Fail, Copy!Grow, Copy!vars

\* END finishes the copy of the whole file, or makes it fail.
LEMMA FinishStep ==
    ASSUME Platform # "next", RInv, RInv', ~Disturbed, ~Disturbed', SendEnd
    PROVE  [Copy!Next]_(Copy!vars)
<1>1. /\ pc \in {"send", "end"} /\ pc' = "exit" /\ ret' \in {NO_ERROR, CMD_FAILED}
      /\ UNCHANGED source /\ upload'.data = upload.data
      /\ acked \subseteq acked' /\ failed \subseteq failed'
      /\ ret' = NO_ERROR => failed' = failed
  BY DEF SendEnd, BlocksDone, fileVars, Succeeds, Fails, Return, RInv, IInv, TypeOK, Uploads,
     NO_ERROR, CMD_FAILED
<1>2. Started /\ Started'
  BY <1>1 DEF RInv, Acknowledged, Started
<1>3. /\ CopySource = WholeFile /\ CopySource' = WholeFile
      /\ CopyData = upload.data /\ CopyData' = upload.data
      /\ CopyStatus = IF BlockLost THEN "failed" ELSE "copying"
      /\ CopyStatus' = IF BlockLost' \/ ret' # NO_ERROR THEN "failed" ELSE "ok"
  BY <1>1, <1>2, MappingShown DEF Shown, WholeFile
<1>4. CASE BlockLost
  <2>1. CopyStatus' = CopyStatus
    BY <1>1, <1>3, <1>4 DEF BlockLost
  <2> QED
    BY <1>3, <2>1 DEF Copy!vars
<1>5. CASE ~BlockLost /\ (BlockLost' \/ ret' # NO_ERROR)
  BY <1>3, <1>5 DEF Copy!Next, Copy!Fail
<1>6. CASE ~BlockLost /\ ~(BlockLost' \/ ret' # NO_ERROR)
  <2>1. changes' = 0 /\ others' = 0
    BY DEF Disturbed, RInv, IInv, TypeOK
  <2>2. Len(upload.data) = source.size
    BY <1>1, <1>6, <2>1 DEF RInv, IInv, Progress, Acknowledged, Succeeded, BlockLost, Arrived
  <2>3. \A k \in 1..Len(upload.data) : upload.data[k] = <<source.body, k>>
    BY <1>1, <2>1 DEF RInv, IInv, UploadIsPrefix
  <2>4. WholeFile \in Seq(Bytes) /\ Len(WholeFile) = source.size /\ upload.data \in Seq(Bytes)
    BY WholeFileType DEF RInv, IInv, TypeOK, Uploads
  <2>5. \A k \in 1..Len(upload.data) : upload.data[k] = WholeFile[k]
    BY <2>2, <2>3 DEF WholeFile
  <2>6. upload.data = WholeFile
    BY <2>2, <2>4, <2>5, SeqEqual
  <2> QED
    BY <1>3, <1>6, <2>6 DEF Copy!Next, Copy!Finish
<1> QED
  BY <1>4, <1>5, <1>6

LEMMA CopyStep ==
    ASSUME Platform # "next", RInv, RInv', [Next]_vars
    PROVE  [Copy!Next]_(Copy!vars)
<1>1. CASE Disturbed'
  BY <1>1, DisturbedStep
<1>2. CASE ~Disturbed'
  <2>0. changes \in Nat /\ others \in Nat /\ ~(changes' > 0) /\ ~(others' > 0)
    BY <1>2 DEF Disturbed, RInv, IInv, TypeOK
  <2>1. ~Disturbed
    <3>1. changes' \in {changes, changes + 1} /\ others' \in {others, others + 1}
      BY DEF Next, SendStep, CallSend, Stat, Open, Prep, SendBlock, SendLast, SendEnd,
         FileChanges, OtherPrep, OtherSend, OtherEnd, OtherClient, fileVars, vars
    <3> QED
      BY <2>0, <3>1 DEF Disturbed
  <2>2. ~(FileChanges \/ OtherPrep \/ OtherSend \/ OtherEnd)
    <3>1. FileChanges => changes' = changes + 1
      BY DEF FileChanges
    <3>2. OtherPrep \/ OtherSend \/ OtherEnd => others' = others + 1
      BY DEF OtherPrep, OtherSend, OtherEnd, OtherClient
    <3> QED
      BY <2>0, <3>1, <3>2
  <2>3. CASE UNCHANGED vars
    <3>1. UNCHANGED <<pc, ret, acked, failed, upload, source>>
      BY <2>3 DEF vars, stepVars, historyVars, fileVars
    <3>2. /\ (BlockLost' <=> BlockLost) /\ (Started' <=> Started) /\ WholeFile' = WholeFile
      BY <3>1 DEF BlockLost, Started, WholeFile
    <3>3. CopySource' = CopySource /\ CopyData' = CopyData
      BY <1>2, <2>1, <3>1, <3>2, MappingShown DEF Shown
    <3>4. CopyStatus' = CopyStatus
      BY <1>2, <2>1, <3>1, <3>2, MappingShown DEF Shown
    <3> QED
      BY <3>3, <3>4 DEF Copy!vars
  <2> QED
    BY <1>2, <2>1, <2>2, <2>3, BeginStep, BlockStep, FinishStep DEF Next, SendStep
<1> QED
  BY <1>1, <1>2

\* On every platform that passes the count on, a put is a copy of the local file:
\* the upload grows along it, "ok" is only said of a whole one, and a step that
\* fails leaves what has arrived, until somebody disturbs the file or the upload.
THEOREM RefinesCopy ==
    ASSUME Platform # "next"
    PROVE  Spec => CopySpec
<1>1. Init => Copy!Init
  <2>1. SUFFICES ASSUME Init PROVE Copy!Init
    OBVIOUS
  <2>2. /\ ~Disturbed /\ ~BlockLost /\ ~Started /\ pc = "call" /\ upload.data = <<>>
    BY <2>1, SendAssumption DEF Init, Disturbed, BlockLost, Started, NoUpload
  <2> QED
    BY <2>2, MappingShown DEF Shown, Copy!Init
<1>2. RInv /\ RInv' /\ [Next]_vars => [Copy!Next]_(Copy!vars)
  BY CopyStep
<1> QED
  BY <1>1, <1>2, RInvariance, PTL DEF Spec, CopySpec, Copy!Spec
=============================================================================
