------------------------------ MODULE SendFile ------------------------------
(***************************************************************************)
(* toolbox_cmd_send_file() of toolbox_commands.c and cmd_put_file() of     *)
(* scsitb.c: PREP opens an upload on the device, SEND_FILE_10 appends the  *)
(* local file to it block by block, END closes it.                         *)
(*                                                                         *)
(* Any command may fail, before or after the device has carried it out,    *)
(* another process may rewrite the local file at any step, and another     *)
(* client of the device may put a file at the same time: the device has    *)
(* one upload.  The k-th byte of a file is <<its body, k>>.                *)
(***************************************************************************)
EXTENDS Scsi, FiniteSets

CONSTANTS Platform,     \* whose scsi_cmd() is linked in
          BlockSize,    \* sizeof(buffer), 4096 bytes
          CountLimit,   \* values of the two count bytes of the CDB, 2^16
          Names,        \* file names
          NoName,       \* an argument that is not given
          Bodies,       \* what tells the bytes of one file from another's
          Sources,      \* contents the local file may have
          MaxChanges,   \* bound on the changes made to the local file
          MaxOthers     \* bound on the commands of other clients

Files == [size : Nat, body : Bodies]

ASSUME SendAssumption ==
    /\ Platform \in Platforms
    /\ BlockSize \in Nat \ {0}
    /\ CountLimit \in Nat /\ BlockSize < CountLimit
    /\ NoName \notin Names
    /\ Bodies \cap {"zero", "name", "other"} = {}
    /\ Sources \subseteq Files
    /\ MaxChanges \in Nat /\ MaxOthers \in Nat

VARIABLES pc, ret,
          target,           \* whether the SCSI_DEVICE pointer is not NULL
          src,              \* the first argument of the put command
          source, changes,  \* the local file, how often it was rewritten
          handle,           \* the FILE of the local file
          st_size,          \* its size according to stat()
          pos,              \* how far it has been read
          buffer, blocks, last_block_size, block_index,
          upload,           \* the device's side: is it open, its name and data
          others,           \* how many commands other clients have sent it
          acked, failed     \* history: opcodes that succeeded, that failed

fileVars   == <<source, changes>>
argVars    == <<target, src>>
planVars   == <<st_size, blocks>>
historyVars == <<acked, failed>>
stepVars == <<pc, ret, handle, pos, buffer, last_block_size, block_index,
              argVars, planVars, historyVars>>
vars == <<stepVars, upload, fileVars, others>>

Zero  == <<"zero", 0>>
Name(k) == <<"name", k>>
Other(k) == <<"other", k>>
Bytes == (Bodies \X Nat) \cup ({"zero", "name", "other"} \X Nat)

-----------------------------------------------------------------------------
(* The device: an upload collects the first so many bytes of each transfer, *)
(* while it is open.                                                        *)

Uploads  == [open : BOOLEAN, name : Names \cup {NoName}, data : Seq(Bytes)]
NoUpload == [open |-> FALSE, name |-> NoName, data |-> <<>>]

\* The count of a SEND_FILE_10, as it fits in cdb[1..2].
SendCmd(count, len) ==
    WriteCmd(TOOLBOX_SCSI_SEND_FILE_10, <<count % CountLimit>>, len)

Appended(c, bytes) ==
    IF upload.open
    THEN [upload EXCEPT !.data = @ \o SubSeq(bytes, 1, OnWire(Platform, c).args[1])]
    ELSE upload

\* Outcomes of a command that turns the upload into next: it succeeds, or it
\* fails and the device has carried it out or not.
Succeeds(op, next) ==
    /\ upload' = next
    /\ acked' = acked \cup {op} /\ UNCHANGED failed
Fails(op, next) ==
    /\ upload' \in {upload, next}
    /\ failed' = failed \cup {op} /\ UNCHANGED acked

-----------------------------------------------------------------------------
(* stdio. *)

\* How many bytes fread() gets when it asks for a block.
Available == IF source.size - pos <= 0 THEN 0
             ELSE IF source.size - pos < BlockSize THEN source.size - pos ELSE BlockSize

\* What it leaves in the buffer: behind a short read are the old contents.
Read(old) == [k \in 1..BlockSize |->
                 IF k <= Available THEN <<source.body, pos + k>> ELSE old[k]]

Cleared == [k \in 1..BlockSize |-> Zero]

-----------------------------------------------------------------------------
Init ==
    /\ pc = "call" /\ ret = NO_ERROR
    /\ target \in BOOLEAN
    /\ src \in Names \cup {NoName}
    /\ source \in Sources /\ changes = 0
    /\ handle = "none"
    /\ st_size = 0 /\ pos = 0
    /\ buffer = Cleared
    /\ blocks = 0 /\ last_block_size = 0 /\ block_index = 0
    /\ upload = NoUpload /\ others = 0
    /\ acked = {} /\ failed = {}

Return(code) == pc' = "exit" /\ ret' = code

CallSend ==
    /\ pc = "call"
    /\ IF target /\ src # NoName
       THEN pc' = "stat" /\ UNCHANGED ret
       ELSE Return(INVALID_ARGS)
    /\ UNCHANGED <<handle, pos, buffer, last_block_size, block_index, upload,
                   fileVars, others, argVars, planVars, historyVars>>

Stat ==
    /\ pc = "stat"
    /\ \/ Return(CMD_FAILED) /\ UNCHANGED st_size
       \/ pc' = "open" /\ st_size' = source.size /\ UNCHANGED ret
    /\ UNCHANGED <<handle, pos, buffer, last_block_size, block_index, upload,
                   blocks, fileVars, others, argVars, historyVars>>

Open ==
    /\ pc = "open"
    /\ \/ Return(CMD_FAILED) /\ UNCHANGED handle
       \/ pc' = "prep" /\ handle' = "open" /\ UNCHANGED ret
    /\ UNCHANGED <<pos, buffer, last_block_size, block_index, upload, fileVars,
                   others, argVars, planVars, historyVars>>

\* cmd_put_file() passes NULL for the remote name, also when it was given one,
\* and the file is put under its local name.
RemoteName == src

\* Mutant of Prep: the file stays open when PREP fails.
Prep_noClose ==
    /\ pc = "prep"
    /\ buffer' = [k \in 1..BlockSize |-> Name(k)]
    /\ LET opened == [open |-> TRUE, name |-> RemoteName, data |-> <<>>]
       IN  \/ /\ Succeeds(TOOLBOX_SCSI_SEND_FILE_PREP, opened)
              /\ pc' = "send"
              /\ blocks' = st_size \div BlockSize
              /\ last_block_size' = st_size % BlockSize
              /\ UNCHANGED <<ret, handle>>
           \/ /\ Fails(TOOLBOX_SCSI_SEND_FILE_PREP, opened)
              /\ Return(CMD_FAILED)
              /\ UNCHANGED <<blocks, last_block_size, handle>>
    /\ UNCHANGED <<pos, block_index, st_size, fileVars, others, argVars>>

\* The name goes through the buffer.  When PREP fails nothing is closed on the
\* device, even if it did open the upload.
Prep ==
    /\ pc = "prep"
    /\ buffer' = [k \in 1..BlockSize |-> Name(k)]
    /\ LET opened == [open |-> TRUE, name |-> RemoteName, data |-> <<>>]
       IN  \/ /\ Succeeds(TOOLBOX_SCSI_SEND_FILE_PREP, opened)
              /\ pc' = "send"
              /\ blocks' = st_size \div BlockSize
              /\ last_block_size' = st_size % BlockSize
              /\ UNCHANGED <<ret, handle>>
           \/ /\ Fails(TOOLBOX_SCSI_SEND_FILE_PREP, opened)
              /\ handle' = "closed"
              /\ Return(CMD_FAILED)
              /\ UNCHANGED <<blocks, last_block_size>>
    /\ UNCHANGED <<pos, block_index, st_size, fileVars, others, argVars>>

\* Mutant of SendBlock: a failing block is sent again.
SendBlock_retry ==
    /\ pc = "send"
    /\ block_index < blocks
    /\ buffer' = Read(buffer)
    /\ pos' = pos + Available
    /\ LET c == SendCmd(BlockSize, BlockSize)
       IN  \/ /\ Succeeds(TOOLBOX_SCSI_SEND_FILE_10, Appended(c, buffer'))
              /\ block_index' = block_index + 1
              /\ UNCHANGED <<pc, last_block_size>>
           \/ /\ Fails(TOOLBOX_SCSI_SEND_FILE_10, Appended(c, buffer'))
              /\ UNCHANGED <<pc, last_block_size, block_index>>
    /\ UNCHANGED <<ret, handle, fileVars, others, argVars, planVars>>

\* Mutant of SendBlock: a failing block starts the upload again.
SendBlock_restart ==
    /\ pc = "send"
    /\ block_index < blocks
    /\ buffer' = Read(buffer)
    /\ LET c == SendCmd(BlockSize, BlockSize)
       IN  \/ /\ Succeeds(TOOLBOX_SCSI_SEND_FILE_10, Appended(c, buffer'))
              /\ pos' = pos + Available
              /\ block_index' = block_index + 1
              /\ UNCHANGED pc
           \/ /\ Fails(TOOLBOX_SCSI_SEND_FILE_10, Appended(c, buffer'))
              /\ pos' = 0
              /\ block_index' = 0
              /\ pc' = "prep"
    /\ UNCHANGED <<ret, handle, last_block_size, fileVars, others, argVars, planVars>>

\* Mutant of SendBlock: one block too many.
SendBlock_oneMore ==
    /\ pc = "send"
    /\ block_index <= blocks
    /\ buffer' = Read(buffer)
    /\ pos' = pos + Available
    /\ LET c == SendCmd(BlockSize, BlockSize)
       IN  \/ /\ Succeeds(TOOLBOX_SCSI_SEND_FILE_10, Appended(c, buffer'))
              /\ block_index' = block_index + 1
              /\ UNCHANGED <<pc, last_block_size>>
           \/ /\ Fails(TOOLBOX_SCSI_SEND_FILE_10, Appended(c, buffer'))
              /\ last_block_size' = 0
              /\ pc' = "end"
              /\ UNCHANGED block_index
    /\ UNCHANGED <<ret, handle, fileVars, others, argVars, planVars>>

\* Mutant of SendBlock: a failing block returns at once.
SendBlock_return ==
    /\ pc = "send"
    /\ block_index < blocks
    /\ buffer' = Read(buffer)
    /\ pos' = pos + Available
    /\ LET c == SendCmd(BlockSize, BlockSize)
       IN  \/ /\ Succeeds(TOOLBOX_SCSI_SEND_FILE_10, Appended(c, buffer'))
              /\ block_index' = block_index + 1
              /\ UNCHANGED <<pc, ret, handle>>
           \/ /\ Fails(TOOLBOX_SCSI_SEND_FILE_10, Appended(c, buffer'))
              /\ handle' = "closed"
              /\ Return(CMD_FAILED)
              /\ UNCHANGED block_index
    /\ UNCHANGED <<last_block_size, fileVars, others, argVars, planVars>>

\* A full block: what fread() returns is not looked at.  A failing command ends
\* the loop and clears last_block_size, "to skip that process".
SendBlock ==
    /\ pc = "send"
    /\ block_index < blocks
    /\ buffer' = Read(buffer)
    /\ pos' = pos + Available
    /\ LET c == SendCmd(BlockSize, BlockSize)
       IN  \/ /\ Succeeds(TOOLBOX_SCSI_SEND_FILE_10, Appended(c, buffer'))
              /\ block_index' = block_index + 1
              /\ UNCHANGED <<pc, last_block_size>>
           \/ /\ Fails(TOOLBOX_SCSI_SEND_FILE_10, Appended(c, buffer'))
              /\ last_block_size' = 0
              /\ pc' = "end"
              /\ UNCHANGED block_index
    /\ UNCHANGED <<ret, handle, fileVars, others, argVars, planVars>>

BlocksDone == pc = "send" /\ block_index = blocks

\* Mutant of SendLast: what fread() returns is not compared.
SendLast_unchecked ==
    /\ BlocksDone
    /\ last_block_size # 0
    /\ buffer' = Read(Cleared)
    /\ pos' = pos + Available
    /\ pc' = "end"
    /\ LET c == SendCmd(Available, Available)
       IN  \/ /\ Succeeds(TOOLBOX_SCSI_SEND_FILE_10, Appended(c, buffer'))
              /\ UNCHANGED last_block_size
           \/ /\ Fails(TOOLBOX_SCSI_SEND_FILE_10, Appended(c, buffer'))
              /\ last_block_size' = -1
    /\ UNCHANGED <<ret, handle, block_index, fileVars, others, argVars, planVars>>

\* The last block, of irregular size: it must be what stat() promised, else it
\* is not sent.  -1 is the marker that it failed.
SendLast ==
    /\ BlocksDone
    /\ last_block_size # 0
    /\ buffer' = Read(Cleared)
    /\ pos' = pos + Available
    /\ pc' = "end"
    /\ IF Available # last_block_size
       THEN last_block_size' = -1 /\ UNCHANGED <<upload, historyVars>>
       ELSE LET c == SendCmd(last_block_size, Available)
            IN  \/ /\ Succeeds(TOOLBOX_SCSI_SEND_FILE_10, Appended(c, buffer'))
                   /\ UNCHANGED last_block_size
                \/ /\ Fails(TOOLBOX_SCSI_SEND_FILE_10, Appended(c, buffer'))
                   /\ last_block_size' = -1
    /\ UNCHANGED <<ret, handle, block_index, fileVars, others, argVars, planVars>>

\* END is sent whatever happened to the blocks; then the marker is looked at.
SendEnd ==
    /\ pc = "end" \/ (BlocksDone /\ last_block_size = 0)
    /\ handle' = "closed"
    /\ LET closed == [upload EXCEPT !.open = FALSE]
       IN  \/ /\ Succeeds(TOOLBOX_SCSI_SEND_FILE_END, closed)
              /\ Return(IF last_block_size < 0 THEN CMD_FAILED ELSE NO_ERROR)
           \/ /\ Fails(TOOLBOX_SCSI_SEND_FILE_END, closed)
              /\ Return(CMD_FAILED)
    /\ UNCHANGED <<pos, buffer, last_block_size, block_index, fileVars, others,
                   argVars, planVars>>

-----------------------------------------------------------------------------
(* Another process rewrites the local file. *)

FileChanges ==
    /\ changes < MaxChanges
    /\ changes' = changes + 1
    /\ source' \in Sources \ {source}
    /\ UNCHANGED <<stepVars, upload, others>>

(* Another client of the device. *)

OtherClient ==
    /\ others < MaxOthers
    /\ others' = others + 1
    /\ UNCHANGED <<stepVars, fileVars>>

OtherPrep ==
    /\ OtherClient
    /\ \E name \in Names : upload' = [open |-> TRUE, name |-> name, data |-> <<>>]

OtherSend ==
    /\ OtherClient
    /\ upload.open
    /\ upload' = [upload EXCEPT !.data = Append(@, Other(others'))]

OtherEnd ==
    /\ OtherClient
    /\ upload.open
    /\ upload' = [upload EXCEPT !.open = FALSE]

SendStep == \/ CallSend \/ Stat \/ Open \/ Prep \/ SendBlock \/ SendLast \/ SendEnd

Next == SendStep \/ FileChanges \/ OtherPrep \/ OtherSend \/ OtherEnd

Spec == Init /\ [][Next]_vars

\* scsi_cmd() returns, at the latest when its timeout runs out, and nothing
\* else in the function waits.
FairSpec == Spec /\ WF_vars(SendStep)

-----------------------------------------------------------------------------
(* Properties. *)

Opcodes == {TOOLBOX_SCSI_SEND_FILE_PREP, TOOLBOX_SCSI_SEND_FILE_10,
            TOOLBOX_SCSI_SEND_FILE_END}

TypeOK ==
    /\ pc \in {"call", "stat", "open", "prep", "send", "end", "exit"}
    /\ ret \in ReturnCodes
    /\ target \in BOOLEAN
    /\ src \in Names \cup {NoName}
    /\ source \in Sources /\ changes \in 0..MaxChanges
    /\ handle \in {"none", "open", "closed"}
    /\ st_size \in Nat /\ pos \in Nat /\ blocks \in Nat
    /\ last_block_size \in -1..(BlockSize - 1)
    /\ block_index \in 0..blocks
    /\ buffer \in [1..BlockSize -> Bytes]
    /\ upload \in Uploads /\ others \in 0..MaxOthers
    /\ acked \subseteq Opcodes /\ failed \subseteq Opcodes

Succeeded == pc = "exit" /\ ret = NO_ERROR

\* While nobody rewrites the local file or uses the device's upload, the upload
\* holds at every moment a prefix of the file, whichever commands fail and whether
\* or not the device has carried out the ones that did: no block is skipped,
\* repeated or padded.
UploadIsPrefix ==
    changes = 0 /\ others = 0 =>
        /\ Len(upload.data) <= source.size
        /\ \A k \in 1..Len(upload.data) : upload.data[k] = <<source.body, k>>

\* Two puts to one device mix their files in its one upload, and neither is told.
\* But whatever another client does with the upload and whichever commands fail,
\* the bytes this put has in it are an unbroken piece of the local file: nothing of
\* its own is skipped, repeated, padded or put in another order.
Own == {k \in DOMAIN upload.data : upload.data[k][1] # "other"}

OwnBytesInOrder ==
    changes = 0 =>
        /\ \A k \in Own : upload.data[k][1] = source.body
        /\ \A i, j \in Own : i < j /\ (\A m \in Own : m <= i \/ j <= m)
              => upload.data[j][2] = upload.data[i][2] + 1

\* Even if the file is rewritten meanwhile, a put that succeeds without having
\* lost a block has sent as many bytes as stat() counted, if it had the upload for
\* itself.
CompleteUnlessBlockLost ==
    Succeeded /\ TOOLBOX_SCSI_SEND_FILE_10 \notin failed /\ others = 0
        => Len(upload.data) = st_size

\* An upload is left open on the device only when the PREP or the END itself
\* failed, never because a block did or the file was found to have shrunk.
UploadClosed ==
    pc = "exit" /\ upload.open /\ others = 0
        => failed \cap {TOOLBOX_SCSI_SEND_FILE_PREP, TOOLBOX_SCSI_SEND_FILE_END} # {}

\* No return leaves the local file open.
SourceClosed == pc = "exit" => handle # "open"

\* A put comes to an end.
Terminates == <>(pc = "exit")

\* As long as nobody rewrites the local file or uses the upload, and no block is
\* lost, a put is a copy: the upload grows along the file, and success means all of it.
Started   == TOOLBOX_SCSI_SEND_FILE_PREP \in acked
BlockLost == TOOLBOX_SCSI_SEND_FILE_10 \in failed
Disturbed == changes > 0 \/ others > 0

CopyStatus ==
    CASE Disturbed -> "void"
      [] ~Disturbed /\ (BlockLost \/ (pc = "exit" /\ ret # NO_ERROR)) -> "failed"
      [] ~Disturbed /\ Succeeded /\ ~BlockLost                        -> "ok"
      [] OTHER -> IF Started THEN "copying" ELSE "idle"

CopySource == IF Started /\ ~Disturbed
              THEN [k \in 1..source.size |-> <<source.body, k>>] ELSE <<>>

CopyData == IF Disturbed THEN <<>> ELSE upload.data

Copy == INSTANCE FileCopy WITH
    Contents <- Seq(Bytes),
    status <- CopyStatus, source <- CopySource, copy <- CopyData

CopySpec == Copy!Spec

-----------------------------------------------------------------------------
(* What the documentation and the code's own checks say, where the code does *)
(* otherwise.                                                                 *)

\* "Error transferring block": a put that lost a block has failed.
LostBlockIsReported ==
    pc = "exit" /\ TOOLBOX_SCSI_SEND_FILE_10 \in failed => ret # NO_ERROR

\* "Error last block size != bytes read": a file that is shorter than it was
\* makes the put fail; nothing but bytes of the file is sent.
SendsOnlyTheFile ==
    Succeeded => \A k \in 1..Len(upload.data) : upload.data[k] \in Bodies \X Nat
=============================================================================
