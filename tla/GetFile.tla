------------------------------ MODULE GetFile ------------------------------
(***************************************************************************)
(* toolbox_cmd_get_file() of toolbox_commands.c: list the directory, pick  *)
(* an entry by name, open the local file, fetch the remote one in blocks   *)
(* by GET_FILE commands that carry the index and the block number.         *)
(*                                                                         *)
(* Around it: another initiator may change the card at any step, any       *)
(* command may fail, the local file may not open, and a write to it may    *)
(* come out short, for once or for good.                                   *)
(* The k-th byte of a file is <<its body, k>>.                             *)
(***************************************************************************)
EXTENDS ListDir

CONSTANTS Platform,     \* whose scsi_cmd() is linked in
          BlockSize,    \* sizeof(buffer), 4096 bytes
          LongMax,      \* largest value of a long
          OffsetLimit,  \* values of the four offset bytes of the CDB, 2^32
          NameMatches,  \* pairs <<entry, name asked for>> that strncmp() accepts
          MaxFailures   \* bound on the writes to the local file that fall short

ASSUME GetAssumption ==
    /\ Platform \in Platforms
    /\ BlockSize \in Nat \ {0}
    /\ LongMax \in Nat
    /\ OffsetLimit \in Nat \ {0}
    /\ NameMatches \subseteq Names \X Names
    /\ MaxFailures \in Nat
    /\ MaxSize < BlockSize * OffsetLimit

VARIABLES pc, ret,
          src,                \* the name asked for
          f,                  \* the entry being fetched, 0 for NULL
          blocks, last_block_size, blocks_transferred,
          fp,                 \* the FILE of the local file
          local,              \* the bytes in the local file
          failures,           \* history: how many writes to it fell short
          past                \* history: the cards the device has held, in order

getVars == <<pc, ret, src, f, blocks, last_block_size, blocks_transferred, fp,
             local, failures, past>>
vars == <<listVars, getVars>>

Zero == <<"zero", 0>>
Bytes == (Bodies \X Nat) \cup {Zero}

-----------------------------------------------------------------------------
(* Arithmetic of the code: longs wrap, division truncates towards zero. *)

Wrap(n) == ((n + LongMax + 1) % (2 * LongMax + 2)) - (LongMax + 1)

Quotient(n)  == IF n >= 0 THEN n \div BlockSize ELSE -((-n) \div BlockSize)
\* Mutant of Remainder: the odd bytes at the end of the file are forgotten.
Remainder_none(n) == 0
Remainder(n) == IF n >= 0 THEN n % BlockSize ELSE -((-n) % BlockSize)

\* The file size as decoded from the five bytes of an entry.
FileSize(e) == Wrap(e.size)

\* The block number as it fits in cdb[2..5].
\* Mutant of Offset: the CDB is filled in before the block is counted.
Offset_stale(n) == (IF n = 0 THEN 0 ELSE n - 1) % OffsetLimit
Offset(n) == n % OffsetLimit

-----------------------------------------------------------------------------
(* Choosing the entry: entries of a type other than 1 are skipped, f is set  *)
(* to every other one in turn, and the loop ends at the first that matches.  *)

Regular(d)    == {i \in DOMAIN d : d[i].type = 1}
Matching(d, s) == {i \in Regular(d) : <<d[i].name, s>> \in NameMatches}

IsScanned(d, s, k) ==
    \/ k \in Matching(d, s) /\ \A i \in Matching(d, s) : k <= i
    \/ Matching(d, s) = {} /\ k \in Regular(d) /\ \A i \in Regular(d) : i <= k
    \/ Regular(d) = {} /\ k = 0

-----------------------------------------------------------------------------
(* The device: GET_FILE answers with the bytes of a block.  The buffer was  *)
(* cleared before, and a short answer is not told from a full one.          *)

GetCmd(index, n, len) == ReadCmd(TOOLBOX_SCSI_GET_FILE, <<index, Offset(n)>>, len)

Answer(c) ==
    LET args  == OnWire(Platform, c).args
        i     == args[1] + 1
        start == args[2] * BlockSize
    IN  [k \in 1..c.recv.len |->
            IF i \in DOMAIN card.files /\ start + k <= card.files[i].size
            THEN <<card.files[i].body, start + k>> ELSE Zero]

-----------------------------------------------------------------------------
(* The local file.  Nobody looks at what fwrite() and fclose() return.  Each *)
(* may lose the end of what it has to write, and the next one succeed again. *)

\* fwrite() of a buffer.
WriteLocal(bytes) ==
    \/ local' = local \o bytes /\ UNCHANGED failures
    \/ /\ failures < MaxFailures
       /\ failures' = failures + 1
       /\ \E n \in 0..(Len(bytes) - 1) : local' = local \o SubSeq(bytes, 1, n)

\* fclose(), which writes what stdio still has in its buffer.
CloseLocal ==
    /\ fp' = "closed"
    /\ \/ UNCHANGED <<local, failures>>
       \/ /\ failures < MaxFailures
          /\ failures' = failures + 1
          /\ \E n \in 0..(Len(local) - 1) : local' = SubSeq(local, 1, n)

-----------------------------------------------------------------------------
Init ==
    /\ ListInit
    /\ toolbox_cmd = TOOLBOX_SCSI_LIST_FILES
    /\ pc = "call"
    /\ ret = NO_ERROR
    /\ src \in Names
    /\ f = 0
    /\ blocks = 0 /\ last_block_size = 0 /\ blocks_transferred = 0
    /\ fp = "none"
    /\ local = <<>>
    /\ failures = 0
    /\ past = <<card>>

Return(code) == pc' = "exit" /\ ret' = code

CallGet ==
    /\ pc = "call"
    /\ IF target
       THEN pc' = "listing" /\ lpc' = "count" /\ UNCHANGED ret
       ELSE Return(INVALID_ARGS) /\ UNCHANGED lpc
    /\ UNCHANGED <<card, changes, toolbox_cmd, target, lret, file_count, dir, heap,
                   counted, src, f, blocks, last_block_size, blocks_transferred, fp,
                   local, failures, past>>

Listing ==
    /\ pc = "listing"
    /\ ListStep
    /\ UNCHANGED getVars

\* The loop over the entries, and what is computed from the one it ends on.
Scan ==
    /\ pc = "listing"
    /\ lpc = "returned"
    /\ IF lret # NO_ERROR
       THEN Return(CMD_FAILED) /\ UNCHANGED <<f, blocks, last_block_size, heap>>
       ELSE \E k \in 0..Len(dir) :
              /\ IsScanned(dir, src, k)
              /\ f' = k
              /\ IF k = 0
                 THEN /\ Return(NOT_FOUND)
                      /\ heap' = {}
                      /\ UNCHANGED <<blocks, last_block_size>>
                 ELSE /\ pc' = "open"
                      /\ blocks' = Quotient(FileSize(dir[k]))
                      /\ last_block_size' = Remainder(FileSize(dir[k]))
                      /\ UNCHANGED <<ret, heap>>
    /\ UNCHANGED <<card, changes, toolbox_cmd, target, lpc, lret, file_count, dir,
                   counted, src, blocks_transferred, fp, local, failures, past>>

\* fopen(..., "wb") truncates the local file, or returns NULL, which is not
\* noticed.
Open ==
    /\ pc = "open"
    /\ pc' = "transfer"
    /\ fp' \in {"open", "null"}
    /\ local' = <<>>
    /\ UNCHANGED <<listVars, ret, src, f, blocks, last_block_size,
                   blocks_transferred, failures, past>>

\* Mutant of Block: a block whose write falls short is fetched again, and what the
\* write left in the file stays there.
Block_again ==
    /\ pc = "transfer"
    /\ blocks_transferred # blocks
    /\ fp = "open"
    /\ WriteLocal(Answer(GetCmd(dir[f].index, blocks_transferred, BlockSize)))
    /\ blocks_transferred' = IF failures' = failures THEN Wrap(blocks_transferred + 1)
                             ELSE blocks_transferred
    /\ UNCHANGED <<listVars, pc, ret, src, f, blocks, last_block_size, fp, past>>

\* One full block: GET_FILE succeeds and its 4096 bytes are given to fwrite().
Block ==
    /\ pc = "transfer"
    /\ blocks_transferred # blocks
    /\ fp = "open"
    /\ WriteLocal(Answer(GetCmd(dir[f].index, blocks_transferred, BlockSize)))
    /\ blocks_transferred' = Wrap(blocks_transferred + 1)
    /\ UNCHANGED <<listVars, pc, ret, src, f, blocks, last_block_size, fp, past>>

\* Mutant of LastBlock: a whole block is asked for and written.
LastBlock_full ==
    /\ pc = "transfer"
    /\ blocks_transferred = blocks
    /\ last_block_size > 0
    /\ fp = "open"
    /\ WriteLocal(Answer(GetCmd(dir[f].index, blocks_transferred, BlockSize)))
    /\ pc' = "close"
    /\ UNCHANGED <<listVars, ret, src, f, blocks, last_block_size,
                   blocks_transferred, fp, past>>

\* The last block, of irregular size.
LastBlock ==
    /\ pc = "transfer"
    /\ blocks_transferred = blocks
    /\ last_block_size > 0
    /\ fp = "open"
    /\ WriteLocal(Answer(GetCmd(dir[f].index, blocks_transferred, last_block_size)))
    /\ pc' = "close"
    /\ UNCHANGED <<listVars, ret, src, f, blocks, last_block_size,
                   blocks_transferred, fp, past>>

\* A negative size becomes a huge unsigned length for a 4096-byte buffer.
OverlongLastBlock ==
    /\ pc = "transfer"
    /\ blocks_transferred = blocks
    /\ last_block_size < 0
    /\ pc' = "crashed"
    /\ UNCHANGED <<listVars, ret, src, f, blocks, last_block_size,
                   blocks_transferred, fp, local, failures, past>>

MoreToFetch == blocks_transferred # blocks \/ last_block_size # 0

\* Mutant of CommandFails: the listing is not freed.
CommandFails_noFree ==
    /\ pc = "transfer"
    /\ MoreToFetch
    /\ fp = "open"
    /\ CloseLocal
    /\ Return(CMD_FAILED)
    /\ UNCHANGED <<listVars, src, f, blocks, last_block_size, blocks_transferred,
                   past>>

\* Mutant of CommandFails: the transfer is tried again from the start.
CommandFails_retry ==
    /\ pc = "transfer"
    /\ MoreToFetch
    /\ fp = "open"
    /\ CloseLocal
    /\ pc' = "open"
    /\ blocks_transferred' = 0
    /\ UNCHANGED <<listVars, ret, src, f, blocks, last_block_size, past>>

\* Mutant of CommandFails: the SCSI status is returned for the error code.
CommandFails_status ==
    /\ pc = "transfer"
    /\ MoreToFetch
    /\ fp = "open"
    /\ CloseLocal
    /\ heap' = {}
    /\ Return(2)
    /\ UNCHANGED <<card, changes, toolbox_cmd, target, lpc, lret, file_count, dir,
                   counted, src, f, blocks, last_block_size, blocks_transferred,
                   past>>

\* A GET_FILE fails: the file is closed, the listing freed, the error returned.
CommandFails ==
    /\ pc = "transfer"
    /\ MoreToFetch
    /\ fp = "open"
    /\ CloseLocal
    /\ heap' = {}
    /\ Return(CMD_FAILED)
    /\ UNCHANGED <<card, changes, toolbox_cmd, target, lpc, lret, file_count, dir,
                   counted, src, f, blocks, last_block_size, blocks_transferred,
                   past>>

\* fopen() had failed: whether the next command succeeds or not, stdio is
\* handed the NULL.
UseOfNullFile ==
    /\ pc = "transfer"
    /\ fp = "null"
    /\ pc' = "crashed"
    /\ UNCHANGED <<listVars, ret, src, f, blocks, last_block_size,
                   blocks_transferred, fp, local, failures, past>>

\* All fetched: fclose() and return.  The listing is not freed here.
Close ==
    /\ \/ pc = "close"
       \/ pc = "transfer" /\ ~MoreToFetch
    /\ fp = "open"
    /\ CloseLocal
    /\ Return(NO_ERROR)
    /\ UNCHANGED <<listVars, src, f, blocks, last_block_size, blocks_transferred,
                   past>>

-----------------------------------------------------------------------------
(* The world around. *)

CardChanges ==
    /\ Change
    /\ past' = Append(past, card')
    /\ UNCHANGED <<pc, ret, src, f, blocks, last_block_size, blocks_transferred, fp,
                   local, failures>>

GetStep == \/ CallGet \/ Listing \/ Scan \/ Open \/ Block \/ LastBlock
           \/ OverlongLastBlock \/ CommandFails \/ UseOfNullFile \/ Close

Next == GetStep \/ CardChanges

Spec == Init /\ [][Next]_vars

\* scsi_cmd() returns, at the latest when its timeout runs out, and nothing
\* else in the function waits.
FairSpec == Spec /\ WF_vars(GetStep)

-----------------------------------------------------------------------------
(* Properties. *)

TypeOK ==
    /\ ListTypeOK
    /\ pc \in {"call", "listing", "open", "transfer", "close", "exit", "crashed"}
    /\ ret \in ReturnCodes
    /\ src \in Names
    /\ f \in 0..Len(dir)
    /\ blocks \in Int /\ last_block_size \in Int /\ blocks_transferred \in Int
    /\ fp \in {"none", "null", "open", "closed"}
    /\ local \in Seq(Bytes)
    /\ failures \in 0..MaxFailures
    /\ past \in Seq(Cards)

\* The remote file the listing named, while the card is as it was listed.
Remote == card.files[f]

\* A long is 32 bits in some of the builds; the size in an entry has 40.
FitsLong(size) == size <= LongMax

\* As long as nobody else changes the card, the local file holds bytes of the
\* remote file, in their order: none is fetched twice or out of turn, none is the
\* padding of the last block, and none is left out but those that a write has
\* lost, also when the transfer stops half way.  A write that falls short makes a
\* gap, which what is written later closes up, and does no other harm.  (For files
\* whose size fits a long.)
LocalInOrder ==
    f # 0 /\ changes = 0 /\ FitsLong(dir[f].size) =>
        /\ \A k \in DOMAIN local : \E p \in 1..Remote.size : local[k] = <<Remote.body, p>>
        /\ \A j, k \in DOMAIN local : j < k => local[j][2] < local[k][2]
        /\ failures = 0 => \A k \in DOMAIN local : local[k] = <<Remote.body, k>>

\* The byte at position k of the file with index i on the card c.
ByteAt(c, i, k) ==
    IF i + 1 \in DOMAIN c.files /\ k <= c.files[i + 1].size
    THEN <<c.files[i + 1].body, k>> ELSE Zero

\* The positions of block n.
BlockOf(n) == (BlockSize * n + 1)..(BlockSize * n + BlockSize)

\* Block n of the local file is that of the m[n]-th card the device held, if no write
\* has fallen short.
BlocksFrom(m) ==
    /\ \A n, o \in 0..blocks : n <= o => m[n] <= m[o]
    /\ \A n \in 0..blocks : \A k \in BlockOf(n) \cap DOMAIN local :
          local[k] = ByteAt(past[m[n]], dir[f].index, k)

\* Whatever others do to the card during a get, each block of the local file is
\* the block at the same place of the file that had the listed index on one of the
\* cards the device has held, a later block being of the same card or a later one:
\* a get mixes files at the boundaries of blocks only, moves no byte, and writes no
\* more bytes than the listing promised.  (The last also when writes fall short,
\* the rest until one does; both for files whose size fits a long.)
BlocksAreWhole ==
    f # 0 /\ FitsLong(dir[f].size) =>
        /\ Len(local) <= dir[f].size
        /\ failures = 0 => \E m \in [0..blocks -> 1..Len(past)] : BlocksFrom(m)

\* What a long counts until it comes round again.
Cycle == 2 * LongMax + 2

\* A get that reports success has written as many bytes as the listing promised,
\* even if the card changed under it, unless a write fell short.  If the size does
\* not fit a long, it is right but for a multiple of what a long can count.
SuccessHasFullLength ==
    pc = "exit" /\ ret = NO_ERROR /\ failures = 0 =>
        /\ (Len(local) - dir[f].size) % Cycle = 0
        /\ FitsLong(dir[f].size) => Len(local) = dir[f].size

\* Every failing return has closed the local file and freed the listing.
FailureReleases ==
    pc = "exit" /\ ret # NO_ERROR => fp # "open" /\ heap = {}

\* A get comes to an end, one way or the other.
Terminates == <>(pc \in {"exit", "crashed"})

\* As long as the card is not touched, no write falls short and the size fits a
\* long, a get is a copy: the local file grows along the remote one, and success
\* means all of it.
Disturbed == changes > 0 \/ failures > 0 \/ (f # 0 /\ ~FitsLong(dir[f].size))

CopyStatus ==
    CASE Disturbed                                             -> "void"
      [] ~Disturbed /\ pc \in {"call", "listing", "open"}      -> "idle"
      [] ~Disturbed /\ pc \in {"transfer", "close"}            -> "copying"
      [] ~Disturbed /\ pc = "exit" /\ ret = NO_ERROR           -> "ok"
      [] OTHER                                                 -> "failed"

CopySource == IF Disturbed \/ f = 0 \/ fp = "none" THEN <<>>
              ELSE [k \in 1..Remote.size |-> <<Remote.body, k>>]

CopyData == IF Disturbed THEN <<>> ELSE local

Copy == INSTANCE FileCopy WITH
    Contents <- Seq(Bytes),
    status <- CopyStatus, source <- CopySource, copy <- CopyData

CopySpec == Copy!Spec

-----------------------------------------------------------------------------
(* What the documentation says, where the code does otherwise. *)

\* "Get a file from device": a get that succeeds has fetched the file of the
\* name asked for.
FetchesNamedFile == pc = "exit" /\ ret = NO_ERROR => dir[f].name = src
=============================================================================
