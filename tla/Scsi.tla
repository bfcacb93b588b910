-------------------------------- MODULE Scsi --------------------------------
(***************************************************************************)
(* What every layer of scsitb shares: the return codes, the toolbox        *)
(* opcodes, the SCSI_CMD a toolbox function fills in, and what each        *)
(* platform's scsi_cmd() puts on the bus for it.                           *)
(*                                                                         *)
(* A command descriptor block is its opcode and the sequence of its        *)
(* operand fields (a field of several bytes is one number).                *)
(***************************************************************************)
EXTENDS Integers, Sequences

Platforms == {"linux", "sunos", "irix", "next"}

(***************************************************************************)
(* Return codes of the toolbox and transport functions.                    *)
(***************************************************************************)
NO_ERROR     == 0
INVALID_ARGS == -1
ALLOC_ERROR  == -2
CMD_FAILED   == -3
NOT_FOUND    == -4

ReturnCodes == {NO_ERROR, INVALID_ARGS, ALLOC_ERROR, CMD_FAILED, NOT_FOUND}

(***************************************************************************)
(* Opcodes of the toolbox commands (0xD0 to 0xDA), and INQUIRY.            *)
(***************************************************************************)
TOOLBOX_SCSI_LIST_FILES     == 208
TOOLBOX_SCSI_GET_FILE       == 209
TOOLBOX_SCSI_COUNT_FILES    == 210
TOOLBOX_SCSI_SEND_FILE_PREP == 211
TOOLBOX_SCSI_SEND_FILE_10   == 212
TOOLBOX_SCSI_SEND_FILE_END  == 213
TOOLBOX_SCSI_TOGGLE_DEBUG   == 214
TOOLBOX_SCSI_LIST_CDS       == 215
TOOLBOX_SCSI_SET_NEXT_CD    == 216
TOOLBOX_SCSI_METADATA       == 217
TOOLBOX_SCSI_COUNT_CDS      == 218
INQUIRY                     == 18

(***************************************************************************)
(* A SCSI_CMD.  A buffer is a pointer, NULL or not, and a length: the      *)
(* transports look at one or the other to choose the direction.            *)
(***************************************************************************)
NoBuffer    == [ptr |-> FALSE, len |-> 0]
Buffer(len) == [ptr |-> TRUE, len |-> len]

ScsiCmd(op, args, cdb_len, send, recv) ==
    [op |-> op, args |-> args, cdb_len |-> cdb_len, send |-> send, recv |-> recv]

ReadCmd(op, args, len)  == ScsiCmd(op, args, 10, NoBuffer, Buffer(len))
WriteCmd(op, args, len) == ScsiCmd(op, args, 10, Buffer(len), NoBuffer)
PlainCmd(op, args)      == ScsiCmd(op, args, 10, NoBuffer, NoBuffer)

(***************************************************************************)
(* The NeXT transport builds the CDB it sends field by field, from         *)
(* cdb_len, and refuses what it cannot build.  The other three hand the    *)
(* caller's CDB to the driver as it is.                                    *)
(***************************************************************************)
Bidirectional(c) == c.recv.len > 0 /\ c.send.len > 0

Refused(p, c) == p = "next" /\ (Bidirectional(c) \/ c.cdb_len \notin {6, 10, 12})

\* Operands the device decodes: cdb_6 and cdb_10 are given an opcode, a LUN and
\* a length only, every other byte stays as memset() left it.
WireArgs(p, c) ==
    IF p = "next" THEN [i \in 1..Len(c.args) |-> 0] ELSE c.args

\* A 12-byte command is sent without even its opcode by the NeXT transport.
WireOp(p, c) == IF p = "next" /\ c.cdb_len = 12 THEN 0 ELSE c.op

(***************************************************************************)
(* Direction and length of the data phase.  Linux and SunOS look at the    *)
(* pointers, IRIX and NeXT at the lengths.                                 *)
(***************************************************************************)
PointerDirection(c) ==
    CASE c.recv.ptr /\ c.send.ptr   -> [dir |-> "inout", len |-> c.send.len]
      [] c.recv.ptr /\ ~c.send.ptr  -> [dir |-> "in",    len |-> c.recv.len]
      [] ~c.recv.ptr /\ c.send.ptr  -> [dir |-> "out",   len |-> c.send.len]
      [] ~c.recv.ptr /\ ~c.send.ptr -> [dir |-> "none",  len |-> 0]

LengthDirection(c) ==
    CASE Bidirectional(c)                  -> [dir |-> "inout", len |-> c.recv.len]
      [] c.recv.len > 0 /\ c.send.len = 0  -> [dir |-> "in",    len |-> c.recv.len]
      [] c.recv.len = 0                    -> [dir |-> "out",   len |-> c.send.len]

WireData(p, c) ==
    CASE p \in {"linux", "sunos"}        -> PointerDirection(c)
      [] p = "next" /\ c.cdb_len = 12    -> [dir |-> "none", len |-> 0]
      [] OTHER                           -> LengthDirection(c)

\* What reaches the device for command c on platform p, if it is not refused.
OnWire(p, c) == [op |-> WireOp(p, c), args |-> WireArgs(p, c), data |-> WireData(p, c)]
=============================================================================
