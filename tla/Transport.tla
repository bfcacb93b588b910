----------------------------- MODULE Transport -----------------------------
(***************************************************************************)
(* scsi_cmd() of the four transports: one SCSI command through the driver  *)
(* of the platform, and what the caller is told of it.                     *)
(*                                                                         *)
(* A caller makes several calls with one SCSI_CMD_RESPONSE, as the file    *)
(* transfers do.  A field of the response is represented by the number of  *)
(* the call it tells of: 0 when cleared, Garbage as the stack had it.      *)
(***************************************************************************)
EXTENDS Scsi

CONSTANTS Linked,       \* the platforms looked at
          Commands,     \* the commands a caller may issue
          SenseLengths, \* bytes of sense data a driver may hand back
          MaxCalls,     \* bound on the calls made
          Garbage       \* a field nobody has written

\* A SCSI_CMD as the toolbox functions fill it in: a buffer that is not given has
\* no length, and there is one buffer at most.
Buffers == {b \in [ptr : BOOLEAN, len : Nat] : b.len > 0 => b.ptr}

IsCommand(c) ==
    /\ c.cdb_len \in {0, 6, 10}
    /\ c.send \in Buffers /\ c.recv \in Buffers
    /\ ~(c.send.ptr /\ c.recv.ptr)

ASSUME TransportAssumption ==
    /\ Linked \subseteq Platforms
    /\ \A c \in Commands : IsCommand(c)
    /\ SenseLengths \subseteq 0..32
    /\ MaxCalls \in Nat
    /\ Garbage \notin 0..MaxCalls

VARIABLES platform,     \* the transport that was linked in
          target,       \* whether the SCSI_DEVICE pointer is not NULL
          phase, ret,
          cmd, calls,   \* the command of this call, its number
          response,     \* the caller's SCSI_CMD_RESPONSE
          handles,      \* handles scsi_cmd() holds on the SCSI device
          executed,     \* history: the commands the device has carried out
          outcome       \* history: what became of this call's command

vars == <<platform, target, phase, ret, cmd, calls, response, handles, executed,
          outcome>>

-----------------------------------------------------------------------------
(* The driver: an ioctl() that fails; one that returns good status; or one    *)
(* that returns another, with sense data.  The command of a failing one may   *)
(* have been carried out nevertheless, when the answer was what got lost.     *)

NotIssued == [ioctl |-> FALSE, done |-> FALSE, good |-> FALSE, sense |-> 0]

Outcomes ==
    [ioctl : {FALSE}, done : BOOLEAN, good : {FALSE}, sense : {0}]
      \cup [ioctl : {TRUE}, done : {TRUE}, good : {TRUE}, sense : {0}]
      \cup [ioctl : {TRUE}, done : BOOLEAN, good : {FALSE}, sense : SenseLengths]

-----------------------------------------------------------------------------
(* What is told of a failing ioctl() or a status that is not good. *)

Fields == {"error", "status", "asc"}

\* Linux takes the additional sense codes when there are at most 14 bytes.
HasSense(p, n) == n # 0 /\ (p = "linux" => 14 >= n)

\* SunOS and IRIX do not tell the status.
Told(p, o) ==
    {x \in Fields : \/ x = "error" /\ ~o.ioctl
                    \/ x = "status" /\ o.ioctl /\ ~o.good /\ p \in {"linux", "next"}
                    \/ x = "asc" /\ o.ioctl /\ ~o.good /\ HasSense(p, o.sense)}

Init ==
    /\ platform \in Linked
    /\ target \in BOOLEAN
    /\ phase = "caller" /\ ret = NO_ERROR
    /\ cmd \in Commands /\ calls = 0
    /\ response = [x \in Fields |-> Garbage]
    /\ handles = 0
    /\ executed = <<>>
    /\ outcome = NotIssued

Return(code) == phase' = "caller" /\ ret' = code

\* Mutant of Entered: nobody clears the response.
Entered_stale(p, r) == r

\* Linux and NeXT clear the response, SunOS and IRIX leave it as it is.
Entered(p, r) == IF p \in {"linux", "next"} THEN [x \in Fields |-> 0] ELSE r

Call ==
    /\ phase = "caller"
    /\ calls < MaxCalls
    /\ calls' = calls + 1
    /\ cmd' \in Commands
    /\ response' = Entered(platform, response)
    /\ outcome' = NotIssued
    /\ IF target
       THEN phase' = (IF platform = "next" THEN "open" ELSE "issue") /\ UNCHANGED ret
       ELSE Return(INVALID_ARGS)
    /\ UNCHANGED <<platform, target, handles, executed>>

\* NeXT opens the one SCSI device of the machine for every command.
NextOpen ==
    /\ phase = "open"
    /\ \/ Return(CMD_FAILED) /\ UNCHANGED handles
       \/ phase' = "address" /\ handles' = handles + 1 /\ UNCHANGED ret
    /\ UNCHANGED <<platform, target, cmd, calls, response, executed, outcome>>

\* Mutant of NextAddress: a refused command leaves the handle open.
NextAddress_leak ==
    /\ phase = "address"
    /\ \/ Return(CMD_FAILED) /\ handles' = handles - 1
       \/ IF Refused(platform, cmd)
          THEN Return(CMD_FAILED) /\ UNCHANGED handles
          ELSE phase' = "issue" /\ UNCHANGED <<ret, handles>>
    /\ UNCHANGED <<platform, target, cmd, calls, response, executed, outcome>>

\* It addresses the target, and refuses the commands it has no CDB for.
NextAddress ==
    /\ phase = "address"
    /\ \/ Return(CMD_FAILED) /\ handles' = handles - 1
       \/ IF Refused(platform, cmd)
          THEN Return(CMD_FAILED) /\ handles' = handles - 1
          ELSE phase' = "issue" /\ UNCHANGED <<ret, handles>>
    /\ UNCHANGED <<platform, target, cmd, calls, response, executed, outcome>>

\* Mutant of Issue: a failing ioctl() is not looked at.
Issue_ioctlIgnored ==
    /\ phase = "issue"
    /\ \E o \in Outcomes :
         /\ outcome' = o
         /\ executed' = IF o.done THEN Append(executed, OnWire(platform, cmd)) ELSE executed
         /\ response' = [x \in Fields |->
                           IF x \in Told(platform, o) THEN calls ELSE response[x]]
         /\ Return(IF ~o.ioctl \/ o.good THEN NO_ERROR ELSE CMD_FAILED)
    /\ handles' = IF platform = "next" THEN handles - 1 ELSE handles
    /\ UNCHANGED <<platform, target, cmd, calls>>

\* Mutant of Issue: a command whose status is not good is sent once more.
Issue_again ==
    /\ phase = "issue"
    /\ \E o \in Outcomes :
         /\ outcome' = o
         /\ executed' = IF o.done THEN Append(executed, OnWire(platform, cmd)) ELSE executed
         /\ response' = [x \in Fields |->
                           IF x \in Told(platform, o) THEN calls ELSE response[x]]
         /\ IF o.ioctl /\ ~o.good /\ ~outcome.ioctl THEN UNCHANGED <<phase, ret>>
            ELSE Return(IF o.good THEN NO_ERROR ELSE CMD_FAILED)
    /\ handles' = IF platform = "next" /\ phase' = "caller" THEN handles - 1 ELSE handles
    /\ UNCHANGED <<platform, target, cmd, calls>>

\* The ioctl() that carries the command, and what is made of its outcome.
Issue ==
    /\ phase = "issue"
    /\ \E o \in Outcomes :
         /\ outcome' = o
         /\ executed' = IF o.done THEN Append(executed, OnWire(platform, cmd)) ELSE executed
         /\ response' = [x \in Fields |->
                           IF x \in Told(platform, o) THEN calls ELSE response[x]]
         /\ Return(IF o.good THEN NO_ERROR ELSE CMD_FAILED)
    /\ handles' = IF platform = "next" THEN handles - 1 ELSE handles
    /\ UNCHANGED <<platform, target, cmd, calls>>

Next == Call \/ NextOpen \/ NextAddress \/ Issue

Spec == Init /\ [][Next]_vars

-----------------------------------------------------------------------------
(* Properties. *)

Returned == phase = "caller" /\ calls > 0

TypeOK ==
    /\ platform \in Linked /\ target \in BOOLEAN
    /\ phase \in {"caller", "open", "address", "issue"}
    /\ ret \in ReturnCodes
    /\ cmd \in Commands /\ calls \in 0..MaxCalls
    /\ response \in [Fields -> 0..MaxCalls \cup {Garbage}]
    /\ handles \in {0, 1}
    /\ Len(executed) <= calls
    /\ outcome \in Outcomes

\* The bytes that come or go: what the bus moves, and what a command asks for.
Moves(data) == IF data.len = 0 THEN <<"none", 0>> ELSE <<data.dir, data.len>>

MovesAsked(c) == CASE c.recv.len > 0                    -> <<"in", c.recv.len>>
                   [] c.recv.len = 0 /\ c.send.len > 0 -> <<"out", c.send.len>>
                   [] OTHER                             -> <<"none", 0>>

\* The last command the device has carried out.
Last == executed[Len(executed)]

\* When scsi_cmd() returns 0 the device has carried out the command, with the
\* opcode and the data phase the caller asked for, in the same direction and of
\* the same length; on every platform but NeXT also with its operands.
SuccessMeansExecuted ==
    Returned /\ ret = NO_ERROR =>
        /\ executed # <<>>
        /\ Last.op = cmd.op /\ Moves(Last.data) = MovesAsked(cmd)
        /\ platform # "next" => Last.args = cmd.args

\* Every return has closed the handle that was opened for the command: success,
\* failure, and every refusal before the command was sent.
HandleClosed == phase = "caller" => handles = 0

\* Where scsi_cmd() clears the response, it tells of no other call than the last
\* one: nothing an earlier call left there, nothing at all after a success, and
\* after a bad status that status.
ResponseIsFresh ==
    Returned /\ platform \in {"linux", "next"} =>
        /\ \A x \in Fields : response[x] \in IF ret = NO_ERROR THEN {0} ELSE {0, calls}
        /\ outcome.ioctl /\ ~outcome.good => response["status"] = calls

\* A call is one step for its caller, as the toolbox functions take it: whatever
\* happens on the way, the device carries out the command that was asked for once
\* when the call succeeds, at most once when it fails, and nothing else; but for
\* the operands on NeXT.
Known(p, args) == IF p = "next" THEN <<>> ELSE args

Asked(p, c) == [op |-> c.op, moves |-> MovesAsked(c), args |-> Known(p, c.args)]
Seen(p, w)  == [op |-> w.op, moves |-> Moves(w.data), args |-> Known(p, w.args)]

Caller == INSTANCE Command WITH
    Requests <- {Asked(p, c) : p \in Linked, c \in Commands},
    NoError <- NO_ERROR, Errors <- ReturnCodes \ {NO_ERROR},
    busy <- phase # "caller", request <- Asked(platform, cmd), result <- ret,
    carriedOut <- [i \in DOMAIN executed |-> Seen(platform, executed[i])]

CallerSpec == Caller!Spec

=============================================================================
