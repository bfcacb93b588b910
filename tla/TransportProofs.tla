-------------------------- MODULE TransportProofs --------------------------
(***************************************************************************)
(* Proofs about Transport, for any number of calls of any commands: the    *)
(* types, that no return holds a handle, that success means the command    *)
(* was carried out, and that a cleared response is never stale.            *)
(***************************************************************************)
EXTENDS Transport, SequenceTheorems, TLAPS

\* The handle by where scsi_cmd() is, that it sends nothing it refuses, and that
\* each call sends one command at most.
Flow ==
    /\ phase # "caller" => Len(executed) < calls
    /\ phase = "caller" => handles = 0
    /\ phase = "open" => platform = "next" /\ handles = 0
    /\ phase = "address" => platform = "next" /\ handles = 1
    /\ phase = "issue" => /\ handles = IF platform = "next" THEN 1 ELSE 0
                          /\ ~Refused(platform, cmd)

\* Until the ioctl() there is no outcome, and a response that is cleared is clear.
Clean ==
    phase # "caller" =>
        /\ outcome = NotIssued
        /\ platform \in {"linux", "next"} => \A x \in Fields : response[x] = 0

IInv ==
    /\ TypeOK /\ executed \in Seq({OnWire(p, c) : p \in Linked, c \in Commands})
    /\ Flow /\ Clean /\ SuccessMeansExecuted /\ ResponseIsFresh

-----------------------------------------------------------------------------
LEMMA OutcomeType ==
    ASSUME NEW o \in Outcomes
    PROVE  /\ o.ioctl \in BOOLEAN /\ o.done \in BOOLEAN /\ o.good \in BOOLEAN
           /\ o.good => o.ioctl /\ o.done
  BY DEF Outcomes

LEMMA NotIssuedType == NotIssued \in Outcomes /\ ~NotIssued.ioctl
  BY DEF NotIssued, Outcomes

\* What is put on the bus for a command that is not refused.
LEMMA WireFaithful ==
    ASSUME NEW p \in Platforms, NEW c, IsCommand(c), ~Refused(p, c)
    PROVE  LET w == OnWire(p, c)
           IN  /\ w.op = c.op /\ Moves(w.data) = MovesAsked(c)
               /\ p # "next" => w.args = c.args
<1>1. /\ c.send.ptr \in BOOLEAN /\ c.send.len \in Nat /\ (c.send.len > 0 => c.send.ptr)
      /\ c.recv.ptr \in BOOLEAN /\ c.recv.len \in Nat /\ (c.recv.len > 0 => c.recv.ptr)
      /\ ~(c.send.ptr /\ c.recv.ptr) /\ c.cdb_len # 12
  BY DEF IsCommand, Buffers
<1>2. OnWire(p, c).op = c.op /\ (p # "next" => OnWire(p, c).args = c.args)
  BY <1>1 DEF OnWire, WireOp, WireArgs
<1>3. OnWire(p, c).data = IF p \in {"linux", "sunos"} THEN PointerDirection(c)
                          ELSE LengthDirection(c)
  BY <1>1 DEF OnWire, WireData
<1>4. Moves(PointerDirection(c)) = MovesAsked(c)
  BY <1>1 DEF Moves, MovesAsked, PointerDirection
<1>5. Moves(LengthDirection(c)) = MovesAsked(c)
  BY <1>1 DEF Moves, MovesAsked, LengthDirection, Bidirectional
<1> QED
  BY <1>2, <1>3, <1>4, <1>5

LEMMA InitIInv == Init => IInv
  BY NotIssuedType, EmptySeq, TransportAssumption
     DEF Init, IInv, TypeOK, Flow, Clean, SuccessMeansExecuted, ResponseIsFresh, Returned,
         TransportAssumption, ReturnCodes, NO_ERROR, Fields

LEMMA CallStep == IInv /\ Call => IInv'
<1> SUFFICES ASSUME IInv, Call PROVE IInv'
  OBVIOUS
<1>1. /\ calls' = calls + 1 /\ calls' \in 1..MaxCalls /\ cmd' \in Commands
      /\ response' = Entered(platform, response) /\ outcome' = NotIssued
      /\ UNCHANGED <<platform, target, handles, executed>>
      /\ \/ target /\ phase' = (IF platform = "next" THEN "open" ELSE "issue") /\ ret' = ret
         \/ phase' = "caller" /\ ret' = INVALID_ARGS
  BY TransportAssumption DEF Call, Return, IInv, TypeOK, TransportAssumption
<1>2. /\ response' \in [Fields -> 0..MaxCalls \cup {Garbage}]
      /\ platform \in {"linux", "next"} => \A x \in Fields : response'[x] = 0
  BY <1>1, TransportAssumption DEF Entered, IInv, TypeOK, TransportAssumption
<1>3. TypeOK'
  BY <1>1, <1>2, NotIssuedType, LenProperties, TransportAssumption
     DEF IInv, TypeOK, TransportAssumption, ReturnCodes, INVALID_ARGS
<1>4. Flow'
  <2>1. Len(executed) \in Nat /\ calls \in Nat /\ Len(executed) <= calls
    BY LenProperties, TransportAssumption DEF IInv, TypeOK, TransportAssumption
  <2>2. Len(executed') < calls'
    BY <1>1, <2>1
  <2> QED
    BY <1>1, <2>2 DEF IInv, Flow, Call, Refused
<1>5. Clean' /\ SuccessMeansExecuted' /\ ResponseIsFresh'
  BY <1>1, <1>2, NotIssuedType DEF Clean, SuccessMeansExecuted, ResponseIsFresh, Returned,
     NO_ERROR, INVALID_ARGS
<1> QED
  BY <1>1, <1>3, <1>4, <1>5 DEF IInv

LEMMA NextStep == IInv /\ (NextOpen \/ NextAddress) => IInv'
<1> SUFFICES ASSUME IInv, NextOpen \/ NextAddress PROVE IInv'
  OBVIOUS
<1>1. /\ UNCHANGED <<platform, target, cmd, calls, response, executed, outcome>>
      /\ phase # "caller" /\ platform = "next"
  BY DEF NextOpen, NextAddress, IInv, Flow
<1>2. TypeOK'
  BY <1>1 DEF NextOpen, NextAddress, Return, IInv, TypeOK, Flow, ReturnCodes, CMD_FAILED
<1>3. Flow'
  BY <1>1 DEF NextOpen, NextAddress, Return, IInv, Flow
<1>4. Clean' /\ SuccessMeansExecuted'
  BY <1>1 DEF NextOpen, NextAddress, Return, IInv, Clean, SuccessMeansExecuted, Returned,
     NO_ERROR, CMD_FAILED
<1>5. ResponseIsFresh'
  BY <1>1, NotIssuedType DEF NextOpen, NextAddress, Return, IInv, Clean, ResponseIsFresh,
     Returned, NO_ERROR, CMD_FAILED
<1> QED
  BY <1>1, <1>2, <1>3, <1>4, <1>5 DEF IInv

LEMMA IssueStep == IInv /\ Issue => IInv'
<1> SUFFICES ASSUME IInv, Issue PROVE IInv'
  OBVIOUS
<1>1. PICK o \in Outcomes :
        /\ outcome' = o
        /\ executed' = IF o.done THEN Append(executed, OnWire(platform, cmd)) ELSE executed
        /\ response' = [x \in Fields |->
                          IF x \in Told(platform, o) THEN calls ELSE response[x]]
        /\ phase' = "caller" /\ ret' = (IF o.good THEN NO_ERROR ELSE CMD_FAILED)
  BY DEF Issue, Return
<1>2. /\ phase = "issue" /\ UNCHANGED <<platform, target, cmd, calls>>
      /\ platform \in Platforms /\ platform \in Linked /\ cmd \in Commands
      /\ IsCommand(cmd) /\ ~Refused(platform, cmd)
      /\ calls \in 0..MaxCalls /\ MaxCalls \in Nat
  BY TransportAssumption DEF Issue, IInv, TypeOK, Flow, TransportAssumption
<1> DEFINE Wires == {OnWire(p, c) : p \in Linked, c \in Commands}
           w == OnWire(platform, cmd)
<1>3. w \in Wires
  BY <1>2
<1>4. executed \in Seq(Wires) /\ Len(executed) \in Nat
  BY LenProperties DEF IInv
<1> HIDE DEF Wires, w
<1>5. /\ executed' \in Seq(Wires)
      /\ Len(executed') <= Len(executed) + 1
      /\ o.done => executed' # <<>> /\ Last' = w
  <2>1. CASE ~o.done
    BY <1>1, <1>4, <2>1
  <2>2. CASE o.done
    <3>1. executed' = Append(executed, w)
      BY <1>1, <2>2 DEF w
    <3>2. /\ executed' \in Seq(Wires) /\ Len(executed') = Len(executed) + 1
          /\ executed'[Len(executed) + 1] = w
      BY <1>3, <1>4, <3>1, AppendProperties
    <3>3. executed' # <<>>
      BY <1>4, <3>2, EmptySeq
    <3> QED
      BY <3>2, <3>3 DEF Last
  <2> QED
    BY <2>1, <2>2, OutcomeType
<1>6. TypeOK'
  <2>1. response' \in [Fields -> 0..MaxCalls \cup {Garbage}]
    BY <1>1, <1>2 DEF IInv, TypeOK
  <2>2. handles' \in {0, 1}
    BY <1>2 DEF Issue, IInv, Flow
  <2>3. Len(executed') <= calls'
    BY <1>2, <1>4, <1>5, LenProperties DEF IInv, Flow
  <2> QED
    BY <1>1, <1>2, <2>1, <2>2, <2>3 DEF IInv, TypeOK, ReturnCodes, NO_ERROR, CMD_FAILED
<1>7. Flow'
  BY <1>1, <1>2 DEF Issue, IInv, Flow
<1>8. Clean'
  BY <1>1 DEF Clean
<1>9. SuccessMeansExecuted'
  <2>1. SUFFICES ASSUME ret' = NO_ERROR
                 PROVE  /\ executed' # <<>>
                        /\ Last'.op = cmd.op /\ Moves(Last'.data) = MovesAsked(cmd)
                        /\ platform # "next" => Last'.args = cmd.args
    BY <1>2 DEF SuccessMeansExecuted, MovesAsked, Moves
  <2>2. o.done
    BY <1>1, <2>1, OutcomeType DEF NO_ERROR, CMD_FAILED
  <2> QED
    BY <1>2, <1>5, <2>2, WireFaithful DEF w
<1>10. ResponseIsFresh'
  <2>1. SUFFICES ASSUME platform \in {"linux", "next"}
                 PROVE  /\ \A x \in Fields :
                             response'[x] \in IF ret' = NO_ERROR THEN {0} ELSE {0, calls}
                        /\ outcome'.ioctl /\ ~outcome'.good => response'["status"] = calls
    BY <1>2 DEF ResponseIsFresh
  <2>2. \A x \in Fields : response[x] = 0
    BY <1>2, <2>1 DEF IInv, Clean
  <2>3. o.good => Told(platform, o) = {}
    BY OutcomeType DEF Told
  <2>4. o.ioctl /\ ~o.good => "status" \in Told(platform, o)
    BY <2>1 DEF Told, Fields
  <2>5. "status" \in Fields
    BY DEF Fields
  <2> QED
    BY <1>1, <2>2, <2>3, <2>4, <2>5 DEF NO_ERROR, CMD_FAILED
<1> QED
  BY <1>2, <1>5, <1>6, <1>7, <1>8, <1>9, <1>10 DEF IInv, Wires

LEMMA Invariance == Spec => []IInv
<1>1. IInv /\ UNCHANGED vars => IInv'
  BY DEF vars, IInv, TypeOK, Flow, Clean, SuccessMeansExecuted, ResponseIsFresh, Returned,
     Last, Moves, MovesAsked
<1>2. IInv /\ [Next]_vars => IInv'
  BY <1>1, CallStep, NextStep, IssueStep DEF Next
<1> QED
  BY <1>2, InitIInv, PTL DEF Spec

\* The variables of scsi_cmd() keep their types for any number of calls.
THEOREM TypeCorrect == Spec => []TypeOK
<1>1. IInv => TypeOK
  BY DEF IInv
<1> QED
  BY <1>1, Invariance, PTL

\* However many calls are made, of whichever commands, no return of scsi_cmd()
\* leaves open the handle that was opened for the command.
THEOREM HandleClosedCorrect == Spec => []HandleClosed
<1>1. IInv => HandleClosed
  BY DEF IInv, Flow, HandleClosed
<1> QED
  BY <1>1, Invariance, PTL

\* Whatever command is well-formed, a call that returns 0 had it carried out as it
\* was asked for, but for the operands on NeXT.
THEOREM SuccessCorrect == Spec => []SuccessMeansExecuted
<1>1. IInv => SuccessMeansExecuted
  BY DEF IInv
<1> QED
  BY <1>1, Invariance, PTL

\* A response that is cleared tells of the last call alone, however many calls
\* went before.
THEOREM FreshCorrect == Spec => []ResponseIsFresh
<1>1. IInv => ResponseIsFresh
  BY DEF IInv
<1> QED
  BY <1>1, Invariance, PTL

-----------------------------------------------------------------------------
(* Transport implements Command: a call is one step for its caller.  The     *)
(* mapping is named part by part, so that the steps can be taken on the parts. *)

busyShown    == phase # "caller"
requestShown == Asked(platform, cmd)
doneShown    == [i \in DOMAIN executed |-> Seen(platform, executed[i])]
Possible     == {Asked(p, c) : p \in Linked, c \in Commands}
Refusals     == ReturnCodes \ {NO_ERROR}

LEMMA RequestPossible == TypeOK => requestShown \in Possible
  BY DEF TypeOK, requestShown, Possible

LEMMA RefinesInit == Init => Caller!Init
<1> SUFFICES ASSUME Init PROVE Caller!Init
  OBVIOUS
<1>1. busyShown = FALSE /\ requestShown \in Possible /\ ret = NO_ERROR
  BY DEF Init, busyShown, requestShown, Possible
<1>2. doneShown = <<>>
  BY DEF Init, doneShown
<1> QED
  BY <1>1, <1>2 DEF Caller!Init, busyShown, requestShown, Possible, doneShown

\* A command that is carried out adds what was asked for to what the caller sees.
LEMMA CarriedOut ==
    ASSUME IInv, phase = "issue", platform' = platform,
           executed' = Append(executed, OnWire(platform, cmd))
    PROVE  doneShown' = Append(doneShown, requestShown)
<1> DEFINE w == OnWire(platform, cmd)
           Wires == {OnWire(p, c) : p \in Linked, c \in Commands}
<1>1. platform \in Platforms /\ IsCommand(cmd) /\ ~Refused(platform, cmd) /\ w \in Wires
  BY TransportAssumption DEF IInv, TypeOK, Flow, TransportAssumption
<1>2. executed \in Seq(Wires)
  BY DEF IInv
<1>3. Seen(platform, w) = requestShown
  BY <1>1, WireFaithful DEF Seen, Asked, Known, requestShown
<1> HIDE DEF w, Wires
<1>4. /\ executed' = Append(executed, w) /\ Len(executed) \in Nat
      /\ DOMAIN executed = 1..Len(executed)
  BY <1>2, LenProperties DEF w
<1>5. /\ DOMAIN executed' = 1..(Len(executed) + 1)
      /\ executed'[Len(executed) + 1] = w
      /\ \A i \in 1..Len(executed) : executed'[i] = executed[i]
  BY <1>1, <1>2, <1>4, AppendProperties, LenProperties
<1>6. doneShown' = [i \in 1..(Len(executed) + 1) |-> Seen(platform, executed'[i])]
  BY <1>5 DEF doneShown, Seen
<1>7. doneShown = [i \in 1..Len(executed) |-> Seen(platform, executed[i])]
  BY <1>4 DEF doneShown
<1>8. Append(doneShown, requestShown) =
        [i \in 1..(Len(executed) + 1) |->
            IF i = Len(executed) + 1 THEN requestShown ELSE Seen(platform, executed[i])]
  BY <1>4, <1>7
<1> QED
  BY <1>3, <1>4, <1>5, <1>6, <1>8

LEMMA RefinesCall == IInv /\ Call => Caller!Call \/ Caller!Refuse
<1> SUFFICES ASSUME IInv, Call PROVE Caller!Call \/ Caller!Refuse
  OBVIOUS
<1>1. ~busyShown /\ UNCHANGED doneShown
  BY DEF Call, busyShown, doneShown, Seen, Known, Moves
<1>2. requestShown' \in Possible
  <2>1. platform' \in Linked /\ cmd' \in Commands
    BY DEF Call, IInv, TypeOK
  <2> QED
    BY <2>1 DEF requestShown, Possible, Asked
<1>3. CASE target
  <2>1. busyShown' = TRUE /\ ret' = ret
    BY <1>3 DEF Call, busyShown
  <2> QED
    BY <1>1, <1>2, <2>1
       DEF Caller!Call, busyShown, requestShown, doneShown, Possible
<1>4. CASE ~target
  <2>1. busyShown' = busyShown /\ ret' \in Refusals
    BY <1>4 DEF Call, Return, busyShown, Refusals, ReturnCodes, NO_ERROR, INVALID_ARGS
  <2> QED
    BY <1>1, <1>2, <2>1
       DEF Caller!Refuse, busyShown, requestShown, doneShown, Possible, Refusals
<1> QED
  BY <1>3, <1>4

LEMMA RefinesOpen == IInv /\ (NextOpen \/ NextAddress) => Caller!Fail \/ UNCHANGED Caller!vars
<1> SUFFICES ASSUME IInv, NextOpen \/ NextAddress
             PROVE  Caller!Fail \/ UNCHANGED Caller!vars
  OBVIOUS
<1>1. busyShown = TRUE /\ UNCHANGED <<requestShown, doneShown>>
  BY DEF NextOpen, NextAddress, busyShown, requestShown, doneShown, Seen, Asked, Known,
         Moves, MovesAsked
<1>2. \/ busyShown' = FALSE /\ ret' \in Refusals
      \/ busyShown' = TRUE /\ ret' = ret
  BY DEF NextOpen, NextAddress, Return, busyShown, Refusals, ReturnCodes, NO_ERROR, CMD_FAILED
<1> QED
  BY <1>1, <1>2
     DEF Caller!Fail, Caller!vars, busyShown, requestShown, doneShown, Refusals

LEMMA RefinesIssue == IInv /\ Issue => Caller!Succeed \/ Caller!Fail
<1> SUFFICES ASSUME IInv, Issue PROVE Caller!Succeed \/ Caller!Fail
  OBVIOUS
<1>1. PICK o \in Outcomes :
        /\ executed' = IF o.done THEN Append(executed, OnWire(platform, cmd)) ELSE executed
        /\ phase' = "caller" /\ ret' = (IF o.good THEN NO_ERROR ELSE CMD_FAILED)
  BY DEF Issue, Return
<1>2. /\ phase = "issue" /\ UNCHANGED <<platform, cmd>>
      /\ busyShown = TRUE /\ busyShown' = FALSE
  BY <1>1 DEF Issue, busyShown
<1>3. UNCHANGED requestShown
  BY <1>2 DEF requestShown, Asked, Known, MovesAsked
<1>4. doneShown' = IF o.done THEN Append(doneShown, requestShown) ELSE doneShown
  <2>1. CASE o.done
    BY <1>1, <1>2, <2>1, CarriedOut
  <2>2. CASE ~o.done
    BY <1>1, <1>2, <2>2 DEF doneShown, Seen, Known, Moves
  <2> QED
    BY <2>1, <2>2
<1>5. CASE o.good
  <2>1. ret' = NO_ERROR /\ doneShown' = Append(doneShown, requestShown)
    BY <1>1, <1>4, <1>5, OutcomeType
  <2> QED
    BY <1>2, <1>3, <2>1 DEF Caller!Succeed, busyShown, requestShown, doneShown
<1>6. CASE ~o.good
  <2>1. ret' \in Refusals /\ doneShown' \in {doneShown, Append(doneShown, requestShown)}
    BY <1>1, <1>4, <1>6 DEF Refusals, ReturnCodes, NO_ERROR, CMD_FAILED
  <2> QED
    BY <1>2, <1>3, <2>1 DEF Caller!Fail, busyShown, requestShown, doneShown, Refusals
<1> QED
  BY <1>5, <1>6

\* On every platform and for all well-formed commands, scsi_cmd() implements
\* Command: whatever fails on the way, the device carries out what was asked for
\* once after a success, at most once after a failure, and nothing else.
THEOREM RefinesCaller == Spec => CallerSpec
<1>1. UNCHANGED vars => UNCHANGED Caller!vars
  BY DEF vars, Caller!vars, Asked, Seen, Known, Moves, MovesAsked
<1>2. IInv /\ [Next]_vars => [Caller!Next]_(Caller!vars)
  BY <1>1, RefinesCall, RefinesOpen, RefinesIssue DEF Next, Caller!Next
<1> QED
  BY <1>2, RefinesInit, Invariance, PTL DEF Spec, CallerSpec, Caller!Spec
=============================================================================
