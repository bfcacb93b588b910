----------------------------- MODULE Discovery -----------------------------
(***************************************************************************)
(* get_scsi_device_list() of the four transports, with the scsi_open(),    *)
(* scsi_close() and scsi_inquiry() it calls: every SCSI target found is    *)
(* opened and asked for its toolbox capabilities; those that answer go     *)
(* into the device list, the others are closed again.                      *)
(*                                                                         *)
(* Any command, any open() or opendir(), and any malloc() may fail.  A     *)
(* SCSI_DEVICE, its handle and its list entry are identified by the        *)
(* position of its target on the bus.                                      *)
(***************************************************************************)
EXTENDS Scsi, FiniteSets

CONSTANTS Linked,      \* the platforms looked at
          Buses,       \* what may be attached: the targets in directory order
          Uninitialised \* what a byte of heap memory may hold

SCSI_FORMAT_UNIT   == 4
SCSI_REQUEST_SENSE == 3

\* A target: its SCSI id, whether it speaks the toolbox commands, whether Linux
\* has a scsi_generic node for it, whether Solaris' volume manager holds it.
Targets == [id : 0..15, toolbox : BOOLEAN, generic : BOOLEAN, busy : BOOLEAN]

ASSUME DiscoveryAssumption ==
    /\ Linked \subseteq Platforms
    /\ Buses \subseteq Seq(Targets)
    /\ Uninitialised \subseteq 0..255 /\ Uninitialised # {}

VARIABLES platform, bus,
          pc, ret,
          k,           \* the target being looked at
          id,          \* the id field of its SCSI_DEVICE
          inquired,    \* its INQUIRY data is filled in
          allocated,   \* targets with a SCSI_DEVICE
          opened,      \* targets with an open handle
          dirs,        \* open directories
          list,        \* the device list
          sent,        \* history: opcodes sent to the targets
          failures,    \* history: what has failed
          faulty       \* history: the targets at which it has

world == <<platform, bus>>
held  == <<allocated, opened>>
vars  == <<world, pc, ret, k, id, inquired, held, dirs, list, sent, failures, faulty>>

-----------------------------------------------------------------------------
(* Ids.  toolbox_cmd_list_devices() fills an array of eight types, indexed   *)
(* by the id of the device; the type of id n is represented by n.            *)

NoType == -1        \* the array was not filled in
OutOfArray == -2    \* what lies behind it

\* Mutant of TypeAt: an array of nine.
TypeAt_nine(n, filled) == IF n > 8 THEN OutOfArray ELSE IF filled THEN n ELSE NoType

TypeAt(n, filled) == IF n > 7 THEN OutOfArray ELSE IF filled THEN n ELSE NoType

\* Mutant of FirstDigit: the digit of the bus is taken.
FirstDigit_bus(n) == 0

\* IRIX and SunOS take one digit of the name of the device.
FirstDigit(n) == IF n > 9 THEN 1 ELSE n

\* SunOS looks at names whose character 7 is a 2: one digit for each number.
Skipped(t) == platform = "sunos" /\ t.id > 9

\* The id after scsi_open().  Linux has none before scsi_inquiry().
OpenedId(t) ==
    CASE platform \in {"sunos", "irix"} -> {FirstDigit(t.id)}
      [] platform = "next"              -> {t.id}
      [] platform = "linux"             -> Uninitialised

-----------------------------------------------------------------------------
Init ==
    /\ platform \in Linked
    /\ bus \in Buses
    /\ platform = "next" => \A i \in DOMAIN bus : bus[i].id <= 7
    /\ pc = "call" /\ ret = NO_ERROR
    /\ k = 0 /\ id = 0 /\ inquired = FALSE
    /\ allocated = {} /\ opened = {} /\ dirs = {}
    /\ list = <<>>
    /\ sent = {} /\ failures = {} /\ faulty = {}

\* Something fails, at one target or at none.
Failed(what, at) == failures' = failures \cup {what} /\ faulty' = faulty \cup at

Return(code) == pc' = "done" /\ ret' = code

\* The device directory; NeXT counts through the ids instead.
Call ==
    /\ pc = "call"
    /\ \/ platform # "next" /\ Return(CMD_FAILED) /\ Failed("opendir", {}) /\ UNCHANGED dirs
       \/ /\ pc' = "entry"
          /\ dirs' = IF platform = "next" THEN {} ELSE {"dev_dir"}
          /\ UNCHANGED <<ret, failures, faulty>>
    /\ UNCHANGED <<world, k, id, inquired, held, list, sent>>

\* The next target.  A SCSI device without a scsi_generic directory ends the
\* search on Linux.
Entry ==
    /\ pc = "entry"
    /\ IF k = Len(bus)
       THEN Return(NO_ERROR) /\ dirs' = dirs \ {"dev_dir"} /\ UNCHANGED <<k, failures, faulty>>
       ELSE /\ k' = k + 1
            /\ \/ Skipped(bus[k']) /\ UNCHANGED <<pc, ret, dirs, failures, faulty>>
               \/ /\ platform = "linux"
                  /\ ~bus[k'].generic
                  /\ Return(CMD_FAILED)
                  /\ Failed("scsi_generic", {k'})
                  /\ dirs' = dirs \ {"dev_dir"}
               \/ /\ ~Skipped(bus[k'])
                  /\ platform = "linux" => bus[k'].generic
                  /\ pc' = "open"
                  /\ dirs' = IF platform = "linux" THEN dirs \cup {"block_dir"} ELSE dirs
                  /\ UNCHANGED <<ret, failures, faulty>>
    /\ UNCHANGED <<world, id, inquired, held, list, sent>>

-----------------------------------------------------------------------------
(* scsi_open(). *)

\* On to the next target; Linux closes the directory it has opened for this one.
Continue == pc' = "entry" /\ dirs' = dirs \ {"block_dir"}

HasHandle == platform # "next"

\* It returns a SCSI_DEVICE.
Open ==
    /\ pc = "open"
    /\ ~(platform = "sunos" /\ bus[k].busy)
    /\ allocated' = allocated \cup {k}
    /\ opened' = IF HasHandle THEN opened \cup {k} ELSE opened
    /\ id' \in OpenedId(bus[k])
    /\ inquired' = FALSE
    /\ pc' = IF platform = "next" THEN "probe" ELSE "capabilities"
    /\ UNCHANGED <<world, ret, k, dirs, list, sent, failures, faulty>>

\* open() fails, and Linux frees the SCSI_DEVICE again.
OpenFails ==
    /\ pc = "open"
    /\ HasHandle
    /\ Continue
    /\ Failed("open", {k})
    /\ UNCHANGED <<world, ret, k, id, inquired, held, list, sent>>

\* malloc() fails.  SunOS and IRIX have opened the handle by then and leave it
\* open; NeXT uses the NULL to log that there is none.
MallocFails ==
    /\ pc = "open"
    /\ ~(platform = "sunos" /\ bus[k].busy)
    /\ Failed("malloc", {k})
    /\ opened' = IF platform \in {"sunos", "irix"} THEN opened \cup {k} ELSE opened
    /\ IF platform = "next" THEN pc' = "crashed" /\ UNCHANGED dirs ELSE Continue
    /\ UNCHANGED <<world, ret, k, id, inquired, allocated, list, sent>>

\* Solaris: a target that is busy is opened by its alias.  The directory of the
\* aliases is never closed.  If no alias matches, the handle stays -1.
OpenByAlias ==
    /\ pc = "open"
    /\ platform = "sunos" /\ bus[k].busy
    /\ dirs' \in {dirs, dirs \cup {"aliases"}}
    /\ \/ pc' = "entry" /\ Failed("open", {k}) /\ UNCHANGED <<id, inquired, held>>
       \/ /\ "aliases" \in dirs'
          /\ \E found \in BOOLEAN, memory \in BOOLEAN :
               /\ opened' = IF found THEN opened \cup {k} ELSE opened
               /\ allocated' = IF memory THEN allocated \cup {k} ELSE allocated
               /\ failures' = failures \cup (IF found THEN {} ELSE {"open"})
                                       \cup (IF memory THEN {} ELSE {"malloc"})
               /\ faulty' = IF found /\ memory THEN faulty ELSE faulty \cup {k}
               /\ pc' = IF memory THEN "capabilities" ELSE "entry"
          /\ id' \in OpenedId(bus[k])
          /\ inquired' = FALSE
    /\ UNCHANGED <<world, ret, k, list, sent>>

-----------------------------------------------------------------------------
(* The commands. *)

\* scsi_close().
CloseDevice == allocated' = allocated \ {k} /\ opened' = opened \ {k}

\* A command succeeds, if the target knows it and there is a handle; and any
\* command may fail.
CanSucceed(op) ==
    /\ HasHandle => k \in opened
    /\ op = TOOLBOX_SCSI_METADATA => bus[k].toolbox

Send(op) == sent' = sent \cup {op}

\* NeXT looks first whether there is a target at all.
Probe ==
    /\ pc = "probe"
    /\ Send(SCSI_FORMAT_UNIT)
    /\ \/ pc' = "capabilities" /\ UNCHANGED <<dirs, held, failures, faulty>>
       \/ Continue /\ CloseDevice /\ Failed("command", {k})
    /\ UNCHANGED <<world, ret, k, id, inquired, list>>

\* Mutant of Capabilities: a device that is not compatible stays open.
Capabilities_noClose ==
    /\ pc = "capabilities"
    /\ Send(TOOLBOX_SCSI_METADATA)
    /\ \/ /\ CanSucceed(TOOLBOX_SCSI_METADATA)
          /\ pc' = "inquiry"
          /\ UNCHANGED <<dirs, held, failures, faulty>>
       \/ /\ Continue
          /\ IF bus[k].toolbox THEN Failed("command", {k}) ELSE UNCHANGED <<failures, faulty>>
          /\ UNCHANGED held
    /\ UNCHANGED <<world, ret, k, id, inquired, list>>

\* Mutant of Capabilities: the first device that is not compatible is the last
\* one looked at.
Capabilities_last ==
    /\ pc = "capabilities"
    /\ Send(TOOLBOX_SCSI_METADATA)
    /\ \/ /\ CanSucceed(TOOLBOX_SCSI_METADATA)
          /\ pc' = "inquiry"
          /\ UNCHANGED <<k, dirs, held, failures, faulty>>
       \/ /\ Continue /\ CloseDevice
          /\ k' = Len(bus)
          /\ IF bus[k].toolbox THEN Failed("command", {k}) ELSE UNCHANGED <<failures, faulty>>
    /\ UNCHANGED <<world, ret, id, inquired, list>>

\* A target that does not answer is not compatible, and is closed.
Capabilities ==
    /\ pc = "capabilities"
    /\ Send(TOOLBOX_SCSI_METADATA)
    /\ \/ /\ CanSucceed(TOOLBOX_SCSI_METADATA)
          /\ pc' = "inquiry"
          /\ UNCHANGED <<dirs, held, failures, faulty>>
       \/ /\ Continue /\ CloseDevice
          /\ IF bus[k].toolbox THEN Failed("command", {k}) ELSE UNCHANGED <<failures, faulty>>
    /\ UNCHANGED <<world, ret, k, id, inquired, list>>

\* Mutant of Inquiry: a device that does not answer is closed, and listed.
Inquiry_closed ==
    /\ pc = "inquiry"
    /\ Send(INQUIRY)
    /\ \/ /\ CanSucceed(INQUIRY)
          /\ inquired' = TRUE
          /\ id' = IF platform = "linux" THEN bus[k].id ELSE id
          /\ pc' = "devices"
          /\ UNCHANGED <<dirs, held, failures, faulty>>
       \/ /\ Failed("command", {k}) /\ CloseDevice
          /\ IF platform = "next" THEN Continue ELSE pc' = "devices" /\ UNCHANGED dirs
          /\ UNCHANGED <<id, inquired>>
    /\ UNCHANGED <<world, ret, k, list>>

\* scsi_inquiry().  Linux learns the id from it.  NeXT alone looks at its result.
Inquiry ==
    /\ pc = "inquiry"
    /\ Send(INQUIRY)
    /\ \/ /\ CanSucceed(INQUIRY)
          /\ inquired' = TRUE
          /\ id' = IF platform = "linux" THEN bus[k].id ELSE id
          /\ pc' = "devices"
          /\ UNCHANGED <<dirs, held, failures, faulty>>
       \/ /\ Failed("command", {k})
          /\ IF platform = "next" THEN Continue /\ CloseDevice
             ELSE pc' = "devices" /\ UNCHANGED <<dirs, held>>
          /\ UNCHANGED <<id, inquired>>
    /\ UNCHANGED <<world, ret, k, list>>

Device(filled) == [target |-> k, id |-> id, inquired |-> inquired,
                   s2s_type |-> TypeAt(id, filled)]

\* toolbox_cmd_list_devices(), whose result nobody looks at, and the new entry.
\* The result of realloc() is not looked at either.
ListDevices ==
    /\ pc = "devices"
    /\ Send(TOOLBOX_SCSI_METADATA)
    /\ \/ /\ \E filled \in BOOLEAN :
                /\ filled => CanSucceed(TOOLBOX_SCSI_METADATA)
                /\ list' = Append(list, Device(filled))
                /\ IF filled THEN UNCHANGED <<failures, faulty>> ELSE Failed("command", {k})
          /\ Continue
       \/ pc' = "crashed" /\ Failed("malloc", {k}) /\ UNCHANGED <<dirs, list>>
    /\ UNCHANGED <<world, ret, k, id, inquired, held>>

Next == \/ Call \/ Entry \/ Open \/ OpenFails \/ MallocFails \/ OpenByAlias
        \/ Probe \/ Capabilities \/ Inquiry \/ ListDevices

Spec == Init /\ [][Next]_vars

-----------------------------------------------------------------------------
(* Properties. *)

Devices == [target : DOMAIN bus, id : 0..255, inquired : BOOLEAN,
            s2s_type : 0..7 \cup {NoType, OutOfArray}]

TypeOK ==
    /\ platform \in Linked /\ bus \in Buses
    /\ pc \in {"call", "entry", "open", "probe", "capabilities", "inquiry", "devices",
               "done", "crashed"}
    /\ ret \in ReturnCodes
    /\ k \in 0..Len(bus) /\ id \in 0..255 /\ inquired \in BOOLEAN
    /\ allocated \subseteq 1..k /\ opened \subseteq 1..k
    /\ dirs \subseteq {"dev_dir", "block_dir", "aliases"}
    /\ list \in Seq(Devices)
    /\ sent \subseteq {SCSI_FORMAT_UNIT, TOOLBOX_SCSI_METADATA, INQUIRY}
    /\ failures \subseteq {"opendir", "scsi_generic", "open", "malloc", "command"}
    /\ faulty \subseteq 1..k

Listed == {list[i].target : i \in DOMAIN list}

\* The targets that belong into the list.  (SunOS looks at ids of one digit only.)
Wanted == {t \in DOMAIN bus : bus[t].toolbox /\ (platform = "sunos" => bus[t].id <= 9)}

\* What fails at one target hides that one at most: a search that is not given up
\* lists every other target that speaks the toolbox commands, and no search lists
\* one that does not; each once, in the order of the bus.
FindsAll ==
    pc = "done" =>
        /\ Listed \subseteq Wanted
        /\ {"opendir", "scsi_generic"} \cap failures = {} => Wanted \ faulty \subseteq Listed
        /\ \A i, j \in DOMAIN list : i < j => list[i].target < list[j].target

\* Between two targets and at the end, whatever has failed, the SCSI_DEVICEs in
\* the list are all that are allocated and each has its handle open; no other
\* handle is, unless memory ran out; and no directory, but Solaris' aliases.
HeldIsListed ==
    pc \in {"entry", "done"} =>
        /\ allocated = Listed
        /\ HasHandle => Listed \subseteq opened
        /\ "malloc" \notin failures => opened \subseteq Listed
        /\ pc = "done" /\ "aliases" \notin dirs => dirs = {}

\* The id that the device of target t is given.
GivenIds(t, answered) ==
    CASE platform = "linux" /\ ~answered  -> Uninitialised
      [] platform = "irix" /\ t.id > 9    -> {1}
      [] OTHER                            -> {t.id}

\* A listed device has the id of its own target, with two exceptions: an id of two
\* digits is 1 on IRIX, and on Linux the id is what the memory held until an INQUIRY
\* is answered.  Its type is the one the array has for that id, or what lies behind
\* the array if the id is above 7.  It lacks its INQUIRY data or its type only if a
\* command has failed at its own target.
DescribedByOwnId ==
    \A i \in DOMAIN list :
        LET d == list[i]
        IN  /\ d.id \in GivenIds(bus[d.target], d.inquired)
            /\ d.s2s_type \in IF d.id > 7 THEN {OutOfArray} ELSE {d.id, NoType}
            /\ ~d.inquired \/ d.s2s_type = NoType => d.target \in faulty

\* A search is an inventory: whatever its steps do and undo at a target comes to
\* one step, that finds the target and holds it, or passes it and holds nothing.
Looking == pc \in {"open", "probe", "capabilities", "inquiry", "devices"}

\* The target of now is not through.
Now == IF Looking THEN {k} ELSE {}

InventoryStatus ==
    CASE pc = "crashed"                   -> "crashed"
      [] pc = "done" /\ ret = NO_ERROR    -> "complete"
      [] pc = "done" /\ ret # NO_ERROR    -> "given up"
      [] OTHER                            -> "looking"

\* The target at which the search crashes or is given up is not visited.
Stopped == InventoryStatus \in {"given up", "crashed"} /\ k > 0

Visited == IF Looking \/ Stopped THEN k - 1 ELSE k

FoundTargets == [i \in DOMAIN list |-> list[i].target]
HeldTargets  == IF pc = "crashed" THEN {} ELSE allocated \ Now

AnInventory == INSTANCE Inventory WITH
    last <- Len(bus), wanted <- Wanted,
    status <- InventoryStatus, visited <- Visited,
    found <- FoundTargets, held <- HeldTargets,
    faulty <- faulty \cap (1..Visited)

InventorySpec == AnInventory!Spec

-----------------------------------------------------------------------------
(* What a comment says, where the code does otherwise. *)

\* "send a request sense to determine if it is a valid device": discovery asks
\* targets, it makes none of them do anything.
ProbesOnlyRead ==
    sent \subseteq {SCSI_REQUEST_SENSE, INQUIRY, TOOLBOX_SCSI_METADATA}
=============================================================================
