-------------------------- MODULE DiscoveryProofs --------------------------
(***************************************************************************)
(* Proofs about Discovery, for every bus: the types, that what is held is  *)
(* what is listed, that the list is in order and lacks no target but those *)
(* at which something failed, that a listed device is described by its own *)
(* id, and that a search implements Inventory.                             *)
(***************************************************************************)
EXTENDS Discovery, SequenceTheorems, FiniteSetTheorems, TLAPS

Allocated == pc \in {"probe", "capabilities", "inquiry", "devices"}
Compatible == pc \in {"inquiry", "devices"}

\* The targets that are through.
Through == IF Looking THEN 1..(k - 1) ELSE 1..k

\* What is held by where the search is: what is listed, and the target of now.
Holding ==
    /\ pc = "call" => k = 0 /\ list = <<>> /\ allocated = {} /\ opened = {} /\ failures = {}
    /\ Looking => k \in 1..Len(bus) /\ ~Skipped(bus[k])
    /\ Listed \subseteq Through
    /\ pc # "crashed" =>
         /\ allocated = Listed \cup (IF Allocated THEN {k} ELSE {})
         /\ HasHandle => Listed \subseteq opened
         /\ "malloc" \notin failures =>
               opened \subseteq Listed \cup (IF Allocated THEN {k} ELSE {})
    /\ Compatible => bus[k].toolbox /\ (HasHandle => k \in opened)

Directories ==
    /\ platform # "linux" => "block_dir" \notin dirs
    /\ pc \in {"call", "done"} => dirs \subseteq {"aliases"}
    /\ pc = "entry" => "block_dir" \notin dirs

\* The list has none but the targets that belong into it, and of those that are
\* through every one at which nothing has failed.
Complete ==
    /\ Listed \subseteq Wanted
    /\ (Wanted \cap Through) \ faulty \subseteq Listed
    /\ failures = {} => faulty = {}
    /\ pc = "done" /\ {"opendir", "scsi_generic"} \cap failures = {} => k = Len(bus)
    /\ \A i, j \in DOMAIN list : i < j => list[i].target < list[j].target

\* The id of the SCSI_DEVICE of now, and its INQUIRY data.
OwnId ==
    /\ Allocated => id \in GivenIds(bus[k], inquired)
    /\ pc = "devices" /\ ~inquired => k \in faulty

IInv == TypeOK /\ Holding /\ Directories /\ Complete /\ OwnId /\ DescribedByOwnId

-----------------------------------------------------------------------------
LEMMA BusType ==
    ASSUME TypeOK
    PROVE  /\ bus \in Seq(Targets) /\ DOMAIN bus = 1..Len(bus) /\ Len(bus) \in Nat /\ k \in Nat
           /\ platform \in Platforms
           /\ \A i \in 1..Len(bus) : bus[i] \in Targets
           /\ \A i \in 1..Len(bus) : bus[i].id \in 0..15 /\ bus[i].toolbox \in BOOLEAN
<1>1. bus \in Seq(Targets) /\ platform \in Platforms
  BY DiscoveryAssumption DEF TypeOK, DiscoveryAssumption
<1>2. DOMAIN bus = 1..Len(bus) /\ Len(bus) \in Nat
  BY <1>1, LenProperties
<1>3. \A i \in 1..Len(bus) : bus[i] \in Targets
  BY <1>1, ElementOfSeq
<1>4. \A i \in 1..Len(bus) : bus[i].id \in 0..15 /\ bus[i].toolbox \in BOOLEAN
  BY <1>3 DEF Targets
<1> QED
  BY <1>1, <1>2, <1>3, <1>4 DEF TypeOK

\* A target that Solaris passes by is none that the search is to find.
LEMMA SkippedNotWanted ==
    ASSUME TypeOK, NEW n, Skipped(bus[n])
    PROVE  n \notin Wanted
<1> SUFFICES ASSUME n \in Wanted PROVE FALSE
  OBVIOUS
<1>1. n \in 1..Len(bus) /\ platform = "sunos" /\ bus[n].id <= 9 /\ bus[n].id > 9
  BY BusType DEF Wanted, Skipped
<1>2. bus[n].id \in 0..15
  BY <1>1, BusType
<1> QED
  BY <1>1, <1>2

LEMMA OpenedIdType ==
    ASSUME NEW t \in Targets, platform \in Platforms
    PROVE  /\ OpenedId(t) \subseteq 0..255
           /\ ~Skipped(t) => OpenedId(t) = GivenIds(t, FALSE)
<1>1. t.id \in 0..15
  BY DEF Targets
<1>2. /\ FirstDigit(t.id) \in 0..255
      /\ FirstDigit(t.id) = IF t.id > 9 THEN 1 ELSE t.id
  BY <1>1 DEF FirstDigit
<1>3. Uninitialised \subseteq 0..255
  BY DiscoveryAssumption DEF DiscoveryAssumption
<1>4. CASE platform \in {"sunos", "irix"}
  <2>1. OpenedId(t) = {FirstDigit(t.id)}
    BY <1>4 DEF OpenedId
  <2>2. ~Skipped(t) => {FirstDigit(t.id)} = GivenIds(t, FALSE)
    BY <1>2, <1>4 DEF Skipped, GivenIds
  <2> QED
    BY <1>2, <2>1, <2>2
<1>5. CASE platform = "next"
  <2>1. OpenedId(t) = {t.id}
    BY <1>5 DEF OpenedId
  <2> QED
    BY <1>1, <1>5, <2>1 DEF GivenIds
<1>6. CASE platform = "linux"
  <2>1. OpenedId(t) = Uninitialised
    BY <1>6 DEF OpenedId
  <2> QED
    BY <1>3, <1>6, <2>1 DEF GivenIds
<1> QED
  BY <1>4, <1>5, <1>6 DEF Platforms

LEMMA InitIInv == Init => IInv
<1> SUFFICES ASSUME Init PROVE IInv
  OBVIOUS
<1>1. bus \in Seq(Targets) /\ Len(bus) \in Nat
  BY DiscoveryAssumption, LenProperties DEF Init, DiscoveryAssumption
<1>2. list = <<>> /\ list \in Seq(Devices) /\ DOMAIN list = {} /\ Listed = {}
  BY EmptySeq DEF Init, Listed
<1>3. TypeOK
  <2>1. k \in 0..Len(bus) /\ id \in 0..255 /\ ret \in ReturnCodes
    BY <1>1 DEF Init, ReturnCodes
  <2> QED
    BY <1>2, <2>1 DEF Init, TypeOK
<1>4. Holding /\ Directories
  BY <1>2 DEF Init, Holding, Directories, Looking, Allocated, Compatible, Through
<1>5. Complete /\ OwnId /\ DescribedByOwnId
  BY <1>2 DEF Init, Complete, Wanted, Through, Looking, OwnId, Allocated, DescribedByOwnId
<1> QED
  BY <1>3, <1>4, <1>5 DEF IInv

-----------------------------------------------------------------------------
(* One lemma for each action. *)

LEMMA SameListType ==
    ASSUME IInv, UNCHANGED <<world, list>>
    PROVE  /\ platform' \in Linked /\ bus' \in Buses /\ list' \in Seq(Devices)'
           /\ Listed' = Listed /\ Wanted' = Wanted
           /\ (HasHandle' <=> HasHandle)
           /\ faulty \subseteq faulty' => DescribedByOwnId'
<1>1. /\ platform' \in Linked /\ bus' \in Buses /\ list' \in Seq(Devices)'
      /\ Listed' = Listed /\ Wanted' = Wanted
      /\ (HasHandle' <=> HasHandle)
  BY DEF IInv, world, TypeOK, Devices, Listed, Wanted, HasHandle
<1>2. faulty \subseteq faulty' => DescribedByOwnId'
  BY DEF IInv, world, GivenIds, DescribedByOwnId
<1> QED
  BY <1>1, <1>2

LEMMA CallStep == IInv /\ Call => IInv'
<1> SUFFICES ASSUME IInv, Call PROVE IInv'
  OBVIOUS
<1>1. UNCHANGED <<world, list>>
  BY DEF Call
<1>2. TypeOK'
  BY <1>1, SameListType, BusType DEF Call, IInv, TypeOK, world, Return, Failed, held,
     ReturnCodes, CMD_FAILED
<1>3. Holding'
  BY <1>1, SameListType DEF Call, IInv, world, Return, Failed, held, Holding, Looking,
     Allocated, Compatible, Through
<1>4. Directories'
  BY DEF Call, IInv, world, Return, Directories
<1>5. Complete'
  <2>1. Wanted' = Wanted /\ Through' = Through /\ k' = k
    BY DEF Call, world, Return, Wanted, Through, Looking
  <2> QED
    BY <1>1, <2>1, SameListType DEF Call, IInv, Return, Failed, Complete
<1>6. OwnId' /\ faulty \subseteq faulty'
  BY DEF Call, Return, Failed, OwnId, Allocated
<1> QED
  BY <1>1, <1>2, <1>3, <1>4, <1>5, <1>6, SameListType DEF IInv

LEMMA EntryStep == IInv /\ Entry => IInv'
<1> SUFFICES ASSUME IInv, Entry PROVE IInv'
  OBVIOUS
<1>1. UNCHANGED <<world, list, id, inquired, allocated, opened, sent>> /\ pc = "entry"
  BY DEF Entry, held
<1>2. /\ DOMAIN bus = 1..Len(bus) /\ Len(bus) \in Nat /\ k \in 0..Len(bus)
      /\ UNCHANGED <<platform, bus>>
      /\ \A i \in 1..Len(bus) : bus[i].id \in 0..15 /\ bus[i].toolbox \in BOOLEAN
  BY <1>1, BusType DEF IInv, world, TypeOK
<1>3. CASE k = Len(bus)
  <2>1. /\ pc' = "done" /\ ret' = NO_ERROR /\ dirs' = dirs \ {"dev_dir"}
        /\ UNCHANGED <<k, failures, faulty>>
    BY <1>3 DEF Entry, Return
  <2>2. TypeOK'
    BY <1>1, <1>2, <2>1, SameListType DEF IInv, TypeOK, ReturnCodes
  <2>3. Holding' /\ Directories' /\ OwnId'
    BY <1>1, <1>2, <2>1, SameListType DEF IInv, TypeOK, Holding, Directories, OwnId, Looking,
       Allocated, Compatible, Through
  <2>4. Complete'
    BY <1>1, <1>2, <1>3, <2>1, SameListType DEF IInv, Complete, Through, Looking
  <2> QED
    BY <1>1, <2>1, <2>2, <2>3, <2>4, SameListType DEF IInv
<1>4. CASE k # Len(bus)
  <2>1. /\ k' = k + 1 /\ k' \in 1..Len(bus)
        /\ \/ Skipped(bus[k']) /\ UNCHANGED <<pc, ret, dirs, failures, faulty>>
           \/ /\ pc' = "done" /\ ret' = CMD_FAILED
              /\ dirs' = dirs \ {"dev_dir"} /\ failures' = failures \cup {"scsi_generic"}
              /\ faulty' = faulty \cup {k'}
           \/ /\ ~Skipped(bus[k']) /\ pc' = "open"
              /\ dirs' = IF platform = "linux" THEN dirs \cup {"block_dir"} ELSE dirs
              /\ UNCHANGED <<ret, failures, faulty>>
    <3>1. k' = k + 1 /\ k' \in 1..Len(bus)
      <4>1. k' = k + 1
        BY <1>4, Zenon DEF Entry
      <4> QED
        <5>1. Len(bus) \in Nat /\ k \in 0..Len(bus)
          BY <1>2
        <5> QED
          BY <1>4, <4>1, <5>1
    <3> QED
      BY <1>4, <3>1, Zenon DEF Entry, Return, Failed
  <2>2. TypeOK'
    <3>1. /\ allocated' \subseteq 1..k' /\ opened' \subseteq 1..k'
          /\ faulty' \subseteq 1..k'
      <4>1. 1..k \subseteq 1..k' /\ k' \in 1..k'
        BY <1>2, <2>1
      <4> QED
        BY <1>1, <2>1, <4>1 DEF IInv, TypeOK
    <3>2. dirs' \subseteq {"dev_dir", "block_dir", "aliases"}
      BY <2>1 DEF IInv, TypeOK
    <3>3. failures' \subseteq {"opendir", "scsi_generic", "open", "malloc", "command"}
      BY <2>1 DEF IInv, TypeOK
    <3>4. k' \in 0..Len(bus') /\ id' \in 0..255 /\ inquired' \in BOOLEAN
      BY <1>1, <1>2, <2>1 DEF IInv, TypeOK
    <3>5. /\ ret' \in ReturnCodes /\ sent' = sent
          /\ pc' \in {"call", "entry", "open", "probe", "capabilities", "inquiry", "devices",
                      "done", "crashed"}
      BY <1>1, <2>1 DEF IInv, TypeOK, ReturnCodes, CMD_FAILED
    <3> QED
      BY <1>1, <3>1, <3>2, <3>3, <3>4, <3>5, SameListType DEF IInv, TypeOK
  <2>3. Holding'
    <3>1. Skipped(bus[k])' <=> Skipped(bus[k'])
      BY <1>2 DEF Skipped
    <3>2. Listed \subseteq 1..k /\ 1..k = 1..(k' - 1) /\ 1..k \subseteq 1..k'
      BY <1>1, <1>2, <2>1 DEF IInv, Holding, Through, Looking
    <3>3. failures' = failures \/ failures' = failures \cup {"scsi_generic"}
      BY <2>1
    <3> QED
      BY <1>1, <1>2, <2>1, <3>1, <3>2, <3>3, SameListType DEF IInv, Holding, Looking, Allocated,
         Compatible, Through, Skipped
  <2>4. Directories'
    BY <1>1, <1>2, <2>1 DEF IInv, TypeOK, Directories
  <2>5. Complete'
    <3>1. /\ Listed' \subseteq Wanted'
          /\ \A i, j \in DOMAIN list' : i < j => list'[i].target < list'[j].target
      BY <1>1, SameListType DEF IInv, Complete
    <3>2. /\ failures' = {} => faulty' = {}
          /\ ~(pc' = "done" /\ {"opendir", "scsi_generic"} \cap failures' = {})
      BY <1>1, <2>1 DEF IInv, Complete
    <3>3. (Wanted \cap (1..k)) \ faulty \subseteq Listed
      BY <1>1 DEF IInv, Complete, Through, Looking
    <3>4. (Wanted \cap Through') \ faulty' \subseteq Listed
      <4>1. \A i \in 1..k' : i \in 1..k \/ i = k'
        BY <1>2, <2>1
      <4>2. CASE pc' = "open"
        <5>1. Through' = 1..k
          BY <1>2, <2>1, <4>2 DEF Through, Looking
        <5> QED
          BY <1>1, <2>1, <3>3, <4>2, <5>1
      <4>3. CASE pc' = "done"
        BY <1>1, <2>1, <3>3, <4>1, <4>3 DEF Through, Looking
      <4>4. CASE Skipped(bus[k']) /\ pc' = pc /\ faulty' = faulty
        <5>1. k' \notin Wanted
          BY <1>2, <4>4, SkippedNotWanted DEF IInv
        <5> QED
          BY <1>1, <3>3, <4>1, <4>4, <5>1 DEF Through, Looking
      <4> QED
        BY <2>1, <4>2, <4>3, <4>4
    <3> QED
      BY <1>1, <3>1, <3>2, <3>4, SameListType DEF Complete
  <2>6. OwnId' /\ faulty \subseteq faulty'
    BY <1>1, <2>1 DEF OwnId, Allocated
  <2> QED
    BY <1>1, <2>2, <2>3, <2>4, <2>5, <2>6, SameListType DEF IInv
<1> QED
  BY <1>3, <1>4

\* What any way to open a target does.
Opening ==
    /\ pc' \in {"entry", "probe", "capabilities", "crashed"}
    /\ failures \subseteq failures'
    /\ failures' \subseteq failures \cup {"open", "malloc"}
    /\ faulty' \in {faulty, faulty \cup {k}}
    /\ pc' \in {"entry", "crashed"} => k \in faulty'
    /\ failures' = {} => faulty' = faulty
    /\ opened' \in {opened, opened \cup {k}}
    /\ allocated' = IF pc' \in {"probe", "capabilities"} THEN allocated \cup {k} ELSE allocated
    /\ opened' = opened \/ pc' \in {"probe", "capabilities"} \/ "malloc" \in failures'

LEMMA OpenDoes ==
    ASSUME Open \/ OpenFails \/ MallocFails \/ OpenByAlias
    PROVE  Opening
<1>1. CASE Open
  BY <1>1 DEF Open, Opening
<1>2. CASE OpenFails \/ MallocFails
  BY <1>2 DEF OpenFails, MallocFails, Continue, Failed, held, Opening
<1>3. CASE OpenByAlias
  BY <1>3 DEF OpenByAlias, Failed, held, Opening
<1> QED
  BY <1>1, <1>2, <1>3

LEMMA OpenStep == IInv /\ (Open \/ OpenFails \/ MallocFails \/ OpenByAlias) => IInv'
<1> SUFFICES ASSUME IInv, Open \/ OpenFails \/ MallocFails \/ OpenByAlias PROVE IInv'
  OBVIOUS
<1>1. UNCHANGED <<world, platform, bus, list, k, ret, sent>> /\ pc = "open"
  BY DEF Open, OpenFails, MallocFails, OpenByAlias, world
<1>2. /\ DOMAIN bus = 1..Len(bus) /\ Len(bus) \in Nat /\ k \in 1..Len(bus)
      /\ bus[k] \in Targets /\ bus[k].id \in 0..15 /\ platform \in Platforms
      /\ ~Skipped(bus[k])
  BY <1>1, BusType DEF IInv, Holding, Looking
<1>3. /\ Listed \subseteq 1..(k - 1) /\ 1..(k - 1) \subseteq 1..k /\ k \in 1..k
      /\ k \notin 1..(k - 1)
  BY <1>1, <1>2 DEF IInv, Holding, Looking, Through
<1>4. /\ allocated = Listed /\ (HasHandle => Listed \subseteq opened)
      /\ "malloc" \notin failures => opened \subseteq Listed
      /\ allocated \subseteq 1..k /\ opened \subseteq 1..k
  BY <1>1 DEF IInv, TypeOK, Holding, Allocated
<1>5. Opening
  BY OpenDoes
<1> USE DEF Opening
<1>6. TypeOK'
  <2>1. dirs' \subseteq {"dev_dir", "block_dir", "aliases"}
    BY DEF IInv, TypeOK, Open, OpenFails, MallocFails, OpenByAlias, Continue
  <2>2. id' \in 0..255 /\ inquired' \in BOOLEAN
    <3>1. id' \in OpenedId(bus[k]) \/ id' = id
      BY DEF Open, OpenFails, MallocFails, OpenByAlias, held
    <3>2. OpenedId(bus[k]) \subseteq 0..255
      BY <1>2, OpenedIdType
    <3>3. inquired' \in {inquired, FALSE}
      BY DEF Open, OpenFails, MallocFails, OpenByAlias, held
    <3> QED
      BY <3>1, <3>2, <3>3 DEF IInv, TypeOK
  <2>3. allocated' \subseteq 1..k /\ opened' \subseteq 1..k /\ faulty' \subseteq 1..k
    BY <1>3, <1>4, <1>5 DEF IInv, TypeOK
  <2>4. failures' \subseteq {"opendir", "scsi_generic", "open", "malloc", "command"}
    BY <1>5 DEF IInv, TypeOK
  <2> QED
    BY <1>1, <1>5, <2>1, <2>2, <2>3, <2>4, SameListType DEF IInv, TypeOK
<1>7. Holding'
  <2>1. Listed' \subseteq Through'
    BY <1>1, <1>3, <1>5, SameListType DEF Through, Looking
  <2>2. CASE pc' \in {"probe", "capabilities"}
    <3>1. allocated' = Listed \cup {k} /\ (HasHandle => Listed \subseteq opened')
      BY <1>4, <1>5, <2>2
    <3>2. "malloc" \notin failures' => opened' \subseteq Listed \cup {k}
      BY <1>4, <1>5
    <3> QED
      BY <1>1, <1>2, <2>1, <2>2, <3>1, <3>2, SameListType DEF Holding, Looking, Allocated,
         Compatible, Skipped
  <2>3. CASE pc' \in {"entry", "crashed"}
    <3>1. allocated' = Listed /\ (HasHandle => Listed \subseteq opened')
      BY <1>4, <1>5, <2>3
    <3>2. "malloc" \notin failures' => opened' \subseteq Listed
      BY <1>4, <1>5, <2>3
    <3> QED
      BY <1>1, <2>1, <2>3, <3>1, <3>2, SameListType DEF Holding, Looking, Allocated, Compatible
  <2> QED
    BY <1>5, <2>2, <2>3
<1>8. Directories'
  <2>1. CASE Open
    BY <1>1, <2>1 DEF Open, IInv, Directories
  <2>2. CASE OpenFails \/ MallocFails
    BY <1>1, <2>2 DEF OpenFails, MallocFails, Continue, IInv, Directories
  <2>3. CASE OpenByAlias
    BY <1>1, <2>3 DEF OpenByAlias, IInv, Directories
  <2> QED
    BY <2>1, <2>2, <2>3
<1>9. Complete'
  <2>1. /\ Listed' \subseteq Wanted'
        /\ \A i, j \in DOMAIN list' : i < j => list'[i].target < list'[j].target
        /\ failures' = {} => faulty' = {}
    BY <1>1, <1>5, SameListType DEF IInv, Complete
  <2>2. (Wanted \cap (1..(k - 1))) \ faulty \subseteq Listed
    BY <1>1 DEF IInv, Complete, Through, Looking
  <2>3. CASE pc' \in {"probe", "capabilities"}
    <3>1. Through' = 1..(k - 1)
      BY <1>1, <2>3 DEF Through, Looking
    <3> QED
      BY <1>1, <1>5, <2>1, <2>2, <2>3, <3>1, SameListType DEF Complete
  <2>4. CASE pc' \in {"entry", "crashed"}
    <3>1. Through' = 1..k
      BY <1>1, <2>4 DEF Through, Looking
    <3>2. \A i \in 1..k : i \in 1..(k - 1) \/ i = k
      BY <1>2
    <3> QED
      BY <1>1, <1>5, <2>1, <2>2, <2>4, <3>1, <3>2, SameListType DEF Complete
  <2> QED
    BY <1>5, <2>3, <2>4
<1>10. OwnId' /\ faulty \subseteq faulty'
  <2>1. CASE pc' \in {"probe", "capabilities"}
    <3>1. id' \in OpenedId(bus[k]) /\ inquired' = FALSE
      BY <1>1, <2>1 DEF Open, OpenFails, MallocFails, OpenByAlias, Continue
    <3>2. id' \in GivenIds(bus[k], FALSE)
      BY <1>2, <3>1, OpenedIdType
    <3>3. GivenIds(bus[k], FALSE) = GivenIds(bus[k], inquired)'
      BY <1>1, <3>1 DEF GivenIds
    <3> QED
      BY <1>5, <2>1, <3>2, <3>3 DEF OwnId
  <2>2. CASE pc' \in {"entry", "crashed"}
    BY <1>5, <2>2 DEF OwnId, Allocated
  <2> QED
    BY <1>5, <2>1, <2>2
<1> QED
  BY <1>1, <1>6, <1>7, <1>8, <1>9, <1>10, SameListType DEF IInv

\* After a command the target is closed, or it is looked at further.
Asking ==
    \/ /\ pc' = "entry" /\ dirs' = dirs \ {"block_dir"}
       /\ allocated' = allocated \ {k} /\ opened' = opened \ {k}
       /\ \/ failures' = failures \cup {"command"} /\ faulty' = faulty \cup {k}
          \/ ~bus[k].toolbox /\ UNCHANGED <<failures, faulty>>
    \/ /\ pc' \in {"capabilities", "inquiry", "devices"}
       /\ UNCHANGED <<dirs, allocated, opened>>
       /\ \/ failures' = failures \cup {"command"} /\ faulty' = faulty \cup {k}
          \/ UNCHANGED <<failures, faulty>>
       /\ pc' \in {"inquiry", "devices"} => bus[k].toolbox /\ (HasHandle => k \in opened)

LEMMA CommandDoes ==
    ASSUME IInv, Probe \/ Capabilities \/ Inquiry
    PROVE  Asking
<1>1. CASE Probe
  BY <1>1 DEF Probe, Continue, CloseDevice, Failed, held, Asking
<1>2. CASE Capabilities
  BY <1>2 DEF Capabilities, Continue, CloseDevice, Failed, held, CanSucceed, HasHandle, Asking
<1>3. CASE Inquiry
  <2>1. bus[k].toolbox /\ (HasHandle => k \in opened)
    BY <1>3 DEF Inquiry, IInv, Holding, Compatible
  <2> QED
    BY <1>3, <2>1 DEF Inquiry, Continue, CloseDevice, Failed, held, Asking
<1> QED
  BY <1>1, <1>2, <1>3

LEMMA CommandStep == IInv /\ (Probe \/ Capabilities \/ Inquiry) => IInv'
<1> SUFFICES ASSUME IInv, Probe \/ Capabilities \/ Inquiry PROVE IInv'
  OBVIOUS
<1>1. UNCHANGED <<world, platform, bus, list, k, ret>>
  BY DEF Probe, Capabilities, Inquiry, world
<1>2. /\ DOMAIN bus = 1..Len(bus) /\ Len(bus) \in Nat /\ k \in 1..Len(bus)
      /\ bus[k].id \in 0..15 /\ bus[k].toolbox \in BOOLEAN /\ ~Skipped(bus[k])
      /\ Looking /\ Allocated
  BY BusType DEF IInv, Holding, Looking, Allocated, Probe, Capabilities, Inquiry
<1>3. /\ Listed \subseteq 1..(k - 1) /\ 1..(k - 1) \subseteq 1..k /\ k \in 1..k
      /\ k \notin 1..(k - 1)
  BY <1>2 DEF IInv, Holding, Through
<1>4. /\ allocated = Listed \cup {k} /\ (HasHandle => Listed \subseteq opened)
      /\ "malloc" \notin failures => opened \subseteq Listed \cup {k}
      /\ allocated \subseteq 1..k /\ opened \subseteq 1..k
  BY <1>2 DEF IInv, TypeOK, Holding, Looking
<1>5. Asking
  BY CommandDoes
<1> USE DEF Asking
<1>6. TypeOK'
  <2>1. dirs' \subseteq {"dev_dir", "block_dir", "aliases"}
    BY <1>5 DEF IInv, TypeOK
  <2>2. id' \in 0..255 /\ inquired' \in BOOLEAN
    <3>1. id' \in {id, bus[k].id} /\ inquired' \in {inquired, TRUE}
      BY DEF Probe, Capabilities, Inquiry
    <3>2. bus[k].id \in 0..255 /\ id \in 0..255 /\ inquired \in BOOLEAN
      BY <1>2 DEF IInv, TypeOK
    <3> QED
      BY <3>1, <3>2
  <2>3. allocated' \subseteq 1..k /\ opened' \subseteq 1..k /\ faulty' \subseteq 1..k
    BY <1>3, <1>4, <1>5 DEF IInv, TypeOK
  <2>4. failures' \subseteq {"opendir", "scsi_generic", "open", "malloc", "command"}
    BY <1>5 DEF IInv, TypeOK
  <2>5. sent' \subseteq {SCSI_FORMAT_UNIT, TOOLBOX_SCSI_METADATA, INQUIRY}
    BY DEF IInv, TypeOK, Probe, Capabilities, Inquiry, Send
  <2>6. pc' \in {"call", "entry", "open", "probe", "capabilities", "inquiry", "devices", "done",
                "crashed"}
    BY <1>5
  <2> QED
    <3>1. TypeOK /\ platform' \in Linked /\ bus' \in Buses /\ list' \in Seq(Devices)'
      BY <1>1, SameListType DEF IInv
    <3> QED
      BY <1>1, <2>1, <2>2, <2>3, <2>4, <2>5, <2>6, <3>1 DEF TypeOK
<1>7. Holding'
  <2>1. CASE pc' = "entry"
    <3>1. /\ allocated' = Listed /\ (HasHandle => Listed \subseteq opened')
          /\ "malloc" \notin failures' => opened' \subseteq Listed
      BY <1>3, <1>4, <1>5, <2>1
    <3>2. Listed' \subseteq Through'
      BY <1>1, <1>3, <2>1, SameListType DEF Through, Looking
    <3> QED
      BY <1>1, <2>1, <3>1, <3>2, SameListType DEF Holding, Looking, Allocated, Compatible
  <2>2. CASE pc' \in {"capabilities", "inquiry", "devices"}
    <3>1. /\ allocated' = Listed \cup {k} /\ (HasHandle => Listed \subseteq opened')
          /\ "malloc" \notin failures' => opened' \subseteq Listed \cup {k}
      BY <1>4, <1>5, <2>2
    <3>2. Listed' \subseteq Through'
      BY <1>1, <1>3, <2>2, SameListType DEF Through, Looking
    <3>3. pc' \in {"inquiry", "devices"} => bus[k].toolbox /\ (HasHandle => k \in opened')
      BY <1>5, <2>2
    <3> QED
      BY <1>1, <1>2, <2>2, <3>1, <3>2, <3>3, SameListType DEF Holding, Looking, Allocated,
         Compatible, Skipped
  <2> QED
    BY <1>5, <2>1, <2>2
<1>8. Directories'
  BY <1>1, <1>5 DEF IInv, Directories
<1>9. Complete'
  <2>1. /\ Listed' \subseteq Wanted'
        /\ \A i, j \in DOMAIN list' : i < j => list'[i].target < list'[j].target
        /\ failures' = {} => faulty' = {}
    BY <1>1, <1>5, SameListType DEF IInv, Complete
  <2>2. (Wanted \cap (1..(k - 1))) \ faulty \subseteq Listed
    BY <1>2 DEF IInv, Complete, Through
  <2>3. CASE pc' = "entry"
    <3>1. Through' = 1..k /\ (k \in Wanted => k \in faulty')
      BY <1>1, <1>5, <2>3 DEF Through, Looking, Wanted
    <3>2. \A i \in 1..k : i \in 1..(k - 1) \/ i = k
      BY <1>2
    <3>3. faulty \subseteq faulty'
      BY <1>5
    <3> QED
      BY <1>1, <2>1, <2>2, <2>3, <3>1, <3>2, <3>3, SameListType DEF Complete
  <2>4. CASE pc' \in {"capabilities", "inquiry", "devices"}
    <3>1. Through' = 1..(k - 1) /\ faulty \subseteq faulty'
      BY <1>1, <1>5, <2>4 DEF Through, Looking
    <3> QED
      BY <1>1, <2>1, <2>2, <2>4, <3>1, SameListType DEF Complete
  <2> QED
    BY <1>5, <2>3, <2>4
<1>10. OwnId' /\ faulty \subseteq faulty'
  <2>1. id \in GivenIds(bus[k], inquired)
    BY <1>2 DEF IInv, OwnId
  <2>2. CASE Probe \/ Capabilities
    <3>1. UNCHANGED <<id, inquired>> /\ pc' # "devices"
      BY <2>2 DEF Probe, Capabilities, Continue
    <3>2. GivenIds(bus[k], inquired)' = GivenIds(bus[k], inquired)
      BY <1>1, <3>1 DEF GivenIds
    <3> QED
      BY <1>5, <2>1, <3>1, <3>2 DEF OwnId
  <2>3. CASE Inquiry
    <3>1. \/ UNCHANGED <<id, inquired>> /\ k \in faulty'
          \/ inquired' = TRUE /\ id' = IF platform = "linux" THEN bus[k].id ELSE id
      BY <2>3 DEF Inquiry, Failed
    <3>2. id' \in GivenIds(bus[k], inquired)'
      BY <1>1, <2>1, <3>1 DEF GivenIds
    <3> QED
      BY <1>1, <1>5, <3>1, <3>2 DEF OwnId
  <2> QED
    BY <1>5, <2>2, <2>3
<1> QED
  BY <1>1, <1>6, <1>7, <1>8, <1>9, <1>10, SameListType DEF IInv

\* The new entry of the list.
LEMMA DeviceType ==
    ASSUME TypeOK, k \in 1..Len(bus), NEW filled \in BOOLEAN
    PROVE  /\ Device(filled) \in Devices
           /\ Device(filled).target = k /\ Device(filled).id = id
           /\ Device(filled).inquired = inquired
           /\ Device(filled).s2s_type \in IF id > 7 THEN {OutOfArray} ELSE {id, NoType}
           /\ filled => Device(filled).s2s_type # NoType
<1>1. id \in 0..255 /\ inquired \in BOOLEAN /\ k \in DOMAIN bus
  BY BusType DEF TypeOK
<1>2. /\ TypeAt(id, filled) \in 0..7 \cup {NoType, OutOfArray}
      /\ TypeAt(id, filled) \in IF id > 7 THEN {OutOfArray} ELSE {id, NoType}
      /\ filled => TypeAt(id, filled) # NoType
  BY <1>1 DEF TypeAt, NoType, OutOfArray
<1> QED
  BY <1>1, <1>2 DEF Device, Devices

LEMMA ListDevicesStep == IInv /\ ListDevices => IInv'
<1> SUFFICES ASSUME IInv, ListDevices PROVE IInv'
  OBVIOUS
<1>1. /\ UNCHANGED <<world, platform, bus, k, ret, id, inquired, allocated, opened>>
      /\ pc = "devices" /\ sent' = sent \cup {TOOLBOX_SCSI_METADATA}
  BY DEF ListDevices, world, held, Send
<1>2. /\ DOMAIN bus = 1..Len(bus) /\ Len(bus) \in Nat /\ k \in 1..Len(bus)
      /\ bus[k].id \in 0..15 /\ bus[k].toolbox /\ ~Skipped(bus[k])
      /\ Looking /\ Allocated /\ (HasHandle => k \in opened)
  BY <1>1, BusType DEF IInv, Holding, Looking, Allocated, Compatible
<1>3. /\ Listed \subseteq 1..(k - 1) /\ 1..(k - 1) \subseteq 1..k /\ k \in 1..k
      /\ \A i \in 1..k : i \in 1..(k - 1) \/ i = k
  BY <1>2 DEF IInv, Holding, Through
<1>4. /\ allocated = Listed \cup {k} /\ (HasHandle => Listed \subseteq opened)
      /\ "malloc" \notin failures => opened \subseteq Listed \cup {k}
      /\ Directories /\ (HasHandle' <=> HasHandle)
  BY <1>1, <1>2 DEF IInv, Holding, Looking, HasHandle
<1>5. CASE /\ pc' = "crashed" /\ failures' = failures \cup {"malloc"}
           /\ faulty' = faulty \cup {k} /\ UNCHANGED <<dirs, list>>
  <2>0. faulty' \subseteq 1..k
    BY <1>3, <1>5 DEF IInv, TypeOK
  <2>1. TypeOK' /\ Directories'
    BY <1>1, <1>5, <2>0, SameListType DEF IInv, TypeOK, Directories
  <2>2. Listed' \subseteq Through'
    BY <1>1, <1>3, <1>5, SameListType DEF Through, Looking
  <2>3. Holding' /\ OwnId'
    BY <1>1, <1>5, <2>2, SameListType DEF IInv, Holding, OwnId, Looking, Allocated, Compatible
  <2>4. Complete'
    <3>1. (Wanted \cap (1..(k - 1))) \ faulty \subseteq Listed /\ Through' = 1..k
      BY <1>1, <1>2, <1>5 DEF IInv, Complete, Through, Looking
    <3> QED
      BY <1>1, <1>3, <1>5, <3>1, SameListType DEF IInv, Complete
  <2> QED
    BY <1>1, <1>5, <2>1, <2>3, <2>4, SameListType DEF IInv
<1>6. ASSUME NEW filled \in BOOLEAN,
             list' = Append(list, Device(filled)),
             failures' = IF filled THEN failures ELSE failures \cup {"command"},
             faulty' = IF filled THEN faulty ELSE faulty \cup {k},
             pc' = "entry", dirs' = dirs \ {"block_dir"}
      PROVE  IInv'
  <2> DEFINE new == Device(filled)
             n   == Len(list)
  <2>1. /\ new \in Devices /\ new.target = k /\ new.id = id /\ new.inquired = inquired
        /\ new.s2s_type \in IF id > 7 THEN {OutOfArray} ELSE {id, NoType}
        /\ filled => new.s2s_type # NoType
    BY <1>2, DeviceType DEF IInv
  <2>2. list \in Seq(Devices) /\ n \in Nat /\ DOMAIN list = 1..n
    BY LenProperties DEF IInv, TypeOK
  <2>3. list' = Append(list, new)
    BY <1>6
  <2>4. DOMAIN list' = 1..(n + 1) /\ list' \in Seq(Devices) /\ list'[n + 1] = new
        /\ \A i \in 1..n : list'[i] = list[i]
    <3> HIDE DEF new
    <3>1. /\ list' \in Seq(Devices) /\ Len(list') = n + 1 /\ list'[n + 1] = new
          /\ \A i \in 1..n : list'[i] = list[i]
      BY <2>1, <2>2, <2>3, AppendProperties
    <3> QED
      BY <3>1, LenProperties
  <2> HIDE DEF new, n
  <2>5. /\ n + 1 \in 1..(n + 1) /\ \A i \in 1..n : i \in 1..(n + 1)
        /\ \A i \in 1..(n + 1) : i \in 1..n \/ i = n + 1
    BY <2>2
  <2>6. Listed' = Listed \cup {k}
    BY <2>1, <2>2, <2>4, <2>5 DEF Listed
  <2>7. TypeOK'
    <3>1. Devices' = Devices
      BY <1>1 DEF Devices
    <3>2. /\ dirs' \subseteq {"dev_dir", "block_dir", "aliases"}
          /\ failures' \subseteq {"opendir", "scsi_generic", "open", "malloc", "command"}
          /\ sent' \subseteq {SCSI_FORMAT_UNIT, TOOLBOX_SCSI_METADATA, INQUIRY}
          /\ faulty' \subseteq 1..k
      BY <1>1, <1>3, <1>6 DEF IInv, TypeOK
    <3> QED
      BY <1>1, <1>6, <2>4, <3>1, <3>2 DEF IInv, TypeOK
  <2>8. Holding'
    <3>1. Listed' \subseteq Through'
      BY <1>1, <1>3, <1>6, <2>6 DEF Through, Looking
    <3>2. "malloc" \notin failures' => "malloc" \notin failures
      BY <1>6
    <3> QED
      BY <1>1, <1>2, <1>4, <1>6, <2>6, <3>1, <3>2 DEF Holding, Looking, Allocated, Compatible
  <2>9. Directories'
    BY <1>1, <1>4, <1>6 DEF Directories
  <2>10. Complete'
    <3>1. ASSUME NEW i \in DOMAIN list', NEW j \in DOMAIN list', i < j
          PROVE  list'[i].target < list'[j].target
      <4>1. i \in 1..n /\ (j \in 1..n \/ j = n + 1)
        BY <2>2, <2>4, <2>5, <3>1
      <4>2. CASE j \in 1..n
        BY <2>2, <2>4, <3>1, <4>1, <4>2 DEF IInv, Complete
      <4>3. CASE j = n + 1
        <5>1. list[i].target \in Listed
          BY <2>2, <4>1 DEF Listed
        <5>2. list[i].target \in 1..(k - 1)
          BY <1>3, <5>1
        <5> QED
          BY <1>2, <2>1, <2>4, <4>1, <4>3, <5>2
      <4> QED
        BY <4>1, <4>2, <4>3
    <3>2. Wanted' = Wanted /\ k \in Wanted
      BY <1>1, <1>2 DEF Wanted, Skipped
    <3>3. (Wanted \cap (1..(k - 1))) \ faulty \subseteq Listed /\ Listed \subseteq Wanted
      BY <1>2 DEF IInv, Complete, Through
    <3>4. Through' = 1..k /\ faulty \subseteq faulty'
      BY <1>1, <1>6 DEF Through, Looking
    <3>5. (Wanted \cap Through') \ faulty' \subseteq Listed' /\ Listed' \subseteq Wanted'
      BY <1>3, <2>6, <3>2, <3>3, <3>4
    <3>6. failures' = {} => faulty' = {}
      BY <1>6 DEF IInv, Complete
    <3> QED
      BY <1>6, <3>1, <3>2, <3>5, <3>6 DEF Complete
  <2>11. OwnId'
    BY <1>6 DEF OwnId, Allocated
  <2>12. DescribedByOwnId'
    <3>1. SUFFICES ASSUME NEW i \in 1..(n + 1)
                   PROVE  /\ list'[i].id \in GivenIds(bus[list'[i].target], list'[i].inquired)
                          /\ list'[i].s2s_type \in IF list'[i].id > 7 THEN {OutOfArray}
                                                   ELSE {list'[i].id, NoType}
                          /\ ~list'[i].inquired \/ list'[i].s2s_type = NoType =>
                                list'[i].target \in faulty'
      BY <1>1, <2>4 DEF DescribedByOwnId, GivenIds
    <3>2. CASE i \in 1..n
      <4>1. list'[i] = list[i] /\ i \in DOMAIN list
        BY <2>2, <2>4, <3>2
      <4>2. faulty \subseteq faulty'
        BY <1>6
      <4> QED
        BY <4>1, <4>2 DEF IInv, DescribedByOwnId
    <3>3. CASE i = n + 1
      <4>1. list'[i] = new
        BY <2>4, <3>3
      <4>2. id \in GivenIds(bus[k], inquired) /\ (~inquired => k \in faulty)
        BY <1>1, <1>2 DEF IInv, OwnId
      <4>3. faulty \subseteq faulty' /\ (filled \/ k \in faulty')
        BY <1>6
      <4> QED
        BY <2>1, <4>1, <4>2, <4>3
    <3> QED
      BY <2>5, <3>2, <3>3
  <2> QED
    BY <2>7, <2>8, <2>9, <2>10, <2>11, <2>12 DEF IInv
<1> QED
  BY <1>5, <1>6 DEF ListDevices, Continue, Failed

\* The list is never longer than the bus: its targets are all different.
LEMMA ListLength ==
    ASSUME IInv
    PROVE  Len(list) \in 0..Len(bus)
<1> DEFINE Target == [i \in 1..Len(list) |-> list[i].target]
<1>1. /\ list \in Seq(Devices) /\ Len(list) \in Nat /\ DOMAIN list = 1..Len(list)
      /\ DOMAIN bus = 1..Len(bus) /\ Len(bus) \in Nat
  BY BusType, LenProperties DEF IInv, TypeOK
<1>2. \A i \in 1..Len(list) : list[i].target \in 1..Len(bus)
  <2>1. \A i \in 1..Len(list) : list[i] \in Devices
    BY <1>1, ElementOfSeq
  <2> QED
    BY <1>1, <2>1 DEF Devices
<1>3. \A i, j \in 1..Len(list) : list[i].target = list[j].target => i = j
  <2> SUFFICES ASSUME NEW i \in 1..Len(list), NEW j \in 1..Len(list), i # j
               PROVE  list[i].target # list[j].target
    OBVIOUS
  <2>1. i < j \/ j < i
    BY <1>1
  <2>2. list[i].target < list[j].target \/ list[j].target < list[i].target
    BY <1>1, <2>1 DEF IInv, Complete
  <2>3. list[i].target \in Int /\ list[j].target \in Int
    BY <1>1, <1>2
  <2> QED
    BY <2>2, <2>3
<1>4. Target \in [1..Len(list) -> 1..Len(bus)]
  BY <1>2
<1>5. \A i, j \in 1..Len(list) : Target[i] = Target[j] => i = j
  BY <1>3
<1>6. /\ IsFiniteSet(1..Len(list)) /\ Cardinality(1..Len(list)) = Len(list)
      /\ IsFiniteSet(1..Len(bus)) /\ Cardinality(1..Len(bus)) = Len(bus)
  <2>1. ASSUME NEW n \in Nat PROVE IsFiniteSet(1..n) /\ Cardinality(1..n) = n
    <3>1. IsFiniteSet(1..n) /\ Cardinality(1..n) = IF 1 > n THEN 0 ELSE n - 1 + 1
      BY FS_Interval
    <3> QED
      BY <3>1
  <2> QED
    BY <1>1, <2>1
<1> HIDE DEF Target
<1>7. ~(Len(bus) < Len(list))
  <2> SUFFICES ASSUME Len(bus) < Len(list) PROVE FALSE
    OBVIOUS
  <2>1. Cardinality(1..Len(bus)) < Cardinality(1..Len(list))
    BY <1>6
  <2>2. \E i, j \in 1..Len(list) : i # j /\ Target[i] = Target[j]
    BY <1>4, <1>6, <2>1, FS_PigeonHole
  <2> QED
    BY <1>5, <2>2
<1> QED
  BY <1>1, <1>7

\* The end of a search.
LEMMA FindsAllHolds == IInv => FindsAll
<1> SUFFICES ASSUME IInv, pc = "done" PROVE FindsAll
  BY DEF FindsAll
<1>1. Through = 1..k /\ Wanted \subseteq 1..Len(bus)
  BY BusType DEF IInv, Through, Looking, Wanted
<1> QED
  BY <1>1 DEF IInv, Complete, FindsAll

LEMMA Stutters == IInv /\ UNCHANGED vars => IInv'
<1> SUFFICES ASSUME IInv, UNCHANGED vars PROVE IInv'
  OBVIOUS
<1>1. TypeOK' /\ Holding' /\ Directories' /\ Complete'
  BY DEF vars, world, held, IInv, TypeOK, Devices, Holding, Directories, Complete, Looking,
     Allocated, Compatible, Through, Wanted, Listed, HasHandle, Skipped
<1>2. OwnId'
  BY DEF vars, world, IInv, OwnId, GivenIds, Allocated
<1>3. DescribedByOwnId'
  <2>1. UNCHANGED <<world, list, faulty>>
    BY DEF vars
  <2> QED
    BY <2>1, SameListType
<1> QED
  BY <1>1, <1>2, <1>3 DEF IInv

LEMMA IInvStep == IInv /\ [Next]_vars => IInv'
  BY Stutters, CallStep, EntryStep, OpenStep, CommandStep, ListDevicesStep DEF Next

LEMMA Invariance == Spec => []IInv
  BY IInvStep, InitIInv, PTL DEF Spec

-----------------------------------------------------------------------------
(* The search as an inventory. *)

\* Where the search is, told by the place in the code.
LEMMA StatusIs ==
    /\ InventoryStatus = "looking" <=> pc \notin {"done", "crashed"}
    /\ pc = "done" => InventoryStatus = IF ret = NO_ERROR THEN "complete" ELSE "given up"
    /\ pc = "crashed" => InventoryStatus = "crashed"
  BY DEF InventoryStatus

LEMMA VisitedIs ==
    ASSUME TypeOK
    PROVE  /\ Looking => Visited = k - 1 /\ Now = {k}
           /\ pc \in {"call", "entry"} => Visited = k
           /\ pc = "done" /\ ret = NO_ERROR => Visited = k
           /\ pc = "crashed" \/ (pc = "done" /\ ret # NO_ERROR) =>
                 Visited = IF k > 0 THEN k - 1 ELSE k
           /\ ~Looking => Now = {}
  BY StatusIs DEF Visited, Looking, Stopped, Now

\* The same list finds the same.
LEMMA SameFound == list' = list => FoundTargets' = FoundTargets /\ Listed' = Listed
  BY DEF FoundTargets, Listed

\* A step that visits the target n, at which something may have failed.
LEMMA VisitStep ==
    ASSUME TypeOK, NEW n \in 1..Len(bus), UNCHANGED <<platform, bus>>,
           InventoryStatus = "looking", InventoryStatus' = "looking",
           Visited = n - 1, Visited' = n,
           faulty' \in {faulty, faulty \cup {n}}
    PROVE  /\ AnInventory!Visit
           /\ n \in faulty' => n \in (faulty \cap (1..Visited))'
<1>1. Len(bus) \in Nat /\ n \in Nat
  BY BusType
<1>2. \A i \in 1..n : i \in 1..(n - 1) \/ i = n
  BY <1>1
<1>3. \A i \in 1..(n - 1) : i \in 1..n /\ i # n
  BY <1>1
<1>4. n \in 1..n
  BY <1>1
<1>5. (faulty \cap (1..Visited))' = faulty' \cap (1..n)
  OBVIOUS
<1>6. (faulty \cap (1..Visited))' \in {faulty \cap (1..Visited),
                                       (faulty \cap (1..Visited)) \cup {n}}
  <2>1. CASE n \in faulty'
    BY <1>2, <1>3, <1>4, <1>5, <2>1
  <2>2. CASE n \notin faulty'
    BY <1>2, <1>3, <1>5, <2>2
  <2> QED
    BY <2>1, <2>2
<1>7. Len(bus)' = Len(bus) /\ Wanted' = Wanted
  BY DEF Wanted
<1>8. Visited < Len(bus) /\ Visited' = Visited + 1
  BY <1>1
<1> QED
  BY <1>4, <1>5, <1>6, <1>7, <1>8 DEF AnInventory!Visit

\* A step that the inventory does not see.
LEMMA Unseen ==
    ASSUME UNCHANGED <<platform, bus, list>>, InventoryStatus' = InventoryStatus,
           Visited' = Visited, HeldTargets' = HeldTargets,
           (faulty \cap (1..Visited))' = faulty \cap (1..Visited)
    PROVE  UNCHANGED AnInventory!invVars
<1>1. Len(bus)' = Len(bus) /\ Wanted' = Wanted /\ FoundTargets' = FoundTargets
  BY SameFound DEF Wanted
<1> QED
  BY <1>1 DEF AnInventory!invVars

LEMMA InitInventory == Init => AnInventory!Init
<1> SUFFICES ASSUME Init PROVE AnInventory!Init
  OBVIOUS
<1>1. TypeOK /\ pc = "call" /\ k = 0 /\ list = <<>> /\ allocated = {} /\ faulty = {}
  BY InitIInv DEF Init, IInv
<1>2. InventoryStatus = "looking" /\ Visited = 0
  BY <1>1, StatusIs, VisitedIs
<1>3. Len(bus) \in Nat /\ Wanted \subseteq 1..Len(bus)
  BY <1>1, BusType DEF Wanted
<1>4. FoundTargets = <<>> /\ HeldTargets = {} /\ faulty \cap (1..Visited) = {}
  BY <1>1 DEF FoundTargets, HeldTargets
<1> QED
  BY <1>2, <1>3, <1>4 DEF AnInventory!Init

\* The directory, and the end of the bus or of the search.
LEMMA CallInventory ==
    ASSUME IInv, IInv', Call
    PROVE  AnInventory!GiveUp \/ UNCHANGED AnInventory!invVars
<1>1. /\ pc = "call" /\ k = 0 /\ k' = 0
      /\ UNCHANGED <<platform, bus, list, allocated, faulty>>
      /\ \/ pc' = "done" /\ ret' = CMD_FAILED
         \/ pc' = "entry"
  BY DEF Call, IInv, Holding, world, held, Return, Failed
<1>2. Visited = 0 /\ Visited' = 0 /\ InventoryStatus = "looking"
  BY <1>1, StatusIs, VisitedIs, VisitedIs DEF IInv, Visited, Looking, Stopped
<1>3. HeldTargets' = HeldTargets
  BY <1>1 DEF HeldTargets, Now, Looking
<1>4. CASE pc' = "entry"
  <2>1. InventoryStatus' = "looking"
    BY <1>4 DEF InventoryStatus
  <2> QED
    BY <1>1, <1>2, <1>3, <2>1, Unseen
<1>5. CASE pc' = "done" /\ ret' = CMD_FAILED
  <2>1. InventoryStatus' = "given up"
    BY <1>5 DEF InventoryStatus, CMD_FAILED, NO_ERROR
  <2>2. Len(bus)' = Len(bus) /\ Wanted' = Wanted /\ FoundTargets' = FoundTargets
    BY <1>1, SameFound DEF Wanted
  <2> QED
    BY <1>1, <1>2, <1>3, <2>1, <2>2 DEF AnInventory!GiveUp
<1> QED
  BY <1>1, <1>4, <1>5

\* What is held of the targets that are through is what is listed.
LEMMA HeldIs ==
    /\ IInv /\ pc # "crashed" => HeldTargets = Listed
    /\ pc = "crashed" => HeldTargets = {}
<1>1. pc = "crashed" => HeldTargets = {}
  BY DEF HeldTargets
<1>2. ASSUME IInv, pc # "crashed" PROVE HeldTargets = Listed
  <2>1. allocated = Listed \cup (IF Allocated THEN {k} ELSE {}) /\ Listed \subseteq Through
    BY <1>2 DEF IInv, Holding
  <2>2. CASE Looking
    <3>1. k \notin Through /\ Now = {k}
      BY <1>2, <2>2, BusType DEF IInv, Through, Now
    <3> QED
      BY <1>2, <2>1, <3>1 DEF HeldTargets
  <2>3. CASE ~Looking
    BY <1>2, <2>1, <2>3 DEF HeldTargets, Now, Looking, Allocated
  <2> QED
    BY <2>2, <2>3
<1> QED
  BY <1>1, <1>2

LEMMA NextHeldIs ==
   (/\ IInv /\ pc # "crashed" => HeldTargets = Listed
    /\ pc = "crashed" => HeldTargets = {})'
  BY HeldIs, PTL

LEMMA NextStatusIs ==
   (/\ InventoryStatus = "looking" <=> pc \notin {"done", "crashed"}
    /\ pc = "done" => InventoryStatus = IF ret = NO_ERROR THEN "complete" ELSE "given up"
    /\ pc = "crashed" => InventoryStatus = "crashed")'
  BY StatusIs, PTL

\* The target of now is passed: it is not in the list, and need not be.
LEMMA PassStep ==
    ASSUME IInv, IInv', NEW n \in 1..Len(bus), UNCHANGED <<platform, bus, list>>,
           pc \in {"entry", "open", "probe", "capabilities", "inquiry"}, pc' = "entry",
           Visited = n - 1, Visited' = n,
           faulty' \in {faulty, faulty \cup {n}}, n \in Wanted => n \in faulty'
    PROVE  AnInventory!Pass
<1>1. InventoryStatus = "looking" /\ InventoryStatus' = "looking"
  BY StatusIs, NextStatusIs
<1>2. HeldTargets = Listed /\ HeldTargets' = Listed' /\ Listed' = Listed
  BY HeldIs, NextHeldIs, SameFound
<1>3. FoundTargets' = FoundTargets /\ Wanted' = Wanted
  BY SameFound DEF Wanted
<1>4. UNCHANGED <<platform, bus>>
  OBVIOUS
<1>5. AnInventory!Visit /\ (n \in faulty' => n \in (faulty \cap (1..Visited))')
  BY <1>1, <1>4, VisitStep DEF IInv
<1> QED
  BY <1>2, <1>3, <1>5 DEF AnInventory!Pass

LEMMA EntryInventory ==
    ASSUME IInv, IInv', Entry
    PROVE  AnInventory!Next \/ UNCHANGED AnInventory!invVars
<1>1. UNCHANGED <<platform, bus, list, allocated>> /\ pc = "entry"
  BY DEF Entry, world, held
<1>2. /\ Visited = k /\ InventoryStatus = "looking" /\ k \in 0..Len(bus) /\ Len(bus) \in Nat
      /\ HeldTargets = Listed /\ faulty \subseteq 1..k
  BY <1>1, StatusIs, VisitedIs, HeldIs, BusType DEF IInv, TypeOK
<1>3. Len(bus)' = Len(bus) /\ Wanted' = Wanted /\ FoundTargets' = FoundTargets /\ Listed' = Listed
  BY <1>1, SameFound DEF Wanted
<1>4. CASE k = Len(bus)
  <2>1. pc' = "done" /\ ret' = NO_ERROR /\ k' = k /\ faulty' = faulty
    BY <1>4 DEF Entry, Return
  <2>2. InventoryStatus' = "complete" /\ Visited' = k
    BY <2>1, NextStatusIs DEF Visited, Looking, Stopped
  <2>3. HeldTargets' = HeldTargets
    BY <1>2, <1>3, <2>1, NextHeldIs
  <2>4. AnInventory!Complete
    BY <1>2, <1>3, <1>4, <2>1, <2>2, <2>3 DEF AnInventory!Complete
  <2> QED
    BY <2>4 DEF AnInventory!Next
<1>5. CASE k # Len(bus)
  <2>1. k' = k + 1 /\ k' \in 1..Len(bus) /\ k' - 1 = k /\ k' > 0
    BY <1>2, <1>5 DEF Entry
  <2>2. CASE Skipped(bus[k']) /\ UNCHANGED <<pc, faulty>>
    <3>1. k' \notin Wanted
      BY <2>1, <2>2, SkippedNotWanted DEF IInv
    <3>2. Visited' = k'
      BY <1>1, <2>2 DEF Visited, Looking, Stopped, InventoryStatus
    <3>3. AnInventory!Pass
      BY <1>1, <1>2, <2>1, <2>2, <3>1, <3>2, PassStep
    <3> QED
      BY <3>3 DEF AnInventory!Next
  <2>3. CASE pc' = "done" /\ ret' = CMD_FAILED /\ faulty' = faulty \cup {k'}
    <3>1. InventoryStatus' = "given up"
      BY <2>3 DEF InventoryStatus, CMD_FAILED, NO_ERROR
    <3>2. Visited' = k
      BY <2>1, <3>1 DEF Visited, Stopped
    <3>3. (faulty \cap (1..Visited))' = faulty \cap (1..Visited)
      <4>1. k' \notin 1..k
        BY <1>2, <2>1
      <4> QED
        BY <1>2, <2>3, <3>2, <4>1
    <3>4. HeldTargets' = HeldTargets
      BY <1>2, <1>3, <2>3, NextHeldIs
    <3>5. AnInventory!GiveUp
      BY <1>2, <1>3, <3>1, <3>2, <3>3, <3>4 DEF AnInventory!GiveUp
    <3> QED
      BY <3>5 DEF AnInventory!Next
  <2>4. CASE pc' = "open" /\ UNCHANGED faulty
    <3>1. InventoryStatus' = "looking" /\ Visited' = k
      BY <2>1, <2>4, NextStatusIs DEF Visited, Looking
    <3>2. HeldTargets' = HeldTargets
      BY <1>2, <1>3, <2>4, NextHeldIs
    <3> QED
      BY <1>1, <1>2, <2>4, <3>1, <3>2, Unseen
  <2> QED
    BY <1>5, <2>2, <2>3, <2>4 DEF Entry, Return, Failed
<1> QED
  BY <1>4, <1>5

\* What goes on at one target.
LEMMA OpenInventory ==
    ASSUME IInv, IInv', Open \/ OpenFails \/ MallocFails \/ OpenByAlias
    PROVE  AnInventory!Next \/ UNCHANGED AnInventory!invVars
<1>1. UNCHANGED <<platform, bus, list, k>> /\ pc = "open"
  BY DEF Open, OpenFails, MallocFails, OpenByAlias, world
<1>2. Opening
  BY OpenDoes
<1>3. /\ k \in 1..Len(bus) /\ k \in Nat /\ k > 0 /\ Len(bus) \in Nat
      /\ Visited = k - 1 /\ InventoryStatus = "looking" /\ HeldTargets = Listed
      /\ faulty \subseteq 1..k
  BY <1>1, StatusIs, VisitedIs, HeldIs, BusType DEF IInv, TypeOK, Holding, Looking
<1>4. Len(bus)' = Len(bus) /\ Wanted' = Wanted /\ FoundTargets' = FoundTargets /\ Listed' = Listed
  BY <1>1, SameFound DEF Wanted
<1>5. (faulty' \cap (1..(k - 1))) = faulty \cap (1..(k - 1))
  <2>1. k \notin 1..(k - 1)
    BY <1>3
  <2> QED
    BY <1>2, <2>1 DEF Opening
<1>6. CASE pc' = "entry"
  <2>1. Visited' = k
    BY <1>1, <1>6 DEF Visited, Looking, Stopped, InventoryStatus
  <2>2. AnInventory!Pass
    BY <1>1, <1>2, <1>3, <1>6, <2>1, PassStep DEF Opening
  <2> QED
    BY <2>2 DEF AnInventory!Next
<1>7. CASE pc' \in {"probe", "capabilities"}
  <2>1. InventoryStatus' = "looking" /\ Visited' = k - 1
    BY <1>1, <1>7, NextStatusIs DEF Visited, Looking
  <2>2. HeldTargets' = HeldTargets
    BY <1>3, <1>4, <1>7, NextHeldIs
  <2>3. (faulty \cap (1..Visited))' = faulty \cap (1..Visited)
    BY <1>3, <1>5, <2>1
  <2> QED
    BY <1>1, <1>3, <2>1, <2>2, <2>3, Unseen
<1>8. CASE pc' = "crashed"
  <2>1. InventoryStatus' = "crashed" /\ Visited' = k - 1
    BY <1>1, <1>3, <1>8, NextStatusIs DEF Visited, Looking, Stopped
  <2>2. HeldTargets' = {}
    BY <1>8, NextHeldIs
  <2>3. (faulty \cap (1..Visited))' = faulty \cap (1..Visited)
    BY <1>3, <1>5, <2>1
  <2>4. AnInventory!Crash
    BY <1>3, <1>4, <2>1, <2>2, <2>3 DEF AnInventory!Crash
  <2> QED
    BY <2>4 DEF AnInventory!Next
<1> QED
  BY <1>2, <1>6, <1>7, <1>8 DEF Opening

LEMMA CommandInventory ==
    ASSUME IInv, IInv', Probe \/ Capabilities \/ Inquiry
    PROVE  AnInventory!Next \/ UNCHANGED AnInventory!invVars
<1>1. UNCHANGED <<platform, bus, list, k>> /\ pc \in {"probe", "capabilities", "inquiry"}
  BY DEF Probe, Capabilities, Inquiry, world
<1>2. Asking
  BY CommandDoes
<1>3. /\ k \in 1..Len(bus) /\ k \in Nat /\ k > 0 /\ Len(bus) \in Nat
      /\ Visited = k - 1 /\ InventoryStatus = "looking" /\ HeldTargets = Listed
      /\ faulty' \in {faulty, faulty \cup {k}}
  <2>1. faulty' \in {faulty, faulty \cup {k}}
    BY <1>2 DEF Asking
  <2>2. Looking
    BY <1>1 DEF Looking
  <2> QED
    <3>1. k \in 1..Len(bus) /\ Len(bus) \in Nat
      BY <2>2, BusType DEF IInv, Holding
    <3>2. Visited = k - 1 /\ InventoryStatus = "looking" /\ HeldTargets = Listed
      BY <1>1, <2>2, StatusIs, VisitedIs, HeldIs DEF IInv
    <3> QED
      BY <2>1, <3>1, <3>2
<1>4. Listed' = Listed
  BY <1>1, SameFound
<1>5. CASE pc' = "entry"
  <2>1. Visited' = k
    BY <1>1, <1>5 DEF Visited, Looking, Stopped, InventoryStatus
  <2>2. k \in Wanted => k \in faulty'
    BY <1>2, <1>5 DEF Asking, Wanted
  <2>3. AnInventory!Pass
    BY <1>1, <1>3, <1>5, <2>1, <2>2, PassStep
  <2> QED
    BY <2>3 DEF AnInventory!Next
<1>6. CASE pc' \in {"capabilities", "inquiry", "devices"}
  <2>1. InventoryStatus' = "looking" /\ Visited' = k - 1
    BY <1>1, <1>6, NextStatusIs DEF Visited, Looking
  <2>2. HeldTargets' = HeldTargets
    BY <1>3, <1>4, <1>6, NextHeldIs
  <2>3. (faulty \cap (1..Visited))' = faulty \cap (1..Visited)
    <3>1. k \notin 1..(k - 1)
      BY <1>3
    <3> QED
      BY <1>3, <2>1, <3>1
  <2> QED
    BY <1>1, <1>3, <2>1, <2>2, <2>3, Unseen
<1> QED
  BY <1>2, <1>5, <1>6 DEF Asking

LEMMA ListDevicesInventory ==
    ASSUME IInv, IInv', ListDevices
    PROVE  AnInventory!Next
<1>1. UNCHANGED <<platform, bus, k>> /\ pc = "devices"
  BY DEF ListDevices, world
<1>2. /\ k \in 1..Len(bus) /\ k \in Nat /\ k > 0 /\ Len(bus) \in Nat
      /\ Visited = k - 1 /\ InventoryStatus = "looking" /\ HeldTargets = Listed
      /\ bus[k].toolbox /\ ~Skipped(bus[k])
  BY <1>1, StatusIs, VisitedIs, HeldIs, BusType DEF IInv, Holding, Looking, Compatible
<1>3. Len(bus)' = Len(bus) /\ Wanted' = Wanted
  BY <1>1 DEF Wanted
<1>4. ASSUME NEW filled \in BOOLEAN, list' = Append(list, Device(filled)),
             faulty' \in {faulty, faulty \cup {k}}, pc' = "entry"
      PROVE  AnInventory!Find
  <2> DEFINE new == Device(filled)
             n   == Len(list)
  <2>1. list \in Seq(Devices) /\ new \in Devices /\ new.target = k
    BY <1>2, DeviceType DEF IInv, TypeOK
  <2>2. list' = Append(list, new)
    BY <1>4
  <2> HIDE DEF new
  <2>3. /\ Len(list') = n + 1 /\ list'[n + 1] = new /\ n \in Nat
        /\ \A i \in 1..n : list'[i] = list[i]
        /\ DOMAIN list = 1..n /\ DOMAIN list' = 1..(n + 1)
    BY <2>1, <2>2, AppendProperties, LenProperties
  <2>4. FoundTargets \in Seq(Nat) /\ Len(FoundTargets) = n
    <3>1. \A i \in 1..n : list[i].target \in Nat
      <4>1. \A i \in 1..n : list[i] \in Devices
        BY <2>1, <2>3, ElementOfSeq
      <4> QED
        BY <4>1, BusType DEF Devices, IInv
    <3>2. FoundTargets = [i \in 1..n |-> list[i].target]
      BY <2>3 DEF FoundTargets
    <3> QED
      BY <2>3, <3>1, <3>2
  <2>5. FoundTargets' = Append(FoundTargets, k)
    <3>1. FoundTargets' = [i \in 1..(n + 1) |-> list'[i].target]
      BY <2>3 DEF FoundTargets
    <3>2. FoundTargets = [i \in 1..n |-> list[i].target]
      BY <2>3 DEF FoundTargets
    <3>3. Append(FoundTargets, k) =
            [i \in 1..(n + 1) |-> IF i = n + 1 THEN k ELSE FoundTargets[i]]
      <4>1. k \in Nat
        BY <1>2
      <4>2. /\ Append(FoundTargets, k) \in Seq(Nat)
            /\ Len(Append(FoundTargets, k)) = n + 1
            /\ \A i \in 1..n : Append(FoundTargets, k)[i] = FoundTargets[i]
            /\ Append(FoundTargets, k)[n + 1] = k
        BY <2>4, <4>1, AppendProperties
      <4>3. Append(FoundTargets, k) = [i \in 1..(n + 1) |-> Append(FoundTargets, k)[i]]
        BY <4>2, LenProperties
      <4>4. \A i \in 1..(n + 1) : (i = n + 1 /\ i \notin 1..n) \/ (i \in 1..n /\ i # n + 1)
        BY <2>3
      <4>5. \A i \in 1..(n + 1) :
              Append(FoundTargets, k)[i] = IF i = n + 1 THEN k ELSE FoundTargets[i]
        BY <4>2, <4>4
      <4> QED
        BY <4>3, <4>5
    <3>4. \A i \in 1..(n + 1) : i \in 1..n \/ i = n + 1
      BY <2>3
    <3>5. n + 1 \notin 1..n
      BY <2>3
    <3>6. \A i \in 1..(n + 1) :
            list'[i].target = IF i = n + 1 THEN k ELSE FoundTargets[i]
      BY <2>1, <2>3, <3>2, <3>4, <3>5
    <3> QED
      BY <3>1, <3>3, <3>6
  <2>6. Listed' = Listed \cup {k}
    <3>1. Listed' = {list'[i].target : i \in 1..(n + 1)} /\ Listed = {list[i].target : i \in 1..n}
      BY <2>3 DEF Listed
    <3>2. \A i \in 1..(n + 1) : i \in 1..n \/ i = n + 1
      BY <2>3
    <3>3. n + 1 \in 1..(n + 1) /\ \A i \in 1..n : i \in 1..(n + 1)
      BY <2>3
    <3>4. \A i \in 1..n : list'[i].target = list[i].target
      BY <2>3
    <3>5. list'[n + 1].target = k
      BY <2>1, <2>3
    <3> QED
      BY <3>1, <3>2, <3>3, <3>4, <3>5
  <2>7. HeldTargets' = HeldTargets \cup {k}
    BY <1>2, <1>4, <2>6, NextHeldIs
  <2>8. InventoryStatus' = "looking" /\ Visited' = k
    BY <1>1, <1>4, NextStatusIs DEF Visited, Looking, Stopped
  <2>9. k \in Wanted
    BY <1>2, BusType DEF IInv, Wanted, Skipped, Targets
  <2>10. AnInventory!Visit
    BY <1>1, <1>2, <1>4, <2>8, VisitStep DEF IInv
  <2> QED
    BY <1>3, <2>5, <2>7, <2>8, <2>9, <2>10 DEF AnInventory!Find
<1>5. CASE pc' = "crashed" /\ list' = list /\ faulty' = faulty \cup {k}
  <2>1. InventoryStatus' = "crashed" /\ Visited' = k - 1
    BY <1>1, <1>2, <1>5, NextStatusIs DEF Visited, Looking, Stopped
  <2>2. HeldTargets' = {} /\ FoundTargets' = FoundTargets
    BY <1>5, NextHeldIs, SameFound
  <2>3. (faulty \cap (1..Visited))' = faulty \cap (1..Visited)
    <3>1. k \notin 1..(k - 1)
      BY <1>2
    <3> QED
      BY <1>2, <1>5, <2>1, <3>1
  <2>4. AnInventory!Crash
    BY <1>2, <1>3, <2>1, <2>2, <2>3 DEF AnInventory!Crash
  <2> QED
    BY <2>4 DEF AnInventory!Next
<1> QED
  BY <1>4, <1>5 DEF ListDevices, Failed, Continue, AnInventory!Next

LEMMA StutterInventory ==
    ASSUME UNCHANGED vars
    PROVE  UNCHANGED AnInventory!invVars
  BY DEF vars, world, held, AnInventory!invVars, Wanted, FoundTargets, InventoryStatus,
     Visited, Looking, Stopped, HeldTargets, Now

LEMMA StepInventory == IInv /\ IInv' /\ [Next]_vars => [AnInventory!Next]_(AnInventory!invVars)
  BY StutterInventory, CallInventory, EntryInventory, OpenInventory, CommandInventory,
     ListDevicesInventory DEF Next, AnInventory!Next

-----------------------------------------------------------------------------
\* The variables of the search keep their types on every bus.
THEOREM TypeCorrect == Spec => []TypeOK
<1>1. IInv => TypeOK
  BY DEF IInv
<1> QED
  BY <1>1, Invariance, PTL

\* On every bus and every platform, whatever fails: the list has no target but those
\* that speak the toolbox commands, in their order, and, unless the search is given
\* up, every one of them at which nothing has failed.
THEOREM FindsAllCorrect == Spec => []FindsAll
<1>1. IInv => FindsAll
  BY FindsAllHolds
<1> QED
  BY <1>1, Invariance, PTL

\* Whatever fails on whichever bus, what is held between two targets is what is
\* listed.
THEOREM HeldCorrect == Spec => []HeldIsListed
<1>1. IInv => HeldIsListed
  BY DEF IInv, TypeOK, Holding, Directories, Allocated, HeldIsListed
<1> QED
  BY <1>1, Invariance, PTL

\* Whatever fails on whichever bus, a listed device has the id of its own target, or 1
\* for two digits on IRIX, or, unanswered on Linux, what the memory held; and the type of
\* that id, or what lies behind the array.  One that lacks its INQUIRY data or its type is
\* one at which a command has failed.
THEOREM DescribedCorrect == Spec => []DescribedByOwnId
<1>1. IInv => DescribedByOwnId
  BY DEF IInv
<1> QED
  BY <1>1, Invariance, PTL

\* On every bus a search is an inventory: all that is done and undone at one target,
\* with whatever fails, is one step that finds the target and holds it or passes it
\* and holds nothing of it.
THEOREM RefinesInventory == Spec => InventorySpec
<1>1. Init => AnInventory!Init
  BY InitInventory
<1>2. IInv /\ IInv' /\ [Next]_vars => [AnInventory!Next]_(AnInventory!invVars)
  BY StepInventory
<1> QED
  BY <1>1, <1>2, Invariance, PTL DEF Spec, InventorySpec, AnInventory!Spec
=============================================================================
