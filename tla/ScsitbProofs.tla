---------------------------- MODULE ScsitbProofs ----------------------------
(***************************************************************************)
(* Proofs about Scsitb, for every bus, every set of command lines and any  *)
(* number of runs: what is held at the exit, which device the commands go  *)
(* to, what makes the program crash, what info shows, what becomes of the  *)
(* settings; and that Scsitb implements Session.                           *)
(***************************************************************************)
EXTENDS Scsitb, DiscoveryProofs

\* What lasts from one run to the next.
Lasting ==
    /\ mpc \in {"args", "search", "command", "close", "exit", "crashed"}
    /\ argv \in Lines
    /\ platform \in Linked /\ bus \in Buses
    /\ platform = "next" => \A i \in DOMAIN bus : bus[i].id <= 7
    /\ settings \in [DOMAIN bus -> [debug : 0..255, image : 0..255]]
    /\ asked \in [DOMAIN bus -> SUBSET Int]

\* Where the search is when main() goes on, and what main() leaves of it.
Searched ==
    /\ mpc # "exit" => IInv
    /\ mpc = "args" => pc = "call"
    /\ mpc \in {"command", "close"} => pc = "done"
    /\ pc = "crashed" => "malloc" \in failures
    /\ mpc \notin {"args", "exit"} => argv # <<>>

\* The device chosen is the first of the list with the word in its name.
DeviceChosen ==
    mpc = "command" =>
        /\ target_device \in 0..Len(list)
        /\ target_device # 0 => target_device \in Matching /\ Arg(2) # NoWord
        /\ \A j \in Matching : target_device <= j
        /\ target_device = 0 /\ Arg(2) # NoWord => Matching = {}

\* A command is the first to touch a device or to show something.
Untouched == mpc \notin {"close", "exit", "crashed"} => touched = {} /\ shown = {}

\* The debug flag is one of the values asked for.
DebugAsked ==
    platform # "next" =>
        \A t \in DOMAIN bus : asked[t] \subseteq 0..255 => settings[t].debug \in asked[t]

MInv == /\ Lasting /\ Searched /\ DeviceChosen /\ Untouched /\ DebugAsked
        /\ NothingHeldAtExit /\ OnlyTheAskedDevice /\ DebugReadsBack /\ CrashCauses

-----------------------------------------------------------------------------
(* Words, devices and commands. *)

\* A word that is there is a word, or there is none.
LEMMA ArgType ==
    ASSUME argv \in Lines, NEW i \in Nat \ {0}
    PROVE  IF i <= Len(argv) THEN Arg(i) \in Words /\ Arg(i) # NoWord ELSE Arg(i) = NoWord
<1>1. argv \in Seq(Words) /\ NoWord \notin Words
  BY ScsitbAssumption DEF ScsitbAssumption
<1>2. Len(argv) \in Nat
  BY <1>1, LenProperties
<1>3. CASE i <= Len(argv)
  <2>1. argv[i] \in Words
    BY <1>1, <1>2, <1>3, ElementOfSeq
  <2> QED
    BY <1>1, <1>3, <2>1 DEF Arg
<1>4. CASE ~(i <= Len(argv))
  BY <1>4 DEF Arg
<1> QED
  BY <1>3, <1>4

\* Words, but no second one.
LEMMA OneWord ==
    ASSUME argv \in Lines, argv # <<>>, Arg(2) = NoWord
    PROVE  Len(argv) = 1
<1>1. argv \in Seq(Words)
  BY ScsitbAssumption DEF ScsitbAssumption
<1>2. Len(argv) \in Nat
  BY <1>1, LenProperties
<1>3. Len(argv) # 0
  BY <1>1, EmptySeq
<1>4. 2 \in Nat \ {0}
  OBVIOUS
<1>5. ~(2 <= Len(argv))
  BY <1>4, ArgType
<1>6. \A n \in Nat : n = 0 \/ n = 1 \/ 2 <= n
  OBVIOUS
<1> QED
  BY <1>2, <1>3, <1>5, <1>6

\* The target of the device that was chosen.
LEMMA TargetType ==
    ASSUME MInv, mpc = "command", target_device # 0
    PROVE  /\ target_device \in DOMAIN list /\ Target \in DOMAIN bus
           /\ bus[Target].id \in Named[Arg(1)]
<1>1. target_device \in Matching
  BY DEF MInv, DeviceChosen
<1>2. target_device \in DOMAIN list /\ bus[Target].id \in Named[Arg(1)]
  BY <1>1 DEF Matching, Target
<1>3. list \in Seq(Devices)
  BY DEF MInv, Searched, IInv, TypeOK
<1>4. list[target_device] \in Devices
  BY <1>2, <1>3, ElementOfSeq, LenProperties
<1> QED
  BY <1>2, <1>4 DEF Target, Devices

LEMMA ByteType ==
    ASSUME NEW n \in Int
    PROVE  Byte(n) \in 0..255 /\ (n \in 0..255 => Byte(n) = n) /\ IsByteOf(Byte(n), n)
<1>1. Byte(n) \in 0..255 /\ (n \in 0..255 => Byte(n) = n)
  BY DEF Byte
<1>2. (n - Byte(n)) % 256 = 0
  BY DEF Byte
<1> QED
  BY <1>1, <1>2 DEF IsByteOf

\* What the device keeps of the three commands.
LEMMA KeptSettings ==
    ASSUME NEW s \in [debug : 0..255, image : 0..255], NEW n \in Int, NEW p
    PROVE  /\ Kept(s, OnWire(p, GetDebugCmd)) \in [debug : 0..255, image : 0..255]
           /\ Kept(s, OnWire(p, SetDebugCmd(n))) \in [debug : 0..255, image : 0..255]
           /\ Kept(s, OnWire(p, SetImageCmd(n))) \in [debug : 0..255, image : 0..255]
           /\ p # "next" =>
                /\ Kept(s, OnWire(p, GetDebugCmd)) = s
                /\ Kept(s, OnWire(p, SetDebugCmd(n))) = [s EXCEPT !.debug = Byte(n)]
                /\ Kept(s, OnWire(p, SetImageCmd(n))) = [s EXCEPT !.image = Byte(n)]
<1>1. Byte(n) \in 0..255
  BY ByteType
<1>2. /\ OnWire(p, GetDebugCmd).op = TOOLBOX_SCSI_TOGGLE_DEBUG
      /\ OnWire(p, GetDebugCmd).args = IF p = "next" THEN <<0, 0>> ELSE <<1, 0>>
  BY DEF OnWire, WireOp, WireArgs, GetDebugCmd, ReadCmd, ScsiCmd, TOOLBOX_SCSI_DEBUG_GET
<1>3. /\ OnWire(p, SetDebugCmd(n)).op = TOOLBOX_SCSI_TOGGLE_DEBUG
      /\ OnWire(p, SetDebugCmd(n)).args = IF p = "next" THEN <<0, 0>> ELSE <<0, Byte(n)>>
  BY DEF OnWire, WireOp, WireArgs, SetDebugCmd, PlainCmd, ScsiCmd, TOOLBOX_SCSI_DEBUG_SET
<1>4. /\ OnWire(p, SetImageCmd(n)).op = TOOLBOX_SCSI_SET_NEXT_CD
      /\ OnWire(p, SetImageCmd(n)).args = IF p = "next" THEN <<0>> ELSE <<Byte(n)>>
  BY DEF OnWire, WireOp, WireArgs, SetImageCmd, ScsiCmd
<1> HIDE DEF Byte
<1>5. /\ Kept(s, OnWire(p, GetDebugCmd)) =
            IF p = "next" THEN [s EXCEPT !.debug = 0] ELSE s
      /\ Kept(s, OnWire(p, SetDebugCmd(n))) =
            [s EXCEPT !.debug = IF p = "next" THEN 0 ELSE Byte(n)]
      /\ Kept(s, OnWire(p, SetImageCmd(n))) =
            [s EXCEPT !.image = IF p = "next" THEN 0 ELSE Byte(n)]
  BY <1>2, <1>3, <1>4 DEF Kept, TOOLBOX_SCSI_TOGGLE_DEBUG, TOOLBOX_SCSI_SET_NEXT_CD,
     TOOLBOX_SCSI_DEBUG_SET
<1> QED
  BY <1>1, <1>5

\* On NeXT the operands are lost, and to show the flag or to set it is to clear it.
LEMMA ShownSettings ==
    ASSUME NEW s, NEW p
    PROVE  Kept(s, OnWire(p, GetDebugCmd)) = IF p = "next" THEN [s EXCEPT !.debug = 0] ELSE s
<1>1. /\ OnWire(p, GetDebugCmd).op = TOOLBOX_SCSI_TOGGLE_DEBUG
      /\ OnWire(p, GetDebugCmd).args = IF p = "next" THEN <<0, 0>> ELSE <<1, 0>>
  BY DEF OnWire, WireOp, WireArgs, GetDebugCmd, ReadCmd, ScsiCmd, TOOLBOX_SCSI_DEBUG_GET
<1> QED
  BY <1>1 DEF Kept, TOOLBOX_SCSI_TOGGLE_DEBUG, TOOLBOX_SCSI_SET_NEXT_CD,
     TOOLBOX_SCSI_DEBUG_SET

\* A command reaches the settings of its target alone, if it reaches any.
LEMMA IssuedSettings ==
    ASSUME NEW c, NEW done, Issued(c, done), Target \in DOMAIN bus,
           settings \in [DOMAIN bus -> [debug : 0..255, image : 0..255]],
           Kept(settings[Target], OnWire(platform, c)) \in [debug : 0..255, image : 0..255]
    PROVE  /\ settings' \in [DOMAIN bus -> [debug : 0..255, image : 0..255]]
           /\ \A t \in DOMAIN bus : t # Target => settings'[t] = settings[t]
           /\ settings'[Target] \in {settings[Target],
                                     Kept(settings[Target], OnWire(platform, c))}
           /\ done => settings'[Target] = Kept(settings[Target], OnWire(platform, c))
  BY DEF Issued

-----------------------------------------------------------------------------
(* Up to the choice. *)

LEMMA MainInitInv == MainInit => MInv
<1> SUFFICES ASSUME MainInit PROVE MInv
  OBVIOUS
<1>1. IInv /\ pc = "call" /\ mpc = "args" /\ touched = {} /\ shown = {}
  BY InitIInv DEF MainInit, Main, Init
<1>2. Lasting
  <2>1. /\ settings = [t \in DOMAIN bus |-> [debug |-> 0, image |-> 0]]
        /\ asked = [t \in DOMAIN bus |-> {0}]
    BY DEF MainInit
  <2>2. settings \in [DOMAIN bus -> [debug : 0..255, image : 0..255]]
    BY <2>1
  <2>3. asked \in [DOMAIN bus -> SUBSET Int]
    BY <2>1
  <2> QED
    BY <2>2, <2>3 DEF MainInit, Main, Init, Lasting
<1>3. Searched /\ DeviceChosen /\ Untouched
  BY <1>1 DEF Searched, DeviceChosen, Untouched
<1>4. DebugAsked
  BY DEF MainInit, DebugAsked
<1>5. NothingHeldAtExit /\ OnlyTheAskedDevice /\ DebugReadsBack /\ CrashCauses
  BY <1>1 DEF NothingHeldAtExit, OnlyTheAskedDevice, DebugReadsBack, CrashCauses
<1> QED
  BY <1>2, <1>3, <1>4, <1>5 DEF MInv

\* As long as no command has touched a device, little can go wrong.
LEMMA NothingTouched ==
    ASSUME MInv, mpc \notin {"close", "exit", "crashed"}, UNCHANGED <<world, argv, settings, asked>>,
           UNCHANGED <<touched, shown>>,
           mpc' \in {"search", "command", "close", "exit", "crashed"}
    PROVE  /\ Lasting' /\ Untouched' /\ DebugAsked'
           /\ OnlyTheAskedDevice' /\ DebugReadsBack'
<1>1. touched' = {} /\ shown' = {}
  BY DEF MInv, Untouched
<1> QED
  BY <1>1 DEF MInv, Lasting, Untouched, DebugAsked, OnlyTheAskedDevice, DebugReadsBack, world

LEMMA StartStep == MInv /\ Start => MInv'
<1> SUFFICES ASSUME MInv, Start PROVE MInv'
  OBVIOUS
<1>1. /\ mpc = "args" /\ pc = "call" /\ IInv
      /\ UNCHANGED <<vars, argv, settings, asked, touched, shown>>
      /\ \/ mpc' = "exit"
         \/ mpc' = "search" /\ argv # <<>>
  BY DEF MInv, Searched, Start, Exit, searchVars
<1>2. IInv' /\ pc' = pc /\ failures' = failures
  BY <1>1, Stutters DEF vars
<1>3. Lasting' /\ Untouched' /\ DebugAsked' /\ OnlyTheAskedDevice' /\ DebugReadsBack'
  BY <1>1, NothingTouched DEF vars, world
<1>4. Searched' /\ DeviceChosen'
  BY <1>1, <1>2 DEF Searched, DeviceChosen, MInv
<1>5. NothingHeldAtExit'
  BY <1>1 DEF NothingHeldAtExit, IInv, Holding, vars, held
<1>6. CrashCauses'
  BY <1>1, <1>2 DEF CrashCauses
<1> QED
  BY <1>3, <1>4, <1>5, <1>6 DEF MInv

\* The search crashes for want of memory only.
LEMMA SearchCrash ==
    ASSUME Next, pc = "crashed" => "malloc" \in failures
    PROVE  pc' = "crashed" => "malloc" \in failures'
  BY DEF Next, Call, Entry, Open, OpenFails, MallocFails, OpenByAlias, Probe, Capabilities,
     Inquiry, ListDevices, Return, Continue, Failed

LEMMA SearchStep == MInv /\ Search => MInv'
<1> SUFFICES ASSUME MInv, Search PROVE MInv'
  OBVIOUS
<1>1. /\ mpc = "search" /\ mpc' = "search" /\ argv # <<>>
      /\ Next /\ UNCHANGED mainVars
  BY DEF MInv, Searched, Search, mainVars
<1>2. IInv'
  BY <1>1, IInvStep DEF MInv, Searched
<1>3. UNCHANGED world
  BY <1>1 DEF Next, Call, Entry, Open, OpenFails, MallocFails, OpenByAlias, Probe,
     Capabilities, Inquiry, ListDevices
<1>4. Lasting' /\ Untouched' /\ DebugAsked' /\ OnlyTheAskedDevice' /\ DebugReadsBack'
  BY <1>1, <1>3, NothingTouched DEF mainVars
<1>5. pc' = "crashed" => "malloc" \in failures'
  BY <1>1, SearchCrash DEF MInv, Searched
<1>6. Searched' /\ DeviceChosen' /\ NothingHeldAtExit' /\ CrashCauses'
  BY <1>1, <1>2, <1>5 DEF Searched, DeviceChosen, NothingHeldAtExit, CrashCauses, mainVars
<1> QED
  BY <1>4, <1>6 DEF MInv

\* A search that is done holds what is in its list, and closing that leaves nothing.
LEMMA AllClosed ==
    ASSUME IInv, pc = "done", CloseAll
    PROVE  /\ allocated' = {} /\ list' = <<>>
           /\ "malloc" \notin failures' => opened' = {}
<1>1. allocated = Listed /\ ("malloc" \notin failures => opened \subseteq Listed)
  BY DEF IInv, Holding, Allocated
<1> QED
  BY <1>1 DEF CloseAll

LEMMA NoDevicesStep == MInv /\ NoDevices => MInv'
<1> SUFFICES ASSUME MInv, NoDevices PROVE MInv'
  OBVIOUS
<1>1. /\ mpc = "search" /\ mpc' = "exit" /\ pc = "done" /\ list = <<>> /\ IInv
      /\ UNCHANGED <<vars, argv, settings, asked, touched, shown>>
  BY DEF MInv, Searched, NoDevices, Exit, searchVars
<1>2. Lasting' /\ Untouched' /\ DebugAsked' /\ OnlyTheAskedDevice' /\ DebugReadsBack'
  BY <1>1, NothingTouched DEF vars, world
<1>3. Listed = {}
  BY <1>1 DEF Listed
<1>4. NothingHeldAtExit'
  BY <1>1, <1>3 DEF NothingHeldAtExit, IInv, Holding, Allocated, vars, held
<1>5. Searched' /\ DeviceChosen' /\ CrashCauses'
  BY <1>1 DEF Searched, DeviceChosen, CrashCauses, vars
<1> QED
  BY <1>2, <1>4, <1>5 DEF MInv

LEMMA ChooseStep == MInv /\ Choose => MInv'
<1> SUFFICES ASSUME MInv, Choose PROVE MInv'
  OBVIOUS
<1>1. /\ mpc = "search" /\ mpc' = "command" /\ pc = "done" /\ IInv /\ argv # <<>>
      /\ UNCHANGED <<vars, argv, settings, asked, touched, shown>>
      /\ target_device' \in IF Arg(2) = NoWord THEN {0} ELSE Chosen
  BY DEF MInv, Searched, Choose, Found, searchVars
<1>2. IInv' /\ pc' = pc /\ list' = list /\ bus' = bus /\ failures' = failures
  BY <1>1, Stutters DEF vars, world
<1>3. Lasting' /\ Untouched' /\ DebugAsked' /\ OnlyTheAskedDevice' /\ DebugReadsBack'
  BY <1>1, NothingTouched DEF vars, world
<1>4. Searched' /\ NothingHeldAtExit' /\ CrashCauses'
  BY <1>1, <1>2 DEF Searched, NothingHeldAtExit, CrashCauses
<1>5. DeviceChosen'
  <2>1. Matching' = Matching /\ Arg(2)' = Arg(2)
    BY <1>1, <1>2 DEF Matching, Arg
  <2>2. DOMAIN list = 1..Len(list) /\ Len(list) \in Nat
    BY <1>1, LenProperties DEF IInv, TypeOK
  <2>3. target_device' = 0 \/ target_device' \in Matching
    BY <1>1 DEF Chosen
  <2>4. target_device' \in 0..Len(list)
    BY <2>2, <2>3 DEF Matching
  <2>5. /\ target_device' = 0 /\ Arg(2) # NoWord => Matching = {}
        /\ target_device' # 0 => Arg(2) # NoWord
    BY <1>1, <2>2 DEF Chosen, Matching
  <2>6. \A j \in Matching : target_device' <= j
    <3>1. Matching \subseteq 1..Len(list)
      BY <2>2 DEF Matching
    <3>2. CASE target_device' = 0
      BY <2>2, <3>1, <3>2
    <3>3. CASE target_device' # 0
      BY <1>1, <3>3 DEF Chosen
    <3> QED
      BY <3>2, <3>3
  <2> QED
    BY <1>2, <2>1, <2>3, <2>4, <2>5, <2>6 DEF DeviceChosen
<1> QED
  BY <1>3, <1>4, <1>5 DEF MInv

LEMMA UnknownStep == MInv /\ UnknownCommand => MInv'
<1> SUFFICES ASSUME MInv, UnknownCommand PROVE MInv'
  OBVIOUS
<1>1. /\ mpc = "search" /\ pc = "done" /\ IInv /\ argv # <<>>
      /\ UNCHANGED <<argv, settings, asked, touched, shown>>
      /\ \/ mpc' = "exit" /\ CloseAll
         \/ mpc' = "crashed" /\ Arg(2) = NoWord /\ UNCHANGED vars
  BY DEF MInv, Searched, UnknownCommand, Found, Exit, searchVars
<1>2. UNCHANGED world /\ pc' = pc
  BY <1>1 DEF CloseAll, vars
<1>3. Lasting' /\ Untouched' /\ DebugAsked' /\ OnlyTheAskedDevice' /\ DebugReadsBack'
  BY <1>1, <1>2, NothingTouched
<1>4. NothingHeldAtExit'
  BY <1>1, AllClosed DEF NothingHeldAtExit
<1>5. Searched'
  BY <1>1, <1>2, Stutters DEF Searched
<1>6. DeviceChosen'
  BY <1>1 DEF DeviceChosen
<1>7. CrashCauses'
  <2>1. CASE Arg(2) = NoWord
    <3>1. Len(argv) = 1
      BY <1>1, <2>1, OneWord DEF MInv, Lasting
    <3> QED
      BY <1>1, <1>2, <3>1 DEF CrashCauses
  <2>2. CASE Arg(2) # NoWord
    BY <1>1, <1>2, <2>2 DEF CrashCauses
  <2> QED
    BY <2>1, <2>2
<1> QED
  BY <1>3, <1>4, <1>5, <1>6, <1>7 DEF MInv

-----------------------------------------------------------------------------
(* The commands. *)

\* A command that sends what it sends to the device chosen.
LEMMA ChosenStep ==
    ASSUME MInv, mpc = "command", mpc' = "close" \/ (mpc' = "crashed" /\ CrashCauses'),
           UNCHANGED <<vars, argv>>,
           settings' \in [DOMAIN bus -> [debug : 0..255, image : 0..255]],
           asked' \in [DOMAIN bus -> SUBSET Int],
           \A x \in touched' : target_device # 0 /\ x[1] = Target,
           DebugAsked', DebugReadsBack'
    PROVE  MInv'
<1>1. /\ pc = "done" /\ IInv /\ argv # <<>> /\ pc' = pc /\ UNCHANGED <<platform, bus>>
  BY DEF MInv, Searched, vars, world
<1>2. IInv'
  BY <1>1, Stutters
<1>3. Lasting'
  BY <1>1 DEF MInv, Lasting
<1>4. Searched' /\ DeviceChosen' /\ Untouched' /\ NothingHeldAtExit' /\ CrashCauses'
  BY <1>1, <1>2 DEF Searched, DeviceChosen, Untouched, NothingHeldAtExit, CrashCauses
<1>5. OnlyTheAskedDevice'
  <2>1. Arg(1)' = Arg(1)
    BY DEF Arg
  <2>2. \A x \in touched' : bus[x[1]].id \in Named[Arg(1)]
    BY TargetType
  <2> QED
    BY <1>1, <2>1, <2>2 DEF OnlyTheAskedDevice
<1>6. DebugAsked' /\ DebugReadsBack'
  OBVIOUS
<1> QED
  BY <1>3, <1>4, <1>5, <1>6 DEF MInv

\* A command that changes no setting and prints none.
LEMMA PlainStep ==
    ASSUME MInv, mpc = "command", mpc' = "close" \/ (mpc' = "crashed" /\ CrashCauses'),
           UNCHANGED <<vars, argv, settings, asked, shown>>,
           \A x \in touched' : target_device # 0 /\ x[1] = Target
    PROVE  MInv'
<1>1. shown' = {} /\ UNCHANGED <<platform, bus>>
  BY DEF MInv, Untouched, vars, world
<1>2. DebugAsked' /\ DebugReadsBack'
  BY <1>1 DEF MInv, DebugAsked, DebugReadsBack
<1>3. /\ settings' \in [DOMAIN bus -> [debug : 0..255, image : 0..255]]
      /\ asked' \in [DOMAIN bus -> SUBSET Int]
  BY DEF MInv, Lasting
<1>4. UNCHANGED <<vars, argv>>
  OBVIOUS
<1> QED
  BY <1>2, <1>3, <1>4, ChosenStep

\* Sending nothing, or some commands to the device chosen.
LEMMA NothingStep ==
    ASSUME MInv, mpc = "command", Nothing, UNCHANGED <<vars, argv>>
    PROVE  MInv'
<1>1. touched' = {}
  BY DEF MInv, Untouched, Nothing
<1> QED
  BY <1>1, PlainStep DEF Nothing

LEMMA ExchangeStep ==
    ASSUME MInv, mpc = "command", target_device # 0, NEW ops, Exchange(ops),
           UNCHANGED <<vars, argv>>
    PROVE  MInv'
<1>1. PICK sentOps \in SUBSET ops : touched' = touched \cup ({Target} \X sentOps)
  BY DEF Exchange
<1>2. \A x \in touched' : x[1] = Target
  BY <1>1 DEF MInv, Untouched
<1> QED
  BY <1>2, PlainStep DEF Exchange

LEMMA InfoStep == MInv /\ Info => MInv'
<1> SUFFICES ASSUME MInv, Info PROVE MInv'
  OBVIOUS
<1>1. touched' = {}
  BY DEF MInv, Untouched, Info
<1> QED
  BY <1>1, PlainStep DEF Info, searchVars

LEMMA ListFilesStep == MInv /\ ListFiles => MInv'
<1> SUFFICES ASSUME MInv, ListFiles PROVE MInv'
  OBVIOUS
<1>1. mpc = "command" /\ UNCHANGED <<vars, argv>>
  BY DEF ListFiles, Command, searchVars
<1>2. CASE target_device = 0
  BY <1>1, <1>2, NothingStep DEF ListFiles
<1>3. CASE target_device # 0
  BY <1>1, <1>3, ExchangeStep DEF ListFiles
<1> QED
  BY <1>2, <1>3

LEMMA ListImagesStep == MInv /\ ListImages => MInv'
<1> SUFFICES ASSUME MInv, ListImages PROVE MInv'
  OBVIOUS
<1>1. mpc = "command" /\ Arg(2) = "lsimg" /\ UNCHANGED <<vars, argv>>
  BY DEF ListImages, Command, searchVars
<1>2. CASE target_device = 0
  <2>1. mpc' = "crashed" /\ UNCHANGED <<vars, argv, settings, asked, touched, shown>>
    BY <1>1, <1>2 DEF ListImages
  <2>2. /\ IInv /\ pc = "done" /\ argv # <<>> /\ argv \in Lines
    BY <1>1 DEF MInv, Searched, Lasting
  <2>3. Lasting' /\ Untouched' /\ DebugAsked' /\ OnlyTheAskedDevice' /\ DebugReadsBack'
    BY <1>1, <2>1, NothingTouched DEF vars, world
  <2>4. Searched'
    BY <2>1, <2>2, Stutters DEF Searched, vars
  <2>5. Len(argv) = 1 \/ Matching = {}
    BY <1>1, <1>2, <2>2, OneWord DEF MInv, DeviceChosen
  <2>6. Arg(2)' = Arg(2) /\ Matching' = Matching /\ pc' = pc
    BY <2>1 DEF Arg, Matching, vars, world
  <2>7. DeviceChosen' /\ NothingHeldAtExit' /\ CrashCauses'
    BY <1>1, <2>1, <2>2, <2>5, <2>6 DEF DeviceChosen, NothingHeldAtExit, CrashCauses
  <2> QED
    BY <2>3, <2>4, <2>7 DEF MInv
<1>3. CASE target_device # 0
  BY <1>1, <1>3, NothingStep, ExchangeStep DEF ListImages
<1> QED
  BY <1>2, <1>3

\* A get that crashes: it has a file name and a device, and has listed the files.
LEMMA CrashStep ==
    ASSUME MInv, mpc = "command", Arg(2) = "get", Arg(3) # NoWord, target_device # 0,
           GetCrashes, UNCHANGED <<vars, argv>>
    PROVE  MInv'
<1>1. PICK sentOps \in {ListOps, GetOps} : touched' = touched \cup ({Target} \X sentOps)
  BY DEF GetCrashes
<1>2. mpc' = "crashed" /\ UNCHANGED <<settings, asked, shown>>
  BY DEF GetCrashes
<1>3. \A x \in touched' : x[1] = Target
  BY <1>1 DEF MInv, Untouched
<1>4. CrashCauses'
  <2>1. Target \in DOMAIN bus
    BY TargetType
  <2>2. {Target} \X ListOps \subseteq touched'
    BY <1>1 DEF GetOps
  <2>3. Arg(2)' = "get" /\ Arg(3)' # NoWord
    BY DEF Arg
  <2>4. bus' = bus /\ pc' = pc /\ pc = "done"
    BY DEF vars, world, MInv, Searched
  <2> QED
    BY <2>1, <2>2, <2>3, <2>4 DEF CrashCauses
<1> QED
  BY <1>2, <1>3, <1>4, PlainStep

LEMMA TransferStep == MInv /\ Transfer => MInv'
<1> SUFFICES ASSUME MInv, Transfer PROVE MInv'
  OBVIOUS
<1>1. mpc = "command" /\ UNCHANGED <<vars, argv>>
  BY DEF Transfer, Command, searchVars
<1>2. CASE Arg(3) = NoWord \/ target_device = 0
  BY <1>1, <1>2, NothingStep DEF Transfer
<1>3. ASSUME Arg(3) # NoWord, target_device # 0, NEW ops, Exchange(ops)
      PROVE  MInv'
  BY <1>1, <1>3, ExchangeStep
<1>4. CASE /\ Arg(3) # NoWord /\ target_device # 0
           /\ Arg(2) = "get" /\ GetCrashes
  BY <1>1, <1>4, CrashStep
<1> QED
  BY <1>2, <1>3, <1>4 DEF Transfer

\* What a command that is issued leaves of the facts about the settings.
LEMMA IssuedKeeps ==
    ASSUME MInv, mpc = "command", target_device # 0, NEW c, NEW done, Issued(c, done),
           \A s \in [debug : 0..255, image : 0..255] :
              Kept(s, OnWire(platform, c)) \in [debug : 0..255, image : 0..255]
    PROVE  /\ Target \in DOMAIN bus
           /\ bus[Target].id \in Named[Arg(1)]
           /\ \A x \in touched' : x[1] = Target
           /\ touched' # {}
           /\ settings[Target] \in [debug : 0..255, image : 0..255]
           /\ settings' \in [DOMAIN bus -> [debug : 0..255, image : 0..255]]
           /\ \A t \in DOMAIN bus : t # Target => settings'[t] = settings[t]
           /\ settings'[Target] \in {settings[Target],
                                     Kept(settings[Target], OnWire(platform, c))}
           /\ done => settings'[Target] = Kept(settings[Target], OnWire(platform, c))
<1>1. Target \in DOMAIN bus /\ bus[Target].id \in Named[Arg(1)]
  BY TargetType
<1>2. settings \in [DOMAIN bus -> [debug : 0..255, image : 0..255]]
  BY DEF MInv, Lasting
<1>3. settings[Target] \in [debug : 0..255, image : 0..255]
  BY <1>1, <1>2
<1>4. touched' = {<<Target, c.op>>}
  BY DEF MInv, Untouched, Issued
<1>5. Kept(settings[Target], OnWire(platform, c)) \in [debug : 0..255, image : 0..255]
  BY <1>3
<1>6. /\ settings' \in [DOMAIN bus -> [debug : 0..255, image : 0..255]]
      /\ \A t \in DOMAIN bus : t # Target => settings'[t] = settings[t]
      /\ settings'[Target] \in {settings[Target],
                                Kept(settings[Target], OnWire(platform, c))}
      /\ done => settings'[Target] = Kept(settings[Target], OnWire(platform, c))
  BY <1>1, <1>2, <1>5, IssuedSettings, ZenonT(60)
<1> QED
  BY <1>1, <1>3, <1>4, <1>6

\* Showing the debug flag: it stays, and what is printed is the flag.
LEMMA ShowDebugStep ==
    ASSUME MInv, ShowDebug
    PROVE  MInv' /\ (platform # "next" => ChangedAsAsked)
<1>1. mpc = "command" /\ UNCHANGED <<vars, argv>> /\ UNCHANGED <<platform, bus>>
  BY DEF ShowDebug, Command, searchVars, vars, world
<1>2. CASE target_device = 0
  <2>1. Nothing
    BY <1>2 DEF ShowDebug
  <2> QED
    BY <1>1, <2>1, NothingStep DEF Nothing, ChangedAsAsked
<1>3. CASE target_device # 0
  <2>1. PICK done \in BOOLEAN :
           /\ Issued(GetDebugCmd, done)
           /\ shown' = IF done THEN {Answer} ELSE {}
    BY <1>3 DEF ShowDebug
  <2>2. mpc' = "close" /\ asked' = asked
    BY <1>3 DEF ShowDebug
  <2>3. \A s \in [debug : 0..255, image : 0..255] :
          /\ Kept(s, OnWire(platform, GetDebugCmd)) \in [debug : 0..255, image : 0..255]
          /\ platform # "next" => Kept(s, OnWire(platform, GetDebugCmd)) = s
    <3>1. 0 \in Int
      OBVIOUS
    <3> QED
      BY <3>1, KeptSettings
  <2>4. /\ Target \in DOMAIN bus
        /\ \A x \in touched' : x[1] = Target
        /\ settings[Target] \in [debug : 0..255, image : 0..255]
        /\ settings' \in [DOMAIN bus -> [debug : 0..255, image : 0..255]]
        /\ \A t \in DOMAIN bus : t # Target => settings'[t] = settings[t]
        /\ settings'[Target] \in {settings[Target],
                                  Kept(settings[Target], OnWire(platform, GetDebugCmd))}
    <3>1. mpc = "command" /\ target_device # 0
      BY <1>1, <1>3
    <3>2. \A s \in [debug : 0..255, image : 0..255] :
            Kept(s, OnWire(platform, GetDebugCmd)) \in [debug : 0..255, image : 0..255]
      BY <2>3
    <3> QED
      BY <2>1, <3>1, <3>2, IssuedKeeps
  <2>5. platform # "next" => \A t \in DOMAIN bus : settings'[t] = settings[t]
    BY <2>3, <2>4
  <2>6. DebugAsked'
    BY <1>1, <2>2, <2>5 DEF MInv, DebugAsked
  <2>7. platform # "next" => Answer = settings[Target].debug
    BY DEF Answer, OnWire, WireArgs, GetDebugCmd, ReadCmd, ScsiCmd, TOOLBOX_SCSI_DEBUG_GET
  <2>8. DebugReadsBack'
    BY <1>1, <2>1, <2>2, <2>4, <2>7 DEF MInv, DebugAsked, DebugReadsBack
  <2>9. asked' \in [DOMAIN bus -> SUBSET Int]
    BY <2>2 DEF MInv, Lasting
  <2>10. MInv'
    BY <1>1, <1>3, <2>2, <2>4, <2>6, <2>8, <2>9, ChosenStep
  <2> QED
    BY <2>5, <2>10 DEF ChangedAsAsked
<1> QED
  BY <1>2, <1>3

\* Setting the debug flag: the flag is the old one or the number asked for, and
\* the number is the only one left when the command was carried out.
LEMMA SetDebugStep ==
    ASSUME MInv, SetDebug
    PROVE  MInv' /\ (platform # "next" => ChangedAsAsked)
<1>1. /\ mpc = "command" /\ Arg(2) = "debug" /\ Arg(3) # NoWord
      /\ UNCHANGED <<vars, argv>> /\ UNCHANGED <<platform, bus>>
  BY DEF SetDebug, Command, searchVars, vars, world
<1>2. CASE target_device = 0
  <2>1. Nothing
    BY <1>2 DEF SetDebug
  <2> QED
    BY <1>1, <2>1, NothingStep DEF Nothing, ChangedAsAsked
<1>3. CASE target_device # 0
  <2> DEFINE v == Value[Arg(3)]
  <2>1. v \in Int
    <3>1. 3 \in Nat \ {0} /\ argv \in Lines
      BY DEF MInv, Lasting
    <3>2. Arg(3) \in Words
      BY <1>1, <3>1, ArgType
    <3> QED
      BY <3>2, ScsitbAssumption DEF ScsitbAssumption
  <2>2. PICK done \in BOOLEAN :
           /\ Issued(SetDebugCmd(v), done)
           /\ asked' = [asked EXCEPT ![Target] = {v} \cup (IF done THEN {} ELSE @)]
    BY <1>3 DEF SetDebug
  <2>3. mpc' = "close" /\ shown' = {}
    BY <1>1, <1>3 DEF SetDebug, MInv, Untouched
  <2>4. ChangedAsAsked <=>
          \A t \in DOMAIN bus :
             /\ settings'[t].debug # settings[t].debug =>
                   bus[t].id \in Named[Arg(1)] /\ IsByteOf(settings'[t].debug, v)
             /\ settings'[t].image # settings[t].image =>
                   /\ Arg(2) = "setimg" /\ bus[t].id \in Named[Arg(1)]
                   /\ Arg(3) # NoWord /\ IsByteOf(settings'[t].image, v)
    BY <1>1 DEF ChangedAsAsked
  <2> HIDE DEF v
  <2>5. \A s \in [debug : 0..255, image : 0..255] :
          /\ Kept(s, OnWire(platform, SetDebugCmd(v))) \in [debug : 0..255, image : 0..255]
          /\ platform # "next" =>
                Kept(s, OnWire(platform, SetDebugCmd(v))) = [s EXCEPT !.debug = Byte(v)]
    BY <2>1, KeptSettings
  <2>6. /\ Target \in DOMAIN bus /\ bus[Target].id \in Named[Arg(1)]
        /\ \A x \in touched' : x[1] = Target
        /\ settings[Target] \in [debug : 0..255, image : 0..255]
        /\ settings' \in [DOMAIN bus -> [debug : 0..255, image : 0..255]]
        /\ \A t \in DOMAIN bus : t # Target => settings'[t] = settings[t]
        /\ settings'[Target] \in {settings[Target],
                                  Kept(settings[Target], OnWire(platform, SetDebugCmd(v)))}
        /\ done => settings'[Target] = Kept(settings[Target], OnWire(platform, SetDebugCmd(v)))
    <3>1. mpc = "command" /\ target_device # 0
      BY <1>1, <1>3
    <3>2. \A s \in [debug : 0..255, image : 0..255] :
            Kept(s, OnWire(platform, SetDebugCmd(v))) \in [debug : 0..255, image : 0..255]
      BY <2>5
    <3> QED
      BY <2>2, <3>1, <3>2, IssuedKeeps
  <2>7. platform # "next" =>
          /\ settings'[Target].image = settings[Target].image
          /\ settings'[Target].debug \in {settings[Target].debug, Byte(v)}
          /\ done => settings'[Target].debug = Byte(v)
    BY <2>5, <2>6
  <2>8. asked \in [DOMAIN bus -> SUBSET Int]
    BY DEF MInv, Lasting
  <2>9. /\ asked' \in [DOMAIN bus -> SUBSET Int]
        /\ \A t \in DOMAIN bus : t # Target => asked'[t] = asked[t]
        /\ asked'[Target] = {v} \cup (IF done THEN {} ELSE asked[Target])
    BY <2>1, <2>2, <2>6, <2>8
  <2>10. (v \in 0..255 => Byte(v) = v) /\ IsByteOf(Byte(v), v)
    BY <2>1, ByteType
  <2>11. DebugAsked'
    <3> SUFFICES ASSUME platform # "next", NEW t \in DOMAIN bus, asked'[t] \subseteq 0..255
                 PROVE  settings'[t].debug \in asked'[t]
      BY <1>1 DEF DebugAsked
    <3>1. CASE t # Target
      BY <2>6, <2>9, <3>1 DEF MInv, DebugAsked
    <3>2. CASE t = Target
      <4>1. Byte(v) = v
        BY <2>9, <2>10, <3>2
      <4>2. CASE done
        BY <2>7, <2>9, <3>2, <4>1, <4>2
      <4>3. CASE ~done
        <5>1. asked[Target] \subseteq 0..255
          BY <2>9, <3>2, <4>3
        <5>2. settings[Target].debug \in asked[Target]
          BY <2>6, <5>1 DEF MInv, DebugAsked
        <5> QED
          BY <2>7, <2>9, <3>2, <4>1, <4>3, <5>2
      <4> QED
        BY <4>2, <4>3
    <3> QED
      BY <3>1, <3>2
  <2>12. DebugReadsBack'
    BY <2>3 DEF DebugReadsBack
  <2>13. MInv'
    BY <1>1, <1>3, <2>3, <2>6, <2>9, <2>11, <2>12, ChosenStep
  <2>14. platform # "next" => ChangedAsAsked
    BY <2>4, <2>6, <2>7, <2>10
  <2> QED
    BY <2>13, <2>14
<1> QED
  BY <1>2, <1>3

\* Setting the image: the debug flag stays.
LEMMA SetImageStep ==
    ASSUME MInv, SetImage
    PROVE  MInv' /\ (platform # "next" => ChangedAsAsked)
<1>1. /\ mpc = "command" /\ Arg(2) = "setimg"
      /\ UNCHANGED <<vars, argv>> /\ UNCHANGED <<platform, bus>>
  BY DEF SetImage, Command, searchVars, vars, world
<1>2. CASE Arg(3) \in Single \cup {NoWord} \/ target_device = 0
  <2>1. Nothing
    BY <1>2 DEF SetImage
  <2> QED
    BY <1>1, <2>1, NothingStep DEF Nothing, ChangedAsAsked
<1>3. CASE ~(Arg(3) \in Single \cup {NoWord} \/ target_device = 0)
  <2> DEFINE v == Value[Arg(3)]
  <2>1. v \in Int /\ Arg(3) # NoWord
    <3>1. 3 \in Nat \ {0} /\ argv \in Lines
      BY DEF MInv, Lasting
    <3>2. Arg(3) \in Words
      BY <1>3, <3>1, ArgType
    <3> QED
      BY <1>3, <3>2, ScsitbAssumption DEF ScsitbAssumption
  <2>2. PICK done \in BOOLEAN : Issued(SetImageCmd(v), done)
    BY <1>3 DEF SetImage
  <2>3. mpc' = "close" /\ shown' = {} /\ asked' = asked
    BY <1>1, <1>3 DEF SetImage, MInv, Untouched
  <2>4. ChangedAsAsked <=>
          \A t \in DOMAIN bus :
             /\ settings'[t].debug # settings[t].debug =>
                   /\ Arg(2) = "debug" /\ bus[t].id \in Named[Arg(1)]
                   /\ Arg(3) # NoWord /\ IsByteOf(settings'[t].debug, v)
             /\ settings'[t].image # settings[t].image =>
                   bus[t].id \in Named[Arg(1)] /\ IsByteOf(settings'[t].image, v)
    BY <1>1, <2>1 DEF ChangedAsAsked
  <2> HIDE DEF v
  <2>5. \A s \in [debug : 0..255, image : 0..255] :
          /\ Kept(s, OnWire(platform, SetImageCmd(v))) \in [debug : 0..255, image : 0..255]
          /\ platform # "next" =>
                Kept(s, OnWire(platform, SetImageCmd(v))) = [s EXCEPT !.image = Byte(v)]
    BY <2>1, KeptSettings
  <2>6. /\ Target \in DOMAIN bus /\ bus[Target].id \in Named[Arg(1)]
        /\ \A x \in touched' : x[1] = Target
        /\ settings[Target] \in [debug : 0..255, image : 0..255]
        /\ settings' \in [DOMAIN bus -> [debug : 0..255, image : 0..255]]
        /\ \A t \in DOMAIN bus : t # Target => settings'[t] = settings[t]
        /\ settings'[Target] \in {settings[Target],
                                  Kept(settings[Target], OnWire(platform, SetImageCmd(v)))}
    <3>1. mpc = "command" /\ target_device # 0
      BY <1>1, <1>3
    <3>2. \A s \in [debug : 0..255, image : 0..255] :
            Kept(s, OnWire(platform, SetImageCmd(v))) \in [debug : 0..255, image : 0..255]
      BY <2>5
    <3> QED
      BY <2>2, <3>1, <3>2, IssuedKeeps
  <2>7. platform # "next" =>
          /\ settings'[Target].debug = settings[Target].debug
          /\ settings'[Target].image \in {settings[Target].image, Byte(v)}
    BY <2>5, <2>6
  <2>8. DebugAsked'
    <3> SUFFICES ASSUME platform # "next", NEW t \in DOMAIN bus, asked[t] \subseteq 0..255
                 PROVE  settings'[t].debug \in asked[t]
      BY <1>1, <2>3 DEF DebugAsked
    <3>1. settings'[t].debug = settings[t].debug
      BY <2>6, <2>7
    <3> QED
      BY <3>1 DEF MInv, DebugAsked
  <2>9. DebugReadsBack' /\ asked' \in [DOMAIN bus -> SUBSET Int]
    BY <2>3 DEF DebugReadsBack, MInv, Lasting
  <2>10. MInv'
    BY <1>1, <1>3, <2>3, <2>6, <2>8, <2>9, ChosenStep
  <2>11. platform # "next" => ChangedAsAsked
    <3>1. IsByteOf(Byte(v), v)
      BY <2>1, ByteType
    <3> QED
      BY <2>4, <2>6, <2>7, <3>1
  <2> QED
    BY <2>10, <2>11
<1> QED
  BY <1>2, <1>3

-----------------------------------------------------------------------------
(* The end of a run, and the next one. *)

LEMMA CloseStep == MInv /\ Close => MInv'
<1> SUFFICES ASSUME MInv, Close PROVE MInv'
  OBVIOUS
<1>1. /\ mpc = "close" /\ mpc' = "exit" /\ pc = "done" /\ IInv /\ CloseAll
      /\ UNCHANGED <<argv, settings, asked, touched, shown>>
  BY DEF MInv, Searched, Close, Exit
<1>2. UNCHANGED <<platform, bus>> /\ pc' = pc
  BY <1>1 DEF CloseAll, world
<1>3. NothingHeldAtExit'
  BY <1>1, AllClosed DEF NothingHeldAtExit
<1>4. Lasting' /\ DebugAsked'
  BY <1>1, <1>2 DEF MInv, Lasting, DebugAsked
<1>5. Searched' /\ DeviceChosen' /\ Untouched' /\ CrashCauses'
  BY <1>1, <1>2 DEF Searched, DeviceChosen, Untouched, CrashCauses
<1>6. OnlyTheAskedDevice'
  <2>1. Arg(1)' = Arg(1)
    BY <1>1 DEF Arg
  <2> QED
    BY <1>1, <1>2, <2>1 DEF MInv, OnlyTheAskedDevice
<1>7. DebugReadsBack'
  BY <1>1, <1>2 DEF MInv, DebugReadsBack
<1> QED
  BY <1>3, <1>4, <1>5, <1>6, <1>7 DEF MInv

LEMMA NextInit == Init' => IInv'
  BY InitIInv, PTL

LEMMA RunAgainStep == MInv /\ RunAgain => MInv'
<1> SUFFICES ASSUME MInv, RunAgain PROVE MInv'
  OBVIOUS
<1>1. /\ mpc' = "args" /\ pc' = "call" /\ argv' \in Lines
      /\ shown' = {} /\ touched' = {}
      /\ UNCHANGED <<platform, bus, settings, asked>>
  BY DEF RunAgain, world
<1>2. Init'
  BY <1>1 DEF MInv, Lasting, RunAgain, Init
<1>3. IInv'
  BY <1>2, NextInit
<1>4. Lasting' /\ DebugAsked'
  BY <1>1 DEF MInv, Lasting, DebugAsked
<1>5. Searched' /\ DeviceChosen' /\ Untouched'
  BY <1>1, <1>3 DEF Searched, DeviceChosen, Untouched
<1>6. NothingHeldAtExit' /\ OnlyTheAskedDevice' /\ DebugReadsBack' /\ CrashCauses'
  BY <1>1 DEF NothingHeldAtExit, OnlyTheAskedDevice, DebugReadsBack, CrashCauses
<1> QED
  BY <1>4, <1>5, <1>6 DEF MInv

LEMMA MainStutters == MInv /\ UNCHANGED allVars => MInv'
<1> SUFFICES ASSUME MInv, UNCHANGED allVars PROVE MInv'
  OBVIOUS
<1>1. UNCHANGED vars /\ UNCHANGED mainVars
  BY DEF allVars, searchVars
<1>2. IInv => IInv'
  BY <1>1, Stutters
<1>3. Arg(1)' = Arg(1) /\ Arg(2)' = Arg(2) /\ Arg(3)' = Arg(3) /\ Matching' = Matching
  BY <1>1 DEF Arg, Matching, vars, world, mainVars
<1>4. Lasting' /\ Searched' /\ DeviceChosen' /\ Untouched' /\ DebugAsked'
  BY <1>1, <1>2, <1>3 DEF MInv, Lasting, Searched, DeviceChosen, Untouched, DebugAsked,
     vars, world, mainVars
<1>5. NothingHeldAtExit' /\ OnlyTheAskedDevice' /\ DebugReadsBack' /\ CrashCauses'
  BY <1>1, <1>3 DEF MInv, NothingHeldAtExit, OnlyTheAskedDevice, DebugReadsBack,
     CrashCauses, vars, world, held, mainVars
<1> QED
  BY <1>4, <1>5 DEF MInv

LEMMA MInvStep == MInv /\ [MainNext]_allVars => MInv'
  BY StartStep, SearchStep, NoDevicesStep, ChooseStep, UnknownStep, InfoStep, ListFilesStep,
     ListImagesStep, TransferStep, ShowDebugStep, SetDebugStep, SetImageStep, CloseStep,
     RunAgainStep, MainStutters DEF MainNext, Run

\* Two commands change a setting, all other steps leave the settings alone.
LEMMA SettingsStep ==
    MInv /\ [MainNext]_allVars => [platform # "next" => ChangedAsAsked]_allVars
<1> SUFFICES ASSUME MInv, MainNext PROVE platform # "next" => ChangedAsAsked
  OBVIOUS
<1>1. CASE ShowDebug \/ SetDebug \/ SetImage
  BY <1>1, ShowDebugStep, SetDebugStep, SetImageStep
<1>2. CASE settings' = settings
  BY <1>2 DEF ChangedAsAsked
<1>3. CASE Start \/ Search \/ NoDevices \/ Choose \/ UnknownCommand \/ Info \/ Close
           \/ RunAgain
  BY <1>2, <1>3 DEF Start, Search, NoDevices, Choose, UnknownCommand, Info, Close, RunAgain,
     mainVars
<1>4. CASE ListFiles \/ ListImages \/ Transfer
  BY <1>2, <1>4 DEF ListFiles, ListImages, Transfer, GetCrashes, Nothing, Exchange
<1> QED
  BY <1>1, <1>3, <1>4 DEF MainNext, Run

\* The opcodes for images.
ImageOps == {TOOLBOX_SCSI_COUNT_CDS, TOOLBOX_SCSI_LIST_CDS}

\* The type the program has for the device chosen is the type it emulates, or the
\* type of a fixed disk.
LEMMA ChosenType ==
    ASSUME MInv, mpc = "command", target_device # 0,
           bus[Target].id <= 7,
           platform = "linux" => \E i \in DOMAIN list : list[i].target = Target /\ list[i].inquired,
           NEW t \in s2s_type(list[target_device])
    PROVE  t \in {Emulates[bus[Target].id], TOOLBOX_DEVICE_TYPE_FIXED}
<1> DEFINE d == list[target_device]
<1>1. target_device \in DOMAIN list /\ Target \in DOMAIN bus
  BY TargetType
<1>2. list \in Seq(Devices) /\ DescribedByOwnId
  BY DEF MInv, Searched, IInv, TypeOK
<1>3. DOMAIN list = 1..Len(list) /\ Len(list) \in Nat
  BY <1>2, LenProperties
<1>4. \A i \in DOMAIN list : list[i].target \in Int
  <2>1. IInv /\ bus \in Seq(Targets)
    BY DiscoveryAssumption DEF MInv, Searched, IInv, TypeOK, DiscoveryAssumption
  <2>2. \A i \in DOMAIN list : list[i] \in Devices
    BY <1>2, <1>3, ElementOfSeq
  <2>3. DOMAIN bus \subseteq Int
    BY <2>1, LenProperties
  <2> QED
    BY <2>2, <2>3 DEF Devices
<1>5. \A i, j \in DOMAIN list : i < j => list[i].target < list[j].target
  BY DEF MInv, Searched, IInv, Complete
<1>6. \A i \in DOMAIN list : list[i].target = Target => i = target_device
  <2> SUFFICES ASSUME NEW i \in DOMAIN list, list[i].target = Target, i # target_device
               PROVE  FALSE
    OBVIOUS
  <2>1. i < target_device \/ target_device < i
    BY <1>1, <1>3
  <2>2. list[i].target < list[target_device].target \/ list[target_device].target < list[i].target
    BY <1>1, <1>5, <2>1
  <2> QED
    BY <1>1, <1>4, <2>2 DEF Target
<1>7. platform = "linux" => d.inquired
  BY <1>6
<1>8. d.s2s_type \in {bus[Target].id, NoType}
  <2>1. bus[Target].id \in 0..15
    <3>1. TypeOK
      BY DEF MInv, Searched, IInv
    <3> QED
      BY <1>1, <3>1, BusType
  <2>2. d.id \in GivenIds(bus[Target], d.inquired)
    BY <1>1, <1>2 DEF DescribedByOwnId, Target
  <2>3. d.id = bus[Target].id
    BY <1>7, <2>1, <2>2 DEF GivenIds
  <2>4. d.s2s_type \in IF d.id > 7 THEN {OutOfArray} ELSE {d.id, NoType}
    BY <1>1, <1>2 DEF DescribedByOwnId
  <2> QED
    BY <2>1, <2>3, <2>4
<1>9. bus[Target].id \in 0..15
  <2>1. TypeOK
    BY DEF MInv, Searched, IInv
  <2> QED
    BY <1>1, <2>1, BusType
<1>10. NoType # OutOfArray /\ bus[Target].id \notin {NoType, OutOfArray}
  BY <1>9 DEF NoType, OutOfArray
<1>11. s2s_type(d) = IF d.s2s_type = NoType THEN {TOOLBOX_DEVICE_TYPE_FIXED}
                     ELSE {Emulates[d.s2s_type]}
  BY <1>8, <1>10 DEF s2s_type
<1> QED
  BY <1>8, <1>11

\* lsimg sends them to the device chosen, if it takes it for an optical drive; no
\* other command does.
LEMMA ListImagesOptical == MInv /\ ListImages => ImagesOfOpticalOnly'
<1> SUFFICES ASSUME MInv, ListImages PROVE ImagesOfOpticalOnly'
  OBVIOUS
<1>1. /\ mpc = "command" /\ touched = {} /\ UNCHANGED <<platform, bus, list>>
  BY DEF ListImages, Command, MInv, Untouched, searchVars, vars, world
<1>2. CASE touched' = {}
  BY <1>2 DEF ImagesOfOpticalOnly
<1>3. CASE touched' # {}
  <2>1. target_device # 0
    BY <1>1, <1>3 DEF ListImages
  <2>2. PICK t \in s2s_type(list[target_device]) :
           IF t = TOOLBOX_DEVICE_TYPE_OPTICAL THEN Exchange(ImageOps) ELSE Nothing
    BY <2>1 DEF ListImages, ImageOps
  <2>3. t = TOOLBOX_DEVICE_TYPE_OPTICAL /\ Exchange(ImageOps)
    BY <1>1, <1>3, <2>2 DEF Nothing
  <2>4. \A x \in touched' : x[1] = Target
    BY <1>1, <2>3 DEF Exchange
  <2>5. SUFFICES ASSUME bus[Target].id <= 7,
                        platform = "linux" =>
                           \E i \in DOMAIN list : list[i].target = Target /\ list[i].inquired
                 PROVE  Emulates[bus[Target].id] = TOOLBOX_DEVICE_TYPE_OPTICAL
    BY <1>1, <2>4 DEF ImagesOfOpticalOnly
  <2> QED
    BY <1>1, <2>1, <2>3, <2>5, ChosenType
       DEF TOOLBOX_DEVICE_TYPE_OPTICAL, TOOLBOX_DEVICE_TYPE_FIXED
<1> QED
  BY <1>2, <1>3

LEMMA ImagesStep ==
    MInv /\ ImagesOfOpticalOnly /\ [MainNext]_allVars => ImagesOfOpticalOnly'
<1> SUFFICES ASSUME MInv, ImagesOfOpticalOnly, [MainNext]_allVars PROVE ImagesOfOpticalOnly'
  OBVIOUS
<1>1. CASE ListImages
  BY <1>1, ListImagesOptical
<1>2. CASE touched' = {}
  BY <1>2 DEF ImagesOfOpticalOnly
<1>3. CASE Start \/ Search \/ NoDevices \/ Choose \/ UnknownCommand \/ Info
  <2>1. mpc \notin {"close", "exit", "crashed"} /\ touched' = touched
    BY <1>3 DEF Start, Search, NoDevices, Choose, Found, UnknownCommand, Info, mainVars
  <2> QED
    BY <1>2, <2>1 DEF MInv, Untouched
<1>4. CASE RunAgain
  BY <1>2, <1>4 DEF RunAgain
<1>5. CASE Close \/ UNCHANGED allVars
  <2>1. UNCHANGED <<platform, bus, touched>> /\ (list' = list \/ list' = <<>>)
    BY <1>5 DEF Close, CloseAll, allVars, searchVars, mainVars, vars, world
  <2>2. CASE list' = list
    BY <2>1, <2>2 DEF ImagesOfOpticalOnly
  <2>3. CASE list' = <<>>
    BY <2>1, <2>3 DEF ImagesOfOpticalOnly
  <2> QED
    BY <2>1, <2>2, <2>3
<1>6. CASE ListFiles \/ Transfer \/ ShowDebug \/ SetDebug \/ SetImage
  <2>1. touched = {}
    BY <1>6 DEF MInv, Untouched, ListFiles, Transfer, ShowDebug, SetDebug, SetImage, Command
  <2>2. \A x \in touched' : x[2] \notin ImageOps
    BY <1>6, <2>1 DEF ListFiles, Transfer, GetCrashes, ListOps, GetOps, PutOps, ShowDebug,
       SetDebug, SetImage, Nothing, Exchange, Issued, GetDebugCmd, SetDebugCmd, SetImageCmd, ReadCmd, PlainCmd, ScsiCmd, ImageOps,
       TOOLBOX_SCSI_COUNT_CDS, TOOLBOX_SCSI_LIST_CDS, TOOLBOX_SCSI_COUNT_FILES,
       TOOLBOX_SCSI_LIST_FILES, TOOLBOX_SCSI_GET_FILE, TOOLBOX_SCSI_SEND_FILE_PREP,
       TOOLBOX_SCSI_SEND_FILE_10, TOOLBOX_SCSI_SEND_FILE_END, TOOLBOX_SCSI_TOGGLE_DEBUG,
       TOOLBOX_SCSI_SET_NEXT_CD
  <2> QED
    BY <2>2 DEF ImagesOfOpticalOnly, ImageOps
<1> QED
  BY <1>1, <1>3, <1>4, <1>5, <1>6 DEF MainNext, Run

-----------------------------------------------------------------------------
(* What info prints. *)

\* The device type: the low five bits of a byte, and their name.
LEMMA TypeName ==
    ASSUME NEW byte \in 0..255
    PROVE  \E high \in 0..7, low \in 0..31 :
              /\ byte = high * 32 + low
              /\ device_type_to_str(device_type(byte)) =
                    IF low > 8 THEN "Unknown" ELSE TypeNames[low + 1]
<1> DEFINE high == byte \div 32
           low  == byte % 32
<1>1. high \in 0..7 /\ low \in 0..31 /\ byte = high * 32 + low
  OBVIOUS
<1>2. DOMAIN TypeNames = 1..9
  BY DEF TypeNames
<1>3. device_type(byte) = low
  BY DEF device_type
<1> HIDE DEF high, low
<1>4. low + 1 \in DOMAIN TypeNames <=> ~(low > 8)
  BY <1>1, <1>2
<1>5. device_type_to_str(low) = IF low > 8 THEN "Unknown" ELSE TypeNames[low + 1]
  BY <1>4 DEF device_type_to_str
<1> QED
  BY <1>1, <1>3, <1>5

LEMMA InfoShows == MInv /\ Info => InfoShowsTheBus'
<1> SUFFICES ASSUME MInv, Info, InfoAll' PROVE InfoShowsTheBus'
  BY DEF InfoShowsTheBus
<1>1. /\ mpc = "command" /\ pc = "done" /\ IInv /\ InfoAll
      /\ UNCHANGED <<platform, bus, failures, faulty>>
  BY DEF Info, MInv, Searched, InfoAll, Arg, searchVars, vars, world
<1>2. /\ DOMAIN rows' = DOMAIN list
      /\ \A i \in DOMAIN list : rows'[i] \in Rows(list[i])
  BY <1>1 DEF Info
<1>3. \A i \in DOMAIN list :
        list[i].target \notin faulty => list[i].inquired /\ list[i].s2s_type # NoType
  BY <1>1 DEF IInv, DescribedByOwnId
<1>4. FindsAll
  BY <1>1, FindsAllHolds
<1>5. \A i \in DOMAIN list : rows'[i].target = list[i].target
  BY <1>2 DEF Rows
<1>6. ASSUME NEW i \in DOMAIN list
      PROVE  list[i].target \in DOMAIN bus /\ bus[list[i].target].id \in 0..15
  <2>1. list[i] \in Devices
    BY <1>1, ElementOfSeq, LenProperties DEF IInv, TypeOK
  <2> QED
    BY <1>1, <2>1, BusType DEF IInv, Devices
<1>7. ASSUME NEW i \in DOMAIN list, list[i].target \notin faulty
      PROVE  \E high \in 0..7, low \in 0..31 :
                /\ InquiryByte[bus[list[i].target].id] = high * 32 + low
                /\ rows'[i].type = IF low > 8 THEN "Unknown" ELSE TypeNames[low + 1]
  <2>1. InquiryByte[bus[list[i].target].id] \in 0..255
    <3>1. bus[list[i].target].id \in 0..15
      BY <1>6
    <3>2. InquiryByte \in [0..15 -> 0..255]
      BY ScsitbAssumption DEF ScsitbAssumption
    <3> QED
      BY <3>1, <3>2, ZenonT(60)
  <2>2. rows'[i].type = device_type_to_str(device_type(InquiryByte[bus[list[i].target].id]))
    BY <1>2, <1>3, <1>7 DEF Rows
  <2> QED
    BY <2>1, <2>2, TypeName
<1>8. ASSUME NEW i \in DOMAIN list, list[i].target \notin faulty, bus[list[i].target].id <= 7
      PROVE  rows'[i].emulation = toolbox_s2s_to_str(Emulates[bus[list[i].target].id])
  <2>1. list[i].s2s_type = bus[list[i].target].id
    <3>1. /\ list[i].id \in GivenIds(bus[list[i].target], list[i].inquired)
          /\ list[i].inquired /\ list[i].s2s_type # NoType
          /\ list[i].s2s_type \in IF list[i].id > 7 THEN {OutOfArray} ELSE {list[i].id, NoType}
      BY <1>1, <1>3, <1>8 DEF IInv, DescribedByOwnId
    <3>2. list[i].id = bus[list[i].target].id
      BY <1>6, <1>8, <3>1 DEF GivenIds
    <3> QED
      BY <1>6, <1>8, <3>1, <3>2
  <2>2. list[i].s2s_type \notin {OutOfArray, NoType}
    BY <1>6, <2>1 DEF OutOfArray, NoType
  <2>3. s2s_type(list[i]) = {Emulates[bus[list[i].target].id]}
    BY <2>1, <2>2 DEF s2s_type
  <2> QED
    BY <1>2, <2>3 DEF Rows
<1>9. \A t : (\E i \in DOMAIN rows' : rows'[i].target = t) <=> t \in Listed
  BY <1>2, <1>5 DEF Listed
<1>10. Wanted' = Wanted
  BY <1>1 DEF Wanted
<1>11. /\ \A i \in DOMAIN rows' : rows'[i].target \in Wanted
       /\ {"opendir", "scsi_generic"} \cap failures = {} =>
             \A t \in Wanted \ faulty : \E i \in DOMAIN rows' : rows'[i].target = t
  BY <1>1, <1>4, <1>9 DEF FindsAll
<1>12. \A i, j \in DOMAIN rows' : i < j => rows'[i].target < rows'[j].target
  BY <1>1, <1>2, <1>4, <1>5 DEF FindsAll
<1>13. \A i \in DOMAIN rows' : rows'[i].target \notin faulty =>
         \E high \in 0..7, low \in 0..31 :
            /\ InquiryByte[bus[rows'[i].target].id] = high * 32 + low
            /\ rows'[i].type = IF low > 8 THEN "Unknown" ELSE TypeNames[low + 1]
  <2> SUFFICES ASSUME NEW i \in DOMAIN rows', rows'[i].target \notin faulty
               PROVE  \E high \in 0..7, low \in 0..31 :
                         /\ InquiryByte[bus[rows'[i].target].id] = high * 32 + low
                         /\ rows'[i].type = IF low > 8 THEN "Unknown" ELSE TypeNames[low + 1]
    OBVIOUS
  <2>1. i \in DOMAIN list
    BY <1>2
  <2>2. rows'[i].target = list[i].target
    BY <1>5, <2>1
  <2>3. \E high \in 0..7, low \in 0..31 :
           /\ InquiryByte[bus[list[i].target].id] = high * 32 + low
           /\ rows'[i].type = IF low > 8 THEN "Unknown" ELSE TypeNames[low + 1]
    BY <1>7, <2>1, <2>2
  <2> QED
    BY <2>2, <2>3
<1>14. \A i \in DOMAIN rows' :
         rows'[i].target \notin faulty /\ bus[rows'[i].target].id <= 7 =>
            rows'[i].emulation = toolbox_s2s_to_str(Emulates[bus[rows'[i].target].id])
  BY <1>2, <1>5, <1>8
<1>15. /\ \A i \in DOMAIN rows' : rows'[i].target \in Wanted'
       /\ {"opendir", "scsi_generic"} \cap failures' = {} =>
             \A t \in Wanted' \ faulty' : \E i \in DOMAIN rows' : rows'[i].target = t
  BY <1>1, <1>10, <1>11
<1>16. \A i \in DOMAIN rows' : rows'[i].target \notin faulty' =>
         \E high \in 0..7, low \in 0..31 :
            /\ InquiryByte[bus'[rows'[i].target].id] = high * 32 + low
            /\ rows'[i].type = IF low > 8 THEN "Unknown" ELSE TypeNames[low + 1]
  BY <1>1, <1>13
<1>17. \A i \in DOMAIN rows' :
         rows'[i].target \notin faulty' /\ bus'[rows'[i].target].id <= 7 =>
            rows'[i].emulation = toolbox_s2s_to_str(Emulates[bus'[rows'[i].target].id])
  BY <1>1, <1>14
<1> QED
  BY <1>12, <1>15, <1>16, <1>17 DEF InfoShowsTheBus

LEMMA InfoShowsStep ==
    MInv /\ InfoShowsTheBus /\ [MainNext]_allVars => InfoShowsTheBus'
<1> SUFFICES ASSUME MInv, InfoShowsTheBus, [MainNext]_allVars PROVE InfoShowsTheBus'
  OBVIOUS
<1>1. CASE Info
  BY <1>1, InfoShows
<1>2. CASE Start \/ Search \/ NoDevices \/ Choose \/ UnknownCommand \/ Close \/ RunAgain
  <2>1. mpc' # "close"
    BY <1>2 DEF Start, Search, NoDevices, Choose, Found, UnknownCommand, Close, RunAgain, Exit,
       mainVars
  <2> QED
    BY <2>1 DEF InfoShowsTheBus
<1>3. CASE ListFiles \/ ListImages \/ Transfer \/ ShowDebug \/ SetDebug \/ SetImage
  <2>1. ~InfoAll /\ argv' = argv
    BY <1>3 DEF ListFiles, ListImages, Transfer, ShowDebug, SetDebug, SetImage, Command
  <2>2. ~InfoAll'
    BY <2>1 DEF InfoAll, Arg
  <2> QED
    BY <2>2 DEF InfoShowsTheBus
<1>4. CASE UNCHANGED allVars
  <2>1. /\ argv' = argv /\ mpc' = mpc /\ rows' = rows
        /\ UNCHANGED <<platform, bus, failures, faulty>>
    BY <1>4 DEF allVars, searchVars, mainVars, vars, world
  <2>2. InfoAll' = InfoAll /\ Wanted' = Wanted
    BY <2>1 DEF InfoAll, Arg, Wanted
  <2>3. CASE ~(mpc = "close" /\ InfoAll)
    BY <2>1, <2>2, <2>3 DEF InfoShowsTheBus
  <2>4. CASE mpc = "close" /\ InfoAll
    <3>1. \A i \in DOMAIN rows : rows[i].target \notin faulty =>
            \E high \in 0..7, low \in 0..31 :
               /\ InquiryByte[bus[rows[i].target].id] = high * 32 + low
               /\ rows[i].type = IF low > 8 THEN "Unknown" ELSE TypeNames[low + 1]
      BY <2>4 DEF InfoShowsTheBus
    <3>2. \A i \in DOMAIN rows' : rows'[i].target \notin faulty' =>
            \E high \in 0..7, low \in 0..31 :
               /\ InquiryByte[bus'[rows'[i].target].id] = high * 32 + low
               /\ rows'[i].type = IF low > 8 THEN "Unknown" ELSE TypeNames[low + 1]
      BY <2>1, <3>1
    <3> QED
      BY <2>1, <2>2, <2>4, <3>2 DEF InfoShowsTheBus
  <2> QED
    BY <2>3, <2>4
<1> QED
  BY <1>1, <1>2, <1>3, <1>4 DEF MainNext, Run

-----------------------------------------------------------------------------
(* The types of main(), which only the exit leaves without the search's own. *)

\* The types of what a step of main() leaves as it is in the search.
LEMMA BusStays == MainNext => UNCHANGED <<world, platform, bus>>
<1> SUFFICES ASSUME MainNext PROVE UNCHANGED world
  BY DEF world
<1>1. CASE Search
  BY <1>1 DEF Search, Next, Call, Entry, Open, OpenFails, MallocFails, OpenByAlias, Probe,
     Capabilities, Inquiry, ListDevices
<1>2. CASE Start \/ NoDevices \/ Choose \/ UnknownCommand \/ Info \/ Close \/ RunAgain
  BY <1>2 DEF Start, NoDevices, Choose, UnknownCommand, Info, Close, CloseAll, RunAgain,
     searchVars, vars
<1>3. CASE ListFiles \/ ListImages \/ Transfer \/ ShowDebug \/ SetDebug \/ SetImage
  BY <1>3 DEF ListFiles, ListImages, Transfer, ShowDebug, SetDebug, SetImage, searchVars, vars
<1> QED
  BY <1>1, <1>2, <1>3 DEF MainNext, Run

LEMMA SearchTypes ==
    ASSUME MInv, TypeOK, MainNext
    PROVE  TypeOK'
<1>1. CASE Search
  BY <1>1, IInvStep DEF Search, MInv, Searched, IInv
<1>2. CASE UNCHANGED vars
  BY <1>2 DEF vars, world, held, TypeOK, Devices
<1>3. CASE CloseAll
  <2>1. list' = <<>> /\ list' \in Seq(Devices')
    BY <1>3, EmptySeq DEF CloseAll
  <2> QED
    BY <1>3, <2>1 DEF CloseAll, TypeOK, Devices, world
<1>4. CASE RunAgain
  <2>1. Init'
    BY <1>4 DEF MInv, Lasting, RunAgain, Init, world
  <2> QED
    BY <2>1, NextInit DEF IInv
<1>5. CASE Start \/ NoDevices \/ Choose \/ UnknownCommand \/ Info \/ Close
  BY <1>2, <1>3, <1>5 DEF Start, NoDevices, Choose, UnknownCommand, Info, Close, searchVars
<1>6. CASE ListFiles \/ ListImages \/ Transfer \/ ShowDebug \/ SetDebug \/ SetImage
  BY <1>2, <1>6 DEF ListFiles, ListImages, Transfer, ShowDebug, SetDebug, SetImage, searchVars
<1> QED
  BY <1>1, <1>4, <1>5, <1>6 DEF MainNext, Run

\* The row of a device of the list.
RowType == [target : DOMAIN bus,
            type : {TypeNames[i] : i \in DOMAIN TypeNames} \cup {"Unknown", "uninitialised"},
            emulation : {EmulationNames[i] : i \in DOMAIN EmulationNames}
                        \cup {"None", "Unknown"}]

LEMMA RowsType ==
    ASSUME NEW d, d.target \in DOMAIN bus
    PROVE  Rows(d) \subseteq RowType
<1>1. \A t : device_type_to_str(t) \in {TypeNames[i] : i \in DOMAIN TypeNames} \cup {"Unknown"}
  BY DEF device_type_to_str
<1>2. \A t : toolbox_s2s_to_str(t) \in {EmulationNames[i] : i \in DOMAIN EmulationNames}
                                       \cup {"None", "Unknown"}
  BY DEF toolbox_s2s_to_str
<1> QED
  BY <1>1, <1>2 DEF Rows, RowType

LEMMA InfoRows ==
    ASSUME MInv, Info
    PROVE  rows' \in Seq(RowType)
<1>1. mpc = "command" /\ IInv
  BY DEF Info, MInv, Searched
<1>2. list \in Seq(Devices) /\ Len(list) \in Nat /\ DOMAIN list = 1..Len(list)
  BY <1>1, LenProperties DEF IInv, TypeOK
<1>3. \A i \in DOMAIN list : list[i].target \in DOMAIN bus
  <2>1. \A i \in DOMAIN list : list[i] \in Devices
    BY <1>2, ElementOfSeq
  <2> QED
    BY <2>1 DEF Devices
<1>4. \A i \in DOMAIN list : Rows(list[i]) \subseteq RowType
  BY <1>3, RowsType
<1>5. target_device # 0 => target_device \in DOMAIN list
  BY <1>1, TargetType
<1> DEFINE printed == IF InfoAll \/ target_device = 0 THEN list ELSE <<list[target_device]>>
           n == IF InfoAll \/ target_device = 0 THEN Len(list) ELSE 1
<1>6. n \in Nat /\ DOMAIN printed = 1..n
  <2>1. CASE InfoAll \/ target_device = 0
    BY <1>2, <2>1
  <2>2. CASE ~(InfoAll \/ target_device = 0)
    <3>1. printed = <<list[target_device]>> /\ n = 1
      BY <2>2
    <3> HIDE DEF printed, n
    <3> QED
      BY <3>1
  <2> QED
    BY <2>1, <2>2
<1>7. \A i \in DOMAIN printed : Rows(printed[i]) \subseteq RowType
  BY <1>4, <1>5
<1>8. DOMAIN rows' = DOMAIN printed /\ rows' = [i \in DOMAIN printed |-> rows'[i]]
      /\ \A i \in DOMAIN printed : rows'[i] \in Rows(printed[i])
  BY DEF Info
<1> HIDE DEF printed, n
<1>9. rows' \in [1..n -> RowType]
  BY <1>6, <1>7, <1>8
<1> QED
  BY <1>6, <1>9, SeqDef

\* The opcodes main()'s commands send are those of the toolbox, and go to a target.
LEMMA TouchedType ==
    ASSUME MInv, MainNext, touched \subseteq (DOMAIN bus) \X (208..218)
    PROVE  touched' \subseteq (DOMAIN bus) \X (208..218)
<1> DEFINE Ops == 208..218
<1>1. CASE touched' = touched \/ touched' = {}
  BY <1>1
<1>2. CASE Start \/ Search \/ NoDevices \/ Choose \/ UnknownCommand \/ Info \/ Close \/ RunAgain
  BY <1>1, <1>2 DEF Start, Search, NoDevices, Choose, UnknownCommand, Info, Close, RunAgain,
     mainVars
<1>sent. ASSUME mpc = "command", target_device # 0, NEW sentOps \in SUBSET Ops,
              touched' = touched \cup ({Target} \X sentOps)
       PROVE  touched' \subseteq (DOMAIN bus) \X Ops
  <2>1. Target \in DOMAIN bus
    BY <1>sent, TargetType
  <2> HIDE DEF Ops
  <2>2. \A op \in sentOps : <<Target, op>> \in (DOMAIN bus) \X Ops
    BY <2>1
  <2>3. ASSUME NEW pair \in {Target} \X sentOps PROVE pair \in (DOMAIN bus) \X Ops
    <3>1. pair = <<Target, pair[2]>> /\ pair[2] \in sentOps
      BY <2>3
    <3> QED
      BY <2>2, <3>1
  <2>4. touched \subseteq (DOMAIN bus) \X Ops
    BY DEF Ops
  <2> QED
    BY <1>sent, <2>3, <2>4
<1>3. ASSUME mpc = "command", target_device # 0, NEW ops \in SUBSET Ops, Exchange(ops)
      PROVE  touched' \subseteq (DOMAIN bus) \X Ops
  <2>1. PICK sentOps \in SUBSET ops : touched' = touched \cup ({Target} \X sentOps)
    BY <1>3 DEF Exchange
  <2>2. sentOps \subseteq Ops
    BY <1>3, <2>1
  <2> QED
    BY <1>3, <1>sent, <2>1, <2>2
<1>4. ASSUME mpc = "command", target_device # 0, NEW c, c.op \in Ops, NEW done, Issued(c, done)
      PROVE  touched' \subseteq (DOMAIN bus) \X Ops
  <2>1. Target \in DOMAIN bus
    BY <1>4, TargetType
  <2> QED
    BY <1>4, <2>1 DEF Issued
<1>5. /\ {TOOLBOX_SCSI_COUNT_FILES, TOOLBOX_SCSI_LIST_FILES} \in SUBSET Ops
      /\ {TOOLBOX_SCSI_COUNT_CDS, TOOLBOX_SCSI_LIST_CDS} \in SUBSET Ops
      /\ ListOps \in SUBSET Ops /\ GetOps \in SUBSET Ops /\ PutOps \in SUBSET Ops
      /\ GetDebugCmd.op \in Ops
      /\ \A v : SetDebugCmd(v).op \in Ops /\ SetImageCmd(v).op \in Ops
  BY DEF ListOps, GetOps, PutOps,
     TOOLBOX_SCSI_COUNT_FILES, TOOLBOX_SCSI_LIST_FILES, TOOLBOX_SCSI_COUNT_CDS,
     TOOLBOX_SCSI_LIST_CDS, TOOLBOX_SCSI_GET_FILE, TOOLBOX_SCSI_SEND_FILE_PREP,
     TOOLBOX_SCSI_SEND_FILE_10, TOOLBOX_SCSI_SEND_FILE_END, GetDebugCmd, SetDebugCmd,
     SetImageCmd, ReadCmd, PlainCmd, ScsiCmd, TOOLBOX_SCSI_TOGGLE_DEBUG,
     TOOLBOX_SCSI_SET_NEXT_CD
<1> HIDE DEF Ops
<1>6. CASE ListFiles
  BY <1>1, <1>3, <1>5, <1>6 DEF ListFiles, Command, Nothing, Ops
<1>7. CASE ListImages
  BY <1>1, <1>3, <1>5, <1>7 DEF ListImages, Command, Nothing, Ops
<1>8. CASE Transfer
  <2>1. CASE Arg(3) = NoWord \/ target_device = 0
    BY <1>1, <1>8, <2>1 DEF Transfer, Nothing, Ops
  <2>2. CASE target_device # 0 /\ (Exchange(GetOps) \/ Exchange(PutOps))
    BY <1>3, <1>5, <1>8, <2>2 DEF Transfer, Command, Ops
  <2>3. CASE target_device # 0 /\ GetCrashes
    <3>1. PICK sentOps \in {ListOps, GetOps} : touched' = touched \cup ({Target} \X sentOps)
      BY <2>3 DEF GetCrashes
    <3>2. sentOps \in SUBSET Ops
      BY <1>5
    <3> QED
      BY <1>8, <1>sent, <2>3, <3>1, <3>2 DEF Transfer, Command, Ops
  <2> QED
    BY <1>8, <2>1, <2>2, <2>3 DEF Transfer, Ops
<1>9. CASE ShowDebug
  BY <1>1, <1>4, <1>5, <1>9 DEF ShowDebug, Command, Nothing, Ops
<1>10. CASE SetDebug
  BY <1>1, <1>4, <1>5, <1>10 DEF SetDebug, Command, Nothing, Ops
<1>11. CASE SetImage
  BY <1>1, <1>4, <1>5, <1>11 DEF SetImage, Command, Nothing, Ops
<1> QED
  BY <1>2, <1>6, <1>7, <1>8, <1>9, <1>10, <1>11 DEF MainNext, Run

\* What is printed of the debug flag is a byte.
LEMMA ShownType ==
    ASSUME MInv, MainNext, shown \subseteq 0..255
    PROVE  shown' \subseteq 0..255
<1>1. CASE ShowDebug
  <2>1. CASE target_device = 0
    BY <1>1, <2>1 DEF ShowDebug, Nothing
  <2>2. CASE target_device # 0
    <3>1. Target \in DOMAIN bus
      BY <1>1, <2>2, TargetType DEF ShowDebug, Command
    <3>2. settings[Target].debug \in 0..255
      BY <3>1 DEF MInv, Lasting
    <3>3. Answer \in 0..255
      BY <3>2 DEF Answer
    <3> QED
      BY <1>1, <2>2, <3>3 DEF ShowDebug
  <2> QED
    BY <2>1, <2>2
<1>2. CASE Start \/ Search \/ NoDevices \/ Choose \/ UnknownCommand \/ Info \/ Close \/ RunAgain
  BY <1>2 DEF Start, Search, NoDevices, Choose, UnknownCommand, Info, Close, RunAgain, mainVars
<1>3. CASE ListFiles \/ ListImages \/ Transfer \/ SetDebug \/ SetImage
  BY <1>3 DEF ListFiles, ListImages, Transfer, GetCrashes, SetDebug, SetImage, Nothing, Exchange
<1> QED
  BY <1>1, <1>2, <1>3 DEF MainNext, Run

LEMMA MainTypesStep == MInv /\ MainTypeOK /\ [MainNext]_allVars => MainTypeOK'
<1>0. MainTypeOK /\ UNCHANGED allVars => MainTypeOK'
  <2> SUFFICES ASSUME MainTypeOK, UNCHANGED allVars PROVE MainTypeOK'
    OBVIOUS
  <2>1. UNCHANGED <<vars, mainVars, platform, bus>>
    BY DEF allVars, searchVars, vars, world
  <2>2. TypeOK'
    BY <2>1 DEF MainTypeOK, TypeOK, Devices, vars, world, held
  <2>3. RowType' = RowType /\ rows' = rows /\ rows \in Seq(RowType)
    BY <2>1 DEF MainTypeOK, RowType, mainVars
  <2>4. rows' \in Seq(RowType')
    BY <2>3
  <2> QED
    BY <2>1, <2>2, <2>4 DEF MainTypeOK, RowType, mainVars
<1> SUFFICES ASSUME MInv, MainTypeOK, MainNext PROVE MainTypeOK'
  BY <1>0
<1>1. UNCHANGED <<platform, bus>>
  BY BusStays
<1>2. MInv'
  BY MInvStep
<1>3. TypeOK'
  BY SearchTypes DEF MainTypeOK
<1>4. /\ mpc' \in {"args", "search", "command", "close", "exit", "crashed"}
      /\ argv' \in Lines
      /\ settings' \in [DOMAIN bus' -> [debug : 0..255, image : 0..255]]
      /\ asked' \in [DOMAIN bus' -> SUBSET Int]
  BY <1>2 DEF MInv, Lasting
<1>5. target_device' \in 0..Len(bus')
  <2>1. CASE Choose
    <3>1. target_device' \in 0..Len(list') /\ mpc' = "command"
      BY <1>2, <2>1 DEF MInv, DeviceChosen, Choose
    <3>2. IInv /\ list' = list
      BY <2>1 DEF MInv, Searched, Choose, Found, searchVars, vars
    <3>3. Len(list) \in 0..Len(bus) /\ Len(bus) \in Nat
      BY <3>2, ListLength, BusType DEF IInv
    <3> QED
      BY <1>1, <3>1, <3>2, <3>3
  <2>2. CASE target_device' \in {target_device, 0}
    <3>1. TypeOK /\ target_device \in 0..Len(bus)
      BY DEF MainTypeOK
    <3>2. Len(bus) \in Nat
      BY <3>1, BusType
    <3> QED
      BY <1>1, <2>2, <3>1, <3>2
  <2>3. CASE Start \/ Search \/ NoDevices \/ UnknownCommand \/ Info \/ Close \/ RunAgain
    BY <2>2, <2>3 DEF Start, Search, NoDevices, UnknownCommand, Info, Close, RunAgain, mainVars
  <2>4. CASE ListFiles \/ ListImages \/ Transfer \/ ShowDebug \/ SetDebug \/ SetImage
    BY <2>2, <2>4 DEF ListFiles, ListImages, Transfer, ShowDebug, SetDebug, SetImage
  <2> QED
    BY <2>1, <2>3, <2>4 DEF MainNext, Run
<1>6. exit_code' \in {NO_ERROR, CMD_FAILED} /\ runs' \in 1..MaxRuns
  <2>1. exit_code' \in {exit_code, NO_ERROR, CMD_FAILED}
    BY DEF MainNext, Run, Start, Search, NoDevices, Choose, UnknownCommand, Info, Close,
       RunAgain, ListFiles, ListImages, Transfer, ShowDebug, SetDebug, SetImage, Exit, mainVars
  <2>2. runs' = runs \/ (runs' = runs + 1 /\ runs < MaxRuns)
    BY DEF MainNext, Run, Start, Search, NoDevices, Choose, UnknownCommand, Info, Close,
       RunAgain, ListFiles, ListImages, Transfer, ShowDebug, SetDebug, SetImage, mainVars
  <2>3. runs \in 1..MaxRuns /\ MaxRuns \in Nat
    BY ScsitbAssumption DEF ScsitbAssumption, MainTypeOK
  <2> QED
    BY <2>1, <2>2, <2>3 DEF MainTypeOK
<1>7. rows' \in Seq(RowType)'
  <2>1. RowType' = RowType
    BY <1>1 DEF RowType
  <2>2. CASE Info
    BY <2>1, <2>2, InfoRows
  <2>3. CASE rows' = rows \/ rows' = <<>>
    <3>1. CASE rows' = rows
      BY <2>1, <3>1 DEF MainTypeOK, RowType
    <3>2. CASE rows' = <<>>
      BY <3>2, EmptySeq
    <3> QED
      BY <2>3, <3>1, <3>2
  <2>4. CASE Start \/ Search \/ NoDevices \/ Choose \/ UnknownCommand \/ Close \/ RunAgain
    BY <2>3, <2>4 DEF Start, Search, NoDevices, Choose, UnknownCommand, Close, RunAgain, mainVars
  <2>5. CASE ListFiles \/ ListImages \/ Transfer \/ ShowDebug \/ SetDebug \/ SetImage
    BY <2>3, <2>5 DEF ListFiles, ListImages, Transfer, GetCrashes, ShowDebug, SetDebug,
       SetImage, Nothing, Exchange
  <2> QED
    BY <2>2, <2>4, <2>5 DEF MainNext, Run
<1>8. shown' \subseteq 0..255 /\ touched' \subseteq (DOMAIN bus') \X (208..218)
  BY <1>1, ShownType, TouchedType DEF MainTypeOK
<1> QED
  BY <1>3, <1>4, <1>5, <1>6, <1>7, <1>8 DEF MainTypeOK, RowType

LEMMA MainInitTypes == MainInit => MainTypeOK
<1> SUFFICES ASSUME MainInit PROVE MainTypeOK
  OBVIOUS
<1>1. MInv
  BY MainInitInv
<1>2. TypeOK /\ Lasting
  BY <1>1 DEF MInv, Searched, IInv, MainInit, Main
<1>3. target_device \in 0..Len(bus)
  <2>1. Len(bus) \in Nat
    BY <1>2, BusType
  <2> QED
    BY <2>1 DEF MainInit, Main
<1>4. runs \in 1..MaxRuns
  BY ScsitbAssumption DEF ScsitbAssumption, MainInit
<1>5. rows \in Seq(RowType)
  BY EmptySeq DEF MainInit, Main
<1> QED
  BY <1>2, <1>3, <1>4, <1>5 DEF MainInit, Main, MainTypeOK, Lasting, RowType

LEMMA MInvariance == MainSpec => []MInv
<1> QED
  BY MainInitInv, MInvStep, PTL DEF MainSpec

-----------------------------------------------------------------------------
(* Scsitb implements Session. *)

\* Behind the search no word asks for help; and behind a command that was to set or
\* show something, a device was served or none that was meant is known.
Heeding ==
    /\ mpc \notin {"args", "exit"} => \A i \in DOMAIN argv : argv[i] \notin HelpWords
    /\ mpc = "close" => ASession!Heeded

\* What a command line asks for is a request.
LEMMA RequestType ==
    ASSUME Lasting
    PROVE  ASession!Requested /\ ASession!Devices = DOMAIN bus
<1>1. DOMAIN settings = DOMAIN bus
  BY DEF Lasting
<1>2. Request.devices \subseteq DOMAIN bus
  BY DEF Request, Wanted
<1>3. /\ Request.shows \in BOOLEAN /\ Request.copies \in BOOLEAN
      /\ Request.heard \in {"whole", "garbled", "refused"}
  BY DEF Request, Heard
<1>4. Arg(3) # NoWord => Byte(Value[Arg(3)]) \in 0..255
  <2>1. 3 \in Nat \ {0} /\ argv \in Lines
    BY DEF Lasting
  <2>2. Arg(3) # NoWord => Arg(3) \in Words
    BY <2>1, ArgType
  <2>3. Arg(3) # NoWord => Value[Arg(3)] \in Int
    BY <2>2, ScsitbAssumption DEF ScsitbAssumption
  <2> QED
    BY <2>3, ByteType
<1>5. \E fields \in SUBSET {"debug", "image"} : Request.changes \in [fields -> 0..255]
  <2> HIDE DEF Byte
  <2>1. CASE Request.changes = <<>>
    <3>1. Request.changes \in [{} -> 0..255]
      BY <2>1
    <3> QED
      BY <3>1
  <2>2. ASSUME NEW b \in 0..255, Request.changes = [debug |-> b]
        PROVE  \E fields \in SUBSET {"debug", "image"} : Request.changes \in [fields -> 0..255]
    <3>1. Request.changes \in [{"debug"} -> 0..255]
      BY <2>2
    <3> QED
      BY <3>1
  <2>3. ASSUME NEW b \in 0..255, Request.changes = [image |-> b]
        PROVE  \E fields \in SUBSET {"debug", "image"} : Request.changes \in [fields -> 0..255]
    <3>1. Request.changes \in [{"image"} -> 0..255]
      BY <2>3
    <3> QED
      BY <3>1
  <2>4. \/ Request.changes = <<>>
        \/ \E b \in 0..255 : Request.changes = [debug |-> b]
        \/ \E b \in 0..255 : Request.changes = [image |-> b]
    <3>1. CASE Arg(2) = "debug" /\ Arg(3) # NoWord
      <4>1. Request.changes = [debug |-> Byte(Value[Arg(3)])]
        BY <3>1 DEF Request, Changes
      <4> QED
        BY <1>4, <3>1, <4>1
    <3>2. CASE Arg(2) = "setimg" /\ Arg(3) # NoWord
      <4>1. Request.changes = [image |-> Byte(Value[Arg(3)])]
        BY <3>2 DEF Request, Changes
      <4> QED
        BY <1>4, <3>2, <4>1
    <3>3. CASE Arg(2) \notin {"debug", "setimg"} \/ Arg(3) = NoWord
      <4>1. Request.changes = <<>>
        BY <3>3 DEF Request, Changes
      <4> QED
        BY <4>1
    <3> QED
      BY <3>1, <3>2, <3>3
  <2> QED
    BY <2>1, <2>2, <2>3, <2>4
<1> QED
  BY <1>1, <1>2, <1>3, <1>5 DEF ASession!Requested, ASession!Devices

\* What a device is changed to that does as it was asked.
LEMMA ChangedIs ==
    ASSUME Lasting, NEW t \in DOMAIN bus
    PROVE  /\ Request.changes = <<>> => ASession!Changed(t) = settings[t]
           /\ \A b : Request.changes = [debug |-> b] =>
                        ASession!Changed(t) = [settings[t] EXCEPT !.debug = b]
           /\ \A b : Request.changes = [image |-> b] =>
                        ASession!Changed(t) = [settings[t] EXCEPT !.image = b]
<1>1. settings[t] \in [debug : 0..255, image : 0..255]
  BY DEF Lasting
<1>2. DOMAIN settings[t] = {"debug", "image"}
      /\ settings[t] = [f \in {"debug", "image"} |-> settings[t][f]]
  BY <1>1
<1>3. Request.changes = <<>> => ASession!Changed(t) = settings[t]
  BY <1>2 DEF ASession!Changed
<1>4. ASSUME NEW b, Request.changes = [debug |-> b]
      PROVE  ASession!Changed(t) = [settings[t] EXCEPT !.debug = b]
  <2>1. DOMAIN Request.changes = {"debug"} /\ Request.changes["debug"] = b
    BY <1>4
  <2>2. ASession!Changed(t) =
          [f \in {"debug", "image"} |-> IF f = "debug" THEN b ELSE settings[t][f]]
    BY <1>2, <2>1 DEF ASession!Changed
  <2> QED
    BY <1>2, <2>2
<1>5. ASSUME NEW b, Request.changes = [image |-> b]
      PROVE  ASession!Changed(t) = [settings[t] EXCEPT !.image = b]
  <2>1. DOMAIN Request.changes = {"image"} /\ Request.changes["image"] = b
    BY <1>5
  <2>2. ASession!Changed(t) =
          [f \in {"debug", "image"} |-> IF f = "image" THEN b ELSE settings[t][f]]
    BY <1>2, <2>1 DEF ASession!Changed
  <2> QED
    BY <1>2, <2>2
<1> QED
  BY <1>3, <1>4, <1>5

\* A search that is through knows of every device at which nothing failed.
LEMMA KnownOrMissed ==
    ASSUME IInv, pc = "done", NEW t \in Request.devices
    PROVE  t \in Missed \/ \E j \in Matching : list[j].target = t
<1>1. t \in Wanted /\ bus[t].id \in Named[Arg(1)]
  BY DEF Request
<1>2. CASE {"opendir", "scsi_generic"} \cap failures # {}
  BY <1>1, <1>2 DEF Missed, Wanted
<1>3. CASE {"opendir", "scsi_generic"} \cap failures = {}
  <2>1. k = Len(bus) /\ Through = 1..k
    BY <1>3 DEF IInv, Complete, Through, Looking
  <2>2. t \in Through
    BY <1>1, <2>1, BusType DEF IInv, Wanted
  <2>3. t \in faulty \/ t \in Listed
    BY <1>1, <2>2 DEF IInv, Complete
  <2> QED
    BY <1>1, <1>3, <2>3 DEF Missed, Listed, Matching
<1> QED
  BY <1>2, <1>3

\* The device chosen is one this run may serve.
LEMMA ChosenIsFirst ==
    ASSUME MInv, Heeding, mpc = "command", ~InfoAll, target_device # 0
    PROVE  Target \in ASession!First
<1>1. /\ IInv /\ pc = "done" /\ target_device \in Matching /\ Arg(2) # NoWord
      /\ \A j \in Matching : target_device <= j
  BY DEF MInv, Searched, DeviceChosen
<1>2. \A i \in DOMAIN argv : argv[i] \notin HelpWords
  BY DEF Heeding
<1>3. /\ Listed \subseteq Wanted
      /\ \A i, j \in DOMAIN list : i < j => list[i].target < list[j].target
  BY <1>1 DEF IInv, Complete
<1>4. /\ list \in Seq(Devices) /\ DOMAIN list = 1..Len(list) /\ Len(list) \in Nat
      /\ DOMAIN bus = 1..Len(bus) /\ Len(bus) \in Nat
  BY <1>1, LenProperties, BusType DEF IInv, TypeOK
<1>5. target_device \in DOMAIN list /\ Target \in Wanted /\ bus[Target].id \in Named[Arg(1)]
  BY <1>1, <1>3 DEF Matching, Target, Listed
<1>6. Target \in Request.devices
  BY <1>1, <1>2, <1>5 DEF Request
<1>7. ASSUME NEW u \in Request.devices, u < Target
      PROVE  u \in Missed
  <2>1. CASE \E j \in Matching : list[j].target = u
    <3>1. PICK j \in Matching : list[j].target = u
      BY <2>1
    <3>2. j \in DOMAIN list /\ target_device <= j
      BY <1>1, <3>1 DEF Matching
    <3>3. u \in Nat /\ Target \in Nat
      BY <1>4, <1>5 DEF Request, Wanted
    <3>4. target_device = j \/ target_device < j
      BY <1>4, <1>5, <3>2
    <3>5. Target = u \/ Target < u
      BY <1>3, <1>5, <3>1, <3>2, <3>4 DEF Target
    <3> QED
      BY <1>7, <3>3, <3>5
  <2> QED
    BY <1>1, <2>1, KnownOrMissed
<1> QED
  BY <1>6, <1>7 DEF ASession!First

\* Without a device chosen, none that is meant is known.
LEMMA NoneIsKnown ==
    ASSUME MInv, mpc = "command", target_device = 0
    PROVE  Request.devices \subseteq Missed
<1>1. IInv /\ pc = "done"
  BY DEF MInv, Searched
<1>2. CASE Arg(2) = NoWord
  BY <1>2 DEF Request
<1>3. CASE Arg(2) # NoWord
  <2>1. Matching = {}
    BY <1>3 DEF MInv, DeviceChosen
  <2> QED
    BY <1>1, <2>1, KnownOrMissed
<1> QED
  BY <1>2, <1>3

\* What a session sees changes with these variables only.
LEMMA SessionSame ==
    ASSUME UNCHANGED <<argv, platform, bus>>
    PROVE  /\ Request' = Request /\ Arg(2)' = Arg(2) /\ InfoAll' = InfoAll
           /\ UNCHANGED <<failures, faulty>> => Missed' = Missed
           /\ touched' = touched => Served' = Served
           /\ \A i : (Arg(i))' = Arg(i)
<1>1. /\ \A i : (Arg(i))' = Arg(i)
      /\ Arg(2)' = Arg(2) /\ InfoAll' = InfoAll
  BY DEF Arg, InfoAll
<1>2. Wanted' = Wanted /\ Changes' = Changes /\ Heard' = Heard
  BY <1>1 DEF Wanted, Changes, Heard
<1>3. Request' = Request
  BY <1>1, <1>2 DEF Request
<1>4. /\ UNCHANGED <<failures, faulty>> => Missed' = Missed
      /\ touched' = touched => Served' = Served
  BY DEF Missed, Served
<1> QED
  BY <1>1, <1>3, <1>4

\* What is missed are devices.
LEMMA MissedTargets ==
    ASSUME IInv, Lasting
    PROVE  Missed \subseteq ASession!Devices
<1>1. k \in 0..Len(bus) /\ faulty \subseteq 1..k
  BY DEF IInv, TypeOK
<1>2. DOMAIN bus = 1..Len(bus) /\ Len(bus) \in Nat
  BY BusType DEF IInv
<1>3. faulty \subseteq DOMAIN bus
  BY <1>1, <1>2
<1> QED
  BY <1>3, RequestType DEF Missed

\* A search only adds to what may have been missed.
LEMMA MissedGrows ==
    ASSUME IInv, Next
    PROVE  /\ Missed \subseteq Missed' /\ Missed' \subseteq DOMAIN bus
           /\ pc # "crashed" /\ UNCHANGED world
<1>1. IInv' /\ UNCHANGED world
  BY IInvStep DEF Next, Call, Entry, Open, OpenFails, MallocFails, OpenByAlias, Probe,
     Capabilities, Inquiry, ListDevices
<1>2. pc # "crashed"
  BY DEF Next, Call, Entry, Open, OpenFails, MallocFails, OpenByAlias, Probe, Capabilities,
     Inquiry, ListDevices, Looking
<1>3. failures \subseteq failures' /\ faulty \subseteq faulty'
  BY DEF Next, Call, Entry, Open, OpenFails, MallocFails, OpenByAlias, Probe, Capabilities,
     Inquiry, ListDevices, Return, Continue, Failed
<1>4. faulty \subseteq DOMAIN bus /\ faulty' \subseteq DOMAIN bus
  <2>1. bus' = bus
    BY <1>1 DEF world
  <2>2. k \in 0..Len(bus) /\ k' \in 0..Len(bus) /\ faulty \subseteq 1..k /\ faulty' \subseteq 1..k'
    BY <1>1, <2>1 DEF IInv, TypeOK
  <2>3. DOMAIN bus = 1..Len(bus) /\ Len(bus) \in Nat
    BY BusType DEF IInv
  <2> QED
    BY <2>2, <2>3
<1> QED
  BY <1>1, <1>2, <1>3, <1>4 DEF Missed, world

\* A command that sends nothing changes nothing of the session.
LEMMA PassedOver ==
    ASSUME MInv, Heeding, mpc = "command", mpc' = "close",
           UNCHANGED <<vars, argv, settings, shown, touched>>,
           \/ target_device = 0 \/ InfoAll
           \/ Request.changes = <<>> /\ ~Request.shows
           \/ Request.heard = "refused"
    PROVE  UNCHANGED ASession!sesVars /\ Heeding'
<1>1. UNCHANGED <<argv, platform, bus, failures, faulty, pc>>
  BY DEF vars, world
<1>2. Request' = Request /\ Missed' = Missed /\ Served' = Served /\ pc = "done"
  BY <1>1, SessionSame DEF MInv, Searched
<1>3. RunStatus' = RunStatus
  BY <1>1, <1>2 DEF RunStatus
<1>4. \/ Request.devices \subseteq Missed
      \/ Request.changes = <<>> /\ ~Request.shows
      \/ Request.heard = "refused"
  BY NoneIsKnown DEF Request
<1>5. ASession!Heeded
  <2>1. Request.changes = <<>> => DOMAIN Request.changes = {}
    OBVIOUS
  <2> QED
    BY <1>4, <2>1 DEF ASession!Heeded
<1>6. Heeding'
  BY <1>1, <1>2, <1>5 DEF Heeding, ASession!Heeded
<1> QED
  BY <1>2, <1>3, <1>6 DEF ASession!sesVars

\* A command that sends something serves the device chosen.
LEMMA Serves ==
    ASSUME MInv, Heeding, mpc = "command", ~InfoAll, target_device # 0,
           mpc' = "close", UNCHANGED <<vars, argv>>,
           touched' # {}, \A x \in touched' : x[1] = Target,
           Request.heard # "refused", ASession!Outcome(Target),
           shown' # {} => Request.shows /\ shown' = {settings'[Target].debug}
    PROVE  ASession!Serve /\ Heeding'
<1>1. UNCHANGED <<argv, platform, bus, failures, faulty, pc>>
  BY DEF vars, world
<1>2. Request' = Request /\ Missed' = Missed /\ pc = "done"
  BY <1>1, SessionSame DEF MInv, Searched
<1>3. RunStatus = "running" /\ RunStatus' = "running"
  BY <1>1, <1>2 DEF RunStatus
<1>4. Served = {} /\ Served' = {Target}
  BY DEF MInv, Untouched, Served
<1>5. Target \in ASession!First
  BY ChosenIsFirst
<1>6. ASession!Serve
  BY <1>2, <1>3, <1>4, <1>5 DEF ASession!Serve
<1>7. Heeding'
  BY <1>1, <1>4 DEF Heeding, ASession!Heeded
<1> QED
  BY <1>6, <1>7

\* The commands that look into the device and change no setting.
LEMMA ExchangeServes ==
    ASSUME MInv, Heeding, mpc = "command", ~InfoAll, target_device # 0,
           NEW ops, Exchange(ops), UNCHANGED <<vars, argv>>,
           Request.changes = <<>>, ~Request.shows, Request.heard = "whole"
    PROVE  [ASession!Serve]_(ASession!sesVars) /\ Heeding'
<1>1. /\ mpc' = "close" /\ UNCHANGED <<settings, shown>>
      /\ \A x \in touched' : x[1] = Target
      /\ shown' = {} /\ touched = {}
  BY DEF Exchange, MInv, Untouched
<1>2. CASE touched' = {}
  BY <1>1, <1>2, PassedOver
<1>3. CASE touched' # {}
  <2>1. ASession!Outcome(Target)
    BY <1>1 DEF ASession!Outcome
  <2> QED
    BY <1>1, <1>3, <2>1, Serves
<1> QED
  BY <1>2, <1>3

\* The commands that change a setting or show one.
LEMMA IssuedServes ==
    ASSUME MInv, Heeding, mpc = "command", ~InfoAll, target_device # 0,
           NEW c, NEW done, Issued(c, done), mpc' = "close", UNCHANGED <<vars, argv>>,
           Request.heard # "refused",
           \/ Refused(platform, c)
           \/ Kept(settings[Target], OnWire(platform, c))
                 \in {settings[Target], ASession!Changed(Target)}
           \/ Request.heard = "garbled",
           \A s \in [debug : 0..255, image : 0..255] :
              Kept(s, OnWire(platform, c)) \in [debug : 0..255, image : 0..255],
           shown' # {} => Request.shows /\ shown' = {settings'[Target].debug}
    PROVE  ASession!Serve /\ Heeding'
<1>1. touched' = {<<Target, c.op>>}
  BY DEF Issued, MInv, Untouched
<1>2. settings \in [DOMAIN bus -> [debug : 0..255, image : 0..255]] /\ Target \in DOMAIN bus
  BY TargetType DEF MInv, Lasting
<1>3. [settings EXCEPT ![Target] = settings[Target]] = settings
  BY <1>2
<1>4. CASE Request.heard = "whole"
  <2>1. settings' \in {settings, [settings EXCEPT ![Target] = ASession!Changed(Target)]}
    BY <1>3, <1>4 DEF Issued
  <2> QED
    BY <1>1, <1>4, <2>1, Serves DEF ASession!Outcome
<1>5. CASE Request.heard = "garbled"
  <2>1. /\ settings' \in [DOMAIN bus -> [debug : 0..255, image : 0..255]]
        /\ \A t \in DOMAIN bus : t # Target => settings'[t] = settings[t]
    BY IssuedKeeps
  <2>2. ASession!Devices = DOMAIN bus
    BY <1>2 DEF ASession!Devices
  <2>3. ASession!Outcome(Target)
    BY <1>5, <2>1, <2>2 DEF ASession!Outcome
  <2> QED
    BY <1>1, <1>5, <2>3, Serves
<1>6. Request.heard \in {"whole", "garbled", "refused"}
  BY DEF Request, Heard
<1> QED
  BY <1>4, <1>5, <1>6

LEMMA ShowDebugServes ==
    ASSUME MInv, Heeding, ShowDebug
    PROVE  [ASession!Serve]_(ASession!sesVars) /\ Heeding'
<1>1. /\ mpc = "command" /\ ~InfoAll /\ Arg(2) = "debug" /\ Arg(3) = NoWord
      /\ mpc' = "close" /\ UNCHANGED <<vars, argv>>
  BY DEF ShowDebug, Command, Nothing, searchVars
<1>2. CASE target_device = 0
  <2>1. UNCHANGED <<settings, shown, touched>>
    BY <1>2 DEF ShowDebug, Nothing
  <2> QED
    BY <1>1, <1>2, <2>1, PassedOver
<1>3. CASE target_device # 0
  <2>1. PICK done \in BOOLEAN :
           /\ Issued(GetDebugCmd, done)
           /\ shown' = IF done THEN {Answer} ELSE {}
    BY <1>3 DEF ShowDebug
  <2>2. Lasting /\ Target \in DOMAIN bus
        /\ settings \in [DOMAIN bus -> [debug : 0..255, image : 0..255]]
    BY <1>1, <1>3, TargetType DEF MInv, Lasting
  <2>3. settings[Target] \in [debug : 0..255, image : 0..255]
    BY <2>2
  <2> DEFINE new == Kept(settings[Target], OnWire(platform, GetDebugCmd))
  <2>4. new = IF platform = "next" THEN [settings[Target] EXCEPT !.debug = 0]
              ELSE settings[Target]
    BY ShownSettings
  <2>5. Answer = new.debug
    <3>1. Answer = IF platform = "next" THEN 0 ELSE settings[Target].debug
      BY DEF Answer, OnWire, WireArgs, GetDebugCmd, ReadCmd, ScsiCmd, TOOLBOX_SCSI_DEBUG_GET
    <3> QED
      BY <2>3, <2>4, <3>1
  <2>6. /\ new = settings[Target] \/ Request.heard = "garbled"
        /\ Request.heard # "refused"
    BY <1>1, <2>4 DEF Request, Heard
  <2>7. done => settings'[Target] = new
    BY <2>1, <2>2 DEF Issued
  <2>8. shown' # {} => Request.shows /\ shown' = {settings'[Target].debug}
    BY <1>1, <2>1, <2>5, <2>7 DEF Request
  <2>9. \A s \in [debug : 0..255, image : 0..255] :
           Kept(s, OnWire(platform, GetDebugCmd)) \in [debug : 0..255, image : 0..255]
    BY ShownSettings
  <2> QED
    BY <1>1, <1>3, <2>1, <2>6, <2>8, <2>9, IssuedServes
<1> QED
  BY <1>2, <1>3

LEMMA SetDebugServes ==
    ASSUME MInv, Heeding, SetDebug
    PROVE  [ASession!Serve]_(ASession!sesVars) /\ Heeding'
<1>1. /\ mpc = "command" /\ ~InfoAll /\ Arg(2) = "debug" /\ Arg(3) # NoWord
      /\ mpc' = "close" /\ UNCHANGED <<vars, argv, shown>>
  BY DEF SetDebug, Command, Nothing, searchVars
<1>2. CASE target_device = 0
  <2>1. UNCHANGED <<settings, touched>>
    BY <1>2 DEF SetDebug, Nothing
  <2> QED
    BY <1>1, <1>2, <2>1, PassedOver
<1>3. CASE target_device # 0
  <2> DEFINE v == Value[Arg(3)]
  <2>1. PICK done \in BOOLEAN : Issued(SetDebugCmd(v), done)
    BY <1>3 DEF SetDebug
  <2>2. Lasting /\ Target \in DOMAIN bus
        /\ settings \in [DOMAIN bus -> [debug : 0..255, image : 0..255]]
    BY <1>1, <1>3, TargetType DEF MInv, Lasting
  <2>3. settings[Target] \in [debug : 0..255, image : 0..255]
    BY <2>2
  <2>4. v \in Int
    <3>1. 3 \in Nat \ {0} /\ argv \in Lines
      BY <2>2 DEF Lasting
    <3>2. Arg(3) \in Words
      BY <1>1, <3>1, ArgType
    <3> QED
      BY <3>2, ScsitbAssumption DEF ScsitbAssumption
  <2>5. /\ Request.changes = [debug |-> Byte(v)]
        /\ platform = "next" => Request.heard = "garbled"
        /\ Request.heard # "refused"
    BY <1>1 DEF Request, Changes, Heard
  <2> HIDE DEF v
  <2>6. \A s \in [debug : 0..255, image : 0..255] :
          /\ Kept(s, OnWire(platform, SetDebugCmd(v))) \in [debug : 0..255, image : 0..255]
          /\ platform # "next" =>
                Kept(s, OnWire(platform, SetDebugCmd(v))) = [s EXCEPT !.debug = Byte(v)]
    BY <2>4, KeptSettings
  <2>7. platform # "next" =>
          Kept(settings[Target], OnWire(platform, SetDebugCmd(v))) = ASession!Changed(Target)
    BY <2>2, <2>3, <2>5, <2>6, ChangedIs
  <2>8. shown' = {}
    BY <1>1 DEF MInv, Untouched
  <2> QED
    BY <1>1, <1>3, <2>1, <2>5, <2>6, <2>7, <2>8, IssuedServes
<1> QED
  BY <1>2, <1>3

LEMMA SetImageServes ==
    ASSUME MInv, Heeding, SetImage
    PROVE  [ASession!Serve]_(ASession!sesVars) /\ Heeding'
<1>1. /\ mpc = "command" /\ ~InfoAll /\ Arg(2) = "setimg"
      /\ mpc' = "close" /\ UNCHANGED <<vars, argv, shown>>
      /\ ~Request.shows
  BY DEF SetImage, Command, Nothing, searchVars, Request
<1>2. CASE Arg(3) \in Single \cup {NoWord} \/ target_device = 0
  <2>1. UNCHANGED <<settings, touched>>
    BY <1>2 DEF SetImage, Nothing
  <2>2. Request.changes = <<>> \/ Request.heard = "refused" \/ target_device = 0
    BY <1>1, <1>2 DEF Request, Changes, Heard
  <2> QED
    BY <1>1, <2>1, <2>2, PassedOver
<1>3. CASE ~(Arg(3) \in Single \cup {NoWord} \/ target_device = 0)
  <2> DEFINE v == Value[Arg(3)]
  <2>1. PICK done \in BOOLEAN : Issued(SetImageCmd(v), done)
    BY <1>3 DEF SetImage
  <2>2. Lasting /\ Target \in DOMAIN bus
        /\ settings \in [DOMAIN bus -> [debug : 0..255, image : 0..255]]
    BY <1>1, <1>3, TargetType DEF MInv, Lasting
  <2>3. settings[Target] \in [debug : 0..255, image : 0..255]
    BY <2>2
  <2>4. v \in Int
    <3>1. 3 \in Nat \ {0} /\ argv \in Lines
      BY <2>2 DEF Lasting
    <3>2. Arg(3) \in Words
      BY <1>3, <3>1, ArgType
    <3> QED
      BY <3>2, ScsitbAssumption DEF ScsitbAssumption
  <2>5. Request.changes = [image |-> Byte(v)] /\ Request.heard = "whole"
    BY <1>1, <1>3 DEF Request, Changes, Heard
  <2> HIDE DEF v
  <2>6. \A s \in [debug : 0..255, image : 0..255] :
          /\ Kept(s, OnWire(platform, SetImageCmd(v))) \in [debug : 0..255, image : 0..255]
          /\ platform # "next" =>
                Kept(s, OnWire(platform, SetImageCmd(v))) = [s EXCEPT !.image = Byte(v)]
    BY <2>4, KeptSettings
  <2>7. platform # "next" =>
           Kept(settings[Target], OnWire(platform, SetImageCmd(v))) = ASession!Changed(Target)
    BY <2>2, <2>3, <2>5, <2>6, ChangedIs
  <2>8. platform = "next" => Refused(platform, SetImageCmd(v))
    BY DEF Refused, SetImageCmd, ScsiCmd
  <2>9. shown' = {}
    BY <1>1 DEF MInv, Untouched
  <2> QED
    BY <1>1, <1>3, <2>1, <2>5, <2>6, <2>7, <2>8, <2>9, IssuedServes
<1> QED
  BY <1>2, <1>3

\* A get that crashes has served the device chosen, and changed no setting.
LEMMA CrashServes ==
    ASSUME MInv, Heeding, mpc = "command", ~InfoAll, target_device # 0,
           Arg(2) = "get", Arg(3) # NoWord, GetCrashes, UNCHANGED <<vars, argv>>
    PROVE  ASession!Crash /\ Heeding'
<1>1. PICK sentOps \in {ListOps, GetOps} : touched' = touched \cup ({Target} \X sentOps)
  BY DEF GetCrashes
<1>2. mpc' = "crashed" /\ UNCHANGED <<settings, shown>>
  BY DEF GetCrashes
<1>3. UNCHANGED <<argv, platform, bus, failures, faulty, pc>> /\ pc = "done"
  BY DEF vars, world, MInv, Searched
<1>4. Request' = Request /\ Missed' = Missed
  BY <1>3, SessionSame
<1>5. RunStatus = "running" /\ RunStatus' = "crashed"
  BY <1>2, <1>3 DEF RunStatus
<1>6. Served = {} /\ Served' = {Target}
  <2>1. touched = {}
    BY DEF MInv, Untouched
  <2>2. <<Target, TOOLBOX_SCSI_LIST_FILES>> \in touched'
    BY <1>1 DEF ListOps, GetOps
  <2>3. \A x \in touched' : x[1] = Target
    BY <1>1, <2>1
  <2> QED
    BY <2>1, <2>2, <2>3 DEF Served
<1>7. Target \in ASession!First
  BY ChosenIsFirst
<1>8. Request.copies
  BY DEF Request
<1>9. ASession!Crash
  BY <1>2, <1>4, <1>5, <1>6, <1>7, <1>8 DEF ASession!Crash
<1>10. Heeding'
  BY <1>2, <1>3 DEF Heeding
<1> QED
  BY <1>9, <1>10

\* The listings and the transfers, and info.
LEMMA OthersServe ==
    ASSUME MInv, Heeding, ListFiles \/ ListImages \/ Transfer \/ Info
    PROVE  [ASession!Next]_(ASession!sesVars) /\ Heeding'
<1>1. mpc = "command" /\ UNCHANGED <<vars, argv>>
  BY DEF ListFiles, ListImages, Transfer, Info, Command, searchVars
<1>2. ASSUME ~InfoAll, Arg(2) \in {"lsdir", "lsimg", "get", "put", "info"}
      PROVE  Request.changes = <<>> /\ ~Request.shows /\ Request.heard = "whole"
  BY <1>2 DEF Request, Changes, Heard
<1>3. ASSUME ~InfoAll, Arg(2) \in {"lsdir", "lsimg", "get", "put"}, Nothing
      PROVE  [ASession!Next]_(ASession!sesVars) /\ Heeding'
  BY <1>1, <1>2, <1>3, PassedOver DEF Nothing
<1>4. ASSUME ~InfoAll, Arg(2) \in {"lsdir", "lsimg", "get", "put"}, target_device # 0,
             NEW ops, Exchange(ops)
      PROVE  [ASession!Next]_(ASession!sesVars) /\ Heeding'
  BY <1>1, <1>2, <1>4, ExchangeServes DEF ASession!Next
<1>5. CASE ListFiles
  BY <1>3, <1>4, <1>5 DEF ListFiles, Command
<1>6. CASE Transfer
  <2>1. CASE Arg(3) = NoWord \/ target_device = 0
    BY <1>3, <1>6, <2>1 DEF Transfer, Command
  <2>2. CASE target_device # 0 /\ (Exchange(GetOps) \/ Exchange(PutOps))
    BY <1>4, <1>6, <2>2 DEF Transfer, Command
  <2>3. CASE Arg(2) = "get" /\ Arg(3) # NoWord /\ target_device # 0 /\ GetCrashes
    BY <1>1, <1>6, <2>3, CrashServes DEF Transfer, Command, ASession!Next
  <2> QED
    BY <1>6, <2>1, <2>2, <2>3 DEF Transfer
<1>7. CASE ListImages /\ target_device # 0
  BY <1>3, <1>4, <1>7 DEF ListImages, Command
<1>8. CASE ListImages /\ target_device = 0
  <2>1. mpc' = "crashed" /\ UNCHANGED <<settings, shown, touched>>
    BY <1>8 DEF ListImages
  <2>2. UNCHANGED <<argv, platform, bus, failures, faulty, pc>> /\ pc = "done"
    BY <1>1 DEF vars, world, MInv, Searched
  <2>3. Request' = Request /\ Missed' = Missed /\ Served' = Served
    BY <2>1, <2>2, SessionSame
  <2>4. RunStatus = "running" /\ RunStatus' = "crashed"
    BY <1>1, <2>1, <2>2 DEF RunStatus
  <2>5. Missed \subseteq ASession!Devices
    <3>1. IInv /\ Lasting
      BY <1>1 DEF MInv, Searched
    <3> QED
      BY <3>1, MissedTargets
  <2>6. Served = {} /\ settings' = settings
    BY <1>1, <2>1 DEF MInv, Untouched, Served
  <2>7. ASession!Crash
    BY <2>1, <2>3, <2>4, <2>5, <2>6 DEF ASession!Crash, ASession!Misses, ASession!Devices
  <2>8. Heeding'
    BY <1>1, <2>1, <2>2 DEF Heeding
  <2> QED
    BY <2>7, <2>8 DEF ASession!Next
<1>9. CASE Info
  <2>1. mpc' = "close" /\ UNCHANGED <<settings, shown, touched>> /\ (InfoAll \/ Arg(2) = "info")
    BY <1>9 DEF Info
  <2> QED
    BY <1>1, <1>2, <2>1, PassedOver
<1> QED
  BY <1>5, <1>6, <1>7, <1>8, <1>9

\* Up to the choice: what fails is missed, and nothing is served.
LEMMA SearchMisses ==
    ASSUME MInv, Heeding, Search
    PROVE  [ASession!Next]_(ASession!sesVars) /\ Heeding'
<1>1. /\ mpc = "search" /\ Next /\ UNCHANGED mainVars /\ IInv /\ Lasting
  BY DEF Search, MInv, Searched
<1>2. Missed \subseteq Missed' /\ Missed' \subseteq DOMAIN bus /\ pc # "crashed"
      /\ UNCHANGED <<platform, bus, argv, settings, shown, touched, mpc>>
  BY <1>1, MissedGrows DEF world, mainVars
<1>3. Request' = Request /\ Served' = Served /\ Served = {}
  BY <1>1, <1>2, SessionSame DEF MInv, Untouched, Served
<1>4. RunStatus = "running" /\ RunStatus' \in {"running", "crashed"}
  BY <1>1, <1>2 DEF RunStatus
<1>5. ASession!Misses
  BY <1>1, <1>2 DEF ASession!Misses, ASession!Devices, Lasting
<1>6. ASession!Miss \/ ASession!Crash
  BY <1>2, <1>3, <1>4, <1>5 DEF ASession!Miss, ASession!Crash
<1>7. Heeding'
  BY <1>1, <1>2 DEF Heeding
<1> QED
  BY <1>6, <1>7 DEF ASession!Next

\* A run that ends has not passed over a device it knows of.
LEMMA Ends ==
    ASSUME MInv, Heeding, pc # "crashed", mpc \notin {"exit", "crashed"}, mpc' = "exit",
           UNCHANGED <<argv, platform, bus, failures, faulty, pc, settings, shown, touched>>,
           \/ exit_code' = NO_ERROR
           \/ touched = {} /\ exit_code' = CMD_FAILED,
           ASession!Heeded
    PROVE  [ASession!Next]_(ASession!sesVars) /\ Heeding'
<1>1. Request' = Request /\ Missed' = Missed /\ Served' = Served
  BY SessionSame
<1>2. RunStatus = "running" /\ RunStatus' = IF exit_code' = NO_ERROR THEN "done" ELSE "failed"
  BY DEF RunStatus
<1>3. touched = {} => Served = {}
  BY DEF Served
<1>4. ASession!End
  BY <1>1, <1>2, <1>3 DEF ASession!End
<1>5. Heeding'
  BY DEF Heeding
<1> QED
  BY <1>4, <1>5 DEF ASession!Next

LEMMA StartSteps ==
    ASSUME MInv, Heeding, Start
    PROVE  [ASession!Next]_(ASession!sesVars) /\ Heeding'
<1>1. /\ mpc = "args" /\ pc = "call" /\ touched = {}
      /\ UNCHANGED <<argv, platform, bus, failures, faulty, pc, settings, shown, touched>>
  BY DEF Start, MInv, Searched, Untouched, searchVars, vars, world
<1>2. CASE argv = <<>> \/ \E i \in DOMAIN argv : argv[i] \in HelpWords
  <2>1. Request.devices = {}
    <3>1. argv = <<>> => Arg(2) = NoWord
      BY DEF Arg
    <3> QED
      BY <1>2, <3>1 DEF Request
  <2>2. ASession!Heeded
    BY <2>1 DEF ASession!Heeded
  <2>3. mpc' = "exit" /\ exit_code' = NO_ERROR
    BY <1>2 DEF Start, Exit
  <2> QED
    BY <1>1, <2>2, <2>3, Ends
<1>3. CASE ~(argv = <<>> \/ \E i \in DOMAIN argv : argv[i] \in HelpWords)
  <2>1. mpc' = "search"
    BY <1>3 DEF Start
  <2>2. Request' = Request /\ Missed' = Missed /\ Served' = Served
    BY <1>1, SessionSame
  <2>3. RunStatus' = RunStatus
    BY <1>1, <2>1 DEF RunStatus
  <2>4. Heeding'
    BY <1>1, <1>3, <2>1 DEF Heeding
  <2> QED
    BY <1>1, <2>2, <2>3, <2>4 DEF ASession!sesVars
<1> QED
  BY <1>2, <1>3

LEMMA ChoiceSteps ==
    ASSUME MInv, Heeding, NoDevices \/ Choose \/ UnknownCommand
    PROVE  [ASession!Next]_(ASession!sesVars) /\ Heeding'
<1>1. /\ mpc = "search" /\ pc = "done" /\ touched = {} /\ IInv /\ Lasting
      /\ UNCHANGED <<argv, platform, bus, failures, faulty, pc, settings, shown, touched>>
  BY DEF NoDevices, Choose, UnknownCommand, Found, CloseAll, MInv, Searched, Untouched,
     searchVars, vars, world
<1>2. CASE NoDevices
  <2>1. mpc' = "exit" /\ exit_code' = CMD_FAILED /\ Matching = {}
    BY <1>2 DEF NoDevices, Exit, Matching
  <2>2. ASession!Heeded
    BY <1>1, <2>1, KnownOrMissed DEF ASession!Heeded
  <2> QED
    BY <1>1, <2>1, <2>2, Ends
<1>3. CASE Choose
  <2>1. mpc' = "command"
    BY <1>3 DEF Choose
  <2>2. Request' = Request /\ Missed' = Missed /\ Served' = Served
    BY <1>1, SessionSame
  <2>3. RunStatus' = RunStatus
    BY <1>1, <2>1 DEF RunStatus
  <2>4. Heeding'
    BY <1>1, <2>1 DEF Heeding
  <2> QED
    BY <1>1, <2>2, <2>3, <2>4 DEF ASession!sesVars
<1>4. CASE UnknownCommand /\ mpc' = "exit"
  <2>1. Request.changes = <<>> /\ ~Request.shows
    BY <1>4 DEF UnknownCommand, CommandWords, Request, Changes
  <2>2. ASession!Heeded
    <3>1. DOMAIN Request.changes = {}
      BY <2>1
    <3> QED
      BY <2>1, <3>1 DEF ASession!Heeded
  <2>3. exit_code' = CMD_FAILED
    BY <1>4 DEF UnknownCommand, Exit
  <2> QED
    BY <1>1, <1>4, <2>2, <2>3, Ends
<1>5. CASE UnknownCommand /\ mpc' # "exit"
  <2>1. mpc' = "crashed"
    BY <1>5 DEF UnknownCommand, Exit
  <2>2. Request' = Request /\ Missed' = Missed /\ Served' = Served /\ Served = {}
    BY <1>1, SessionSame DEF Served
  <2>3. RunStatus = "running" /\ RunStatus' = "crashed"
    BY <1>1, <2>1 DEF RunStatus
  <2>4. ASession!Crash
    BY <1>1, <2>2, <2>3, MissedTargets DEF ASession!Crash, ASession!Misses
  <2>5. Heeding'
    BY <1>1, <2>1 DEF Heeding
  <2> QED
    BY <2>4, <2>5 DEF ASession!Next
<1> QED
  BY <1>2, <1>3, <1>4, <1>5

LEMMA CloseEnds ==
    ASSUME MInv, Heeding, Close
    PROVE  [ASession!Next]_(ASession!sesVars) /\ Heeding'
<1>1. /\ mpc = "close" /\ mpc' = "exit" /\ exit_code' = NO_ERROR /\ pc = "done"
      /\ UNCHANGED <<argv, platform, bus, failures, faulty, pc, settings, shown, touched>>
  BY DEF Close, Exit, CloseAll, MInv, Searched, vars, world
<1>2. ASession!Heeded
  BY <1>1 DEF Heeding
<1> QED
  BY <1>1, <1>2, Ends

\* The next run is asked for something else, and finds the settings.
LEMMA NextRequest == Lasting' => ASession!Requested'
  BY RequestType, PTL

LEMMA AgainStarts ==
    ASSUME MInv, Heeding, RunAgain
    PROVE  [ASession!Next]_(ASession!sesVars) /\ Heeding'
<1>1. MInv'
  BY RunAgainStep
<1>2. ASession!Requested'
  BY <1>1, NextRequest DEF MInv
<1>3. Missed' = {} /\ Served' = {} /\ shown' = {} /\ settings' = settings
  BY DEF RunAgain, Missed, Served
<1>4. RunStatus # "running" /\ RunStatus' = "running"
  BY DEF RunAgain, RunStatus
<1>5. ASession!Again
  BY <1>2, <1>3, <1>4 DEF ASession!Again, ASession!Start
<1>6. Heeding'
  BY DEF RunAgain, Heeding
<1> QED
  BY <1>5, <1>6 DEF ASession!Next

LEMMA SessionStep ==
    MInv /\ Heeding /\ [MainNext]_allVars => [ASession!Next]_(ASession!sesVars) /\ Heeding'
<1> SUFFICES ASSUME MInv, Heeding, [MainNext]_allVars
             PROVE  [ASession!Next]_(ASession!sesVars) /\ Heeding'
  OBVIOUS
<1>1. CASE UNCHANGED allVars
  <2>1. UNCHANGED <<argv, platform, bus, failures, faulty, pc, settings, shown, touched, mpc,
                    exit_code>>
    BY <1>1 DEF allVars, searchVars, vars, world, mainVars
  <2>2. Request' = Request /\ Missed' = Missed /\ Served' = Served
    BY <2>1, SessionSame
  <2>3. RunStatus' = RunStatus
    BY <2>1 DEF RunStatus
  <2>4. Heeding'
    BY <2>1, <2>2 DEF Heeding, ASession!Heeded
  <2> QED
    BY <2>1, <2>2, <2>3, <2>4 DEF ASession!sesVars
<1>2. CASE ShowDebug \/ SetDebug \/ SetImage
  BY <1>2, ShowDebugServes, SetDebugServes, SetImageServes DEF ASession!Next
<1>3. CASE ListFiles \/ ListImages \/ Transfer \/ Info
  BY <1>3, OthersServe
<1>4. CASE Start \/ Search \/ NoDevices \/ Choose \/ UnknownCommand \/ Close \/ RunAgain
  BY <1>4, StartSteps, SearchMisses, ChoiceSteps, CloseEnds, AgainStarts
<1> QED
  BY <1>1, <1>2, <1>3, <1>4 DEF MainNext, Run

LEMMA SessionInit == MainInit => ASession!Init /\ Heeding
<1> SUFFICES ASSUME MainInit PROVE ASession!Init /\ Heeding
  OBVIOUS
<1>1. Lasting
  BY MainInitInv DEF MInv
<1>2. ASession!Requested /\ ASession!Devices = DOMAIN bus
  BY <1>1, RequestType
<1>3. settings = [t \in DOMAIN bus |-> [debug |-> 0, image |-> 0]]
  BY DEF MainInit
<1>4. Missed = {} /\ Served = {} /\ shown = {} /\ RunStatus = "running" /\ mpc = "args"
  BY DEF MainInit, Main, Init, Missed, Served, RunStatus
<1> QED
  BY <1>2, <1>3, <1>4 DEF ASession!Init, ASession!Start, Heeding

-----------------------------------------------------------------------------
(* The theorems. *)

\* Through any number of runs the variables of main() keep their types: what it has
\* chosen is a place in a list that is never longer than the bus, what it has sent
\* are toolbox commands to targets, and what it prints are names it knows.
THEOREM MainTypeCorrect == MainSpec => []MainTypeOK
<1> QED
  BY MainInitTypes, MainTypesStep, MInvariance, PTL DEF MainSpec

\* Whichever way main() returns, every device that is still in the list is freed
\* and closed; only the search can lose a handle, when memory runs out.
THEOREM NothingHeldCorrect == MainSpec => []NothingHeldAtExit
<1>1. MInv => NothingHeldAtExit
  BY DEF MInv
<1> QED
  BY <1>1, MInvariance, PTL

\* One run sends its commands to one device at most, whose name has the word in
\* it that was given; on any bus, with any names.
THEOREM OnlyAskedCorrect == MainSpec => []OnlyTheAskedDevice
<1>1. MInv => OnlyTheAskedDevice
  BY DEF MInv
<1> QED
  BY <1>1, MInvariance, PTL

\* What debug prints is a value that was asked for, in whichever run: where one-byte
\* numbers are asked for, and not on NeXT.
THEOREM DebugReadsBackCorrect == MainSpec => []DebugReadsBack
<1>1. MInv => DebugReadsBack
  BY DEF MInv
<1> QED
  BY <1>1, MInvariance, PTL

\* The program crashes only on a command line of one word, on lsimg for a device
\* that is not there, in a get of a file that has listed the files of its device, and
\* when memory runs out.
THEOREM CrashCausesCorrect == MainSpec => []CrashCauses
<1>1. MInv => CrashCauses
  BY DEF MInv
<1> QED
  BY <1>1, MInvariance, PTL

\* A device whose id the array of types is made for is asked for images only if it
\* emulates an optical drive.
THEOREM ImagesCorrect == MainSpec => []ImagesOfOpticalOnly
<1>1. MainInit => ImagesOfOpticalOnly
  BY DEF MainInit, Main, ImagesOfOpticalOnly
<1> QED
  BY <1>1, ImagesStep, MInvariance, PTL DEF MainSpec

\* On any bus, info prints every toolbox device at which nothing failed, once and in
\* order, with the type of its own INQUIRY data and the type it emulates, whatever
\* failed at the others; and no other device but toolbox devices.
THEOREM InfoCorrect == MainSpec => []InfoShowsTheBus
<1>1. MainInit => InfoShowsTheBus
  BY DEF MainInit, Main, InfoShowsTheBus
<1> QED
  BY <1>1, InfoShowsStep, MInvariance, PTL DEF MainSpec

\* The settings of every device change as the command line asks, or not at all, but
\* on NeXT.
THEOREM SettingsCorrect == MainSpec => SettingsChangeAsAsked
<1> QED
  BY SettingsStep, MInvariance, PTL DEF MainSpec, SettingsChangeAsAsked

\* Any number of runs, with every bus, all command lines and whatever fails, is a
\* session: of the devices a line means, the first that is known gets what the line
\* asks for, in one step or not at all, and no other device gets anything.  The index
\* that setimg refuses is not among what it gets, and of what debug does to that one
\* device on NeXT nothing is said.
THEOREM RefinesSession == MainSpec => SessionSpec
<1> QED
  BY SessionInit, SessionStep, MInvariance, PTL DEF MainSpec, SessionSpec, ASession!Spec
=============================================================================
