------------------------------- MODULE Scsitb -------------------------------
(***************************************************************************)
(* main() of scsitb.c and the commands it runs: discovery fills the device *)
(* list, a word of the command line chooses a device of it, another the    *)
(* command; then all devices are closed.  The steps of the search are      *)
(* those of module Discovery.                                              *)
(*                                                                         *)
(* The commands that set or show something (debug, setimg, info) are       *)
(* modelled here with what the device keeps of them.  Of lsdir, lsimg, get *)
(* and put this module has the checks of their arguments and the commands  *)
(* they may send; modules ListDir, GetFile and SendFile look into them.    *)
(* The program may be run again on the same bus.                           *)
(***************************************************************************)
EXTENDS Discovery

CONSTANTS Words,        \* words of a command line
          NoWord,       \* argv[i] behind the last word: NULL
          Lines,        \* the command lines the program is started with
          Named,        \* ids of the targets with the word in their device's name
          Value,        \* the number strtol() reads in a word
          Single,       \* words of at most one character
          Emulates,     \* the type of drive an id emulates
          InquiryByte,  \* byte 0 of the INQUIRY data, by id
          MaxRuns       \* bound on the runs of the program

ASSUME ScsitbAssumption ==
    /\ NoWord \notin Words
    /\ Lines \subseteq Seq(Words)
    /\ Named \in [Words -> SUBSET (0..15)] /\ Value \in [Words -> Int]
    /\ Single \subseteq Words
    /\ Emulates \in [0..15 -> 0..255] /\ InquiryByte \in [0..15 -> 0..255]
    /\ MaxRuns \in Nat \ {0}

VARIABLES mpc,           \* where main() is
          argv,          \* the words behind the program's name
          target_device, \* position in the list of the device chosen, 0 for NULL
          exit_code,
          runs,
          rows,          \* what info has printed
          shown,         \* what debug has printed
          settings,      \* the device's side: its debug flag and image, by target
          touched,       \* history: targets and the opcodes main's commands sent them
          asked          \* history: values the debug flag may have been asked to be

searchVars == vars
mainVars == <<mpc, argv, target_device, exit_code, runs, rows, shown, settings,
              touched, asked>>
allVars == <<searchVars, mainVars>>

TOOLBOX_SCSI_DEBUG_SET == 0
TOOLBOX_SCSI_DEBUG_GET == 1

TOOLBOX_DEVICE_TYPE_FIXED   == 0
TOOLBOX_DEVICE_TYPE_OPTICAL == 2
TOOLBOX_DEVICE_TYPE_NONE    == 255

HelpWords    == {"-h", "--help", "help"}
CommandWords == {"info", "lsdir", "lsimg", "get", "debug", "put", "setimg"}

Arg(i) == IF i <= Len(argv) THEN argv[i] ELSE NoWord

\* The first word is a device, unless it is info.
InfoAll == Arg(1) = "info"

-----------------------------------------------------------------------------
(* The device. *)

\* What a device keeps of the command that reaches it.
Kept(s, w) ==
    CASE w.op = TOOLBOX_SCSI_TOGGLE_DEBUG /\ w.args[1] = TOOLBOX_SCSI_DEBUG_SET
             -> [s EXCEPT !.debug = w.args[2]]
      [] w.op = TOOLBOX_SCSI_SET_NEXT_CD -> [s EXCEPT !.image = w.args[1]]
      [] OTHER                           -> s

-----------------------------------------------------------------------------
(* Start and search. *)

Main(line) ==
    /\ mpc = "args" /\ argv = line
    /\ target_device = 0 /\ exit_code = NO_ERROR
    /\ rows = <<>> /\ shown = {}
    /\ touched = {}

MainInit ==
    /\ Init
    /\ \E line \in Lines : Main(line)
    /\ runs = 1
    /\ settings = [t \in DOMAIN bus |-> [debug |-> 0, image |-> 0]]
    /\ asked = [t \in DOMAIN bus |-> {0}]

Exit(code) == mpc' = "exit" /\ exit_code' = code

\* No words, or a word for help among them: no device is looked for.
Start ==
    /\ mpc = "args"
    /\ IF argv = <<>> \/ \E i \in DOMAIN argv : argv[i] \in HelpWords
       THEN Exit(NO_ERROR)
       ELSE mpc' = "search" /\ UNCHANGED exit_code
    /\ UNCHANGED <<searchVars, argv, target_device, runs, rows, shown, settings,
                   touched, asked>>

\* get_scsi_device_list(), step by step.
Search == mpc = "search" /\ Next /\ UNCHANGED mainVars

\* Its result is not looked at, only whether the list is empty.
Found == mpc = "search" /\ pc = "done" /\ list # <<>>

\* Mutant of NoDevices: the search is made again.
NoDevices_again ==
    /\ mpc = "search" /\ pc = "done" /\ list = <<>>
    /\ pc' = "call" /\ k' = 0
    /\ UNCHANGED <<world, ret, id, inquired, held, dirs, list, sent, failures, faulty, mainVars>>

NoDevices ==
    /\ mpc = "search" /\ pc = "done" /\ list = <<>>
    /\ Exit(CMD_FAILED)
    /\ UNCHANGED <<searchVars, argv, target_device, runs, rows, shown, settings,
                   touched, asked>>

-----------------------------------------------------------------------------
(* The choice of device and command. *)

Matching == {i \in DOMAIN list : bus[list[i].target].id \in Named[Arg(1)]}

\* Mutant of Chosen: the last device of the list with the word in its name.
Chosen_last == IF Matching = {} THEN {0} ELSE {i \in Matching : \A j \in Matching : j <= i}

\* Mutant of Chosen: the first device of the list is the default.
Chosen_default == IF Matching = {} THEN {1} ELSE {i \in Matching : \A j \in Matching : i <= j}

\* The first device of the list with the word in its name, if there is one.
Chosen == IF Matching = {} THEN {0} ELSE {i \in Matching : \A j \in Matching : i <= j}

\* free(device_list), and scsi_close() of the devices in it.
CloseAll ==
    /\ allocated' = allocated \ Listed
    /\ opened' = opened \ Listed
    /\ list' = <<>>
    /\ UNCHANGED <<world, pc, ret, k, id, inquired, dirs, sent, failures, faulty>>

Choose ==
    /\ Found
    /\ InfoAll \/ Arg(2) \in CommandWords
    /\ target_device' \in IF Arg(2) = NoWord THEN {0} ELSE Chosen
    /\ mpc' = "command"
    /\ UNCHANGED <<searchVars, argv, exit_code, runs, rows, shown, settings,
                   touched, asked>>

\* Mutant of UnknownCommand: the devices stay open.
UnknownCommand_noClose ==
    /\ Found
    /\ ~InfoAll /\ Arg(2) \notin CommandWords
    /\ \/ Exit(CMD_FAILED)
       \/ Arg(2) = NoWord /\ mpc' = "crashed" /\ UNCHANGED exit_code
    /\ UNCHANGED <<searchVars, argv, target_device, runs, rows, shown, settings,
                   touched, asked>>

\* One word alone is compared as a NULL pointer: a crash, or, where address
\* zero can be read, a command that is not known.
UnknownCommand ==
    /\ Found
    /\ ~InfoAll /\ Arg(2) \notin CommandWords
    /\ \/ Exit(CMD_FAILED) /\ CloseAll
       \/ Arg(2) = NoWord /\ mpc' = "crashed" /\ UNCHANGED <<exit_code, searchVars>>
    /\ UNCHANGED <<argv, target_device, runs, rows, shown, settings, touched, asked>>

-----------------------------------------------------------------------------
(* The commands.  Nobody looks at what they return. *)

Command(words) == mpc = "command" /\ ~InfoAll /\ Arg(2) \in words

Target == list[target_device].target

\* The command ends without having sent anything.
Nothing ==
    /\ mpc' = "close"
    /\ UNCHANGED <<rows, shown, settings, touched, asked>>

\* It sends some of these opcodes to the device.
Exchange(ops) ==
    /\ mpc' = "close"
    /\ \E sentOps \in SUBSET ops : touched' = touched \cup ({Target} \X sentOps)
    /\ UNCHANGED <<rows, shown, settings, asked>>

\* One command that is carried out, or fails and may have been carried out.
Issued(c, done) ==
    /\ touched' = touched \cup {<<Target, c.op>>}
    /\ done => ~Refused(platform, c)
    /\ LET new == [settings EXCEPT ![Target] = Kept(@, OnWire(platform, c))]
       IN  settings' \in IF done THEN {new}
                         ELSE IF Refused(platform, c) THEN {settings}
                         ELSE {settings, new}

\* The type of a listed device: what lies behind the array of types may be
\* anything, and an array that was not filled in holds zeroes.
s2s_type(d) ==
    CASE d.s2s_type = OutOfArray -> 0..255
      [] d.s2s_type = NoType     -> {TOOLBOX_DEVICE_TYPE_FIXED}
      [] OTHER                   -> {Emulates[d.s2s_type]}

\* Mutant of ListFiles: the pointer is used before it is checked.
ListFiles_noCheck ==
    /\ Command({"lsdir"})
    /\ IF target_device = 0
       THEN mpc' = "crashed" /\ UNCHANGED <<rows, shown, settings, touched, asked>>
       ELSE Exchange({TOOLBOX_SCSI_COUNT_FILES, TOOLBOX_SCSI_LIST_FILES})
    /\ UNCHANGED <<searchVars, argv, target_device, exit_code, runs>>

\* toolbox_cmd_count() refuses a NULL device.
ListFiles ==
    /\ Command({"lsdir"})
    /\ IF target_device = 0 THEN Nothing
       ELSE Exchange({TOOLBOX_SCSI_COUNT_FILES, TOOLBOX_SCSI_LIST_FILES})
    /\ UNCHANGED <<searchVars, argv, target_device, exit_code, runs>>

\* Mutant of ListImages: any device is asked for its images.
ListImages_any ==
    /\ Command({"lsimg"})
    /\ IF target_device = 0
       THEN mpc' = "crashed" /\ UNCHANGED <<rows, shown, settings, touched, asked>>
       ELSE Exchange({TOOLBOX_SCSI_COUNT_CDS, TOOLBOX_SCSI_LIST_CDS})
    /\ UNCHANGED <<searchVars, argv, target_device, exit_code, runs>>

\* cmd_list_cds() looks at the type of the device before anything has checked
\* the pointer.
ListImages ==
    /\ Command({"lsimg"})
    /\ IF target_device = 0
       THEN mpc' = "crashed" /\ UNCHANGED <<rows, shown, settings, touched, asked>>
       ELSE \E t \in s2s_type(list[target_device]) :
              IF t = TOOLBOX_DEVICE_TYPE_OPTICAL
              THEN Exchange({TOOLBOX_SCSI_COUNT_CDS, TOOLBOX_SCSI_LIST_CDS})
              ELSE Nothing
    /\ UNCHANGED <<searchVars, argv, target_device, exit_code, runs>>

ListOps == {TOOLBOX_SCSI_COUNT_FILES, TOOLBOX_SCSI_LIST_FILES}
GetOps  == ListOps \cup {TOOLBOX_SCSI_GET_FILE}
PutOps  == {TOOLBOX_SCSI_SEND_FILE_PREP, TOOLBOX_SCSI_SEND_FILE_10,
            TOOLBOX_SCSI_SEND_FILE_END}

\* With a file to fetch, get may crash: the local file was not opened and stdio is
\* handed the NULL, or the size of the file has wrapped and its last block is longer
\* than the buffer.  It has listed the files before, and may have asked for a block.
GetCrashes ==
    /\ mpc' = "crashed"
    /\ \E sentOps \in {ListOps, GetOps} : touched' = touched \cup ({Target} \X sentOps)
    /\ UNCHANGED <<rows, shown, settings, asked>>

\* get and put need a file name; a NULL device is refused behind it.
Transfer ==
    /\ Command({"get", "put"})
    /\ IF Arg(3) = NoWord \/ target_device = 0 THEN Nothing
       ELSE \/ Arg(2) = "get" /\ Exchange(GetOps)
            \/ Arg(2) = "get" /\ GetCrashes
            \/ Arg(2) = "put" /\ Exchange(PutOps)
    /\ UNCHANGED <<searchVars, argv, target_device, exit_code, runs>>

\* Mutant of Byte: the operand keeps its width.
Byte_wide(n) == n

\* An int or a long becomes one byte of the CDB.
Byte(n) == n % 256

\* Mutant of GetDebugCmd: the subcommand is left at zero.
GetDebugCmd_noSubcommand == ReadCmd(TOOLBOX_SCSI_TOGGLE_DEBUG, <<TOOLBOX_SCSI_DEBUG_SET, 0>>, 1)

GetDebugCmd == ReadCmd(TOOLBOX_SCSI_TOGGLE_DEBUG, <<TOOLBOX_SCSI_DEBUG_GET, 0>>, 1)

\* Mutant of SetDebugCmd: the value is left at zero.
SetDebugCmd_noValue(v) == PlainCmd(TOOLBOX_SCSI_TOGGLE_DEBUG, <<TOOLBOX_SCSI_DEBUG_SET, 0>>)

SetDebugCmd(v) == PlainCmd(TOOLBOX_SCSI_TOGGLE_DEBUG, <<TOOLBOX_SCSI_DEBUG_SET, Byte(v)>>)

\* The byte that comes back, or stays as the buffer was cleared.
Answer == IF OnWire(platform, GetDebugCmd).args[1] = TOOLBOX_SCSI_DEBUG_GET
          THEN settings[Target].debug ELSE 0

\* toolbox_cmd_get_debug().
ShowDebug ==
    /\ Command({"debug"})
    /\ Arg(3) = NoWord
    /\ IF target_device = 0 THEN Nothing
       ELSE /\ mpc' = "close"
            /\ \E done \in BOOLEAN :
                 /\ Issued(GetDebugCmd, done)
                 /\ shown' = IF done THEN {Answer} ELSE {}
            /\ UNCHANGED <<rows, asked>>
    /\ UNCHANGED <<searchVars, argv, target_device, exit_code, runs>>

\* toolbox_cmd_set_debug().
SetDebug ==
    /\ Command({"debug"})
    /\ Arg(3) # NoWord
    /\ IF target_device = 0 THEN Nothing
       ELSE /\ mpc' = "close"
            /\ \E done \in BOOLEAN :
                 /\ Issued(SetDebugCmd(Value[Arg(3)]), done)
                 /\ asked' = [asked EXCEPT ![Target] =
                                 {Value[Arg(3)]} \cup (IF done THEN {} ELSE @)]
            /\ UNCHANGED <<rows, shown>>
    /\ UNCHANGED <<searchVars, argv, target_device, exit_code, runs>>

\* The command is sent with the CDB length still zero.
SetImageCmd(v) == ScsiCmd(TOOLBOX_SCSI_SET_NEXT_CD, <<Byte(v)>>, 0, NoBuffer, NoBuffer)

\* An argument of one character is taken for a file name, any other for a number.
SetImage ==
    /\ Command({"setimg"})
    /\ IF Arg(3) \in Single \cup {NoWord} \/ target_device = 0 THEN Nothing
       ELSE /\ mpc' = "close"
            /\ \E done \in BOOLEAN : Issued(SetImageCmd(Value[Arg(3)]), done)
            /\ UNCHANGED <<rows, shown, asked>>
    /\ UNCHANGED <<searchVars, argv, target_device, exit_code, runs>>

\* device_type_to_str(), for the low five bits of INQUIRY byte 0.
TypeNames == <<"Disk", "Tape", "Printer", "Processor", "WORM", "CD-ROM", "Scanner",
               "Optical", "Changer">>

\* Mutant of device_type: the bits above the type are not masked.
device_type_noMask(byte) == byte

device_type(byte) == byte % 32

device_type_to_str(t) == IF t + 1 \in DOMAIN TypeNames THEN TypeNames[t + 1] ELSE "Unknown"

EmulationNames == <<"Fixed", "Removable", "Optical", "Floppy", "Magneto", "Tape",
                    "Network", "Zip100">>

toolbox_s2s_to_str(t) == CASE t + 1 \in DOMAIN EmulationNames -> EmulationNames[t + 1]
                           [] t = TOOLBOX_DEVICE_TYPE_NONE    -> "None"
                           [] OTHER                           -> "Unknown"

\* The name is what malloc() returned as long as no INQUIRY has filled it in.
Rows(d) == [target    : {d.target},
            type      : {IF d.inquired
                         THEN device_type_to_str(device_type(InquiryByte[bus[d.target].id]))
                         ELSE "uninitialised"},
            emulation : {toolbox_s2s_to_str(t) : t \in s2s_type(d)}]

\* A device that was asked for and not found is taken for all of them.
Info ==
    /\ mpc = "command"
    /\ InfoAll \/ Arg(2) = "info"
    /\ mpc' = "close"
    /\ LET printed == IF InfoAll \/ target_device = 0 THEN list ELSE <<list[target_device]>>
       IN  rows' \in {r \in [DOMAIN printed -> UNION {Rows(printed[i]) : i \in DOMAIN printed}] :
                        \A i \in DOMAIN printed : r[i] \in Rows(printed[i])}
    /\ UNCHANGED <<searchVars, argv, target_device, exit_code, runs, shown, settings,
                   touched, asked>>

Close ==
    /\ mpc = "close"
    /\ CloseAll
    /\ Exit(NO_ERROR)
    /\ UNCHANGED <<argv, target_device, runs, rows, shown, settings, touched, asked>>

-----------------------------------------------------------------------------
(* The program is run again: the process starts anew, the devices keep what *)
(* they were told.                                                          *)

RunAgain ==
    /\ mpc \in {"exit", "crashed"} \/ pc = "crashed"
    /\ runs < MaxRuns
    /\ runs' = runs + 1
    /\ mpc' = "args" /\ argv' \in Lines
    /\ target_device' = 0 /\ exit_code' = NO_ERROR
    /\ rows' = <<>> /\ shown' = {} /\ touched' = {}
    /\ pc' = "call" /\ ret' = NO_ERROR
    /\ k' = 0 /\ id' = 0 /\ inquired' = FALSE
    /\ allocated' = {} /\ opened' = {} /\ dirs' = {} /\ list' = <<>>
    /\ sent' = {} /\ failures' = {} /\ faulty' = {}
    /\ UNCHANGED <<world, settings, asked>>

Run == \/ Start \/ Search \/ NoDevices \/ Choose \/ UnknownCommand
       \/ Info \/ ListFiles \/ ListImages \/ Transfer
       \/ ShowDebug \/ SetDebug \/ SetImage \/ Close

MainNext == Run \/ RunAgain

MainSpec == MainInit /\ [][MainNext]_allVars

\* A run goes on: main() waits for nothing but commands, which time out.
FairMainSpec == MainSpec /\ WF_allVars(Run)

-----------------------------------------------------------------------------
(* Properties. *)

MainTypeOK ==
    /\ TypeOK
    /\ mpc \in {"args", "search", "command", "close", "exit", "crashed"}
    /\ argv \in Lines
    /\ target_device \in 0..Len(bus)
    /\ exit_code \in {NO_ERROR, CMD_FAILED} /\ runs \in 1..MaxRuns
    /\ rows \in Seq([target : DOMAIN bus,
                     type : {TypeNames[i] : i \in DOMAIN TypeNames}
                            \cup {"Unknown", "uninitialised"},
                     emulation : {EmulationNames[i] : i \in DOMAIN EmulationNames}
                                 \cup {"None", "Unknown"}])
    /\ shown \subseteq 0..255
    /\ settings \in [DOMAIN bus -> [debug : 0..255, image : 0..255]]
    /\ touched \subseteq (DOMAIN bus) \X (208..218)
    /\ asked \in [DOMAIN bus -> SUBSET Int]

\* Whatever failed in the search and in the command, and whichever way the
\* program exits: every SCSI_DEVICE is freed and every handle closed, but those
\* the search itself lost when memory ran out.
NothingHeldAtExit ==
    mpc = "exit" =>
        /\ allocated = {} /\ list = <<>>
        /\ "malloc" \notin failures => opened = {}

\* The commands of one run go to one device at most, and it is one whose name
\* has the word in it that the user chose it by: none, if no name has.
OnlyTheAskedDevice ==
    /\ \A x, y \in touched : x[1] = y[1]
    /\ \A x \in touched : bus[x[1]].id \in Named[Arg(1)]

\* Images are only asked of a device that emulates an optical drive, though its
\* type was read by its id from an array of another command's: as long as the id
\* is one the array is made for, and its INQUIRY was answered on Linux.
ImagesOfOpticalOnly ==
    \A x \in touched :
        /\ x[2] \in {TOOLBOX_SCSI_COUNT_CDS, TOOLBOX_SCSI_LIST_CDS}
        /\ bus[x[1]].id <= 7
        /\ platform = "linux" => \E i \in DOMAIN list : list[i].target = x[1] /\ list[i].inquired
        => Emulates[bus[x[1]].id] = TOOLBOX_DEVICE_TYPE_OPTICAL

\* What debug prints is what the last debug command with a number asked for, in
\* this run of the program or an earlier one, or what one that failed may have
\* set; for numbers of one byte, and not on NeXT, where the number is lost.
DebugReadsBack ==
    platform # "next" =>
        \A x \in touched :
            asked[x[1]] \subseteq 0..255 => shown \subseteq asked[x[1]]

\* The byte that is left of the number n.
IsByteOf(byte, n) == byte \in 0..255 /\ (n - byte) % 256 = 0

\* Every setting that has changed is one this command line asks to change.
ChangedAsAsked ==
    \A t \in DOMAIN bus :
        /\ settings'[t].debug # settings[t].debug =>
             /\ Arg(2) = "debug" /\ bus[t].id \in Named[Arg(1)] /\ Arg(3) # NoWord
             /\ IsByteOf(settings'[t].debug, Value[Arg(3)])
        /\ settings'[t].image # settings[t].image =>
             /\ Arg(2) = "setimg" /\ bus[t].id \in Named[Arg(1)] /\ Arg(3) # NoWord
             /\ IsByteOf(settings'[t].image, Value[Arg(3)])

\* A device's setting changes only by a debug or setimg command that names the
\* device and the value; and to the number that was asked for if it is one a byte
\* can hold, to what is left of it above 255 or below 0.  (Not on NeXT, where
\* showing the debug flag clears it.)
SettingsChangeAsAsked == [][platform # "next" => ChangedAsAsked]_allVars

\* Info shows no device twice, none out of order and none that is no toolbox device;
\* and each device at which nothing failed, unless the search was given up.  Such a
\* device is shown with the type in its own INQUIRY data, whatever bits are above
\* the type, and with the type it emulates, if its id is one the array is made for;
\* whatever has failed at the others.
InfoShowsTheBus ==
    mpc = "close" /\ InfoAll =>
        /\ \A i \in DOMAIN rows : rows[i].target \in Wanted
        /\ \A i, j \in DOMAIN rows : i < j => rows[i].target < rows[j].target
        /\ {"opendir", "scsi_generic"} \cap failures = {} =>
              \A t \in Wanted \ faulty : \E i \in DOMAIN rows : rows[i].target = t
        /\ \A i \in DOMAIN rows : rows[i].target \notin faulty =>
             \E high \in 0..7, low \in 0..31 :
                /\ InquiryByte[bus[rows[i].target].id] = high * 32 + low
                /\ rows[i].type = IF low > 8 THEN "Unknown" ELSE TypeNames[low + 1]
        /\ \A i \in DOMAIN rows :
             rows[i].target \notin faulty /\ bus[rows[i].target].id <= 7 =>
                rows[i].emulation = toolbox_s2s_to_str(Emulates[bus[rows[i].target].id])

\* The program crashes for three reasons only, but for memory: a command line of
\* one word that is not info; lsimg for a device that is not there; and a get that
\* names a file, of a device that is there, when it has listed the files.
CrashCauses ==
    /\ mpc = "crashed" => \/ Len(argv) = 1
                          \/ Arg(2) = "lsimg" /\ Matching = {}
                          \/ /\ Arg(2) = "get" /\ Arg(3) # NoWord
                             /\ \E t \in DOMAIN bus : {t} \X ListOps \subseteq touched
    /\ pc = "crashed" => "malloc" \in failures

-----------------------------------------------------------------------------
(* Any number of runs is a session: main() with its search, its choice and  *)
(* its commands comes to one step, at the first device that is meant.       *)

\* What the command line asks for, as help() explains it.
Changes ==
    CASE Arg(2) = "debug" /\ Arg(3) # NoWord  -> [debug |-> Byte(Value[Arg(3)])]
      [] Arg(2) = "setimg" /\ Arg(3) # NoWord -> [image |-> Byte(Value[Arg(3)])]
      [] OTHER                                -> <<>>

\* How much of it gets through.  An index of one character is taken for a file name
\* and refused, and NeXT loses the operands of the debug command.
Heard ==
    IF Arg(2) = "setimg" /\ Arg(3) \in Single     THEN "refused"
    ELSE IF Arg(2) = "debug" /\ platform = "next" THEN "garbled"
    ELSE "whole"

Request ==
    [devices |-> IF Arg(2) = NoWord \/ InfoAll \/ \E i \in DOMAIN argv : argv[i] \in HelpWords
                 THEN {}
                 ELSE {t \in Wanted : bus[t].id \in Named[Arg(1)]},
     changes |-> Changes,
     shows   |-> Arg(2) = "debug" /\ Arg(3) = NoWord,
     copies  |-> Arg(2) = "get" /\ Arg(3) # NoWord,
     heard   |-> Heard]

\* The devices that a failure may have kept out of the list.
Missed == IF {"opendir", "scsi_generic"} \cap failures # {} THEN DOMAIN bus ELSE faulty

Served == {x[1] : x \in touched}

RunStatus ==
    IF pc = "crashed" \/ mpc = "crashed" THEN "crashed"
    ELSE IF mpc # "exit" THEN "running"
    ELSE IF exit_code = NO_ERROR THEN "done" ELSE "failed"

ASession == INSTANCE Session WITH
    request <- Request, missed <- Missed, served <- Served, status <- RunStatus

SessionSpec == ASession!Spec

-----------------------------------------------------------------------------
(* Liveness. *)

\* Every run of the program ends.
RunEnds == mpc = "args" ~> (mpc \in {"exit", "crashed"} \/ pc = "crashed")

-----------------------------------------------------------------------------
(* What the help says, where the code does otherwise. *)

\* "setimg <index>" sets the image of a drive via its index: a device that was chosen
\* and a number have made the program send the command.
IndexIsTaken ==
    /\ mpc = "close" /\ target_device # 0
    /\ Arg(2) = "setimg" /\ Arg(3) # NoWord
    /\ Value[Arg(3)] > 0
    => <<Target, TOOLBOX_SCSI_SET_NEXT_CD>> \in touched
=============================================================================
