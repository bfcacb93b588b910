# A TLA+ model of scsitb-unix

scsitb is a command line tool that talks to a BlueSCSI device by its "toolbox"
SCSI commands: it lists the shared directory and the CD images of the device,
fetches a file, puts a file, sets the current image and the debug flag. The code
is sequential C; what makes it hard is around it: a SCSI target that can fail any
command before or after carrying it out and that other computers use too, a
local file system that changes and loses writes, and four operating systems
(Linux, SunOS, IRIX, NeXTSTEP) whose drivers take commands and tell failures in
four ways.

These modules model that code. TLC checks them on small instances, and TLAPS
proves the most important facts for all instances.

## 1. The system

| Component | Source | State it keeps | Operations | Hard behaviour |
|---|---|---|---|---|
| SCSI commands | `include/*.h`, `scsi_device.c` | one `SCSI_CMD`, one `SCSI_CMD_RESPONSE` per function | filled in by every toolbox function | pointers and lengths choose the direction, one of them per platform |
| SCSI transport | `transport/transport_*.c`, `scsi_cmd()` | the response, on NeXT a handle per command | one `ioctl()` per command | a command carried out and reported as failed; a response shared by many commands; handles on every error path |
| Device discovery | `transport/transport_*.c`, `get_scsi_device_list()`, `scsi_open/close/inquiry()` | the device list, handles, directories | open, ask for capabilities, inquire, ask for types, append | partial failure between an open and its close; ids that index an array of eight |
| Directory listing | `toolbox_commands.c` 74-220, `scsitb.c` 303-361 | a counted buffer, a `TOOLBOX_DIR` | COUNT, LIST | the card changes between the two; allocation fails |
| File download | `toolbox_commands.c` 289-406 | the listing, the chosen entry, the block number, the local file | list, scan, open, GET_FILE per block | failure in mid-transfer; the card changes; a write falls short and the next one does not; sizes wider than a `long` |
| File upload | `toolbox_commands.c` 469-608, `scsitb.c` 449-466 | the block index, the buffer, a failure marker; on the device, an upload | PREP, SEND_FILE_10 per block, END | lost blocks; the local file rewritten meanwhile; the upload left open |
| Device settings | `toolbox_commands.c` 86-103, 222-287, 408-468; `scsitb.c` 363-379, 417-447 | on the device: the debug flag and the current image | one command each | a failed command that was carried out or not; numbers cut to a byte; the device remembers from one run of the program to the next |
| Command line | `scsitb.c` 53-224 | the device list, the device chosen | search, choose device and command, run it, close all | `NULL` devices and arguments; a device chosen by part of its name; every way out has to close what the search opened |
| Decoding | `transport.c`, `toolbox_commands.c` | none | INQUIRY byte 0 to a device type, both types to names | bits above the type |
| Display, logging, host adapter names, build files | `scsitb.c`, `transport_linux.c`, `Makefile` | none | | |

Interaction: `main()` runs discovery, which fills the list of `SCSI_DEVICE`s by
toolbox commands; then one command runs, by toolbox functions that each make
some `scsi_cmd()` calls through the transport that was linked in. Nothing runs
concurrently inside the program; the device and the local file system are shared
with others: another client may change the card between two commands of a get, and
the device has one upload for all the clients that put files.

What makes each component correct:

* a command that returns 0 was carried out as it was asked for, and its response
  tells of that command and no other; every handle opened for it is closed;
* discovery finds every toolbox device, describes each by its own answers and by none
  where they failed, and keeps open what it lists and nothing else;
* a listing is the directory that was asked for; whatever fails is freed;
* a transfer copies: in order, complete when it says so, with nothing repeated,
  skipped, padded or left open when it does not;
* a command line acts on the device it names and on no other, a setting is what was
  asked for last, and however the program ends, it has closed what it opened.

## 2. The modules

| Module | Models | Composes |
|---|---|---|
| `Scsi` | return codes, opcodes, `SCSI_CMD`; `OnWire`, what each platform's `scsi_cmd()` sends for a command | |
| `FileCopy` | the abstract specification of a transfer | |
| `Command` | the abstract specification of one call of `scsi_cmd()` | |
| `DirectoryListing` | the abstract specification of a listing: one answer | |
| `Inventory` | the abstract specification of a search: one step for each target | |
| `Session` | the abstract specification of the whole program, run again and again: one step for each run | |
| `ListDir` | `toolbox_cmd_count()`, `toolbox_cmd_list()`, `cmd_list_files()`, `cmd_list_cds()`; the card | `Scsi`; implements `DirectoryListing` |
| `GetFile` | `toolbox_cmd_get_file()` | extends `ListDir`: its step `Listing` is the steps `Count` and `List` of that module; implements `FileCopy` and, with those steps, `DirectoryListing` |
| `SendFile` | `toolbox_cmd_send_file()`, `cmd_put_file()`; the device's one upload and its other clients | `Scsi`; implements `FileCopy` |
| `Transport` | `scsi_cmd()` of four platforms | `Scsi`; implements `Command` |
| `Discovery` | `get_scsi_device_list()`, `scsi_open()`, `scsi_close()`, `scsi_inquiry()` of four platforms | `Scsi`; implements `Inventory` |
| `Scsitb` | `main()`, the settings commands, `info`; the device's settings; one run of the program after another | extends `Discovery`: its step `Search` is a step of the search; implements `Session` |
| `TransferLemmas` | facts about division and growing sequences, for the proofs of both transfers | |
| `ListDirProofs`, `GetFileProofs`, `SendFileProofs`, `SendFileRefines`, `TransportProofs`, `DiscoveryProofs`, `ScsitbProofs` | the theorems | `GetFileProofs` extends `ListDirProofs`, `SendFileRefines` extends `SendFileProofs`, `ScsitbProofs` extends `DiscoveryProofs`, as the modules do |
| `MC*` | values of the constants for TLC | |

How state and actions correspond to the code:

* A variable has the name of the C variable where there is one (`blocks`,
  `last_block_size`, `file_count`, `handle`, ...). `pc` (`lpc`, `phase`) is the
  place in the function, `ret` its result. `heap`, `allocated`, `opened` and
  `dirs` are what is allocated or open. `counted`, `acked`, `failed`, `executed`,
  `outcome`, `sent`, `failures`, `faulty`, `past`, `touched` and `asked` are history
  variables that no action reads; `failures` of `GetFile` bounds the writes that fall short
  (`MaxFailures`), and `past` has the cards the device has held, in order.
* One action is the code from one command (`scsi_cmd()`, `open()`, `stat()`, ...) to the
  next. Between two of them anything else may act: another initiator (`Change`), another
  process (`FileChanges`), another client that puts a file (`OtherPrep`, `OtherSend`,
  `OtherEnd`).
* Nobody looks at what `fwrite()` and `fclose()` return. Each call of them may write a
  beginning of what it has to write, and the next one all again (`WriteLocal`,
  `CloseLocal`).
* `scsi_cmd()` inside `ListDir`, `GetFile`, `SendFile`, `Discovery` and `Scsitb` is one
  step whose outcome is chosen: success, or failure with the command carried out or
  not. `Command` states that step and `Transport` implements it, which is what
  justifies it in the other modules. `GetFile` and `SendFile` use `OnWire` of
  `Scsi` for what the device gets of the operands, so that NeXT's loss of them
  reaches the file transfers.
* In `Scsitb` a word of the command line is a string that TLC only compares. What the
  code computes from it are constants: the targets whose name `strstr()` finds the
  word in (`Named`), the number `strtol()` reads (`Value`), whether it is longer than
  one character (`Single`). `mpc` is the place in `main()`, beside the `pc` of the
  search. `lsdir`, `lsimg`, `get` and `put` have their checks there and the opcodes
  they may send; their steps are those of the other modules. The crashes of `get`, which
  `GetFile` has as `UseOfNullFile` and `OverlongLastBlock`, are one step there
  (`GetCrashes`).
* What a run is asked for (`Request`) goes by the help text: a word behind `setimg` is an
  index to set. What becomes of it on the way is `heard`: an index of one character is
  refused, the operands of `debug` are garbled by NeXT, and all else is whole. `Session`
  says what each of the three is promised.
* The k-th byte of a file is the pair of a value that identifies the file and k: a
  byte out of place, of another file or of padding differs from the right one.
  File names are model values; `NameMatches` stands for `strncmp()` over the
  length of the entry's name.
* A `long` wraps at `LongMax`, division truncates towards zero, an operand keeps
  the width of its bytes (`OffsetLimit`, `CountLimit`).
* A read of uninitialised memory is a choice: the entries that LIST did not fill in
  (`Garbage`), the id of a device on Linux before its INQUIRY (`Uninitialised`), a
  response nobody cleared (`Garbage` in `Transport`). A `NULL` that is used and a
  length beyond a buffer lead to the state "crashed".

## 3. The runs

| Run | Checks | Result |
|---|---|---|
| `list_shared` | `ListTypeOK`, `ListsTheDirectory`, `ListingLeaksNothing`, `ListingSpec` | hold |
| `get_shared` | `TypeOK`, `LocalInOrder`, `BlocksAreWhole`, `SuccessHasFullLength`, `FailureReleases`, `CopySpec`, `ListingSpec`, `Terminates` | hold |
| `send_shared` | `TypeOK`, `UploadIsPrefix`, `CompleteUnlessBlockLost`, `UploadClosed`, `SourceClosed`, `OwnBytesInOrder`, `CopySpec`, `Terminates` | hold |
| `cmd_all` | `TypeOK`, `HandleClosed`, `SuccessMeansExecuted`, `ResponseIsFresh`, `CallerSpec` | hold |
| `find_all` | `TypeOK`, `FindsAll`, `HeldIsListed`, `DescribedByOwnId`, `InventorySpec` | hold |
| `main_all` | `MainTypeOK`, `NothingHeldAtExit`, `OnlyTheAskedDevice`, `ImagesOfOpticalOnly`, `DebugReadsBack`, `InfoShowsTheBus`, `CrashCauses`, `SettingsChangeAsAsked`, `SessionSpec`, `RunEnds` | hold |
| `list_count_error` | `CountErrorIsReturned` | violated: a failing COUNT is taken for the count 0, since `toolbox_cmd_count()` looks for a positive error and all errors are negative |
| `get_named` | `FetchesNamedFile` | violated: a name that is not there fetches the last file, a name may fetch another one that begins it |
| `send_lost` | `LostBlockIsReported` | violated: a failing full block clears the marker that the result is taken from |
| `send_shrunk` | `SendsOnlyTheFile` | violated: a short `fread()` of a full block sends the old contents of the buffer |
| `setimg_index` | `IndexIsTaken` | violated: `setimg` refuses an index of one digit as a file name, since the test of its length is the wrong way round |
| `find_probe` | `ProbesOnlyRead` | violated: NeXT probes with opcode 4, FORMAT UNIT, for REQUEST SENSE |

What the runs that hold show:

* **Listing.** COUNT and LIST are about the same directory for both kinds; an
  undisturbed listing is the whole directory in order; no failure leaves an
  allocation behind, whatever changes on the card. For its caller the two commands are
  one answer, with the entries the directory has at that moment, unless the card
  changed in between or the COUNT failed; then it may have another length, but its entries
  are still the first of the directory of one moment, and junk is only behind the end of
  that. The same holds of the listing a get begins with.
* **Download.** As long as the card is as listed, the bytes in the local file are
  those of the remote one in their order, and all from the first on until a write falls
  short. The code does not notice that: what it writes next closes up to what is there,
  so the file has a gap and all behind it is at the wrong place, and the get may report
  success. Once the card has changed nothing is promised of the whole, but, if no
  write fell short, each block is still the block at its place of a file that the
  device held under that index, and later blocks are of the same card or a later one.
  There are never more bytes than were listed. Success without such a write means
  the length that was listed even when the card has changed. A failing return closes and
  frees. Undisturbed, it implements `FileCopy`. It ends.
* **Upload.** The same on the device's side, also when a command that is reported as
  failed was carried out: the code never sends a block again, and stops at the
  first that fails. A file that is rewritten makes no upload short of the length
  `stat()` gave, if no block is lost. The upload is left open only when PREP or END
  fails, and the local file never. When another client puts a file at the same time,
  the two mix in the device's one upload and neither is told; that is why the
  properties of the whole upload speak of a put that has it for itself. What remains
  is that the bytes of this put are an unbroken piece of its file.
* **Transport.** A call is one step for its caller: one command carried out after a
  success, at most one after a failure, none but the one asked for, none without a
  device. Otherwise see section 1, with two platforms excepted: NeXT for operands, and
  SunOS and IRIX for `ResponseIsFresh`, because they neither clear the response
  nor write the status into it.
* **Discovery.** What is held is what is listed, after any failure but that of
  `malloc()`; what fails at one target hides that one at most, and a search that is not
  given up lists all the others. The id of a device is its own, with two exceptions that
  `GivenIds` names: 1 for two digits on IRIX, and what the memory held on Linux where
  the INQUIRY failed; the type is what is found at that id, which above 7 is behind the
  array; and a device lacks one or the other only where a command failed at it. Seen
  from outside, a search visits each target once, in one step that finds and holds it or
  passes it and holds nothing of it.
* **Command line.** Every exit has freed and closed the device list. One run sends
  commands to one device at most, and none if the word is in no name; a word that is
  in several names chooses the first. Images are only asked of a device that emulates
  an optical drive, as far as the program can know its type. The device's settings
  change only when the command line names the device and the value, to the byte that is
  left of the value, and what `debug`
  prints was asked for, in this run or an earlier one, by a command that succeeded
  or by a later one that failed. `info` prints every device at which nothing failed once
  and with its own types, whatever failed at the others. Any number of runs is a session:
  each run serves one device at most, the first of those its line means that it
  knows of, and gives it what the line asks for or nothing; it passes the device over
  only if something failed there, or if the index was refused; and a run that exits with
  an error has touched none. The program crashes for a lone word (`argv[2]` is `NULL`), for
  `lsimg` without a device, in a `get` that has listed the files (the local file was
  not opened, or the size has wrapped), and for want of memory. Every run ends.

Bounds, and why they are enough:

* Blocks of two bytes and files of 0 to 7 give files of no byte, less than a
  block, whole blocks, and a last block of one byte, with up to three full blocks:
  the loop and the code behind it treat every further block alike, and the proofs
  are for every block size. `LongMax` is 5, so that the two largest files wrap
  around to negative sizes. Directories have up to three entries, of both types,
  one name the beginning of another, an empty file first.
* The card changes at most twice (`MaxChanges`), which puts a change between any two
  commands and undoes one; the local file likewise. One write falls short
  (`MaxFailures`), by any length, with blocks before and behind it; the proofs are for
  any number.
* A response is used for three calls (`MaxCalls`), so that a field may be left by the
  last call or by one before it. Sense data of 0, 8, 14 and 18 bytes are on both
  sides of the limit in the code.
* Other clients send three commands (`MaxOthers`), a whole put of PREP, one block and
  END, which can fall between any two commands of this one.
* `find_all`: buses of up to three targets have ids 7, 8, 9 and 11 at the limits of the
  array of types and of one digit, a target between two others that is no toolbox
  device, one without a `scsi_generic` directory, and busy ones.
* `main_all`: an empty bus and one with a target that is no toolbox device and two that
  are, not in the order of their ids; words in the names of one, both and none; command
  lines with each command, with and without its arguments, with numbers at the ends
  of a byte and behind; an INQUIRY byte with bits above the type; an uninitialised id
  (3) that is another target's, and one (200) beyond the array. The program runs twice
  (`MaxRuns`), so that a second run finds what the first has set.

`CHECK_DEADLOCK FALSE`, in all of them, because the program does stop: at "exit",
"caller" or "done", or in a crash.

Fairness: `FairSpec` is weak fairness of the steps of the transfer. Each is code
that runs to the end of one command; `scsi_cmd()` returns at the latest by the
timeout each transport sets (20 s on Linux, 60 on SunOS, 5 on IRIX, 10 on NeXT), and
nothing else in these functions waits. `FairMainSpec` is the same for `main()`, whose
search and commands consist of such calls and loops over finite lists; starting the
program again is not assumed. No fairness is assumed of the card, of writes to the disk
or of other processes.

## 4. The proofs

Seven modules prove 37 theorems, for every value of the constants:

| Module | Theorems |
|---|---|
| `ListDirProofs` | `ListTypeCorrect`, `ListsCorrect`, `LeaksNothingCorrect`: the invariants of `list_shared`; `RefinesListing`: `ListDir` implements `DirectoryListing` |
| `GetFileProofs` | `TypeCorrect`, `InOrderCorrect`, `BlocksCorrect`, `FullLengthCorrect`, `ReleaseCorrect`: the invariants of `get_shared`; `RefinesCopy`, `GetRefinesListing`: `GetFile` implements `FileCopy` and `DirectoryListing` |
| `SendFileProofs` | `TypeCorrect`, `PrefixCorrect`, `CompleteCorrect`, `UploadClosedCorrect`, `SourceClosedCorrect`, `OrderCorrect`: the invariants of `send_shared` |
| `SendFileRefines` | `RefinesCopy`: `SendFile` implements `FileCopy` |
| `TransportProofs` | `TypeCorrect`, `HandleClosedCorrect`, `SuccessCorrect`, `FreshCorrect`: the invariants of `cmd_all`; `RefinesCaller`: `Transport` implements `Command` |
| `DiscoveryProofs` | `TypeCorrect`, `FindsAllCorrect`, `HeldCorrect`, `DescribedCorrect`: the invariants of `find_all`; `RefinesInventory`: `Discovery` implements `Inventory` |
| `ScsitbProofs` | `MainTypeCorrect`, `NothingHeldCorrect`, `OnlyAskedCorrect`, `DebugReadsBackCorrect`, `CrashCausesCorrect`, `ImagesCorrect`, `InfoCorrect`, `SettingsCorrect`: the invariants and the action property of `main_all`; `RefinesSession`: `Scsitb` implements `Session` |

The assumptions are those of the constants. `ListAssumption`, `GetAssumption`,
`SendAssumption`: directories of at most 255 entries, a positive block size, files of
at most as many blocks as four bytes can number (`MaxSize` is 2^40 - 1 and blocks have
4096 bytes, so 2^28 of 2^32 numbers are used), a block whose length fits the two
bytes of its count. `TransportAssumption`: a command has one buffer at most and a CDB
length of 0, 6 or 10, as all that the code builds. `DiscoveryAssumption` and
`ScsitbAssumption` give the types of buses and command lines. Theorems that hold
everywhere but on NeXT, where operands are lost, say so: `InOrderCorrect` and
`BlocksCorrect` of `GetFile`, `CompleteCorrect` of `SendFile` and both `RefinesCopy`
assume another platform, and so do the formulas of `DebugReadsBack` and
`SettingsChangeAsAsked`. `RefinesSession` has NeXT in it, where it promises less: a `debug`
command changes the settings of the device meant, to anything, and those of no other.

Few of the properties are inductive. What each proof adds:

* **`ListDir`**: `SameDirectory`, that the count is the length of the directory that is
  listed next, until somebody changes the card; `Allocated`, that the heap is in use
  from a LIST that succeeded to the display and at no other time. `RefinesListing` maps
  COUNT to nothing, to a failure or to a disturbance, and LIST to the answer. The
  abstract directory is the part of the card that was asked for, and it is disturbed
  (`Misled`) by a change of the card or by a COUNT that failed. `SameDirectory` makes
  the answer the whole directory when it is not.
* **`GetFile`**: `Control` ties the place in the function to what is open, allocated and
  chosen. `Progress` ties the numbers together: as long as the size fits a `long` and no
  write falls short, the file has as many bytes as `blocks_transferred` blocks, and the
  whole length after the last one, and no more than that in any case;
  `SuccessHasFullLength` speaks of the end only and needs it, and `Modular` for the
  sizes that do not fit. `Untouched` holds until the card is changed: the entry chosen
  is the one at its index on the card, and what is in the local file is in order up to
  the position the next block begins at (`InOrder`), so that a block may be appended
  even behind a gap. `BlocksCorrect` carries the witness along: the card that each block
  is of is one in `past`, a step appends one block of the card of now, which is the last
  of them, and leaves the others (`AppendBlock`); what the device answers for a block
  number is the bytes of that block of the file that is there then (`AnswerBytes`).
  `GetRefinesListing` reuses the steps of `RefinesListing`, with the rest of the get as
  steps that leave the listing alone.
* **`SendFile`**: the same three parts for the other direction, with the file's
  position for the block number, and `UploadIsPrefix` in it. `OwnBytesInOrder` needs
  `LastIsRead`: as long as the upload is open, this put's last byte in it is the last
  one that was read, whatever others have put around it.
* **The refinements**: while nobody disturbs either end, `GetFile` and `SendFile` map to
  a copy of the file that was listed or opened; from then on `FileCopy` promises
  nothing ("void"). One
  lemma for each kind of step shows that it is a step of `FileCopy` or none.
  `SendFileRefines` needs `Acknowledged` for it: PREP has been carried out exactly
  when blocks are sent, and the marker of a failure is set only by a lost block.
* **`Transport`**: `Flow` says where a handle is open and that nothing that is
  refused reaches the `ioctl()`; `Clean`, that a cleared response is clear until
  then. `RefinesCaller` maps the three steps before the `ioctl()` to the call or to
  nothing and each return to a success, a failure or a refusal.
* **`Discovery`**: `Holding`, what is held by where the search is: what is listed and
  the target of now; `Directories`; `Complete`, that the list has the wanted of the
  targets that are through, but for those in the history variable `faulty`; `OwnId`,
  that the id of the target of now is one of those it may be given (`GivenIds`).
  `RefinesInventory` maps the steps at one target to nothing until the last of them,
  which is the visit: the target counts as visited, and as held, once it is through.
* **`Scsitb`**: the invariant of the search is kept through the command, as that
  leaves the list alone, so that closing the listed devices closes all (`Searched`);
  the device chosen is the first that has the word in its name, or no device has it
  (`DeviceChosen`); nothing is sent or printed before the one command (`Untouched`); the
  debug flag is one of the numbers asked for (`DebugAsked`), which outlives a run.
  `ImagesCorrect` and `InfoCorrect` go back to `DescribedByOwnId` and `FindsAll` of the
  search: a listed device at which nothing failed has its INQUIRY data and its type, and
  they are its own. `CrashCausesCorrect` follows the crash of a get from the listing it
  has made (`CrashStep`). `MainTypeCorrect` needs that the
  list is never longer than the bus: its targets are strictly increasing numbers of the
  bus, so they are as many as a set of them (`ListLength`).
* **`RefinesSession`** puts the parts together. A device that is meant is listed or may
  have been missed, by `Complete` (`KnownOrMissed`); the first listed one with the word
  in its name is therefore the first of those meant but for the missed
  (`ChosenIsFirst`); and with none chosen all are missed (`NoneIsKnown`). The command is
  the one step `Serve`, by what the device keeps of it on each platform
  (`ShownSettings`, `KeptSettings`), or the crash that follows a get's listing
  (`CrashServes`). `Heeding` carries to the end of the run that it was made, or could
  not be.

Left to TLC: `Terminates` of both transfers and `RunEnds`, which need fairness and
`ENABLED` and are out of the prover's reach, and the values of the constants of
`Scsitb` that stand for functions of the C library. Every invariant, action property
and refinement that a run shows is proved. The six properties that TLC finds violated
have, of course, no proof.

## 5. What is not in the model

* Output and logging, `help()`, the `udev` names of host adapters, which are printed
  only; `basename()` for NeXT, a stand-in for a library function; the build files,
  for which the platform constants stand.
* Of the INQUIRY data, all but the device type: the strings are displayed, and the flag
  bits that `extract_inquiry_data()` takes (some with the wrong mask) are read nowhere.
  `get_cdb_len()` has no caller. The API version that `toolbox_cmd_get_capabilities()`
  and its likes return is not compared with anything.
* The local name of a download, chosen when the file is opened. The remote name of an
  upload: `cmd_put_file()` passes `NULL` whatever its second argument is, though the
  help text calls it optional.
* A command that moves fewer bytes than asked for with good status: no transport
  hands the count to its caller.
* Search details of discovery that only choose names (which directory entries look
  like a device), and memory for the INQUIRY buffer.
* Names of devices that do not go by the id alone: in `Scsitb` two devices with one id,
  on two host adapters, have the same words in their names.

Behaviour the model has, that no run singles out:

* On a 32-bit `long` the size of a file of 2 GB or more wraps. Of such a download
  `SuccessHasFullLength` says what length is left of it; `FitsLong` exempts it from the
  other properties.
* NeXT sends the opcode and the length of a 10-byte command only (`WireArgs`,
  `transport_next.c` 221-275): the operands of every command are lost, and it may report
  success. The properties that depend on the operands exempt NeXT by name.
* Linux takes the additional sense codes when there are at most 14 bytes of sense
  data, where the comment wants at least 14 (`HasSense`).
* SunOS and IRIX never write the SCSI status that the callers print (`Told`).
* `toolbox_cmd_set_next_cd()` leaves the CDB length zero, which NeXT refuses
  (`Refused`). On NeXT showing the debug flag clears it (`Kept`, `OnWire`).
* Downloads fetch entries of type 1, which the header calls directories (`Regular`).
* `fopen()` of a local file may give a `NULL` that is used (`UseOfNullFile`); a write that
  falls short is not noticed, and leaves a gap or a file that ends early (`WriteLocal`,
  `CloseLocal`); the listing is not freed after a success (`Close`).
* A Linux SCSI device without a `scsi_generic` directory ends the search with an
  error that `main()` ignores (`Entry`); a device whose INQUIRY failed has an
  uninitialised id there (`OpenedId`), and its type name is not written (`Rows`).
* `main()` exits with 0 whatever its command returned (`Close`). Its check for a missing
  device (`scsitb.c` 166-170) is never reached, and the commands check, or not.
* Words are counted from the first: `-v` in front takes the place of the device, where
  the help text has `<options>` first (`Arg`). `info` for a device that is not there
  prints all devices (`Info`).
* `setimg` reads a file name of more than one character as the number 0 (`SetImage`), the
  other side of what `setimg_index` shows.

## 6. Plan

Done: all modules of section 2, and the theorems of section 4. To come, in this order:

1. The get and the put as steps of `Session`, with what the card and the local disk
   keep of them, so that one abstract specification covers the whole program.
2. The names of devices by host adapter and id, with `strstr()` over both.
