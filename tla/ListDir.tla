------------------------------ MODULE ListDir ------------------------------
(***************************************************************************)
(* toolbox_cmd_count() and toolbox_cmd_list() of toolbox_commands.c, and   *)
(* their callers cmd_list_files() and cmd_list_cds() of scsitb.c.          *)
(*                                                                         *)
(* Listing takes two SCSI commands: COUNT sizes a malloc'ed buffer, LIST   *)
(* fills it.  The device is shared: between the two another initiator may  *)
(* add or remove files.  Each scsi_cmd() is one step, whose outcome is     *)
(* chosen: it succeeds, or it fails with or without its data having come.  *)
(***************************************************************************)
EXTENDS Scsi

CONSTANTS Names,       \* file names
          Bodies,      \* what tells the bytes of one file from another's
          MaxSize,     \* largest file size, 2^40 - 1: five bytes
          Cards,       \* contents the card may have: a directory and CD images
          Garbage,     \* what entries of uninitialised heap memory look like
          MaxChanges   \* bound on the changes another initiator makes

\* A count or an index is one byte.
MaxCount == 255

\* A file on the card.  Its index is its position in the directory.
Files   == [name : Names, type : {0, 1}, size : 0..MaxSize, body : Bodies]
Entries == [index : 0..MaxCount, name : Names, type : {0, 1},
            size : 0..MaxSize]

ASSUME ListAssumption ==
    /\ Cards \subseteq [files : Seq(Files), cds : Seq(Files)]
    /\ \A c \in Cards : Len(c.files) <= MaxCount /\ Len(c.cds) <= MaxCount
    /\ Garbage \subseteq Entries
    /\ MaxSize \in Nat
    /\ MaxChanges \in Nat

VARIABLES card,        \* what the device holds
          changes,     \* how often another initiator has changed it
          toolbox_cmd, \* LIST_FILES or LIST_CDS
          target,      \* whether the SCSI_DEVICE pointer is not NULL
          lpc,         \* where the listing is
          lret,        \* what toolbox_cmd_list() returned
          file_count,  \* the count the listing goes by
          dir,         \* the entries of the TOOLBOX_DIR, if it is allocated
          heap,        \* what is allocated: "entries", "dir"
          counted      \* history: COUNT succeeded

listVars == <<card, changes, toolbox_cmd, target, lpc, lret, file_count, dir,
              heap, counted>>

-----------------------------------------------------------------------------
(* The device. *)

\* The directory a command is about.
Served(op) == IF op \in {TOOLBOX_SCSI_LIST_FILES, TOOLBOX_SCSI_COUNT_FILES}
              THEN card.files ELSE card.cds

Entry(d, i) == [index |-> i - 1, name |-> d[i].name, type |-> d[i].type,
                size |-> d[i].size]

\* Another initiator adds, removes or replaces files.
Change ==
    /\ changes < MaxChanges
    /\ changes' = changes + 1
    /\ card' \in Cards \ {card}
    /\ UNCHANGED <<toolbox_cmd, target, lpc, lret, file_count, dir, heap, counted>>

-----------------------------------------------------------------------------
(* The listing. *)

ListInit ==
    /\ card \in Cards
    /\ changes = 0
    /\ toolbox_cmd \in {TOOLBOX_SCSI_LIST_FILES, TOOLBOX_SCSI_LIST_CDS}
    /\ target \in BOOLEAN
    /\ lpc = "call"
    /\ lret = NO_ERROR
    /\ file_count = 0
    /\ dir = <<>>
    /\ heap = {}
    /\ counted = FALSE

\* Mutant of CountCmd: always counts the files.
CountCmd_filesOnly(op) == TOOLBOX_SCSI_COUNT_FILES

CountCmd(op) == IF op = TOOLBOX_SCSI_LIST_FILES
                THEN TOOLBOX_SCSI_COUNT_FILES ELSE TOOLBOX_SCSI_COUNT_CDS

\* cmd_list_files() goes straight to toolbox_cmd_list(); cmd_list_cds() first
\* looks at the type of the device, through a pointer nobody has checked.
CallList ==
    /\ lpc = "call"
    /\ IF toolbox_cmd = TOOLBOX_SCSI_LIST_FILES
       THEN lpc' = "count" /\ UNCHANGED lret
       ELSE \/ ~target /\ lpc' = "crashed" /\ UNCHANGED lret
            \/ target /\ lpc' = "count" /\ UNCHANGED lret
            \/ target /\ lpc' = "exit" /\ lret' = CMD_FAILED
    /\ UNCHANGED <<card, changes, toolbox_cmd, target, file_count, dir, heap, counted>>

\* Mutant of Count: the error of a failing COUNT is handed on as the count.
Count_errorAsCount ==
    /\ lpc = "count"
    /\ \/ lpc' = "list" /\ file_count' = Len(Served(CountCmd(toolbox_cmd)))
       \/ lpc' = "list" /\ file_count' = CMD_FAILED
    /\ counted' = (file_count' # CMD_FAILED)
    /\ UNCHANGED <<card, changes, toolbox_cmd, target, lret, dir, heap>>

\* toolbox_cmd_count() takes a negative result of scsi_cmd() for success, and
\* returns its one-byte buffer: zero unless the device filled it.
Count ==
    /\ lpc = "count"
    /\ IF ~target
       THEN /\ lpc' = "returned"
            /\ lret' = INVALID_ARGS
            /\ UNCHANGED <<file_count, counted>>
       ELSE /\ counted' \in BOOLEAN
            /\ file_count' \in {Len(Served(CountCmd(toolbox_cmd)))}
                               \cup (IF counted' THEN {} ELSE {0})
            /\ lpc' = "list"
            /\ UNCHANGED lret
    /\ UNCHANGED <<card, changes, toolbox_cmd, target, dir, heap>>

\* Mutant of Listed: the last entry of the directory is not filled in.
Listed_short(d, junk) == [i \in 1..file_count |-> IF i < Len(d) THEN Entry(d, i) ELSE junk]

\* What the buffer of file_count entries holds after LIST: the device fills
\* at most that many, the rest is what malloc() returned.
Listed(d, junk) == [i \in 1..file_count |-> IF i <= Len(d) THEN Entry(d, i) ELSE junk]

ReturnList(code) == lpc' = "returned" /\ lret' = code

\* Mutant of List: the buffer is not freed when LIST fails.
List_noFree ==
    /\ lpc = "list"
    /\ \/ ReturnList(ALLOC_ERROR) /\ UNCHANGED <<dir, heap>>
       \/ ReturnList(-1) /\ heap' = heap \cup {"entries"} /\ UNCHANGED dir
       \/ /\ ReturnList(NO_ERROR)
          /\ \E junk \in Garbage : dir' = Listed(Served(toolbox_cmd), junk)
          /\ heap' = heap \cup {"entries", "dir"}
    /\ UNCHANGED <<card, changes, toolbox_cmd, target, file_count, counted>>

\* LIST, and the two allocations around it: malloc() of the buffer fails; the
\* command fails, or malloc() of the TOOLBOX_DIR does, and the buffer is freed
\* again; or the listing is returned.
List ==
    /\ lpc = "list"
    /\ \/ ReturnList(ALLOC_ERROR) /\ UNCHANGED <<dir, heap>>
       \/ ReturnList(-1) /\ UNCHANGED <<dir, heap>>
       \/ /\ ReturnList(NO_ERROR)
          /\ \E junk \in Garbage : dir' = Listed(Served(toolbox_cmd), junk)
          /\ heap' = heap \cup {"entries", "dir"}
    /\ UNCHANGED <<card, changes, toolbox_cmd, target, file_count, counted>>

\* cmd_list_files() and cmd_list_cds() print the entries and free them, or
\* report the error.
PrintDir ==
    /\ lpc = "returned"
    /\ lpc' = "exit"
    /\ IF lret # NO_ERROR
       THEN lret' = CMD_FAILED /\ UNCHANGED heap
       ELSE heap' = {} /\ UNCHANGED lret
    /\ UNCHANGED <<card, changes, toolbox_cmd, target, file_count, dir, counted>>

ListStep == Count \/ List

ListNext == CallList \/ ListStep \/ PrintDir \/ Change

ListSpec == ListInit /\ [][ListNext]_listVars

-----------------------------------------------------------------------------
(* Properties. *)

ListTypeOK ==
    /\ card \in Cards
    /\ changes \in 0..MaxChanges
    /\ toolbox_cmd \in {TOOLBOX_SCSI_LIST_FILES, TOOLBOX_SCSI_LIST_CDS}
    /\ target \in BOOLEAN
    /\ lpc \in {"call", "count", "list", "returned", "exit", "crashed"}
    /\ lret \in ReturnCodes
    /\ file_count \in 0..MaxCount
    /\ dir \in Seq(Entries)
    /\ heap \subseteq {"entries", "dir"}
    /\ counted \in BOOLEAN

\* When both commands succeeded and nobody touched the card between them, the
\* listing that toolbox_cmd_list() hands out is the directory that was asked
\* for, whole and in order: COUNT and LIST are about the same directory.
ListsTheDirectory ==
    lpc = "returned" /\ lret = NO_ERROR /\ counted /\ changes = 0
        => LET d == Served(toolbox_cmd)
           IN  dir = [i \in 1..Len(d) |-> Entry(d, i)]

\* Whatever fails, and whatever changes on the card meanwhile, a listing command
\* that exits has freed all it allocated, and toolbox_cmd_list() hands its
\* caller either both allocations or none.
ListingLeaksNothing ==
    /\ lpc = "exit" => heap = {}
    /\ lpc = "returned" => heap = IF lret = NO_ERROR THEN {"entries", "dir"} ELSE {}

\* The two commands of a listing are one step for its caller, as cmd_list_files(),
\* cmd_list_cds() and toolbox_cmd_get_file() take it: it looks at the directory
\* once, and brings the whole of it unless the card was changed or COUNT failed.
DirectoryNow ==
    LET d == Served(toolbox_cmd) IN [i \in 1..Len(d) |-> Entry(d, i)]

ListingStatus ==
    CASE lpc \in {"returned", "exit"} /\ lret = NO_ERROR -> "listed"
      [] lpc \in {"returned", "exit"} /\ lret # NO_ERROR -> "failed"
      [] lpc = "crashed"                                 -> "crashed"
      [] OTHER                                           -> "asked"

Misled == changes > 0 \/ (lpc \in {"list", "returned", "exit"} /\ ~counted)

AListing == INSTANCE DirectoryListing WITH
    Directories <- Seq(Entries), Junk <- Garbage, Most <- MaxCount,
    directory <- DirectoryNow, status <- ListingStatus,
    listing <- dir, disturbed <- Misled

ListingSpec == AListing!Spec

-----------------------------------------------------------------------------
(* What a comment says, where the code does otherwise. *)

\* "file_count carries the error": a listing whose COUNT failed is an error, not
\* an empty directory.
CountErrorIsReturned == lpc = "returned" /\ lret = NO_ERROR => counted
=============================================================================
