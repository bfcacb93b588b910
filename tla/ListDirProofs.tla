--------------------------- MODULE ListDirProofs ---------------------------
(***************************************************************************)
(* Proofs about ListDir, for every card and any number of changes made to  *)
(* it: the types, that an undisturbed listing is the directory asked for,  *)
(* that whatever fails is freed, and that it implements DirectoryListing.  *)
(***************************************************************************)
EXTENDS ListDir, SequenceTheorems, TLAPS

\* COUNT and LIST are about the same directory: what was counted is its length,
\* and what was listed is all of it, until somebody changes the card.
SameDirectory ==
    changes = 0 /\ counted =>
        /\ lpc = "list" => file_count = Len(Served(toolbox_cmd))
        /\ lpc = "returned" /\ lret = NO_ERROR =>
              dir = [i \in 1..Len(Served(toolbox_cmd)) |-> Entry(Served(toolbox_cmd), i)]

\* Nothing is allocated outside the time between LIST and the display.
Allocated ==
    heap = IF lpc = "returned" /\ lret = NO_ERROR THEN {"entries", "dir"} ELSE {}

ListInv == ListTypeOK /\ SameDirectory /\ Allocated

-----------------------------------------------------------------------------
LEMMA MaxCountType == MaxCount \in Nat
  BY DEF MaxCount

\* The directories of a card.
LEMMA CardType ==
    ASSUME card \in Cards
    PROVE  /\ card.files \in Seq(Files) /\ card.cds \in Seq(Files)
           /\ Len(card.files) \in 0..MaxCount /\ Len(card.cds) \in 0..MaxCount
<1>1. card \in [files : Seq(Files), cds : Seq(Files)]
  BY ListAssumption DEF ListAssumption
<1>2. Len(card.files) <= MaxCount /\ Len(card.cds) <= MaxCount
  BY ListAssumption DEF ListAssumption
<1>3. card.files \in Seq(Files) /\ card.cds \in Seq(Files)
  BY <1>1
<1> HIDE DEF Files
<1>4. Len(card.files) \in Nat /\ Len(card.cds) \in Nat
  BY <1>3, LenProperties
<1> QED
  BY <1>2, <1>3, <1>4

\* An entry as the device makes it of a file.
LEMMA EntryType ==
    ASSUME card \in Cards, NEW op, NEW i \in 1..Len(Served(op))
    PROVE  Entry(Served(op), i) \in Entries
<1> DEFINE d == Served(op)
<1>1. d \in Seq(Files) /\ Len(d) \in Nat /\ Len(d) <= MaxCount
  BY CardType, MaxCountType DEF Served
<1> HIDE DEF d
<1>2. d[i] \in Files
  BY <1>1, ElementOfSeq DEF d
<1>3. i - 1 \in 0..MaxCount
  BY <1>1, MaxCountType DEF d
<1> QED
  BY <1>2, <1>3 DEF Entry, Entries, Files, d

\* What LIST fills in, and what it leaves as malloc() returned it.
LEMMA ListedType ==
    ASSUME card \in Cards, file_count \in 0..MaxCount, NEW junk \in Garbage, NEW op
    PROVE  /\ Listed(Served(op), junk) \in Seq(Entries)
           /\ Len(Listed(Served(op), junk)) = file_count
           /\ \A i \in 1..file_count : i <= Len(Served(op))
                 => Listed(Served(op), junk)[i] = Entry(Served(op), i)
<1> DEFINE d == Served(op)
<1>1. Len(d) \in Nat
  BY CardType, MaxCountType DEF Served
<1>2. ASSUME NEW i \in 1..file_count, i <= Len(d)
      PROVE  Entry(d, i) \in Entries
  <2>1. i \in 1..Len(d)
    BY <1>1, <1>2, MaxCountType
  <2> QED
    BY <2>1, EntryType
<1> HIDE DEF d
<1>3. junk \in Entries
  BY ListAssumption DEF ListAssumption
<1>4. Listed(d, junk) \in [1..file_count -> Entries]
  BY <1>2, <1>3 DEF Listed
<1>5. Listed(d, junk) \in Seq(Entries) /\ Len(Listed(d, junk)) = file_count
  BY <1>4, SeqDef, LenProperties
<1>6. \A i \in 1..file_count : i <= Len(d) => Listed(d, junk)[i] = Entry(d, i)
  BY DEF Listed
<1> QED
  BY <1>5, <1>6 DEF d

\* What a step of the listing leaves behind.
LEMMA ListStepType ==
    ASSUME ListTypeOK, ListStep
    PROVE  ListTypeOK'
<1>1. CASE Count
  <2>1. Len(Served(CountCmd(toolbox_cmd))) \in 0..MaxCount /\ 0 \in 0..MaxCount
    BY CardType, MaxCountType DEF Served, ListTypeOK
  <2>2. file_count' \in 0..MaxCount
    BY <1>1, <2>1 DEF Count, ListTypeOK
  <2>3. counted' \in BOOLEAN /\ lret' \in ReturnCodes /\ lpc' \in {"returned", "list"}
    BY <1>1 DEF Count, ListTypeOK, ReturnCodes, INVALID_ARGS
  <2> QED
    BY <1>1, <2>2, <2>3 DEF Count, ListTypeOK
<1>2. CASE List
  <2>1. dir' \in Seq(Entries)
    BY <1>2, ListedType DEF List, ListTypeOK
  <2> QED
    BY <1>2, <2>1 DEF List, ListTypeOK, ReturnList, ReturnCodes, ALLOC_ERROR,
                      INVALID_ARGS, NO_ERROR
<1> QED
  BY <1>1, <1>2 DEF ListStep

\* What was counted is what is listed.
LEMMA SameDirectoryStep ==
    ASSUME ListTypeOK, SameDirectory, ListStep
    PROVE  SameDirectory'
<1>1. Served(toolbox_cmd)' = Served(toolbox_cmd) /\ UNCHANGED <<card, changes, toolbox_cmd>>
  BY DEF ListStep, Count, List, Served
<1>2. CASE Count
  <2>1. Served(CountCmd(toolbox_cmd)) = Served(toolbox_cmd)
    BY DEF ListTypeOK, Served, CountCmd, TOOLBOX_SCSI_LIST_FILES, TOOLBOX_SCSI_LIST_CDS,
           TOOLBOX_SCSI_COUNT_FILES, TOOLBOX_SCSI_COUNT_CDS
  <2>2. lpc' = "list" /\ counted' => file_count' = Len(Served(toolbox_cmd)')
    BY <1>1, <1>2, <2>1 DEF Count
  <2>3. ~(lpc' = "returned" /\ lret' = NO_ERROR)
    BY <1>2 DEF Count, INVALID_ARGS, NO_ERROR
  <2> QED
    BY <2>2, <2>3 DEF SameDirectory
<1>3. CASE List
  <2>1. SUFFICES ASSUME changes = 0, counted, lret' = NO_ERROR
                 PROVE  dir' = [i \in 1..Len(Served(toolbox_cmd)) |->
                                  Entry(Served(toolbox_cmd), i)]
    BY <1>1, <1>3 DEF List, ReturnList, SameDirectory, Entry
  <2>2. PICK junk \in Garbage : dir' = Listed(Served(toolbox_cmd), junk)
    BY <1>3, <2>1 DEF List, ReturnList, NO_ERROR, ALLOC_ERROR
  <2>3. file_count = Len(Served(toolbox_cmd)) /\ file_count \in Nat
    BY <1>3, <2>1, MaxCountType DEF List, SameDirectory, ListTypeOK
  <2> QED
    BY <2>2, <2>3 DEF Listed
<1> QED
  BY <1>2, <1>3 DEF ListStep

LEMMA ListInitInv == ListInit => ListInv
<1> SUFFICES ASSUME ListInit PROVE ListInv
  OBVIOUS
<1>1. dir \in Seq(Entries) /\ changes \in 0..MaxChanges /\ file_count \in 0..MaxCount
  BY EmptySeq, MaxCountType, ListAssumption DEF ListInit, ListAssumption
<1>2. ListTypeOK
  BY <1>1 DEF ListInit, ListTypeOK, ReturnCodes
<1> QED
  BY <1>2 DEF ListInit, ListInv, SameDirectory, Allocated

LEMMA CallStep == ListInv /\ CallList => ListInv'
  BY DEF CallList, ListInv, ListTypeOK, SameDirectory, Allocated, ReturnCodes, CMD_FAILED, Served

LEMMA ListStepKeeps == ListInv /\ ListStep => ListInv'
<1> SUFFICES ASSUME ListInv, ListStep PROVE ListInv'
  OBVIOUS
<1>1. ListTypeOK' /\ SameDirectory'
  BY ListStepType, SameDirectoryStep DEF ListInv
<1>2. Allocated'
  <2>1. CASE Count
    BY <2>1 DEF Count, ListInv, Allocated, INVALID_ARGS, NO_ERROR
  <2>2. CASE List
    BY <2>2 DEF List, ReturnList, ListInv, Allocated, ALLOC_ERROR, NO_ERROR
  <2> QED
    BY <2>1, <2>2 DEF ListStep
<1> QED
  BY <1>1, <1>2 DEF ListInv

LEMMA PrintStep == ListInv /\ PrintDir => ListInv'
  BY DEF PrintDir, ListInv, ListTypeOK, SameDirectory, Allocated, ReturnCodes, CMD_FAILED,
         NO_ERROR

LEMMA ChangeStep == ListInv /\ Change => ListInv'
  BY ListAssumption DEF Change, ListInv, ListTypeOK, SameDirectory, Allocated, ListAssumption

LEMMA ListInvariance == ListSpec => []ListInv
<1>1. ListInv /\ UNCHANGED listVars => ListInv'
  BY DEF listVars, ListInv, ListTypeOK, SameDirectory, Allocated, Served, Entry
<1>2. ListInv /\ [ListNext]_listVars => ListInv'
  BY <1>1, CallStep, ListStepKeeps, PrintStep, ChangeStep DEF ListNext
<1> QED
  BY <1>2, ListInitInv, PTL DEF ListSpec

-----------------------------------------------------------------------------
(* A listing is one step for its caller. *)

LEMMA DirectoryType ==
    ASSUME card \in Cards
    PROVE  /\ DirectoryNow \in Seq(Entries)
           /\ Len(DirectoryNow) = Len(Served(toolbox_cmd))
           /\ Len(Served(toolbox_cmd)) \in Nat
           /\ \A i \in 1..Len(Served(toolbox_cmd)) :
                 DirectoryNow[i] = Entry(Served(toolbox_cmd), i)
<1>1. Len(Served(toolbox_cmd)) \in Nat
  BY CardType, MaxCountType DEF Served
<1>2. DirectoryNow \in [1..Len(Served(toolbox_cmd)) -> Entries]
  BY EntryType DEF DirectoryNow
<1>3. DirectoryNow \in Seq(Entries) /\ Len(DirectoryNow) = Len(Served(toolbox_cmd))
  BY <1>1, <1>2, SeqDef, LenProperties
<1> QED
  BY <1>1, <1>3 DEF DirectoryNow

LEMMA NextDirectoryType == card' \in Cards => DirectoryNow' \in Seq(Entries)
<1>1. card \in Cards => DirectoryNow \in Seq(Entries)
  BY DirectoryType
<1>2. (card \in Cards => DirectoryNow \in Seq(Entries))'
  BY <1>1, PTL
<1> QED
  BY <1>2, ListAssumption DEF Entries

LEMMA SameDirectoryNow ==
    ASSUME card' = card, toolbox_cmd' = toolbox_cmd
    PROVE  DirectoryNow' = DirectoryNow
  BY DEF DirectoryNow, Served, Entry

\* A step that the caller does not see.
LEMMA UnseenListing ==
    ASSUME card' = card, toolbox_cmd' = toolbox_cmd, dir' = dir,
           ListingStatus' = ListingStatus, Misled' = Misled
    PROVE  UNCHANGED AListing!listingVars
  BY SameDirectoryNow DEF AListing!listingVars

LEMMA FailListing ==
    ASSUME card' = card, toolbox_cmd' = toolbox_cmd, dir' = dir,
           ListingStatus = "asked", ListingStatus' \in {"failed", "crashed"},
           Misled' \/ Misled' = Misled
    PROVE  AListing!Fail
<1>1. Misled' \in {Misled, TRUE}
  BY DEF Misled
<1> QED
  BY <1>1, SameDirectoryNow DEF AListing!Fail

\* Somebody changes the card.
LEMMA ChangeListing ==
    ASSUME ListTypeOK, Change
    PROVE  AListing!Disturb
<1>1. card' \in Cards /\ changes' > 0
  BY ListAssumption DEF Change, ListTypeOK, ListAssumption
<1>2. DirectoryNow' \in Seq(Entries) /\ Misled'
  BY <1>1, NextDirectoryType DEF Misled
<1>3. ListingStatus' = ListingStatus /\ dir' = dir
  BY DEF Change, ListingStatus
<1> QED
  BY <1>2, <1>3 DEF AListing!Disturb

\* COUNT is not seen, or gets in the way; LIST is the answer.
LEMMA ListStepListing ==
    ASSUME ListTypeOK, SameDirectory, ListStep
    PROVE  AListing!Next \/ UNCHANGED AListing!listingVars
<1>1. card' = card /\ toolbox_cmd' = toolbox_cmd /\ changes' = changes /\ card \in Cards
  BY DEF ListStep, Count, List, ListTypeOK
<1>2. ListingStatus = "asked"
  BY DEF ListStep, Count, List, ListingStatus
<1>3. CASE Count /\ ~target
  <2>1. ListingStatus' = "failed" /\ dir' = dir
    BY <1>3 DEF Count, ListingStatus, INVALID_ARGS, NO_ERROR
  <2>2. Misled' \/ Misled' = Misled
    BY <1>1, <1>3 DEF Count, Misled
  <2> QED
    BY <1>1, <1>2, <2>1, <2>2, FailListing DEF AListing!Next
<1>4. CASE Count /\ target
  <2>1. ListingStatus' = "asked" /\ dir' = dir /\ counted' \in BOOLEAN
    BY <1>4 DEF Count, ListingStatus
  <2>2. CASE counted'
    <3>1. Misled' = Misled
      BY <1>1, <1>4, <2>2 DEF Count, Misled
    <3> QED
      BY <1>1, <1>2, <2>1, <3>1, UnseenListing
  <2>3. CASE ~counted'
    <3>1. Misled'
      BY <1>4, <2>3 DEF Count, Misled
    <3>2. DirectoryNow' \in Seq(Entries)
      BY <1>1, NextDirectoryType
    <3>3. AListing!Disturb
      BY <1>2, <2>1, <3>1, <3>2 DEF AListing!Disturb
    <3> QED
      BY <3>3 DEF AListing!Next
  <2> QED
    BY <2>2, <2>3
<1>5. CASE List
  <2>1. Misled' = Misled
    BY <1>1, <1>5 DEF List, ReturnList, Misled
  <2>2. CASE lret' # NO_ERROR
    <3>1. ListingStatus' = "failed" /\ dir' = dir
      BY <1>5, <2>2 DEF List, ReturnList, ListingStatus
    <3> QED
      BY <1>1, <1>2, <2>1, <3>1, FailListing DEF AListing!Next
  <2>3. CASE lret' = NO_ERROR
    <3>1. ListingStatus' = "listed"
      BY <1>5, <2>3 DEF List, ReturnList, ListingStatus
    <3>2. PICK junk \in Garbage : dir' = Listed(Served(toolbox_cmd), junk)
      BY <1>5, <2>3 DEF List, ReturnList, NO_ERROR, ALLOC_ERROR
    <3>3. file_count \in 0..MaxCount /\ file_count \in Nat
      BY MaxCountType DEF ListTypeOK
    <3>4. dir' = AListing!Cut(DirectoryNow, file_count, junk)
      <4>1. \A i \in 1..file_count : i <= Len(DirectoryNow) =>
               DirectoryNow[i] = Entry(Served(toolbox_cmd), i)
        BY <1>1, <3>3, DirectoryType
      <4>2. Len(DirectoryNow) = Len(Served(toolbox_cmd))
        BY <1>1, DirectoryType
      <4> QED
        BY <3>2, <4>1, <4>2 DEF Listed, AListing!Cut
    <3>5. ~Misled => file_count = Len(DirectoryNow)
      <4>1. ~Misled => changes = 0 /\ counted
        BY <1>5 DEF List, Misled, ListTypeOK
      <4> QED
        BY <1>1, <1>5, <4>1, DirectoryType DEF List, SameDirectory
    <3>6. DirectoryNow' = DirectoryNow
      BY <1>1, SameDirectoryNow
    <3>7. AListing!Answer
      BY <1>2, <2>1, <3>1, <3>3, <3>4, <3>5, <3>6 DEF AListing!Answer
    <3> QED
      BY <3>7 DEF AListing!Next
  <2> QED
    BY <2>2, <2>3
<1> QED
  BY <1>3, <1>4, <1>5 DEF ListStep

LEMMA InitListing == ListInit => AListing!Init
<1> SUFFICES ASSUME ListInit PROVE AListing!Init
  OBVIOUS
<1>1. DirectoryNow \in Seq(Entries)
  BY DirectoryType DEF ListInit
<1>2. ListingStatus = "asked" /\ Misled = FALSE /\ dir = <<>>
  BY DEF ListInit, ListingStatus, Misled
<1> QED
  BY <1>1, <1>2 DEF AListing!Init

LEMMA StepListing == ListInv /\ [ListNext]_listVars => [AListing!Next]_(AListing!listingVars)
<1> SUFFICES ASSUME ListInv, [ListNext]_listVars
             PROVE  AListing!Next \/ UNCHANGED AListing!listingVars
  OBVIOUS
<1>1. CASE CallList
  <2>1. /\ card' = card /\ toolbox_cmd' = toolbox_cmd /\ dir' = dir
        /\ changes' = changes /\ counted' = counted
        /\ lpc = "call"
        /\ \/ lpc' \in {"count", "crashed"}
           \/ lpc' = "exit" /\ lret' = CMD_FAILED
    BY <1>1 DEF CallList
  <2>2. ListingStatus = "asked" /\ (Misled' \/ Misled' = Misled)
    BY <2>1 DEF ListingStatus, Misled
  <2>3. CASE lpc' = "count"
    BY <2>1, <2>2, <2>3, UnseenListing DEF ListingStatus, Misled
  <2>4. CASE lpc' # "count"
    <3>1. ListingStatus' \in {"failed", "crashed"}
      BY <2>1, <2>4 DEF ListingStatus, CMD_FAILED, NO_ERROR
    <3> QED
      BY <2>1, <2>2, <3>1, FailListing DEF AListing!Next
  <2> QED
    BY <2>3, <2>4
<1>2. CASE ListStep
  BY <1>2, ListStepListing DEF ListInv
<1>3. CASE PrintDir
  <2>1. ListingStatus' = ListingStatus
    BY <1>3 DEF PrintDir, ListingStatus, CMD_FAILED, NO_ERROR
  <2> QED
    BY <1>3, <2>1, UnseenListing DEF PrintDir, Misled
<1>4. CASE Change
  BY <1>4, ChangeListing DEF ListInv, AListing!Next
<1>5. CASE UNCHANGED listVars
  BY <1>5, UnseenListing DEF listVars, ListingStatus, Misled
<1> QED
  BY <1>1, <1>2, <1>3, <1>4, <1>5 DEF ListNext

-----------------------------------------------------------------------------
\* Every state of a listing is of the declared type: the count is a byte, and every
\* entry handed out has the fields of one, also when the card changed meanwhile.
THEOREM ListTypeCorrect == ListSpec => []ListTypeOK
<1>1. ListInv => ListTypeOK
  BY DEF ListInv
<1> QED
  BY <1>1, ListInvariance, PTL

\* For every card, of files and of CD images, an undisturbed listing is the whole
\* directory that was asked for, in order.
THEOREM ListsCorrect == ListSpec => []ListsTheDirectory
<1>1. ListInv => ListsTheDirectory
  BY DEF ListInv, SameDirectory, ListsTheDirectory
<1> QED
  BY <1>1, ListInvariance, PTL

\* Whatever fails or changes, a listing command that exits holds nothing, and
\* toolbox_cmd_list() hands out both allocations or none.
THEOREM LeaksNothingCorrect == ListSpec => []ListingLeaksNothing
<1>1. ListInv => ListingLeaksNothing
  BY DEF ListInv, Allocated, ListingLeaksNothing
<1> QED
  BY <1>1, ListInvariance, PTL

\* For every card and any number of changes, the two commands of a listing are one
\* step for its caller: what it gets was read at one moment, and is the whole
\* directory if nothing came between.
THEOREM RefinesListing == ListSpec => ListingSpec
<1>1. ListInit => AListing!Init
  BY InitListing
<1>2. ListInv /\ [ListNext]_listVars => [AListing!Next]_(AListing!listingVars)
  BY StepListing
<1> QED
  BY <1>1, <1>2, ListInvariance, PTL DEF ListSpec, ListingSpec, AListing!Spec
=============================================================================
