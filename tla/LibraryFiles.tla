---------------------------- MODULE LibraryFiles ----------------------------
(***************************************************************************)
(* The files of one title: imports from directories and downloads that put *)
(* videos into its directory, the move of that directory to another        *)
(* library, and the deletions.                                             *)
(*                                                                         *)
(* All sources have the same quality and codec, so the name of a file is   *)
(* its discriminator `extra', a number of LSlots (1 is the empty one).  A  *)
(* file is known by the source it was linked or copied from, and so is its *)
(* row, whose id the steps that follow hold on to; LSize tells             *)
(* sources of equal size apart from the others, because equal size counts  *)
(* as equal content.  Renaming of files that already are in the directory  *)
(* of the title (source_in_place) is left out.                             *)
(***************************************************************************)
EXTENDS Integers, FiniteSets, FiniteSetsExt

CONSTANTS LSources,     \* video files outside the library
          LSize,        \* their sizes
          LLibs,        \* the configured libraries
          LHome,        \* the library of the title at the start
          MaxImports,   \* imports of the title that run at the same time
          MaxLSlot,     \* bound on the discriminator
          MaxLDeletes,  \* bound on deletions by the user
          MaxMoves      \* bound on library moves

ASSUME LibraryAssumption ==
  /\ LSources \subseteq Nat \ {0} /\ IsFiniteSet(LSources) /\ LLibs \subseteq Nat \ {0}
  /\ LSize \in [LSources -> Nat] /\ LHome \in LLibs
  /\ MaxImports \in Nat /\ MaxLSlot \in Nat \ {0} /\ MaxLDeletes \in Nat /\ MaxMoves \in Nat

VARIABLES lDisk,    \* per library and name: the source of the file, or Nothing
          lRoot,    \* the libraries in which the directory of the title exists
          lRows,    \* the file rows: name -> the source that was imported
          lLib,     \* the library column of the title; Nothing: the title is deleted
          lImp,     \* the import of each source
          lMove,    \* the running library move
          lDel,     \* the running deletion
          lTouched, \* sources whose file the user deleted or an import renamed
          lDeletes, lMoves

lVars == <<lDisk, lRoot, lRows, lLib, lImp, lMove, lDel, lTouched, lDeletes, lMoves>>

Nothing == 0
LSlots == 1..MaxLSlot
NoMove == [pc |-> "idle", to |-> Nothing, done |-> {}, errors |-> {}, had |-> {}]
NoDelete == [pc |-> "idle", row |-> Nothing]
NoImport == [pc |-> "idle", lib |-> Nothing, slot |-> Nothing, dup |-> Nothing, row |-> Nothing]
Empty == [n \in LSlots |-> Nothing]
Rows == {n \in LSlots : lRows[n] # Nothing}
FilesIn(l) == {n \in LSlots : lDisk[l][n] # Nothing}
SameContent(a, b) == a = b \/ LSize[a] = LSize[b]

\* The files of a title on the libraries, and the imports, move and deletion of them.
LibraryTypeOK ==
  /\ lDisk \in [LLibs -> [LSlots -> LSources \cup {Nothing}]]
  /\ lRoot \subseteq LLibs
  /\ lRows \in [LSlots -> LSources \cup {Nothing}]
  /\ lLib \in LLibs \cup {Nothing}
  /\ lImp \in [LSources -> [pc : {"idle", "link", "reuse", "row", "imported", "failed"},
                            lib : LLibs \cup {Nothing}, slot : LSlots \cup {Nothing},
                            dup : LSlots \cup {Nothing}, row : LSources \cup {Nothing}]]
  /\ lMove \in [pc : {"idle", "link", "set", "remove"}, to : LLibs \cup {Nothing},
                done : SUBSET LSlots, errors : SUBSET LSlots, had : SUBSET LSources]
  /\ lDel \in [pc : {"idle", "row", "title"}, row : LSources \cup {Nothing}]
  /\ lTouched \subseteq LSources
  /\ lDeletes \in 0..MaxLDeletes /\ lMoves \in 0..MaxMoves

LibraryInit ==
  /\ lDisk = [l \in LLibs |-> Empty] /\ lRoot = {} /\ lRows = Empty /\ lLib = LHome
  /\ lImp = [s \in LSources |-> NoImport]
  /\ lMove = NoMove /\ lDel = NoDelete /\ lTouched = {}
  /\ lDeletes = 0 /\ lMoves = 0

(***************************************************************************)
(* One import.  It plans on the rows and files it sees, gives the session  *)
(* back, links the video and then writes its row.                          *)
(***************************************************************************)

\* The row whose file is the same content: its name is reused.
Duplicates(s) == {n \in Rows : lDisk[lLib][n] # Nothing /\ SameContent(lDisk[lLib][n], s)}
FreeSlots(s) == LSlots \ (IF Duplicates(s) = {} THEN Rows ELSE Rows \ {Min(Duplicates(s))})

\* A file that is a link of the source already is not imported again.
KnownInode(s) == \E n \in Rows : lLib # Nothing /\ lDisk[lLib][n] = s

\* The plan: a name of its own, or that of the row with the same content.
Planned(s) ==
  LET dup == Min(Duplicates(s)) IN
  IF Duplicates(s) = {}
  THEN [pc |-> "link", lib |-> lLib, slot |-> Min(FreeSlots(s)), dup |-> Nothing, row |-> Nothing]
  ELSE [pc |-> "reuse", lib |-> lLib, slot |-> Min(FreeSlots(s)), dup |-> dup, row |-> lRows[dup]]

RunningImports == {s \in LSources : lImp[s].pc \in {"link", "reuse", "row"}}

ImportDirectory(s) ==
  /\ lImp[s].pc = "idle" /\ lLib # Nothing
  /\ Cardinality(RunningImports) < MaxImports
  /\ ~KnownInode(s)
  /\ FreeSlots(s) # {}
  /\ lRoot' = lRoot \cup {lLib}
  /\ lImp' = [lImp EXCEPT ![s] = Planned(s)]
  /\ UNCHANGED <<lDisk, lRows, lLib, lMove, lDel, lTouched, lDeletes, lMoves>>

\* import_file: equal content is left alone, anything else is replaced.
Placed(disk, l, n, s) ==
  IF disk[l][n] # Nothing /\ SameContent(disk[l][n], s) THEN disk ELSE [disk EXCEPT ![l][n] = s]

LinkVideo(s) ==
  LET i == lImp[s] IN
  /\ i.pc = "link"
  /\ \/ /\ i.lib \in lRoot
        /\ lDisk' = Placed(lDisk, i.lib, i.slot, s)
        /\ lImp' = [lImp EXCEPT ![s].pc = "row"]
     \/ /\ lImp' = [lImp EXCEPT ![s].pc = "failed"]        \* DiskSpaceError
        /\ UNCHANGED lDisk
  /\ UNCHANGED <<lRoot, lRows, lLib, lMove, lDel, lTouched, lDeletes, lMoves>>

\* The unique constraint on the name refuses a second row, after the link.
AddFileRow(s) ==
  LET i == lImp[s] IN
  /\ i.pc = "row"
  /\ IF lLib # Nothing /\ lRows[i.slot] = Nothing
     THEN lRows' = [lRows EXCEPT ![i.slot] = s] /\ lImp' = [lImp EXCEPT ![s].pc = "imported"]
     ELSE lImp' = [lImp EXCEPT ![s].pc = "failed"] /\ UNCHANGED lRows
  /\ UNCHANGED <<lDisk, lRoot, lLib, lMove, lDel, lTouched, lDeletes, lMoves>>

\* rename_media_slot replaces the target; then the row takes the new name, wherever it
\* is by now, unless another row has that name; the update of a row that is gone is none.
ReuseSlot(s) ==
  LET i == lImp[s]
      moved == lDisk[i.lib][i.dup]
      exists == \E n \in LSlots : lRows[n] = i.row
      renamed == [n \in LSlots |-> IF n = i.slot THEN i.row ELSE IF lRows[n] = i.row THEN Nothing ELSE lRows[n]]
  IN
  /\ i.pc = "reuse"
  /\ lDisk' = IF i.slot = i.dup \/ moved = Nothing THEN lDisk
              ELSE [lDisk EXCEPT ![i.lib][i.slot] = moved, ![i.lib][i.dup] = Nothing]
  /\ IF exists /\ lRows[i.slot] \notin {Nothing, i.row}
     THEN lImp' = [lImp EXCEPT ![s].pc = "failed"] /\ UNCHANGED lRows
     ELSE /\ lImp' = [lImp EXCEPT ![s].pc = "imported"]
          /\ lRows' = IF exists THEN renamed ELSE lRows
  /\ lTouched' = IF i.slot = i.dup THEN lTouched ELSE lTouched \cup ({moved, i.row} \ {Nothing})
  /\ UNCHANGED <<lRoot, lLib, lMove, lDel, lDeletes, lMoves>>

(***************************************************************************)
(* The move to another library.                                            *)
(***************************************************************************)
MoveLibrary ==
  /\ lMove.pc = "idle" /\ lMoves < MaxMoves /\ lLib # Nothing
  /\ lMoves' = lMoves + 1
  /\ \E to \in LLibs \ {lLib} :
        IF lLib \notin lRoot
        THEN lLib' = to /\ UNCHANGED <<lRoot, lMove>>
        ELSE /\ lRoot' = lRoot \cup {to}
             /\ lMove' = [NoMove EXCEPT !.pc = "link", !.to = to,
                                        !.had = {lDisk[lLib][n] : n \in FilesIn(lLib) \cap Rows}]
             /\ UNCHANGED lLib
  /\ UNCHANGED <<lDisk, lRows, lImp, lDel, lTouched, lDeletes>>

Unlinked == IF lLib = Nothing THEN {} ELSE FilesIn(lLib) \ lMove.done

LinkTree ==
  /\ lMove.pc = "link" /\ Unlinked # {}
  /\ LET n == Min(Unlinked) IN
     \/ /\ lDisk' = Placed(lDisk, lMove.to, n, lDisk[lLib][n])
        /\ lMove' = [lMove EXCEPT !.done = @ \cup {n}]
     \/ /\ lMove' = [lMove EXCEPT !.done = @ \cup {n}, !.errors = @ \cup {n}]
        /\ UNCHANGED lDisk
  /\ UNCHANGED <<lRoot, lRows, lLib, lImp, lDel, lTouched, lDeletes, lMoves>>

\* Errors keep the source and the library as they are.
MayFinishIgnoringErrors == TRUE
MayFinish == lMove.errors = {}

LinkTreeEnds ==
  /\ lMove.pc = "link" /\ Unlinked = {}
  /\ lMove' = IF MayFinish /\ lLib # Nothing THEN [lMove EXCEPT !.pc = "set"] ELSE NoMove
  /\ UNCHANGED <<lDisk, lRoot, lRows, lLib, lImp, lDel, lTouched, lDeletes, lMoves>>

SetLibrary ==
  /\ lMove.pc = "set"
  /\ IF lLib = Nothing THEN lMove' = NoMove /\ UNCHANGED lLib
     ELSE lLib' = lMove.to /\ lMove' = [lMove EXCEPT !.pc = "remove", !.to = lLib]
  /\ UNCHANGED <<lDisk, lRoot, lRows, lImp, lDel, lTouched, lDeletes, lMoves>>

\* rmtree of the old directory, whatever is in it by now.
RemoveSource ==
  /\ lMove.pc = "remove"
  /\ lDisk' = [lDisk EXCEPT ![lMove.to] = Empty]
  /\ lRoot' = lRoot \ {lMove.to}
  /\ lMove' = NoMove
  /\ UNCHANGED <<lRows, lLib, lImp, lDel, lTouched, lDeletes, lMoves>>

(***************************************************************************)
(* Deletions: the files first, the rows after them.                        *)
(***************************************************************************)
Deleting == /\ lDel.pc = "idle" /\ lDeletes < MaxLDeletes /\ lLib # Nothing
            /\ lDeletes' = lDeletes + 1

DeleteLibraryFile(n) ==
  /\ Deleting /\ n \in Rows
  /\ lDisk' = [lDisk EXCEPT ![lLib][n] = Nothing]
  /\ lTouched' = lTouched \cup ({lDisk[lLib][n], lRows[n]} \ {Nothing})
  /\ lDel' = [pc |-> "row", row |-> lRows[n]]
  /\ UNCHANGED <<lRoot, lRows, lLib, lImp, lMove, lMoves>>

DeleteFileRow ==
  /\ lDel.pc = "row"
  /\ lRows' = [n \in LSlots |-> IF lRows[n] = lDel.row THEN Nothing ELSE lRows[n]]
  /\ lDel' = NoDelete
  /\ UNCHANGED <<lDisk, lRoot, lLib, lImp, lMove, lTouched, lDeletes, lMoves>>

\* delete_season_files removes the directory and keeps the rows.
DeleteDirectory ==
  /\ Deleting
  /\ lDisk' = [lDisk EXCEPT ![lLib] = Empty] /\ lRoot' = lRoot \ {lLib}
  /\ lTouched' = lTouched \cup {lDisk[lLib][n] : n \in FilesIn(lLib)} \cup {lRows[n] : n \in Rows}
  /\ UNCHANGED <<lRows, lLib, lImp, lMove, lDel, lMoves>>

DeleteShow ==
  /\ Deleting
  /\ lDisk' = [lDisk EXCEPT ![lLib] = Empty] /\ lRoot' = lRoot \ {lLib}
  /\ lTouched' = lTouched \cup {lDisk[lLib][n] : n \in FilesIn(lLib)} \cup {lRows[n] : n \in Rows}
  /\ lDel' = [NoDelete EXCEPT !.pc = "title"]
  /\ UNCHANGED <<lRows, lLib, lImp, lMove, lMoves>>

DeleteShowRow ==
  /\ lDel.pc = "title"
  /\ lRows' = Empty /\ lLib' = Nothing /\ lDel' = NoDelete
  /\ UNCHANGED <<lDisk, lRoot, lImp, lMove, lTouched, lDeletes, lMoves>>

LibraryNext ==
  \/ \E s \in LSources : ImportDirectory(s) \/ LinkVideo(s) \/ AddFileRow(s) \/ ReuseSlot(s)
  \/ MoveLibrary \/ LinkTree \/ LinkTreeEnds \/ SetLibrary \/ RemoveSource
  \/ (\E n \in LSlots : DeleteLibraryFile(n)) \/ DeleteFileRow \/ DeleteDirectory \/ DeleteShow \/ DeleteShowRow

LibrarySpec == LibraryInit /\ [][LibraryNext]_lVars

(***************************************************************************)
(* Properties.                                                             *)
(***************************************************************************)
OnLibraryDisk(c) == \E l \in LLibs, n \in LSlots : lDisk[l][n] # Nothing /\ SameContent(lDisk[l][n], c)

\* A library move loses no imported file it found: the removal of the old
\* directory takes no file that had its row when the move started and that
\* the user has not deleted and no import has renamed, whatever imports, link
\* failures and deletions came in between.
MoveLosesNothing ==
  [][RemoveSource => \A c \in lMove.had \ lTouched : OnLibraryDisk(c) => OnLibraryDisk(c)']_lVars

\* The name of a row is its own: no other import writes a different file
\* under it while the row stands.
RowNameIsOwn ==
  [][\A n \in LSlots : lRows[n] # Nothing /\ lRows'[n] = lRows[n] =>
       \A l \in LLibs : lDisk[l][n] # Nothing /\ SameContent(lDisk[l][n], lRows[n])
                           => lDisk'[l][n] = Nothing \/ SameContent(lDisk'[l][n], lRows[n])]_lVars

\* A file that was imported stays until the user deletes it.
ImportedIsKept ==
  \A s \in LSources : lImp[s].pc = "imported" /\ s \notin lTouched => OnLibraryDisk(s)

=============================================================================
