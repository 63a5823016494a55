--------------------------- MODULE FilesysProofs ---------------------------
(***************************************************************************)
(* Proofs about the file system, for disks, directories and files of any   *)
(* size and any number of open files.                                      *)
(***************************************************************************)
EXTENDS Filesys, Sequences, TLAPS

\* Types of the variables.
FilesysTypes ==
  /\ free_map \subseteq Sector /\ disk_map \subseteq Sector /\ lost \subseteq Sector
  /\ disk_inode \in [Sector -> DiskInode \cup {NoEntry}]
  /\ disk_dir \in [1 .. Slots -> DirEntry \cup {NoEntry}]
  /\ open_inodes \in [Sector -> OpenInode \cup {NoEntry}]
  /\ file \in [Handle -> OpenFile \cup {NoEntry}]
  /\ op \in [pc : {"none", "inode", "write", "add", "undo", "release", "release_data"},
             name : Name \cup BadName \cup {NoEntry}, sector : Sector, start : Nat, cnt : Nat]
  /\ op.pc = "none" => op = NoOp
  /\ op.pc = "undo" => op.cnt = 0
  /\ op.pc \in {"inode", "write", "add"} => op.name \in Name \cup BadName
  /\ \A s \in Sector : disk_inode[s] # NoEntry => Data(disk_inode[s]) \subseteq Sector

\* Everything that is in use is marked in use.
Marked == Reserved \cup LiveSectors \cup OpSectors \cup lost \subseteq free_map

\* Nothing is used twice, by the operation under way either.
Apart ==
  /\ NoSharedSectors
  /\ OpSectors \cap (Reserved \cup lost) = {}
  /\ op.pc \in {"write", "add", "release"} => op.sector \notin Data(op)
  /\ \A s \in Live : s \notin Data(disk_inode[s])

\* What the disk holds when the machine stops: the files in the directory, and the
\* new file as far as it got.
OnDisk ==
  /\ Reserved \subseteq disk_map
  /\ \A s \in Live : disk_inode[s] # NoEntry
  /\ CrashSafe
  /\ op.pc \in {"inode", "write", "add"} => OpSectors \subseteq disk_map
  /\ op.pc = "add" => disk_inode[op.sector] = [start |-> op.start, cnt |-> op.cnt]

\* An inode has one directory entry, and a removed one has none.
Linked ==
  /\ \A j, k \in 1 .. Slots :
       disk_dir[j] # NoEntry /\ disk_dir[k] # NoEntry /\ j # k =>
         disk_dir[j].sector # disk_dir[k].sector
  /\ \A s \in Opened : open_inodes[s].removed => s \notin Filed

\* The open files of an inode, and those that deny writes to it.
FilesOf(s) == {h \in Handle : file[h] # NoEntry /\ file[h].sector = s}
Denying(s) == {h \in FilesOf(s) : file[h].deny_write}

Referenced ==
  \A s \in Sector :
    IF open_inodes[s] = NoEntry THEN FilesOf(s) = {}
    ELSE /\ FilesOf(s) # {}
         /\ open_inodes[s].open_cnt = Cardinality(FilesOf(s))
         /\ open_inodes[s].deny_write_cnt = Cardinality(Denying(s))

FilesysInv == FilesysTypes /\ Marked /\ Apart /\ OnDisk /\ Linked /\ Referenced

\* Every open inode is in the directory, or will be released when it is closed.
Reachable == \A s \in Opened : open_inodes[s].removed \/ s \in Filed

\* If reads of the directory do not fail, nothing in use is forgotten either.
Kept ==
  /\ SectorsAccounted
  /\ NamesUnique
  /\ Reachable

-----------------------------------------------------------------------------
(* Facts about numbers and finite sets, from the library of theorems.  The   *)
(* lemmas assume them, and the end of the module proves them: the provers   *)
(* are slow wherever the library is in scope.                               *)

\* A set of natural numbers that is not empty has a least element.
LeastExists == \A S \in SUBSET Nat : S # {} => \E m \in S : \A k \in S : m <= k

\* How many elements a finite set, its subsets, and the set with an element more or
\* less have.
SizeLaws(S) ==
  /\ Cardinality(S) \in Nat /\ (Cardinality(S) = 0 <=> S = {})
  /\ \A T \in SUBSET S : IsFiniteSet(T) /\ Cardinality(T) <= Cardinality(S)
  /\ \A x : x \notin S => Cardinality(S \cup {x}) = Cardinality(S) + 1
  /\ \A x \in S : Cardinality(S \ {x}) = Cardinality(S) - 1
Counting == \A S : IsFiniteSet(S) => SizeLaws(S)

SetFacts == LeastExists /\ Counting

\* The least element is the set's Min: what bitmap_scan and the searches of the
\* directory find.
LEMMA LowestExists ==
  ASSUME SetFacts, NEW S, S \subseteq Nat, S # {}
  PROVE  Min(S) \in S /\ \A k \in S : Min(S) <= k
  BY Zenon DEF SetFacts, LeastExists, Min

\* Sectors are numbers, and the file system's own are on the disk.
LEMMA SectorNumbers ==
  Sector \subseteq Nat /\ Reserved \subseteq Sector /\ DiskSize \in Nat /\ 0 \in Sector
  BY FilesysAssumption DEF FilesysAssumption, Sector, Reserved

\* An extent of one sector.
LEMMA OneSector == \A s \in Sector : Extent(s, 1) = {s}
  BY SectorNumbers DEF Extent

\* The extent bitmap_scan finds is on the disk, and free.
LEMMA StartsFree ==
  ASSUME SetFacts, NEW cnt \in Nat, Starts(cnt) # {}
  PROVE  /\ Min(Starts(cnt)) \in Sector
         /\ Extent(Min(Starts(cnt)), cnt) \subseteq Sector
         /\ Extent(Min(Starts(cnt)), cnt) \cap free_map = {}
<1>1. Starts(cnt) \subseteq Nat
  BY Zenon, SectorNumbers DEF Starts
<1>2. Min(Starts(cnt)) \in Starts(cnt)
  BY Zenon, <1>1, LowestExists
<1> QED
  BY Zenon, <1>2 DEF Starts

\* Steps that leave the directory, the inodes and the open inodes alone keep the files.
LEMMA SameFiles ==
  ASSUME UNCHANGED <<disk_inode, disk_dir, open_inodes>>
  PROVE  /\ UNCHANGED <<Filed, Opened, Live, LiveSectors>>
         /\ \A s : FileSectors(s)' = FileSectors(s)
<1>1. UNCHANGED Filed /\ UNCHANGED Opened
  BY Zenon DEF Filed, Opened
<1>2. \A s : FileSectors(s)' = FileSectors(s)
  BY Zenon DEF FileSectors, Data
<1> QED
  BY <1>1, <1>2 DEF Live, LiveSectors, FileSectors, Data

\* The sectors of the operation under way, by its state.
LEMMA OpSectorsOf ==
  /\ op.pc = "none" => OpSectors = {}
  /\ op.pc = "inode" => OpSectors = {op.sector}
  /\ op.pc \in {"write", "add", "undo", "release"} => OpSectors = {op.sector} \cup Data(op)
  /\ op.pc = "release_data" => OpSectors = Data(op)
  BY Zenon DEF OpSectors

\* filesys_create takes a free sector for the inode.
LEMMA CreateKeeps ==
  ASSUME SetFacts, FilesysInv, filesys_create
  PROVE  FilesysInv' /\ (SectorsAccounted => SectorsAccounted')
<1> USE DEF FilesysInv
<1>1. PICK name \in Name \cup BadName, cnt \in Lengths :
        /\ op' = [pc |-> "inode", name |-> name, sector |-> Min(Starts(1)),
                  start |-> 0, cnt |-> cnt]
        /\ free_map_allocate(Min(Starts(1)), 1)
  BY Zenon DEF filesys_create
<1> DEFINE s == Min(Starts(1))
<1>2. s \in Sector /\ s \notin free_map /\ Extent(s, 1) = {s}
  <2>1. s \in Sector /\ Extent(s, 1) \cap free_map = {}
    BY Zenon, StartsFree DEF filesys_create
  <2> QED
    BY Zenon, <2>1, OneSector
<1> HIDE DEF s
<1>3. free_map' = free_map \cup {s} /\ disk_map' = free_map'
  BY Zenon, <1>1, <1>2 DEF free_map_allocate, Saved, s
<1>4. /\ UNCHANGED <<disk_inode, disk_dir, open_inodes, file, lost>>
      /\ cnt \in Nat
  BY Zenon, FilesysAssumption DEF filesys_create, openVars, FilesysAssumption
<1>5. OpSectors = {} /\ OpSectors' = {s} /\ op'.pc = "inode"
  BY Zenon, <1>1, OpSectorsOf DEF filesys_create, NoOp, OpSectors, s
<1>6. /\ UNCHANGED <<Filed, Opened, Live, LiveSectors>>
      /\ \A u : FileSectors(u)' = FileSectors(u)
  BY Zenon, <1>4, SameFiles
<1>7. FilesysTypes'
  BY Zenon, <1>1, <1>2, <1>3, <1>4 DEF FilesysTypes, s, Data, Extent
<1>8. Marked'
  BY Zenon, <1>3, <1>4, <1>5, <1>6 DEF Marked, Reserved
<1>9. Apart'
  BY Zenon, <1>2, <1>4, <1>5, <1>6 DEF Apart, NoSharedSectors, Marked, Reserved
<1>10. OnDisk'
  BY <1>3, <1>4, <1>5, <1>6 DEF OnDisk, CrashSafe, Marked, LiveSectors, Live, Reserved
<1>11. Linked' /\ Referenced'
  BY Zenon, <1>4, <1>6 DEF Linked, Referenced, FilesOf, Denying
<1>12. SectorsAccounted => SectorsAccounted'
  BY Zenon, <1>3, <1>4, <1>5, <1>6 DEF SectorsAccounted, Reserved
<1> QED
  BY Zenon, <1>7, <1>8, <1>9, <1>10, <1>11, <1>12

\* inode_create takes the sectors of the data, or gives up.
LEMMA InodeCreateKeeps ==
  ASSUME SetFacts, FilesysInv, inode_create
  PROVE  FilesysInv' /\ (SectorsAccounted => SectorsAccounted')
<1> USE DEF FilesysInv
<1>1. /\ UNCHANGED <<disk_inode, disk_dir, open_inodes, file, lost>>
      /\ OpSectors = {op.sector} /\ op.pc = "inode"
  BY Zenon, OpSectorsOf DEF inode_create, openVars
<1>2. /\ UNCHANGED <<Filed, Opened, Live, LiveSectors>>
      /\ \A u : FileSectors(u)' = FileSectors(u)
  BY Zenon, <1>1, SameFiles
<1>3. Linked' /\ Referenced'
  BY Zenon, <1>1, <1>2 DEF Linked, Referenced, FilesOf, Denying
<1>4. CASE /\ op' = [op EXCEPT !.pc = "undo", !.cnt = 0]
           /\ UNCHANGED <<free_map, disk_map>>
  <2>1. OpSectors' = {op.sector} /\ op'.pc = "undo"
    BY <1>4, SectorNumbers DEF OpSectors, Data, Extent, FilesysTypes
  <2>2. FilesysTypes'
    BY Zenon, <1>1, <1>4 DEF FilesysTypes, Data, Extent
  <2>3. Marked' /\ Apart'
    BY Zenon, <1>1, <1>2, <1>4, <2>1 DEF Marked, Apart, NoSharedSectors, Reserved
  <2>4. OnDisk'
    BY Zenon, <1>1, <1>2, <1>4, <2>1 DEF OnDisk, CrashSafe, Reserved
  <2>5. SectorsAccounted => SectorsAccounted'
    BY Zenon, <1>1, <1>2, <1>4, <2>1 DEF SectorsAccounted, Reserved
  <2> QED
    BY Zenon, <1>3, <2>2, <2>3, <2>4, <2>5
<1>5. CASE /\ Starts(op.cnt) # {}
           /\ free_map_allocate(Min(Starts(op.cnt)), op.cnt)
           /\ op' = [op EXCEPT !.pc = "write", !.start = Min(Starts(op.cnt))]
  <2> DEFINE s == Min(Starts(op.cnt))
             E == Extent(s, op.cnt)
  <2>1. s \in Sector /\ s \in Nat /\ E \subseteq Sector /\ E \cap free_map = {}
    BY Zenon, <1>5, StartsFree, SectorNumbers DEF FilesysTypes
  <2>2. op' = [op EXCEPT !.pc = "write", !.start = s]
    BY Zenon, <1>5
  <2>3. free_map' = free_map \cup E /\ disk_map' = free_map'
    BY Zenon, <1>5 DEF free_map_allocate, Saved
  <2> HIDE DEF s
  <2>4. Data(op)' = E /\ op'.pc = "write" /\ op'.sector = op.sector
    BY Zenon, <2>2 DEF Data, FilesysTypes
  <2>5. OpSectors' = {op.sector} \cup E
    BY Zenon, <2>4 DEF OpSectors
  <2> HIDE DEF E
  <2>6. FilesysTypes'
    BY Zenon, <1>1, <2>1, <2>2, <2>3 DEF FilesysTypes, Data, Extent
  <2>7. Marked'
    BY Zenon, <1>1, <1>2, <2>3, <2>5 DEF Marked, Reserved
  <2>8. Apart'
    BY Zenon, <1>1, <1>2, <2>1, <2>4, <2>5 DEF Marked, Apart, NoSharedSectors, Reserved
  <2>9. OnDisk'
    BY <1>1, <1>2, <2>3, <2>4, <2>5 DEF OnDisk, CrashSafe, Marked, LiveSectors, Live, Reserved
  <2>10. SectorsAccounted => SectorsAccounted'
    BY Zenon, <1>1, <1>2, <2>3, <2>5 DEF SectorsAccounted, Reserved
  <2> QED
    BY Zenon, <1>3, <2>6, <2>7, <2>8, <2>9, <2>10
<1> QED
  BY Zenon, <1>4, <1>5 DEF inode_create

\* The inode is written to a sector no file uses.
LEMMA WriteInodeKeeps ==
  ASSUME FilesysInv, WriteInode
  PROVE  FilesysInv' /\ (SectorsAccounted => SectorsAccounted')
<1> USE DEF FilesysInv
<1>1. /\ UNCHANGED <<free_map, disk_map, disk_dir, open_inodes, file, lost>>
      /\ OpSectors = {op.sector} \cup Data(op) /\ op.pc = "write"
      /\ op' = [op EXCEPT !.pc = "add"]
  BY Zenon, OpSectorsOf DEF WriteInode, openVars
<1>2. OpSectors' = OpSectors /\ op'.pc = "add" /\ Data(op)' = Data(op) /\ op'.sector = op.sector
  BY Zenon, <1>1 DEF OpSectors, FilesysTypes, Data
<1>3. op.sector \notin Live
  BY <1>1 DEF Apart, NoSharedSectors, LiveSectors, FileSectors
<1>4. /\ disk_inode' = [disk_inode EXCEPT ![op.sector] = [start |-> op.start, cnt |-> op.cnt]]
      /\ op.sector \in Sector /\ [start |-> op.start, cnt |-> op.cnt] \in DiskInode
  BY Zenon DEF WriteInode, FilesysTypes, DiskInode
<1>5. \A u \in Live : disk_inode'[u] = disk_inode[u] /\ FileSectors(u)' = FileSectors(u)
  BY <1>3, <1>4 DEF FilesysTypes, FileSectors, Data
<1>6. UNCHANGED <<Filed, Opened, Live>>
  BY Zenon, <1>1 DEF Filed, Opened, Live
<1>7. UNCHANGED LiveSectors
  BY Zenon, <1>5, <1>6 DEF LiveSectors
<1>8. Linked' /\ Referenced'
  BY ZenonT(30), <1>1, <1>6 DEF Linked, Referenced, FilesOf, Denying
<1>9. FilesysTypes'
  <2>1. Data(op) \subseteq Sector /\ Data([start |-> op.start, cnt |-> op.cnt]) = Data(op)
    BY Zenon, <1>1 DEF Marked, FilesysTypes, Data
  <2> QED
    BY Zenon, <1>1, <1>4, <2>1 DEF FilesysTypes, Data
<1>10. Marked'
  BY Zenon, <1>1, <1>2, <1>7 DEF Marked, Reserved
<1>11. Apart'
  <2>1. \A s, u \in Live : s # u => FileSectors(s)' \cap FileSectors(u)' = {}
    BY Zenon, <1>5 DEF Apart, NoSharedSectors
  <2>2. \A s \in Opened : open_inodes[s].data = disk_inode'[s]
    BY Zenon, <1>5 DEF Apart, NoSharedSectors, Live
  <2>3. \A s \in Live : s \notin Data(disk_inode'[s])
    BY Zenon, <1>5 DEF Apart
  <2> QED
    BY Zenon, <1>1, <1>2, <1>6, <1>7, <2>1, <2>2, <2>3 DEF Apart, NoSharedSectors, Reserved
<1>12. OnDisk'
  <2>1. \A s \in Filed : disk_inode'[s] # NoEntry /\ FileSectors(s)' \subseteq disk_map
    BY Zenon, <1>5 DEF OnDisk, CrashSafe, Live
  <2>2. disk_inode'[op.sector] = [start |-> op.start, cnt |-> op.cnt]
    BY Zenon, <1>4 DEF FilesysTypes
  <2>3. op'.start = op.start /\ op'.cnt = op.cnt
    BY Zenon, <1>1 DEF FilesysTypes
  <2> QED
    BY Zenon, <1>1, <1>2, <1>5, <1>6, <2>1, <2>2, <2>3 DEF OnDisk, CrashSafe, Reserved
<1>13. SectorsAccounted => SectorsAccounted'
  BY Zenon, <1>1, <1>2, <1>7 DEF SectorsAccounted, Reserved
<1> QED
  BY Zenon, <1>8, <1>9, <1>10, <1>11, <1>12, <1>13

\* dir_add that succeeds makes the operation's sectors those of a file.
LEMMA DirAddFiles ==
  ASSUME FilesysInv, op.pc = "add", UNCHANGED <<free_map, disk_map, disk_inode, openVars, lost>>,
         NEW k \in 1 .. Slots, op' = NoOp,
         disk_dir' = [disk_dir EXCEPT ![k] = [name |-> op.name, sector |-> op.sector]]
  PROVE  /\ FilesysInv'
         /\ disk_dir[k] = NoEntry => Filed' = Filed \cup {op.sector}
         /\ disk_dir[k] = NoEntry /\ SectorsAccounted => SectorsAccounted'
<1> USE DEF FilesysInv
<1>1. /\ UNCHANGED <<free_map, disk_map, disk_inode, open_inodes, file, lost, Opened>>
      /\ OpSectors = {op.sector} \cup Data(op) /\ OpSectors' = {} /\ op'.pc = "none"
      /\ op.sector \in Sector
  BY Zenon, OpSectorsOf DEF openVars, OpSectors, NoOp, Data, Extent, Opened, FilesysTypes
<1>2. op.sector \notin Live
  BY SMTT(30), <1>1 DEF Apart, NoSharedSectors, LiveSectors, FileSectors
<1>3. /\ [name |-> op.name, sector |-> op.sector] \in DirEntry
      /\ [name |-> op.name, sector |-> op.sector] # NoEntry
  BY SMTT(30), <1>1, NoEntryAssumption DEF DirEntry, NoEntryAssumption, FilesysTypes
<1>4. /\ disk_dir'[k] = [name |-> op.name, sector |-> op.sector]
      /\ disk_dir'[k].sector = op.sector
      /\ \A j \in 1 .. Slots : j # k => disk_dir'[j] = disk_dir[j]
  BY Zenon DEF FilesysTypes
<1>5. op.sector \in Filed' /\ Filed' \subseteq Filed \cup {op.sector}
  BY Zenon, <1>3, <1>4 DEF Filed
<1>6. disk_dir[k] = NoEntry => Filed \subseteq Filed'
  BY Zenon, <1>4 DEF Filed
<1>7. Live' \subseteq Live \cup {op.sector} /\ op.sector \in Live'
  BY Zenon, <1>1, <1>5 DEF Live
<1>8. \A s : FileSectors(s)' = FileSectors(s)
  BY Zenon, <1>1 DEF FileSectors, Data
<1>9. FileSectors(op.sector) = OpSectors
  BY SMTT(30), <1>1 DEF OnDisk, FileSectors, Data
<1>10. LiveSectors' \subseteq LiveSectors \cup OpSectors
  BY Zenon, <1>7, <1>8, <1>9 DEF LiveSectors
<1>11. disk_dir[k] = NoEntry => LiveSectors' = LiveSectors \cup OpSectors
  <2> SUFFICES ASSUME disk_dir[k] = NoEntry PROVE LiveSectors \cup OpSectors \subseteq LiveSectors'
    BY Zenon, <1>10
  <2>1. Live \subseteq Live'
    BY Zenon, <1>1, <1>6 DEF Live
  <2> QED
    BY Zenon, <1>7, <1>8, <1>9, <2>1 DEF LiveSectors
<1>12. FilesysTypes'
  BY Zenon, <1>1, <1>3, SectorNumbers DEF FilesysTypes, NoOp, Data
<1>13. Marked'
  BY Zenon, <1>1, <1>10 DEF Marked, Reserved
<1>14. Apart'
  <2>1. \A s \in Live : FileSectors(s) \cap FileSectors(op.sector) = {}
    BY Zenon, <1>9 DEF Apart, NoSharedSectors, LiveSectors
  <2>2. \A s, u \in Live' : s # u => FileSectors(s)' \cap FileSectors(u)' = {}
    BY Zenon, <1>7, <1>8, <2>1 DEF Apart, NoSharedSectors
  <2>3. op.sector \notin Data(disk_inode[op.sector])
    BY SMTT(30) DEF Apart, OnDisk, Data
  <2> QED
    BY Zenon, <1>1, <1>7, <1>10, <2>2, <2>3 DEF Apart, NoSharedSectors, Reserved
<1>15. OnDisk'
  <2>1. disk_inode[op.sector] # NoEntry
    BY SMTT(30), NoEntryAssumption DEF OnDisk, FilesysTypes, DiskInode, NoEntryAssumption
  <2>2. FileSectors(op.sector) \subseteq disk_map
    BY Zenon, <1>9 DEF OnDisk
  <2> QED
    BY Zenon, <1>1, <1>5, <1>7, <1>8, <2>1, <2>2 DEF OnDisk, CrashSafe, Reserved
<1>16. Linked'
  <2>1. \A j \in 1 .. Slots : j # k /\ disk_dir[j] # NoEntry => disk_dir[j].sector # op.sector
    BY Zenon, <1>2 DEF Live, Filed
  <2>2. op.sector \notin Opened
    BY Zenon, <1>2 DEF Live
  <2> QED
    BY SMTT(30), <1>1, <1>4, <1>5, <2>1, <2>2 DEF Linked
<1>17. Referenced'
  BY ZenonT(30), <1>1 DEF Referenced, FilesOf, Denying
<1>18. disk_dir[k] = NoEntry /\ SectorsAccounted => SectorsAccounted'
  BY Zenon, <1>1, <1>11 DEF SectorsAccounted, Reserved
<1> QED
  BY Zenon, <1>5, <1>6, <1>18, <1>12, <1>13, <1>14, <1>15, <1>16, <1>17

\* dir_add that fails loses the data sectors.
LEMMA DirAddFails ==
  ASSUME FilesysInv, op.pc = "add",
         UNCHANGED <<free_map, disk_map, disk_inode, disk_dir, openVars>>,
         lost' = lost \cup Data(op), op' = [op EXCEPT !.pc = "undo", !.cnt = 0]
  PROVE  FilesysInv' /\ (SectorsAccounted => SectorsAccounted')
<1> USE DEF FilesysInv
<1>1. /\ UNCHANGED <<disk_inode, disk_dir, open_inodes, file>>
      /\ OpSectors = {op.sector} \cup Data(op) /\ op.sector \notin Data(op)
  BY Zenon, OpSectorsOf DEF openVars, Apart
<1>2. /\ UNCHANGED <<Filed, Opened, Live, LiveSectors>>
      /\ \A u : FileSectors(u)' = FileSectors(u)
  BY Zenon, <1>1, SameFiles
<1>3. OpSectors' = {op.sector} /\ op'.pc = "undo"
  BY SMTT(30), SectorNumbers DEF OpSectors, Data, Extent, FilesysTypes
<1>4. FilesysTypes'
  <2>1. Data(op) \subseteq Sector
    BY Zenon, <1>1 DEF Marked, FilesysTypes
  <2> QED
    BY Zenon, <1>1, <2>1 DEF FilesysTypes, Data
<1>5. Marked'
  BY Zenon, <1>1, <1>2, <1>3 DEF Marked, Reserved
<1>6. Apart'
  BY Zenon, <1>1, <1>2, <1>3 DEF Marked, Apart, NoSharedSectors, Reserved
<1>7. OnDisk'
  BY Zenon, <1>1, <1>2, <1>3 DEF OnDisk, CrashSafe, Reserved
<1>8. Linked' /\ Referenced'
  BY ZenonT(30), <1>1, <1>2 DEF Linked, Referenced, FilesOf, Denying
<1>9. SectorsAccounted => SectorsAccounted'
  BY Zenon, <1>1, <1>2, <1>3 DEF SectorsAccounted, Reserved
<1> QED
  BY Zenon, <1>4, <1>5, <1>6, <1>7, <1>8, <1>9

\* Giving sectors of the operation back: they are free, and the disk learns of it now
\* or later.
LEMMA ReleaseKeeps ==
  ASSUME FilesysInv, UNCHANGED <<disk_inode, disk_dir, openVars, lost>>,
         op.pc \in {"undo", "release", "release_data"},
         NEW start, NEW cnt, free_map_release(start, cnt),
         OpSectors' = OpSectors \ Extent(start, cnt), Extent(start, cnt) \subseteq OpSectors,
         FilesysTypes', op'.pc \in {"none", "release_data"}
  PROVE  FilesysInv' /\ (SectorsAccounted => SectorsAccounted')
<1> USE DEF FilesysInv
<1>1. /\ UNCHANGED <<disk_inode, disk_dir, open_inodes, file, lost>>
      /\ free_map' = free_map \ Extent(start, cnt)
      /\ disk_map' \in {disk_map, free_map'}
  BY Zenon DEF openVars, free_map_release, Saved
<1>2. /\ UNCHANGED <<Filed, Opened, Live, LiveSectors>>
      /\ \A u : FileSectors(u)' = FileSectors(u)
  BY Zenon, <1>1, SameFiles
<1>3. (Reserved \cup LiveSectors \cup lost) \cap Extent(start, cnt) = {}
  BY Zenon DEF Apart, NoSharedSectors
<1>4. Marked'
  BY Zenon, <1>1, <1>2, <1>3 DEF Marked, Reserved
<1>5. Apart'
  BY Zenon, <1>1, <1>2 DEF Apart, NoSharedSectors, Reserved
<1>6. OnDisk'
  <2>1. \A s \in Filed : FileSectors(s) \subseteq disk_map'
    BY SMTT(30), <1>1, <1>2, <1>4 DEF OnDisk, CrashSafe, Marked, LiveSectors, Live
  <2>2. Reserved \subseteq disk_map'
    BY Zenon, <1>1, <1>4 DEF OnDisk, Marked, Reserved
  <2> QED
    BY Zenon, <1>1, <1>2, <2>1, <2>2 DEF OnDisk, CrashSafe, Reserved
<1>7. Linked' /\ Referenced'
  BY ZenonT(30), <1>1, <1>2 DEF Linked, Referenced, FilesOf, Denying
<1>8. SectorsAccounted => SectorsAccounted'
  BY Zenon, <1>1, <1>2, <1>3 DEF SectorsAccounted, Reserved
<1> QED
  BY Zenon, <1>4, <1>5, <1>6, <1>7, <1>8

\* A failed creation gives the sector of the inode back.
LEMMA UndoKeeps ==
  ASSUME FilesysInv, Undo
  PROVE  FilesysInv' /\ (SectorsAccounted => SectorsAccounted')
<1> USE DEF FilesysInv
<1>1. /\ op.pc = "undo" /\ op' = NoOp /\ free_map_release(op.sector, 1)
      /\ UNCHANGED <<disk_inode, disk_dir, openVars, lost>>
  BY Zenon DEF Undo
<1>2. op.sector \in Sector /\ Extent(op.sector, 1) = {op.sector}
  BY Zenon, OneSector DEF FilesysTypes
<1>3. OpSectors = {op.sector} /\ OpSectors' = {} /\ op'.pc = "none"
  BY SMTT(30), <1>1, OpSectorsOf DEF OpSectors, NoOp, Data, Extent, FilesysTypes
<1>4. FilesysTypes'
  BY Zenon, <1>1, <1>2, SectorNumbers DEF FilesysTypes, NoOp, free_map_release, Saved, openVars, Data
<1> QED
  BY Zenon, <1>1, <1>2, <1>3, <1>4, ReleaseKeeps

\* inode_close gives the sectors of a removed inode back.
LEMMA CloseReleases ==
  ASSUME FilesysInv, Release
  PROVE  FilesysInv' /\ (SectorsAccounted => SectorsAccounted')
<1> USE DEF FilesysInv
<1>1. UNCHANGED <<disk_inode, disk_dir, openVars, lost>>
  BY Zenon DEF Release
<1>2. CASE /\ op.pc = "release" /\ free_map_release(op.sector, 1)
           /\ op' = [op EXCEPT !.pc = "release_data"]
  <2>1. op.sector \in Sector /\ Extent(op.sector, 1) = {op.sector}
    BY Zenon, OneSector DEF FilesysTypes
  <2>2. OpSectors = {op.sector} \cup Data(op) /\ OpSectors' = Data(op) /\ op'.pc = "release_data"
    BY Zenon, <1>2, OpSectorsOf DEF OpSectors, Data, FilesysTypes
  <2>3. op.sector \notin Data(op)
    BY Zenon, <1>2 DEF Apart
  <2>4. FilesysTypes'
    BY Zenon, <1>1, <1>2 DEF FilesysTypes, free_map_release, Saved, openVars, Data
  <2> QED
    BY Zenon, <1>1, <1>2, <2>1, <2>2, <2>3, <2>4, ReleaseKeeps
<1>3. CASE op.pc = "release_data" /\ free_map_release(op.start, op.cnt) /\ op' = NoOp
  <2>1. OpSectors = Extent(op.start, op.cnt) /\ OpSectors' = {} /\ op'.pc = "none"
    BY Zenon, <1>3, OpSectorsOf DEF OpSectors, NoOp, Data
  <2>2. FilesysTypes'
    BY Zenon, <1>1, <1>3, SectorNumbers
    DEF FilesysTypes, NoOp, free_map_release, Saved, openVars, Data
  <2> QED
    BY Zenon, <1>1, <1>3, <2>1, <2>2, ReleaseKeeps
<1> QED
  BY Zenon, <1>2, <1>3 DEF Release

\* After a restart the file system is what the disk holds.
LEMMA RestartKeeps ==
  ASSUME FilesysInv, Restart
  PROVE  FilesysInv' /\ SectorsAccounted'
<1> USE DEF FilesysInv
<1>1. /\ UNCHANGED <<disk_map, disk_inode, disk_dir>> /\ free_map' = disk_map
      /\ op' = NoOp /\ open_inodes' = [s \in Sector |-> NoEntry]
      /\ file' = [h \in Handle |-> NoEntry]
      /\ lost' = disk_map \ (Reserved \cup UNION {FileSectors(s) : s \in Filed})
  BY Zenon DEF Restart, diskVars
<1>2. UNCHANGED Filed /\ Opened' = {} /\ OpSectors' = {} /\ op'.pc = "none"
  BY Zenon, <1>1 DEF Filed, Opened, OpSectors, NoOp
<1>3. Live' = Filed /\ \A s : FileSectors(s)' = FileSectors(s)
  BY Zenon, <1>1, <1>2 DEF Live, FileSectors, Data
<1>4. LiveSectors' = UNION {FileSectors(s) : s \in Filed}
  BY Zenon, <1>3 DEF LiveSectors
<1>5. LiveSectors' \subseteq disk_map /\ LiveSectors' \subseteq LiveSectors
  BY Zenon, <1>4 DEF OnDisk, CrashSafe, LiveSectors, Live
<1>6. FilesysTypes'
  BY Zenon, <1>1, SectorNumbers DEF FilesysTypes, NoOp, Data
<1>7. Marked' /\ SectorsAccounted'
  BY Zenon, <1>1, <1>2, <1>4, <1>5 DEF Marked, SectorsAccounted, OnDisk, Reserved
<1>8. Apart'
  BY Zenon, <1>1, <1>2, <1>3, <1>4, <1>5 DEF Apart, NoSharedSectors, Live, Reserved
<1>9. OnDisk'
  BY Zenon, <1>1, <1>2, <1>3 DEF OnDisk, CrashSafe, Live, Reserved
<1>10. Linked' /\ Referenced'
  BY Zenon, <1>1, <1>2 DEF Linked, Referenced, FilesOf, Denying
<1> QED
  BY Zenon, <1>6, <1>7, <1>8, <1>9, <1>10

-----------------------------------------------------------------------------
(* Counting open files.                                                    *)

\* An inode has finitely many open files, and no more that deny writes.
LEMMA FilesFinite ==
  ASSUME SetFacts
  PROVE  /\ \A s : IsFiniteSet(FilesOf(s)) /\ Cardinality(FilesOf(s)) \in Nat
         /\ \A s : IsFiniteSet(Denying(s)) /\ Cardinality(Denying(s)) \in Nat
         /\ \A s : Denying(s) \subseteq FilesOf(s) /\ FilesOf(s) \subseteq Handle
         /\ \A s : Cardinality(FilesOf(s)) = 0 <=> FilesOf(s) = {}
         /\ \A s : Cardinality(Denying(s)) = 0 <=> Denying(s) = {}
<1>1. \A s : FilesOf(s) \subseteq Handle /\ Denying(s) \subseteq Handle
  BY Zenon DEF FilesOf, Denying
<1>2. IsFiniteSet(Handle)
  BY Zenon, FilesysAssumption DEF FilesysAssumption
<1>3. \A s : IsFiniteSet(FilesOf(s)) /\ IsFiniteSet(Denying(s))
  BY Zenon, <1>1, <1>2 DEF SetFacts, Counting, SizeLaws
<1>4. \A s : Denying(s) \subseteq FilesOf(s)
  BY Zenon DEF Denying
<1> QED
  BY Zenon, <1>1, <1>3, <1>4 DEF SetFacts, Counting, SizeLaws

\* A new open file is counted once, for its inode.
LEMMA OpenCounts ==
  ASSUME SetFacts, FilesysTypes, NEW h \in Handle, file[h] = NoEntry, NEW s \in Sector,
         file' = [file EXCEPT ![h] = [sector |-> s, deny_write |-> FALSE]]
  PROVE  /\ FilesOf(s)' = FilesOf(s) \cup {h}
         /\ Cardinality(FilesOf(s)') = Cardinality(FilesOf(s)) + 1
         /\ \A u \in Sector \ {s} : FilesOf(u)' = FilesOf(u)
         /\ \A u \in Sector : Denying(u)' = Denying(u)
<1>1. /\ [sector |-> s, deny_write |-> FALSE] # NoEntry
      /\ [sector |-> s, deny_write |-> FALSE] \in OpenFile
  <2>1. [sector |-> s, deny_write |-> FALSE] \in OpenFile
    BY Zenon DEF OpenFile
  <2> QED
    BY Zenon, <2>1, NoEntryAssumption DEF NoEntryAssumption
<1>2. \A g \in Handle : file'[g] = IF g = h THEN [sector |-> s, deny_write |-> FALSE]
                                  ELSE file[g]
  BY Zenon DEF FilesysTypes
<1>3. FilesOf(s)' = FilesOf(s) \cup {h} /\ h \notin FilesOf(s)
  BY SMTT(30), <1>1, <1>2 DEF FilesOf
<1>4. \A u \in Sector \ {s} : FilesOf(u)' = FilesOf(u)
  BY SMTT(30), <1>1, <1>2 DEF FilesOf
<1>5. \A u \in Sector : Denying(u)' = Denying(u)
  BY SMTT(30), <1>1, <1>2 DEF Denying, FilesOf
<1> QED
  BY ZenonT(30), <1>3, <1>4, <1>5, FilesFinite DEF SetFacts, Counting, SizeLaws

\* An open file that is closed is counted no more.
LEMMA CloseCounts ==
  ASSUME SetFacts, FilesysTypes, NEW h \in Handle, file[h] # NoEntry, NEW s, s = file[h].sector,
         file' = [file EXCEPT ![h] = NoEntry]
  PROVE  /\ s \in Sector /\ h \in FilesOf(s)
         /\ FilesOf(s)' = FilesOf(s) \ {h}
         /\ Cardinality(FilesOf(s)') = Cardinality(FilesOf(s)) - 1
         /\ Cardinality(FilesOf(s)') = 0 <=> FilesOf(s)' = {}
         /\ Cardinality(Denying(s)') =
              IF file[h].deny_write THEN Cardinality(Denying(s)) - 1
              ELSE Cardinality(Denying(s))
         /\ \A u \in Sector \ {s} : FilesOf(u)' = FilesOf(u) /\ Denying(u)' = Denying(u)
<1>0. file[h] \in OpenFile
  BY Zenon DEF FilesysTypes
<1>1. s \in Sector /\ h \in FilesOf(s) /\ (h \in Denying(s) <=> file[h].deny_write)
  BY Zenon, <1>0 DEF OpenFile, FilesOf, Denying
<1>2. \A g \in Handle : file'[g] = IF g = h THEN NoEntry ELSE file[g]
  BY Zenon DEF FilesysTypes
<1>3. FilesOf(s)' = FilesOf(s) \ {h}
  BY Zenon, <1>2 DEF FilesOf
<1>4. Denying(s)' = Denying(s) \ {h}
  BY Zenon, <1>2 DEF FilesOf, Denying
<1>5. \A u \in Sector \ {s} : FilesOf(u)' = FilesOf(u) /\ Denying(u)' = Denying(u)
  BY Zenon, <1>2 DEF FilesOf, Denying
<1>6. Cardinality(FilesOf(s) \ {h}) = Cardinality(FilesOf(s)) - 1
  BY Zenon, <1>1, FilesFinite DEF SetFacts, Counting, SizeLaws
<1>7. h \in Denying(s) => Cardinality(Denying(s) \ {h}) = Cardinality(Denying(s)) - 1
  BY Zenon, FilesFinite DEF SetFacts, Counting, SizeLaws
<1>8. h \notin Denying(s) => Denying(s) \ {h} = Denying(s)
  OBVIOUS
<1>9. IsFiniteSet(FilesOf(s) \ {h})
  BY Zenon, FilesFinite DEF SetFacts, Counting, SizeLaws
<1>10. Cardinality(FilesOf(s) \ {h}) = 0 <=> FilesOf(s) \ {h} = {}
  BY Zenon, <1>9 DEF SetFacts, Counting, SizeLaws
<1> QED
  BY Zenon, <1>1, <1>3, <1>4, <1>5, <1>6, <1>7, <1>8, <1>10

\* Setting the write denial of an open file is counted once, for its inode.
LEMMA DenyCounts ==
  ASSUME SetFacts, FilesysTypes, NEW h \in Handle, file[h] # NoEntry, NEW deny \in BOOLEAN,
         NEW s, s = file[h].sector,
         file[h].deny_write # deny, file' = [file EXCEPT ![h].deny_write = deny]
  PROVE  /\ s \in Sector /\ h \in FilesOf(s)
         /\ \A u \in Sector : FilesOf(u)' = FilesOf(u)
         /\ \A u \in Sector \ {s} : Denying(u)' = Denying(u)
         /\ Cardinality(Denying(s)') =
              IF deny THEN Cardinality(Denying(s)) + 1 ELSE Cardinality(Denying(s)) - 1
<1> DEFINE r == [file[h] EXCEPT !.deny_write = deny]
<1>0. file[h] \in OpenFile
  BY Zenon DEF FilesysTypes
<1>1. s \in Sector /\ h \in FilesOf(s) /\ (h \in Denying(s) <=> file[h].deny_write)
  BY Zenon, <1>0 DEF OpenFile, FilesOf, Denying
<1>2. r \in OpenFile /\ r # NoEntry /\ r.sector = s /\ r.deny_write = deny
  BY Zenon, <1>0, NoEntryAssumption DEF OpenFile, NoEntryAssumption
<1>3. \A g \in Handle : file'[g] = IF g = h THEN r ELSE file[g]
  BY Zenon DEF FilesysTypes
<1> HIDE DEF r
<1>4. \A u \in Sector : FilesOf(u)' = FilesOf(u)
  BY Zenon, <1>2, <1>3 DEF FilesOf
<1>5. \A u \in Sector \ {s} : Denying(u)' = Denying(u)
  BY ZenonT(30), <1>2, <1>3 DEF FilesOf, Denying
<1>6. Denying(s)' = IF deny THEN Denying(s) \cup {h} ELSE Denying(s) \ {h}
  BY <1>1, <1>2, <1>3, <1>4 DEF Denying
<1>7. /\ h \notin Denying(s) => Cardinality(Denying(s) \cup {h}) = Cardinality(Denying(s)) + 1
      /\ h \in Denying(s) => Cardinality(Denying(s) \ {h}) = Cardinality(Denying(s)) - 1
  BY Zenon, FilesFinite DEF SetFacts, Counting, SizeLaws
<1>8. deny <=> ~file[h].deny_write
  BY Zenon, <1>0 DEF OpenFile
<1> QED
  BY Zenon, <1>1, <1>4, <1>5, <1>6, <1>7, <1>8

-----------------------------------------------------------------------------
(* Opening and closing.                                                    *)

\* The sectors of inodes that are filed or open are sectors of the disk.
LEMMA LiveOnDisk ==
  ASSUME FilesysTypes
  PROVE  Live \subseteq Sector /\ Filed \subseteq Sector /\ Opened \subseteq Sector
<1>1. Filed \subseteq Sector
  <2>1. \A k \in 1 .. Slots : disk_dir[k] # NoEntry => disk_dir[k] \in DirEntry
    BY Zenon DEF FilesysTypes
  <2> QED
    BY Zenon, <2>1 DEF Filed, DirEntry
<1> QED
  BY Zenon, <1>1 DEF Live, Opened

\* A step that gives a live inode another entry in the list of open inodes.
LEMMA StaysOpen ==
  ASSUME FilesysInv, UNCHANGED <<free_map, diskVars, op, lost>>,
         NEW s \in Live, NEW i \in OpenInode, i.data = disk_inode[s],
         i.removed => s \notin Filed, open_inodes' = [open_inodes EXCEPT ![s] = i],
         file' \in [Handle -> OpenFile \cup {NoEntry}], Referenced'
  PROVE  /\ FilesysInv' /\ (SectorsAccounted => SectorsAccounted')
         /\ Filed' = Filed /\ Opened' = Opened \cup {s}
<1> USE DEF FilesysInv
<1>1. /\ UNCHANGED <<free_map, disk_map, disk_inode, disk_dir, op, lost, Filed>>
      /\ s \in Sector /\ i # NoEntry
  BY Zenon, LiveOnDisk, NoEntryAssumption DEF diskVars, Filed, NoEntryAssumption
<1>2. \A u \in Sector : open_inodes'[u] = IF u = s THEN i ELSE open_inodes[u]
  BY Zenon DEF FilesysTypes
<1>3. Opened' = Opened \cup {s}
  BY Zenon, <1>1, <1>2 DEF Opened
<1>4. /\ UNCHANGED <<Live, OpSectors>> /\ \A u : FileSectors(u)' = FileSectors(u)
  BY Zenon, <1>1, <1>3 DEF Live, FileSectors, Data, OpSectors
<1>5. UNCHANGED LiveSectors
  BY Zenon, <1>4 DEF LiveSectors
<1>6. FilesysTypes'
  BY Zenon, <1>1 DEF FilesysTypes, Data
<1>7. Marked' /\ (SectorsAccounted => SectorsAccounted')
  BY Zenon, <1>1, <1>4, <1>5 DEF Marked, SectorsAccounted, Reserved
<1>8. Apart'
  <2>1. \A u \in Opened' : open_inodes'[u].data = disk_inode[u]
    BY Zenon, <1>2, <1>3 DEF Apart, NoSharedSectors, Opened
  <2> QED
    BY Zenon, <1>1, <1>4, <1>5, <2>1 DEF Apart, NoSharedSectors, Reserved, Data
<1>9. OnDisk'
  BY Zenon, <1>1, <1>4 DEF OnDisk, CrashSafe, Reserved
<1>10. Linked'
  BY Zenon, <1>1, <1>2, <1>3 DEF Linked, Opened
<1> QED
  BY Zenon, <1>1, <1>3, <1>6, <1>7, <1>8, <1>9, <1>10

\* A file is opened on a live inode: by name, or from another open file.
LEMMA OpensKeep ==
  ASSUME SetFacts, FilesysInv, UNCHANGED <<free_map, diskVars, op, lost>>,
         NEW s \in Live, NEW h \in Handle, file[h] = NoEntry,
         file' = [file EXCEPT ![h] = [sector |-> s, deny_write |-> FALSE]],
         open_inodes' = [open_inodes EXCEPT ![s] = inode_open(s)]
  PROVE  /\ FilesysInv' /\ (SectorsAccounted => SectorsAccounted')
         /\ Filed' = Filed /\ Opened' = Opened \cup {s}
         /\ \A u \in Opened : open_inodes'[u].removed = open_inodes[u].removed
         /\ open_inodes'[s].removed => s \in Opened
<1> USE DEF FilesysInv
<1> DEFINE i == inode_open(s)
<1>1. s \in Sector /\ disk_inode[s] \in DiskInode
  BY Zenon, LiveOnDisk DEF OnDisk, FilesysTypes
<1>2. /\ FilesOf(s)' = FilesOf(s) \cup {h}
      /\ Cardinality(FilesOf(s)') = Cardinality(FilesOf(s)) + 1
      /\ \A u \in Sector \ {s} : FilesOf(u)' = FilesOf(u)
      /\ \A u \in Sector : Denying(u)' = Denying(u)
  BY Zenon, <1>1, OpenCounts
<1>3. /\ i \in OpenInode /\ i.data = disk_inode[s]
      /\ i.open_cnt = Cardinality(FilesOf(s)) + 1
      /\ i.deny_write_cnt = Cardinality(Denying(s))
      /\ s \notin Opened => i.removed = FALSE
      /\ s \in Opened => i.removed = open_inodes[s].removed
  <2>1. CASE open_inodes[s] = NoEntry
    <3>1. i = [open_cnt |-> 1, removed |-> FALSE, deny_write_cnt |-> 0, data |-> disk_inode[s]]
      BY Zenon, <2>1 DEF inode_open
    <3>2. FilesOf(s) = {} /\ Denying(s) = {} /\ s \notin Opened
      BY Zenon, <1>1, <2>1 DEF Referenced, Denying, Opened
    <3>3. Cardinality(FilesOf(s)) = 0 /\ Cardinality(Denying(s)) = 0
      BY Zenon, <3>2, FilesFinite
    <3>4. /\ 1 \in Nat /\ 0 \in Int
          /\ Cardinality(FilesOf(s)) + 1 = 1
      BY SMTT(30), <3>3
    <3>5. /\ i.open_cnt = 1 /\ i.removed = FALSE /\ i.deny_write_cnt = 0
          /\ i.data = disk_inode[s]
      BY SMTT(30), <3>1
    <3>6. i \in OpenInode
      BY SMTT(30), <1>1, <3>1, <3>4 DEF OpenInode
    <3> QED
      BY Zenon, <3>2, <3>3, <3>4, <3>5, <3>6
  <2>2. CASE open_inodes[s] # NoEntry
    <3>1. i = [open_inodes[s] EXCEPT !.open_cnt = @ + 1]
      BY Zenon, <2>2 DEF inode_open
    <3>2. open_inodes[s] \in OpenInode
      BY Zenon, <1>1, <2>2 DEF FilesysTypes
    <3>3. /\ open_inodes[s].open_cnt = Cardinality(FilesOf(s))
          /\ open_inodes[s].deny_write_cnt = Cardinality(Denying(s))
          /\ open_inodes[s].data = disk_inode[s] /\ s \in Opened
      BY Zenon, <1>1, <2>2 DEF Referenced, Apart, NoSharedSectors, Opened
    <3> QED
      BY <3>1, <3>2, <3>3, FilesFinite DEF OpenInode
  <2> QED
    BY Zenon, <2>1, <2>2
<1> HIDE DEF i
<1>4. /\ i # NoEntry
      /\ \A u \in Sector : open_inodes'[u] = IF u = s THEN i ELSE open_inodes[u]
  BY Zenon, <1>3, NoEntryAssumption DEF FilesysTypes, NoEntryAssumption, i
<1>5. Referenced'
  <2>1. ASSUME NEW u \in Sector, u # s
        PROVE  /\ open_inodes'[u] = open_inodes[u]
               /\ FilesOf(u)' = FilesOf(u) /\ Denying(u)' = Denying(u)
    BY Zenon, <1>2, <1>4, <2>1
  <2>2. /\ open_inodes'[s] # NoEntry /\ FilesOf(s)' # {}
        /\ open_inodes'[s].open_cnt = Cardinality(FilesOf(s)')
        /\ open_inodes'[s].deny_write_cnt = Cardinality(Denying(s)')
    BY Zenon, <1>1, <1>2, <1>3, <1>4
  <2> QED
    BY Zenon, <2>1, <2>2 DEF Referenced
<1>6. file' \in [Handle -> OpenFile \cup {NoEntry}]
  <2>1. [sector |-> s, deny_write |-> FALSE] \in OpenFile
    BY Zenon, <1>1 DEF OpenFile
  <2> QED
    BY Zenon, <2>1 DEF FilesysTypes
<1>7. i.removed => s \notin Filed
  BY Zenon, <1>3 DEF Linked
<1>8. open_inodes' = [open_inodes EXCEPT ![s] = i]
  BY Zenon DEF i
<1>9. /\ FilesysInv' /\ (SectorsAccounted => SectorsAccounted')
      /\ Filed' = Filed /\ Opened' = Opened \cup {s}
  BY Zenon, <1>3, <1>5, <1>6, <1>7, <1>8, StaysOpen
<1> QED
  BY Zenon, <1>3, <1>4, <1>9, LiveOnDisk

\* filesys_open and file_reopen.
LEMMA FilesysOpenKeeps ==
  ASSUME SetFacts, FilesysInv, NEW h \in Handle, filesys_open(h) \/ file_reopen(h)
  PROVE  /\ FilesysInv' /\ (SectorsAccounted => SectorsAccounted')
         /\ Filed' = Filed /\ UNCHANGED disk_dir
         /\ \A u \in Opened' : u \in Filed \/ (u \in Opened /\ open_inodes'[u].removed =
                                                                open_inodes[u].removed)
<1> USE DEF FilesysInv
<1>1. CASE filesys_open(h)
  <2>1. PICK name \in Name : /\ Entries(name) # {}
                             /\ open_inodes' = [open_inodes EXCEPT
                                  ![disk_dir[Min(Entries(name))].sector] =
                                     inode_open(disk_dir[Min(Entries(name))].sector)]
                             /\ file' = [file EXCEPT
                                  ![h] = [sector |-> disk_dir[Min(Entries(name))].sector,
                                          deny_write |-> FALSE]]
    BY Zenon, <1>1 DEF filesys_open
  <2>2. Min(Entries(name)) \in 1 .. Slots /\ disk_dir[Min(Entries(name))] # NoEntry
    <3>1. Entries(name) \subseteq Nat
      BY DEF Entries
    <3> QED
      BY Zenon, <2>1, <3>1, LowestExists DEF Entries
  <2>3. PICK s \in Filed : s = disk_dir[Min(Entries(name))].sector
    BY Zenon, <2>2 DEF Filed
  <2>4. /\ UNCHANGED <<free_map, diskVars, op, lost, disk_dir>> /\ file[h] = NoEntry
        /\ Filed \subseteq Live
    BY Zenon, <1>1 DEF filesys_open, Live, diskVars
  <2>5. /\ open_inodes' = [open_inodes EXCEPT ![s] = inode_open(s)]
        /\ file' = [file EXCEPT ![h] = [sector |-> s, deny_write |-> FALSE]]
    BY Zenon, <2>1, <2>3
  <2>6. s \in Live
    BY Zenon, <2>3, <2>4
  <2>7. /\ FilesysInv' /\ (SectorsAccounted => SectorsAccounted')
        /\ Filed' = Filed /\ Opened' = Opened \cup {s}
        /\ \A u \in Opened : open_inodes'[u].removed = open_inodes[u].removed
    BY Zenon, <2>4, <2>5, <2>6, OpensKeep
  <2> QED
    BY Zenon, <2>3, <2>4, <2>7
<1>2. CASE file_reopen(h)
  <2>1. PICK g \in Handle : /\ file[g] # NoEntry
                            /\ open_inodes' = [open_inodes EXCEPT
                                                 ![file[g].sector].open_cnt = @ + 1]
                            /\ file' = [file EXCEPT ![h] = [sector |-> file[g].sector,
                                                            deny_write |-> FALSE]]
    BY Zenon, <1>2 DEF file_reopen
  <2>2. PICK s \in Sector : s = file[g].sector /\ g \in FilesOf(s)
    BY Zenon, <2>1 DEF FilesysTypes, OpenFile, FilesOf
  <2>3. open_inodes[s] # NoEntry /\ s \in Opened /\ s \in Live
    BY Zenon, <2>2 DEF Referenced, Opened, Live
  <2>4. open_inodes' = [open_inodes EXCEPT ![s] = inode_open(s)]
    BY Zenon, <2>1, <2>2, <2>3 DEF inode_open
  <2>5. UNCHANGED <<free_map, diskVars, op, lost, disk_dir>> /\ file[h] = NoEntry
    BY Zenon, <1>2 DEF file_reopen, diskVars
  <2>6. file' = [file EXCEPT ![h] = [sector |-> s, deny_write |-> FALSE]]
    BY Zenon, <2>1, <2>2
  <2> QED
    BY ZenonT(30), <2>3, <2>4, <2>5, <2>6, OpensKeep
<1> QED
  BY Zenon, <1>1, <1>2

\* Steps that close inodes or erase entries, and perhaps leave the sectors of one file
\* to be released.
LEMMA FilesChange ==
  ASSUME FilesysInv, UNCHANGED <<free_map, disk_map, disk_inode, lost>>,
         FilesysTypes', Linked', Referenced', op = NoOp, Live' \subseteq Live, Filed' \subseteq Filed,
         \A u \in Opened' : open_inodes'[u].data = disk_inode[u],
         \/ op' = NoOp
         \/ \E s \in Live \ Live' : op' = [pc |-> "release", name |-> NoEntry, sector |-> s,
                                           start |-> disk_inode[s].start,
                                           cnt |-> disk_inode[s].cnt]
  PROVE  /\ FilesysInv'
         /\ SectorsAccounted /\ Live' = Live /\ op' = NoOp => SectorsAccounted'
         /\ SectorsAccounted /\ op' # NoOp /\ Live' = Live \ {op'.sector} => SectorsAccounted'
<1> USE DEF FilesysInv
<1>1. OpSectors = {}
  BY Zenon, OpSectorsOf DEF NoOp
<1>2. \A s : FileSectors(s)' = FileSectors(s)
  BY Zenon DEF FileSectors, Data
<1>3. LiveSectors' \subseteq LiveSectors
  BY Zenon, <1>2 DEF LiveSectors
<1>4. \/ OpSectors' = {} /\ op'.pc = "none"
      \/ \E s \in Live \ Live' : /\ OpSectors' = FileSectors(s) /\ op'.pc = "release"
                                 /\ op'.sector \notin Data(op)'
  <2>1. CASE op' = NoOp
    BY Zenon, <2>1 DEF OpSectors, NoOp
  <2>2. ASSUME NEW s \in Live \ Live', op' = [pc |-> "release", name |-> NoEntry, sector |-> s,
                                              start |-> disk_inode[s].start,
                                              cnt |-> disk_inode[s].cnt]
        PROVE  OpSectors' = FileSectors(s) /\ op'.pc = "release" /\ op'.sector \notin Data(op)'
    <3>1. op'.pc = "release" /\ op'.sector = s /\ Data(op)' = Data(disk_inode[s])
      BY Zenon, <2>2 DEF Data
    <3> QED
      BY Zenon, <3>1 DEF OpSectors, FileSectors, Apart
  <2> QED
    BY Zenon, <2>1, <2>2
<1>5. OpSectors' \subseteq LiveSectors /\ OpSectors' \cap LiveSectors' = {}
  <2>1. ASSUME NEW s \in Live \ Live' PROVE FileSectors(s) \cap LiveSectors' = {}
    BY SMTT(30), <1>2, <2>1 DEF LiveSectors, Apart, NoSharedSectors
  <2> QED
    BY Zenon, <1>4, <2>1 DEF LiveSectors
<1>6. Marked'
  BY Zenon, <1>3, <1>5 DEF Marked, Reserved
<1>7. Apart'
  <2>1. op'.pc \in {"write", "add", "release"} => op'.sector \notin Data(op)'
    BY Zenon, <1>4
  <2> QED
    BY Zenon, <1>2, <1>3, <1>5, <2>1 DEF Apart, NoSharedSectors, Reserved
<1>8. OnDisk'
  BY Zenon, <1>2, <1>4 DEF OnDisk, CrashSafe, Reserved
<1>9. ASSUME SectorsAccounted, Live' = Live, op' = NoOp PROVE SectorsAccounted'
  <2>1. OpSectors' = {} /\ LiveSectors' = LiveSectors
    BY Zenon, <1>2, <1>9 DEF OpSectors, NoOp, LiveSectors
  <2> QED
    BY Zenon, <1>1, <1>9, <2>1 DEF SectorsAccounted, Reserved
<1>10. ASSUME SectorsAccounted, op' # NoOp, Live' = Live \ {op'.sector}
       PROVE  SectorsAccounted'
  <2>1. PICK s \in Live : OpSectors' = FileSectors(s) /\ s = op'.sector
    BY SMTT(30), <1>10 DEF OpSectors, FileSectors, Data
  <2>2. LiveSectors = LiveSectors' \cup OpSectors'
    BY SMTT(30), <1>2, <1>10, <2>1 DEF LiveSectors
  <2> QED
    BY Zenon, <1>1, <1>10, <2>2 DEF SectorsAccounted, Reserved
<1> QED
  BY Zenon, <1>6, <1>7, <1>8, <1>9, <1>10

\* file_deny_write and file_allow_write.
LEMMA SetDenyWriteKeeps ==
  ASSUME SetFacts, FilesysInv, NEW h \in Handle, NEW deny \in BOOLEAN, SetDenyWrite(h, deny)
  PROVE  /\ FilesysInv' /\ (SectorsAccounted => SectorsAccounted')
         /\ Filed' = Filed /\ Opened' = Opened /\ UNCHANGED disk_dir
         /\ \A u \in Opened : open_inodes'[u].removed = open_inodes[u].removed
<1> USE DEF FilesysInv
<1>1. /\ file[h] # NoEntry /\ file[h].deny_write # deny
      /\ file' = [file EXCEPT ![h].deny_write = deny]
      /\ UNCHANGED <<free_map, diskVars, op, lost, disk_dir>>
  BY Zenon DEF SetDenyWrite, diskVars
<1>2. PICK s \in Sector : s = file[h].sector
  BY Zenon, <1>1 DEF FilesysTypes, OpenFile
<1>3. /\ h \in FilesOf(s)
      /\ \A u \in Sector : FilesOf(u)' = FilesOf(u)
      /\ \A u \in Sector \ {s} : Denying(u)' = Denying(u)
      /\ Cardinality(Denying(s)') =
           IF deny THEN Cardinality(Denying(s)) + 1 ELSE Cardinality(Denying(s)) - 1
  BY ZenonT(30), <1>1, <1>2, DenyCounts
<1>4. open_inodes[s] # NoEntry /\ s \in Opened /\ s \in Live
  BY Zenon, <1>3 DEF Referenced, Opened, Live
<1>5. /\ open_inodes[s] \in OpenInode /\ open_inodes[s].data = disk_inode[s]
      /\ open_inodes[s].open_cnt = Cardinality(FilesOf(s))
      /\ open_inodes[s].deny_write_cnt = Cardinality(Denying(s))
      /\ open_inodes[s].removed => s \notin Filed
  BY Zenon, <1>4 DEF FilesysTypes, Referenced, Apart, NoSharedSectors, Linked
<1>6. PICK d \in Int : /\ d = Cardinality(Denying(s)')
                       /\ open_inodes' = [open_inodes EXCEPT ![s].deny_write_cnt = d]
  <2>1. Cardinality(Denying(s)) \in Nat
    BY Zenon, FilesFinite
  <2>2. Cardinality(Denying(s)') \in Int
    BY SMTT(30), <1>3, <2>1
  <2>3. open_inodes' = [open_inodes EXCEPT ![s].deny_write_cnt = Cardinality(Denying(s)')]
    BY Zenon, <1>2, <1>3, <1>5 DEF SetDenyWrite
  <2> QED
    BY Zenon, <2>2, <2>3
<1> DEFINE i == [open_inodes[s] EXCEPT !.deny_write_cnt = d]
<1>7. /\ i \in OpenInode /\ i.data = disk_inode[s] /\ i.removed = open_inodes[s].removed
      /\ i.open_cnt = Cardinality(FilesOf(s)) /\ i.deny_write_cnt = d
  BY Zenon, <1>5 DEF OpenInode
<1>8. open_inodes' = [open_inodes EXCEPT ![s] = i]
  BY Zenon, <1>6
<1> HIDE DEF i
<1>9. /\ \A u \in Sector : open_inodes'[u] = IF u = s THEN i ELSE open_inodes[u]
      /\ i # NoEntry
  BY Zenon, <1>7, <1>8, NoEntryAssumption DEF FilesysTypes, NoEntryAssumption
<1>10. Referenced'
  <2>1. ASSUME NEW u \in Sector, u # s
        PROVE  /\ open_inodes'[u] = open_inodes[u]
               /\ FilesOf(u)' = FilesOf(u) /\ Denying(u)' = Denying(u)
    BY Zenon, <1>3, <1>9, <2>1
  <2>2. /\ open_inodes'[s] # NoEntry /\ FilesOf(s)' # {}
        /\ open_inodes'[s].open_cnt = Cardinality(FilesOf(s)')
        /\ open_inodes'[s].deny_write_cnt = Cardinality(Denying(s)')
    BY Zenon, <1>3, <1>6, <1>7, <1>9
  <2> QED
    BY Zenon, <2>1, <2>2 DEF Referenced
<1>11. file' \in [Handle -> OpenFile \cup {NoEntry}]
  <2>1. [file[h] EXCEPT !.deny_write = deny] \in OpenFile
    BY <1>1 DEF FilesysTypes, OpenFile
  <2> QED
    BY Zenon, <1>1, <2>1 DEF FilesysTypes
<1>12. i.removed => s \notin Filed
  BY Zenon, <1>5, <1>7
<1>13. /\ FilesysInv' /\ (SectorsAccounted => SectorsAccounted')
       /\ Filed' = Filed /\ Opened' = Opened \cup {s}
  BY Zenon, <1>1, <1>4, <1>7, <1>8, <1>10, <1>11, <1>12, StaysOpen
<1> QED
  BY Zenon, <1>1, <1>4, <1>7, <1>9, <1>13, LiveOnDisk

\* file_close: the inode is closed with its last file.
LEMMA FileCloseKeeps ==
  ASSUME SetFacts, FilesysInv, NEW h \in Handle, file_close(h)
  PROVE  /\ FilesysInv'
         /\ Reachable /\ SectorsAccounted => SectorsAccounted'
         /\ Filed' = Filed /\ Opened' \subseteq Opened /\ UNCHANGED disk_dir
         /\ \A u \in Opened' : open_inodes'[u].removed = open_inodes[u].removed
<1> USE DEF FilesysInv
<1>1. /\ file[h] # NoEntry /\ op = NoOp /\ file' = [file EXCEPT ![h] = NoEntry]
      /\ UNCHANGED <<free_map, diskVars, lost, disk_dir, disk_map, disk_inode, Filed>>
  BY Zenon DEF file_close, diskVars, Filed
<1>2. PICK s \in Sector : s = file[h].sector
  BY Zenon, <1>1 DEF FilesysTypes, OpenFile
<1>3. /\ h \in FilesOf(s)
      /\ FilesOf(s)' = FilesOf(s) \ {h}
      /\ Cardinality(FilesOf(s)') = Cardinality(FilesOf(s)) - 1
      /\ Cardinality(FilesOf(s)') = 0 <=> FilesOf(s)' = {}
      /\ Cardinality(Denying(s)') =
           IF file[h].deny_write THEN Cardinality(Denying(s)) - 1
           ELSE Cardinality(Denying(s))
      /\ \A u \in Sector \ {s} : FilesOf(u)' = FilesOf(u) /\ Denying(u)' = Denying(u)
  BY ZenonT(30), <1>1, <1>2, CloseCounts
<1>4. open_inodes[s] # NoEntry /\ s \in Opened /\ s \in Live
  BY Zenon, <1>3 DEF Referenced, Opened, Live
<1>5. /\ open_inodes[s] \in OpenInode /\ open_inodes[s].data = disk_inode[s]
      /\ open_inodes[s].open_cnt = Cardinality(FilesOf(s))
      /\ open_inodes[s].deny_write_cnt = Cardinality(Denying(s))
      /\ open_inodes[s].removed => s \notin Filed
  BY Zenon, <1>4 DEF FilesysTypes, Referenced, Apart, NoSharedSectors, Linked
<1>6. PICK i \in OpenInode : /\ inode_close(s, i)
                             /\ i.data = disk_inode[s] /\ i.removed = open_inodes[s].removed
                             /\ i.open_cnt = Cardinality(FilesOf(s))
                             /\ i.deny_write_cnt = Cardinality(Denying(s)')
  <2> DEFINE i == IF file[h].deny_write THEN [open_inodes[s] EXCEPT !.deny_write_cnt = @ - 1]
                  ELSE open_inodes[s]
  <2>1. inode_close(s, i)
    BY Zenon, <1>2 DEF file_close
  <2>2. /\ i \in OpenInode
        /\ i.data = disk_inode[s] /\ i.removed = open_inodes[s].removed
        /\ i.open_cnt = Cardinality(FilesOf(s))
        /\ i.deny_write_cnt = Cardinality(Denying(s)')
    BY <1>3, <1>5, FilesFinite DEF OpenInode
  <2> HIDE DEF i
  <2> QED
    BY Zenon, <2>1, <2>2
<1>7. file' \in [Handle -> OpenFile \cup {NoEntry}]
  BY Zenon, <1>1 DEF FilesysTypes
<1>8. Cardinality(FilesOf(s)) \in Nat
  BY Zenon, FilesFinite
<1>9. CASE ~IsLast(i)
  <2> DEFINE j == [i EXCEPT !.open_cnt = @ - 1]
  <2>1. /\ j \in OpenInode /\ j.data = disk_inode[s] /\ j.removed = open_inodes[s].removed
        /\ j.open_cnt = Cardinality(FilesOf(s)') /\ j.deny_write_cnt = Cardinality(Denying(s)')
        /\ Cardinality(FilesOf(s)') # 0
    <3>1. Cardinality(FilesOf(s)) # 1 /\ Cardinality(FilesOf(s)) # 0
      BY Zenon, <1>3, <1>6, <1>8, <1>9, FilesFinite DEF IsLast
    <3> QED
      BY <1>3, <1>6, <1>8, <3>1 DEF OpenInode
  <2>2. open_inodes' = [open_inodes EXCEPT ![s] = j] /\ op' = op
    BY Zenon, <1>1, <1>6, <1>9 DEF inode_close
  <2> HIDE DEF j
  <2>3. /\ \A u \in Sector : open_inodes'[u] = IF u = s THEN j ELSE open_inodes[u]
        /\ j # NoEntry
    BY Zenon, <2>1, <2>2, NoEntryAssumption DEF FilesysTypes, NoEntryAssumption
  <2>4. Referenced'
    <3>1. ASSUME NEW u \in Sector, u # s
          PROVE  /\ open_inodes'[u] = open_inodes[u]
                 /\ FilesOf(u)' = FilesOf(u) /\ Denying(u)' = Denying(u)
      BY Zenon, <1>3, <2>3, <3>1
    <3>2. /\ open_inodes'[s] # NoEntry /\ FilesOf(s)' # {}
          /\ open_inodes'[s].open_cnt = Cardinality(FilesOf(s)')
          /\ open_inodes'[s].deny_write_cnt = Cardinality(Denying(s)')
      BY Zenon, <1>3, <2>1, <2>3
    <3> QED
      BY Zenon, <3>1, <3>2 DEF Referenced
  <2>5. /\ FilesysInv' /\ (SectorsAccounted => SectorsAccounted')
        /\ Filed' = Filed /\ Opened' = Opened \cup {s}
    BY Zenon, <1>1, <1>4, <1>5, <1>7, <2>1, <2>2, <2>4, StaysOpen
  <2> QED
    BY Zenon, <1>1, <1>4, <2>1, <2>3, <2>5, LiveOnDisk
<1>10. CASE IsLast(i)
  <2>1. /\ open_inodes' = [open_inodes EXCEPT ![s] = NoEntry]
        /\ \A u \in Sector : open_inodes'[u] = IF u = s THEN NoEntry ELSE open_inodes[u]
    BY Zenon, <1>6, <1>10 DEF inode_close, FilesysTypes
  <2>2. FilesOf(s)' = {}
    BY SMTT(30), <1>3, <1>6, <1>8, <1>10 DEF IsLast
  <2>3. Referenced'
    BY Zenon, <1>3, <2>1, <2>2 DEF Referenced
  <2>4. Opened' = Opened \ {s}
    BY Zenon, <2>1 DEF Opened
  <2>5. Live' \subseteq Live /\ (s \in Filed => Live' = Live)
        /\ (s \notin Filed => Live' = Live \ {s})
    BY Zenon, <1>1, <2>4 DEF Live
  <2>6. Linked' /\ \A u \in Opened' : /\ open_inodes'[u].data = disk_inode[u]
                                      /\ open_inodes'[u].removed = open_inodes[u].removed
    BY ZenonT(30), <1>1, <2>1, <2>4, LiveOnDisk DEF Linked, Apart, NoSharedSectors
  <2>7. disk_inode[s] \in DiskInode
    BY Zenon, <1>4 DEF OnDisk, FilesysTypes
  <2>8. CASE i.removed
    <3>1. op' = [pc |-> "release", name |-> NoEntry, sector |-> s,
                 start |-> disk_inode[s].start, cnt |-> disk_inode[s].cnt]
      BY Zenon, <1>6, <1>10, <2>8 DEF inode_close
    <3>2. s \notin Filed /\ s \in Live \ Live' /\ Live' = Live \ {s}
      BY Zenon, <1>4, <1>5, <1>6, <2>5, <2>8
    <3>3. FilesysTypes'
      BY Zenon, <1>1, <1>7, <2>1, <2>7, <3>1 DEF FilesysTypes, DiskInode, Data, Extent
    <3>4. op' # NoOp /\ op'.sector = s
      BY Zenon, <3>1 DEF NoOp
    <3> QED
      BY Zenon, <1>1, <2>3, <2>4, <2>5, <2>6, <3>1, <3>2, <3>3, <3>4, FilesChange
  <2>9. CASE ~i.removed
    <3>1. op' = NoOp
      BY Zenon, <1>6, <1>10, <2>9 DEF inode_close
    <3>2. FilesysTypes'
      BY Zenon, <1>1, <1>7, <2>1, <3>1 DEF FilesysTypes, Data, Extent
    <3>3. Reachable => s \in Filed
      BY Zenon, <1>4, <1>6, <2>9 DEF Reachable
    <3> QED
      BY Zenon, <1>1, <2>3, <2>4, <2>5, <2>6, <3>1, <3>2, <3>3, FilesChange
  <2> QED
    BY Zenon, <2>8, <2>9
<1> QED
  BY Zenon, <1>9, <1>10

\* Opening an inode and closing it again leaves the count as it was.
LEMMA OpenThenClose ==
  ASSUME NEW r \in OpenInode, NEW b \in BOOLEAN, r.open_cnt # 0
  PROVE  /\ [[r EXCEPT !.open_cnt = @ + 1] EXCEPT !.removed = b].open_cnt # 1
         /\ [[[r EXCEPT !.open_cnt = @ + 1] EXCEPT !.removed = b] EXCEPT !.open_cnt = @ - 1]
              = [r EXCEPT !.removed = b]
<1>1. PICK n, c, d, e : /\ n \in Nat /\ n # 0
                        /\ r = [open_cnt |-> n, removed |-> c, deny_write_cnt |-> d,
                                data |-> e]
  BY Zenon DEF OpenInode
<1>2. (n + 1) - 1 = n /\ n + 1 # 1
  BY SMTT(30), <1>1
<1> DEFINE q == [r EXCEPT !.open_cnt = @ + 1]
           i == [q EXCEPT !.removed = b]
<1>3. q = [open_cnt |-> n + 1, removed |-> c, deny_write_cnt |-> d, data |-> e]
  BY <1>1
<1>4. [r EXCEPT !.removed = b]
           = [open_cnt |-> n, removed |-> b, deny_write_cnt |-> d, data |-> e]
  BY <1>1
<1> HIDE DEF q
<1>5. i = [open_cnt |-> n + 1, removed |-> b, deny_write_cnt |-> d, data |-> e]
  BY <1>3
<1> HIDE DEF i
<1>6. i.open_cnt # 1 /\ [i EXCEPT !.open_cnt = @ - 1] = [r EXCEPT !.removed = b]
  BY <1>2, <1>4, <1>5
<1> QED
  BY Zenon, <1>6 DEF i, q

\* filesys_remove: the entry goes, and the inode with it unless it is open.
LEMMA FilesysRemoveKeeps ==
  ASSUME SetFacts, FilesysInv, filesys_remove
  PROVE  /\ FilesysInv'
         /\ SectorsAccounted => SectorsAccounted'
         /\ Reachable => Reachable'
         /\ \E k \in 1 .. Slots : disk_dir' = [disk_dir EXCEPT ![k] = NoEntry]
<1> USE DEF FilesysInv
<1>1. PICK name \in Name : /\ Entries(name) # {}
                           /\ inode_close(disk_dir[Min(Entries(name))].sector,
                                [inode_open(disk_dir[Min(Entries(name))].sector)
                                   EXCEPT !.removed = TRUE])
                           /\ disk_dir' = [disk_dir EXCEPT ![Min(Entries(name))] = NoEntry]
  BY Zenon DEF filesys_remove
<1>2. PICK k \in 1 .. Slots : k = Min(Entries(name)) /\ disk_dir[k] # NoEntry
  <2>1. Entries(name) \subseteq Nat
    BY DEF Entries
  <2> QED
    BY Zenon, <1>1, <2>1, LowestExists DEF Entries
<1>3. PICK s \in Sector : s = disk_dir[k].sector /\ s \in Filed /\ s \in Live
  BY Zenon, <1>2, LiveOnDisk DEF Filed, Live
<1>4. /\ inode_close(s, [inode_open(s) EXCEPT !.removed = TRUE])
      /\ disk_dir' = [disk_dir EXCEPT ![k] = NoEntry]
      /\ UNCHANGED <<free_map, disk_map, disk_inode, file, lost>> /\ op = NoOp
  BY Zenon, <1>1, <1>2, <1>3 DEF filesys_remove
<1>5. \A j \in 1 .. Slots : disk_dir'[j] = IF j = k THEN NoEntry ELSE disk_dir[j]
  BY Zenon, <1>4 DEF FilesysTypes
<1>6. Filed' = Filed \ {s}
  BY SMTT(30), <1>2, <1>3, <1>5 DEF Filed, Linked
<1>7. disk_dir' \in [1 .. Slots -> DirEntry \cup {NoEntry}]
  BY Zenon, <1>4 DEF FilesysTypes
<1>8. disk_inode[s] \in DiskInode
  BY Zenon, <1>3 DEF OnDisk, FilesysTypes
<1>9. \A j, l \in 1 .. Slots :
        disk_dir'[j] # NoEntry /\ disk_dir'[l] # NoEntry /\ j # l =>
          disk_dir'[j].sector # disk_dir'[l].sector
  BY Zenon, <1>5 DEF Linked
<1>10. \A u : FilesOf(u)' = FilesOf(u) /\ Denying(u)' = Denying(u)
  BY Zenon, <1>4 DEF FilesOf, Denying
<1>11. CASE open_inodes[s] = NoEntry
  <2> DEFINE i == [inode_open(s) EXCEPT !.removed = TRUE]
  <2>1. i.open_cnt = 1 /\ i.removed /\ i.data = disk_inode[s]
    BY Zenon, <1>11 DEF inode_open
  <2>2. /\ open_inodes' = [open_inodes EXCEPT ![s] = NoEntry]
        /\ op' = [pc |-> "release", name |-> NoEntry, sector |-> s,
                  start |-> disk_inode[s].start, cnt |-> disk_inode[s].cnt]
    BY Zenon, <1>4, <2>1 DEF inode_close, IsLast
  <2>3. open_inodes' = open_inodes
    BY Zenon, <1>11, <2>2 DEF FilesysTypes
  <2>4. Opened' = Opened /\ s \notin Opened
    BY Zenon, <1>11, <2>3 DEF Opened
  <2>5. Live' = Live \ {s} /\ s \in Live \ Live'
    BY Zenon, <1>3, <1>6, <2>4 DEF Live
  <2>6. FilesysTypes'
    BY Zenon, <1>4, <1>7, <1>8, <2>2, <2>3 DEF FilesysTypes, DiskInode, Data, Extent
  <2>7. Linked'
    BY Zenon, <1>6, <1>9, <2>3, <2>4 DEF Linked
  <2>8. Referenced'
    BY Zenon, <1>10, <2>3 DEF Referenced
  <2>9. \A u \in Opened' : open_inodes'[u].data = disk_inode[u]
    BY Zenon, <2>3, <2>4 DEF Apart, NoSharedSectors
  <2>10. op' # NoOp /\ op'.sector = s
    BY Zenon, <2>2 DEF NoOp
  <2>11. Reachable => Reachable'
    BY Zenon, <1>6, <2>3, <2>4 DEF Reachable
  <2>12. Filed' \subseteq Filed /\ Live' \subseteq Live
    BY Zenon, <1>6, <2>5
  <2> QED
    BY Zenon, <1>4, <2>2, <2>5, <2>6, <2>7, <2>8, <2>9, <2>10, <2>11, <2>12, FilesChange
<1>12. CASE open_inodes[s] # NoEntry
  <2> DEFINE i == [inode_open(s) EXCEPT !.removed = TRUE]
             j == [open_inodes[s] EXCEPT !.removed = TRUE]
  <2>1. /\ open_inodes[s] \in OpenInode /\ open_inodes[s].data = disk_inode[s] /\ s \in Opened
        /\ open_inodes[s].open_cnt = Cardinality(FilesOf(s)) /\ FilesOf(s) # {}
        /\ open_inodes[s].deny_write_cnt = Cardinality(Denying(s))
    BY Zenon, <1>12 DEF FilesysTypes, Apart, NoSharedSectors, Opened, Referenced
  <2>2. open_inodes[s].open_cnt # 0
    BY Zenon, <2>1, FilesFinite
  <2>3. /\ i.open_cnt # 1
        /\ [i EXCEPT !.open_cnt = @ - 1] = j
    <3>1. inode_open(s) = [open_inodes[s] EXCEPT !.open_cnt = @ + 1]
      BY Zenon, <1>12 DEF inode_open
    <3> QED
      BY Zenon, <2>1, <2>2, <3>1, OpenThenClose
  <2>4. /\ open_inodes' = [open_inodes EXCEPT ![s] = j]
        /\ op' = NoOp
    BY Zenon, <1>4, <2>3 DEF inode_close, IsLast
  <2>5. /\ j \in OpenInode /\ j.removed /\ j.data = disk_inode[s]
        /\ j.open_cnt = Cardinality(FilesOf(s)) /\ j.deny_write_cnt = Cardinality(Denying(s))
        /\ j # NoEntry
    <3>1. j \in OpenInode
      BY Zenon, <2>1 DEF OpenInode
    <3> QED
      BY Zenon, <2>1, <3>1, NoEntryAssumption DEF OpenInode, NoEntryAssumption
  <2> HIDE DEF i, j
  <2>6. \A u \in Sector : open_inodes'[u] = IF u = s THEN j ELSE open_inodes[u]
    BY Zenon, <2>4 DEF FilesysTypes
  <2>7. Opened' = Opened
    BY Zenon, <1>12, <2>5, <2>6 DEF Opened
  <2>8. Live' = Live
    BY Zenon, <1>6, <2>1, <2>7 DEF Live
  <2>9. FilesysTypes'
    BY Zenon, <1>4, <1>7, <2>4, <2>5 DEF FilesysTypes, Data
  <2>10. Linked'
    BY Zenon, <1>6, <1>9, <2>6, <2>7, LiveOnDisk DEF Linked
  <2>11. Referenced'
    BY Zenon, <1>10, <1>12, <2>1, <2>5, <2>6 DEF Referenced
  <2>12. \A u \in Opened' : open_inodes'[u].data = disk_inode[u]
    BY Zenon, <2>5, <2>6, <2>7, LiveOnDisk DEF Apart, NoSharedSectors
  <2>13. Reachable => Reachable'
    BY Zenon, <1>6, <2>5, <2>6, <2>7, LiveOnDisk DEF Reachable
  <2>14. Filed' \subseteq Filed /\ Live' \subseteq Live
    BY Zenon, <1>6, <2>8
  <2> QED
    BY Zenon, <1>4, <2>4, <2>8, <2>9, <2>10, <2>11, <2>12, <2>13, <2>14, FilesChange
<1> QED
  BY Zenon, <1>11, <1>12

-----------------------------------------------------------------------------
(* The invariant.                                                          *)

\* A formatted disk satisfies the invariant.
LEMMA FilesysInvInit == FilesysInit => FilesysInv /\ Kept
<1> SUFFICES ASSUME FilesysInit PROVE FilesysInv /\ Kept
  OBVIOUS
<1>1. Filed = {} /\ Opened = {} /\ OpSectors = {} /\ op.pc = "none" /\ lost = {}
  BY Zenon DEF FilesysInit, Filed, Opened, OpSectors, NoOp
<1>2. Live = {} /\ LiveSectors = {}
  BY Zenon, <1>1 DEF Live, LiveSectors
<1>3. FilesysTypes
  BY Zenon, SectorNumbers DEF FilesysInit, FilesysTypes, NoOp
<1>4. Marked /\ Apart /\ SectorsAccounted
  BY Zenon, <1>1, <1>2 DEF FilesysInit, Marked, Apart, NoSharedSectors, SectorsAccounted
<1>5. OnDisk
  BY Zenon, <1>1, <1>2 DEF FilesysInit, OnDisk, CrashSafe
<1>6. Linked /\ NamesUnique /\ Reachable
  BY Zenon, <1>1 DEF FilesysInit, Linked, NamesUnique, Reachable
<1>7. Referenced
  BY Zenon DEF FilesysInit, Referenced, FilesOf
<1> QED
  BY Zenon, <1>3, <1>4, <1>5, <1>6, <1>7 DEF FilesysInv, Kept

\* dir_add writes a free slot, and a name that is not there yet, if it can read the
\* directory.
LEMMA DirAddKeeps ==
  ASSUME SetFacts, FilesysInv, dir_add
  PROVE  FilesysInv' /\ (~ReadsFail /\ Kept => Kept')
<1>1. UNCHANGED <<free_map, disk_map, disk_inode, openVars, open_inodes>> /\ op.pc = "add"
  BY Zenon DEF dir_add, openVars
<1>2. CASE /\ op.name \notin BadName /\ FALSE \in LookupResults(op.name)
           /\ \E k \in FreeSlots \cap 1 .. Slots :
                disk_dir' = [disk_dir EXCEPT ![k] = [name |-> op.name, sector |-> op.sector]]
           /\ op' = NoOp /\ UNCHANGED lost
  <2>1. PICK k \in 1 .. Slots : /\ k \in FreeSlots
                                /\ disk_dir' = [disk_dir EXCEPT ![k] = [name |-> op.name,
                                                                        sector |-> op.sector]]
    BY Zenon, <1>2
  <2>2. /\ FilesysInv'
        /\ disk_dir[k] = NoEntry => Filed' = Filed \cup {op.sector}
        /\ disk_dir[k] = NoEntry /\ SectorsAccounted => SectorsAccounted'
    BY Zenon, <1>1, <1>2, <2>1, DirAddFiles
  <2>3. ASSUME ~ReadsFail, Kept PROVE Kept'
    <3> DEFINE unused == {j \in 1 .. Slots : disk_dir[j] = NoEntry}
    <3>1. k = IF unused = {} THEN Slots + 1 ELSE Min(unused)
      BY Zenon, <2>1, <2>3 DEF FreeSlots
    <3>2. disk_dir[k] = NoEntry
      <4>1. Slots \in Nat
        BY Zenon, FilesysAssumption DEF FilesysAssumption
      <4>2. unused # {}
        BY SMTT(30), <3>1, <4>1
      <4>3. unused \subseteq Nat
        OBVIOUS
      <4>4. Min(unused) \in unused
        BY Zenon, <4>2, <4>3, LowestExists
      <4> QED
        BY Zenon, <3>1, <4>2, <4>4
    <3>3. \A j \in 1 .. Slots : disk_dir[j] # NoEntry => disk_dir[j].name # op.name
      BY Zenon, <1>2, <2>3 DEF LookupResults, Entries
    <3>4. /\ disk_dir'[k] = [name |-> op.name, sector |-> op.sector]
          /\ \A j \in 1 .. Slots : j # k => disk_dir'[j] = disk_dir[j]
      BY Zenon, <2>1 DEF FilesysInv, FilesysTypes
    <3>5. NamesUnique'
      <4>1. \A j, l \in 1 .. Slots :
              disk_dir'[j] # NoEntry /\ disk_dir'[l] # NoEntry /\ j # l =>
                disk_dir'[j].name # disk_dir'[l].name
        BY SMTT(30), <2>3, <3>3, <3>4 DEF Kept, NamesUnique
      <4>2. \A j, l \in 1 .. Slots :
              disk_dir'[j] # NoEntry /\ disk_dir'[l] # NoEntry /\ j # l =>
                disk_dir'[j].sector # disk_dir'[l].sector
        BY Zenon, <2>2 DEF FilesysInv, Linked
      <4> QED
        BY Zenon, <4>1, <4>2 DEF NamesUnique
    <3>6. Reachable'
      BY Zenon, <1>1, <2>2, <2>3, <3>2 DEF Kept, Reachable, Opened
    <3> QED
      BY Zenon, <2>2, <2>3, <3>2, <3>5, <3>6 DEF Kept
  <2> QED
    BY Zenon, <2>2, <2>3
<1>3. CASE /\ lost' = lost \cup Data(op) /\ op' = [op EXCEPT !.pc = "undo", !.cnt = 0]
           /\ UNCHANGED disk_dir
  <2>1. FilesysInv' /\ (SectorsAccounted => SectorsAccounted')
    BY Zenon, <1>1, <1>3, DirAddFails
  <2>2. Kept => NamesUnique' /\ Reachable'
    BY <1>1, <1>3 DEF Kept, NamesUnique, Reachable, Opened, Filed
  <2> QED
    BY Zenon, <2>1, <2>2 DEF Kept
<1> QED
  BY Zenon, <1>2, <1>3 DEF dir_add

\* Every step of the file system preserves the invariant.
LEMMA FilesysStepKeeps ==
  ASSUME SetFacts, FilesysInv, [FilesysNext]_filesysVars
  PROVE  FilesysInv' /\ (~ReadsFail /\ Kept => Kept')
<1>1. ASSUME UNCHANGED <<disk_dir, open_inodes>>, NamesUnique, Reachable
      PROVE  NamesUnique' /\ Reachable'
  BY Zenon, <1>1 DEF NamesUnique, Reachable, Opened, Filed
<1>2. CASE UNCHANGED filesysVars
  <2>1. UNCHANGED <<free_map, disk_map, disk_inode, disk_dir, open_inodes, file, op, lost>>
    BY Zenon, <1>2 DEF filesysVars, diskVars, openVars
  <2>2. /\ UNCHANGED <<Filed, Opened, Live, LiveSectors, OpSectors>>
        /\ \A u : FileSectors(u)' = FileSectors(u)
    BY Zenon, <2>1, SameFiles DEF OpSectors, Data
  <2>3. FilesysInv'
    <3> USE DEF FilesysInv
    <3>1. FilesysTypes'
      BY Zenon, <2>1 DEF FilesysTypes, Data
    <3>2. Marked' /\ Apart'
      BY Zenon, <2>1, <2>2 DEF Marked, Apart, NoSharedSectors, Reserved, Data
    <3>3. OnDisk' /\ Linked'
      BY Zenon, <2>1, <2>2 DEF OnDisk, CrashSafe, Linked, Reserved
    <3>4. Referenced'
      BY Zenon, <2>1 DEF Referenced, FilesOf, Denying
    <3> QED
      BY Zenon, <3>1, <3>2, <3>3, <3>4
  <2> QED
    BY Zenon, <1>1, <2>1, <2>2, <2>3 DEF Kept, SectorsAccounted, Reserved
<1>3. CASE filesys_create
  BY Zenon, <1>1, <1>3, CreateKeeps DEF Kept, filesys_create, openVars
<1>4. CASE inode_create
  BY Zenon, <1>1, <1>4, InodeCreateKeeps DEF Kept, inode_create, openVars
<1>5. CASE WriteInode
  BY Zenon, <1>1, <1>5, WriteInodeKeeps DEF Kept, WriteInode, openVars
<1>6. CASE dir_add
  BY Zenon, <1>6, DirAddKeeps
<1>7. CASE Undo
  BY Zenon, <1>1, <1>7, UndoKeeps DEF Kept, Undo, openVars
<1>8. CASE Release
  BY Zenon, <1>1, <1>8, CloseReleases DEF Kept, Release, openVars
<1>9. CASE Restart
  <2>1. Kept => NamesUnique'
    BY Zenon, <1>9 DEF Restart, diskVars, Kept, NamesUnique
  <2>2. Kept => Reachable'
    <3>1. Opened' = {}
      BY Zenon, <1>9 DEF Restart, Opened
    <3> QED
      BY Zenon, <1>9, <3>1 DEF Restart, diskVars, Kept, Reachable
  <2> QED
    BY Zenon, <1>9, <2>1, <2>2, RestartKeeps DEF Kept
<1>10. CASE filesys_remove
  <2>1. PICK k \in 1 .. Slots : disk_dir' = [disk_dir EXCEPT ![k] = NoEntry]
    BY Zenon, <1>10, FilesysRemoveKeeps
  <2>2. \A j \in 1 .. Slots : disk_dir'[j] = IF j = k THEN NoEntry ELSE disk_dir[j]
    BY Zenon, <2>1 DEF FilesysInv, FilesysTypes
  <2>3. Kept => NamesUnique'
    BY Zenon, <2>2 DEF Kept, NamesUnique
  <2> QED
    BY Zenon, <1>10, <2>3, FilesysRemoveKeeps DEF Kept
<1>11. ASSUME NEW h \in Handle, filesys_open(h) \/ file_reopen(h)
       PROVE  FilesysInv' /\ (~ReadsFail /\ Kept => Kept')
  <2>1. Kept => NamesUnique' /\ Reachable'
    BY Zenon, <1>11, FilesysOpenKeeps DEF Kept, NamesUnique, Reachable
  <2> QED
    BY Zenon, <1>11, <2>1, FilesysOpenKeeps DEF Kept
<1>12. ASSUME NEW h \in Handle, file_close(h)
       PROVE  FilesysInv' /\ (~ReadsFail /\ Kept => Kept')
  <2>1. Kept => NamesUnique' /\ Reachable'
    BY Zenon, <1>12, FileCloseKeeps DEF Kept, NamesUnique, Reachable
  <2> QED
    BY Zenon, <1>12, <2>1, FileCloseKeeps DEF Kept
<1>13. ASSUME NEW h \in Handle, NEW deny \in BOOLEAN, SetDenyWrite(h, deny)
       PROVE  FilesysInv' /\ (~ReadsFail /\ Kept => Kept')
  <2>1. Kept => NamesUnique' /\ Reachable'
    BY Zenon, <1>13, SetDenyWriteKeeps DEF Kept, NamesUnique, Reachable
  <2> QED
    BY Zenon, <1>13, <2>1, SetDenyWriteKeeps DEF Kept
<1> QED
  BY Zenon, <1>2, <1>3, <1>4, <1>5, <1>6, <1>7, <1>8, <1>9, <1>10, <1>11, <1>12, <1>13
  DEF FilesysNext

-----------------------------------------------------------------------------
(* What follows from the invariant.                                        *)

\* The type invariant and the counts follow from the inductive invariant.
LEMMA FilesysInvGives ==
  ASSUME SetFacts, FilesysInv
  PROVE  /\ NoSharedSectors /\ CrashSafe /\ FilesysTypeOK
         /\ Kept => CountsExact
<1> USE DEF FilesysInv
<1>1. FilesysTypeOK
  <2>1. ASSUME NEW s \in Opened
        PROVE  /\ open_inodes[s].open_cnt \in 1 .. Cardinality(Handle)
               /\ open_inodes[s].removed \in BOOLEAN
    <3>1. /\ open_inodes[s] \in OpenInode /\ FilesOf(s) # {}
          /\ open_inodes[s].open_cnt = Cardinality(FilesOf(s))
      BY Zenon DEF Opened, FilesysTypes, Referenced
    <3>2. Cardinality(FilesOf(s)) \in Nat \ {0}
      BY Zenon, <3>1, FilesFinite
    <3>3. IsFiniteSet(Handle)
      BY Zenon, FilesysAssumption DEF FilesysAssumption
    <3>4. Cardinality(FilesOf(s)) <= Cardinality(Handle) /\ Cardinality(Handle) \in Nat
      BY Zenon, <3>3, FilesFinite DEF SetFacts, Counting, SizeLaws
    <3>5. open_inodes[s].open_cnt \in 1 .. Cardinality(Handle)
      <4>1. \A m, n \in Nat : m # 0 /\ m <= n => m \in 1 .. n
        OBVIOUS
      <4> QED
        BY Zenon, <3>1, <3>2, <3>4, <4>1
    <3>6. open_inodes[s].removed \in BOOLEAN
      BY Zenon, <3>1 DEF OpenInode
    <3> QED
      BY Zenon, <3>5, <3>6
  <2>2. \A h \in Handle : file[h] # NoEntry => file[h].deny_write \in BOOLEAN
    BY Zenon DEF FilesysTypes, OpenFile
  <2>3. op.pc \in {"none", "inode", "write", "add", "undo", "release", "release_data"}
    BY Zenon DEF FilesysTypes
  <2> QED
    BY Zenon, <2>1, <2>2, <2>3 DEF FilesysTypes, FilesysTypeOK
<1>2. Kept => CountsExact
  <2> SUFFICES ASSUME Kept, NEW s \in Sector
               PROVE  IF open_inodes[s] = NoEntry THEN FilesOf(s) = {}
                      ELSE /\ open_inodes[s].open_cnt = Cardinality(FilesOf(s))
                           /\ open_inodes[s].deny_write_cnt = Cardinality(Denying(s))
                           /\ open_inodes[s].removed <=> s \notin Filed
    BY Zenon DEF CountsExact, FilesOf, Denying
  <2>1. open_inodes[s] # NoEntry => (open_inodes[s].removed <=> s \notin Filed)
    BY Zenon DEF Kept, Reachable, Linked, Opened
  <2> QED
    BY Zenon, <2>1 DEF Referenced
<1> QED
  BY Zenon, <1>1, <1>2 DEF Apart, OnDisk

-----------------------------------------------------------------------------
(* The library brings a copy of FiniteSets of its own, with the same         *)
(* definitions.                                                              *)

SizeOf(S) == Cardinality(S)
Finite(S) == IsFiniteSet(S)

\* How FiniteSets defines the number of elements.
LEMMA SizeDefined ==
  \A S : SizeOf(S) = (LET CS[T \in SUBSET S] ==
                           IF T = {} THEN 0 ELSE 1 + CS[T \ {CHOOSE x : x \in T}]
                     IN  CS[S])
  BY Zenon DEF SizeOf, Cardinality

\* How FiniteSets defines finite sets.
LEMMA FiniteDefined ==
  \A S : Finite(S) <=> \E seq \in Seq(S) : \A s \in S : \E n \in 1 .. Len(seq) : seq[n] = s
  BY Zenon DEF Finite, IsFiniteSet

LOCAL INSTANCE FiniteSetTheorems

Smaller == {p \in Nat \X Nat : p[1] < p[2]}

\* The facts about numbers and finite sets hold.
LEMMA SetFactsHold == SetFacts
<1>1. LeastExists
  <2> SUFFICES ASSUME NEW S \in SUBSET Nat, S # {}
               PROVE  \E m \in S : \A k \in S : m <= k
    BY Zenon DEF LeastExists
  <2>1. IsWellFoundedOn(Smaller, Nat)
    BY Zenon, NatLessThanWellFounded DEF OpToRel, Smaller
  <2>2. PICK m \in S : \A k \in S : <<k, m>> \notin Smaller
    BY Zenon, <2>1, WFMin
  <2>3. \A k \in S : k \in Nat /\ m \in Nat /\ ~(k < m)
    BY Zenon, <2>2 DEF Smaller
  <2>4. \A k, n \in Nat : ~(k < n) => n <= k
    OBVIOUS
  <2> QED
    BY Zenon, <2>3, <2>4
<1>2. Counting
  <2> SUFFICES ASSUME NEW S, Finite(S) PROVE SizeLaws(S)
    BY Zenon DEF Counting, Finite
  <2>s. \A T : SizeOf(T) = Cardinality(T)
    BY Zenon, SizeDefined DEF Cardinality
  <2>f. \A T : Finite(T) <=> IsFiniteSet(T)
    BY Zenon, FiniteDefined DEF IsFiniteSet
  <2>1. IsFiniteSet(S) /\ SizeOf(S) \in Nat /\ (SizeOf(S) = 0 <=> S = {})
    BY Zenon, <2>s, <2>f, FS_CardinalityType, FS_EmptySet
  <2>2. \A T \in SUBSET S : Finite(T) /\ SizeOf(T) <= SizeOf(S)
    BY Zenon, <2>s, <2>f, <2>1, FS_Subset
  <2>3. \A x : x \notin S => SizeOf(S \cup {x}) = SizeOf(S) + 1
    BY Zenon, <2>s, <2>1, FS_AddElement
  <2>4. \A x \in S : SizeOf(S \ {x}) = SizeOf(S) - 1
    BY Zenon, <2>s, <2>1, FS_RemoveElement
  <2> QED
    BY Zenon, <2>1, <2>2, <2>3, <2>4 DEF SizeLaws, SizeOf, Finite
<1> QED
  BY Zenon, <1>1, <1>2 DEF SetFacts

\* Every step keeps the invariant.
LEMMA FilesysInvNext ==
  ASSUME FilesysInv, [FilesysNext]_filesysVars
  PROVE  FilesysInv' /\ (~ReadsFail /\ Kept => Kept')
  BY Zenon, SetFactsHold, FilesysStepKeeps

\* The invariant implies the properties.
LEMMA FilesysInvImplies ==
  ASSUME FilesysInv
  PROVE  /\ NoSharedSectors /\ CrashSafe /\ FilesysTypeOK
         /\ Kept => CountsExact
  BY Zenon, SetFactsHold, FilesysInvGives

\* No sector ever belongs to two files, and the machine may stop at any moment without
\* harm to the files in the directory, even if memory runs out while the directory is
\* read (filesys.c, inode.c, free-map.c, directory.c).
THEOREM FilesysSafe == FilesysSpec => [](NoSharedSectors /\ CrashSafe)
<1>1. FilesysInit => FilesysInv
  BY Zenon, FilesysInvInit
<1>2. FilesysInv /\ [FilesysNext]_filesysVars => FilesysInv'
  BY Zenon, FilesysInvNext
<1>3. FilesysInv => NoSharedSectors /\ CrashSafe
  BY Zenon, FilesysInvImplies
<1> QED
  BY <1>1, <1>2, <1>3, PTL DEF FilesysSpec

\* While reads of the directory succeed, names stay unique as well.
THEOREM NamesStayUnique ==
  ASSUME ~ReadsFail
  PROVE  FilesysSpec => []NamesUnique
<1>1. FilesysInit => FilesysInv /\ Kept
  BY Zenon, FilesysInvInit
<1>2. FilesysInv /\ Kept /\ [FilesysNext]_filesysVars => (FilesysInv /\ Kept)'
  BY Zenon, FilesysInvNext
<1>3. Kept => NamesUnique
  BY Zenon DEF Kept
<1> QED
  BY <1>1, <1>2, <1>3, PTL DEF FilesysSpec
=============================================================================
