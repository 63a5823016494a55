------------------------------ MODULE Filesys ------------------------------
(***************************************************************************)
(* The file system (filesys/): the free map, inodes with open counts and   *)
(* deferred removal, the root directory and open files.  One thread uses   *)
(* it at a time; the machine may stop between any two writes to the disk,  *)
(* and memory may run out.  A directory, and the free map, fit one sector; *)
(* contents of files are left out.                                         *)
(***************************************************************************)
EXTENDS Integers, FiniteSets, FiniteSetsExt

CONSTANTS
  DiskSize,     \* sectors
  Name, BadName,        \* file names, and those that dir_add refuses
  Slots,        \* entries of the root directory
  Lengths,      \* sectors of a new file
  Handle,       \* open files
  ReadsFail,    \* inode_read_at may find no memory for its bounce buffer
  NoEntry

\* Sectors of the free map and the root directory: an inode and its data each.
Reserved == 0 .. 3
Sector == 0 .. DiskSize - 1

ASSUME FilesysAssumption ==
  /\ DiskSize \in Nat /\ DiskSize > 4
  /\ Slots \in Nat \ {0} /\ Lengths \subseteq Nat
  /\ ReadsFail \in BOOLEAN
  /\ IsFiniteSet(Handle)

\* struct inode_disk, struct dir_entry, struct inode and struct file; NoEntry is none
\* of them.
DiskInode == [start : Nat, cnt : Nat]
DirEntry == [name : Name \cup BadName, sector : Sector]
OpenInode == [open_cnt : Nat, removed : BOOLEAN, deny_write_cnt : Int, data : DiskInode]
OpenFile == [sector : Sector, deny_write : BOOLEAN]

ASSUME NoEntryAssumption == NoEntry \notin DiskInode \cup DirEntry \cup OpenInode \cup OpenFile

VARIABLES
  free_map,     \* sectors in use, in memory
  disk_map, disk_inode, disk_dir,       \* the disk
  open_inodes, file,
  op,           \* the operation that is under way
  lost          \* sectors no operation will ever release

diskVars == <<disk_map, disk_inode, disk_dir>>
openVars == <<open_inodes, file>>
filesysVars == <<free_map, diskVars, openVars, op, lost>>

Extent(start, cnt) == start .. start + cnt - 1
Data(i) == Extent(i.start, i.cnt)
NoOp == [pc |-> "none", name |-> NoEntry, sector |-> 0, start |-> 0, cnt |-> 0]

\* do_format and free_map_open have run.
FilesysInit ==
  /\ free_map = Reserved /\ disk_map = Reserved
  /\ disk_inode = [s \in Sector |-> NoEntry]
  /\ disk_dir = [k \in 1 .. Slots |-> NoEntry]
  /\ open_inodes = [s \in Sector |-> NoEntry]
  /\ file = [h \in Handle |-> NoEntry]
  /\ op = NoOp
  /\ lost = {}

-----------------------------------------------------------------------------
(* Free map. *)

\* Where bitmap_scan finds cnt free sectors.
Starts(cnt) == {s \in Sector : /\ Extent(s, cnt) \subseteq Sector
                               /\ Extent(s, cnt) \cap free_map = {}}

\* Variant of Saved: the free map is written when the file system is closed.
NotSaved(map) == disk_map

\* bitmap_write to the free map file.
Saved(map) == map

\* Sectors are taken if the new free map can be saved.
free_map_allocate(start, cnt) ==
  /\ free_map' = free_map \cup Extent(start, cnt)
  /\ disk_map' = Saved(free_map')

\* free_map_release does not look at the result of bitmap_write.
free_map_release(start, cnt) ==
  /\ free_map' = free_map \ Extent(start, cnt)
  /\ disk_map' \in {disk_map, Saved(free_map')}

-----------------------------------------------------------------------------
(* Directory. *)

\* lookup: a failing read ends the search early.
Entries(name) == {k \in 1 .. Slots : disk_dir[k] # NoEntry /\ disk_dir[k].name = name}

LookupResults(name) ==
  {Entries(name) # {}} \cup (IF ReadsFail THEN {FALSE} ELSE {})

\* The slot dir_add writes: the first that is free or, as it believes, past the end.
FreeSlots ==
  LET unused == {k \in 1 .. Slots : disk_dir[k] = NoEntry}
      first == IF unused = {} THEN Slots + 1 ELSE Min(unused)
  IN  IF ReadsFail THEN 1 .. first ELSE {first}

-----------------------------------------------------------------------------
(* filesys_create *)

\* free_map_allocate (1, ...).
filesys_create ==
  /\ op = NoOp /\ Starts(1) # {}
  /\ \E name \in Name \cup BadName, cnt \in Lengths, s \in {Min(Starts(1))} :
       /\ free_map_allocate(s, 1)
       /\ op' = [pc |-> "inode", name |-> name, sector |-> s, start |-> 0, cnt |-> cnt]
  /\ UNCHANGED <<disk_inode, disk_dir, openVars, lost>>

\* inode_create allocates the data, or fails for want of sectors or memory.
inode_create ==
  /\ op.pc = "inode"
  /\ \/ /\ Starts(op.cnt) # {}
        /\ \E s \in {Min(Starts(op.cnt))} :
             free_map_allocate(s, op.cnt) /\ op' = [op EXCEPT !.pc = "write", !.start = s]
     \/ op' = [op EXCEPT !.pc = "undo", !.cnt = 0] /\ UNCHANGED <<free_map, disk_map>>
  /\ UNCHANGED <<disk_inode, disk_dir, openVars, lost>>

WriteInode ==
  /\ op.pc = "write"
  /\ disk_inode' = [disk_inode EXCEPT ![op.sector] = [start |-> op.start, cnt |-> op.cnt]]
  /\ op' = [op EXCEPT !.pc = "add"]
  /\ UNCHANGED <<free_map, disk_map, disk_dir, openVars, lost>>

\* dir_add, with an entry written past the end or without memory failing.  Then
\* the data sectors of the new inode stay allocated.
dir_add ==
  /\ op.pc = "add"
  /\ \/ /\ op.name \notin BadName /\ FALSE \in LookupResults(op.name)
        /\ \E k \in FreeSlots \cap 1 .. Slots :
             disk_dir' = [disk_dir EXCEPT ![k] = [name |-> op.name, sector |-> op.sector]]
        /\ op' = NoOp
        /\ UNCHANGED lost
     \/ /\ lost' = lost \cup Data(op)
        /\ op' = [op EXCEPT !.pc = "undo", !.cnt = 0]
        /\ UNCHANGED disk_dir
  /\ UNCHANGED <<free_map, disk_map, disk_inode, openVars>>

\* A creation that failed releases the sector of the inode.
Undo ==
  /\ op.pc = "undo"
  /\ free_map_release(op.sector, 1)
  /\ op' = NoOp
  /\ UNCHANGED <<disk_inode, disk_dir, openVars, lost>>

-----------------------------------------------------------------------------
(* Inodes and files. *)

\* inode_open: the inode in the list of open inodes, or a new one.
inode_open(s) ==
  IF open_inodes[s] # NoEntry THEN [open_inodes[s] EXCEPT !.open_cnt = @ + 1]
  ELSE [open_cnt |-> 1, removed |-> FALSE, deny_write_cnt |-> 0, data |-> disk_inode[s]]

IsLast(i) == i.open_cnt = 1

\* inode_close of i, the inode in sector s; the blocks of a removed one are
\* released in the next steps.
inode_close(s, i) ==
  /\ open_inodes' = [open_inodes EXCEPT ![s] =
                       IF IsLast(i) THEN NoEntry ELSE [i EXCEPT !.open_cnt = @ - 1]]
  /\ op' = IF IsLast(i) /\ i.removed
             THEN [pc |-> "release", name |-> NoEntry, sector |-> s,
                   start |-> i.data.start, cnt |-> i.data.cnt]
             ELSE NoOp

filesys_open(h) ==
  /\ op = NoOp /\ file[h] = NoEntry
  /\ \E name \in Name : Entries(name) # {} /\ \E s \in {disk_dir[Min(Entries(name))].sector} :
       /\ open_inodes' = [open_inodes EXCEPT ![s] = inode_open(s)]
       /\ file' = [file EXCEPT ![h] = [sector |-> s, deny_write |-> FALSE]]
  /\ UNCHANGED <<free_map, diskVars, op, lost>>

file_reopen(h) ==
  /\ op = NoOp /\ file[h] = NoEntry
  /\ \E g \in Handle : file[g] # NoEntry /\ \E s \in {file[g].sector} :
       /\ open_inodes' = [open_inodes EXCEPT ![s].open_cnt = @ + 1]
       /\ file' = [file EXCEPT ![h] = [sector |-> s, deny_write |-> FALSE]]
  /\ UNCHANGED <<free_map, diskVars, op, lost>>

\* file_deny_write and file_allow_write.
SetDenyWrite(h, deny) ==
  /\ op = NoOp /\ file[h] # NoEntry /\ file[h].deny_write # deny
  /\ file' = [file EXCEPT ![h].deny_write = deny]
  /\ open_inodes' = [open_inodes EXCEPT ![file[h].sector].deny_write_cnt =
                       IF deny THEN @ + 1 ELSE @ - 1]
  /\ UNCHANGED <<free_map, diskVars, op, lost>>

file_close(h) ==
  /\ op = NoOp /\ file[h] # NoEntry
  /\ LET s == file[h].sector
         i == open_inodes[s]
     IN  inode_close(s, IF file[h].deny_write THEN [i EXCEPT !.deny_write_cnt = @ - 1] ELSE i)
  /\ file' = [file EXCEPT ![h] = NoEntry]
  /\ UNCHANGED <<free_map, diskVars, lost>>

\* dir_remove erases the entry, marks the inode removed and closes it.
filesys_remove ==
  /\ op = NoOp
  /\ \E name \in Name : Entries(name) # {} /\ \E k \in {Min(Entries(name))} :
       /\ inode_close(disk_dir[k].sector,
                      [inode_open(disk_dir[k].sector) EXCEPT !.removed = TRUE])
       /\ disk_dir' = [disk_dir EXCEPT ![k] = NoEntry]
  /\ UNCHANGED <<free_map, disk_map, disk_inode, file, lost>>

\* Variant of Release: the data sectors are forgotten.
ReleaseInodeOnly ==
  /\ op.pc = "release"
  /\ free_map_release(op.sector, 1)
  /\ op' = NoOp
  /\ UNCHANGED <<disk_inode, disk_dir, openVars, lost>>

\* The two releases at the end of inode_close.
Release ==
  /\ \/ op.pc = "release" /\ free_map_release(op.sector, 1)
                          /\ op' = [op EXCEPT !.pc = "release_data"]
     \/ op.pc = "release_data" /\ free_map_release(op.start, op.cnt) /\ op' = NoOp
  /\ UNCHANGED <<disk_inode, disk_dir, openVars, lost>>

-----------------------------------------------------------------------------
\* The files in the directory, by the sectors of their inodes.
Filed == {disk_dir[k].sector : k \in {j \in 1 .. Slots : disk_dir[j] # NoEntry}}
FileSectors(s) == {s} \cup Data(disk_inode[s])

\* The machine stops and starts again: filesys_init without format.
Restart ==
  /\ free_map' = disk_map
  /\ open_inodes' = [s \in Sector |-> NoEntry]
  /\ file' = [h \in Handle |-> NoEntry]
  /\ op' = NoOp
  /\ lost' = disk_map \ (Reserved \cup UNION {FileSectors(s) : s \in Filed})
  /\ UNCHANGED diskVars

FilesysNext ==
  \/ filesys_create \/ inode_create \/ WriteInode \/ dir_add \/ Undo
  \/ filesys_remove \/ Release \/ Restart
  \/ \E h \in Handle :
       \/ filesys_open(h) \/ file_reopen(h) \/ file_close(h)
       \/ \E deny \in BOOLEAN : SetDenyWrite(h, deny)

FilesysSpec == FilesysInit /\ [][FilesysNext]_filesysVars

-----------------------------------------------------------------------------
Opened == {s \in Sector : open_inodes[s] # NoEntry}

\* Type invariant of the file system.
FilesysTypeOK ==
  /\ free_map \subseteq Sector /\ disk_map \subseteq Sector /\ lost \subseteq Sector
  /\ \A s \in Sector : disk_inode[s] # NoEntry => Data(disk_inode[s]) \subseteq Sector
  /\ \A s \in Opened : /\ open_inodes[s].open_cnt \in 1 .. Cardinality(Handle)
                       /\ open_inodes[s].removed \in BOOLEAN
  /\ \A h \in Handle : file[h] # NoEntry => file[h].deny_write \in BOOLEAN
  /\ op.pc \in {"none", "inode", "write", "add", "undo", "release", "release_data"}

\* The sectors of the operation under way.
OpSectors ==
  (IF op.pc \in {"none", "release_data"} THEN {} ELSE {op.sector})
  \cup (IF op.pc \in {"none", "inode"} THEN {} ELSE Data(op))

Live == Filed \cup Opened
LiveSectors == UNION {FileSectors(s) : s \in Live}

\* No sector belongs to two files: not to a new file and one that was removed but
\* is still open, nor to a file and an operation, the file system's own sectors, or
\* the sectors that were lost.  An open inode agrees with its copy on disk.
NoSharedSectors ==
  /\ \A s, u \in Live : s # u => FileSectors(s) \cap FileSectors(u) = {}
  /\ LiveSectors \cap (OpSectors \cup Reserved \cup lost) = {}
  /\ \A s \in Opened : open_inodes[s].data = disk_inode[s]

\* At any moment the machine may stop: the files in the directory on disk are
\* complete, and all their sectors are in use in the free map on disk, so that no
\* later creation takes them.
CrashSafe ==
  \A s \in Filed : disk_inode[s] # NoEntry /\ FileSectors(s) \subseteq disk_map

\* A sector is in use exactly if a file, the file system itself or an operation has
\* it, or it was lost: by a restart, or when filesys_create fails in dir_add.
SectorsAccounted == free_map = Reserved \cup LiveSectors \cup OpSectors \cup lost

\* The directory holds a name once, and an inode once.
NamesUnique ==
  \A j, k \in 1 .. Slots :
    disk_dir[j] # NoEntry /\ disk_dir[k] # NoEntry /\ j # k =>
      disk_dir[j].name # disk_dir[k].name /\ disk_dir[j].sector # disk_dir[k].sector

\* open_cnt and deny_write_cnt count the open files, so that an inode is released
\* with its last file, and an inode that nobody can reach is not kept open; this
\* implies the ASSERTs of inode_deny_write and inode_allow_write.
CountsExact ==
  \A s \in Sector :
    LET fs == {h \in Handle : file[h] # NoEntry /\ file[h].sector = s}
    IN  IF open_inodes[s] = NoEntry THEN fs = {}
        ELSE /\ open_inodes[s].open_cnt = Cardinality(fs)
             /\ open_inodes[s].deny_write_cnt = Cardinality({h \in fs : file[h].deny_write})
             /\ open_inodes[s].removed <=> s \notin Filed
=============================================================================
