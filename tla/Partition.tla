----------------------------- MODULE Partition -----------------------------
(***************************************************************************)
(* Block devices (block.c), the partitions of a disk (partition.c), and    *)
(* the choice of devices for the kernel's roles (init.c).  The scan of the *)
(* partition tables runs once, as a stack of calls of read_partition_table *)
(* that advances one table entry at a time; reads and writes follow.       *)
(* Sector numbers are unsigned and wrap at SectorWord.                     *)
(***************************************************************************)
EXTENDS Integers, Sequences, FiniteSetsExt

CONSTANTS
  SectorWord,   \* 2 to the number of bits of a sector number
  RawSize,      \* sectors of the disk
  DiskImages,   \* partition tables by sector: a sequence of entries, or <<>> where
                \* there is no table
  MaxCalls,     \* calls of read_partition_table the kernel's stack has room for
  MaxAccesses   \* reads and writes

\* An entry of a partition table.
Entry == [type : Nat, offset : 0 .. SectorWord - 1, size : 0 .. SectorWord - 1]

ASSUME PartitionAssumption ==
  /\ SectorWord \in Nat /\ RawSize \in 1 .. SectorWord - 1
  /\ \A i \in DiskImages : i \in [0 .. RawSize - 1 -> Seq(Entry)]

VARIABLES
  image,        \* the tables of the disk
  calls,        \* calls of read_partition_table under way, innermost last
  part_nr,
  all_blocks,   \* registered devices in probe order, the disk first
  block_by_role,
  disk_data,    \* the last write to every sector, as a count of writes
  transfers,    \* sectors transferred by the disk
  phase         \* "off", "scan", "roles", "up" or "panic"

partitionVars == <<image, calls, part_nr, all_blocks, block_by_role, disk_data, transfers, phase>>

Roles == {"kernel", "filesys", "scratch", "swap"}
Extended == {5, 15, 133, 197}
NoImage == [s \in 0 .. RawSize - 1 |-> <<>>]

PartitionInit ==
  /\ image = NoImage /\ calls = <<>> /\ part_nr = 0 /\ all_blocks = <<>>
  /\ block_by_role = [r \in Roles |-> 0]
  /\ disk_data = [s \in 0 .. RawSize - 1 |-> 0]
  /\ transfers = 0
  /\ phase = "off"

Wrapped(n) == n % SectorWord

-----------------------------------------------------------------------------
(* block.c *)

Block(nr, type, start, size) ==
  [nr |-> nr, type |-> type, start |-> start, size |-> size, read_cnt |-> 0, write_cnt |-> 0]

block_register(blocks, b) == Append(blocks, b)

Disk == 1     \* the position of the disk in all_blocks
Panics(b, sector) == sector >= all_blocks[b].size

\* The sector of the disk that an access to sector of device b goes to.
DiskSectorOf(b, sector) == Wrapped(all_blocks[b].start + sector)

\* The devices whose check_sector sees an access, and that count it: a partition
\* passes it on to the disk.
Passed(b) == {b, Disk}

\* check_sector, of the device and then of the disk.
check_sector(b, sector) ==
  ~Panics(b, sector) /\ ~Panics(Disk, DiskSectorOf(b, sector))

Counted(b, field) ==
  [i \in DOMAIN all_blocks |->
     IF i \in Passed(b) THEN [all_blocks[i] EXCEPT ![field] = @ + 1] ELSE all_blocks[i]]

block_read(b, sector) ==
  /\ phase = "up" /\ transfers < MaxAccesses
  /\ IF check_sector(b, sector)
       THEN /\ all_blocks' = Counted(b, "read_cnt")
            /\ transfers' = transfers + 1
            /\ UNCHANGED phase
       ELSE phase' = "panic" /\ UNCHANGED <<all_blocks, transfers>>
  /\ UNCHANGED <<image, calls, part_nr, block_by_role, disk_data>>

block_write(b, sector) ==
  /\ phase = "up" /\ transfers < MaxAccesses
  /\ IF check_sector(b, sector) /\ all_blocks[b].type # "foreign"
       THEN /\ all_blocks' = Counted(b, "write_cnt")
            /\ transfers' = transfers + 1
            /\ disk_data' = [disk_data EXCEPT ![DiskSectorOf(b, sector)] = transfers + 1]
            /\ UNCHANGED phase
       ELSE phase' = "panic" /\ UNCHANGED <<all_blocks, transfers, disk_data>>
  /\ UNCHANGED <<image, calls, part_nr, block_by_role>>

-----------------------------------------------------------------------------
(* partition.c *)

\* A call of read_partition_table: it returns at once if the sector is past the
\* end or the table has no signature.  The table it reads is that of sector 0.
read_partition_table(stack, sector, primary) ==
  IF sector >= RawSize \/ image[0] = <<>> THEN stack
  ELSE Append(stack, [sector |-> sector, primary |-> primary, i |-> 1])

\* The reads of the disk that a call makes.
TableReads(sector) == IF sector >= RawSize THEN 0 ELSE 1

partition_scan ==
  /\ phase = "off"
  /\ image' \in DiskImages
  /\ phase' = "scan"
  /\ calls' = read_partition_table(<<>>, 0, 0)'
  /\ all_blocks' = <<[Block(0, "raw", 0, RawSize) EXCEPT !.read_cnt = 1]>>
  /\ transfers' = 1
  /\ UNCHANGED <<part_nr, block_by_role, disk_data>>

\* Variant of Fits: an end that wraps around is not noticed.
FitsEndOnly(start, size) == start < RawSize /\ Wrapped(start + size) <= RawSize

\* The checks of found_partition.
Fits(start, size) ==
  /\ start < RawSize
  /\ Wrapped(start + size) >= start /\ Wrapped(start + size) <= RawSize

PartitionType(type) ==
  CASE type = 32 -> "kernel" [] type = 33 -> "filesys" [] type = 34 -> "scratch"
    [] type = 35 -> "swap" [] OTHER -> "foreign"

found_partition(blocks, type, start, size, nr) ==
  IF Fits(start, size) THEN block_register(blocks, Block(nr, PartitionType(type), start, size))
  ELSE blocks

Innermost == calls[Len(calls)]
Ignored(e) == e.size = 0 \/ e.type = 0
Advanced == [calls EXCEPT ![Len(calls)].i = @ + 1]

\* Where the table of an extended partition is: its offset is absolute in the
\* first table, and counts from the first extended partition elsewhere.
TableSector(c, e) == IF c.sector = 0 THEN e.offset ELSE Wrapped(e.offset + c.primary)
Primary(c, e) == IF c.sector = 0 THEN e.offset ELSE c.primary

\* The next entry of the innermost table.
TableEntry ==
  /\ phase = "scan" /\ calls # <<>> /\ Innermost.i <= Len(image[0])
  /\ \E e \in {image[0][Innermost.i]} :
       \/ /\ Ignored(e)
          /\ calls' = Advanced
          /\ UNCHANGED <<part_nr, all_blocks, transfers, phase>>
       \/ /\ ~Ignored(e) /\ e.type \in Extended
          /\ calls' = read_partition_table(Advanced, TableSector(Innermost, e), Primary(Innermost, e))
          /\ transfers' = transfers + TableReads(TableSector(Innermost, e))
          /\ all_blocks' = [all_blocks EXCEPT ![Disk].read_cnt = transfers']
          /\ phase' = IF Len(calls') > MaxCalls THEN "panic" ELSE phase
          /\ UNCHANGED part_nr
       \/ /\ ~Ignored(e) /\ e.type \notin Extended
          /\ part_nr' = part_nr + 1
          /\ all_blocks' = found_partition(all_blocks, e.type, Wrapped(e.offset + Innermost.sector),
                                           e.size, part_nr')
          /\ calls' = Advanced
          /\ UNCHANGED <<transfers, phase>>
  /\ UNCHANGED <<image, block_by_role, disk_data>>

\* The innermost call returns; when the first one has, ide_init goes on.
TableDone ==
  /\ phase = "scan"
  /\ \/ /\ calls # <<>> /\ Innermost.i > Len(image[0])
        /\ calls' = SubSeq(calls, 1, Len(calls) - 1)
        /\ UNCHANGED phase
     \/ calls = <<>> /\ phase' = "roles" /\ UNCHANGED calls
  /\ UNCHANGED <<image, part_nr, all_blocks, block_by_role, disk_data, transfers>>

-----------------------------------------------------------------------------
(* init.c *)

\* The first of some devices in probe order; 0 is the null pointer.
FirstIn(devices) == IF devices = {} THEN 0 ELSE Min(devices)

\* A partition's name ends in its number.
block_get_by_name(nr) == FirstIn({b \in DOMAIN all_blocks : all_blocks[b].nr = nr})

\* A device given by name, or the first of the type.
locate_block_device(role, nr) ==
  IF nr # 0 THEN block_get_by_name(nr)
  ELSE FirstIn({b \in DOMAIN all_blocks : all_blocks[b].type = role})

\* locate_block_devices, with a name for the file system's device or none.  A name
\* that does not exist is a PANIC.
locate_block_devices ==
  /\ phase = "roles"
  /\ \E nr \in 0 .. 2 :
       /\ block_by_role' = [block_by_role EXCEPT
                              !["filesys"] = locate_block_device("filesys", nr),
                              !["scratch"] = locate_block_device("scratch", 0)]
       /\ phase' = IF nr # 0 /\ block_by_role'["filesys"] = 0 THEN "panic" ELSE "up"
  /\ UNCHANGED <<image, calls, part_nr, all_blocks, disk_data, transfers>>

PartitionNext ==
  \/ partition_scan \/ TableEntry \/ TableDone \/ locate_block_devices
  \/ \E r \in Roles, sector \in 0 .. RawSize :
       /\ block_by_role[r] # 0
       /\ block_read(block_by_role[r], sector) \/ block_write(block_by_role[r], sector)

PartitionSpec == PartitionInit /\ [][PartitionNext]_partitionVars

-----------------------------------------------------------------------------
\* The partitions of the table in a sector and of the extended partitions it leads
\* to, each with its place on the disk, in the order of the scan.
PartitionsIn[sector \in 0 .. SectorWord - 1, primary \in 0 .. SectorWord - 1, depth \in 0 .. 3] ==
  IF sector >= RawSize \/ depth = 0 THEN <<>>
  ELSE MapThenFoldSet(\o, <<>>,
         LAMBDA i :
           LET e == image[sector][i]
               c == [sector |-> sector, primary |-> primary]
           IN  IF Ignored(e) THEN <<>>
               ELSE IF e.type \in Extended
                 THEN PartitionsIn[TableSector(c, e), Primary(c, e), depth - 1]
               ELSE IF e.offset + sector + e.size > RawSize THEN <<>>
               ELSE << <<e.offset + sector, e.size, PartitionType(e.type)>> >>,
         Min, DOMAIN image[sector])

Found == [i \in 1 .. Len(all_blocks) - 1 |->
            <<all_blocks[i + 1].start, all_blocks[i + 1].size, all_blocks[i + 1].type>>]

DeviceSectors(b) == all_blocks[b].start .. all_blocks[b].start + all_blocks[b].size - 1

\* found_partition, check_sector: a device lies within the disk, and an access that its
\* own check admits reaches the sector it names, without wrapping around or failing
\* the disk's check.
DevicesFit ==
  \A b \in DOMAIN all_blocks :
    /\ DeviceSectors(b) \subseteq 0 .. RawSize - 1
    /\ \A sector \in 0 .. all_blocks[b].size - 1 :
         /\ DiskSectorOf(b, sector) = all_blocks[b].start + sector
         /\ ~Panics(Disk, DiskSectorOf(b, sector))

\* partition.c: read_partition_table reads the table in the sector it is given, so the
\* devices found are the partitions that the tables describe and that fit the disk.
GivenTableRead == phase \in {"roles", "up"} => Found = PartitionsIn[0, 0, 3]

\* The devices are the partitions that the tables describe and that fit the disk,
\* under increasing numbers; the scan comes to an end without running out of
\* stack.  Only sectors of the devices that have a role are ever written, and the
\* disk counts every transfer once, its own and those of its partitions.
PartitionsExact ==
  /\ GivenTableRead
  /\ \A i, j \in DOMAIN all_blocks : i < j => all_blocks[i].nr < all_blocks[j].nr
  /\ DevicesFit
  /\ \A s \in DOMAIN disk_data :
       disk_data[s] # 0 => \E r \in Roles :
         block_by_role[r] # 0 /\ s \in DeviceSectors(block_by_role[r])
  /\ phase = "panic" => Len(calls) <= MaxCalls
  /\ all_blocks # <<>> => all_blocks[Disk].read_cnt + all_blocks[Disk].write_cnt = transfers
=============================================================================
