-------------------------------- MODULE Fat32 --------------------------------
(***************************************************************************)
(* The FAT32 driver of arona_kernel on its ATA disk: format, write_file and *)
(* read_file (fat32/format.rs, fat32/dir.rs) sector by sector, each sector  *)
(* transfer (ata.rs) with its error return, and the start of the machine    *)
(* that overwrites sector 0, formats, and goes on whatever came of it       *)
(* (main.rs).  The calls run one at a time with interrupts masked, so the   *)
(* only thing between two transfers is an error or the end of the power.    *)
(*                                                                         *)
(* A sector is zero, or holds FAT entries, directory entries, one chunk of  *)
(* file data, or boot data; a file's content is its sequence of chunks.     *)
(***************************************************************************)
EXTENDS Fat32Layout, Sequences, FiniteSets, FiniteSetsExt

CONSTANTS
  DirEntriesPerSector,  \* 16: BYTES_PER_SECTOR / DIR_ENTRY_SIZE
  Names,                \* the names callers pass
  ShortNames,
  ShortName,            \* Names -> ShortNames, to_short_name
  Contents,             \* the contents callers write: sequences of chunks
  Nothing,              \* no content, no name
  MaxCalls,             \* bound: file calls after the last start
  MaxErrors,            \* bound: sector transfers that fail
  MaxBoots              \* bound: starts of the machine

\* What callers pass is as it is declared; contents are sequences.
ASSUME CallerAssumption ==
  /\ DirEntriesPerSector \in Nat
  /\ ShortName \in [Names -> ShortNames] /\ Nothing \notin ShortNames
  /\ \A d \in Contents : d \in Seq({d[i] : i \in DOMAIN d})
  /\ Nothing \notin Contents

FAT_FREE == 0
FAT_EOC  == 268435455   \* 0x0FFF_FFFF
BadEntry == 1           \* a FAT entry read from a sector that holds no FAT

VARIABLES
  disk,       \* sector number -> contents
  pc,         \* where the call under way is, or "idle"
  op,         \* its name and data
  first,      \* its first_cluster, 0 before it has one
  cluster,    \* the cluster it is at (prev, then cluster in the code)
  left,       \* clusters still to allocate; file_size when reading
  todo,       \* the rest of the FAT entry writes it is in
  pos,        \* the sector it is at: of the format, the data, the directory
  out,        \* the chunks it has read
  reply,      \* what the last call returned
  formatted,  \* outcome of format() since the machine started
  clean,      \* history: no write_file has failed since the format
  written,    \* history: name -> content of the last successful write_file
  calls, errors, boots   \* counters for the bounds

locals == <<op, first, cluster, left, todo, pos, out>>
counters == <<calls, errors, boots>>
history == <<formatted, clean, written>>
vars == <<disk, pc, locals, reply, history, counters>>

Sectors == 0 .. TOTAL_SECTORS - 1

-------------------------------------------------------------------------------
(* Sectors and what the driver reads in them.                                 *)

Zero == [type |-> "zero"]
Boot == [type |-> "boot"]
Data(chunk) == [type |-> "data", chunk |-> chunk]
Fat(entries) == [type |-> "fat", entries |-> entries]
Dir(entries) == [type |-> "dir", entries |-> entries]

FatSlots == 0 .. FatEntriesPerSector - 1
DirSlots == 1 .. DirEntriesPerSector

\* A directory entry: 11 name bytes, first cluster, file size.
Entry(s, c, n) == [name |-> s, first |-> c, size |-> n]
Unused == Entry(Nothing, 0, 0)           \* first byte 0x00
Junk   == Entry("junk", FAT_EOC, 0)      \* other bytes taken for an entry

FatEntries(sector) ==
  CASE sector.type = "fat"  -> sector.entries
    [] sector.type = "zero" -> [i \in FatSlots |-> FAT_FREE]
    [] OTHER                -> [i \in FatSlots |-> BadEntry]

DirEntries(sector) ==
  CASE sector.type = "dir"  -> sector.entries
    [] sector.type = "zero" -> [i \in DirSlots |-> Unused]
    [] OTHER                -> [i \in DirSlots |-> IF i = 1 THEN Junk ELSE Unused]

Chunk(sector) ==
  IF sector.type = "data" THEN sector.chunk ELSE sector.type

\* The pos-th sector of a file's data when its cluster is reached.
SectorAt(c, p) == cluster_to_sector(c) + (p % SECTORS_PER_CLUSTER)

\* read_fat_entry: copy 0 of the FAT is the one that is read.
FatValue(k, c) == FatEntries(disk[FatSectorOf(k, c)])[FatSlotOf(c)]
read_fat_entry(c) == FatValue(0, c)

\* One round of the loop in write_fat_entry: read, modify, write one copy.
WithFatEntry(w) ==
  LET s == FatSectorOf(w.copy, w.cluster)
  IN [disk EXCEPT ![s] = Fat([FatEntries(@) EXCEPT ![FatSlotOf(w.cluster)] = w.value])]

\* Mutant: the loop over the copies starts at 1.
write_fat_entry_last(c, v) == <<[copy |-> 1, cluster |-> c, value |-> v]>>

\* Mutant: only the copy that is read is written.
write_fat_entry_first(c, v) == <<[copy |-> 0, cluster |-> c, value |-> v]>>

\* write_fat_entry writes every copy, copy 0 first.
write_fat_entry(c, v) ==
  [k \in 1 .. NUM_FATS |-> [copy |-> k - 1, cluster |-> c, value |-> v]]

FreeClusters == {c \in Clusters : read_fat_entry(c) = FAT_FREE}

\* Mutant: one cluster more than a multiple of the cluster size needs.
NeededClustersTooMany(d) == (Len(d) \div SECTORS_PER_CLUSTER) + 1

\* allocate_cluster_chain: byte_len.div_ceil(CLUSTER_SIZE).max(1)
NeededClusters(d) ==
  LET n == (Len(d) + SECTORS_PER_CLUSTER - 1) \div SECTORS_PER_CLUSTER
  IN IF n = 0 THEN 1 ELSE n

-------------------------------------------------------------------------------
(* format() as the sector writes it makes, in order.                          *)

FirstFatSector ==   \* media descriptor, reserved entry, end of the root's chain
  Fat([i \in FatSlots |-> IF i <= 2 THEN FAT_EOC ELSE FAT_FREE])

Transfer(s, v) == [sector |-> s, value |-> v]

\* Mutant: the root directory is not cleared.
FormatPlanKeepsRoot ==
  <<Transfer(0, Boot), Transfer(6, Boot), Transfer(1, Boot), Transfer(7, Boot)>>
  \o [i \in 1 .. NUM_FATS * SECTORS_PER_FAT |-> Transfer(FAT_START_SECTOR + i - 1, Zero)]
  \o [k \in 1 .. NUM_FATS |->
        Transfer(FAT_START_SECTOR + (k - 1) * SECTORS_PER_FAT, FirstFatSector)]

FormatPlan ==
  <<Transfer(0, Boot), Transfer(6, Boot), Transfer(1, Boot), Transfer(7, Boot)>>
  \o [i \in 1 .. NUM_FATS * SECTORS_PER_FAT |-> Transfer(FAT_START_SECTOR + i - 1, Zero)]
  \o [k \in 1 .. NUM_FATS |->
        Transfer(FAT_START_SECTOR + (k - 1) * SECTORS_PER_FAT, FirstFatSector)]
  \o [i \in 1 .. SECTORS_PER_CLUSTER |-> Transfer(cluster_to_sector(ROOT_CLUSTER) + i - 1, Zero)]

-------------------------------------------------------------------------------
(* The start of the machine.                                                  *)

NoOp == [name |-> Nothing, data |-> <<>>]
NoReply == [kind |-> "none", name |-> Nothing, data |-> Nothing]

ClearLocals ==
  /\ op' = NoOp /\ first' = 0 /\ cluster' = 0 /\ left' = 0
  /\ todo' = <<>> /\ pos' = 0 /\ out' = <<>>

Init ==
  /\ disk = [s \in Sectors |-> Zero]
  /\ pc = "ata_test"
  /\ op = NoOp /\ first = 0 /\ cluster = 0 /\ left = 0
  /\ todo = <<>> /\ pos = 0 /\ out = <<>>
  /\ reply = NoReply
  /\ formatted = "no" /\ clean = TRUE
  /\ written = [n \in Names |-> Nothing]
  /\ calls = 0 /\ errors = 0 /\ boots = 1

\* kernel_main's test pattern to sector 0; a failure is only logged.
AtaTest ==
  /\ pc = "ata_test"
  /\ \/ disk' = [disk EXCEPT ![0] = Data("pattern")] /\ UNCHANGED errors
     \/ errors < MaxErrors /\ errors' = errors + 1 /\ UNCHANGED disk
  /\ pc' = "format"
  /\ UNCHANGED <<locals, reply, history, calls, boots>>

\* The power fails at any point and the machine starts again: memory is lost,
\* the disk is not.
Restart ==
  /\ boots < MaxBoots
  /\ boots' = boots + 1
  /\ pc' = "ata_test"
  /\ ClearLocals
  /\ reply' = NoReply
  /\ formatted' = "no" /\ clean' = TRUE
  /\ written' = [n \in Names |-> Nothing]
  /\ calls' = 0
  /\ UNCHANGED <<disk, errors>>

FormatStep ==
  /\ pc = "format"
  /\ disk' = [disk EXCEPT ![FormatPlan[pos + 1].sector] = FormatPlan[pos + 1].value]
  /\ IF pos + 1 < Len(FormatPlan)
     THEN pos' = pos + 1 /\ UNCHANGED <<pc, formatted>>
     ELSE pos' = 0 /\ pc' = "idle" /\ formatted' = "ok"
  /\ UNCHANGED <<op, first, cluster, left, todo, out, reply, clean, written, counters>>

\* kernel_main only logs the error and goes on to write_file.
FormatFails ==
  /\ pc = "format"
  /\ errors < MaxErrors
  /\ errors' = errors + 1
  /\ pos' = 0
  /\ pc' = "idle"
  /\ formatted' = "failed"
  /\ UNCHANGED <<disk, op, first, cluster, left, todo, out, reply, clean, written, calls, boots>>

-------------------------------------------------------------------------------
(* The calls.                                                                 *)

BeginCall(n, d, label) ==
  /\ pc = "idle"
  /\ calls < MaxCalls
  /\ calls' = calls + 1
  /\ op' = [name |-> n, data |-> d]
  /\ reply' = NoReply
  /\ pc' = label
  /\ UNCHANGED <<disk, first, cluster, todo, pos, out, history, errors, boots>>

Return(kind, d) ==
  /\ reply' = [kind |-> kind, name |-> op.name, data |-> d]
  /\ pc' = "idle"
  /\ ClearLocals

BeginWrite(n, d) ==
  /\ BeginCall(n, d, "find")
  /\ left' = NeededClusters(d)

BeginRead(n) ==
  /\ BeginCall(n, <<>>, "lookup")
  /\ UNCHANGED left

\* Mutant: a later cluster is not linked to.
FindFreeUnlinked ==
  /\ pc = "find"
  /\ FreeClusters # {}
  /\ LET c == Min(FreeClusters)
     IN /\ todo' = write_fat_entry(c, FAT_EOC)
        /\ first' = IF first = 0 THEN c ELSE first
        /\ cluster' = c
  /\ left' = left - 1
  /\ pc' = "fat"
  /\ UNCHANGED <<disk, op, pos, out, reply, history, counters>>

\* find_free_cluster, and the write_fat_entry calls that follow: the first
\* cluster is marked as the end of the chain, a later one is first linked to.
FindFree ==
  /\ pc = "find"
  /\ FreeClusters # {}
  /\ LET c == Min(FreeClusters)
     IN /\ todo' = IF first = 0 THEN write_fat_entry(c, FAT_EOC)
                   ELSE write_fat_entry(cluster, c) \o write_fat_entry(c, FAT_EOC)
        /\ first' = IF first = 0 THEN c ELSE first
        /\ cluster' = c
  /\ left' = left - 1
  /\ pc' = "fat"
  /\ UNCHANGED <<disk, op, pos, out, reply, history, counters>>

FindFull ==
  /\ pc = "find"
  /\ FreeClusters = {}
  /\ Return("error", Nothing)
  /\ clean' = FALSE
  /\ UNCHANGED <<disk, formatted, written, counters>>

FatWrite ==
  /\ pc = "fat"
  /\ disk' = WithFatEntry(Head(todo))
  /\ todo' = Tail(todo)
  /\ CASE Tail(todo) # <<>>  -> UNCHANGED <<pc, cluster>>
       [] Tail(todo) = <<>> /\ left > 0 -> pc' = "find" /\ UNCHANGED cluster
       [] OTHER -> /\ pc' = IF op.data = <<>> THEN "dir" ELSE "data"
                   /\ cluster' = first
  /\ UNCHANGED <<op, first, left, pos, out, reply, history, counters>>

\* write_data_to_chain: whole clusters, the last one padded with zeros.
DataWrite ==
  /\ pc = "data"
  /\ disk' = [disk EXCEPT ![SectorAt(cluster, pos)] =
                IF pos < Len(op.data) THEN Data(op.data[pos + 1]) ELSE Zero]
  /\ LET full == (pos + 1) % SECTORS_PER_CLUSTER = 0
         done == full /\ pos + 1 >= Len(op.data)
     IN /\ pos' = IF done THEN 0 ELSE pos + 1
        /\ pc' = IF done THEN "dir" ELSE IF full THEN "next" ELSE "data"
  /\ UNCHANGED <<op, first, cluster, left, todo, out, reply, history, counters>>

\* The step along the chain in write_data_to_chain and read_data_from_chain.
\* Past the end of a chain, or into a cluster marked free, cluster_to_sector
\* gives no sector of the data area; what the kernel does then is not modelled.
NextCluster ==
  /\ pc = "next"
  /\ cluster' = read_fat_entry(cluster)
  /\ pc' = IF cluster' \notin Clusters THEN "astray"
           ELSE IF op.data = <<>> THEN "read" ELSE "data"
  /\ UNCHANGED <<disk, op, first, left, todo, pos, out, reply, history, counters>>

FirstUnused(es) == {i \in DirSlots : es[i] = Unused /\ \A j \in 1 .. i - 1 : es[j] # Unused}

RootSector(i) == cluster_to_sector(ROOT_CLUSTER) + i

\* One round of the directory scan of write_file.
DirWrite ==
  /\ pc = "dir"
  /\ LET es == DirEntries(disk[RootSector(pos)])
     IN \/ \E i \in FirstUnused(es) :
             /\ disk' = [disk EXCEPT ![RootSector(pos)] =
                           Dir([es EXCEPT ![i] = Entry(ShortName[op.name], first, Len(op.data))])]
             /\ written' = [written EXCEPT ![op.name] = op.data]
             /\ Return("ok", Nothing)
             /\ UNCHANGED clean
        \/ /\ FirstUnused(es) = {}
           /\ UNCHANGED <<disk, written>>
           /\ IF pos + 1 < SECTORS_PER_CLUSTER
              THEN /\ pos' = pos + 1
                   /\ UNCHANGED <<pc, op, first, cluster, left, todo, out, reply, clean>>
              ELSE Return("error", Nothing) /\ clean' = FALSE
  /\ UNCHANGED <<formatted, counters>>

\* Where read_file finds a name in a directory sector: an unused entry ends the
\* sector, not the scan.
Matches(es, s) == {i \in DirSlots : es[i].name = s /\ \A j \in 1 .. i - 1 : es[j] # Unused}

\* Mutant: the scan does not move to the next directory sector.
LookupStays ==
  /\ pc = "lookup"
  /\ LET es   == DirEntries(disk[RootSector(pos)])
         hits == Matches(es, ShortName[op.name])
     IN IF hits = {}
        THEN UNCHANGED <<pc, locals, reply>>
        ELSE LET e == es[Min(hits)]
             IN IF e.size = 0 THEN Return("data", <<>>)
                ELSE /\ cluster' = e.first /\ left' = e.size /\ pos' = 0
                     /\ pc' = IF e.first \in Clusters THEN "read" ELSE "astray"
                     /\ UNCHANGED <<op, first, todo, out, reply>>
  /\ UNCHANGED <<disk, history, counters>>

\* One round of the directory scan of read_file.
Lookup ==
  /\ pc = "lookup"
  /\ LET es   == DirEntries(disk[RootSector(pos)])
         hits == Matches(es, ShortName[op.name])
     IN IF hits = {}
        THEN IF pos + 1 < SECTORS_PER_CLUSTER
             THEN pos' = pos + 1 /\ UNCHANGED <<pc, op, first, cluster, left, todo, out, reply>>
             ELSE Return("notfound", Nothing)
        ELSE LET e == es[Min(hits)]
             IN IF e.size = 0 THEN Return("data", <<>>)
                ELSE /\ cluster' = e.first /\ left' = e.size /\ pos' = 0
                     /\ pc' = IF e.first \in Clusters THEN "read" ELSE "astray"
                     /\ UNCHANGED <<op, first, todo, out, reply>>
  /\ UNCHANGED <<disk, history, counters>>

\* Mutant: the chain is not followed at the end of a cluster.
DataReadInPlace ==
  /\ pc = "read"
  /\ LET got == Append(out, Chunk(disk[SectorAt(cluster, pos)]))
     IN IF Len(got) = left THEN Return("data", got)
        ELSE /\ out' = got
             /\ pos' = pos + 1
             /\ UNCHANGED <<pc, op, first, cluster, left, todo, reply>>
  /\ UNCHANGED <<disk, history, counters>>

\* read_data_from_chain.
DataRead ==
  /\ pc = "read"
  /\ LET got == Append(out, Chunk(disk[SectorAt(cluster, pos)]))
     IN IF Len(got) = left THEN Return("data", got)
        ELSE /\ out' = got
             /\ pos' = pos + 1
             /\ pc' = IF (pos + 1) % SECTORS_PER_CLUSTER = 0 THEN "next" ELSE "read"
             /\ UNCHANGED <<op, first, cluster, left, todo, reply>>
  /\ UNCHANGED <<disk, history, counters>>

\* A sector transfer reports an error before it has moved any data; the error
\* is passed up at once and what was written before stays.
TransferFails ==
  /\ pc \in {"find", "fat", "data", "next", "dir", "lookup", "read"}
  /\ errors < MaxErrors
  /\ errors' = errors + 1
  /\ Return("error", Nothing)
  /\ clean' = (clean /\ first = 0)
  /\ UNCHANGED <<disk, formatted, written, calls, boots>>

Step ==
  \/ AtaTest \/ FormatStep
  \/ FindFree \/ FindFull \/ FatWrite \/ DataWrite \/ NextCluster \/ DirWrite
  \/ Lookup \/ DataRead

Next ==
  \/ Step
  \/ Restart \/ FormatFails \/ TransferFails
  \/ \E n \in Names : BeginRead(n) \/ \E d \in Contents : BeginWrite(n, d)

Spec == Init /\ [][Next]_vars

\* The driver runs to the end of its call: nothing else has the CPU.
FairSpec == Spec /\ WF_vars(Step)

-------------------------------------------------------------------------------
(* Properties.                                                                *)

FatValues == Clusters \cup {FAT_FREE, FAT_EOC, BadEntry}
Chunks == UNION {{d[i] : i \in 1 .. Len(d)} : d \in Contents}

\* Every variable has its type; in particular no cluster beyond the disk is
\* ever allocated.
TypeOK ==
  /\ \A s \in Sectors : disk[s].type \in {"zero", "boot", "data", "fat", "dir"}
  /\ pc \in {"ata_test", "format", "idle", "find", "fat", "data", "next", "dir",
             "lookup", "read", "astray"}
  /\ op.name \in Names \cup {Nothing} /\ op.data \in Contents \cup {<<>>}
  /\ first \in Clusters \cup {0}
  /\ cluster \in FatValues
  /\ left \in Nat
  /\ \A i \in 1 .. Len(todo) : todo[i].cluster \in Clusters /\ todo[i].value \in FatValues
  /\ pos \in Nat
  /\ \A i \in 1 .. Len(out) : out[i] \in Chunks \cup {"pattern", "zero", "boot", "fat", "dir"}
  /\ formatted \in {"no", "ok", "failed"}
  /\ clean \in BOOLEAN
  /\ written \in [Names -> Contents \cup {Nothing}]

\* The directory as read_file sees it: places in the order of the scan.
RootSlots == (0 .. SECTORS_PER_CLUSTER - 1) \X DirSlots
EntryAt(p) == DirEntries(disk[RootSector(p[1])])[p[2]]
UsedSlots == {p \in RootSlots : EntryAt(p) # Unused}
Before(p, q) == p[1] < q[1] \/ (p[1] = q[1] /\ p[2] < q[2])

\* The first n clusters of the chain that starts at c.
Chain(c, n) ==
  LET link[i \in 1 .. n] ==
        IF i = 1 THEN c
        ELSE IF link[i - 1] \in Clusters THEN read_fat_entry(link[i - 1]) ELSE FAT_FREE
  IN link

ClustersFor(size) ==
  IF size = 0 THEN 1 ELSE (size + SECTORS_PER_CLUSTER - 1) \div SECTORS_PER_CLUSTER

ChainAt(p) == Chain(EntryAt(p).first, ClustersFor(EntryAt(p).size))
ClustersAt(p) == {ChainAt(p)[i] : i \in DOMAIN ChainAt(p)}

\* On a formatted disk every directory entry has its chain: as many different
\* clusters as its size needs, ended by the end mark, none of them the root's;
\* and no call ever follows a chain off its end.
ChainsSound ==
  formatted = "ok" =>
    /\ pc # "astray"
    /\ \A p \in UsedSlots :
         LET n == ClustersFor(EntryAt(p).size)
         IN /\ ClustersAt(p) \subseteq Clusters \ {ROOT_CLUSTER}
            /\ Cardinality(ClustersAt(p)) = n
            /\ read_fat_entry(ChainAt(p)[n]) = FAT_EOC

\* On a formatted disk no cluster belongs to two files, whatever calls failed
\* half-way before, nor to a file and the call under way.
NoCrossLink ==
  formatted = "ok" =>
    /\ \A p, q \in UsedSlots : p # q => ClustersAt(p) \cap ClustersAt(q) = {}
    /\ \A p \in UsedSlots : pc = "data" => cluster \notin ClustersAt(p)

\* As long as no write_file has failed, every cluster that is not free belongs
\* to the root or to a file: a successful write leaks nothing.
NoLeak ==
  (formatted = "ok" /\ clean /\ pc = "idle") =>
    \A c \in Clusters :
      read_fat_entry(c) # FAT_FREE =>
        c = ROOT_CLUSTER \/ \E p \in UsedSlots : c \in ClustersAt(p)

\* On a formatted disk the two copies of the FAT agree on every cluster of a file at any time,
\* whatever transfer failed between the copies of an entry before; and on every cluster whenever
\* no call is under way, as long as no write_file has failed.
CopiesAgree ==
  formatted = "ok" =>
    /\ \A p \in UsedSlots : \A c \in ClustersAt(p) : FatValue(0, c) = FatValue(1, c)
    /\ clean /\ pc = "idle" => \A c \in Clusters : FatValue(0, c) = FatValue(1, c)

\* On a formatted disk the regions of the layout keep their kinds of sector:
\* no file data and no directory in the FAT, no file data in the root.
RegionsKept ==
  formatted = "ok" =>
    /\ \A s \in FAT_START_SECTOR .. DATA_START_SECTOR - 1 : disk[s].type \in {"zero", "fat"}
    /\ \A s \in DATA_START_SECTOR .. DATA_START_SECTOR + SECTORS_PER_CLUSTER - 1 :
         disk[s].type \in {"zero", "dir"}
    /\ \A s \in DATA_START_SECTOR + SECTORS_PER_CLUSTER .. TOTAL_SECTORS - 1 :
         disk[s].type \in {"zero", "data"}

\* What the directory and the FAT on the disk say a name holds.
Visible(s) ==
  LET hits == {p \in UsedSlots : EntryAt(p).name = s}
  IN IF hits = {} THEN Nothing
     ELSE LET p == CHOOSE p \in hits : \A q \in hits : p = q \/ Before(p, q)
          IN [k \in 1 .. EntryAt(p).size |->
                Chunk(disk[SectorAt(ChainAt(p)[1 + ((k - 1) \div SECTORS_PER_CLUSTER)], k - 1)])]

\* On a formatted disk the driver is the store of FileStore: a file appears
\* whole or not at all, a read gives what the directory entry stands for, a
\* failed call changes no file.
Store == INSTANCE FileStore WITH
  files  <- [s \in ShortNames |-> IF formatted = "ok" THEN Visible(s) ELSE Nothing],
  usable <- formatted = "ok",
  reply  <- reply

StoreSpec == Store!FSSpec

\* Every call comes to an end.
CallsEnd == (pc \notin {"idle", "astray"}) ~> (pc \in {"idle", "astray"})

\* What the comments say and the code does not do: each is violated.

\* main.rs, of write_file and then read_file: what was written is read back.  On a formatted
\* disk, for a name that was written, a read that gives data gives what was written last.
ReadsBackWhatWasWritten ==
  (formatted = "ok" /\ reply.kind = "data" /\ written[reply.name] # Nothing)
    => reply.data = written[reply.name]

\* format.rs: FAT[2] is the root directory's chain, so no file is given it.
RootStaysReserved == first # ROOT_CLUSTER
==============================================================================
