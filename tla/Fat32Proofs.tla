----------------------------- MODULE Fat32Proofs -----------------------------
(***************************************************************************)
(* What the FAT32 driver keeps on a disk of any geometry, over errors in   *)
(* any transfer and restarts at any point: the arithmetic of the layout,   *)
(* the regions and the agreement of the copies of the FAT (IInv), the      *)
(* chains of clusters behind the directory's entries (ChainInv), and what  *)
(* the files contain (StoreInv), from which the driver implements          *)
(* FileStore.                                                              *)
(***************************************************************************)
EXTENDS Fat32, FiniteSetTheorems, SequenceTheorems, WellFoundedInduction, TLAPS

(***************************************************************************)
(* The arithmetic of the layout                                            *)
(***************************************************************************)

\* What \div and % are for natural numbers.
LEMMA Division ==
  ASSUME NEW a \in Nat, NEW n \in Nat \ {0}
  PROVE  /\ a \div n \in Nat
         /\ a % n \in 0 .. n - 1
         /\ a = n * (a \div n) + (a % n)
OBVIOUS

\* Counting i places into row a of rows of n stays before row b.
LEMMA RowOrder ==
  ASSUME NEW n \in Nat \ {0}, NEW a \in Nat, NEW b \in Nat, NEW i \in 0 .. n - 1, a < b
  PROVE  a * n + i < b * n
<1>1. PICK k \in Nat : b = a + 1 + k
  <2>1. b - a - 1 \in Nat
    OBVIOUS
  <2> QED BY <2>1
<1>2. b * n = a * n + n + k * n
  BY <1>1
<1>3. k * n >= 0
  OBVIOUS
<1> QED BY <1>2, <1>3

\* Two places in the same rows are the same only if row and offset are.
LEMMA RowUnique ==
  ASSUME NEW n \in Nat \ {0}, NEW a \in Nat, NEW b \in Nat,
         NEW i \in 0 .. n - 1, NEW j \in 0 .. n - 1, a * n + i = b * n + j
  PROVE  a = b /\ i = j
<1>1. ~(a < b)
  <2>1. a < b => a * n + i < b * n
    BY RowOrder
  <2> QED BY <2>1
<1>2. ~(b < a)
  <2>1. b < a => b * n + j < a * n
    BY RowOrder
  <2> QED BY <2>1
<1> QED BY <1>1, <1>2

\* The sizes of the regions.
LEMMA Sizes ==
  /\ FAT_START_SECTOR \in Nat /\ DATA_START_SECTOR \in Nat
  /\ DATA_START_SECTOR = FAT_START_SECTOR + 2 * SECTORS_PER_FAT
  /\ total_clusters \in Nat \ {0}
  /\ DATA_START_SECTOR + total_clusters * SECTORS_PER_CLUSTER <= TOTAL_SECTORS
<1>1. /\ FAT_START_SECTOR \in Nat /\ DATA_START_SECTOR \in Nat
      /\ DATA_START_SECTOR = FAT_START_SECTOR + 2 * SECTORS_PER_FAT
  BY LayoutAssumption DEF FAT_START_SECTOR, DATA_START_SECTOR, NUM_FATS
<1> DEFINE rest == TOTAL_SECTORS - DATA_START_SECTOR
<1>2. rest \in Nat /\ rest >= SECTORS_PER_CLUSTER
  BY <1>1, LayoutAssumption
<1>3. /\ total_clusters \in Nat
      /\ rest % SECTORS_PER_CLUSTER \in 0 .. SECTORS_PER_CLUSTER - 1
      /\ rest = SECTORS_PER_CLUSTER * total_clusters + (rest % SECTORS_PER_CLUSTER)
  BY <1>2, LayoutAssumption, Division DEF total_clusters
<1> HIDE DEF rest
<1>4. SECTORS_PER_CLUSTER * total_clusters <= rest
  <2>1. SECTORS_PER_CLUSTER * total_clusters \in Nat
    BY <1>3, LayoutAssumption
  <2> QED BY <2>1, <1>3, <1>2, LayoutAssumption
<1>5. total_clusters # 0
  <2> SUFFICES ASSUME total_clusters = 0 PROVE FALSE
    OBVIOUS
  <2>1. rest = rest % SECTORS_PER_CLUSTER
    BY <1>3, <1>2, LayoutAssumption
  <2> QED BY <2>1, <1>3, <1>2, LayoutAssumption
<1> QED BY <1>1, <1>2, <1>3, <1>4, <1>5, LayoutAssumption DEF rest

\* Every sector of every cluster lies in the data area and on the disk: a
\* cluster number that find_free_cluster returns never makes a transfer touch
\* the reserved sectors, a FAT copy, or the end of the disk.
THEOREM ClusterSectorsOnDisk ==
  \A c \in Clusters : \A i \in 0 .. SECTORS_PER_CLUSTER - 1 :
    cluster_to_sector(c) + i \in DATA_START_SECTOR .. TOTAL_SECTORS - 1
<1> SUFFICES ASSUME NEW c \in Clusters, NEW i \in 0 .. SECTORS_PER_CLUSTER - 1
             PROVE  cluster_to_sector(c) + i \in DATA_START_SECTOR .. TOTAL_SECTORS - 1
  OBVIOUS
<1> DEFINE row == c - 2
<1>1. row \in Nat /\ row < total_clusters
  BY Sizes DEF Clusters
<1>2. row * SECTORS_PER_CLUSTER \in Nat
  BY <1>1, LayoutAssumption
<1>3. row * SECTORS_PER_CLUSTER + i < total_clusters * SECTORS_PER_CLUSTER
  BY <1>1, Sizes, LayoutAssumption, RowOrder
<1>4. total_clusters * SECTORS_PER_CLUSTER \in Nat
  BY Sizes, LayoutAssumption
<1>5. cluster_to_sector(c) = DATA_START_SECTOR + row * SECTORS_PER_CLUSTER
  BY DEF cluster_to_sector
<1> HIDE DEF row
<1> QED BY <1>2, <1>3, <1>4, <1>5, Sizes, LayoutAssumption

\* Two clusters share no sector: writing one file's cluster cannot change
\* another's.
THEOREM ClusterSectorsDistinct ==
  \A c, d \in Clusters : \A i, j \in 0 .. SECTORS_PER_CLUSTER - 1 :
    cluster_to_sector(c) + i = cluster_to_sector(d) + j => c = d /\ i = j
<1> SUFFICES ASSUME NEW c \in Clusters, NEW d \in Clusters,
                    NEW i \in 0 .. SECTORS_PER_CLUSTER - 1,
                    NEW j \in 0 .. SECTORS_PER_CLUSTER - 1,
                    cluster_to_sector(c) + i = cluster_to_sector(d) + j
             PROVE  c = d /\ i = j
  OBVIOUS
<1>1. c - 2 \in Nat /\ d - 2 \in Nat
  BY Sizes DEF Clusters
<1>2. (c - 2) * SECTORS_PER_CLUSTER \in Nat /\ (d - 2) * SECTORS_PER_CLUSTER \in Nat
  BY <1>1, LayoutAssumption
<1>3. (c - 2) * SECTORS_PER_CLUSTER + i = (d - 2) * SECTORS_PER_CLUSTER + j
  BY <1>2, Sizes DEF cluster_to_sector
<1>4. c - 2 = d - 2 /\ i = j
  BY <1>1, <1>3, LayoutAssumption, RowUnique
<1> QED BY <1>4, Sizes DEF Clusters

\* The FAT entry of every cluster lies in the FAT copy it is meant for, before
\* the data area.
THEOREM FatSectorsInTheirCopy ==
  \A k \in {0, 1} : \A c \in Clusters :
    /\ FatSectorOf(k, c) \in FAT_START_SECTOR + k * SECTORS_PER_FAT
                          .. FAT_START_SECTOR + (k + 1) * SECTORS_PER_FAT - 1
    /\ FatSectorOf(k, c) < DATA_START_SECTOR
<1> SUFFICES ASSUME NEW k \in {0, 1}, NEW c \in Clusters
             PROVE  /\ FatSectorOf(k, c) \in FAT_START_SECTOR + k * SECTORS_PER_FAT
                                          .. FAT_START_SECTOR + (k + 1) * SECTORS_PER_FAT - 1
                    /\ FatSectorOf(k, c) < DATA_START_SECTOR
  OBVIOUS
<1> DEFINE s == c \div FatEntriesPerSector
<1>1. c \in Nat /\ c < SECTORS_PER_FAT * FatEntriesPerSector
  BY Sizes, LayoutAssumption DEF Clusters
<1>2. /\ s \in Nat
      /\ c = FatEntriesPerSector * s + (c % FatEntriesPerSector)
      /\ c % FatEntriesPerSector \in 0 .. FatEntriesPerSector - 1
  <2>1. FatEntriesPerSector \in Nat \ {0}
    BY LayoutAssumption
  <2> QED BY <1>1, <2>1, Division
<1> HIDE DEF s
<1>3. s < SECTORS_PER_FAT
  <2> SUFFICES ASSUME SECTORS_PER_FAT <= s PROVE FALSE
    BY <1>2, LayoutAssumption
  <2>1. FatEntriesPerSector * s <= c
    BY <1>2, LayoutAssumption
  <2>2. SECTORS_PER_FAT * FatEntriesPerSector <= FatEntriesPerSector * s
    <3>1. CASE s = SECTORS_PER_FAT
      BY <3>1, LayoutAssumption
    <3>2. CASE SECTORS_PER_FAT < s
      <4>1. SECTORS_PER_FAT * FatEntriesPerSector + 0 < s * FatEntriesPerSector
        BY <3>2, <1>2, LayoutAssumption, RowOrder
      <4> QED BY <4>1, <1>2, LayoutAssumption
    <3> QED BY <3>1, <3>2, <1>2, LayoutAssumption
  <2>3. SECTORS_PER_FAT * FatEntriesPerSector \in Nat /\ FatEntriesPerSector * s \in Nat
    BY <1>2, LayoutAssumption
  <2> QED BY <2>1, <2>2, <2>3, <1>1
<1>4. FatSectorOf(k, c) = FAT_START_SECTOR + k * SECTORS_PER_FAT + s
  BY DEF FatSectorOf, s
<1>5. CASE k = 0
  BY <1>5, <1>2, <1>3, <1>4, Sizes, LayoutAssumption
<1>6. CASE k = 1
  BY <1>6, <1>2, <1>3, <1>4, Sizes, LayoutAssumption
<1> QED BY <1>5, <1>6

\* Two clusters never share a FAT entry, so write_fat_entry changes the entry
\* of one cluster only.
THEOREM FatEntriesDistinct ==
  \A k \in {0, 1} : \A c, d \in Clusters :
    FatSectorOf(k, c) = FatSectorOf(k, d) /\ FatSlotOf(c) = FatSlotOf(d) => c = d
<1> SUFFICES ASSUME NEW k \in {0, 1}, NEW c \in Clusters, NEW d \in Clusters,
                    FatSectorOf(k, c) = FatSectorOf(k, d), FatSlotOf(c) = FatSlotOf(d)
             PROVE  c = d
  OBVIOUS
<1>1. c \in Nat /\ d \in Nat
  BY Sizes DEF Clusters
<1>2. /\ c \div FatEntriesPerSector \in Nat /\ d \div FatEntriesPerSector \in Nat
      /\ c = FatEntriesPerSector * (c \div FatEntriesPerSector) + (c % FatEntriesPerSector)
      /\ d = FatEntriesPerSector * (d \div FatEntriesPerSector) + (d % FatEntriesPerSector)
  <2>1. FatEntriesPerSector \in Nat \ {0}
    BY LayoutAssumption
  <2>2. /\ c \div FatEntriesPerSector \in Nat
        /\ c = FatEntriesPerSector * (c \div FatEntriesPerSector) + (c % FatEntriesPerSector)
    BY <1>1, <2>1, Division
  <2>3. /\ d \div FatEntriesPerSector \in Nat
        /\ d = FatEntriesPerSector * (d \div FatEntriesPerSector) + (d % FatEntriesPerSector)
    BY <1>1, <2>1, Division
  <2> QED BY <2>2, <2>3
<1>3. k * SECTORS_PER_FAT \in Nat
  BY LayoutAssumption
<1>4. c \div FatEntriesPerSector = d \div FatEntriesPerSector
  BY <1>2, <1>3, Sizes DEF FatSectorOf
<1>5. c % FatEntriesPerSector = d % FatEntriesPerSector
  BY DEF FatSlotOf
<1> QED BY <1>2, <1>4, <1>5

FatArea  == FAT_START_SECTOR .. DATA_START_SECTOR - 1
RootArea == DATA_START_SECTOR .. DATA_START_SECTOR + SECTORS_PER_CLUSTER - 1
FileArea == DATA_START_SECTOR + SECTORS_PER_CLUSTER .. TOTAL_SECTORS - 1

\* format() as numbers of sectors written: boot data, FAT zeroed, FAT begun, all.
BootDone  == 4
FatZeroed == BootDone + 2 * SECTORS_PER_FAT
FatBegun  == FatZeroed + 2
FormatLength == FatBegun + SECTORS_PER_CLUSTER

(***************************************************************************)
(* The layout                                                              *)
(***************************************************************************)

\* The three areas of the disk are disjoint, and boot data is in none of them.
LEMMA Areas ==
  /\ FatArea \subseteq Sectors /\ RootArea \subseteq Sectors /\ FileArea \subseteq Sectors
  /\ FatArea \cap RootArea = {} /\ FatArea \cap FileArea = {} /\ RootArea \cap FileArea = {}
  /\ \A s \in 0 .. 7 : s \in Sectors /\ s \notin FatArea \cup RootArea \cup FileArea
BY Sizes, LayoutAssumption DEF FatArea, RootArea, FileArea, Sectors, FAT_START_SECTOR

\* The root directory is at a cluster number that the disk has.
LEMMA RootIsACluster == ROOT_CLUSTER \in Clusters
BY Sizes DEF ROOT_CLUSTER, Clusters

\* The root's cluster is the first of the data area.
LEMMA RootSectors ==
  /\ \A i \in 0 .. SECTORS_PER_CLUSTER - 1 : cluster_to_sector(ROOT_CLUSTER) + i = DATA_START_SECTOR + i
  /\ \A i \in 0 .. SECTORS_PER_CLUSTER - 1 : cluster_to_sector(ROOT_CLUSTER) + i \in RootArea
<1>1. cluster_to_sector(ROOT_CLUSTER) = DATA_START_SECTOR
  BY Sizes, LayoutAssumption DEF cluster_to_sector, ROOT_CLUSTER
<1> QED BY <1>1, Sizes, LayoutAssumption DEF RootArea

\* The sectors of a cluster that is not the root's hold file data.
LEMMA FileSectors ==
  \A c \in Clusters \ {ROOT_CLUSTER} : \A i \in 0 .. SECTORS_PER_CLUSTER - 1 :
    cluster_to_sector(c) + i \in FileArea
<1> SUFFICES ASSUME NEW c \in Clusters, c # ROOT_CLUSTER, NEW i \in 0 .. SECTORS_PER_CLUSTER - 1
             PROVE  cluster_to_sector(c) + i \in FileArea
  OBVIOUS
<1> DEFINE s == cluster_to_sector(c) + i
<1>1. s \in DATA_START_SECTOR .. TOTAL_SECTORS - 1
  BY ClusterSectorsOnDisk
<1>2. s \notin RootArea
  <2> SUFFICES ASSUME s \in RootArea PROVE FALSE
    OBVIOUS
  <2>1. PICK j \in 0 .. SECTORS_PER_CLUSTER - 1 : s = DATA_START_SECTOR + j
    <3>0. s \in DATA_START_SECTOR .. TOTAL_SECTORS - 1
      BY <1>1
    <3> HIDE DEF s
    <3>1. s - DATA_START_SECTOR \in 0 .. SECTORS_PER_CLUSTER - 1
      BY <3>0, Sizes, LayoutAssumption DEF RootArea
    <3>2. s \in Int
      BY <3>0, Sizes, LayoutAssumption DEF RootArea
    <3> QED BY <3>1, <3>2, Sizes
  <2>2. cluster_to_sector(ROOT_CLUSTER) + j = cluster_to_sector(c) + i
    BY <2>1, RootSectors
  <2> QED BY <2>2, RootIsACluster, ClusterSectorsDistinct
<1> HIDE DEF s
<1>3. s \in FileArea
  BY <1>1, <1>2, Sizes, LayoutAssumption DEF RootArea, FileArea
<1> QED BY <1>3 DEF s

\* The entries of a cluster are at the same place of the two copies, in the FAT
\* area; the root's are in the first sector of each.
LEMMA FatPlaces ==
  \A c \in Clusters :
    /\ FatSlotOf(c) \in FatSlots
    /\ \A k \in {0, 1} : FatSectorOf(k, c) \in FatArea
    /\ FatSectorOf(0, c) \in FAT_START_SECTOR .. FAT_START_SECTOR + SECTORS_PER_FAT - 1
    /\ FatSectorOf(1, c) = FatSectorOf(0, c) + SECTORS_PER_FAT
    /\ c = ROOT_CLUSTER => FatSectorOf(0, c) = FAT_START_SECTOR /\ FatSlotOf(c) = 2
<1> SUFFICES ASSUME NEW c \in Clusters
             PROVE  /\ FatSlotOf(c) \in FatSlots
                    /\ \A k \in {0, 1} : FatSectorOf(k, c) \in FatArea
                    /\ FatSectorOf(0, c) \in FAT_START_SECTOR .. FAT_START_SECTOR + SECTORS_PER_FAT - 1
                    /\ FatSectorOf(1, c) = FatSectorOf(0, c) + SECTORS_PER_FAT
                    /\ c = ROOT_CLUSTER => FatSectorOf(0, c) = FAT_START_SECTOR /\ FatSlotOf(c) = 2
  OBVIOUS
<1>1. c \in Nat
  BY Sizes DEF Clusters
<1>2. c \div FatEntriesPerSector \in Nat /\ FatSlotOf(c) \in 0 .. FatEntriesPerSector - 1
  <2>1. FatEntriesPerSector \in Nat \ {0}
    BY LayoutAssumption
  <2> QED BY <1>1, <2>1, Division DEF FatSlotOf
<1>3. \A k \in {0, 1} : /\ FatSectorOf(k, c) \in FAT_START_SECTOR + k * SECTORS_PER_FAT
                                   .. FAT_START_SECTOR + (k + 1) * SECTORS_PER_FAT - 1
                        /\ FatSectorOf(k, c) < DATA_START_SECTOR
  BY FatSectorsInTheirCopy
<1>4. FatSectorOf(1, c) = FatSectorOf(0, c) + SECTORS_PER_FAT
  <2> DEFINE q == c \div FatEntriesPerSector
  <2>1. /\ FatSectorOf(0, c) = FAT_START_SECTOR + 0 * SECTORS_PER_FAT + q
        /\ FatSectorOf(1, c) = FAT_START_SECTOR + 1 * SECTORS_PER_FAT + q
    BY DEF FatSectorOf
  <2>2. q \in Nat
    BY <1>2
  <2> HIDE DEF q
  <2> QED BY <2>1, <2>2, Sizes, LayoutAssumption
<1>5. c = ROOT_CLUSTER => FatSectorOf(0, c) = FAT_START_SECTOR /\ FatSlotOf(c) = 2
  <2> SUFFICES ASSUME c = 2 PROVE FatSectorOf(0, c) = FAT_START_SECTOR /\ FatSlotOf(c) = 2
    BY DEF ROOT_CLUSTER
  <2>1. 2 \div FatEntriesPerSector = 0 /\ 2 % FatEntriesPerSector = 2
    BY LayoutAssumption
  <2> QED BY <2>1, Sizes, LayoutAssumption DEF FatSectorOf, FatSlotOf
<1>6. FatSectorOf(0, c) \in FAT_START_SECTOR .. FAT_START_SECTOR + SECTORS_PER_FAT - 1
  BY <1>3, Sizes, LayoutAssumption
<1>7. \A k \in {0, 1} : FatSectorOf(k, c) \in FatArea
  BY <1>3, <1>4, <1>6, Sizes, LayoutAssumption DEF FatArea
<1> QED BY <1>2, <1>4, <1>5, <1>6, <1>7 DEF FatSlots

(***************************************************************************)
(* The plan of format()                                                    *)
(***************************************************************************)

\* A sequence of m joined to one of n, by places counted in each.
Joins(r, s, m, t, n) ==
  /\ Len(r) = m + n
  /\ \A i \in 1 .. m : r[i] = s[i]
  /\ \A i \in 1 .. n : r[m + i] = t[i]

\* What two sequences joined hold.
LEMMA Joined ==
  ASSUME NEW T, NEW s \in Seq(T), NEW t \in Seq(T), NEW m \in Nat, NEW n \in Nat,
         Len(s) = m, Len(t) = n
  PROVE  s \o t \in Seq(T) /\ Joins(s \o t, s, m, t, n)
<1>1. /\ s \o t \in Seq(T)
      /\ Len(s \o t) = m + n
      /\ \A i \in 1 .. m + n : (s \o t)[i] = IF i <= m THEN s[i] ELSE t[i - m]
  BY ConcatProperties
<1>2. \A i \in 1 .. m : (s \o t)[i] = s[i]
  BY <1>1
<1>3. \A i \in 1 .. n : (s \o t)[m + i] = t[i]
  <2> TAKE i \in 1 .. n
  <2>1. m + i \in 1 .. m + n /\ ~(m + i <= m) /\ (m + i) - m = i
    OBVIOUS
  <2> QED BY <1>1, <2>1
<1> QED BY <1>1, <1>2, <1>3 DEF Joins

\* What format() writes, one sector at a time.
LEMMA WholePlan ==
  /\ Len(FormatPlan) = FormatLength
  /\ \A p \in 0 .. BootDone - 1 : FormatPlan[p + 1].sector \in 0 .. 7
  /\ \A p \in BootDone .. FatZeroed - 1 :
       FormatPlan[p + 1] = Transfer(FAT_START_SECTOR + (p - BootDone), Zero)
  /\ FormatPlan[FatZeroed + 1] = Transfer(FAT_START_SECTOR, FirstFatSector)
  /\ FormatPlan[FatZeroed + 2] = Transfer(FAT_START_SECTOR + SECTORS_PER_FAT, FirstFatSector)
  /\ \A p \in FatBegun .. FormatLength - 1 :
       FormatPlan[p + 1] = Transfer(DATA_START_SECTOR + (p - FatBegun), Zero)
  /\ FormatPlan \in Seq([sector : Int, value : {Zero, Boot, FirstFatSector}])
<1> DEFINE boots4 == <<Transfer(0, Boot), Transfer(6, Boot), Transfer(1, Boot), Transfer(7, Boot)>>
           zeros == [i \in 1 .. NUM_FATS * SECTORS_PER_FAT |-> Transfer(FAT_START_SECTOR + i - 1, Zero)]
           begins == [k \in 1 .. NUM_FATS |->
                        Transfer(FAT_START_SECTOR + (k - 1) * SECTORS_PER_FAT, FirstFatSector)]
           root == [i \in 1 .. SECTORS_PER_CLUSTER |->
                        Transfer(cluster_to_sector(ROOT_CLUSTER) + i - 1, Zero)]
           T == [sector : Int, value : {Zero, Boot, FirstFatSector}]
<1>0. cluster_to_sector(ROOT_CLUSTER) = DATA_START_SECTOR
  BY Sizes, LayoutAssumption DEF cluster_to_sector, ROOT_CLUSTER
<1>1. boots4 \in Seq(T) /\ Len(boots4) = 4 /\ \A i \in 1 .. 4 : boots4[i].sector \in 0 .. 7
  BY DEF Transfer
<1>2. zeros \in Seq(T) /\ Len(zeros) = 2 * SECTORS_PER_FAT
      /\ \A i \in 1 .. 2 * SECTORS_PER_FAT : zeros[i] = Transfer(FAT_START_SECTOR + i - 1, Zero)
  BY Sizes, LayoutAssumption DEF Transfer, NUM_FATS
<1>3. begins \in Seq(T) /\ Len(begins) = 2
      /\ begins[1] = Transfer(FAT_START_SECTOR, FirstFatSector)
      /\ begins[2] = Transfer(FAT_START_SECTOR + SECTORS_PER_FAT, FirstFatSector)
  BY Sizes, LayoutAssumption DEF Transfer, NUM_FATS
<1>4. root \in Seq(T) /\ Len(root) = SECTORS_PER_CLUSTER
      /\ \A i \in 1 .. SECTORS_PER_CLUSTER : root[i] = Transfer(DATA_START_SECTOR + i - 1, Zero)
  BY <1>0, Sizes, LayoutAssumption DEF Transfer
<1>5. FormatPlan = ((boots4 \o zeros) \o begins) \o root
  BY DEF FormatPlan
<1> HIDE DEF boots4, zeros, begins, root, T
<1> DEFINE P1 == boots4 \o zeros
           P2 == P1 \o begins
<1>6. P1 = boots4 \o zeros /\ P2 = P1 \o begins /\ FormatPlan = P2 \o root
  BY <1>5
<1> HIDE DEF P1, P2
<1>7. /\ P1 \in Seq(T) /\ Len(P1) = FatZeroed
      /\ \A i \in 1 .. 4 : P1[i] = boots4[i]
      /\ \A i \in 1 .. 2 * SECTORS_PER_FAT : P1[4 + i] = zeros[i]
  <2> DEFINE m == 4
             n == 2 * SECTORS_PER_FAT
  <2>1. m \in Nat /\ n \in Nat /\ Len(boots4) = m /\ Len(zeros) = n
    BY <1>1, <1>2, LayoutAssumption
  <2> HIDE DEF m, n
  <2>2. boots4 \in Seq(T) /\ zeros \in Seq(T)
    BY <1>1, <1>2
  <2>3. P1 \in Seq(T) /\ Joins(P1, boots4, m, zeros, n)
    BY <2>1, <2>2, <1>6, Joined
  <2> QED BY <2>3 DEF Joins, m, n, FatZeroed, BootDone
<1>8. /\ P2 \in Seq(T) /\ Len(P2) = FatBegun
      /\ \A i \in 1 .. FatZeroed : P2[i] = P1[i]
      /\ \A i \in 1 .. 2 : P2[FatZeroed + i] = begins[i]
  <2> DEFINE n == 2
  <2>1. FatZeroed \in Nat /\ n \in Nat /\ Len(begins) = n
    BY <1>3, LayoutAssumption DEF FatZeroed, BootDone
  <2> HIDE DEF n
  <2>2. P1 \in Seq(T) /\ begins \in Seq(T) /\ Len(P1) = FatZeroed
    BY <1>7, <1>3
  <2>3. P2 \in Seq(T) /\ Joins(P2, P1, FatZeroed, begins, n)
    BY <2>1, <2>2, <1>6, Joined
  <2> QED BY <2>3 DEF Joins, n, FatBegun
<1>9. /\ FormatPlan \in Seq(T) /\ Len(FormatPlan) = FormatLength
      /\ \A i \in 1 .. FatBegun : FormatPlan[i] = P2[i]
      /\ \A i \in 1 .. SECTORS_PER_CLUSTER : FormatPlan[FatBegun + i] = root[i]
  <2>1. FatBegun \in Nat /\ SECTORS_PER_CLUSTER \in Nat
    BY LayoutAssumption DEF FatBegun, FatZeroed, BootDone
  <2> DEFINE n == SECTORS_PER_CLUSTER
  <2>2. P2 \in Seq(T) /\ root \in Seq(T) /\ Len(P2) = FatBegun /\ Len(root) = n
    BY <1>8, <1>4
  <2>3. FormatPlan \in Seq(T) /\ Joins(FormatPlan, P2, FatBegun, root, n)
    BY <2>1, <2>2, <1>6, Joined
  <2> QED BY <2>3 DEF Joins, FormatLength
<1> QED
  <2> USE DEF FormatLength, FatBegun, FatZeroed, BootDone
  <2>1. \A p \in 0 .. 3 : FormatPlan[p + 1].sector \in 0 .. 7
    <3> TAKE p \in 0 .. 3
    <3>1. p + 1 \in 1 .. 4 /\ p + 1 \in 1 .. FatZeroed /\ p + 1 \in 1 .. FatBegun
      BY LayoutAssumption
    <3> QED BY <3>1, <1>1, <1>7, <1>8, <1>9
  <2>2. \A p \in BootDone .. FatZeroed - 1 :
          FormatPlan[p + 1] = Transfer(FAT_START_SECTOR + (p - BootDone), Zero)
    <3> TAKE p \in BootDone .. FatZeroed - 1
    <3>1. PICK i \in 1 .. 2 * SECTORS_PER_FAT : p + 1 = 4 + i /\ p = 3 + i
      <4>1. p - 3 \in 1 .. 2 * SECTORS_PER_FAT /\ p + 1 = 4 + (p - 3) /\ p = 3 + (p - 3)
        BY LayoutAssumption
      <4> QED BY <4>1
    <3>2. 4 + i \in 1 .. FatZeroed /\ 4 + i \in 1 .. FatBegun
      BY LayoutAssumption
    <3>3. FormatPlan[p + 1] = zeros[i]
      BY <3>1, <3>2, <1>7, <1>8, <1>9
    <3>4. FAT_START_SECTOR + i - 1 = FAT_START_SECTOR + (p - BootDone)
      BY <3>1, Sizes, LayoutAssumption
    <3> QED BY <1>2, <3>3, <3>4
  <2>3. /\ FormatPlan[FatZeroed + 1] = Transfer(FAT_START_SECTOR, FirstFatSector)
        /\ FormatPlan[FatZeroed + 2] = Transfer(FAT_START_SECTOR + SECTORS_PER_FAT, FirstFatSector)
    <3>1. FatZeroed + 1 \in 1 .. FatBegun /\ FatZeroed + 2 \in 1 .. FatBegun
      BY LayoutAssumption
    <3>2. /\ FormatPlan[FatZeroed + 1] = begins[1]
          /\ FormatPlan[FatZeroed + 2] = begins[2]
      <4> HIDE DEF FatZeroed, FatBegun
      <4> QED BY <3>1, <1>8, <1>9
    <3> QED BY <1>3, <3>2
  <2>4. \A p \in FatBegun .. FormatLength - 1 :
          FormatPlan[p + 1] = Transfer(DATA_START_SECTOR + (p - FatBegun), Zero)
    <3> TAKE p \in FatBegun .. FormatLength - 1
    <3> HIDE DEF FatBegun
    <3>0. FatBegun \in Nat
      BY LayoutAssumption DEF FatBegun
    <3>1. PICK i \in 1 .. SECTORS_PER_CLUSTER : p + 1 = FatBegun + i /\ p - FatBegun = i - 1
      <4>1. /\ (p - FatBegun) + 1 \in 1 .. SECTORS_PER_CLUSTER
            /\ p + 1 = FatBegun + ((p - FatBegun) + 1)
            /\ p - FatBegun = ((p - FatBegun) + 1) - 1
        BY <3>0, LayoutAssumption
      <4> QED BY <4>1
    <3>2. FormatPlan[p + 1] = root[i]
      BY <3>1, <1>9
    <3>3. DATA_START_SECTOR + i - 1 = DATA_START_SECTOR + (p - FatBegun)
      BY <3>1, Sizes
    <3> QED BY <1>4, <3>2, <3>3
  <2>5. FormatPlan \in Seq([sector : Int, value : {Zero, Boot, FirstFatSector}])
    BY <1>9 DEF T
  <2> QED BY <1>9, <2>1, <2>2, <2>3, <2>4, <2>5

\* The same without the types.
LEMMA Plan ==
  /\ Len(FormatPlan) = FormatLength
  /\ \A p \in 0 .. BootDone - 1 : FormatPlan[p + 1].sector \in 0 .. 7
  /\ \A p \in BootDone .. FatZeroed - 1 :
       FormatPlan[p + 1] = Transfer(FAT_START_SECTOR + (p - BootDone), Zero)
  /\ FormatPlan[FatZeroed + 1] = Transfer(FAT_START_SECTOR, FirstFatSector)
  /\ FormatPlan[FatZeroed + 2] = Transfer(FAT_START_SECTOR + SECTORS_PER_FAT, FirstFatSector)
  /\ \A p \in FatBegun .. FormatLength - 1 :
       FormatPlan[p + 1] = Transfer(DATA_START_SECTOR + (p - FatBegun), Zero)
BY WholePlan

(***************************************************************************)
(* The inductive invariant                                                 *)
(***************************************************************************)

\* What a FAT sector may hold, and the writes write_fat_entry is made of.
FatContents == {Zero} \union {Fat(e) : e \in [FatSlots -> Int]}
FatWrites == [copy : {0, 1}, cluster : Clusters, value : Clusters \union {FAT_EOC}]

\* The regions, also while the disk is not formatted.
DiskKept ==
  /\ DOMAIN disk = Sectors
  /\ \A s \in FatArea : disk[s] \in FatContents
  /\ \A s \in FileArea : disk[s].type \in {"zero", "data"}
  /\ formatted = "ok" => \A s \in RootArea : disk[s].type \in {"zero", "dir"}

\* What is on a disk d once format() has made p writes.
Begun(i, p) == (i = 0 /\ p > FatZeroed) \/ (i = SECTORS_PER_FAT /\ p > FatZeroed + 1)

FatPart(d, p) ==
  \A i \in 0 .. 2 * SECTORS_PER_FAT - 1 :
    p > BootDone + i =>
      d[FAT_START_SECTOR + i] = IF Begun(i, p) THEN FirstFatSector ELSE Zero

RootPart(d, p) ==
  \A i \in 0 .. SECTORS_PER_CLUSTER - 1 : p > FatBegun + i => d[DATA_START_SECTOR + i] = Zero

FormatProgress ==
  pc = "format" => pos < FormatLength /\ FatPart(disk, pos) /\ RootPart(disk, pos)

\* What the local variables hold at each place of the calls.
Control ==
  /\ formatted \in {"no", "ok", "failed"} /\ clean \in BOOLEAN
  /\ formatted = "no" <=> pc \in {"ata_test", "format"}
  /\ pos \in Nat
  /\ pc \in {"ata_test", "idle", "find", "fat"} => pos = 0
  /\ pc \in {"dir", "lookup"} => pos < SECTORS_PER_CLUSTER
  /\ first \in Clusters \union {0}
  /\ pc \in {"ata_test", "format", "idle"} => first = 0
  /\ pc = "fat" => first # 0
  /\ pc = "find" /\ first # 0 => cluster \in Clusters
  /\ pc \in {"fat", "data", "next", "read"} => cluster \in Clusters

\* The entry writes still to do: each goes to copy 0, then to copy 1.
WritesPaired ==
  /\ todo \in Seq(FatWrites)
  /\ todo # <<>> <=> pc = "fat"
  /\ \A i \in 1 .. Len(todo) :
       todo[i].copy = 0 =>
         /\ i < Len(todo)
         /\ todo[i + 1].copy = 1
         /\ todo[i + 1].cluster = todo[i].cluster /\ todo[i + 1].value = todo[i].value
  /\ \A i \in 1 .. Len(todo) - 1 : todo[i].copy = 1 => todo[i + 1].copy = 0

\* The root's cluster is not free and nothing links to it.
RootReserved ==
  formatted = "ok" =>
    /\ first # ROOT_CLUSTER
    /\ pc = "data" => cluster # ROOT_CLUSTER
    /\ read_fat_entry(ROOT_CLUSTER) # FAT_FREE
    /\ \A c \in Clusters : read_fat_entry(c) # ROOT_CLUSTER
    /\ \A i \in 1 .. Len(todo) : todo[i].value # ROOT_CLUSTER

SecondCopyDue == todo # <<>> /\ todo[1].copy = 1

\* Both copies of the FAT say the same of a cluster, or the second of two writes
\* for it is due.
Same(c) == FatValue(0, c) = FatValue(1, c)
Mirrored(c) == Same(c) \/ (SecondCopyDue /\ todo[1].cluster = c)

\* The copies differ at most where the second write is due, or was when a call
\* failed; never on a free cluster.
CopiesPaired ==
  formatted = "ok" =>
    /\ clean => \A c \in Clusters : Mirrored(c)
    /\ SecondCopyDue => FatValue(0, todo[1].cluster) = todo[1].value
    /\ \A c \in Clusters : FatValue(0, c) = FAT_FREE => Same(c)

IInv ==
  DiskKept /\ FormatProgress /\ Control /\ WritesPaired /\ RootReserved /\ CopiesPaired

\* The invariant holds at the start.
LEMMA InitIInv == Init => IInv
<1> SUFFICES ASSUME Init PROVE IInv
  OBVIOUS
<1> USE DEF Init
<1>1. DiskKept
  BY Areas, Zenon DEF DiskKept, FatContents, Zero
<1>2. FormatProgress /\ RootReserved /\ CopiesPaired
  BY DEF FormatProgress, RootReserved, CopiesPaired
<1>3. Control
  BY DEF Control
<1>4. WritesPaired
  BY DEF WritesPaired
<1> QED BY <1>1, <1>2, <1>3, <1>4 DEF IInv

\* The invariant gives the property of the regions, and that of the copies where no
\* call is under way and none has failed.
LEMMA IInvShows ==
  IInv => RegionsKept /\ (formatted = "ok" /\ clean /\ pc = "idle" => \A c \in Clusters : Same(c))
<1> SUFFICES ASSUME IInv
             PROVE  /\ RegionsKept
                    /\ formatted = "ok" /\ clean /\ pc = "idle" => \A c \in Clusters : Same(c)
  OBVIOUS
<1>1. RegionsKept
  <2> SUFFICES ASSUME formatted = "ok" PROVE RegionsKept!2
    BY DEF RegionsKept
  <2>1. \A s \in FatArea : disk[s].type \in {"zero", "fat"}
    <3> TAKE s \in FatArea
    <3>1. disk[s] \in FatContents
      BY DEF IInv, DiskKept
    <3>2. CASE disk[s] = Zero
      BY <3>2 DEF Zero
    <3>3. CASE \E e \in [FatSlots -> Int] : disk[s] = Fat(e)
      BY <3>3 DEF Fat
    <3> QED BY <3>1, <3>2, <3>3 DEF FatContents
  <2> QED BY <2>1 DEF IInv, DiskKept, FatArea, RootArea, FileArea
<1>2. formatted = "ok" /\ clean /\ pc = "idle" => \A c \in Clusters : Same(c)
  BY DEF IInv, CopiesPaired, Mirrored, SecondCopyDue, WritesPaired
<1> QED BY <1>1, <1>2

(***************************************************************************)
(* What a step does to the FAT                                             *)
(***************************************************************************)

\* A sector of the FAT holds numbers.
LEMMA FatEntriesType ==
  ASSUME NEW x \in FatContents
  PROVE  FatEntries(x) \in [FatSlots -> Int]
<1>1. CASE x = Zero
  BY <1>1 DEF FatEntries, Zero, FAT_FREE
<1>2. CASE \E e \in [FatSlots -> Int] : x = Fat(e)
  BY <1>2 DEF FatEntries, Fat
<1> QED BY <1>1, <1>2 DEF FatContents

\* A step that leaves the FAT's sectors leaves its entries.
LEMMA FatKept ==
  ASSUME \A s \in FatArea : disk'[s] = disk[s]
  PROVE  \A k \in {0, 1} : \A c \in Clusters : FatValue(k, c)' = FatValue(k, c)
<1> TAKE k \in {0, 1}
<1> TAKE c \in Clusters
<1>1. disk'[FatSectorOf(k, c)] = disk[FatSectorOf(k, c)]
  BY FatPlaces
<1> QED BY <1>1 DEF FatValue

\* One write of write_fat_entry changes the one entry in the one copy.
LEMMA FatEntryWritten ==
  ASSUME DiskKept, NEW w \in FatWrites, disk' = WithFatEntry(w)
  PROVE  /\ DOMAIN disk' = Sectors
         /\ \A s \in FatArea : disk'[s] \in FatContents
         /\ \A s \in Sectors \ FatArea : disk'[s] = disk[s]
         /\ \A k \in {0, 1} : \A c \in Clusters :
              FatValue(k, c)' = IF k = w.copy /\ c = w.cluster THEN w.value ELSE FatValue(k, c)
<1> DEFINE s == FatSectorOf(w.copy, w.cluster)
           old == FatEntries(disk[s])
           new == [old EXCEPT ![FatSlotOf(w.cluster)] = w.value]
<1>1. /\ w.copy \in {0, 1} /\ w.cluster \in Clusters /\ w.value \in Int
      /\ s \in FatArea /\ s \in Sectors /\ FatSlotOf(w.cluster) \in FatSlots
  BY FatPlaces, Areas, Sizes DEF FatWrites, Clusters, FAT_EOC
<1>2. old \in [FatSlots -> Int] /\ new \in [FatSlots -> Int]
  <2>1. old \in [FatSlots -> Int]
    BY <1>1, FatEntriesType DEF DiskKept
  <2> QED BY <2>1, <1>1
<1>3. disk' = [disk EXCEPT ![s] = Fat(new)]
  BY DEF WithFatEntry
<1>4. Fat(new) \in FatContents /\ FatEntries(Fat(new)) = new
  <2> HIDE DEF new
  <2> QED BY <1>2 DEF FatContents, FatEntries, Fat
<1>5. /\ DOMAIN disk' = Sectors /\ disk'[s] = Fat(new)
      /\ \A z \in Sectors : z # s => disk'[z] = disk[z]
  <2> HIDE DEF new, s
  <2> QED BY <1>1, <1>3 DEF DiskKept
<1>6. \A z \in FatArea : disk'[z] \in FatContents
  BY <1>4, <1>5, Areas DEF DiskKept
<1>7. ASSUME NEW k \in {0, 1}, NEW c \in Clusters
      PROVE  FatValue(k, c)' = IF k = w.copy /\ c = w.cluster THEN w.value ELSE FatValue(k, c)
  <2> DEFINE z == FatSectorOf(k, c)
  <2>1. /\ z \in FatArea /\ z \in Sectors /\ FatSlotOf(c) \in FatSlots
        /\ FatValue(k, c)' = FatEntries(disk'[z])[FatSlotOf(c)]
        /\ FatValue(k, c) = FatEntries(disk[z])[FatSlotOf(c)]
    BY FatPlaces, Areas DEF FatValue
  <2>2. CASE z # s
    <3>1. ~(k = w.copy /\ c = w.cluster)
      BY <2>2
    <3> HIDE DEF z, s
    <3> QED BY <3>1, <2>1, <2>2, <1>5
  <2>3. CASE z = s
    <3>1. FatValue(k, c)' = new[FatSlotOf(c)]
      <4> HIDE DEF z, s, new
      <4> QED BY <2>1, <2>3, <1>5, <1>4
    <3>2. FatValue(k, c) = old[FatSlotOf(c)]
      BY <2>1, <2>3
    <3>3. k = w.copy
      <4>1. /\ FatSectorOf(1, c) = FatSectorOf(0, c) + SECTORS_PER_FAT
            /\ FatSectorOf(1, w.cluster) = FatSectorOf(0, w.cluster) + SECTORS_PER_FAT
            /\ FatSectorOf(0, c) \in FAT_START_SECTOR .. FAT_START_SECTOR + SECTORS_PER_FAT - 1
            /\ FatSectorOf(0, w.cluster)
                 \in FAT_START_SECTOR .. FAT_START_SECTOR + SECTORS_PER_FAT - 1
        BY <1>1, FatPlaces
      <4>2. FatSectorOf(0, c) # FatSectorOf(1, w.cluster)
        BY <4>1, Sizes, LayoutAssumption
      <4>3. FatSectorOf(1, c) # FatSectorOf(0, w.cluster)
        BY <4>1, Sizes, LayoutAssumption
      <4> QED BY <4>2, <4>3, <2>3, <1>1
    <3>4. FatSlotOf(c) = FatSlotOf(w.cluster) => c = w.cluster
      BY <3>3, <2>3, <1>1, FatEntriesDistinct
    <3>5. new[FatSlotOf(c)] = IF FatSlotOf(c) = FatSlotOf(w.cluster) THEN w.value
                              ELSE old[FatSlotOf(c)]
      <4> HIDE DEF old
      <4> QED BY <1>2, <2>1
    <3> HIDE DEF new, old
    <3> QED BY <3>1, <3>2, <3>3, <3>4, <3>5
  <2> QED BY <2>2, <2>3
<1> QED BY <1>1, <1>5, <1>6, <1>7

(***************************************************************************)
(* Steps that do not touch the FAT                                         *)
(***************************************************************************)

\* The step keeps the regions and does not write to the FAT.
FatSpared == DiskKept' /\ formatted' = formatted /\ \A s \in FatArea : disk'[s] = disk[s]

\* A step that leaves the disk alone leaves the FAT alone.
LEMMA DiskSpared ==
  ASSUME IInv, UNCHANGED <<disk, formatted>>
  PROVE  FatSpared
BY DEF IInv, DiskKept, FatSpared

\* The end of a call: what is left to show is that no second copy was due.
LEMMA Returns ==
  ASSUME IInv, NEW kind, NEW d, Return(kind, d), FatSpared,
         pc \notin {"ata_test", "format"}, clean' \in BOOLEAN,
         clean' => clean /\ pc # "fat"
  PROVE  IInv'
<1> USE DEF Return, ClearLocals, FatSpared
<1>1. \A k \in {0, 1} : \A c \in Clusters : FatValue(k, c)' = FatValue(k, c)
  BY FatKept
<1>2. DiskKept' /\ FormatProgress'
  BY DEF FormatProgress
<1>3. Control'
  BY LayoutAssumption DEF IInv, Control
<1>4. WritesPaired'
  BY DEF WritesPaired
<1>5. RootReserved'
  BY <1>1, RootIsACluster DEF IInv, RootReserved, read_fat_entry, ROOT_CLUSTER
<1>6. CopiesPaired'
  BY <1>1 DEF IInv, CopiesPaired, Mirrored, Same, SecondCopyDue, WritesPaired
<1> QED BY <1>2, <1>3, <1>4, <1>5, <1>6 DEF IInv

\* The restart of the machine keeps the invariant.
LEMMA Restarts == IInv /\ Restart => IInv'
<1> SUFFICES ASSUME IInv, Restart PROVE IInv'
  OBVIOUS
<1> USE DEF Restart, ClearLocals
<1>1. DiskKept' /\ FormatProgress'
  BY DEF IInv, DiskKept, FormatProgress
<1>2. Control'
  BY DEF Control
<1>3. WritesPaired'
  BY DEF WritesPaired
<1>4. RootReserved' /\ CopiesPaired'
  BY DEF RootReserved, CopiesPaired
<1> QED BY <1>1, <1>2, <1>3, <1>4 DEF IInv

\* So does a failed format().
LEMMA FormatFailing == IInv /\ FormatFails => IInv'
<1> SUFFICES ASSUME IInv, FormatFails PROVE IInv'
  OBVIOUS
<1> USE DEF FormatFails
<1>1. DiskKept' /\ FormatProgress'
  BY DEF IInv, DiskKept, FormatProgress
<1>2. Control'
  BY DEF IInv, Control
<1>3. WritesPaired'
  BY DEF IInv, WritesPaired
<1>4. RootReserved' /\ CopiesPaired'
  BY DEF RootReserved, CopiesPaired
<1> QED BY <1>1, <1>2, <1>3, <1>4 DEF IInv

\* A step of a call that leaves disk and todo alone and stays in the call.
LEMMA Moves ==
  ASSUME IInv, FatSpared, UNCHANGED <<todo, clean, first>>, Control',
         pc \notin {"fat", "ata_test", "format"}, pc' \notin {"fat", "ata_test", "format"},
         formatted = "ok" /\ pc' = "data" => cluster' # ROOT_CLUSTER
  PROVE  IInv'
<1>1. \A k \in {0, 1} : \A c \in Clusters : FatValue(k, c)' = FatValue(k, c)
  BY FatKept DEF FatSpared
<1>2. DiskKept' /\ FormatProgress'
  BY DEF FatSpared, FormatProgress
<1>3. WritesPaired'
  BY DEF IInv, WritesPaired
<1>4. RootReserved'
  BY <1>1, RootIsACluster DEF IInv, RootReserved, read_fat_entry, FatSpared
<1>5. CopiesPaired'
  BY <1>1 DEF IInv, CopiesPaired, Mirrored, Same, FatSpared, SecondCopyDue, WritesPaired
<1> QED BY <1>2, <1>3, <1>4, <1>5 DEF IInv

\* So does the beginning of a call.
LEMMA Begins == ASSUME IInv, NEW n, NEW d, BeginRead(n) \/ BeginWrite(n, d) PROVE IInv'
<1> USE DEF BeginRead, BeginWrite, BeginCall, history
<1>1. Control'
  BY LayoutAssumption DEF IInv, Control
<1>2. FatSpared
  BY DiskSpared
<1> QED BY <1>1, <1>2, Moves

\* So does a round of read_file's scan.
LEMMA LookupKeeps == IInv /\ Lookup => IInv'
<1> SUFFICES ASSUME IInv, Lookup PROVE IInv'
  OBVIOUS
<1>1. UNCHANGED <<disk, formatted, clean>> /\ pc = "lookup"
  BY DEF Lookup, history
<1>2. CASE \E kind, d : Return(kind, d)
  BY <1>1, <1>2, DiskSpared, Returns DEF IInv, Control
<1>3. CASE ~ \E kind, d : Return(kind, d)
  <2> DEFINE es == DirEntries(disk[RootSector(pos)])
             e == es[Min(Matches(es, ShortName[op.name]))]
  <2>1. /\ UNCHANGED <<todo, first>>
        /\ \/ pos + 1 < SECTORS_PER_CLUSTER /\ pos' = pos + 1 /\ UNCHANGED <<pc, cluster>>
           \/ /\ cluster' = e.first /\ pos' = 0
              /\ pc' = IF e.first \in Clusters THEN "read" ELSE "astray"
    BY <1>3, Zenon DEF Lookup
  <2> HIDE DEF e
  <2>2. Control'
    BY <1>1, <2>1 DEF IInv, Control
  <2> QED BY <1>1, <2>1, <2>2, DiskSpared, Moves
<1> QED BY <1>2, <1>3

\* So does the reading of a sector.
LEMMA DataReadKeeps == IInv /\ DataRead => IInv'
<1> SUFFICES ASSUME IInv, DataRead PROVE IInv'
  OBVIOUS
<1>1. UNCHANGED <<disk, formatted, clean>> /\ pc = "read"
  BY DEF DataRead, history
<1>2. CASE \E kind, d : Return(kind, d)
  BY <1>1, <1>2, DiskSpared, Returns DEF IInv, Control
<1>3. CASE ~ \E kind, d : Return(kind, d)
  <2>1. /\ UNCHANGED <<todo, first, cluster>> /\ pos' = pos + 1
        /\ pc' = "next" \/ pc' = "read"
    BY <1>3, Zenon DEF DataRead
  <2>2. Control'
    BY <1>1, <2>1 DEF IInv, Control
  <2> QED BY <1>1, <2>1, <2>2, DiskSpared, Moves
<1> QED BY <1>2, <1>3

\* So does the step along a chain.
LEMMA NextClusterKeeps == IInv /\ NextCluster => IInv'
<1> SUFFICES ASSUME IInv, NextCluster PROVE IInv'
  OBVIOUS
<1>1. /\ UNCHANGED <<disk, todo, formatted, clean, first, pos>> /\ pc = "next"
      /\ cluster' = read_fat_entry(cluster)
      /\ pc' \in {"astray", "read", "data"} /\ (pc' # "astray" => cluster' \in Clusters)
  BY DEF NextCluster, history
<1>2. Control'
  BY <1>1 DEF IInv, Control
<1>3. formatted = "ok" => cluster' # ROOT_CLUSTER
  BY <1>1 DEF IInv, RootReserved, Control
<1> QED BY <1>1, <1>2, <1>3, DiskSpared, Moves

\* So does a failed transfer.
LEMMA TransferFailing == IInv /\ TransferFails => IInv'
<1> SUFFICES ASSUME IInv, TransferFails PROVE IInv'
  OBVIOUS
<1>1. Return("error", Nothing) /\ UNCHANGED <<disk, formatted>>
      /\ pc \notin {"ata_test", "format"} /\ clean' = (clean /\ first = 0)
  BY DEF TransferFails
<1>2. clean' \in BOOLEAN /\ (clean' => clean /\ pc # "fat")
  BY <1>1 DEF IInv, Control
<1> QED BY <1>1, <1>2, DiskSpared, Returns

\* So does a full disk.
LEMMA FindFullKeeps == IInv /\ FindFull => IInv'
BY DiskSpared, Returns DEF FindFull

\* A set of numbers has a least member.
LEMMA LeastNumber ==
  ASSUME NEW S, S \subseteq Nat, S # {}
  PROVE  \E x \in S : \A y \in S : x <= y
<1> DEFINE Smaller == OpToRel(<, Nat)
<1>1. Smaller = {ss \in Nat \X Nat : ss[1] < ss[2]}
  BY Zenon DEF OpToRel
<1>2. \E x \in S : \A y \in S : <<y, x>> \notin Smaller
  BY NatLessThanWellFounded, WFMin
<1> HIDE DEF Smaller
<1>3. \A x, y \in Nat : <<y, x>> \notin Smaller => x <= y
  BY <1>1
<1> QED BY <1>2, <1>3

\* Min gives it.
LEMMA LeastIsMember ==
  ASSUME NEW S, S \subseteq Nat, S # {}
  PROVE  Min(S) \in S
<1>1. \E x \in S : \A y \in S : x <= y
  BY LeastNumber
<1> QED BY <1>1 DEF Min

\* Two pairs joined.
LEMMA PairsJoined ==
  ASSUME NEW S, NEW a \in S, NEW b \in S, NEW c \in S, NEW d \in S
  PROVE  <<a, b>> \o <<c, d>> = <<a, b, c, d>>
<1> DEFINE s == <<a, b>>
           t == <<c, d>>
           r == <<a, b, c, d>>
<1>1. s \in Seq(S) /\ t \in Seq(S) /\ r \in Seq(S) /\ Len(s) = 2 /\ Len(t) = 2 /\ Len(r) = 4
  OBVIOUS
<1>2. /\ s \o t \in Seq(S)
      /\ Len(s \o t) = 4
      /\ \A i \in 1 .. 4 : (s \o t)[i] = IF i <= 2 THEN s[i] ELSE t[i - 2]
  BY <1>1, ConcatProperties
<1>3. \A i \in 1 .. 4 : (s \o t)[i] = r[i]
  BY <1>2
<1> HIDE DEF s, t, r
<1>4. s \o t = r
  BY <1>1, <1>2, <1>3, SeqEqual
<1> QED BY <1>4 DEF s, t, r

\* A free cluster is not the root's, and what is to be written for it comes in
\* pairs of copies.
LEMMA FindFreeKeeps == IInv /\ FindFree => IInv'
<1> SUFFICES ASSUME IInv, FindFree PROVE IInv'
  OBVIOUS
<1> DEFINE c == Min(FreeClusters)
<1>1. /\ UNCHANGED <<disk, pos, formatted, clean>> /\ pc = "find" /\ pc' = "fat"
      /\ FreeClusters # {}
      /\ todo' = IF first = 0 THEN write_fat_entry(c, FAT_EOC)
                 ELSE write_fat_entry(cluster, c) \o write_fat_entry(c, FAT_EOC)
      /\ first' = IF first = 0 THEN c ELSE first
      /\ cluster' = c
  BY DEF FindFree, history
<1>2. c \in Clusters /\ read_fat_entry(c) = FAT_FREE
  <2>1. c \in FreeClusters
    <3>1. FreeClusters \subseteq Nat
      BY Sizes DEF FreeClusters, Clusters
    <3> QED BY <1>1, <3>1, LeastIsMember
  <2> QED BY <2>1 DEF FreeClusters
<1> HIDE DEF c
<1>3. c # 0 /\ (formatted = "ok" => c # ROOT_CLUSTER)
  BY <1>2, Sizes DEF IInv, RootReserved, Clusters
<1>4. \A x, v : write_fat_entry(x, v) =
        <<[copy |-> 0, cluster |-> x, value |-> v], [copy |-> 1, cluster |-> x, value |-> v]>>
  BY DEF write_fat_entry, NUM_FATS
<1> DEFINE W(k, x, v) == [copy |-> k, cluster |-> x, value |-> v]
<1>5. ASSUME first = 0
      PROVE  /\ WritesPaired' /\ todo'[1].copy = 0 /\ Len(todo') > 0
             /\ \A i \in 1 .. Len(todo') : todo'[i].value \in {c, FAT_EOC}
  <2>1. todo' = <<W(0, c, FAT_EOC), W(1, c, FAT_EOC)>>
    BY <1>1, <1>4, <1>5
  <2>2. W(0, c, FAT_EOC) \in FatWrites /\ W(1, c, FAT_EOC) \in FatWrites
    BY <1>2 DEF FatWrites
  <2>3. /\ Len(todo') = 2 /\ todo' \in Seq(FatWrites)
        /\ todo'[1] = W(0, c, FAT_EOC) /\ todo'[2] = W(1, c, FAT_EOC)
    <3> HIDE DEF W
    <3> QED BY <2>1, <2>2
  <2>4. \A i \in 1 .. Len(todo') : todo'[i].value \in {c, FAT_EOC}
    BY <2>3
  <2>5. WritesPaired'
    BY <1>1, <2>3 DEF WritesPaired
  <2> QED BY <2>3, <2>4, <2>5
<1>6. ASSUME first # 0
      PROVE  /\ WritesPaired' /\ todo'[1].copy = 0 /\ Len(todo') > 0
             /\ \A i \in 1 .. Len(todo') : todo'[i].value \in {c, FAT_EOC}
  <2>0. cluster \in Clusters
    BY <1>1, <1>6 DEF IInv, Control
  <2>1. todo' = <<W(0, cluster, c), W(1, cluster, c), W(0, c, FAT_EOC), W(1, c, FAT_EOC)>>
    <3> DEFINE S == [copy : {0, 1}, cluster : Clusters, value : Clusters \union {FAT_EOC}]
    <3>1. /\ W(0, cluster, c) \in S /\ W(1, cluster, c) \in S
          /\ W(0, c, FAT_EOC) \in S /\ W(1, c, FAT_EOC) \in S
      BY <1>2, <2>0
    <3>2. todo' = <<W(0, cluster, c), W(1, cluster, c)>> \o <<W(0, c, FAT_EOC), W(1, c, FAT_EOC)>>
      BY <1>1, <1>4, <1>6
    <3> HIDE DEF S, W
    <3> QED BY <3>1, <3>2, PairsJoined
  <2>2. /\ W(0, cluster, c) \in FatWrites /\ W(1, cluster, c) \in FatWrites
        /\ W(0, c, FAT_EOC) \in FatWrites /\ W(1, c, FAT_EOC) \in FatWrites
    BY <1>2, <2>0 DEF FatWrites
  <2>3. /\ Len(todo') = 4 /\ todo' \in Seq(FatWrites)
        /\ todo'[1] = W(0, cluster, c) /\ todo'[2] = W(1, cluster, c)
        /\ todo'[3] = W(0, c, FAT_EOC) /\ todo'[4] = W(1, c, FAT_EOC)
    <3> HIDE DEF W
    <3> QED BY <2>1, <2>2
  <2>4. \A i \in 1 .. Len(todo') : todo'[i].value \in {c, FAT_EOC}
    BY <2>3
  <2>5. \A i \in 1 .. 4 : todo'[i].copy = 0 =>
          /\ i < 4 /\ todo'[i + 1].copy = 1
          /\ todo'[i + 1].cluster = todo'[i].cluster /\ todo'[i + 1].value = todo'[i].value
    <3> TAKE i \in 1 .. 4
    <3>1. i = 1 \/ i = 2 \/ i = 3 \/ i = 4
      OBVIOUS
    <3> QED BY <2>3, <3>1
  <2>6. \A i \in 1 .. 3 : todo'[i].copy = 1 => todo'[i + 1].copy = 0
    <3> TAKE i \in 1 .. 3
    <3>1. i = 1 \/ i = 2 \/ i = 3
      OBVIOUS
    <3> QED BY <2>3, <3>1
  <2>7. WritesPaired'
    <3> HIDE DEF W
    <3>1. Len(todo') = 4 /\ Len(todo') - 1 = 3 /\ todo' # <<>>
      <4>1. Len(todo') = 4 /\ todo' \in Seq(FatWrites)
        BY <2>3
      <4> QED BY <4>1
    <3> QED BY <1>1, <2>3, <2>5, <2>6, <3>1, Zenon DEF WritesPaired
  <2> QED BY <2>3, <2>4, <2>7
<1>7. WritesPaired' /\ todo'[1].copy = 0 /\ Len(todo') > 0
      /\ \A i \in 1 .. Len(todo') : todo'[i].value \in {c, FAT_EOC}
  BY <1>5, <1>6
<1>8. \A k \in {0, 1} : \A x \in Clusters : FatValue(k, x)' = FatValue(k, x)
  BY <1>1, FatKept
<1>9. DiskKept' /\ FormatProgress'
  BY <1>1 DEF IInv, DiskKept, FormatProgress
<1>10. Control'
  BY <1>1, <1>2, <1>3 DEF IInv, Control
<1>11. RootReserved'
  BY <1>1, <1>3, <1>7, <1>8, RootIsACluster
     DEF IInv, RootReserved, read_fat_entry, ROOT_CLUSTER, FAT_EOC
<1>12. CopiesPaired'
  BY <1>1, <1>7, <1>8 DEF IInv, CopiesPaired, Mirrored, Same, SecondCopyDue, WritesPaired
<1> QED BY <1>7, <1>9, <1>10, <1>11, <1>12 DEF IInv

\* Data goes into a cluster that is not the root's, or the disk is not formatted.
LEMMA DataWriteKeeps == IInv /\ DataWrite => IInv'
<1> SUFFICES ASSUME IInv, DataWrite PROVE IInv'
  OBVIOUS
<1> DEFINE at == SectorAt(cluster, pos)
           v == IF pos < Len(op.data) THEN Data(op.data[pos + 1]) ELSE Zero
<1>1. /\ pc = "data" /\ disk' = [disk EXCEPT ![at] = v]
      /\ UNCHANGED <<first, cluster, todo, formatted, clean>>
      /\ \/ pos' = 0 /\ pc' = "dir"
         \/ pos' = pos + 1 /\ pc' \in {"next", "data"}
  BY DEF DataWrite, history
<1>2. v.type \in {"data", "zero"}
  BY DEF Data, Zero
<1>3. /\ cluster \in Clusters /\ pos \in Nat /\ at \in RootArea \union FileArea
      /\ formatted = "ok" => cluster # ROOT_CLUSTER /\ at \in FileArea
  <2>1. cluster \in Clusters /\ pos \in Nat /\ (formatted = "ok" => cluster # ROOT_CLUSTER)
    BY <1>1 DEF IInv, Control, RootReserved
  <2>2. pos % SECTORS_PER_CLUSTER \in 0 .. SECTORS_PER_CLUSTER - 1
    BY <2>1, Division, LayoutAssumption
  <2> QED BY <2>1, <2>2, RootSectors, FileSectors DEF SectorAt
<1> HIDE DEF at, v
<1>4. FatSpared
  <2>1. DOMAIN disk' = Sectors /\ \A s \in Sectors : disk'[s] = IF s = at THEN v ELSE disk[s]
    BY <1>1 DEF IInv, DiskKept
  <2>2. \A s \in FatArea : disk'[s] = disk[s]
    BY <1>3, <2>1, Areas
  <2>3. \A s \in FileArea : disk'[s].type \in {"zero", "data"}
    BY <1>2, <2>1, Areas DEF IInv, DiskKept
  <2>4. formatted = "ok" => \A s \in RootArea : disk'[s] = disk[s]
    BY <1>3, <2>1, Areas
  <2> QED BY <1>1, <2>1, <2>2, <2>3, <2>4 DEF IInv, DiskKept, FatSpared
<1>5. Control'
  BY <1>1, LayoutAssumption DEF IInv, Control
<1> QED BY <1>1, <1>3, <1>4, <1>5, Moves

\* A directory entry goes into a sector of the root.
LEMMA DirWriteKeeps == IInv /\ DirWrite => IInv'
<1> SUFFICES ASSUME IInv, DirWrite PROVE IInv'
  OBVIOUS
<1>1. pc = "dir" /\ formatted' = formatted /\ pos \in Nat /\ pos < SECTORS_PER_CLUSTER
  BY DEF DirWrite, IInv, Control
<1>2. RootSector(pos) \in RootArea
  <2>1. pos \in 0 .. SECTORS_PER_CLUSTER - 1
    BY <1>1, LayoutAssumption
  <2> QED BY <2>1, RootSectors DEF RootSector
<1>3. ASSUME NEW entries, disk' = [disk EXCEPT ![RootSector(pos)] = Dir(entries)]
      PROVE  FatSpared
  <2>1. /\ DOMAIN disk' = Sectors
        /\ \A s \in Sectors : disk'[s] = IF s = RootSector(pos) THEN Dir(entries) ELSE disk[s]
    BY <1>3 DEF IInv, DiskKept
  <2>2. \A s \in FatArea \union FileArea : disk'[s] = disk[s]
    BY <1>2, <2>1, Areas
  <2>3. formatted = "ok" => \A s \in RootArea : disk'[s].type \in {"zero", "dir"}
    BY <2>1, Areas DEF IInv, DiskKept, Dir
  <2> QED BY <1>1, <2>1, <2>2, <2>3 DEF IInv, DiskKept, FatSpared
<1>4. CASE clean' = clean /\ Return("ok", Nothing)
           /\ \E entries : disk' = [disk EXCEPT ![RootSector(pos)] = Dir(entries)]
  BY <1>1, <1>3, <1>4, Returns DEF IInv, Control
<1>5. CASE clean' = FALSE /\ Return("error", Nothing) /\ UNCHANGED disk
  BY <1>1, <1>5, DiskSpared, Returns
<1>6. CASE /\ pos + 1 < SECTORS_PER_CLUSTER /\ pos' = pos + 1
           /\ UNCHANGED <<disk, pc, first, cluster, todo, clean>>
  <2>1. Control'
    BY <1>1, <1>6 DEF IInv, Control
  <2> QED BY <1>1, <1>6, <2>1, DiskSpared, Moves
<1> QED BY <1>4, <1>5, <1>6, Zenon DEF DirWrite

(***************************************************************************)
(* Formatting                                                              *)
(***************************************************************************)

\* The test pattern goes to sector 0.
LEMMA AtaTestKeeps == IInv /\ AtaTest => IInv'
<1> SUFFICES ASSUME IInv, AtaTest PROVE IInv'
  OBVIOUS
<1>1. /\ pc = "ata_test" /\ pc' = "format" /\ formatted = "no" /\ pos = 0
      /\ UNCHANGED <<first, cluster, todo, pos, formatted, clean>>
  BY DEF AtaTest, IInv, Control, locals, history
<1>2. DiskKept'
  <2>1. /\ DOMAIN disk' = Sectors
        /\ \A s \in FatArea \union FileArea : disk'[s] = disk[s]
    BY Areas DEF AtaTest, IInv, DiskKept
  <2> QED BY <1>1, <2>1 DEF IInv, DiskKept
<1>3. FormatProgress'
  BY <1>1, LayoutAssumption
     DEF FormatProgress, FatPart, RootPart, FormatLength, FatBegun, FatZeroed, BootDone
<1>4. Control' /\ WritesPaired'
  BY <1>1 DEF IInv, Control, WritesPaired
<1>5. RootReserved' /\ CopiesPaired'
  BY <1>1 DEF RootReserved, CopiesPaired
<1> QED BY <1>2, <1>3, <1>4, <1>5 DEF IInv

\* What the first sector of a FAT holds after format(), and what the others do.
LEMMA FirstFatSectorHolds ==
  /\ FirstFatSector \in FatContents
  /\ FatEntries(FirstFatSector) = [i \in FatSlots |-> IF i <= 2 THEN FAT_EOC ELSE FAT_FREE]
  /\ FatEntries(Zero) = [i \in FatSlots |-> FAT_FREE]
<1> DEFINE e == [i \in FatSlots |-> IF i <= 2 THEN FAT_EOC ELSE FAT_FREE]
<1>1. e \in [FatSlots -> Int] /\ FirstFatSector = Fat(e)
  BY DEF FirstFatSector, FAT_EOC, FAT_FREE
<1> HIDE DEF e
<1>2. FirstFatSector \in FatContents /\ FatEntries(FirstFatSector) = e
  BY <1>1 DEF FatContents, FatEntries, Fat
<1>3. FatEntries(Zero) = [i \in FatSlots |-> FAT_FREE]
  BY DEF FatEntries, Zero
<1> QED BY <1>2, <1>3 DEF e

\* What one write of format() does to the regions and to what is written so far.
LEMMA FormatWrites ==
  ASSUME IInv, FormatStep
  PROVE  /\ pos \in 0 .. FormatLength - 1 /\ DOMAIN disk' = Sectors
         /\ \A s \in FatArea : disk'[s] \in FatContents
         /\ \A s \in FileArea : disk'[s] = disk[s]
         /\ FatPart(disk', pos + 1) /\ RootPart(disk', pos + 1)
<1> DEFINE at == FormatPlan[pos + 1].sector
           v == FormatPlan[pos + 1].value
<1>1. pc = "format" /\ disk' = [disk EXCEPT ![at] = v]
  BY DEF FormatStep
<1>2. pos \in Nat /\ pos < FormatLength /\ FatPart(disk, pos) /\ RootPart(disk, pos)
  BY <1>1 DEF IInv, Control, FormatProgress
<1>3. /\ BootDone = 4 /\ FatZeroed = 4 + 2 * SECTORS_PER_FAT /\ FatBegun = FatZeroed + 2
      /\ FormatLength = FatBegun + SECTORS_PER_CLUSTER
      /\ SECTORS_PER_FAT \in Nat \ {0} /\ SECTORS_PER_CLUSTER \in Nat \ {0}
      /\ FAT_START_SECTOR \in Nat /\ DATA_START_SECTOR \in Nat
      /\ DATA_START_SECTOR = FAT_START_SECTOR + 2 * SECTORS_PER_FAT
  BY Sizes, LayoutAssumption DEF FormatLength, FatBegun, FatZeroed, BootDone
<1>4. /\ \A i \in 0 .. 2 * SECTORS_PER_FAT - 1 :
           FAT_START_SECTOR + i \in FatArea /\ FAT_START_SECTOR + i \in Sectors
      /\ \A i \in 0 .. SECTORS_PER_CLUSTER - 1 :
           DATA_START_SECTOR + i \in RootArea /\ DATA_START_SECTOR + i \in Sectors
  <2>1. /\ \A i \in 0 .. 2 * SECTORS_PER_FAT - 1 : FAT_START_SECTOR + i \in FatArea
        /\ \A i \in 0 .. SECTORS_PER_CLUSTER - 1 : DATA_START_SECTOR + i \in RootArea
    BY <1>3 DEF FatArea, RootArea
  <2> QED BY <2>1, Areas
<1> HIDE DEF at, v
<1>5. DOMAIN disk' = Sectors /\ \A s \in Sectors : disk'[s] = IF s = at THEN v ELSE disk[s]
  BY <1>1 DEF IInv, DiskKept
<1>6. \A s \in FatArea : disk[s] \in FatContents
  BY DEF IInv, DiskKept
<1> SUFFICES /\ \A s \in FatArea : disk'[s] \in FatContents
             /\ \A s \in FileArea : disk'[s] = disk[s]
             /\ FatPart(disk', pos + 1) /\ RootPart(disk', pos + 1)
  BY <1>2, <1>3, <1>5
<1>7. CASE pos < BootDone
  <2>1. at \in 0 .. 7
    BY <1>2, <1>3, <1>7, Plan DEF at
  <2>2. \A s \in FatArea \union RootArea \union FileArea : disk'[s] = disk[s]
    BY <2>1, <1>5, Areas
  <2>3. FatPart(disk', pos + 1) /\ RootPart(disk', pos + 1)
    BY <1>2, <1>3, <1>7 DEF FatPart, RootPart
  <2> QED BY <2>2, <2>3, <1>6
<1>8. CASE pos \in BootDone .. FatZeroed - 1
  <2>1. at = FAT_START_SECTOR + (pos - BootDone) /\ v = Zero
    <3>1. FormatPlan[pos + 1] = Transfer(FAT_START_SECTOR + (pos - BootDone), Zero)
      BY <1>8, Plan
    <3> QED BY <3>1 DEF at, v, Transfer
  <2>2. pos - BootDone \in 0 .. 2 * SECTORS_PER_FAT - 1
    BY <1>2, <1>3, <1>8
  <2>3. at \in FatArea
    BY <2>1, <2>2, <1>4
  <2>4. \A s \in FileArea : disk'[s] = disk[s]
    BY <2>3, <1>5, Areas
  <2>5. \A s \in FatArea : disk'[s] \in FatContents
    BY <2>1, <1>5, <1>6, Areas DEF FatContents
  <2>6. ASSUME NEW i \in 0 .. 2 * SECTORS_PER_FAT - 1, pos + 1 > BootDone + i
        PROVE  disk'[FAT_START_SECTOR + i] = Zero /\ ~ Begun(i, pos + 1)
    <3>1. ~ Begun(i, pos) /\ ~ Begun(i, pos + 1)
      BY <1>2, <1>3, <1>8 DEF Begun
    <3>2. FAT_START_SECTOR + i \in Sectors
      BY <1>4, Areas
    <3>3. CASE i = pos - BootDone
      BY <3>1, <3>2, <3>3, <2>1, <1>5
    <3>4. CASE i # pos - BootDone
      <4>1. pos > BootDone + i
        BY <3>4, <2>6, <1>2, <1>3
      <4>2. disk[FAT_START_SECTOR + i] = Zero
        BY <4>1, <3>1, <1>2 DEF FatPart
      <4>3. FAT_START_SECTOR + i # at
        BY <2>1, <3>4, <1>2, <1>3
      <4> QED BY <4>2, <4>3, <3>1, <3>2, <1>5
    <3> QED BY <3>1, <3>3, <3>4
  <2>7. RootPart(disk', pos + 1)
    BY <1>2, <1>3, <1>8 DEF RootPart
  <2>8. FatPart(disk', pos + 1)
    BY <2>6 DEF FatPart
  <2> QED BY <2>4, <2>5, <2>7, <2>8
<1>9. CASE pos = FatZeroed \/ pos = FatZeroed + 1
  <2> DEFINE j == IF pos = FatZeroed THEN 0 ELSE SECTORS_PER_FAT
  <2>1. at = FAT_START_SECTOR + j /\ v = FirstFatSector
    BY <1>3, <1>9, Plan DEF at, v, Transfer
  <2>2. j \in 0 .. 2 * SECTORS_PER_FAT - 1
    BY <1>3
  <2>3. at \in FatArea
    BY <2>1, <2>2, <1>4
  <2>4. \A s \in FileArea : disk'[s] = disk[s]
    BY <2>3, <1>5, Areas
  <2>5. \A s \in FatArea : disk'[s] \in FatContents
    BY <2>1, <1>5, <1>6, Areas, FirstFatSectorHolds
  <2>6. ASSUME NEW i \in 0 .. 2 * SECTORS_PER_FAT - 1
        PROVE  disk'[FAT_START_SECTOR + i] = IF Begun(i, pos + 1) THEN FirstFatSector ELSE Zero
    <3>1. pos > BootDone + i
      BY <1>3, <1>9
    <3>2. FAT_START_SECTOR + i \in Sectors
      BY <1>4, Areas
    <3>3. Begun(i, pos + 1) <=> Begun(i, pos) \/ i = j
      BY <1>2, <1>3, <1>9 DEF Begun
    <3>4. FAT_START_SECTOR + i = at <=> i = j
      BY <2>1, <2>2, <1>3
    <3> QED BY <3>1, <3>2, <3>3, <3>4, <2>1, <1>2, <1>5 DEF FatPart
  <2>7. RootPart(disk', pos + 1)
    BY <1>2, <1>3, <1>9 DEF RootPart
  <2>8. FatPart(disk', pos + 1)
    BY <2>6 DEF FatPart
  <2> QED BY <2>4, <2>5, <2>7, <2>8
<1>10. CASE pos \in FatBegun .. FormatLength - 1
  <2>1. at = DATA_START_SECTOR + (pos - FatBegun) /\ v = Zero
    <3>1. FormatPlan[pos + 1] = Transfer(DATA_START_SECTOR + (pos - FatBegun), Zero)
      BY <1>10, Plan
    <3> QED BY <3>1 DEF at, v, Transfer
  <2>2. pos - FatBegun \in 0 .. SECTORS_PER_CLUSTER - 1
    BY <1>2, <1>3, <1>10
  <2>3. at \in RootArea
    BY <2>1, <2>2, <1>4
  <2>4. \A s \in FatArea \union FileArea : disk'[s] = disk[s]
    BY <2>3, <1>5, Areas
  <2>5. ASSUME NEW i \in 0 .. 2 * SECTORS_PER_FAT - 1
        PROVE  disk'[FAT_START_SECTOR + i] = IF Begun(i, pos + 1) THEN FirstFatSector ELSE Zero
    <3>1. pos > BootDone + i /\ (Begun(i, pos + 1) <=> Begun(i, pos))
      BY <1>2, <1>3, <1>10 DEF Begun
    <3> QED BY <3>1, <2>4, <1>2, <1>4 DEF FatPart
  <2>6. ASSUME NEW i \in 0 .. SECTORS_PER_CLUSTER - 1, pos + 1 > FatBegun + i
        PROVE  disk'[DATA_START_SECTOR + i] = Zero
    <3>1. DATA_START_SECTOR + i \in Sectors
      BY <1>4, Areas
    <3>2. pos > FatBegun + i \/ i = pos - FatBegun
      BY <2>6, <1>2, <1>3
    <3> QED BY <3>1, <3>2, <2>1, <1>2, <1>5 DEF RootPart
  <2>7. FatPart(disk', pos + 1) /\ RootPart(disk', pos + 1)
    BY <2>5, <2>6 DEF FatPart, RootPart
  <2> QED BY <2>4, <2>7, <1>6
<1> QED BY <1>2, <1>3, <1>7, <1>8, <1>9, <1>10

\* A FAT sector format() has written reads as free entries but for the first
\* sector of each copy.
LEMMA FormatStepKeeps == IInv /\ FormatStep => IInv'
<1> SUFFICES ASSUME IInv, FormatStep PROVE IInv'
  OBVIOUS
<1>1. /\ pos \in 0 .. FormatLength - 1 /\ DOMAIN disk' = Sectors
      /\ \A s \in FatArea : disk'[s] \in FatContents
      /\ \A s \in FileArea : disk'[s] = disk[s]
      /\ FatPart(disk', pos + 1) /\ RootPart(disk', pos + 1)
  BY FormatWrites
<1>2. /\ pc = "format" /\ formatted = "no" /\ first = 0 /\ todo = <<>>
      /\ UNCHANGED <<first, cluster, todo, clean>>
  BY DEF FormatStep, IInv, Control, WritesPaired, counters
<1>3. FormatLength \in Nat /\ Len(FormatPlan) = FormatLength
  BY Plan, LayoutAssumption DEF FormatLength, FatBegun, FatZeroed, BootDone
<1>4. WritesPaired'
  <2>1. pc' # "fat"
    BY <1>2 DEF FormatStep
  <2> QED BY <1>2, <2>1 DEF WritesPaired
<1>5. CASE pos + 1 < FormatLength
  <2>1. pos' = pos + 1 /\ UNCHANGED <<pc, formatted>>
    BY <1>3, <1>5 DEF FormatStep
  <2>2. DiskKept' /\ FormatProgress'
    BY <1>1, <1>2, <1>5, <2>1 DEF IInv, DiskKept, FormatProgress
  <2>3. Control' /\ RootReserved' /\ CopiesPaired'
    BY <1>1, <1>2, <2>1 DEF IInv, Control, RootReserved, CopiesPaired
  <2> QED BY <1>4, <2>2, <2>3 DEF IInv
<1>6. CASE ~ (pos + 1 < FormatLength)
  <2>1. pos' = 0 /\ pc' = "idle" /\ formatted' = "ok" /\ pos + 1 = FormatLength
    BY <1>1, <1>3, <1>6 DEF FormatStep
  <2>2. /\ BootDone = 4 /\ FatZeroed = 4 + 2 * SECTORS_PER_FAT /\ FatBegun = FatZeroed + 2
        /\ FormatLength = FatBegun + SECTORS_PER_CLUSTER
        /\ SECTORS_PER_FAT \in Nat \ {0} /\ SECTORS_PER_CLUSTER \in Nat \ {0}
        /\ FAT_START_SECTOR \in Nat /\ DATA_START_SECTOR \in Nat
    BY Sizes, LayoutAssumption DEF FormatLength, FatBegun, FatZeroed, BootDone
  <2>3. \A s \in RootArea : disk'[s] = Zero
    <3> TAKE s \in RootArea
    <3>1. s - DATA_START_SECTOR \in 0 .. SECTORS_PER_CLUSTER - 1
          /\ s = DATA_START_SECTOR + (s - DATA_START_SECTOR)
      BY <2>2 DEF RootArea
    <3>2. pos + 1 > FatBegun + (s - DATA_START_SECTOR)
      BY <2>1, <2>2, <3>1
    <3> QED BY <1>1, <3>1, <3>2 DEF RootPart
  <2>4. DiskKept' /\ FormatProgress'
    BY <1>1, <2>1, <2>3 DEF IInv, DiskKept, FormatProgress, Zero
  <2>5. Control'
    BY <1>2, <2>1, RootIsACluster DEF IInv, Control
  <2>6. \A i \in 0 .. SECTORS_PER_FAT - 1 :
          /\ disk'[FAT_START_SECTOR + i] = IF i = 0 THEN FirstFatSector ELSE Zero
          /\ disk'[FAT_START_SECTOR + i + SECTORS_PER_FAT] = disk'[FAT_START_SECTOR + i]
    <3> TAKE i \in 0 .. SECTORS_PER_FAT - 1
    <3>1. /\ i \in 0 .. 2 * SECTORS_PER_FAT - 1 /\ pos + 1 > BootDone + i
          /\ Begun(i, pos + 1) <=> i = 0
      BY <2>1, <2>2 DEF Begun
    <3>2. /\ i + SECTORS_PER_FAT \in 0 .. 2 * SECTORS_PER_FAT - 1
          /\ pos + 1 > BootDone + (i + SECTORS_PER_FAT)
          /\ Begun(i + SECTORS_PER_FAT, pos + 1) <=> i = 0
          /\ FAT_START_SECTOR + i + SECTORS_PER_FAT = FAT_START_SECTOR + (i + SECTORS_PER_FAT)
      BY <2>1, <2>2 DEF Begun
    <3> QED BY <1>1, <3>1, <3>2 DEF FatPart
  <2>7. \A c \in Clusters : /\ FatValue(0, c)' = FatValue(1, c)'
                            /\ FatValue(0, c)' \in {FAT_EOC, FAT_FREE}
                            /\ c = ROOT_CLUSTER => FatValue(0, c)' = FAT_EOC
    <3> TAKE c \in Clusters
    <3>1. PICK i \in 0 .. SECTORS_PER_FAT - 1 : FatSectorOf(0, c) = FAT_START_SECTOR + i
      <4> DEFINE z == FatSectorOf(0, c)
      <4>1. z \in FAT_START_SECTOR .. FAT_START_SECTOR + SECTORS_PER_FAT - 1
        BY FatPlaces
      <4> HIDE DEF z
      <4>2. z - FAT_START_SECTOR \in 0 .. SECTORS_PER_FAT - 1
            /\ z = FAT_START_SECTOR + (z - FAT_START_SECTOR)
        BY <4>1, <2>2
      <4> QED BY <4>2 DEF z
    <3>2. FatSectorOf(1, c) = FAT_START_SECTOR + i + SECTORS_PER_FAT
      BY <3>1, FatPlaces
    <3>3. /\ FatValue(0, c)' = FatEntries(disk'[FatSectorOf(0, c)])[FatSlotOf(c)]
          /\ FatValue(1, c)' = FatEntries(disk'[FatSectorOf(1, c)])[FatSlotOf(c)]
      BY DEF FatValue
    <3>4. FatSlotOf(c) \in FatSlots
      BY FatPlaces
    <3>5. c = ROOT_CLUSTER => i = 0 /\ FatSlotOf(c) = 2
      BY <3>1, <2>2, FatPlaces
    <3>6. CASE i = 0
      <4>1. FatEntries(disk'[FatSectorOf(0, c)]) =
              [j \in FatSlots |-> IF j <= 2 THEN FAT_EOC ELSE FAT_FREE]
        BY <3>1, <3>6, <2>6, FirstFatSectorHolds
      <4>2. FatValue(0, c)' = IF FatSlotOf(c) <= 2 THEN FAT_EOC ELSE FAT_FREE
        BY <4>1, <3>3, <3>4
      <4> QED BY <4>2, <3>1, <3>2, <3>3, <3>5, <2>6
    <3>7. CASE i # 0
      <4>1. FatEntries(disk'[FatSectorOf(0, c)]) = [j \in FatSlots |-> FAT_FREE]
        BY <3>1, <3>7, <2>6, FirstFatSectorHolds
      <4>2. FatValue(0, c)' = FAT_FREE
        BY <4>1, <3>3, <3>4
      <4> QED BY <4>2, <3>1, <3>2, <3>3, <3>5, <3>7, <2>6
    <3> QED BY <3>6, <3>7
  <2>8. RootReserved'
    BY <1>2, <2>1, <2>7, RootIsACluster
       DEF RootReserved, read_fat_entry, ROOT_CLUSTER, FAT_EOC, FAT_FREE
  <2>9. CopiesPaired'
    BY <1>2, <2>7 DEF CopiesPaired, Mirrored, Same, SecondCopyDue
  <2> QED BY <1>4, <2>4, <2>5, <2>8, <2>9 DEF IInv
<1> QED BY <1>5, <1>6

(***************************************************************************)
(* Writing the FAT                                                         *)
(***************************************************************************)

\* A write to one copy of the FAT leaves the other due, or is the other.
LEMMA FatWriteKeeps == IInv /\ FatWrite => IInv'
<1> SUFFICES ASSUME IInv, FatWrite PROVE IInv'
  OBVIOUS
<1>0. todo \in Seq(FatWrites) /\ todo # <<>> /\ Head(todo) = todo[1] /\ todo[1] \in FatWrites
  <2>1. pc = "fat"
    BY DEF FatWrite
  <2>2. todo \in Seq(FatWrites) /\ todo # <<>>
    BY <2>1 DEF IInv, WritesPaired
  <2> QED BY <2>2
<1> PICK w \in FatWrites : w = todo[1]
  BY <1>0
<1>1. /\ pc = "fat" /\ disk' = WithFatEntry(w) /\ todo' = Tail(todo)
      /\ UNCHANGED <<first, pos, formatted, clean>>
      /\ \/ Tail(todo) # <<>> /\ UNCHANGED <<pc, cluster>>
         \/ Tail(todo) = <<>> /\ pc' = "find" /\ UNCHANGED cluster
         \/ Tail(todo) = <<>> /\ pc' \in {"dir", "data"} /\ cluster' = first
  <2>1. disk' = WithFatEntry(w)
    BY <1>0 DEF FatWrite
  <2>2. /\ pc = "fat" /\ todo' = Tail(todo)
        /\ UNCHANGED <<first, pos, formatted, clean>>
    BY DEF FatWrite, history
  <2>3. \/ Tail(todo) # <<>> /\ UNCHANGED <<pc, cluster>>
        \/ Tail(todo) = <<>> /\ pc' = "find" /\ UNCHANGED cluster
        \/ Tail(todo) = <<>> /\ pc' \in {"dir", "data"} /\ cluster' = first
    BY Zenon DEF FatWrite
  <2> QED BY <2>1, <2>2, <2>3
<1>2. /\ todo \in Seq(FatWrites) /\ Len(todo) \in Nat \ {0} /\ w \in FatWrites
      /\ todo' \in Seq(FatWrites) /\ Len(todo') = Len(todo) - 1
      /\ \A i \in 1 .. Len(todo') : todo'[i] = todo[i + 1]
      /\ (todo' # <<>>) <=> Len(todo) > 1
  <2>1. Len(todo) \in Nat \ {0}
    BY <1>0
  <2>2. /\ todo' \in Seq(FatWrites) /\ Len(todo') = Len(todo) - 1
        /\ \A i \in 1 .. Len(todo') : todo'[i] = todo[i + 1]
    BY <1>0, <1>1
  <2>3. (todo' # <<>>) <=> Len(todo') > 0
    BY <2>2
  <2> QED BY <1>0, <2>1, <2>2, <2>3
<1>3. /\ DOMAIN disk' = Sectors
      /\ \A s \in FatArea : disk'[s] \in FatContents
      /\ \A s \in Sectors \ FatArea : disk'[s] = disk[s]
      /\ \A k \in {0, 1} : \A c \in Clusters :
           FatValue(k, c)' = IF k = w.copy /\ c = w.cluster THEN w.value ELSE FatValue(k, c)
  BY <1>1, <1>2, FatEntryWritten DEF IInv
<1>4. DiskKept' /\ FormatProgress'
  <2>1. pc' # "format"
    BY <1>1
  <2> QED BY <1>1, <1>3, <2>1, Areas DEF IInv, DiskKept, FormatProgress
<1>5. Control'
  BY <1>1, LayoutAssumption DEF IInv, Control
<1>6. WritesPaired'
  <2>1. (todo' # <<>>) <=> pc' = "fat"
    BY <1>1
  <2>2. ASSUME NEW i \in 1 .. Len(todo'), todo'[i].copy = 0
        PROVE  /\ i < Len(todo') /\ todo'[i + 1].copy = 1
               /\ todo'[i + 1].cluster = todo'[i].cluster /\ todo'[i + 1].value = todo'[i].value
    <3>1. i + 1 \in 1 .. Len(todo) /\ todo[i + 1].copy = 0
      BY <1>2, <2>2
    <3>2. /\ i + 1 < Len(todo) /\ todo[i + 1 + 1].copy = 1
          /\ todo[i + 1 + 1].cluster = todo[i + 1].cluster
          /\ todo[i + 1 + 1].value = todo[i + 1].value
      BY <3>1 DEF IInv, WritesPaired
    <3>3. i < Len(todo') /\ i + 1 \in 1 .. Len(todo')
      BY <3>2, <1>2
    <3> QED BY <3>2, <3>3, <1>2
  <2>3. ASSUME NEW i \in 1 .. Len(todo') - 1, todo'[i].copy = 1
        PROVE  todo'[i + 1].copy = 0
    <3>1. i + 1 \in 1 .. Len(todo) - 1 /\ i \in 1 .. Len(todo') /\ i + 1 \in 1 .. Len(todo')
      BY <1>2
    <3> QED BY <3>1, <2>3, <1>2 DEF IInv, WritesPaired
  <2> QED BY <1>2, <2>1, <2>2, <2>3 DEF WritesPaired
<1>7. w.copy \in {0, 1} /\ w.cluster \in Clusters /\ w.value \in Clusters \union {FAT_EOC}
  BY <1>2 DEF FatWrites
<1>8. RootReserved'
  <2> SUFFICES ASSUME formatted = "ok" PROVE RootReserved'
    BY <1>1 DEF RootReserved
  <2>1. w.value # ROOT_CLUSTER /\ w.value # FAT_FREE
    BY <1>2, <1>7, Sizes DEF IInv, RootReserved, Clusters, FAT_EOC, FAT_FREE
  <2>2. \A i \in 1 .. Len(todo') : todo'[i].value # ROOT_CLUSTER
    <3> TAKE i \in 1 .. Len(todo')
    <3>1. i + 1 \in 1 .. Len(todo)
      BY <1>2
    <3> QED BY <3>1, <1>2 DEF IInv, RootReserved
  <2>3. \A c \in Clusters : FatValue(0, c)' # ROOT_CLUSTER
    BY <1>3, <2>1 DEF IInv, RootReserved, read_fat_entry
  <2>4. FatValue(0, ROOT_CLUSTER)' # FAT_FREE
    BY <1>3, <2>1, RootIsACluster DEF IInv, RootReserved, read_fat_entry
  <2>5. first' # ROOT_CLUSTER /\ (pc' = "data" => cluster' # ROOT_CLUSTER)
    BY <1>1 DEF IInv, RootReserved
  <2> QED BY <2>2, <2>3, <2>4, <2>5 DEF RootReserved, read_fat_entry
<1>9. CopiesPaired'
  <2> SUFFICES ASSUME formatted = "ok"
               PROVE  /\ clean => \A c \in Clusters : Same(c)' \/ (SecondCopyDue' /\ todo'[1].cluster = c)
                      /\ SecondCopyDue' => (FatValue(0, todo[1].cluster) = todo[1].value)'
                      /\ \A c \in Clusters : FatValue(0, c)' = FAT_FREE => Same(c)'
    BY <1>1 DEF CopiesPaired, Mirrored
  <2>1. /\ clean => \A c \in Clusters : Same(c) \/ (w.copy = 1 /\ w.cluster = c)
        /\ w.copy = 1 => FatValue(0, w.cluster) = w.value
        /\ \A c \in Clusters : FatValue(0, c) = FAT_FREE => Same(c)
    <3>1. /\ clean => \A c \in Clusters : Same(c) \/ (SecondCopyDue /\ todo[1].cluster = c)
          /\ SecondCopyDue => FatValue(0, todo[1].cluster) = todo[1].value
          /\ \A c \in Clusters : FatValue(0, c) = FAT_FREE => Same(c)
      BY Zenon DEF IInv, CopiesPaired, Mirrored
    <3> QED BY <3>1, <1>0 DEF SecondCopyDue
  <2>2. w.value # FAT_FREE
    BY <1>7, Sizes DEF Clusters, FAT_EOC, FAT_FREE
  <2>3. \A c \in Clusters : c # w.cluster => (Same(c)' <=> Same(c))
    BY <1>3 DEF Same
  <2>4. CASE w.copy = 0
    <3>1. /\ 1 < Len(todo) /\ todo[1 + 1].copy = 1
          /\ todo[1 + 1].cluster = w.cluster /\ todo[1 + 1].value = w.value
      BY <1>2, <2>4 DEF IInv, WritesPaired
    <3>2. SecondCopyDue' /\ todo'[1].cluster = w.cluster /\ todo'[1].value = w.value
      BY <3>1, <1>2 DEF SecondCopyDue
    <3>3. FatValue(0, w.cluster)' = w.value
      BY <1>3, <1>7, <2>4
    <3>4. (FatValue(0, todo[1].cluster) = todo[1].value)'
      BY <3>2, <3>3 DEF FatValue
    <3>5. clean => \A c \in Clusters : c # w.cluster => Same(c)'
      BY <2>1, <2>3, <2>4
    <3>6. \A c \in Clusters : FatValue(0, c)' = FAT_FREE => Same(c)'
      BY <1>3, <2>1, <2>2, <2>3, <2>4
    <3> QED BY <3>2, <3>4, <3>5, <3>6
  <2>5. CASE w.copy = 1
    <3>1. ~ SecondCopyDue'
      <4> SUFFICES ASSUME SecondCopyDue' PROVE FALSE
        OBVIOUS
      <4>1. Len(todo) > 1 /\ 1 \in 1 .. Len(todo') /\ 1 \in 1 .. Len(todo) - 1
        BY <1>2 DEF SecondCopyDue
      <4>2. todo'[1] = todo[1 + 1] /\ todo'[1].copy = 1
        BY <4>1, <1>2 DEF SecondCopyDue
      <4>3. todo[1 + 1].copy = 0
        BY <4>1, <2>5 DEF IInv, WritesPaired
      <4> QED BY <4>2, <4>3
    <3>2. Same(w.cluster)'
      BY <1>3, <1>7, <2>1, <2>5 DEF Same
    <3>3. clean => \A c \in Clusters : Same(c)'
      BY <2>1, <2>3, <3>2
    <3>4. \A c \in Clusters : FatValue(0, c)' = FAT_FREE => Same(c)'
      BY <1>3, <2>1, <2>3, <2>5, <3>2
    <3> QED BY <3>1, <3>3, <3>4
  <2> QED BY <2>4, <2>5, <1>7
<1> QED BY <1>4, <1>5, <1>6, <1>8, <1>9 DEF IInv

(***************************************************************************)
(* The regions, the copies and the root                                    *)
(***************************************************************************)

\* Every step keeps the invariant.
LEMMA NextIInv == IInv /\ [Next]_vars => IInv'
<1> SUFFICES ASSUME IInv, [Next]_vars PROVE IInv'
  OBVIOUS
<1>1. CASE Step
  BY <1>1, AtaTestKeeps, FormatStepKeeps, FindFreeKeeps, FindFullKeeps, FatWriteKeeps,
     DataWriteKeeps, NextClusterKeeps, DirWriteKeeps, LookupKeeps, DataReadKeeps DEF Step
<1>2. CASE Restart \/ FormatFails \/ TransferFails
  BY <1>2, Restarts, FormatFailing, TransferFailing
<1>3. CASE \E n \in Names : BeginRead(n) \/ \E d \in Contents : BeginWrite(n, d)
  <2>1. PICK n \in Names : BeginRead(n) \/ \E d \in Contents : BeginWrite(n, d)
    BY <1>3
  <2>2. CASE BeginRead(n)
    BY <2>2, Begins
  <2>3. CASE \E d \in Contents : BeginWrite(n, d)
    BY <2>3, Begins
  <2> QED BY <2>1, <2>2, <2>3
<1>4. CASE UNCHANGED vars
  <2>1. \A k \in {0, 1} : \A c \in Clusters : FatValue(k, c)' = FatValue(k, c)
    BY <1>4, FatKept DEF vars
  <2> USE <1>4 DEF vars, locals, history
  <2>2. DiskKept' /\ FormatProgress' /\ Control' /\ WritesPaired'
    BY DEF IInv, DiskKept, FormatProgress, Control, WritesPaired
  <2>3. RootReserved'
    BY <2>1, RootIsACluster DEF IInv, RootReserved, read_fat_entry
  <2>4. CopiesPaired'
    BY DEF IInv, CopiesPaired, Mirrored, Same, SecondCopyDue, FatValue
  <2> QED BY <2>2, <2>3, <2>4 DEF IInv
<1> QED BY <1>1, <1>2, <1>3, <1>4 DEF Next

\* IInv holds in every state of the driver.
LEMMA Invariance == Spec => []IInv
BY InitIInv, NextIInv, PTL DEF Spec

\* On a formatted disk of any geometry, whatever was written, whichever transfer
\* failed and wherever the power went, the FAT's sectors hold FAT entries, the
\* root's directory entries and the others file data (RegionsKept).
THEOREM TheRegionsAreKept == Spec => []RegionsKept
BY Invariance, IInvShows, PTL

\* What format.rs says of FAT[2] is true wherever format() has not failed: no
\* file is given the root's cluster (RootStaysReserved) and no chain leads there.
THEOREM OnlyAFailedFormatGivesTheRootAway ==
  Spec => [](formatted = "ok" =>
               /\ RootStaysReserved
               /\ \A c \in Clusters : read_fat_entry(c) # ROOT_CLUSTER)
<1>1. IInv => (formatted = "ok" =>
                 /\ RootStaysReserved
                 /\ \A c \in Clusters : read_fat_entry(c) # ROOT_CLUSTER)
  BY DEF IInv, RootReserved, RootStaysReserved
<1> QED BY <1>1, Invariance, PTL

(***************************************************************************)
(* Chains                                                                  *)
(***************************************************************************)

\* n different clusters in a row, none of them the root's.
InRow(s, n) ==
  /\ s \in [1 .. n -> Clusters \ {ROOT_CLUSTER}]
  /\ \A i, j \in 1 .. n : s[i] = s[j] => i = j

\* What the FAT entry of the i-th of them holds once they are a chain.
After(s, n, i) == IF i = n THEN FAT_EOC ELSE s[i + 1]

Linked(s, n) == \A i \in 1 .. n : read_fat_entry(s[i]) = After(s, n, i)

SizeAt(p) == ClustersFor(EntryAt(p).size)

\* The clusters of the entry's file are a chain in the FAT.
HasChain(p) ==
  /\ InRow(ChainAt(p), SizeAt(p)) /\ Linked(ChainAt(p), SizeAt(p))
  /\ ChainAt(p)[1] = EntryAt(p).first

\* Induction over the numbers from 1 to n.
LEMMA UpTo ==
  ASSUME NEW n \in Nat, NEW S, 1 \in S, \A i \in 1 .. n - 1 : i \in S => i + 1 \in S
  PROVE  \A i \in 1 .. n : i \in S
<1> SUFFICES ASSUME \E i \in 1 .. n : i \notin S PROVE FALSE
  OBVIOUS
<1> DEFINE B == {i \in 1 .. n : i \notin S}
<1>1. PICK m \in B : \A i \in B : m <= i
  <2>1. B \subseteq Nat /\ B # {}
    OBVIOUS
  <2> HIDE DEF B
  <2> QED BY <2>1, LeastNumber
<1>2. m # 1 /\ m - 1 \in 1 .. n - 1 /\ (m - 1) + 1 = m /\ m - 1 \notin B
  BY <1>1
<1> QED BY <1>1, <1>2

\* Clusters that the FAT links are what Chain reads.
LEMMA ChainIs ==
  \A n \in Nat : \A s \in [1 .. n -> Clusters] :
    (\A i \in 1 .. n - 1 : read_fat_entry(s[i]) = s[i + 1]) => Chain(s[1], n) = s
<1> SUFFICES ASSUME NEW n \in Nat, NEW s \in [1 .. n -> Clusters],
                    \A i \in 1 .. n - 1 : read_fat_entry(s[i]) = s[i + 1]
             PROVE  Chain(s[1], n) = s
  OBVIOUS
<1> DEFINE F(f) == [i \in 1 .. n |-> IF i = 1 THEN s[1]
                      ELSE IF f[i - 1] \in Clusters THEN read_fat_entry(f[i - 1]) ELSE FAT_FREE]
<1>1. s = F(s)
  <2>1. \A i \in 1 .. n : s[i] = F(s)[i]
    <3> TAKE i \in 1 .. n
    <3>1. CASE i = 1
      BY <3>1
    <3>2. CASE i # 1
      <4>1. i - 1 \in 1 .. n - 1 /\ i - 1 \in 1 .. n /\ (i - 1) + 1 = i
        BY <3>2
      <4> QED BY <4>1, <3>2
    <3> QED BY <3>1, <3>2
  <2> HIDE DEF F
  <2>2. F(s) = [i \in 1 .. n |-> F(s)[i]]
    BY DEF F
  <2> QED BY <2>1, <2>2
<1>2. ASSUME NEW f, f = F(f)
      PROVE  f = s
  <2>1. \A i \in 1 .. n : f[i] = s[i]
    <3> DEFINE S == {i \in 1 .. n : f[i] = s[i]}
    <3>1. n >= 1 => 1 \in S
      BY <1>2
    <3>2. \A i \in 1 .. n - 1 : i \in S => i + 1 \in S
      <4> SUFFICES ASSUME NEW i \in 1 .. n - 1, i \in S PROVE i + 1 \in S
        OBVIOUS
      <4>1. i + 1 \in 1 .. n /\ i \in 1 .. n /\ (i + 1) - 1 = i /\ i + 1 # 1
        OBVIOUS
      <4>2. f[i + 1] = IF f[i] \in Clusters THEN read_fat_entry(f[i]) ELSE FAT_FREE
        BY <4>1, <1>2
      <4> QED BY <4>1, <4>2
    <3> HIDE DEF S
    <3>3. n >= 1 => \A i \in 1 .. n : i \in S
      BY <3>1, <3>2, UpTo
    <3> QED BY <3>3 DEF S
  <2>2. f = [i \in 1 .. n |-> f[i]]
    BY <1>2
  <2> QED BY <2>1, <2>2
<1>3. Chain(s[1], n) = CHOOSE f : f = F(f)
  BY DEF Chain
<1> HIDE DEF F
<1> QED BY <1>1, <1>2, <1>3

\* The chain of a directory entry.
LEMMA ChainAtIs ==
  \A p \in RootSlots : \A n \in Nat \ {0} : \A s :
    InRow(s, n) /\ Linked(s, n) /\ s[1] = EntryAt(p).first /\ n = SizeAt(p)
      => ChainAt(p) = s /\ ClustersAt(p) = {s[i] : i \in 1 .. n} /\ HasChain(p)
<1> SUFFICES ASSUME NEW p \in RootSlots, NEW n \in Nat \ {0}, NEW s,
                    InRow(s, n), Linked(s, n), s[1] = EntryAt(p).first, n = SizeAt(p)
             PROVE  ChainAt(p) = s /\ ClustersAt(p) = {s[i] : i \in 1 .. n} /\ HasChain(p)
  OBVIOUS
<1>1. s \in [1 .. n -> Clusters] /\ DOMAIN s = 1 .. n
  BY DEF InRow
<1>2. \A i \in 1 .. n - 1 : read_fat_entry(s[i]) = s[i + 1]
  BY DEF Linked, After
<1>3. ChainAt(p) = s
  BY <1>1, <1>2, ChainIs DEF ChainAt, SizeAt
<1> QED BY <1>1, <1>3 DEF ClustersAt, HasChain

\* The same in the next state.
LEMMA ChainAtIsNext ==
  (\A p \in RootSlots : \A n \in Nat \ {0} : \A s :
    InRow(s, n) /\ Linked(s, n) /\ s[1] = EntryAt(p).first /\ n = SizeAt(p)
      => ChainAt(p) = s /\ ClustersAt(p) = {s[i] : i \in 1 .. n} /\ HasChain(p))'
BY ChainAtIs, PTL

(***************************************************************************)
(* Places in a file                                                        *)
(***************************************************************************)

\* The bytes of a file fit in the clusters allocated for them.
LEMMA Enough ==
  \A l \in Nat :
    /\ ClustersFor(l) \in Nat \ {0}
    /\ l <= ClustersFor(l) * SECTORS_PER_CLUSTER
<1> SUFFICES ASSUME NEW l \in Nat
             PROVE  ClustersFor(l) \in Nat \ {0} /\ l <= ClustersFor(l) * SECTORS_PER_CLUSTER
  OBVIOUS
<1>1. CASE l = 0
  BY <1>1, LayoutAssumption DEF ClustersFor
<1>2. CASE l # 0
  <2> DEFINE x == l + SECTORS_PER_CLUSTER - 1
             n == x \div SECTORS_PER_CLUSTER
             r == x % SECTORS_PER_CLUSTER
  <2>1. x \in Nat /\ x >= SECTORS_PER_CLUSTER
    BY <1>2, LayoutAssumption
  <2> HIDE DEF x
  <2>2. n \in Nat /\ r \in 0 .. SECTORS_PER_CLUSTER - 1 /\ x = SECTORS_PER_CLUSTER * n + r
    BY <2>1, LayoutAssumption, Division
  <2> HIDE DEF n, r
  <2>3. n # 0
    <3> SUFFICES ASSUME n = 0 PROVE FALSE
      OBVIOUS
    <3>1. x = r
      BY <2>2, <2>1, LayoutAssumption
    <3> QED BY <3>1, <2>1, <2>2, LayoutAssumption
  <2>4. SECTORS_PER_CLUSTER * n = n * SECTORS_PER_CLUSTER /\ n * SECTORS_PER_CLUSTER \in Nat
    BY <2>2, LayoutAssumption
  <2>5. l <= n * SECTORS_PER_CLUSTER
    BY <2>2, <2>4, LayoutAssumption DEF x
  <2> QED BY <1>2, <2>2, <2>3, <2>5 DEF ClustersFor, n, x
<1> QED BY <1>1, <1>2

\* allocate_cluster_chain reserves as many clusters as the file will have.
LEMMA NeededIs == \A d : Len(d) \in Nat => NeededClusters(d) = ClustersFor(Len(d))
<1> SUFFICES ASSUME NEW d, Len(d) \in Nat PROVE NeededClusters(d) = ClustersFor(Len(d))
  OBVIOUS
<1>1. CASE Len(d) = 0
  <2>1. (SECTORS_PER_CLUSTER - 1) \div SECTORS_PER_CLUSTER = 0
    BY LayoutAssumption
  <2> QED BY <1>1, <2>1, LayoutAssumption DEF NeededClusters, ClustersFor
<1>2. CASE Len(d) # 0
  BY <1>2, Enough DEF NeededClusters, ClustersFor
<1> QED BY <1>1, <1>2

\* A place in a row of n.
LEMMA RowPlace ==
  ASSUME NEW n \in Nat \ {0}, NEW a \in Nat, NEW i \in 0 .. n - 1, NEW x, x = a * n + i
  PROVE  x \div n = a /\ x % n = i
<1>1. x \in Nat /\ a * n \in Nat
  OBVIOUS
<1>2. x \div n \in Nat /\ x % n \in 0 .. n - 1 /\ x = n * (x \div n) + (x % n)
  BY <1>1, Division
<1> DEFINE q == x \div n
           r == x % n
<1>3. q \in Nat /\ r \in 0 .. n - 1 /\ x = n * q + r
  BY <1>2
<1> SUFFICES q = a /\ r = i
  OBVIOUS
<1> HIDE DEF q, r
<1>4. n * q = q * n
  BY <1>3
<1>5. q * n + r = a * n + i
  BY <1>3, <1>4
<1>6. \A b \in Nat : \A j \in 0 .. n - 1 : q * n + r = b * n + j => q = b /\ r = j
  BY <1>3, RowUnique
<1> QED BY <1>5, <1>6

\* The last sector of the j-th cluster.
LEMMA RowEnd ==
  ASSUME NEW x \in Nat, NEW j \in Nat \ {0},
         (j - 1) * SECTORS_PER_CLUSTER <= x, x < j * SECTORS_PER_CLUSTER
  PROVE  /\ x % SECTORS_PER_CLUSTER = x - (j - 1) * SECTORS_PER_CLUSTER
         /\ x \div SECTORS_PER_CLUSTER = j - 1
         /\ (x + 1) % SECTORS_PER_CLUSTER = 0 <=> x + 1 = j * SECTORS_PER_CLUSTER
<1> PICK N \in Nat \ {0} : N = SECTORS_PER_CLUSTER
  BY LayoutAssumption
<1>1. /\ j * N = (j - 1) * N + N /\ (j - 1) * N \in Nat /\ (j - 1) * N <= x /\ x < j * N
      /\ j - 1 \in Nat
  OBVIOUS
<1>2. PICK r \in 0 .. N - 1 : x = (j - 1) * N + r
  <2> PICK b \in Nat : b = (j - 1) * N
    BY <1>1
  <2>1. x - b \in 0 .. N - 1 /\ x = b + (x - b)
    BY <1>1
  <2> QED BY <2>1
<1>0. \A a \in Nat : \A i \in 0 .. N - 1 : (a * N + i) \div N = a /\ (a * N + i) % N = i
  BY RowPlace
<1>3. x \div N = j - 1 /\ x % N = r
  BY <1>0, <1>1, <1>2
<1>4. x % N = x - (j - 1) * N
  BY <1>1, <1>2, <1>3
<1>5. (x + 1) % N = 0 <=> x + 1 = j * N
  <2>1. CASE r = N - 1
    <3>1. x + 1 = j * N + 0 /\ 0 \in 0 .. N - 1
      BY <1>1, <1>2, <2>1
    <3>2. (j * N + 0) % N = 0
      <4>1. j \in Nat
        OBVIOUS
      <4> QED BY <1>0, <3>1, <4>1, Zenon
    <3>3. (x + 1) % N = 0
      BY <3>1, <3>2, Zenon
    <3> QED BY <3>1, <3>3
  <2>2. CASE r # N - 1
    <3>1. x + 1 = (j - 1) * N + (r + 1) /\ r + 1 \in 0 .. N - 1
      BY <1>1, <1>2, <2>2
    <3>2. ((j - 1) * N + (r + 1)) % N = r + 1
      BY <1>0, <1>1, <3>1, Zenon
    <3>3. x + 1 # j * N
      BY <1>1, <3>1
    <3>4. (x + 1) % N = r + 1
      BY <3>1, <3>2, Zenon
    <3> QED BY <3>1, <3>3, <3>4
  <2> QED BY <2>1, <2>2
<1> QED BY <1>3, <1>4, <1>5

(***************************************************************************)
(* The invariant of the chains                                             *)
(***************************************************************************)

\* What the root's sectors hold once the disk is formatted.
DirEntry == {Unused} \union [name : ShortNames, first : Clusters, size : Nat]
DirContents == {Zero} \union {Dir(e) : e \in [DirSlots -> DirEntry]}

DirectoryKept == formatted = "ok" => \A s \in RootArea : disk[s] \in DirContents

\* Every directory entry has its chain, and no two entries share a cluster.
FilesChained ==
  formatted = "ok" =>
    /\ \A p \in UsedSlots : HasChain(p)
    /\ \A p, q \in UsedSlots : p # q => ClustersAt(p) \cap ClustersAt(q) = {}

\* What the local variables hold at each place of the calls.
CallControl ==
  /\ op.data \in Contents \union {<<>>}
  /\ pc \notin {"ata_test", "format", "idle"} => op.name \in Names
  /\ pc \in {"find", "fat"} => left \in Nat
  /\ pc = "find" => left > 0
  /\ pc = "find" /\ first = 0 => left = NeededClusters(op.data)
  /\ pc \in {"fat", "data", "dir"} => first # 0
  /\ pc = "data" => op.data # <<>>
  /\ pc = "next" => (first # 0 <=> op.data # <<>>)
  /\ pc = "next" /\ op.data # <<>> => pos < Len(op.data)
  /\ pc \in {"lookup", "read"} => first = 0 /\ op.data = <<>>
  /\ pc \notin {"read", "next", "astray"} \/ first # 0 => out = <<>>

\* The clusters that are not free are the root's, the files', or in S.
Accounted(S) ==
  \A c \in Clusters :
    read_fat_entry(c) # FAT_FREE =>
      c = ROOT_CLUSTER \/ c \in S \/ \E p \in UsedSlots : c \in ClustersAt(p)

\* The place in the file is in the j-th cluster, or at its end.
InCluster(j) ==
  IF pc = "next" THEN pos = j * SECTORS_PER_CLUSTER
  ELSE (j - 1) * SECTORS_PER_CLUSTER <= pos /\ pos < j * SECTORS_PER_CLUSTER

FirstCopy(c, v) == [copy |-> 0, cluster |-> c, value |-> v]

\* The n clusters in s are those write_file has allocated: the FAT links them,
\* or will when the writes under way are done, in both its copies, and no file has
\* one of them.
Owned(s, n) ==
  /\ InRow(s, n) /\ s[1] = first
  /\ n + left = NeededClusters(op.data)
  /\ \A i \in 1 .. n :
       \/ read_fat_entry(s[i]) = After(s, n, i)
       \/ \E k \in 1 .. Len(todo) : todo[k] = FirstCopy(s[i], After(s, n, i))
  /\ \A k \in 1 .. Len(todo) :
       \E i \in 1 .. n : todo[k].cluster = s[i] /\ todo[k].value = After(s, n, i)
  /\ pc \in {"find", "fat"} => cluster = s[n]
  /\ pc \in {"data", "next", "dir"} => left = 0
  /\ pc \in {"data", "next"} => \E j \in 1 .. n : cluster = s[j] /\ InCluster(j)
  /\ \A p \in UsedSlots : \A i \in 1 .. n : s[i] \notin ClustersAt(p)
  /\ \A i \in 1 .. n : Mirrored(s[i])
  /\ clean => Accounted({s[i] : i \in 1 .. n})

OwnChain ==
  formatted = "ok" =>
    /\ first # 0 => \E n \in Nat \ {0} : \E s : Owned(s, n)
    /\ first = 0 /\ clean => Accounted({})

IsSeq(x) == \E S : x \in Seq(S)

\* read_file is in a cluster of the chain of the file at p.
ReadsFile(p) ==
  /\ p \in UsedSlots /\ left = EntryAt(p).size
  /\ IsSeq(out) /\ pos = Len(out) /\ pos < left
  /\ \E j \in 1 .. SizeAt(p) : cluster = ChainAt(p)[j] /\ InCluster(j)

Reading == pc = "read" \/ (pc = "next" /\ first = 0)

FollowsChain ==
  formatted = "ok" => pc # "astray" /\ (Reading => \E p : ReadsFile(p))

ChainInv == DirectoryKept /\ FilesChained /\ CallControl /\ OwnChain /\ FollowsChain

(***************************************************************************)
(* What the invariant says of the directory and of the files               *)
(***************************************************************************)

\* A sector of the root holds directory entries.
LEMMA DirEntriesType ==
  ASSUME NEW x \in DirContents
  PROVE  DirEntries(x) \in [DirSlots -> DirEntry]
<1>1. CASE x = Zero
  BY <1>1 DEF DirEntries, Zero, DirEntry
<1>2. CASE \E e \in [DirSlots -> DirEntry] : x = Dir(e)
  BY <1>2 DEF DirEntries, Dir
<1> QED BY <1>1, <1>2 DEF DirContents

\* The places of the directory are in the root's sectors.
LEMMA RootPlace ==
  \A p \in RootSlots : /\ p[1] \in 0 .. SECTORS_PER_CLUSTER - 1 /\ p[2] \in DirSlots
                       /\ p = <<p[1], p[2]>>
                       /\ RootSector(p[1]) \in RootArea
BY RootSectors DEF RootSlots, RootSector

\* What is in them is an entry.
LEMMA EntryType ==
  ASSUME DirectoryKept, formatted = "ok", NEW p \in RootSlots
  PROVE  EntryAt(p) \in DirEntry
<1>1. disk[RootSector(p[1])] \in DirContents /\ p[2] \in DirSlots
  BY RootPlace DEF DirectoryKept
<1>2. DirEntries(disk[RootSector(p[1])]) \in [DirSlots -> DirEntry]
  BY <1>1, DirEntriesType
<1> QED BY <1>1, <1>2 DEF EntryAt

\* A used entry's file, its chain and their sizes.
LEMMA UsedEntry ==
  ASSUME DirectoryKept, FilesChained, formatted = "ok", NEW p \in UsedSlots
  PROVE  /\ p \in RootSlots
         /\ EntryAt(p) \in [name : ShortNames, first : Clusters, size : Nat]
         /\ SizeAt(p) \in Nat \ {0}
         /\ InRow(ChainAt(p), SizeAt(p)) /\ Linked(ChainAt(p), SizeAt(p))
         /\ ChainAt(p)[1] = EntryAt(p).first
         /\ ClustersAt(p) = {ChainAt(p)[i] : i \in 1 .. SizeAt(p)}
         /\ ClustersAt(p) \subseteq Clusters \ {ROOT_CLUSTER}
<1>1. p \in RootSlots /\ EntryAt(p) # Unused
  BY DEF UsedSlots
<1>2. EntryAt(p) \in [name : ShortNames, first : Clusters, size : Nat]
  BY <1>1, EntryType DEF DirEntry
<1>3. SizeAt(p) \in Nat \ {0}
  BY <1>2, Enough DEF SizeAt
<1>4. /\ InRow(ChainAt(p), SizeAt(p)) /\ Linked(ChainAt(p), SizeAt(p))
      /\ ChainAt(p)[1] = EntryAt(p).first
  BY DEF FilesChained, HasChain
<1>5. ClustersAt(p) = {ChainAt(p)[i] : i \in 1 .. SizeAt(p)}
  BY <1>4 DEF ClustersAt, InRow
<1>6. ClustersAt(p) \subseteq Clusters \ {ROOT_CLUSTER}
  BY <1>4, <1>5 DEF InRow
<1> QED BY <1>1, <1>2, <1>3, <1>4, <1>5, <1>6

\* The clusters of a chain are not free.
LEMMA LinkedNotFree ==
  ASSUME NEW n \in Nat \ {0}, NEW s, InRow(s, n), Linked(s, n), NEW i \in 1 .. n
  PROVE  read_fat_entry(s[i]) # FAT_FREE
<1>1. read_fat_entry(s[i]) = After(s, n, i)
  BY DEF Linked
<1>2. CASE i = n
  BY <1>1, <1>2 DEF After, FAT_EOC, FAT_FREE
<1>3. CASE i # n
  <2>1. s[i + 1] \in Clusters
    BY <1>3 DEF InRow
  <2> QED BY <1>1, <1>3, <2>1, Sizes DEF After, Clusters, FAT_FREE
<1> QED BY <1>2, <1>3

\* No cluster of a file is marked free.
LEMMA FileNotFree ==
  ASSUME DirectoryKept, FilesChained, formatted = "ok", NEW p \in UsedSlots, NEW c \in ClustersAt(p)
  PROVE  read_fat_entry(c) # FAT_FREE
<1>1. /\ SizeAt(p) \in Nat \ {0}
      /\ InRow(ChainAt(p), SizeAt(p)) /\ Linked(ChainAt(p), SizeAt(p))
      /\ ClustersAt(p) = {ChainAt(p)[i] : i \in 1 .. SizeAt(p)}
  BY UsedEntry
<1>2. PICK i \in 1 .. SizeAt(p) : c = ChainAt(p)[i]
  BY <1>1
<1> QED BY <1>1, <1>2, LinkedNotFree

(***************************************************************************)
(* Steps that leave the files' chains alone                                *)
(***************************************************************************)

\* What such a step keeps.
FilesSpared ==
  /\ DirectoryKept' /\ FilesChained'
  /\ \A p \in RootSlots : EntryAt(p)' = EntryAt(p)
  /\ UsedSlots' = UsedSlots
  /\ \A p \in UsedSlots : /\ SizeAt(p)' = SizeAt(p) /\ ChainAt(p)' = ChainAt(p)
                          /\ ClustersAt(p)' = ClustersAt(p)

\* A step that leaves alone the root's sectors and the FAT entries of the files'
\* clusters keeps every file's chain.
LEMMA SparingFiles ==
  ASSUME DirectoryKept, FilesChained, formatted = "ok",
         \A s \in RootArea : disk'[s] = disk[s],
         \A p \in UsedSlots : \A c \in ClustersAt(p) : read_fat_entry(c)' = read_fat_entry(c)
  PROVE  FilesSpared
<1>1. DirectoryKept'
  BY DEF DirectoryKept
<1>2. ASSUME NEW p \in RootSlots
      PROVE  EntryAt(p)' = EntryAt(p)
  BY RootPlace DEF EntryAt
<1>3. UsedSlots' = UsedSlots
  BY <1>2 DEF UsedSlots
<1>4. ASSUME NEW p \in UsedSlots
      PROVE  /\ SizeAt(p)' = SizeAt(p) /\ ChainAt(p)' = ChainAt(p)
             /\ ClustersAt(p)' = ClustersAt(p) /\ HasChain(p)'
  <2>1. p \in RootSlots /\ EntryAt(p)' = EntryAt(p)
    BY <1>2 DEF UsedSlots
  <2>2. /\ SizeAt(p) \in Nat \ {0}
        /\ InRow(ChainAt(p), SizeAt(p)) /\ Linked(ChainAt(p), SizeAt(p))
        /\ ChainAt(p)[1] = EntryAt(p).first
        /\ ClustersAt(p) = {ChainAt(p)[i] : i \in 1 .. SizeAt(p)}
    BY UsedEntry
  <2>3. PICK n, s : n \in Nat \ {0} /\ n = SizeAt(p) /\ s = ChainAt(p)
    BY <2>2
  <2>4. InRow(s, n) /\ Linked(s, n) /\ s[1] = EntryAt(p).first /\ ClustersAt(p) = {s[i] : i \in 1 .. n}
    BY <2>2, <2>3
  <2>5. Linked(s, n)'
    <3>1. \A i \in 1 .. n : read_fat_entry(s[i])' = read_fat_entry(s[i])
      BY <2>4
    <3> QED BY <2>4, <3>1 DEF Linked
  <2>6. SizeAt(p)' = n
    BY <2>1, <2>3 DEF SizeAt
  <2>7. (s[1] = EntryAt(p).first /\ n = SizeAt(p))'
    BY <2>1, <2>4, <2>6
  <2>8. ChainAt(p)' = s /\ ClustersAt(p)' = {s[i] : i \in 1 .. n} /\ HasChain(p)'
    BY <2>1, <2>3, <2>4, <2>5, <2>7, ChainAtIsNext
  <2> QED BY <2>3, <2>4, <2>6, <2>8
<1>5. FilesChained'
  BY <1>3, <1>4 DEF FilesChained
<1> QED BY <1>1, <1>2, <1>3, <1>4, <1>5 DEF FilesSpared

\* The step writes neither to the FAT nor to the root.
Quiet ==
  /\ formatted' = formatted
  /\ \A s \in FatArea : disk'[s] = disk[s]
  /\ formatted = "ok" => \A s \in RootArea : disk'[s] = disk[s]

\* A quiet step leaves the FAT's entries alone.
LEMMA QuietFat ==
  ASSUME Quiet
  PROVE  \A c \in Clusters : read_fat_entry(c)' = read_fat_entry(c) /\ Same(c)' = Same(c)
<1>1. \A k \in {0, 1} : \A c \in Clusters : FatValue(k, c)' = FatValue(k, c)
  BY FatKept DEF Quiet
<1> QED BY <1>1 DEF read_fat_entry, Same

\* A quiet step keeps every file's chain.
LEMMA QuietFiles ==
  ASSUME DirectoryKept, FilesChained, Quiet, formatted = "ok"
  PROVE  FilesSpared
<1>1. \A p \in UsedSlots : \A c \in ClustersAt(p) : c \in Clusters
  BY UsedEntry
<1>2. \A p \in UsedSlots : \A c \in ClustersAt(p) : read_fat_entry(c)' = read_fat_entry(c)
  BY <1>1, QuietFat
<1>3. \A s \in RootArea : disk'[s] = disk[s]
  BY DEF Quiet
<1> QED BY <1>2, <1>3, SparingFiles

\* A quiet step changes nothing of which clusters are accounted for.
LEMMA QuietAccounts ==
  ASSUME DirectoryKept, FilesChained, Quiet, formatted = "ok", NEW S
  PROVE  Accounted(S)' = Accounted(S)
<1>1. FilesSpared
  BY QuietFiles
<1>2. \A c \in Clusters : read_fat_entry(c)' = read_fat_entry(c)
  BY QuietFat
<1> QED BY <1>1, <1>2 DEF FilesSpared, Accounted

\* What is owned stays so when only the place in the call changes.
LEMMA QuietOwned ==
  ASSUME DirectoryKept, FilesChained, Quiet, formatted = "ok",
         NEW n \in Nat \ {0}, NEW s, Owned(s, n),
         UNCHANGED <<op, first, todo>>, clean' => clean,
         left' = left,
         pc' \in {"find", "fat"} => cluster' = s[n],
         pc' \in {"data", "next", "dir"} => left = 0,
         pc' \in {"data", "next"} => \E j \in 1 .. n : cluster' = s[j] /\ InCluster(j)'
  PROVE  Owned(s, n)'
<1>1. FilesSpared
  BY QuietFiles
<1>2. \A i \in 1 .. n : s[i] \in Clusters /\ read_fat_entry(s[i])' = read_fat_entry(s[i])
  BY QuietFat DEF Owned, InRow
<1>3. \A p \in UsedSlots' : \A i \in 1 .. n : s[i] \notin ClustersAt(p)'
  BY <1>1 DEF FilesSpared, Owned
<1>4. clean' => Accounted({s[i] : i \in 1 .. n})'
  <2>1. clean' => Accounted({s[i] : i \in 1 .. n})
    BY DEF Owned
  <2> QED BY <2>1, QuietAccounts
<1>5. n + left' = NeededClusters(op'.data)
  BY DEF Owned
<1>6. \A i \in 1 .. n :
        \/ read_fat_entry(s[i])' = After(s, n, i)
        \/ \E k \in 1 .. Len(todo') : todo'[k] = FirstCopy(s[i], After(s, n, i))
  BY <1>2 DEF Owned
<1>7. \A k \in 1 .. Len(todo') :
        \E i \in 1 .. n : todo'[k].cluster = s[i] /\ todo'[k].value = After(s, n, i)
  BY DEF Owned
<1>8. \A i \in 1 .. n : Mirrored(s[i])'
  <2> TAKE i \in 1 .. n
  <2>1. s[i] \in Clusters /\ Mirrored(s[i])
    BY DEF Owned, InRow
  <2> PICK c \in Clusters : c = s[i]
    BY <2>1
  <2>2. Same(c)' = Same(c) /\ Mirrored(c)
    BY <2>1, QuietFat
  <2>3. Mirrored(c)'
    BY <2>2 DEF Mirrored, SecondCopyDue
  <2> QED BY <2>3
<1> QED BY <1>3, <1>4, <1>5, <1>6, <1>7, <1>8 DEF Owned

(***************************************************************************)
(* The calls begin and end                                                 *)
(***************************************************************************)

\* The invariant of the chains holds at the start.
LEMMA ChainInit == Init => ChainInv
<1> SUFFICES ASSUME Init PROVE ChainInv
  OBVIOUS
<1> USE DEF Init
<1>1. CallControl
  BY DEF CallControl, NoOp
<1>2. DirectoryKept /\ FilesChained /\ OwnChain /\ FollowsChain
  BY DEF DirectoryKept, FilesChained, OwnChain, FollowsChain
<1> QED BY <1>1, <1>2 DEF ChainInv

\* While the disk is not formatted only the control matters.
LEMMA Unready == ASSUME formatted' # "ok", CallControl' PROVE ChainInv'
BY DEF ChainInv, DirectoryKept, FilesChained, OwnChain, FollowsChain

\* A step after which no write_file is under way.
LEMMA NotWriting ==
  ASSUME ChainInv, Quiet, CallControl', first' = 0, clean' => clean /\ first = 0,
         formatted = "ok" => FollowsChain'
  PROVE  ChainInv'
<1>1. CASE formatted = "ok"
  <2>1. FilesSpared
    BY <1>1, QuietFiles DEF ChainInv
  <2>2. OwnChain'
    <3>1. clean' => Accounted({})
      BY <1>1 DEF ChainInv, OwnChain
    <3>2. clean' => Accounted({})'
      BY <1>1, <3>1, QuietAccounts DEF ChainInv
    <3> QED BY <3>2 DEF OwnChain
  <2> QED BY <1>1, <2>1, <2>2 DEF FilesSpared, ChainInv
<1>2. CASE formatted # "ok"
  BY <1>2, Unready DEF Quiet
<1> QED BY <1>1, <1>2

\* The end of a call that leaves the disk alone.
LEMMA ReturnKeeps ==
  ASSUME ChainInv, NEW kind, NEW d, Return(kind, d), Quiet, clean' => clean /\ first = 0
  PROVE  ChainInv'
<1> USE DEF Return, ClearLocals
<1>1. CallControl'
  BY DEF CallControl, NoOp
<1>2. FollowsChain'
  BY DEF FollowsChain, Reading
<1> QED BY <1>1, <1>2, NotWriting

\* A step that leaves the disk alone is quiet.
LEMMA DiskQuiet == ASSUME UNCHANGED <<disk, formatted>> PROVE Quiet
BY DEF Quiet

\* read_file begins.
LEMMA BeginReadKeepsChains ==
  ASSUME IInv, ChainInv, NEW n \in Names, BeginRead(n) PROVE ChainInv'
<1> USE DEF BeginRead, BeginCall, history
<1>1. first' = 0 /\ first = 0 /\ pc = "idle" /\ pc' = "lookup" /\ UNCHANGED <<disk, formatted, clean>>
  BY DEF IInv, Control
<1>2. CallControl'
  BY <1>1 DEF ChainInv, CallControl
<1>3. formatted = "ok" => FollowsChain'
  BY <1>1 DEF FollowsChain, Reading
<1> QED BY <1>1, <1>2, <1>3, DiskQuiet, NotWriting

\* The length of a content.
LEMMA ContentsAreSequences ==
  \A d \in Contents \union {<<>>} : Len(d) \in Nat /\ (d = <<>> <=> Len(d) = 0)
                                   /\ DOMAIN d = 1 .. Len(d)
<1> SUFFICES ASSUME NEW d \in Contents \union {<<>>}
             PROVE  Len(d) \in Nat /\ (d = <<>> <=> Len(d) = 0) /\ DOMAIN d = 1 .. Len(d)
  OBVIOUS
<1>1. PICK S : d \in Seq(S)
  <2>1. CASE d \in Contents
    BY <2>1, CallerAssumption
  <2>2. CASE d = <<>>
    BY <2>2
  <2> QED BY <2>1, <2>2
<1> QED BY <1>1

\* A file needs a cluster at least, and has room for its bytes.
LEMMA NeededPositive ==
  \A d \in Contents \union {<<>>} :
    /\ NeededClusters(d) \in Nat \ {0} /\ NeededClusters(d) = ClustersFor(Len(d))
    /\ Len(d) <= NeededClusters(d) * SECTORS_PER_CLUSTER
BY ContentsAreSequences, NeededIs, Enough

\* write_file begins with all its clusters still to reserve.
LEMMA BeginWriteKeepsChains ==
  ASSUME IInv, ChainInv, NEW n \in Names, NEW d \in Contents, BeginWrite(n, d) PROVE ChainInv'
<1> USE DEF BeginWrite, BeginCall, history
<1>1. /\ first' = 0 /\ first = 0 /\ pc = "idle" /\ pc' = "find"
      /\ UNCHANGED <<disk, formatted, clean, out>>
      /\ op' = [name |-> n, data |-> d] /\ left' = NeededClusters(d)
  BY DEF IInv, Control
<1>2. CallControl'
  <2>1. NeededClusters(d) \in Nat \ {0}
    BY NeededPositive
  <2>2. op'.data = d /\ op'.name = n
    BY <1>1
  <2>3. left' = NeededClusters(op.data)'
    BY <1>1, <2>2 DEF NeededClusters
  <2>4. out' = <<>>
    BY <1>1 DEF ChainInv, CallControl
  <2> QED BY <1>1, <2>1, <2>2, <2>3, <2>4 DEF CallControl
<1>3. formatted = "ok" => FollowsChain'
  BY <1>1 DEF FollowsChain, Reading
<1> QED BY <1>1, <1>2, <1>3, DiskQuiet, NotWriting

\* A failed transfer ends the call; its clusters are lost, not given to a file.
LEMMA TransferFailsKeepsChains == ASSUME IInv, ChainInv, TransferFails PROVE ChainInv'
<1>1. Return("error", Nothing) /\ UNCHANGED <<disk, formatted>> /\ (clean' => clean /\ first = 0)
  BY DEF TransferFails, IInv, Control
<1> QED BY <1>1, DiskQuiet, ReturnKeeps

\* So does a full disk.
LEMMA FindFullKeepsChains == ASSUME IInv, ChainInv, FindFull PROVE ChainInv'
<1>1. Return("error", Nothing) /\ UNCHANGED <<disk, formatted>> /\ clean' = FALSE
  BY DEF FindFull
<1> QED BY <1>1, DiskQuiet, ReturnKeeps

\* Steps after which the disk is not formatted.
LEMMA RestartsUnready == ASSUME Restart \/ FormatFails \/ AtaTest, ChainInv, IInv PROVE ChainInv'
<1>1. CASE Restart
  <2>1. formatted' # "ok"
    BY <1>1 DEF Restart
  <2>2. CallControl'
    BY <1>1 DEF Restart, ClearLocals, CallControl, NoOp
  <2> QED BY <2>1, <2>2, Unready
<1>2. CASE FormatFails
  <2>1. formatted' # "ok"
    BY <1>2 DEF FormatFails
  <2>2. CallControl'
    BY <1>2 DEF FormatFails, ChainInv, CallControl
  <2> QED BY <2>1, <2>2, Unready
<1>3. CASE AtaTest
  <2>1. formatted' # "ok"
    BY <1>3 DEF AtaTest, IInv, Control, history
  <2>2. CallControl'
    BY <1>3 DEF AtaTest, locals, ChainInv, CallControl
  <2> QED BY <2>1, <2>2, Unready
<1> QED BY <1>1, <1>2, <1>3

(***************************************************************************)
(* Reading keeps the chains                                                *)
(***************************************************************************)

\* The sector of the directory that read_file is at, and the entry it finds there.
EntriesHere == DirEntries(disk[RootSector(pos)])
Hits == Matches(EntriesHere, ShortName[op.name])
Found == Min(Hits)

\* What read_file finds is a used entry of the name.
LEMMA FoundIsUsed ==
  ASSUME IInv, ChainInv, pc = "lookup", Hits # {}
  PROVE  /\ Found \in Hits /\ Found \in DirSlots /\ \A i \in Hits : Found <= i
         /\ <<pos, Found>> \in UsedSlots
         /\ EntryAt(<<pos, Found>>) = EntriesHere[Found]
         /\ EntryAt(<<pos, Found>>).name = ShortName[op.name]
<1>1. Hits \subseteq Nat
  BY CallerAssumption DEF Hits, Matches, DirSlots
<1>2. Found \in Hits /\ \A i \in Hits : Found <= i
  <2>1. \A x \in Hits : (\A y \in Hits : x <= y) => Found \in Hits /\ \A y \in Hits : Found <= y
    BY Zenon DEF Found, Min
  <2>2. \E x \in Hits : \A y \in Hits : x <= y
    BY <1>1, LeastNumber
  <2> QED BY <2>1, <2>2
<1>3. Found \in DirSlots /\ EntriesHere[Found].name = ShortName[op.name]
  BY <1>2 DEF Hits, Matches
<1>4. pos \in 0 .. SECTORS_PER_CLUSTER - 1
  BY LayoutAssumption DEF IInv, Control
<1>5. <<pos, Found>> \in RootSlots
  BY <1>3, <1>4 DEF RootSlots
<1>6. EntryAt(<<pos, Found>>) = EntriesHere[Found]
  BY DEF EntryAt, EntriesHere
<1>7. EntryAt(<<pos, Found>>) # Unused
  <2>1. op.name \in Names
    BY DEF ChainInv, CallControl
  <2> QED BY <1>3, <1>6, <2>1, CallerAssumption DEF Unused, Entry
<1> QED BY <1>2, <1>3, <1>5, <1>6, <1>7 DEF UsedSlots

\* The four ways in which a round of the scan ends.
LEMMA LookupDoes ==
  ASSUME IInv, Lookup
  PROVE  /\ pc = "lookup" /\ UNCHANGED <<disk, formatted, clean>> /\ pos \in 0 .. SECTORS_PER_CLUSTER - 1
         /\ \/ /\ Hits = {} /\ pos + 1 < SECTORS_PER_CLUSTER /\ pos' = pos + 1
               /\ UNCHANGED <<pc, op, first, cluster, left, todo, out, reply>>
            \/ Hits = {} /\ ~ (pos + 1 < SECTORS_PER_CLUSTER) /\ Return("notfound", Nothing)
            \/ Hits # {} /\ EntriesHere[Found].size = 0 /\ Return("data", <<>>)
            \/ /\ Hits # {} /\ EntriesHere[Found].size # 0
               /\ cluster' = EntriesHere[Found].first /\ left' = EntriesHere[Found].size /\ pos' = 0
               /\ pc' = IF EntriesHere[Found].first \in Clusters THEN "read" ELSE "astray"
               /\ UNCHANGED <<op, first, todo, out, reply>>
<1>1. /\ pc = "lookup" /\ UNCHANGED <<disk, formatted, clean>> /\ pos \in 0 .. SECTORS_PER_CLUSTER - 1
  BY LayoutAssumption DEF Lookup, history, IInv, Control
<1> QED BY <1>1, Zenon DEF Lookup, EntriesHere, Hits, Found

\* read_file begins to read the file it has found.
LEMMA LookupReads ==
  ASSUME IInv, ChainInv, Lookup, formatted = "ok", Hits # {}, EntriesHere[Found].size # 0,
         NEW q, q = <<pos, Found>>
  PROVE  ReadsFile(q)' /\ pc' = "read" /\ out' = <<>>
<1>1. /\ pc = "lookup" /\ UNCHANGED <<disk, formatted, op, first, out, reply>> /\ out = <<>>
      /\ cluster' = EntriesHere[Found].first /\ left' = EntriesHere[Found].size /\ pos' = 0
      /\ pc' = IF EntriesHere[Found].first \in Clusters THEN "read" ELSE "astray"
  BY LookupDoes DEF ChainInv, CallControl
<1> DEFINE p == <<pos, Found>>
<1>2. p \in UsedSlots /\ EntryAt(p) = EntriesHere[Found]
  BY <1>1, FoundIsUsed
<1>3. /\ EntryAt(p).first \in Clusters /\ EntryAt(p).size \in Nat /\ SizeAt(p) \in Nat \ {0}
      /\ ChainAt(p)[1] = EntryAt(p).first
  BY <1>2, UsedEntry DEF ChainInv
<1>4. FilesSpared
  BY <1>1, DiskQuiet, QuietFiles DEF ChainInv
<1>5. /\ q \in UsedSlots' /\ EntryAt(q)' = EntryAt(q)
      /\ SizeAt(q)' = SizeAt(q) /\ ChainAt(q)' = ChainAt(q)
  BY <1>2, <1>4 DEF FilesSpared, UsedSlots
<1>6. /\ pc' = "read" /\ cluster' = ChainAt(q)[1] /\ left' = EntryAt(q).size /\ left' # 0
      /\ pos' = 0 /\ out' = <<>> /\ left' \in Nat
  BY <1>1, <1>2, <1>3
<1>7. InCluster(1)'
  BY <1>6, LayoutAssumption DEF InCluster
<1>8. \E j \in 1 .. SizeAt(q)' : cluster' = ChainAt(q)'[j] /\ InCluster(j)'
  BY <1>3, <1>5, <1>6, <1>7
<1>9. IsSeq(out)' /\ pos' = Len(out') /\ pos' < left'
  BY <1>6 DEF IsSeq
<1>10. ReadsFile(q)'
  BY <1>5, <1>6, <1>8, <1>9 DEF ReadsFile
<1> QED BY <1>6, <1>10

\* The scan of read_file keeps the chains.
LEMMA LookupKeepsChains == ASSUME IInv, ChainInv, Lookup PROVE ChainInv'
<1>1. /\ pc = "lookup" /\ UNCHANGED <<disk, formatted, clean>> /\ first = 0 /\ op.data = <<>>
      /\ out = <<>> /\ pos \in Nat
  BY LookupDoes DEF ChainInv, CallControl, IInv, Control
<1>2. CASE \E kind, d : Return(kind, d)
  BY <1>1, <1>2, DiskQuiet, ReturnKeeps
<1>3. CASE ~ \E kind, d : Return(kind, d)
  <2>1. \/ pos' = pos + 1 /\ UNCHANGED <<pc, op, first, out>>
        \/ /\ Hits # {} /\ EntriesHere[Found].size # 0
           /\ pc' \in {"read", "astray"} /\ UNCHANGED <<op, first, out>>
    BY <1>3, LookupDoes
  <2>2. CallControl'
    <3>1. pc' \in {"lookup", "read", "astray"} /\ UNCHANGED <<op, first, out>>
      BY <1>1, <2>1
    <3> QED BY <1>1, <3>1 DEF ChainInv, CallControl
  <2>3. formatted = "ok" => FollowsChain'
    <3> SUFFICES ASSUME formatted = "ok" PROVE FollowsChain'
      OBVIOUS
    <3>1. CASE pc' = "lookup"
      BY <3>1 DEF FollowsChain, Reading
    <3>2. CASE pc' # "lookup"
      <4>1. Hits # {} /\ EntriesHere[Found].size # 0
        BY <1>1, <2>1, <3>2
      <4> PICK q : q = <<pos, Found>>
        OBVIOUS
      <4>2. pc' = "read" /\ ReadsFile(q)'
        BY <4>1, LookupReads
      <4> QED BY <4>2 DEF FollowsChain
    <3> QED BY <3>1, <3>2
  <2>4. first' = 0
    BY <1>1, <2>1
  <2> QED BY <1>1, <2>2, <2>3, <2>4, DiskQuiet, NotWriting
<1> QED BY <1>2, <1>3

\* The j-th cluster is not the last while the place is before the end.
LEMMA NotLast ==
  ASSUME NEW j \in Nat, NEW l \in Nat, j * SECTORS_PER_CLUSTER < l
  PROVE  j < ClustersFor(l)
<1> SUFFICES ASSUME ClustersFor(l) <= j PROVE FALSE
  BY Enough
<1> PICK n \in Nat, N \in Nat \ {0} : n = ClustersFor(l) /\ N = SECTORS_PER_CLUSTER
  BY Enough, LayoutAssumption
<1>1. n * N <= j * N
  <2>1. CASE n = j
    BY <2>1
  <2>2. CASE n < j
    <3>1. n * N + 0 < j * N
      BY <2>2, RowOrder
    <3> QED BY <3>1
  <2> QED BY <2>1, <2>2
<1>2. l <= n * N
  BY Enough
<1>3. n * N \in Nat /\ j * N \in Nat
  OBVIOUS
<1> QED BY <1>1, <1>2, <1>3

\* read_data_from_chain goes on in the next cluster of the file.
LEMMA NextClusterReads ==
  ASSUME IInv, ChainInv, NextCluster, formatted = "ok", first = 0, NEW p, ReadsFile(p)
  PROVE  ReadsFile(p)' /\ pc' = "read"
<1>1. /\ pc = "next" /\ UNCHANGED <<disk, op, first, left, todo, pos, out, formatted>>
      /\ cluster' = read_fat_entry(cluster)
      /\ pc' = IF cluster' \notin Clusters THEN "astray"
               ELSE IF op.data = <<>> THEN "read" ELSE "data"
  BY DEF NextCluster, history
<1>2. p \in UsedSlots /\ left = EntryAt(p).size /\ pos < left /\ IsSeq(out) /\ pos = Len(out)
  BY DEF ReadsFile
<1>3. PICK j \in 1 .. SizeAt(p) : cluster = ChainAt(p)[j] /\ InCluster(j)
  BY DEF ReadsFile
<1>4. /\ SizeAt(p) \in Nat \ {0} /\ EntryAt(p).size \in Nat
      /\ InRow(ChainAt(p), SizeAt(p)) /\ Linked(ChainAt(p), SizeAt(p))
  BY <1>2, UsedEntry DEF ChainInv
<1>5. pos = j * SECTORS_PER_CLUSTER
  BY <1>1, <1>3 DEF InCluster
<1>6. j < SizeAt(p)
  BY <1>2, <1>4, <1>5, NotLast DEF SizeAt
<1>7. cluster' = ChainAt(p)[j + 1] /\ j + 1 \in 1 .. SizeAt(p) /\ cluster' \in Clusters
  BY <1>1, <1>3, <1>4, <1>6 DEF Linked, After, InRow
<1>8. pc' = "read"
  BY <1>1, <1>7 DEF ChainInv, CallControl
<1>9. InCluster(j + 1)'
  <2>1. pos' = j * SECTORS_PER_CLUSTER /\ SECTORS_PER_CLUSTER \in Nat \ {0} /\ j \in Nat
    BY <1>1, <1>4, <1>5, LayoutAssumption
  <2> QED BY <1>8, <2>1 DEF InCluster
<1>10. FilesSpared
  BY <1>1, DiskQuiet, QuietFiles DEF ChainInv
<1>11. /\ p \in UsedSlots' /\ EntryAt(p)' = EntryAt(p)
       /\ SizeAt(p)' = SizeAt(p) /\ ChainAt(p)' = ChainAt(p)
  BY <1>2, <1>10 DEF FilesSpared, UsedSlots
<1>12. \E i \in 1 .. SizeAt(p)' : cluster' = ChainAt(p)'[i] /\ InCluster(i)'
  BY <1>7, <1>9, <1>11
<1>13. left' = EntryAt(p)'.size /\ IsSeq(out)' /\ pos' = Len(out') /\ pos' < left'
  BY <1>1, <1>2, <1>11 DEF IsSeq
<1> QED BY <1>8, <1>11, <1>12, <1>13 DEF ReadsFile

\* The step along a chain does not lead astray.
LEMMA NextClusterKeepsChains == ASSUME IInv, ChainInv, NextCluster PROVE ChainInv'
<1>1. /\ pc = "next" /\ UNCHANGED <<disk, op, first, left, todo, pos, out, formatted, clean>>
      /\ cluster' = read_fat_entry(cluster)
      /\ pc' = IF cluster' \notin Clusters THEN "astray"
               ELSE IF op.data = <<>> THEN "read" ELSE "data"
  BY DEF NextCluster, history
<1>2. CallControl'
  <2>1. pc' \in {"astray", "read", "data"} /\ (pc' = "read" => op.data = <<>>)
        /\ (pc' = "data" => op.data # <<>>)
    BY <1>1
  <2> QED BY <1>1, <2>1 DEF ChainInv, CallControl
<1>3. Quiet
  BY <1>1, DiskQuiet
<1>4. CASE formatted # "ok"
  BY <1>1, <1>2, <1>4, Unready
<1>5. CASE formatted = "ok" /\ first = 0
  <2>1. PICK p : ReadsFile(p)
    BY <1>1, <1>5 DEF ChainInv, FollowsChain, Reading
  <2>2. ReadsFile(p)' /\ pc' = "read"
    BY <1>5, <2>1, NextClusterReads
  <2>3. FollowsChain'
    BY <2>2 DEF FollowsChain
  <2> QED BY <1>1, <1>2, <1>3, <1>5, <2>3, NotWriting
<1>6. CASE formatted = "ok" /\ first # 0
  <2>1. PICK n, s : n \in Nat \ {0} /\ Owned(s, n)
    BY <1>6 DEF ChainInv, OwnChain
  <2>2. PICK j \in 1 .. n : cluster = s[j] /\ InCluster(j)
    BY <1>1, <2>1 DEF Owned
  <2>3. /\ left = 0 /\ n = ClustersFor(Len(op.data)) /\ InRow(s, n) /\ Len(op.data) \in Nat
        /\ op.data # <<>>
    <3>1. op.data \in Contents \union {<<>>} /\ op.data # <<>>
      BY <1>1, <1>6 DEF ChainInv, CallControl
    <3>2. left = 0 /\ n + left = NeededClusters(op.data) /\ InRow(s, n)
      BY <1>1, <2>1 DEF Owned
    <3> QED BY <2>1, <3>1, <3>2, NeededPositive, ContentsAreSequences
  <2>4. pos = j * SECTORS_PER_CLUSTER /\ pos < Len(op.data)
    BY <1>1, <2>2, <2>3 DEF InCluster, ChainInv, CallControl
  <2>5. j < n
    BY <2>1, <2>3, <2>4, NotLast
  <2>6. read_fat_entry(s[j]) = s[j + 1] /\ s[j + 1] \in Clusters /\ j + 1 \in 1 .. n
    <3>1. todo \in Seq(FatWrites) /\ todo = <<>>
      BY <1>1 DEF IInv, WritesPaired
    <3>2. read_fat_entry(s[j]) = After(s, n, j)
      BY <2>1, <3>1 DEF Owned
    <3> QED BY <2>1, <2>3, <2>5, <3>2 DEF After, InRow
  <2>7. pc' = "data" /\ cluster' = s[j + 1]
    BY <1>1, <2>2, <2>3, <2>6
  <2>8. InCluster(j + 1)'
    <3>1. pos' = j * SECTORS_PER_CLUSTER /\ SECTORS_PER_CLUSTER \in Nat \ {0} /\ j \in Nat
      BY <1>1, <2>1, <2>4, LayoutAssumption
    <3> QED BY <2>7, <3>1 DEF InCluster
  <2>9. Owned(s, n)'
    <3>1. \E i \in 1 .. n : cluster' = s[i] /\ InCluster(i)'
      BY <2>6, <2>7, <2>8
    <3> QED BY <1>1, <1>3, <1>6, <2>1, <2>3, <2>7, <3>1, QuietOwned DEF ChainInv
  <2>10. OwnChain'
    BY <1>1, <1>6, <2>1, <2>9 DEF OwnChain
  <2>11. FollowsChain'
    BY <1>1, <1>6, <2>7 DEF FollowsChain, Reading
  <2>12. FilesSpared
    BY <1>3, <1>6, QuietFiles DEF ChainInv
  <2> QED BY <1>2, <2>10, <2>11, <2>12 DEF ChainInv, FilesSpared
<1> QED BY <1>4, <1>5, <1>6

\* What Append does.
LEMMA Appended ==
  ASSUME NEW s, IsSeq(s), NEW x
  PROVE  /\ IsSeq(Append(s, x)) /\ Len(Append(s, x)) = Len(s) + 1 /\ Len(s) \in Nat
         /\ \A i \in 1 .. Len(s) : Append(s, x)[i] = s[i]
         /\ Append(s, x)[Len(s) + 1] = x
<1>1. PICK S : s \in Seq(S)
  BY DEF IsSeq
<1> DEFINE T == S \union {x}
<1>2. s \in Seq(T) /\ x \in T
  BY <1>1
<1> HIDE DEF T
<1>3. Append(s, x) \in Seq(T)
  BY <1>2
<1> QED BY <1>2, <1>3 DEF IsSeq

\* The two ways in which the reading of a sector goes on.
LEMMA DataReadDoes ==
  ASSUME IInv, ChainInv, DataRead
  PROVE  LET got == Append(out, Chunk(disk[SectorAt(cluster, pos)]))
         IN  /\ pc = "read" /\ UNCHANGED <<disk, formatted, clean>> /\ first = 0 /\ op.data = <<>>
             /\ pos \in Nat
             /\ \/ Len(got) = left /\ Return("data", got)
                \/ /\ Len(got) # left /\ out' = got /\ pos' = pos + 1
                   /\ pc' = IF (pos + 1) % SECTORS_PER_CLUSTER = 0 THEN "next" ELSE "read"
                   /\ UNCHANGED <<op, first, cluster, left, todo, reply>>
<1>1. pc = "read" /\ UNCHANGED <<disk, formatted, clean>> /\ first = 0 /\ op.data = <<>> /\ pos \in Nat
  BY DEF DataRead, history, ChainInv, CallControl, IInv, Control
<1> QED BY <1>1, Zenon DEF DataRead

\* A sector of the file has been read, and it is not the last.
LEMMA DataReadReads ==
  ASSUME IInv, ChainInv, DataRead, formatted = "ok", pc' # "idle", NEW p, ReadsFile(p)
  PROVE  ReadsFile(p)' /\ pc' \in {"next", "read"}
<1> DEFINE got == Append(out, Chunk(disk[SectorAt(cluster, pos)]))
<1>1. /\ pc = "read" /\ UNCHANGED <<disk, formatted>> /\ pos \in Nat
      /\ Len(got) # left /\ out' = got /\ pos' = pos + 1
      /\ pc' = IF (pos + 1) % SECTORS_PER_CLUSTER = 0 THEN "next" ELSE "read"
      /\ UNCHANGED <<op, first, cluster, left, todo>>
  BY DataReadDoes DEF Return
<1>2. p \in UsedSlots /\ left = EntryAt(p).size /\ pos < left /\ IsSeq(out) /\ pos = Len(out)
  BY DEF ReadsFile
<1>3. PICK j \in 1 .. SizeAt(p) : cluster = ChainAt(p)[j] /\ InCluster(j)
  BY DEF ReadsFile
<1>4. SizeAt(p) \in Nat \ {0} /\ EntryAt(p).size \in Nat
  BY <1>2, UsedEntry DEF ChainInv
<1>5. (j - 1) * SECTORS_PER_CLUSTER <= pos /\ pos < j * SECTORS_PER_CLUSTER
  BY <1>1, <1>3 DEF InCluster
<1>6. (pos + 1) % SECTORS_PER_CLUSTER = 0 <=> pos + 1 = j * SECTORS_PER_CLUSTER
  BY <1>1, <1>4, <1>5, RowEnd
<1>7. InCluster(j)'
  <2> PICK a, b : a = (j - 1) * SECTORS_PER_CLUSTER /\ b = j * SECTORS_PER_CLUSTER
                  /\ a \in Int /\ b \in Int
    BY <1>4, LayoutAssumption
  <2>1. a <= pos /\ pos < b /\ ((pos + 1) % SECTORS_PER_CLUSTER = 0 <=> pos + 1 = b)
    BY <1>5, <1>6
  <2> HIDE DEF got
  <2>2. IF pc' = "next" THEN pos' = b ELSE a <= pos' /\ pos' < b
    BY <1>1, <2>1
  <2> QED BY <2>2 DEF InCluster
<1>8. FilesSpared
  BY <1>1, DiskQuiet, QuietFiles DEF ChainInv
<1>9. /\ p \in UsedSlots' /\ EntryAt(p)' = EntryAt(p)
      /\ SizeAt(p)' = SizeAt(p) /\ ChainAt(p)' = ChainAt(p)
  BY <1>2, <1>8 DEF FilesSpared, UsedSlots
<1>10. \E i \in 1 .. SizeAt(p)' : cluster' = ChainAt(p)'[i] /\ InCluster(i)'
  BY <1>1, <1>3, <1>7, <1>9
<1>11. IsSeq(out') /\ pos' = Len(out') /\ pos' < left' /\ left' = EntryAt(p)'.size
  <2>1. IsSeq(got) /\ Len(got) = Len(out) + 1
    BY <1>2, Appended
  <2> HIDE DEF got
  <2> QED BY <1>1, <1>2, <1>4, <1>9, <2>1
<1> QED BY <1>1, <1>9, <1>10, <1>11 DEF ReadsFile, IsSeq

\* Reading keeps the chains.
LEMMA DataReadKeepsChains == ASSUME IInv, ChainInv, DataRead PROVE ChainInv'
<1>1. /\ pc = "read" /\ UNCHANGED <<disk, formatted, clean>> /\ first = 0 /\ op.data = <<>>
      /\ \/ \E d : Return("data", d)
         \/ pc' \in {"next", "read"} /\ UNCHANGED <<op, first>>
  BY DataReadDoes
<1>2. CASE \E d : Return("data", d)
  BY <1>1, <1>2, DiskQuiet, ReturnKeeps
<1>3. CASE pc' \in {"next", "read"} /\ UNCHANGED <<op, first>>
  <2>1. CallControl'
    BY <1>1, <1>3 DEF ChainInv, CallControl
  <2>2. ASSUME formatted = "ok" PROVE FollowsChain'
    <3>1. PICK p : ReadsFile(p)
      BY <1>1, <2>2 DEF ChainInv, FollowsChain, Reading
    <3>2. ReadsFile(p)'
      BY <1>3, <2>2, <3>1, DataReadReads
    <3> QED BY <1>3, <3>2 DEF FollowsChain
  <2> QED BY <1>1, <1>3, <2>1, <2>2, DiskQuiet, NotWriting
<1> QED BY <1>1, <1>2, <1>3

(***************************************************************************)
(* Writing keeps the chains                                                *)
(***************************************************************************)

\* On a formatted disk write_data_to_chain writes to a file's part of the disk.
LEMMA DataWritePlace ==
  ASSUME IInv, DataWrite, formatted = "ok"
  PROVE  /\ cluster \in Clusters \ {ROOT_CLUSTER} /\ pos \in Nat
         /\ SectorAt(cluster, pos) \in FileArea
         /\ \A s \in Sectors : s # SectorAt(cluster, pos) => disk'[s] = disk[s]
         /\ Quiet
<1> DEFINE at == SectorAt(cluster, pos)
           v == IF pos < Len(op.data) THEN Data(op.data[pos + 1]) ELSE Zero
<1>1. /\ pc = "data" /\ disk' = [disk EXCEPT ![at] = v] /\ formatted' = formatted
  BY DEF DataWrite, history
<1>2. cluster \in Clusters \ {ROOT_CLUSTER} /\ pos \in Nat
  BY <1>1 DEF IInv, Control, RootReserved
<1>3. at \in FileArea
  <2>1. pos % SECTORS_PER_CLUSTER \in 0 .. SECTORS_PER_CLUSTER - 1
    BY <1>2, Division, LayoutAssumption
  <2> QED BY <1>2, <2>1, FileSectors DEF SectorAt
<1> HIDE DEF at, v
<1>4. \A s \in Sectors : s # at => disk'[s] = disk[s]
  BY <1>1 DEF IInv, DiskKept
<1>5. Quiet
  BY <1>1, <1>3, <1>4, Areas DEF Quiet
<1> QED BY <1>2, <1>3, <1>4, <1>5 DEF at

\* Writing data keeps the chains: the sector is in a cluster of the call's own.
LEMMA DataWriteKeepsChains == ASSUME IInv, ChainInv, DataWrite PROVE ChainInv'
<1> DEFINE full == (pos + 1) % SECTORS_PER_CLUSTER = 0
           done == full /\ pos + 1 >= Len(op.data)
<1>1. /\ pc = "data" /\ UNCHANGED <<op, first, cluster, left, todo, out, formatted, clean>>
      /\ pos' = IF done THEN 0 ELSE pos + 1
      /\ pc' = IF done THEN "dir" ELSE IF full THEN "next" ELSE "data"
      /\ first # 0 /\ op.data # <<>> /\ op.data \in Contents \union {<<>>} /\ pos \in Nat
  BY DEF DataWrite, history, ChainInv, CallControl, IInv, Control
<1>2. Len(op.data) \in Nat
  BY <1>1, ContentsAreSequences
<1>3. CallControl'
  <2>1. pc' \in {"dir", "next", "data"} /\ (pc' = "next" => pos' < Len(op.data))
    BY <1>1, <1>2
  <2> QED BY <1>1, <2>1 DEF ChainInv, CallControl
<1>4. CASE formatted # "ok"
  BY <1>1, <1>3, <1>4, Unready
<1>5. CASE formatted = "ok"
  <2>1. Quiet
    BY <1>5, DataWritePlace
  <2>2. PICK n, s : n \in Nat \ {0} /\ Owned(s, n)
    BY <1>1, <1>5 DEF ChainInv, OwnChain
  <2>3. PICK j \in 1 .. n : cluster = s[j] /\ InCluster(j)
    BY <1>1, <2>2 DEF Owned
  <2>4. (j - 1) * SECTORS_PER_CLUSTER <= pos /\ pos < j * SECTORS_PER_CLUSTER
    BY <1>1, <2>3 DEF InCluster
  <2>5. full <=> pos + 1 = j * SECTORS_PER_CLUSTER
    BY <1>1, <2>2, <2>4, RowEnd
  <2>6. pc' \in {"data", "next"} => InCluster(j)'
    <3> PICK a, b : a = (j - 1) * SECTORS_PER_CLUSTER /\ b = j * SECTORS_PER_CLUSTER
                    /\ a \in Int /\ b \in Int
      BY <2>2, LayoutAssumption
    <3>1. a <= pos /\ pos < b /\ (full <=> pos + 1 = b)
      BY <2>4, <2>5
    <3>2. pc' \in {"data", "next"} => IF pc' = "next" THEN pos' = b ELSE a <= pos' /\ pos' < b
      <4> HIDE DEF full
      <4> QED BY <1>1, <3>1
    <3> QED BY <3>2 DEF InCluster
  <2>7. Owned(s, n)'
    <3>1. pc' \in {"data", "next"} => \E i \in 1 .. n : cluster' = s[i] /\ InCluster(i)'
      BY <1>1, <2>3, <2>6
    <3>2. left = 0 /\ pc' \in {"dir", "next", "data"}
      BY <1>1, <2>2 DEF Owned
    <3> QED BY <1>1, <1>5, <2>1, <2>2, <3>1, <3>2, QuietOwned DEF ChainInv
  <2>8. OwnChain'
    BY <1>1, <2>2, <2>7 DEF OwnChain
  <2>9. FollowsChain'
    <3>1. pc' \in {"dir", "next", "data"}
      BY <1>1
    <3> QED BY <1>1, <3>1 DEF FollowsChain, Reading
  <2>10. FilesSpared
    BY <1>5, <2>1, QuietFiles DEF ChainInv
  <2> QED BY <1>3, <2>8, <2>9, <2>10 DEF ChainInv, FilesSpared
<1> QED BY <1>4, <1>5

\* find_free_cluster: the cluster is free, so it is the root's or a file's no more
\* than the call's.
LEMMA FindFreeTakes ==
  ASSUME IInv, FindFree
  PROVE  /\ UNCHANGED <<disk, op, pos, out, formatted, clean>> /\ pc = "find" /\ pc' = "fat"
         /\ left' = left - 1
         /\ cluster' \in Clusters /\ read_fat_entry(cluster') = FAT_FREE
         /\ cluster' # 0 /\ (formatted = "ok" => cluster' # ROOT_CLUSTER)
         /\ first' = IF first = 0 THEN cluster' ELSE first
         /\ todo' = IF first = 0 THEN write_fat_entry(cluster', FAT_EOC)
                    ELSE write_fat_entry(cluster, cluster') \o write_fat_entry(cluster', FAT_EOC)
<1>1. /\ UNCHANGED <<disk, op, pos, out, formatted, clean>> /\ pc = "find" /\ pc' = "fat"
      /\ left' = left - 1 /\ FreeClusters # {} /\ cluster' = Min(FreeClusters)
      /\ first' = IF first = 0 THEN cluster' ELSE first
      /\ todo' = IF first = 0 THEN write_fat_entry(cluster', FAT_EOC)
                 ELSE write_fat_entry(cluster, cluster') \o write_fat_entry(cluster', FAT_EOC)
  BY DEF FindFree, history
<1>2. cluster' \in Clusters /\ read_fat_entry(cluster') = FAT_FREE
  <2>1. FreeClusters \subseteq Nat
    BY Sizes DEF FreeClusters, Clusters
  <2>2. cluster' \in FreeClusters
    BY <1>1, <2>1, LeastIsMember
  <2> QED BY <2>2 DEF FreeClusters
<1>3. cluster' # 0 /\ (formatted = "ok" => cluster' # ROOT_CLUSTER)
  BY <1>2, Sizes DEF IInv, RootReserved, Clusters
<1> QED BY <1>1, <1>2, <1>3

\* The writes it queues, in their order.
LEMMA FindFreeQueues ==
  ASSUME IInv, FindFree
  PROVE  /\ first = 0 =>
              /\ Len(todo') = 2
              /\ todo'[1] = FirstCopy(cluster', FAT_EOC)
              /\ todo'[2].cluster = cluster' /\ todo'[2].value = FAT_EOC
         /\ first # 0 =>
              /\ Len(todo') = 4
              /\ todo'[1] = FirstCopy(cluster, cluster')
              /\ todo'[2].cluster = cluster /\ todo'[2].value = cluster'
              /\ todo'[3] = FirstCopy(cluster', FAT_EOC)
              /\ todo'[4].cluster = cluster' /\ todo'[4].value = FAT_EOC
<1> DEFINE c == cluster'
           W(k, x, v) == [copy |-> k, cluster |-> x, value |-> v]
<1>1. \A x, v : write_fat_entry(x, v) = <<W(0, x, v), W(1, x, v)>>
  BY DEF write_fat_entry, NUM_FATS
<1>2. ASSUME first = 0 PROVE todo' = <<W(0, c, FAT_EOC), W(1, c, FAT_EOC)>>
  BY <1>1, <1>2, FindFreeTakes
<1>3. ASSUME first # 0
      PROVE  todo' = <<W(0, cluster, c), W(1, cluster, c), W(0, c, FAT_EOC), W(1, c, FAT_EOC)>>
  <2> DEFINE S == {W(0, cluster, c), W(1, cluster, c), W(0, c, FAT_EOC), W(1, c, FAT_EOC)}
  <2>1. todo' = <<W(0, cluster, c), W(1, cluster, c)>> \o <<W(0, c, FAT_EOC), W(1, c, FAT_EOC)>>
    BY <1>1, <1>3, FindFreeTakes
  <2>2. /\ W(0, cluster, c) \in S /\ W(1, cluster, c) \in S
        /\ W(0, c, FAT_EOC) \in S /\ W(1, c, FAT_EOC) \in S
    OBVIOUS
  <2> HIDE DEF S, W, c
  <2> QED BY <2>1, <2>2, PairsJoined
<1> QED BY <1>2, <1>3 DEF FirstCopy

\* The cluster that is found is no file's, and goes to the end of the call's own
\* chain.
LEMMA FindFreeKeepsChains == ASSUME IInv, ChainInv, FindFree PROVE ChainInv'
<1>1. /\ UNCHANGED <<disk, op, pos, out, formatted, clean>> /\ pc = "find" /\ pc' = "fat"
      /\ left' = left - 1
      /\ cluster' \in Clusters /\ read_fat_entry(cluster') = FAT_FREE
      /\ cluster' # 0 /\ (formatted = "ok" => cluster' # ROOT_CLUSTER)
      /\ first' = IF first = 0 THEN cluster' ELSE first
  BY FindFreeTakes
<1>2. left \in Nat /\ left > 0 /\ out = <<>> /\ first \in Clusters \union {0}
  BY <1>1 DEF ChainInv, CallControl, IInv, Control
<1>3. first' # 0 /\ CallControl'
  <2>1. first' # 0
    BY <1>1
  <2> QED BY <1>1, <1>2, <2>1 DEF ChainInv, CallControl
<1>4. CASE formatted # "ok"
  BY <1>1, <1>3, <1>4, Unready
<1>5. CASE formatted = "ok"
  <2>1. Quiet
    BY <1>1, DiskQuiet
  <2>2. FilesSpared
    BY <1>5, <2>1, QuietFiles DEF ChainInv
  <2>3. PICK c \in Clusters \ {ROOT_CLUSTER} : c = cluster' /\ read_fat_entry(c) = FAT_FREE
    BY <1>1, <1>5
  <2>4. \A p \in UsedSlots : c \notin ClustersAt(p)
    BY <1>5, <2>3, FileNotFree DEF ChainInv
  <2>5. \A p \in UsedSlots' : c \notin ClustersAt(p)'
    BY <2>2, <2>4 DEF FilesSpared
  <2>6. todo = <<>>
    BY <1>1 DEF IInv, WritesPaired
  <2>9. Same(c)'
    <3>1. Same(c)
      BY <1>5, <2>3 DEF IInv, CopiesPaired, read_fat_entry
    <3> QED BY <2>1, <3>1, QuietFat
  <2>10. Mirrored(c)'
    BY <2>9 DEF Mirrored
  <2>7. CASE first = 0
    <3> DEFINE s == [i \in 1 .. 1 |-> c]
    <3>1. InRow(s, 1) /\ s[1] = c /\ After(s, 1, 1) = FAT_EOC
      BY <2>3 DEF InRow, After
    <3>2. \A i \in 1 .. 1 : i = 1
      OBVIOUS
    <3>3. /\ Len(todo') = 2
          /\ todo'[1] = FirstCopy(c, FAT_EOC)
          /\ todo'[1].cluster = c /\ todo'[1].value = FAT_EOC
          /\ todo'[2].cluster = c /\ todo'[2].value = FAT_EOC
      BY <2>3, <2>7, FindFreeQueues DEF FirstCopy
    <3>4. 1 + left' = NeededClusters(op.data)'
      <4>1. left = NeededClusters(op.data)
        BY <1>1, <2>7 DEF ChainInv, CallControl
      <4>2. NeededClusters(op.data)' = NeededClusters(op.data)
        BY <1>1 DEF NeededClusters
      <4> QED BY <1>1, <1>2, <4>1, <4>2
    <3>5. clean' => Accounted({s[i] : i \in 1 .. 1})'
      <4>1. clean' => Accounted({})
        BY <1>1, <1>5, <2>7 DEF ChainInv, OwnChain
      <4>2. clean' => Accounted({})'
        BY <1>5, <2>1, <4>1, QuietAccounts DEF ChainInv
      <4> QED BY <4>2 DEF Accounted
    <3> HIDE DEF s
    <3>6. \A k \in 1 .. Len(todo') :
            \E i \in 1 .. 1 : todo'[k].cluster = s[i] /\ todo'[k].value = After(s, 1, i)
      <4> SUFFICES ASSUME NEW k \in 1 .. 2
                   PROVE  todo'[k].cluster = s[1] /\ todo'[k].value = After(s, 1, 1)
        BY <3>3
      <4>1. k = 1 \/ k = 2
        OBVIOUS
      <4> QED BY <4>1, <3>1, <3>3
    <3>7. \A i \in 1 .. 1 :
            \/ read_fat_entry(s[i])' = After(s, 1, i)
            \/ \E k \in 1 .. Len(todo') : todo'[k] = FirstCopy(s[i], After(s, 1, i))
      <4> SUFFICES \E k \in 1 .. Len(todo') : todo'[k] = FirstCopy(s[1], After(s, 1, 1))
        BY <3>2
      <4> QED BY <3>1, <3>3
    <3>8. Owned(s, 1)'
      <4>1. s[1] = first' /\ cluster' = s[1]
        BY <1>1, <2>3, <2>7, <3>1
      <4>2. \A p \in UsedSlots' : \A i \in 1 .. 1 : s[i] \notin ClustersAt(p)'
        BY <2>5, <3>1, <3>2
      <4>3. \A i \in 1 .. 1 : Mirrored(s[i])'
        BY <2>10, <3>1, <3>2
      <4> QED BY <1>1, <3>1, <3>4, <3>5, <3>6, <3>7, <4>1, <4>2, <4>3 DEF Owned
    <3>9. \E n \in Nat \ {0} : \E z : Owned(z, n)'
      BY <3>8
    <3>10. OwnChain' /\ FollowsChain'
      BY <1>1, <1>3, <3>9 DEF OwnChain, FollowsChain, Reading
    <3> QED BY <1>3, <2>2, <3>10 DEF ChainInv, FilesSpared
  <2>8. CASE first # 0
    <3>1. PICK n, s : n \in Nat \ {0} /\ Owned(s, n)
      BY <1>5, <2>8 DEF ChainInv, OwnChain
    <3>2. /\ InRow(s, n) /\ s[1] = first /\ cluster = s[n]
          /\ n + left = NeededClusters(op.data)
          /\ \A i \in 1 .. n : read_fat_entry(s[i]) = After(s, n, i)
      BY <1>1, <2>6, <3>1 DEF Owned
    <3>3. \A i \in 1 .. n : s[i] # c
      <4>1. Linked(s, n)
        BY <3>2 DEF Linked
      <4> QED BY <2>3, <3>1, <3>2, <4>1, LinkedNotFree
    <3> DEFINE m == n + 1
               t == [i \in 1 .. m |-> IF i = m THEN c ELSE s[i]]
    <3>4. m \in Nat \ {0} /\ n \in 1 .. m /\ m \in 1 .. m /\ n # m
          /\ \A i \in 1 .. m : i # m => i \in 1 .. n
      BY <3>1
    <3>5. InRow(t, m)
      <4>1. \A i \in 1 .. n : s[i] \in Clusters \ {ROOT_CLUSTER}
        BY <3>2 DEF InRow
      <4>2. t \in [1 .. m -> Clusters \ {ROOT_CLUSTER}]
        BY <2>3, <3>4, <4>1
      <4>3. ASSUME NEW i \in 1 .. m, NEW j \in 1 .. m, t[i] = t[j] PROVE i = j
        BY <3>2, <3>3, <3>4, <4>3 DEF InRow
      <4> QED BY <4>2, <4>3 DEF InRow
    <3>6. /\ t[m] = c /\ t[n] = s[n] /\ t[1] = s[1]
          /\ After(t, m, m) = FAT_EOC /\ After(t, m, n) = c
          /\ \A i \in 1 .. n : i # n => t[i] = s[i] /\ After(t, m, i) = After(s, n, i)
      BY <3>1, <3>4 DEF After
    <3>7. /\ Len(todo') = 4
          /\ todo'[1] = FirstCopy(s[n], c) /\ todo'[1].cluster = s[n] /\ todo'[1].value = c
          /\ todo'[2].cluster = s[n] /\ todo'[2].value = c
          /\ todo'[3] = FirstCopy(c, FAT_EOC) /\ todo'[3].cluster = c /\ todo'[3].value = FAT_EOC
          /\ todo'[4].cluster = c /\ todo'[4].value = FAT_EOC
      BY <2>3, <2>8, <3>2, FindFreeQueues DEF FirstCopy
    <3> HIDE DEF t, m
    <3>8. m + left' = NeededClusters(op.data)'
      <4>1. NeededClusters(op.data)' = NeededClusters(op.data)
        BY <1>1 DEF NeededClusters
      <4> QED BY <1>1, <1>2, <3>1, <3>2, <4>1 DEF m
    <3>9. \A k \in 1 .. Len(todo') :
            \E i \in 1 .. m : todo'[k].cluster = t[i] /\ todo'[k].value = After(t, m, i)
      <4> SUFFICES ASSUME NEW k \in 1 .. 4
                   PROVE  \/ todo'[k].cluster = t[n] /\ todo'[k].value = After(t, m, n)
                          \/ todo'[k].cluster = t[m] /\ todo'[k].value = After(t, m, m)
        BY <3>4, <3>7
      <4>1. k = 1 \/ k = 2 \/ k = 3 \/ k = 4
        OBVIOUS
      <4> QED BY <4>1, <3>6, <3>7
    <3>10. \A i \in 1 .. m :
            \/ read_fat_entry(t[i])' = After(t, m, i)
            \/ \E k \in 1 .. Len(todo') : todo'[k] = FirstCopy(t[i], After(t, m, i))
      <4> TAKE i \in 1 .. m
      <4>1. CASE i = m
        <5>1. todo'[3] = FirstCopy(t[i], After(t, m, i)) /\ 3 \in 1 .. Len(todo')
          BY <4>1, <3>6, <3>7
        <5> QED BY <5>1
      <4>2. CASE i = n
        <5>1. todo'[1] = FirstCopy(t[i], After(t, m, i)) /\ 1 \in 1 .. Len(todo')
          BY <4>2, <3>6, <3>7
        <5> QED BY <5>1
      <4>3. CASE i # m /\ i # n
        <5>1. i \in 1 .. n /\ t[i] = s[i] /\ After(t, m, i) = After(s, n, i) /\ s[i] \in Clusters
          BY <4>3, <3>2, <3>4, <3>6 DEF InRow
        <5>2. read_fat_entry(s[i])' = read_fat_entry(s[i])
          BY <2>1, <5>1, QuietFat
        <5> PICK z : z = t[i]
          OBVIOUS
        <5>3. read_fat_entry(z)' = After(t, m, i)
          BY <3>2, <5>1, <5>2
        <5> QED BY <5>3
      <4> QED BY <4>1, <4>2, <4>3
    <3>11. \A p \in UsedSlots' : \A i \in 1 .. m : t[i] \notin ClustersAt(p)'
      <4>1. \A p \in UsedSlots : \A i \in 1 .. n : s[i] \notin ClustersAt(p)
        BY <3>1 DEF Owned
      <4>2. \A i \in 1 .. m : t[i] = c \/ \E j \in 1 .. n : t[i] = s[j]
        BY <3>4, <3>6
      <4> QED BY <2>2, <2>4, <4>1, <4>2 DEF FilesSpared
    <3>12. clean' => Accounted({t[i] : i \in 1 .. m})'
      <4>1. clean' => Accounted({s[i] : i \in 1 .. n})
        BY <1>1, <3>1 DEF Owned
      <4>2. clean' => Accounted({s[i] : i \in 1 .. n})'
        BY <1>5, <2>1, <4>1, QuietAccounts DEF ChainInv
      <4>3. {s[i] : i \in 1 .. n} \subseteq {t[i] : i \in 1 .. m}
        BY <3>1, <3>4, <3>6
      <4> QED BY <4>2, <4>3 DEF Accounted
    <3>13. Owned(t, m)'
      <4>1. t[1] = first' /\ cluster' = t[m]
        BY <1>1, <2>3, <2>8, <3>2, <3>6
      <4>2. \A i \in 1 .. m : Mirrored(t[i])'
        <5> TAKE i \in 1 .. m
        <5>1. CASE i = m
          BY <2>10, <3>6, <5>1
        <5>2. CASE i # m
          <6>1. i \in 1 .. n /\ t[i] = s[i] /\ s[i] \in Clusters /\ Mirrored(s[i])
            BY <3>1, <3>2, <3>4, <3>6, <5>2 DEF Owned, InRow
          <6> PICK z \in Clusters : z = t[i]
            BY <6>1
          <6>2. Same(z)
            BY <2>6, <6>1 DEF Mirrored, SecondCopyDue
          <6>3. Same(z)'
            BY <2>1, <6>2, QuietFat
          <6>4. Mirrored(z)'
            BY <6>3 DEF Mirrored
          <6> QED BY <6>4
        <5> QED BY <5>1, <5>2
      <4> QED BY <1>1, <3>5, <3>8, <3>9, <3>10, <3>11, <3>12, <4>1, <4>2 DEF Owned
    <3>14. \E k \in Nat \ {0} : \E z : Owned(z, k)'
      BY <3>4, <3>13
    <3>15. OwnChain' /\ FollowsChain'
      BY <1>1, <1>3, <3>14 DEF OwnChain, FollowsChain, Reading
    <3> QED BY <1>3, <2>2, <3>15 DEF ChainInv, FilesSpared
  <2> QED BY <2>7, <2>8
<1> QED BY <1>4, <1>5

\* One write of write_fat_entry and where the call goes on from it.
LEMMA FatWriteDoes ==
  ASSUME IInv, FatWrite
  PROVE  /\ pc = "fat" /\ todo[1] \in FatWrites /\ Len(todo) \in Nat \ {0}
         /\ todo' \in Seq(FatWrites) /\ Len(todo') = Len(todo) - 1
         /\ \A i \in 1 .. Len(todo') : todo'[i] = todo[i + 1]
         /\ UNCHANGED <<op, first, left, pos, out, formatted, clean>>
         /\ \/ pc' = "fat" /\ UNCHANGED cluster
            \/ pc' = "find" /\ UNCHANGED cluster /\ left > 0
            \/ /\ pc' = IF op.data = <<>> THEN "dir" ELSE "data"
               /\ cluster' = first /\ ~ (left > 0)
         /\ DOMAIN disk' = Sectors
         /\ \A s \in FatArea : disk'[s] \in FatContents
         /\ \A s \in Sectors \ FatArea : disk'[s] = disk[s]
         /\ \A k \in {0, 1} : \A c \in Clusters :
              FatValue(k, c)' = IF k = todo[1].copy /\ c = todo[1].cluster THEN todo[1].value
                                ELSE FatValue(k, c)
<1>1. todo \in Seq(FatWrites) /\ todo # <<>> /\ Head(todo) = todo[1] /\ todo[1] \in FatWrites
      /\ pc = "fat"
  <2>1. pc = "fat"
    BY DEF FatWrite
  <2>2. todo \in Seq(FatWrites) /\ todo # <<>>
    BY <2>1 DEF IInv, WritesPaired
  <2> QED BY <2>1, <2>2
<1>2. disk' = WithFatEntry(todo[1])
  BY <1>1 DEF FatWrite
<1>3. todo' = Tail(todo) /\ UNCHANGED <<op, first, left, pos, out, formatted, clean>>
  BY DEF FatWrite, history
<1>4. \/ pc' = "fat" /\ UNCHANGED cluster
      \/ pc' = "find" /\ UNCHANGED cluster /\ left > 0
      \/ /\ pc' = IF op.data = <<>> THEN "dir" ELSE "data"
         /\ cluster' = first /\ ~ (left > 0)
  <2>1. \/ Tail(todo) # <<>> /\ UNCHANGED <<pc, cluster>>
        \/ Tail(todo) = <<>> /\ left > 0 /\ pc' = "find" /\ UNCHANGED cluster
        \/ /\ ~ (Tail(todo) # <<>>) /\ ~ (Tail(todo) = <<>> /\ left > 0)
           /\ pc' = IF op.data = <<>> THEN "dir" ELSE "data"
           /\ cluster' = first
    BY Zenon DEF FatWrite
  <2> QED BY <1>1, <2>1
<1>5. /\ Len(todo) \in Nat \ {0} /\ todo' \in Seq(FatWrites) /\ Len(todo') = Len(todo) - 1
      /\ \A i \in 1 .. Len(todo') : todo'[i] = todo[i + 1]
  BY <1>1, <1>3
<1> PICK w \in FatWrites : w = todo[1]
  BY <1>1
<1>6. /\ DOMAIN disk' = Sectors
      /\ \A s \in FatArea : disk'[s] \in FatContents
      /\ \A s \in Sectors \ FatArea : disk'[s] = disk[s]
      /\ \A k \in {0, 1} : \A c \in Clusters :
           FatValue(k, c)' = IF k = w.copy /\ c = w.cluster THEN w.value ELSE FatValue(k, c)
  BY <1>2, FatEntryWritten DEF IInv
<1> QED BY <1>1, <1>3, <1>4, <1>5, <1>6

\* The clusters it writes for are the call's own.
LEMMA FatWriteSpares ==
  ASSUME IInv, ChainInv, FatWrite, formatted = "ok"
  PROVE  FilesSpared
<1>1. pc = "fat" /\ todo[1] \in FatWrites /\ Len(todo) \in Nat \ {0}
  BY FatWriteDoes
<1> PICK w \in FatWrites : w = todo[1]
  BY <1>1
<1>2. first # 0
  BY <1>1 DEF ChainInv, CallControl
<1>3. PICK n, s : n \in Nat \ {0} /\ Owned(s, n)
  BY <1>2 DEF ChainInv, OwnChain
<1>4. PICK j \in 1 .. n : w.cluster = s[j]
  BY <1>1, <1>3 DEF Owned
<1>5. \A r \in RootArea : disk'[r] = disk[r]
  BY FatWriteDoes, Areas
<1>6. ASSUME NEW p \in UsedSlots, NEW c \in ClustersAt(p)
      PROVE  read_fat_entry(c)' = read_fat_entry(c)
  <2>1. c \in Clusters
    BY UsedEntry DEF ChainInv
  <2>2. c # w.cluster
    BY <1>3, <1>4 DEF Owned
  <2> QED BY <2>1, <2>2, FatWriteDoes DEF read_fat_entry
<1> QED BY <1>5, <1>6, SparingFiles DEF ChainInv

\* A write to the first copy makes that to the second due, which makes them the same.
LEMMA FatWriteMirrors ==
  ASSUME IInv, FatWrite, formatted = "ok", NEW c \in Clusters, Mirrored(c)
  PROVE  Mirrored(c)'
<1>1. /\ todo[1] \in FatWrites /\ Len(todo) \in Nat \ {0} /\ todo # <<>>
      /\ todo' \in Seq(FatWrites) /\ Len(todo') = Len(todo) - 1
      /\ \A i \in 1 .. Len(todo') : todo'[i] = todo[i + 1]
  BY FatWriteDoes DEF IInv, WritesPaired
<1> PICK w \in FatWrites : w = todo[1]
  BY <1>1
<1>2. \A k \in {0, 1} :
        FatValue(k, c)' = IF k = w.copy /\ c = w.cluster THEN w.value ELSE FatValue(k, c)
  BY FatWriteDoes
<1>3. w.copy \in {0, 1}
  BY DEF FatWrites
<1>4. CASE w.copy = 0
  <2>1. 1 < Len(todo) /\ todo[1 + 1].copy = 1 /\ todo[1 + 1].cluster = w.cluster
    BY <1>1, <1>4 DEF IInv, WritesPaired
  <2>2. SecondCopyDue' /\ todo'[1].cluster = w.cluster
    BY <1>1, <2>1 DEF SecondCopyDue
  <2>3. Same(c)
    BY <1>4 DEF Mirrored, SecondCopyDue
  <2>4. c # w.cluster => Same(c)'
    BY <1>2, <2>3 DEF Same
  <2> QED BY <2>2, <2>4 DEF Mirrored
<1>5. CASE w.copy = 1
  <2>1. SecondCopyDue
    BY <1>1, <1>5 DEF SecondCopyDue
  <2>2. FatValue(0, w.cluster) = w.value
    BY <2>1 DEF IInv, CopiesPaired
  <2>3. Same(c) \/ c = w.cluster
    BY DEF Mirrored
  <2>4. Same(c)'
    BY <1>2, <1>5, <2>2, <2>3 DEF Same
  <2> QED BY <2>4 DEF Mirrored
<1> QED BY <1>3, <1>4, <1>5

\* A write to the FAT links the call's own chain and no other.
LEMMA FatWriteKeepsChains == ASSUME IInv, ChainInv, FatWrite PROVE ChainInv'
<1>1. /\ pc = "fat" /\ todo[1] \in FatWrites /\ Len(todo) \in Nat \ {0}
      /\ Len(todo') = Len(todo) - 1
      /\ \A i \in 1 .. Len(todo') : todo'[i] = todo[i + 1]
      /\ UNCHANGED <<op, first, left, pos, out, formatted, clean>>
      /\ \/ pc' = "fat" /\ UNCHANGED cluster
         \/ pc' = "find" /\ UNCHANGED cluster /\ left > 0
         \/ /\ pc' = IF op.data = <<>> THEN "dir" ELSE "data"
            /\ cluster' = first /\ ~ (left > 0)
  BY FatWriteDoes
<1>2. left \in Nat /\ first # 0 /\ out = <<>> /\ pos = 0
  BY <1>1 DEF ChainInv, CallControl, IInv, Control
<1>3. pc' \in {"fat", "find", "dir", "data"} /\ (pc' = "data" => op.data # <<>>)
      /\ (pc' = "find" => left > 0) /\ (pc' \in {"dir", "data"} => left = 0 /\ cluster' = first)
      /\ (pc' \in {"fat", "find"} => cluster' = cluster)
  BY <1>1, <1>2
<1>4. CallControl'
  BY <1>1, <1>2, <1>3 DEF ChainInv, CallControl
<1>5. CASE formatted # "ok"
  BY <1>1, <1>4, <1>5, Unready
<1>6. CASE formatted = "ok"
  <2> PICK w \in FatWrites : w = todo[1]
    BY <1>1
  <2>1. PICK n, s : n \in Nat \ {0} /\ Owned(s, n)
    BY <1>2, <1>6 DEF ChainInv, OwnChain
  <2>2. /\ InRow(s, n) /\ s[1] = first /\ cluster = s[n]
        /\ n + left = NeededClusters(op.data)
        /\ \A i \in 1 .. n :
             \/ read_fat_entry(s[i]) = After(s, n, i)
             \/ \E k \in 1 .. Len(todo) : todo[k] = FirstCopy(s[i], After(s, n, i))
        /\ \A k \in 1 .. Len(todo) :
             \E i \in 1 .. n : todo[k].cluster = s[i] /\ todo[k].value = After(s, n, i)
        /\ \A p \in UsedSlots : \A i \in 1 .. n : s[i] \notin ClustersAt(p)
        /\ clean => Accounted({s[i] : i \in 1 .. n})
    BY <1>1, <2>1 DEF Owned
  <2>3. PICK j \in 1 .. n : w.cluster = s[j] /\ w.value = After(s, n, j)
    BY <1>1, <2>2
  <2>4. \A c \in Clusters : read_fat_entry(c)' = IF w.copy = 0 /\ c = w.cluster THEN w.value
                                                 ELSE read_fat_entry(c)
    BY FatWriteDoes DEF read_fat_entry
  <2>5. FilesSpared
    BY <1>6, FatWriteSpares
  <2>6. \A i \in 1 .. n :
          \/ read_fat_entry(s[i])' = After(s, n, i)
          \/ \E k \in 1 .. Len(todo') : todo'[k] = FirstCopy(s[i], After(s, n, i))
    <3> TAKE i \in 1 .. n
    <3>1. read_fat_entry(s[i])' = IF w.copy = 0 /\ s[i] = w.cluster THEN w.value
                                  ELSE read_fat_entry(s[i])
      BY <2>2, <2>4 DEF InRow
    <3>2. CASE w.copy = 0 /\ s[i] = w.cluster
      <4>1. i = j
        BY <2>2, <2>3, <3>2 DEF InRow
      <4> QED BY <2>3, <3>1, <3>2, <4>1
    <3>3. CASE ~ (w.copy = 0 /\ s[i] = w.cluster)
      <4>1. w # FirstCopy(s[i], After(s, n, i))
        BY <3>3 DEF FirstCopy
      <4>2. CASE read_fat_entry(s[i]) = After(s, n, i)
        BY <3>1, <3>3, <4>2
      <4>3. CASE \E k \in 1 .. Len(todo) : todo[k] = FirstCopy(s[i], After(s, n, i))
        <5>1. PICK k \in 1 .. Len(todo) : todo[k] = FirstCopy(s[i], After(s, n, i))
          BY <4>3
        <5>2. k # 1
          BY <4>1, <5>1
        <5>3. k - 1 \in 1 .. Len(todo') /\ (k - 1) + 1 = k
          BY <1>1, <5>2
        <5>4. todo'[k - 1] = todo[k]
          BY <1>1, <5>3
        <5> QED BY <5>1, <5>3, <5>4
      <4> QED BY <2>2, <4>2, <4>3
    <3> QED BY <3>2, <3>3
  <2>7. \A k \in 1 .. Len(todo') :
          \E i \in 1 .. n : todo'[k].cluster = s[i] /\ todo'[k].value = After(s, n, i)
    <3> TAKE k \in 1 .. Len(todo')
    <3>1. k + 1 \in 1 .. Len(todo) /\ todo'[k] = todo[k + 1]
      BY <1>1
    <3> QED BY <2>2, <3>1
  <2>8. \A p \in UsedSlots' : \A i \in 1 .. n : s[i] \notin ClustersAt(p)'
    BY <2>2, <2>5 DEF FilesSpared
  <2>9. clean' => Accounted({s[i] : i \in 1 .. n})'
    <3> SUFFICES ASSUME clean, NEW c \in Clusters, read_fat_entry(c)' # FAT_FREE
                 PROVE  \/ c = ROOT_CLUSTER \/ c \in {s[i] : i \in 1 .. n}
                        \/ \E p \in UsedSlots' : c \in ClustersAt(p)'
      BY <1>1 DEF Accounted
    <3>1. CASE c = w.cluster
      BY <2>3, <3>1
    <3>2. CASE c # w.cluster
      <4>1. read_fat_entry(c) # FAT_FREE
        BY <2>4, <3>2
      <4> QED BY <2>2, <2>5, <4>1 DEF Accounted, FilesSpared
    <3> QED BY <3>1, <3>2
  <2>10. pc' = "data" => InCluster(1)'
    <3>1. pc' = "data" => pos' = 0
      BY <1>1, <1>2
    <3> QED BY <3>1, LayoutAssumption DEF InCluster
  <2>11. n + left' = NeededClusters(op.data)'
    BY <1>1, <2>2 DEF NeededClusters
  <2>12. pc' \in {"data", "next"} => \E i \in 1 .. n : cluster' = s[i] /\ InCluster(i)'
    BY <1>3, <2>1, <2>2, <2>10
  <2>13. Owned(s, n)'
    <3>1. s[1] = first' /\ (pc' \in {"find", "fat"} => cluster' = s[n])
          /\ (pc' \in {"data", "next", "dir"} => left' = 0)
      BY <1>1, <1>3, <2>2
    <3>2. \A i \in 1 .. n : Mirrored(s[i])'
      <4> TAKE i \in 1 .. n
      <4>1. s[i] \in Clusters /\ Mirrored(s[i])
        BY <2>1 DEF Owned, InRow
      <4> QED BY <1>6, <4>1, FatWriteMirrors
    <3> QED BY <2>2, <2>6, <2>7, <2>8, <2>9, <2>11, <2>12, <3>1, <3>2 DEF Owned
  <2>14. OwnChain'
    BY <1>1, <1>2, <2>1, <2>13 DEF OwnChain
  <2>15. FollowsChain'
    BY <1>3 DEF FollowsChain, Reading
  <2> QED BY <1>4, <2>5, <2>14, <2>15 DEF ChainInv, FilesSpared
<1> QED BY <1>5, <1>6

\* The step that makes a directory entry: a sector of the root gets an entry for
\* the call's file in its first unused slot.
EntryMade(p) ==
  /\ p \in RootSlots /\ p[1] = pos /\ EntryAt(p) = Unused
  /\ \A j \in 1 .. p[2] - 1 : EntryAt(<<pos, j>>) # Unused
  /\ disk' = [disk EXCEPT ![RootSector(pos)] =
                Dir([DirEntries(disk[RootSector(pos)]) EXCEPT ![p[2]] =
                       Entry(ShortName[op.name], first, Len(op.data))])]
  /\ written' = [written EXCEPT ![op.name] = op.data]
  /\ Return("ok", Nothing) /\ UNCHANGED clean

\* The three ways in which a round of write_file's scan ends.
LEMMA DirWriteDoes ==
  ASSUME IInv, DirWrite
  PROVE  /\ pc = "dir" /\ formatted' = formatted /\ pos \in 0 .. SECTORS_PER_CLUSTER - 1
         /\ \/ \E p : EntryMade(p)
            \/ /\ FirstUnused(DirEntries(disk[RootSector(pos)])) = {} /\ UNCHANGED <<disk, written>>
               /\ \/ /\ pos + 1 < SECTORS_PER_CLUSTER /\ pos' = pos + 1
                     /\ UNCHANGED <<pc, op, first, cluster, left, todo, out, reply, clean>>
                  \/ /\ ~ (pos + 1 < SECTORS_PER_CLUSTER)
                     /\ Return("error", Nothing) /\ clean' = FALSE
<1>1. pc = "dir" /\ formatted' = formatted /\ pos \in 0 .. SECTORS_PER_CLUSTER - 1
  BY LayoutAssumption DEF DirWrite, IInv, Control
<1> DEFINE es == DirEntries(disk[RootSector(pos)])
<1>2. \/ \E i \in FirstUnused(es) :
           /\ disk' = [disk EXCEPT ![RootSector(pos)] =
                         Dir([es EXCEPT ![i] = Entry(ShortName[op.name], first, Len(op.data))])]
           /\ written' = [written EXCEPT ![op.name] = op.data]
           /\ Return("ok", Nothing)
           /\ UNCHANGED clean
      \/ /\ FirstUnused(es) = {} /\ UNCHANGED <<disk, written>>
         /\ \/ /\ pos + 1 < SECTORS_PER_CLUSTER /\ pos' = pos + 1
               /\ UNCHANGED <<pc, op, first, cluster, left, todo, out, reply, clean>>
            \/ ~ (pos + 1 < SECTORS_PER_CLUSTER) /\ Return("error", Nothing) /\ clean' = FALSE
  BY Zenon DEF DirWrite
<1>3. CASE \E i \in FirstUnused(es) :
             /\ disk' = [disk EXCEPT ![RootSector(pos)] =
                           Dir([es EXCEPT ![i] = Entry(ShortName[op.name], first, Len(op.data))])]
             /\ written' = [written EXCEPT ![op.name] = op.data]
             /\ Return("ok", Nothing)
             /\ UNCHANGED clean
  <2>1. PICK i \in FirstUnused(es) :
             /\ disk' = [disk EXCEPT ![RootSector(pos)] =
                           Dir([es EXCEPT ![i] = Entry(ShortName[op.name], first, Len(op.data))])]
             /\ written' = [written EXCEPT ![op.name] = op.data]
             /\ Return("ok", Nothing)
             /\ UNCHANGED clean
    BY <1>3
  <2>2. i \in DirSlots /\ es[i] = Unused /\ \A j \in 1 .. i - 1 : es[j] # Unused
    BY DEF FirstUnused
  <2>3. <<pos, i>> \in RootSlots /\ \A j : EntryAt(<<pos, j>>) = es[j]
    BY <1>1, <2>2 DEF RootSlots, EntryAt
  <2>4. EntryMade(<<pos, i>>)
    BY <2>1, <2>2, <2>3 DEF EntryMade
  <2> QED BY <1>1, <2>4
<1> QED BY <1>1, <1>2, <1>3

\* Only the one entry changes.
LEMMA EntryAppears ==
  ASSUME IInv, ChainInv, formatted = "ok", pc = "dir", NEW p, EntryMade(p)
  PROVE  /\ p \in RootSlots
         /\ EntryAt(p)' = Entry(ShortName[op.name], first, Len(op.data))
         /\ EntryAt(p)' \in DirEntry /\ EntryAt(p)' # Unused
         /\ \A q \in RootSlots : q # p => EntryAt(q)' = EntryAt(q)
         /\ DirectoryKept'
         /\ p \notin UsedSlots /\ UsedSlots' = UsedSlots \union {p}
         /\ \A s \in Sectors : s # RootSector(pos) => disk'[s] = disk[s]
         /\ RootSector(pos) \in RootArea
<1> DEFINE r == RootSector(pos)
           es == DirEntries(disk[r])
           e == Entry(ShortName[op.name], first, Len(op.data))
           new == [es EXCEPT ![p[2]] = e]
<1>1. /\ p \in RootSlots /\ p[1] = pos /\ p[2] \in DirSlots /\ r \in RootArea /\ p = <<pos, p[2]>>
      /\ EntryAt(p) = Unused
  BY RootPlace DEF EntryMade
<1>2. es \in [DirSlots -> DirEntry]
  BY <1>1, DirEntriesType DEF ChainInv, DirectoryKept
<1>3. e \in DirEntry /\ e # Unused
  <2>1. op.name \in Names /\ op.data \in Contents \union {<<>>} /\ first # 0 /\ first \in Clusters
    BY DEF ChainInv, CallControl, IInv, Control
  <2>2. ShortName[op.name] \in ShortNames /\ Len(op.data) \in Nat
    BY <2>1, CallerAssumption, ContentsAreSequences
  <2> QED BY <2>1, <2>2 DEF Entry, DirEntry, Unused
<1> HIDE DEF e
<1>4. new \in [DirSlots -> DirEntry] /\ new[p[2]] = e /\ \A i \in DirSlots : i # p[2] => new[i] = es[i]
  BY <1>1, <1>2, <1>3
<1>5. disk' = [disk EXCEPT ![r] = Dir(new)]
  BY DEF EntryMade, e
<1> HIDE DEF new
<1>6. Dir(new) \in DirContents /\ DirEntries(Dir(new)) = new
  BY <1>4 DEF DirContents, DirEntries, Dir
<1>7. disk'[r] = Dir(new) /\ \A s \in Sectors : s # r => disk'[s] = disk[s]
  BY <1>1, <1>5, Areas DEF IInv, DiskKept
<1>8. DirectoryKept'
  BY <1>6, <1>7, Areas DEF ChainInv, DirectoryKept
<1>9. EntryAt(p)' = e
  BY <1>1, <1>4, <1>6, <1>7 DEF EntryAt
<1>10. ASSUME NEW q \in RootSlots, q # p PROVE EntryAt(q)' = EntryAt(q)
  <2>1. q[2] \in DirSlots /\ q = <<q[1], q[2]>> /\ RootSector(q[1]) \in RootArea
    BY RootPlace
  <2>2. CASE RootSector(q[1]) = r
    <3>1. q[1] = pos
      <4>1. q[1] \in 0 .. SECTORS_PER_CLUSTER - 1 /\ pos \in 0 .. SECTORS_PER_CLUSTER - 1
        BY <1>1, RootPlace
      <4> QED BY <2>2, <4>1, RootSectors, Sizes, LayoutAssumption DEF RootSector
    <3>2. q[2] # p[2]
      BY <1>1, <1>10, <2>1, <3>1
    <3> QED BY <1>4, <1>6, <1>7, <2>1, <2>2, <3>2 DEF EntryAt
  <2>3. CASE RootSector(q[1]) # r
    <3>1. disk'[RootSector(q[1])] = disk[RootSector(q[1])]
      BY <1>7, <2>1, <2>3, Areas
    <3> QED BY <3>1 DEF EntryAt
  <2> QED BY <2>2, <2>3
<1>11. p \notin UsedSlots /\ UsedSlots' = UsedSlots \union {p}
  <2>1. EntryAt(p)' # Unused
    BY <1>3, <1>9
  <2>2. \A q : q \in UsedSlots' <=> q \in UsedSlots \/ q = p
    BY <1>1, <1>10, <2>1 DEF UsedSlots
  <2> QED BY <1>1, <2>2 DEF UsedSlots
<1> QED BY <1>1, <1>3, <1>7, <1>8, <1>9, <1>10, <1>11 DEF e

\* The call's chain becomes the file's.
LEMMA FileAppears ==
  ASSUME IInv, ChainInv, formatted = "ok", pc = "dir", NEW p, EntryMade(p),
         NEW n \in Nat \ {0}, NEW s, Owned(s, n)
  PROVE  /\ SizeAt(p)' = n /\ ChainAt(p)' = s /\ ClustersAt(p)' = {s[i] : i \in 1 .. n}
         /\ \A q \in UsedSlots : /\ SizeAt(q)' = SizeAt(q) /\ ChainAt(q)' = ChainAt(q)
                                 /\ ClustersAt(q)' = ClustersAt(q)
         /\ FilesChained'
         /\ \A c \in Clusters : read_fat_entry(c)' = read_fat_entry(c)
<1>1. /\ p \in RootSlots
      /\ EntryAt(p)' = Entry(ShortName[op.name], first, Len(op.data))
      /\ \A q \in RootSlots : q # p => EntryAt(q)' = EntryAt(q)
      /\ p \notin UsedSlots /\ UsedSlots' = UsedSlots \union {p}
      /\ \A z \in Sectors : z # RootSector(pos) => disk'[z] = disk[z]
      /\ RootSector(pos) \in RootArea
  BY EntryAppears
<1>2. \A c \in Clusters : read_fat_entry(c)' = read_fat_entry(c)
  <2>1. \A z \in FatArea : disk'[z] = disk[z]
    BY <1>1, Areas
  <2> QED BY <2>1, FatKept DEF read_fat_entry
<1>3. op.data \in Contents \union {<<>>} /\ todo = <<>>
  BY DEF ChainInv, CallControl, IInv, WritesPaired
<1>4. /\ InRow(s, n) /\ s[1] = first /\ n = NeededClusters(op.data)
      /\ Linked(s, n)
      /\ \A q \in UsedSlots : \A i \in 1 .. n : s[i] \notin ClustersAt(q)
  BY <1>3 DEF Owned, Linked
<1>5. (Linked(s, n))'
  BY <1>2, <1>4 DEF Linked, InRow
<1>6. SizeAt(p)' = n /\ (s[1] = EntryAt(p).first)'
  <2>1. n = ClustersFor(Len(op.data))
    BY <1>3, <1>4, NeededPositive
  <2> QED BY <1>1, <1>4, <2>1 DEF SizeAt, Entry
<1>7. ChainAt(p)' = s /\ ClustersAt(p)' = {s[i] : i \in 1 .. n} /\ HasChain(p)'
  BY <1>1, <1>4, <1>5, <1>6, ChainAtIsNext
<1>8. ASSUME NEW q \in UsedSlots
      PROVE  /\ SizeAt(q)' = SizeAt(q) /\ ChainAt(q)' = ChainAt(q)
             /\ ClustersAt(q)' = ClustersAt(q) /\ HasChain(q)'
  <2>1. q \in RootSlots /\ EntryAt(q)' = EntryAt(q)
    BY <1>1 DEF UsedSlots
  <2>2. /\ SizeAt(q) \in Nat \ {0}
        /\ InRow(ChainAt(q), SizeAt(q)) /\ Linked(ChainAt(q), SizeAt(q))
        /\ ChainAt(q)[1] = EntryAt(q).first
        /\ ClustersAt(q) = {ChainAt(q)[i] : i \in 1 .. SizeAt(q)}
    BY UsedEntry DEF ChainInv
  <2>3. PICK m, t : m \in Nat \ {0} /\ m = SizeAt(q) /\ t = ChainAt(q)
    BY <2>2
  <2>4. InRow(t, m) /\ Linked(t, m) /\ t[1] = EntryAt(q).first /\ ClustersAt(q) = {t[i] : i \in 1 .. m}
    BY <2>2, <2>3
  <2>5. Linked(t, m)'
    BY <1>2, <2>4 DEF Linked, InRow
  <2>6. SizeAt(q)' = m
    BY <2>1, <2>3 DEF SizeAt
  <2>7. (t[1] = EntryAt(q).first /\ m = SizeAt(q))'
    BY <2>1, <2>4, <2>6
  <2>8. ChainAt(q)' = t /\ ClustersAt(q)' = {t[i] : i \in 1 .. m} /\ HasChain(q)'
    BY <2>1, <2>3, <2>4, <2>5, <2>7, ChainAtIsNext
  <2> QED BY <2>3, <2>4, <2>6, <2>8
<1>9. FilesChained'
  <2>1. \A q \in UsedSlots' : HasChain(q)'
    BY <1>1, <1>7, <1>8
  <2>2. ASSUME NEW q1 \in UsedSlots', NEW q2 \in UsedSlots', q1 # q2
        PROVE  ClustersAt(q1)' \cap ClustersAt(q2)' = {}
    <3>1. q1 \in UsedSlots \/ q1 = p
      BY <1>1
    <3>2. q2 \in UsedSlots \/ q2 = p
      BY <1>1
    <3>3. CASE q1 \in UsedSlots /\ q2 \in UsedSlots
      BY <1>8, <2>2, <3>3 DEF ChainInv, FilesChained
    <3>4. CASE q1 = p /\ q2 \in UsedSlots
      BY <1>4, <1>7, <1>8, <3>4
    <3>5. CASE q2 = p /\ q1 \in UsedSlots
      BY <1>4, <1>7, <1>8, <3>5
    <3> QED BY <2>2, <3>1, <3>2, <3>3, <3>4, <3>5
  <2> QED BY <2>1, <2>2 DEF FilesChained
<1> QED BY <1>2, <1>6, <1>7, <1>8, <1>9

\* The entry that write_file makes has the chain that the call has built.
LEMMA DirWriteKeepsChains == ASSUME IInv, ChainInv, DirWrite PROVE ChainInv'
<1>1. /\ pc = "dir" /\ formatted' = formatted /\ pos \in 0 .. SECTORS_PER_CLUSTER - 1
      /\ \/ \E p : EntryMade(p)
         \/ /\ UNCHANGED disk
            /\ \/ /\ pos' = pos + 1
                  /\ UNCHANGED <<pc, op, first, cluster, left, todo, out, clean>>
               \/ Return("error", Nothing) /\ clean' = FALSE
  BY DirWriteDoes
<1>2. CASE \E p : EntryMade(p)
  <2> PICK p : EntryMade(p)
    BY <1>2
  <2>1. CallControl' /\ first' = 0 /\ pc' = "idle" /\ clean' = clean
    BY DEF EntryMade, Return, ClearLocals, CallControl, NoOp
  <2>2. CASE formatted # "ok"
    BY <1>1, <2>1, <2>2, Unready
  <2>3. CASE formatted = "ok"
    <3>1. first # 0
      BY <1>1 DEF ChainInv, CallControl
    <3>2. PICK n, s : n \in Nat \ {0} /\ Owned(s, n)
      BY <2>3, <3>1 DEF ChainInv, OwnChain
    <3>3. /\ ClustersAt(p)' = {s[i] : i \in 1 .. n}
          /\ \A q \in UsedSlots : ClustersAt(q)' = ClustersAt(q)
          /\ FilesChained'
          /\ \A c \in Clusters : read_fat_entry(c)' = read_fat_entry(c)
      BY <1>1, <2>3, <3>2, FileAppears
    <3>4. UsedSlots' = UsedSlots \union {p} /\ DirectoryKept'
      BY <1>1, <2>3, EntryAppears
    <3>5. OwnChain'
      <4>1. clean => Accounted({s[i] : i \in 1 .. n})
        BY <3>2 DEF Owned
      <4>2. clean' => Accounted({})'
        BY <2>1, <3>3, <3>4, <4>1 DEF Accounted
      <4> QED BY <2>1, <4>2 DEF OwnChain
    <3>6. FollowsChain'
      BY <2>1 DEF FollowsChain, Reading
    <3> QED BY <2>1, <3>3, <3>4, <3>5, <3>6 DEF ChainInv
  <2> QED BY <2>2, <2>3
<1>3. CASE UNCHANGED disk /\ Return("error", Nothing) /\ clean' = FALSE
  BY <1>1, <1>3, DiskQuiet, ReturnKeeps
<1>4. CASE /\ UNCHANGED disk /\ pos' = pos + 1
           /\ UNCHANGED <<pc, op, first, cluster, left, todo, out, clean>>
  <2>1. CallControl'
    BY <1>1, <1>4 DEF ChainInv, CallControl
  <2>2. Quiet
    BY <1>1, <1>4, DiskQuiet
  <2>3. CASE formatted # "ok"
    BY <1>1, <2>1, <2>3, Unready
  <2>4. CASE formatted = "ok"
    <3>1. first # 0
      BY <1>1 DEF ChainInv, CallControl
    <3>2. PICK n, s : n \in Nat \ {0} /\ Owned(s, n)
      BY <2>4, <3>1 DEF ChainInv, OwnChain
    <3>3. Owned(s, n)'
      <4>1. left = 0
        BY <1>1, <3>2 DEF Owned
      <4> QED BY <1>1, <1>4, <2>2, <2>4, <3>2, <4>1, QuietOwned DEF ChainInv
    <3>4. OwnChain'
      BY <1>4, <3>1, <3>2, <3>3 DEF OwnChain
    <3>5. FollowsChain'
      BY <1>1, <1>4 DEF FollowsChain, Reading
    <3>6. FilesSpared
      BY <2>2, <2>4, QuietFiles DEF ChainInv
    <3> QED BY <2>1, <3>4, <3>5, <3>6 DEF ChainInv, FilesSpared
  <2> QED BY <2>3, <2>4
<1> QED BY <1>1, <1>2, <1>3, <1>4

(***************************************************************************)
(* Formatting makes none                                                   *)
(***************************************************************************)

\* What format() leaves: an empty root and no cluster in use but the root's.
LEMMA FormatEnds ==
  ASSUME IInv, FormatStep, formatted' = "ok"
  PROVE  /\ \A s \in RootArea : disk'[s] = Zero
         /\ \A c \in Clusters : FatValue(0, c)' = IF c = ROOT_CLUSTER THEN FAT_EOC ELSE FAT_FREE
<1>1. /\ pos \in 0 .. FormatLength - 1
      /\ FatPart(disk', pos + 1) /\ RootPart(disk', pos + 1)
  BY FormatWrites
<1>2. pc = "format" /\ formatted = "no"
  BY DEF FormatStep, IInv, Control
<1>3. FormatLength \in Nat /\ Len(FormatPlan) = FormatLength
  BY Plan, LayoutAssumption DEF FormatLength, FatBegun, FatZeroed, BootDone
<1>4. pos + 1 = FormatLength
  BY <1>1, <1>2, <1>3 DEF FormatStep
<1>5. /\ BootDone = 4 /\ FatZeroed = 4 + 2 * SECTORS_PER_FAT /\ FatBegun = FatZeroed + 2
      /\ FormatLength = FatBegun + SECTORS_PER_CLUSTER
      /\ SECTORS_PER_FAT \in Nat \ {0} /\ SECTORS_PER_CLUSTER \in Nat \ {0}
      /\ FAT_START_SECTOR \in Nat /\ DATA_START_SECTOR \in Nat
  BY Sizes, LayoutAssumption DEF FormatLength, FatBegun, FatZeroed, BootDone
<1>6. \A s \in RootArea : disk'[s] = Zero
  <2> TAKE s \in RootArea
  <2>1. s - DATA_START_SECTOR \in 0 .. SECTORS_PER_CLUSTER - 1
        /\ s = DATA_START_SECTOR + (s - DATA_START_SECTOR)
    BY <1>5 DEF RootArea
  <2>2. pos + 1 > FatBegun + (s - DATA_START_SECTOR)
    BY <1>4, <1>5, <2>1
  <2> QED BY <1>1, <2>1, <2>2 DEF RootPart
<1>7. \A i \in 0 .. SECTORS_PER_FAT - 1 :
        disk'[FAT_START_SECTOR + i] = IF i = 0 THEN FirstFatSector ELSE Zero
  <2> TAKE i \in 0 .. SECTORS_PER_FAT - 1
  <2>1. /\ i \in 0 .. 2 * SECTORS_PER_FAT - 1 /\ pos + 1 > BootDone + i
        /\ Begun(i, pos + 1) <=> i = 0
    BY <1>4, <1>5 DEF Begun
  <2> QED BY <1>1, <2>1 DEF FatPart
<1>8. ASSUME NEW c \in Clusters
      PROVE  FatValue(0, c)' = IF c = ROOT_CLUSTER THEN FAT_EOC ELSE FAT_FREE
  <2>1. PICK i \in 0 .. SECTORS_PER_FAT - 1 : FatSectorOf(0, c) = FAT_START_SECTOR + i
    <3> DEFINE z == FatSectorOf(0, c)
    <3>1. z \in FAT_START_SECTOR .. FAT_START_SECTOR + SECTORS_PER_FAT - 1
      BY FatPlaces
    <3> HIDE DEF z
    <3>2. z - FAT_START_SECTOR \in 0 .. SECTORS_PER_FAT - 1
          /\ z = FAT_START_SECTOR + (z - FAT_START_SECTOR)
      BY <3>1, <1>5
    <3> QED BY <3>2 DEF z
  <2>2. /\ FatValue(0, c)' = FatEntries(disk'[FatSectorOf(0, c)])[FatSlotOf(c)]
        /\ FatSlotOf(c) \in FatSlots
    BY FatPlaces DEF FatValue
  <2>3. c = ROOT_CLUSTER => i = 0 /\ FatSlotOf(c) = 2
    BY <2>1, <1>5, FatPlaces
  <2>4. CASE i = 0
    <3>1. FatValue(0, c)' = IF FatSlotOf(c) <= 2 THEN FAT_EOC ELSE FAT_FREE
      <4>1. FatEntries(disk'[FatSectorOf(0, c)]) =
              [j \in FatSlots |-> IF j <= 2 THEN FAT_EOC ELSE FAT_FREE]
        BY <1>7, <2>1, <2>4, FirstFatSectorHolds
      <4> QED BY <2>2, <4>1
    <3>2. FatSlotOf(c) <= 2 => c = ROOT_CLUSTER
      <4> DEFINE q == c \div FatEntriesPerSector
                 r == c % FatEntriesPerSector
      <4>1. c \in Nat /\ c >= 2 /\ FatEntriesPerSector \in Nat \ {0}
        BY Sizes, LayoutAssumption DEF Clusters
      <4>2. q \in Nat /\ r \in 0 .. FatEntriesPerSector - 1 /\ c = FatEntriesPerSector * q + r
        BY <4>1, Division
      <4>3. FAT_START_SECTOR + 0 * SECTORS_PER_FAT + q = FAT_START_SECTOR
        BY <1>5, <2>1, <2>4 DEF FatSectorOf
      <4> HIDE DEF q, r
      <4>4. q = 0
        BY <1>5, <4>2, <4>3
      <4>5. c = r
        BY <4>1, <4>2, <4>4
      <4> QED BY <4>1, <4>5 DEF r, FatSlotOf, ROOT_CLUSTER
    <3> QED BY <2>3, <3>1, <3>2
  <2>5. CASE i # 0
    <3>1. FatEntries(disk'[FatSectorOf(0, c)]) = [j \in FatSlots |-> FAT_FREE]
      BY <1>7, <2>1, <2>5, FirstFatSectorHolds
    <3>2. FatValue(0, c)' = FAT_FREE
      BY <2>2, <3>1
    <3> QED BY <2>3, <2>5, <3>2
  <2> QED BY <2>4, <2>5
<1> QED BY <1>6, <1>8

\* A root of zeros holds no file.
LEMMA NoFileIn ==
  ASSUME \A s \in RootArea : disk'[s] = Zero
  PROVE  UsedSlots' = {}
<1>1. DirEntries(Zero) = [i \in DirSlots |-> Unused]
  BY DEF DirEntries, Zero
<1>2. \A p \in RootSlots : EntryAt(p)' = Unused
  BY <1>1, RootPlace DEF EntryAt
<1> QED BY <1>2 DEF UsedSlots

\* format() ends with no file and no cluster in use but the root's.
LEMMA FormatStepKeepsChains == ASSUME IInv, ChainInv, FormatStep PROVE ChainInv'
<1>1. /\ UNCHANGED <<op, first, out>> /\ pc = "format" /\ pc' \in {"format", "idle"} /\ first = 0
      /\ formatted = "no" /\ formatted' \in {"no", "ok"}
  BY DEF FormatStep, IInv, Control
<1>2. CallControl'
  BY <1>1 DEF ChainInv, CallControl
<1>3. CASE formatted' # "ok"
  BY <1>2, <1>3, Unready
<1>4. CASE formatted' = "ok"
  <2>1. /\ \A s \in RootArea : disk'[s] = Zero
        /\ \A c \in Clusters : FatValue(0, c)' = IF c = ROOT_CLUSTER THEN FAT_EOC ELSE FAT_FREE
    BY <1>4, FormatEnds
  <2>2. DirectoryKept'
    BY <2>1 DEF DirectoryKept, DirContents
  <2>3. UsedSlots' = {}
    BY <2>1, NoFileIn
  <2>4. FilesChained'
    BY <2>3 DEF FilesChained
  <2>5. OwnChain'
    <3>1. Accounted({})'
      BY <2>1 DEF Accounted, read_fat_entry
    <3> QED BY <1>1, <3>1 DEF OwnChain
  <2>6. FollowsChain'
    BY <1>1 DEF FollowsChain, Reading
  <2> QED BY <1>2, <2>2, <2>4, <2>5, <2>6 DEF ChainInv
<1> QED BY <1>3, <1>4

(***************************************************************************)
(* What holds of the chains                                                *)
(***************************************************************************)

\* Every step keeps the invariant of the chains.
LEMMA NextChainInv == IInv /\ ChainInv /\ [Next]_vars => ChainInv'
<1> SUFFICES ASSUME IInv, ChainInv, [Next]_vars PROVE ChainInv'
  OBVIOUS
<1>1. CASE Step
  BY <1>1, RestartsUnready, FormatStepKeepsChains, FindFreeKeepsChains, FindFullKeepsChains,
     FatWriteKeepsChains, DataWriteKeepsChains, NextClusterKeepsChains, DirWriteKeepsChains,
     LookupKeepsChains, DataReadKeepsChains DEF Step
<1>2. CASE Restart \/ FormatFails \/ TransferFails
  BY <1>2, RestartsUnready, TransferFailsKeepsChains
<1>3. CASE \E n \in Names : BeginRead(n) \/ \E d \in Contents : BeginWrite(n, d)
  BY <1>3, BeginReadKeepsChains, BeginWriteKeepsChains
<1>4. CASE UNCHANGED vars
  <2>1. Quiet
    BY <1>4, DiskQuiet DEF vars, history
  <2>2. UNCHANGED <<pc, op, first, cluster, left, todo, pos, out, formatted, clean, disk>>
    BY <1>4 DEF vars, locals, history
  <2>3. CallControl'
    BY <2>2 DEF ChainInv, CallControl
  <2>4. CASE formatted # "ok"
    BY <2>2, <2>3, <2>4, Unready
  <2>5. CASE formatted = "ok"
    <3>1. FilesSpared
      BY <2>1, <2>5, QuietFiles DEF ChainInv
    <3>2. FollowsChain'
      BY <2>2 DEF ChainInv, FollowsChain, ReadsFile, Reading, InCluster, UsedSlots, EntryAt, SizeAt, ChainAt, Chain,
            read_fat_entry, FatValue
    <3>3. OwnChain'
      <4>1. clean' /\ first' = 0 => Accounted({})'
        <5>1. clean' /\ first' = 0 => Accounted({})
          BY <2>2, <2>5 DEF ChainInv, OwnChain
        <5> QED BY <2>1, <2>5, <5>1, QuietAccounts DEF ChainInv
      <4>2. first' # 0 => \E n \in Nat \ {0} : \E s : Owned(s, n)'
        <5> SUFFICES ASSUME first # 0 PROVE \E n \in Nat \ {0} : \E s : Owned(s, n)'
          BY <2>2
        <5>1. PICK n, s : n \in Nat \ {0} /\ Owned(s, n)
          BY <2>5 DEF ChainInv, OwnChain
        <5>2. /\ pc' \in {"find", "fat"} => cluster' = s[n]
              /\ pc' \in {"data", "next", "dir"} => left = 0
              /\ pc' \in {"data", "next"} => \E j \in 1 .. n : cluster' = s[j] /\ InCluster(j)'
          BY <2>2, <5>1 DEF Owned, InCluster
        <5>3. Owned(s, n)'
          BY <2>1, <2>2, <2>5, <5>1, <5>2, QuietOwned DEF ChainInv
        <5> QED BY <5>1, <5>3
      <4> QED BY <4>1, <4>2 DEF OwnChain
    <3> QED BY <2>3, <3>1, <3>2, <3>3 DEF ChainInv, FilesSpared
  <2> QED BY <2>4, <2>5
<1> QED BY <1>1, <1>2, <1>3, <1>4 DEF Next

\* Both invariants hold in every state of the driver.
LEMMA ChainInvariance == Spec => [](IInv /\ ChainInv)
<1>1. Init => IInv /\ ChainInv
  BY InitIInv, ChainInit
<1>2. IInv /\ ChainInv /\ [Next]_vars => (IInv /\ ChainInv)'
  BY NextIInv, NextChainInv
<1> QED BY <1>1, <1>2, PTL DEF Spec

\* Both copies of the FAT say the same of the files' clusters.
CopiesKept ==
  formatted = "ok" => \A p \in UsedSlots : \A c \in ClustersAt(p) : Same(c)

\* A quiet step leaves both copies alone; a write to the FAT is for the call's own
\* clusters; a new file's clusters are those of the call, whose writes are done.
LEMMA NextCopiesKept == IInv /\ ChainInv /\ CopiesKept /\ [Next]_vars => CopiesKept'
<1> SUFFICES ASSUME IInv, ChainInv, CopiesKept, [Next]_vars, formatted' = "ok"
             PROVE  \A p \in UsedSlots' : \A c \in ClustersAt(p)' : Same(c)'
  BY DEF CopiesKept
<1>1. CASE Quiet
  <2>1. FilesSpared /\ formatted = "ok"
    BY <1>1, QuietFiles DEF Quiet, ChainInv
  <2>2. \A p \in UsedSlots : \A c \in ClustersAt(p) : c \in Clusters
    BY <2>1, UsedEntry DEF ChainInv
  <2> QED BY <1>1, <2>1, <2>2, QuietFat DEF FilesSpared, CopiesKept
<1>2. CASE FatWrite
  <2>1. formatted = "ok" /\ pc = "fat" /\ todo[1] \in FatWrites /\ Len(todo) \in Nat \ {0}
    BY <1>2, FatWriteDoes
  <2>2. FilesSpared
    BY <1>2, <2>1, FatWriteSpares
  <2> PICK w \in FatWrites : w = todo[1]
    BY <2>1
  <2>3. PICK n, s : n \in Nat \ {0} /\ Owned(s, n)
    BY <2>1 DEF ChainInv, CallControl, OwnChain
  <2>4. PICK j \in 1 .. n : w.cluster = s[j]
    BY <2>1, <2>3 DEF Owned
  <2>5. ASSUME NEW p \in UsedSlots, NEW c \in ClustersAt(p) PROVE Same(c)'
    <3>1. c \in Clusters /\ c # w.cluster /\ Same(c)
      BY <2>1, <2>3, <2>4, UsedEntry DEF Owned, ChainInv, CopiesKept
    <3>2. \A k \in {0, 1} : FatValue(k, c)' = FatValue(k, c)
      BY <1>2, <3>1, FatWriteDoes
    <3> QED BY <3>1, <3>2 DEF Same
  <2> QED BY <2>2, <2>5 DEF FilesSpared
<1>3. CASE DirWrite
  <2>1. /\ pc = "dir" /\ formatted = "ok"
        /\ (\E p : EntryMade(p)) \/ UNCHANGED disk
    BY <1>3, DirWriteDoes
  <2>2. CASE UNCHANGED disk
    BY <1>1, <2>1, <2>2, DiskQuiet
  <2>3. CASE \E p : EntryMade(p)
    <3> PICK p : EntryMade(p)
      BY <2>3
    <3>1. PICK n, s : n \in Nat \ {0} /\ Owned(s, n)
      BY <2>1 DEF ChainInv, CallControl, OwnChain
    <3>2. /\ ClustersAt(p)' = {s[i] : i \in 1 .. n} /\ UsedSlots' = UsedSlots \union {p}
          /\ \A q \in UsedSlots : ClustersAt(q)' = ClustersAt(q)
          /\ \A z \in Sectors : z # RootSector(pos) => disk'[z] = disk[z]
          /\ RootSector(pos) \in RootArea
      BY <2>1, <3>1, FileAppears, EntryAppears
    <3>3. \A k \in {0, 1} : \A c \in Clusters : FatValue(k, c)' = FatValue(k, c)
      <4>1. \A z \in FatArea : disk'[z] = disk[z]
        BY <3>2, Areas
      <4> QED BY <4>1, FatKept
    <3>4. todo = <<>>
      BY <2>1 DEF IInv, WritesPaired
    <3>5. \A i \in 1 .. n : s[i] \in Clusters /\ Same(s[i])
      BY <3>1, <3>4 DEF Owned, InRow, Mirrored, SecondCopyDue
    <3>6. ASSUME NEW q \in UsedSlots, NEW c \in ClustersAt(q) PROVE c \in Clusters /\ Same(c)
      BY <2>1, UsedEntry DEF ChainInv, CopiesKept
    <3>7. \A c \in Clusters : Same(c) => Same(c)'
      BY <3>3 DEF Same
    <3> QED BY <3>2, <3>5, <3>6, <3>7
  <2> QED BY <2>1, <2>2, <2>3
<1>4. CASE FormatStep
  <2>1. \A r \in RootArea : disk'[r] = Zero
    BY <1>4, FormatEnds
  <2>2. UsedSlots' = {}
    BY <2>1, NoFileIn
  <2> QED BY <2>2
<1>5. CASE DataWrite
  BY <1>1, <1>5, DataWritePlace DEF DataWrite, history
<1>6. CASE UNCHANGED <<disk, formatted>>
  BY <1>1, <1>6, DiskQuiet
<1>7. CASE AtaTest \/ Restart \/ FormatFails
  BY <1>7 DEF AtaTest, Restart, FormatFails, history, IInv, Control
<1>8. CASE FindFree \/ FindFull \/ NextCluster \/ Lookup \/ DataRead \/ TransferFails
  BY <1>6, <1>8 DEF FindFree, FindFull, NextCluster, Lookup, DataRead, TransferFails, history
<1>9. CASE \E n \in Names : BeginRead(n) \/ \E d \in Contents : BeginWrite(n, d)
  BY <1>6, <1>9 DEF BeginRead, BeginWrite, BeginCall, history
<1>10. CASE UNCHANGED vars
  BY <1>6, <1>10 DEF vars, history
<1> QED BY <1>2, <1>3, <1>4, <1>5, <1>7, <1>8, <1>9, <1>10 DEF Next, Step

\* The invariants give the property of the copies.
LEMMA CopiesShow == IInv /\ CopiesKept => CopiesAgree
BY IInvShows DEF CopiesKept, CopiesAgree, Same

\* On a formatted disk of any geometry, whatever failed before, between the copies of
\* an entry too, both copies of the FAT say the same of every file's clusters; and of
\* every cluster whenever the driver is idle and no write_file has failed
\* (CopiesAgree).
THEOREM TheCopiesAgree == Spec => []CopiesAgree
<1>1. Init => CopiesKept
  BY DEF Init, CopiesKept
<1>2. (IInv /\ ChainInv) /\ (IInv /\ ChainInv)' /\ CopiesKept /\ [Next]_vars => CopiesKept'
  BY NextCopiesKept
<1>3. Spec => []CopiesKept
  BY <1>1, <1>2, ChainInvariance, PTL DEF Spec
<1>4. Spec => []IInv
  BY Invariance
<1> QED BY <1>3, <1>4, CopiesShow, PTL

\* A chain in a row has as many clusters as it is long.
LEMMA RowSize ==
  ASSUME NEW n \in Nat, NEW s, InRow(s, n)
  PROVE  Cardinality({s[i] : i \in 1 .. n}) = n
<1> DEFINE S == {s[i] : i \in 1 .. n}
<1>1. s \in Bijection(1 .. n, S)
  BY DEF InRow, Bijection, Injection, Surjection, IsInjective
<1>2. ExistsBijection(1 .. n, S)
  BY <1>1 DEF ExistsBijection
<1> HIDE DEF S
<1>3. Cardinality(S) = n
  BY <1>2, FS_CountingElements
<1> QED BY <1>3 DEF S

\* The invariants give the three properties of the chains.
LEMMA ChainsAreSound == IInv /\ ChainInv => ChainsSound
<1> SUFFICES ASSUME IInv, ChainInv, formatted = "ok" PROVE ChainsSound
  BY DEF ChainsSound
<1>1. pc # "astray"
  BY DEF ChainInv, FollowsChain
<1>2. ASSUME NEW p \in UsedSlots
      PROVE  /\ ClustersAt(p) \subseteq Clusters \ {ROOT_CLUSTER}
             /\ Cardinality(ClustersAt(p)) = SizeAt(p)
             /\ read_fat_entry(ChainAt(p)[SizeAt(p)]) = FAT_EOC
  <2>1. /\ SizeAt(p) \in Nat \ {0}
        /\ InRow(ChainAt(p), SizeAt(p)) /\ Linked(ChainAt(p), SizeAt(p))
        /\ ClustersAt(p) = {ChainAt(p)[i] : i \in 1 .. SizeAt(p)}
        /\ ClustersAt(p) \subseteq Clusters \ {ROOT_CLUSTER}
    BY UsedEntry DEF ChainInv
  <2>2. Cardinality(ClustersAt(p)) = SizeAt(p)
    BY <2>1, RowSize
  <2>3. read_fat_entry(ChainAt(p)[SizeAt(p)]) = FAT_EOC
    BY <2>1 DEF Linked, After
  <2> QED BY <2>1, <2>2, <2>3
<1> QED BY <1>1, <1>2 DEF ChainsSound, SizeAt

\* ... that no two files share a cluster, nor a file and the call under way,
LEMMA NoClusterIsShared == IInv /\ ChainInv => NoCrossLink
<1> SUFFICES ASSUME IInv, ChainInv, formatted = "ok" PROVE NoCrossLink
  BY DEF NoCrossLink
<1>1. \A p, q \in UsedSlots : p # q => ClustersAt(p) \cap ClustersAt(q) = {}
  BY DEF ChainInv, FilesChained
<1>2. ASSUME NEW p \in UsedSlots, pc = "data"
      PROVE  cluster \notin ClustersAt(p)
  <2>1. first # 0
    BY <1>2 DEF ChainInv, CallControl
  <2>2. PICK n \in Nat \ {0} : \E s : Owned(s, n)
    BY <2>1 DEF ChainInv, OwnChain
  <2>3. PICK s : Owned(s, n)
    BY <2>2
  <2> QED BY <1>2, <2>3 DEF Owned
<1> QED BY <1>1, <1>2 DEF NoCrossLink

\* ... and that nothing leaks.
LEMMA NothingLeaks == IInv /\ ChainInv => NoLeak
<1> SUFFICES ASSUME IInv, ChainInv, formatted = "ok", clean, pc = "idle" PROVE NoLeak
  BY DEF NoLeak
<1>1. first = 0
  BY DEF IInv, Control
<1>2. Accounted({})
  BY <1>1 DEF ChainInv, OwnChain
<1> QED BY <1>2 DEF NoLeak, Accounted

\* On a formatted disk of any geometry, over errors and restarts, every directory
\* entry has as many different clusters as its size needs, ended by the end mark
\* and none of them the root's, and no call follows a chain off its end
\* (ChainsSound).
THEOREM TheChainsAreSound == Spec => []ChainsSound
BY ChainInvariance, ChainsAreSound, PTL

\* No cluster belongs to two files, nor to a file and the write_file under way,
\* whatever calls failed half-way before (NoCrossLink).
THEOREM FilesShareNoCluster == Spec => []NoCrossLink
BY ChainInvariance, NoClusterIsShared, PTL

\* As long as no write_file has failed, every cluster in use belongs to the root
\* or to a file when the driver is idle: a successful write leaks nothing
\* (NoLeak).
THEOREM WritesLeakNothing == Spec => []NoLeak
BY ChainInvariance, NothingLeaks, PTL

(***************************************************************************)
(* Places on the disk                                                      *)
(***************************************************************************)

\* The cluster of a chain in which the k-th chunk is.
ClusterOf(k) == 1 + ((k - 1) \div SECTORS_PER_CLUSTER)

\* A file's chain has a cluster for each of its chunks.
LEMMA InAFileOf ==
  ASSUME NEW l \in Nat, NEW k \in 1 .. l
  PROVE  ClusterOf(k) \in 1 .. ClustersFor(l) /\ k - 1 \in Nat
<1> DEFINE j == (k - 1) \div SECTORS_PER_CLUSTER
<1>1. k - 1 \in Nat /\ k - 1 < l
  OBVIOUS
<1>2. j \in Nat /\ k - 1 = SECTORS_PER_CLUSTER * j + ((k - 1) % SECTORS_PER_CLUSTER)
      /\ (k - 1) % SECTORS_PER_CLUSTER \in Nat
  <2>1. /\ (k - 1) % SECTORS_PER_CLUSTER \in 0 .. SECTORS_PER_CLUSTER - 1 /\ j \in Nat
        /\ k - 1 = SECTORS_PER_CLUSTER * j + ((k - 1) % SECTORS_PER_CLUSTER)
    BY <1>1, Division, LayoutAssumption
  <2> QED BY <2>1
<1>3. j * SECTORS_PER_CLUSTER < l
  <2> DEFINE r == (k - 1) % SECTORS_PER_CLUSTER
  <2>1. r \in Nat /\ k - 1 = SECTORS_PER_CLUSTER * j + r
    BY <1>2
  <2> HIDE DEF j, r
  <2>2. SECTORS_PER_CLUSTER * j = j * SECTORS_PER_CLUSTER /\ j * SECTORS_PER_CLUSTER \in Nat
    BY <1>2, LayoutAssumption
  <2> QED BY <1>1, <2>1, <2>2
<1>4. j < ClustersFor(l) /\ ClustersFor(l) \in Nat
  BY <1>2, <1>3, NotLast, Enough
<1> HIDE DEF j
<1>5. 1 + j \in 1 .. ClustersFor(l)
  BY <1>2, <1>4
<1> QED BY <1>1, <1>5 DEF ClusterOf, j

\* Sectors of data are the same only if cluster and place in the cluster are.
LEMMA SectorsDiffer ==
  ASSUME NEW c \in Clusters, NEW d \in Clusters, NEW i \in Nat, NEW j \in Nat,
         SectorAt(c, i) = SectorAt(d, j)
  PROVE  c = d /\ i % SECTORS_PER_CLUSTER = j % SECTORS_PER_CLUSTER
<1>1. /\ i % SECTORS_PER_CLUSTER \in 0 .. SECTORS_PER_CLUSTER - 1
      /\ j % SECTORS_PER_CLUSTER \in 0 .. SECTORS_PER_CLUSTER - 1
  BY Division, LayoutAssumption
<1> QED BY <1>1, ClusterSectorsDistinct DEF SectorAt

\* The clusters that are not the root's lie in the files' area.
LEMMA SectorsOfFiles ==
  \A c \in Clusters \ {ROOT_CLUSTER} : \A i \in Nat : SectorAt(c, i) \in FileArea
<1> SUFFICES ASSUME NEW c \in Clusters \ {ROOT_CLUSTER}, NEW i \in Nat
             PROVE  SectorAt(c, i) \in FileArea
  OBVIOUS
<1>1. i % SECTORS_PER_CLUSTER \in 0 .. SECTORS_PER_CLUSTER - 1
  BY Division, LayoutAssumption
<1> QED BY <1>1, FileSectors DEF SectorAt

\* Chunks in the same cluster of a chain and the same place in it are the same.
LEMMA ChunksDiffer ==
  ASSUME NEW k \in Nat \ {0}, NEW m \in Nat \ {0}, ClusterOf(k) = ClusterOf(m),
         (k - 1) % SECTORS_PER_CLUSTER = (m - 1) % SECTORS_PER_CLUSTER
  PROVE  k = m
<1> DEFINE a == (k - 1) \div SECTORS_PER_CLUSTER
           b == (m - 1) \div SECTORS_PER_CLUSTER
<1>1. k - 1 \in Nat /\ m - 1 \in Nat
  OBVIOUS
<1>2. /\ a \in Nat /\ k - 1 = SECTORS_PER_CLUSTER * a + ((k - 1) % SECTORS_PER_CLUSTER)
      /\ b \in Nat /\ m - 1 = SECTORS_PER_CLUSTER * b + ((m - 1) % SECTORS_PER_CLUSTER)
  BY <1>1, Division, LayoutAssumption
<1>3. a = b
  <2>1. 1 + a = 1 + b
    BY DEF ClusterOf
  <2> HIDE DEF a, b
  <2> QED BY <1>2, <2>1
<1>4. k - 1 = m - 1
  <2> HIDE DEF a, b
  <2> QED BY <1>2, <1>3
<1> QED BY <1>4

(***************************************************************************)
(* The directory as a list                                                 *)
(***************************************************************************)

HitsOf(s) == {p \in UsedSlots : EntryAt(p).name = s}

\* The first entry of the name.
FirstHit(p, s) == p \in HitsOf(s) /\ \A q \in HitsOf(s) : p = q \/ Before(p, q)

ContentAt(p) ==
  [k \in 1 .. EntryAt(p).size |-> Chunk(disk[SectorAt(ChainAt(p)[ClusterOf(k)], k - 1)])]

\* Before is a total order on the places of the directory.
LEMMA SlotOrder ==
  \A p, q \in RootSlots : /\ p = q \/ Before(p, q) \/ Before(q, p)
                          /\ ~ (Before(p, q) /\ Before(q, p)) /\ ~ Before(p, p)
<1> SUFFICES ASSUME NEW p \in RootSlots, NEW q \in RootSlots
             PROVE  /\ p = q \/ Before(p, q) \/ Before(q, p)
                    /\ ~ (Before(p, q) /\ Before(q, p)) /\ ~ Before(p, p)
  OBVIOUS
<1>1. /\ p = <<p[1], p[2]>> /\ q = <<q[1], q[2]>>
      /\ p[1] \in Int /\ p[2] \in Int /\ q[1] \in Int /\ q[2] \in Int
  BY RootPlace, LayoutAssumption, CallerAssumption DEF DirSlots
<1> PICK a \in Int, b \in Int, c \in Int, d \in Int : a = p[1] /\ b = p[2] /\ c = q[1] /\ d = q[2]
  BY <1>1
<1> QED BY <1>1 DEF Before

\* Of the entries of a name one is the first.
LEMMA OneIsFirst == \A s : HitsOf(s) # {} => \E p : FirstHit(p, s)
<1> SUFFICES ASSUME NEW s, HitsOf(s) # {} PROVE \E p : FirstHit(p, s)
  OBVIOUS
<1>1. \A p \in HitsOf(s) : p \in RootSlots /\ p[1] \in Nat /\ p[2] \in Nat /\ p = <<p[1], p[2]>>
  BY RootPlace, LayoutAssumption, CallerAssumption DEF HitsOf, UsedSlots, DirSlots
<1>2. PICK p1 \in HitsOf(s) : \A q \in HitsOf(s) : p1[1] <= q[1]
  <2> DEFINE S == {q[1] : q \in HitsOf(s)}
  <2>1. S \subseteq Nat /\ S # {}
    BY <1>1
  <2> HIDE DEF S
  <2>2. PICK x \in S : \A y \in S : x <= y
    BY <2>1, LeastNumber
  <2> QED BY <2>2 DEF S
<1> DEFINE T == {q[2] : q \in {r \in HitsOf(s) : r[1] = p1[1]}}
<1>3. PICK y \in T : \A z \in T : y <= z
  <2>1. T \subseteq Nat /\ T # {}
    BY <1>1
  <2> HIDE DEF T
  <2> QED BY <2>1, LeastNumber
<1>4. PICK p \in HitsOf(s) : p[1] = p1[1] /\ p[2] = y
  OBVIOUS
<1>5. ASSUME NEW q \in HitsOf(s) PROVE p = q \/ Before(p, q)
  <2>1. p[1] <= q[1] /\ (q[1] = p[1] => p[2] <= q[2])
    BY <1>2, <1>3, <1>4
  <2> HIDE DEF T
  <2>2. /\ p = <<p[1], p[2]>> /\ q = <<q[1], q[2]>>
        /\ p[1] \in Nat /\ p[2] \in Nat /\ q[1] \in Nat /\ q[2] \in Nat
    BY <1>1
  <2> QED BY <2>1, <2>2 DEF Before
<1> QED BY <1>5 DEF FirstHit

\* What a name holds is the content of its first entry.
LEMMA VisibleIs ==
  \A s : /\ HitsOf(s) = {} => Visible(s) = Nothing
         /\ \A p : FirstHit(p, s) => Visible(s) = ContentAt(p)
<1> SUFFICES ASSUME NEW s
             PROVE  /\ HitsOf(s) = {} => Visible(s) = Nothing
                    /\ \A p : FirstHit(p, s) => Visible(s) = ContentAt(p)
  OBVIOUS
<1>1. HitsOf(s) = {} => Visible(s) = Nothing
  BY Zenon DEF Visible, HitsOf
<1>2. ASSUME NEW p, FirstHit(p, s) PROVE Visible(s) = ContentAt(p)
  <2> DEFINE c == CHOOSE q \in HitsOf(s) : \A r \in HitsOf(s) : q = r \/ Before(q, r)
  <2>1. HitsOf(s) # {}
    BY <1>2 DEF FirstHit
  <2>2. Visible(s) = ContentAt(c)
    BY <2>1, Zenon DEF Visible, HitsOf, ContentAt, ClusterOf
  <2>3. c \in HitsOf(s) /\ \A r \in HitsOf(s) : c = r \/ Before(c, r)
    BY <1>2, Zenon DEF FirstHit
  <2> HIDE DEF c
  <2>4. c = p
    BY <1>2, <2>3, SlotOrder DEF FirstHit, HitsOf, UsedSlots
  <2> QED BY <2>2, <2>4
<1> QED BY <1>1, <1>2

\* The same in the next state.
LEMMA VisibleIsNext ==
  (\A s : /\ HitsOf(s) = {} => Visible(s) = Nothing
          /\ \A p : FirstHit(p, s) => Visible(s) = ContentAt(p))'
BY VisibleIs, PTL

(***************************************************************************)
(* What the invariant says of contents                                     *)
(***************************************************************************)

\* The used entries of the directory are the first ones.
UsedFirst == \A p \in UsedSlots : \A q \in RootSlots : Before(q, p) => q \in UsedSlots

FilesWhole == \A p \in UsedSlots : ContentAt(p) \in Contents

ToWrite == pc = "find" \/ first # 0 => op.data \in Contents

\* The data written so far is in the call's own chain.
OwnSector(k) == SectorAt(Chain(first, NeededClusters(op.data))[ClusterOf(k)], k - 1)

DataDone ==
  first # 0 /\ pc \in {"data", "next", "dir"} =>
    \A k \in 1 .. Len(op.data) :
      pc = "dir" \/ k <= pos => disk[OwnSector(k)] = Data(op.data[k])

\* The sectors of the directory that write_file has passed are full.
DirScan == pc = "dir" => \A q \in RootSlots : q[1] < pos => q \in UsedSlots

\* The name is not in those that read_file has passed.
LookScan == pc = "lookup" => \A q \in HitsOf(ShortName[op.name]) : ~ (q[1] < pos)

\* What read_file has read is the beginning of what the name holds.
ReadSoFar ==
  Reading =>
    \E p : /\ ReadsFile(p) /\ FirstHit(p, ShortName[op.name])
           /\ \A k \in 1 .. Len(out) : out[k] = ContentAt(p)[k]

StoreInv ==
  formatted = "ok" =>
    UsedFirst /\ FilesWhole /\ ToWrite /\ DataDone /\ DirScan /\ LookScan /\ ReadSoFar

(***************************************************************************)
(* The store that Fat32 refines to                                         *)
(***************************************************************************)

Files == [s \in ShortNames |-> IF formatted = "ok" THEN Visible(s) ELSE Nothing]

StoreStep == [Store!FSNext]_(Store!fsVars)

\* Ways for a step of the driver to be a step of the store, or to change nothing
\* of it.
LEMMA StepsOfTheStore ==
  /\ Files' = Files /\ formatted' = formatted /\ reply' = reply => StoreStep
  /\ Files' = Files /\ (formatted # "ok" /\ formatted' # "ok") => StoreStep
  /\ Files' = Files /\ formatted' = formatted /\ reply' = NoReply => StoreStep
  /\ \A n \in Names :
       Files' = Files /\ formatted' = formatted
         /\ reply' = [kind |-> "error", name |-> n, data |-> Nothing] => StoreStep
  /\ \A n \in Names :
       Files' = Files /\ formatted = "ok" /\ formatted' = "ok"
         /\ reply' = (IF Files[ShortName[n]] = Nothing
                      THEN [kind |-> "notfound", name |-> n, data |-> Nothing]
                      ELSE [kind |-> "data", name |-> n, data |-> Files[ShortName[n]]])
         => StoreStep
  /\ \A n \in Names : \A d \in Contents :
       Files' = [Files EXCEPT ![ShortName[n]] = IF @ = Nothing THEN d ELSE @]
         /\ formatted = "ok" /\ formatted' = "ok"
         /\ reply' = [kind |-> "ok", name |-> n, data |-> Nothing] => StoreStep
<1> USE DEF StoreStep, Store!FSNext, Store!fsVars, Files
<1>1. Files' = Files /\ formatted' = formatted /\ reply' = reply => StoreStep
  OBVIOUS
<1>2. Files' = Files /\ (formatted # "ok" /\ formatted' # "ok") => StoreStep
  BY DEF Store!Unformatted
<1>3. Files' = Files /\ formatted' = formatted /\ reply' = NoReply => StoreStep
  BY DEF Store!Begin, Store!NoReply, NoReply
<1>4. ASSUME NEW n \in Names, Files' = Files /\ formatted' = formatted,
             reply' = [kind |-> "error", name |-> n, data |-> Nothing]
      PROVE  StoreStep
  BY <1>4 DEF Store!Fail, Store!Reply
<1>5. ASSUME NEW n \in Names, Files' = Files /\ formatted = "ok" /\ formatted' = "ok",
             reply' = (IF Files[ShortName[n]] = Nothing
                      THEN [kind |-> "notfound", name |-> n, data |-> Nothing]
                      ELSE [kind |-> "data", name |-> n, data |-> Files[ShortName[n]]])
      PROVE  StoreStep
  BY <1>5, Zenon DEF Store!Get, Store!Reply
<1>6. ASSUME NEW n \in Names, NEW d \in Contents,
             Files' = [Files EXCEPT ![ShortName[n]] = IF @ = Nothing THEN d ELSE @],
             formatted = "ok" /\ formatted' = "ok",
             reply' = [kind |-> "ok", name |-> n, data |-> Nothing]
      PROVE  StoreStep
  BY <1>6, Zenon DEF Store!Put, Store!Reply
<1> QED BY <1>1, <1>2, <1>3, <1>4, <1>5, <1>6, Zenon

\* The two steps that leave no file: the end of format() and the restart.
LEMMA StepsThatEmptyTheStore ==
  /\ Files' = [s \in ShortNames |-> Nothing] /\ formatted # "ok" /\ formatted' = "ok"
       /\ reply' = reply => StoreStep
  /\ Files' = [s \in ShortNames |-> Nothing] /\ formatted' # "ok" /\ reply' = NoReply => StoreStep
BY Zenon DEF StoreStep, Store!FSNext, Store!fsVars, Files, Store!Format, Store!Restart, Store!NoReply,
  NoReply

\* While the disk is not formatted the store is empty and nothing is promised.
LEMMA NotReady ==
  /\ formatted # "ok" => Files = [s \in ShortNames |-> Nothing]
  /\ formatted' # "ok" => Files' = [s \in ShortNames |-> Nothing] /\ StoreInv'
BY DEF Files, StoreInv

\* A step on a disk that was not formatted.
LEMMA NothingPromised ==
  ASSUME formatted # "ok", formatted' # "ok"
  PROVE  StoreInv' /\ StoreStep
BY NotReady, StepsOfTheStore

(***************************************************************************)
(* Steps that change no file                                               *)
(***************************************************************************)

DataSpared ==
  \A p \in UsedSlots : \A c \in ClustersAt(p) : \A i \in Nat :
    disk'[SectorAt(c, i)] = disk[SectorAt(c, i)]

StoreSteady ==
  /\ formatted' = formatted
  /\ \A p \in UsedSlots : ContentAt(p)' = ContentAt(p)
  /\ \A s : HitsOf(s)' = HitsOf(s)
  /\ \A s : \A p : FirstHit(p, s)' <=> FirstHit(p, s)
  /\ UsedSlots' = UsedSlots
  /\ Files' = Files
  /\ UsedFirst => UsedFirst'
  /\ FilesWhole => FilesWhole'

\* The cluster in which a file's k-th chunk is is one of the file's.
LEMMA ChunkPlace ==
  ASSUME ChainInv, formatted = "ok", NEW p \in UsedSlots, NEW k \in 1 .. EntryAt(p).size
  PROVE  ChainAt(p)[ClusterOf(k)] \in ClustersAt(p) /\ k - 1 \in Nat /\ ClusterOf(k) \in 1 .. SizeAt(p)
<1>1. /\ EntryAt(p).size \in Nat
      /\ ClustersAt(p) = {ChainAt(p)[i] : i \in 1 .. SizeAt(p)}
  BY UsedEntry DEF ChainInv
<1>2. ClusterOf(k) \in 1 .. SizeAt(p) /\ k - 1 \in Nat
  BY <1>1, InAFileOf DEF SizeAt
<1> QED BY <1>1, <1>2

\* A file keeps its content when its entry, its chain and its sectors stay as they
\* are.
LEMMA ContentSteady ==
  ASSUME ChainInv, formatted = "ok", DataSpared, NEW p \in UsedSlots,
         EntryAt(p)' = EntryAt(p), ChainAt(p)' = ChainAt(p)
  PROVE  ContentAt(p)' = ContentAt(p)
<1>1. \A k \in 1 .. EntryAt(p).size :
        disk'[SectorAt(ChainAt(p)[ClusterOf(k)], k - 1)] = disk[SectorAt(ChainAt(p)[ClusterOf(k)], k - 1)]
  BY ChunkPlace DEF DataSpared
<1>2. ContentAt(p)' = [k \in 1 .. EntryAt(p).size |->
                         Chunk(disk'[SectorAt(ChainAt(p)[ClusterOf(k)], k - 1)])]
  BY DEF ContentAt
<1> QED BY <1>1, <1>2 DEF ContentAt

\* A step that spares chains and data changes no file.
LEMMA Steady ==
  ASSUME ChainInv, formatted = "ok", formatted' = formatted, FilesSpared, DataSpared
  PROVE  StoreSteady
<1>1. /\ UsedSlots' = UsedSlots /\ \A p \in RootSlots : EntryAt(p)' = EntryAt(p)
      /\ \A p \in UsedSlots : ChainAt(p)' = ChainAt(p) /\ p \in RootSlots
  BY DEF FilesSpared, UsedSlots
<1>2. \A p \in UsedSlots : ContentAt(p)' = ContentAt(p)
  BY <1>1, ContentSteady
<1>3. \A s : HitsOf(s)' = HitsOf(s)
  BY <1>1 DEF HitsOf
<1>4. \A s : \A p : FirstHit(p, s)' <=> FirstHit(p, s)
  BY <1>3 DEF FirstHit, Before
<1>5. \A s : Visible(s)' = Visible(s)
  <2> SUFFICES ASSUME NEW s PROVE Visible(s)' = Visible(s)
    OBVIOUS
  <2>1. CASE HitsOf(s) = {}
    BY <1>3, <2>1, VisibleIs, VisibleIsNext
  <2>2. CASE HitsOf(s) # {}
    <3>1. PICK p : FirstHit(p, s)
      BY <2>2, OneIsFirst
    <3>2. Visible(s) = ContentAt(p) /\ Visible(s)' = ContentAt(p)'
      BY <1>4, <3>1, VisibleIs, VisibleIsNext
    <3>3. p \in UsedSlots
      BY <3>1 DEF FirstHit, HitsOf
    <3> QED BY <1>2, <3>2, <3>3
  <2> QED BY <2>1, <2>2
<1>6. Files' = Files
  BY <1>5 DEF Files
<1>7. UsedFirst => UsedFirst'
  BY <1>1 DEF UsedFirst, Before
<1>8. FilesWhole => FilesWhole'
  BY <1>1, <1>2 DEF FilesWhole
<1> QED BY <1>1, <1>2, <1>3, <1>4, <1>6, <1>7, <1>8 DEF StoreSteady

\* Neither does one that leaves the disk alone.
LEMMA SteadyDisk ==
  ASSUME ChainInv, formatted = "ok", UNCHANGED <<disk, formatted>>
  PROVE  StoreSteady
<1>1. FilesSpared
  BY DiskQuiet, QuietFiles DEF ChainInv
<1>2. DataSpared
  BY DEF DataSpared
<1> QED BY <1>1, <1>2, Steady

(***************************************************************************)
(* Calls that begin and end, and the reserving of clusters                 *)
(***************************************************************************)

\* A step after which no call is under way.
LEMMA AtRest ==
  ASSUME StoreInv, StoreSteady, formatted = "ok", pc' = "idle", first' = 0
  PROVE  StoreInv'
<1>1. UsedFirst' /\ FilesWhole'
  BY DEF StoreInv, StoreSteady
<1> QED BY <1>1 DEF StoreInv, ToWrite, DataDone, DirScan, LookScan, ReadSoFar, Reading

\* A step into the part of a call in which it reserves clusters.
LEMMA Reserving ==
  ASSUME StoreInv, StoreSteady, formatted = "ok", pc' \in {"find", "fat"}, op'.data \in Contents
  PROVE  StoreInv'
<1>1. UsedFirst' /\ FilesWhole'
  BY DEF StoreInv, StoreSteady
<1> QED BY <1>1 DEF StoreInv, ToWrite, DataDone, DirScan, LookScan, ReadSoFar, Reading

\* The name of the call under way is one that callers pass.
LEMMA CallersName ==
  ASSUME ChainInv, pc \notin {"ata_test", "format", "idle"}
  PROVE  op.name \in Names /\ ShortName[op.name] \in ShortNames
BY CallerAssumption DEF ChainInv, CallControl

\* A call that fails changes no file.
LEMMA FailedCallStores ==
  ASSUME IInv, ChainInv, StoreInv, TransferFails \/ FindFull
  PROVE  StoreInv' /\ StoreStep
<1>1. /\ pc \notin {"ata_test", "format", "idle"} /\ UNCHANGED <<disk, formatted>>
      /\ pc' = "idle" /\ first' = 0
      /\ reply' = [kind |-> "error", name |-> op.name, data |-> Nothing]
  BY DEF TransferFails, FindFull, Return, ClearLocals
<1>2. CASE formatted = "ok"
  <2>1. StoreSteady
    BY <1>1, <1>2, SteadyDisk
  <2>2. StoreInv'
    BY <1>1, <1>2, <2>1, AtRest
  <2>3. StoreStep
    <3>1. op.name \in Names /\ Files' = Files
      BY <1>1, <2>1, CallersName DEF StoreSteady
    <3> QED BY <1>1, <3>1, StepsOfTheStore
  <2> QED BY <2>2, <2>3
<1>3. CASE formatted # "ok"
  BY <1>1, <1>3, NothingPromised
<1> QED BY <1>2, <1>3

\* A call that begins changes no file.
LEMMA BeginReadStores ==
  ASSUME IInv, ChainInv, StoreInv, NEW n \in Names, BeginRead(n)
  PROVE  StoreInv' /\ StoreStep
<1>1. /\ pc' = "lookup" /\ UNCHANGED <<disk, formatted>> /\ first' = 0 /\ pos' = 0 /\ reply' = NoReply
  BY DEF BeginRead, BeginCall, history, IInv, Control
<1>2. CASE formatted = "ok"
  <2>1. StoreSteady
    BY <1>1, <1>2, SteadyDisk
  <2>2. UsedFirst' /\ FilesWhole' /\ formatted' = formatted /\ Files' = Files
    BY <1>2, <2>1 DEF StoreInv, StoreSteady
  <2>3. LookScan'
    <3>1. \A q \in HitsOf(ShortName[op.name])' : q \in RootSlots
      BY DEF HitsOf, UsedSlots, RootSlots
    <3> QED BY <1>1, <3>1, RootPlace, LayoutAssumption DEF LookScan
  <2>4. StoreInv'
    BY <1>1, <2>2, <2>3 DEF StoreInv, ToWrite, DataDone, DirScan, ReadSoFar, Reading
  <2> QED BY <1>1, <2>2, <2>4, StepsOfTheStore
<1>3. CASE formatted # "ok"
  BY <1>1, <1>3, NothingPromised
<1> QED BY <1>2, <1>3

\* ... nor does one that will write.
LEMMA BeginWriteStores ==
  ASSUME IInv, ChainInv, StoreInv, NEW n \in Names, NEW d \in Contents, BeginWrite(n, d)
  PROVE  StoreInv' /\ StoreStep
<1>1. /\ pc' = "find" /\ UNCHANGED <<disk, formatted>> /\ op'.data = d /\ reply' = NoReply
  BY DEF BeginWrite, BeginCall, history
<1>2. CASE formatted = "ok"
  <2>1. StoreSteady
    BY <1>1, <1>2, SteadyDisk
  <2>2. StoreInv'
    BY <1>1, <1>2, <2>1, Reserving
  <2> QED BY <1>1, <2>1, <2>2, StepsOfTheStore DEF StoreSteady
<1>3. CASE formatted # "ok"
  BY <1>1, <1>3, NothingPromised
<1> QED BY <1>2, <1>3

\* Reserving a cluster changes no file.
LEMMA FindFreeStores ==
  ASSUME IInv, ChainInv, StoreInv, FindFree
  PROVE  StoreInv' /\ StoreStep
<1>1. /\ pc = "find" /\ pc' = "fat" /\ UNCHANGED <<disk, formatted, op, reply>>
  BY FindFreeTakes DEF FindFree
<1>2. CASE formatted = "ok"
  <2>1. StoreSteady
    BY <1>1, <1>2, SteadyDisk
  <2>2. StoreInv'
    BY <1>1, <1>2, <2>1, Reserving DEF StoreInv, ToWrite
  <2> QED BY <1>1, <2>1, <2>2, StepsOfTheStore DEF StoreSteady
<1>3. CASE formatted # "ok"
  BY <1>1, <1>3, NothingPromised
<1> QED BY <1>2, <1>3

\* Sectors that are no file's part may be written.
LEMMA SparingData ==
  ASSUME ChainInv, formatted = "ok", \A s \in FileArea : disk'[s] = disk[s]
  PROVE  DataSpared
<1> SUFFICES ASSUME NEW p \in UsedSlots, NEW c \in ClustersAt(p), NEW i \in Nat
             PROVE  SectorAt(c, i) \in FileArea
  BY DEF DataSpared
<1>1. c \in Clusters \ {ROOT_CLUSTER}
  BY UsedEntry DEF ChainInv
<1> QED BY <1>1, SectorsOfFiles

\* Nor does linking it: the clusters are the call's own.
LEMMA FatWriteStores ==
  ASSUME IInv, ChainInv, StoreInv, FatWrite
  PROVE  StoreInv' /\ StoreStep
<1>1. /\ pc = "fat" /\ UNCHANGED <<formatted, op, pos, reply, first>> /\ first # 0 /\ pos = 0
      /\ pc' \in {"fat", "find", IF op.data = <<>> THEN "dir" ELSE "data"}
      /\ \A s \in FileArea : disk'[s] = disk[s]
  <2>1. UNCHANGED <<formatted, op, first, pos, reply>> /\ pc = "fat"
    BY FatWriteDoes DEF FatWrite
  <2>2. first # 0 /\ pos = 0
    BY <2>1 DEF ChainInv, CallControl, IInv, Control
  <2>3. \A s \in FileArea : disk'[s] = disk[s]
    BY FatWriteDoes, Areas
  <2>4. pc' \in {"fat", "find", IF op.data = <<>> THEN "dir" ELSE "data"}
    BY FatWriteDoes
  <2> QED BY <2>1, <2>2, <2>3, <2>4
<1>2. CASE formatted = "ok"
  <2>1. StoreSteady
    BY <1>1, <1>2, FatWriteSpares, SparingData, Steady
  <2>2. UsedFirst' /\ FilesWhole' /\ Files' = Files
    BY <1>2, <2>1 DEF StoreInv, StoreSteady
  <2>3. op.data \in Contents
    BY <1>1, <1>2 DEF StoreInv, ToWrite
  <2>4. DataDone'
    <3>1. Len(op.data) \in Nat /\ (op.data = <<>> <=> Len(op.data) = 0)
      BY <2>3, ContentsAreSequences
    <3>2. ASSUME NEW k \in 1 .. Len(op.data'), pc' = "dir" \/ k <= pos', pc' \in {"data", "next", "dir"}
          PROVE  FALSE
      BY <1>1, <3>1, <3>2
    <3> QED BY <3>2 DEF DataDone
  <2>5. DirScan'
    <3>1. \A q \in RootSlots : ~ (q[1] < 0)
      BY RootPlace, LayoutAssumption
    <3> QED BY <1>1, <3>1 DEF DirScan, RootSlots
  <2>6. StoreInv'
    BY <1>1, <2>2, <2>3, <2>4, <2>5 DEF StoreInv, ToWrite, LookScan, ReadSoFar, Reading
  <2> QED BY <1>1, <2>2, <2>6, StepsOfTheStore
<1>3. CASE formatted # "ok"
  BY <1>1, <1>3, NothingPromised
<1> QED BY <1>2, <1>3

(***************************************************************************)
(* The data of a file                                                      *)
(***************************************************************************)

\* What Chain reads in the next state.
LEMMA ChainIsNext ==
  (\A n \in Nat : \A s \in [1 .. n -> Clusters] :
    (\A i \in 1 .. n - 1 : read_fat_entry(s[i]) = s[i + 1]) => Chain(s[1], n) = s)'
BY ChainIs, PTL

\* Once its clusters are linked, the call's chain is the one that the FAT gives.
LEMMA OwnChainIs ==
  ASSUME IInv, ChainInv, StoreInv, formatted = "ok", pc \in {"data", "next", "dir"},
         NEW n \in Nat \ {0}, NEW s, Owned(s, n), first # 0
  PROVE  /\ Chain(first, NeededClusters(op.data)) = s
         /\ n = NeededClusters(op.data) /\ n = ClustersFor(Len(op.data))
         /\ op.data \in Contents /\ Len(op.data) \in Nat
         /\ InRow(s, n) /\ Linked(s, n) /\ s[1] = first
         /\ \A k : OwnSector(k) = SectorAt(s[ClusterOf(k)], k - 1)
<1>1. op.data \in Contents
  BY DEF StoreInv, ToWrite
<1>2. todo = <<>>
  BY DEF IInv, WritesPaired
<1>3. /\ InRow(s, n) /\ s[1] = first /\ Linked(s, n) /\ n = NeededClusters(op.data)
  BY <1>2 DEF Owned, Linked
<1>4. n = ClustersFor(Len(op.data)) /\ Len(op.data) \in Nat
  BY <1>1, <1>3, NeededPositive, ContentsAreSequences
<1>5. Chain(s[1], n) = s
  <2>1. s \in [1 .. n -> Clusters]
    BY <1>3 DEF InRow
  <2>2. \A i \in 1 .. n - 1 : read_fat_entry(s[i]) = s[i + 1]
    BY <1>3 DEF Linked, After
  <2> QED BY <2>1, <2>2, ChainIs
<1> QED BY <1>1, <1>3, <1>4, <1>5 DEF OwnSector

\* ... and stays it while the FAT is not written.
LEMMA OwnChainStays ==
  ASSUME IInv, ChainInv, StoreInv, formatted = "ok", pc \in {"data", "next", "dir"},
         NEW n \in Nat \ {0}, NEW s, Owned(s, n), first # 0, Quiet, UNCHANGED <<op, first>>
  PROVE  \A k : OwnSector(k)' = SectorAt(s[ClusterOf(k)], k - 1)
<1>1. InRow(s, n) /\ Linked(s, n) /\ s[1] = first /\ n = NeededClusters(op.data)
  BY OwnChainIs
<1>2. s \in [1 .. n -> Clusters]
  BY <1>1 DEF InRow
<1>3. \A i \in 1 .. n - 1 : read_fat_entry(s[i])' = s[i + 1]
  BY <1>1, <1>2, QuietFat DEF Linked, After
<1>4. Chain(s[1], n)' = s
  BY <1>2, <1>3, ChainIsNext
<1>5. first' = s[1] /\ NeededClusters(op.data)' = n
  BY <1>1 DEF NeededClusters
<1>6. Chain(first, NeededClusters(op.data))' = s
  <2>1. Chain(first, NeededClusters(op.data))' = Chain(s[1], n)'
    BY <1>5 DEF Chain
  <2> QED BY <1>4, <2>1
<1> QED BY <1>6 DEF OwnSector

\* What the writing of a sector of data does.
LEMMA DataWriteDoes ==
  ASSUME IInv, ChainInv, StoreInv, DataWrite, formatted = "ok"
  PROVE  /\ pc = "data" /\ UNCHANGED <<op, first, reply, formatted>> /\ first # 0 /\ pos \in Nat
         /\ op.data \in Contents /\ Len(op.data) \in Nat
         /\ \/ pc' = "dir" /\ pos' = 0 /\ pos + 1 >= Len(op.data)
            \/ pc' \in {"next", "data"} /\ pos' = pos + 1
         /\ pos < Len(op.data) => disk'[SectorAt(cluster, pos)] = Data(op.data[pos + 1])
<1>1. /\ pc = "data" /\ UNCHANGED <<op, first, reply, formatted>> /\ first # 0 /\ pos \in Nat
      /\ op.data \in Contents /\ Len(op.data) \in Nat
  BY ContentsAreSequences DEF DataWrite, history, ChainInv, CallControl, IInv, Control, StoreInv, ToWrite
<1>2. \/ pc' = "dir" /\ pos' = 0 /\ pos + 1 >= Len(op.data)
      \/ pc' \in {"next", "data"} /\ pos' = pos + 1
  <2> DEFINE full == (pos + 1) % SECTORS_PER_CLUSTER = 0
  <2>1. LET done == full /\ pos + 1 >= Len(op.data)
        IN /\ pos' = IF done THEN 0 ELSE pos + 1
           /\ pc' = IF done THEN "dir" ELSE IF full THEN "next" ELSE "data"
    BY Zenon DEF DataWrite
  <2> HIDE DEF full
  <2> QED BY <2>1
<1>3. pos < Len(op.data) => disk'[SectorAt(cluster, pos)] = Data(op.data[pos + 1])
  <2> DEFINE at == SectorAt(cluster, pos)
             v == IF pos < Len(op.data) THEN Data(op.data[pos + 1]) ELSE Zero
  <2>1. disk' = [disk EXCEPT ![at] = v]
    BY DEF DataWrite
  <2>2. at \in DOMAIN disk
    BY DataWritePlace, Areas DEF IInv, DiskKept
  <2> HIDE DEF at, v
  <2>3. disk'[at] = v
    BY <2>1, <2>2
  <2> QED BY <2>3 DEF at, v
<1> QED BY <1>1, <1>2, <1>3

\* The data goes where the file will have it, and to no file's cluster.
LEMMA DataWriteStores ==
  ASSUME IInv, ChainInv, StoreInv, DataWrite
  PROVE  StoreInv' /\ StoreStep
<1>1. CASE formatted = "ok"
  <2> DEFINE at == SectorAt(cluster, pos)
  <2>1. /\ cluster \in Clusters \ {ROOT_CLUSTER} /\ pos \in Nat /\ at \in FileArea
        /\ \A s \in Sectors : s # at => disk'[s] = disk[s]
        /\ Quiet
    BY <1>1, DataWritePlace
  <2>2. /\ pc = "data" /\ UNCHANGED <<op, first, reply, formatted>> /\ first # 0
        /\ op.data \in Contents /\ Len(op.data) \in Nat
        /\ \/ pc' = "dir" /\ pos' = 0 /\ pos + 1 >= Len(op.data)
           \/ pc' \in {"next", "data"} /\ pos' = pos + 1
        /\ pos < Len(op.data) => disk'[at] = Data(op.data[pos + 1])
    BY <1>1, DataWriteDoes
  <2>3. PICK n, s : n \in Nat \ {0} /\ Owned(s, n)
    BY <1>1, <2>2 DEF ChainInv, OwnChain
  <2>4. PICK j \in 1 .. n : cluster = s[j] /\ InCluster(j)
    BY <2>2, <2>3 DEF Owned
  <2>5. /\ n = ClustersFor(Len(op.data)) /\ InRow(s, n)
        /\ \A k : OwnSector(k) = SectorAt(s[ClusterOf(k)], k - 1)
    BY <1>1, <2>2, <2>3, OwnChainIs
  <2>6. \A k : OwnSector(k)' = SectorAt(s[ClusterOf(k)], k - 1)
    BY <1>1, <2>1, <2>2, <2>3, OwnChainStays
  <2>7. DataSpared
    <3> SUFFICES ASSUME NEW p \in UsedSlots, NEW c \in ClustersAt(p), NEW i \in Nat
                 PROVE  disk'[SectorAt(c, i)] = disk[SectorAt(c, i)]
      BY DEF DataSpared
    <3>1. c \in Clusters \ {ROOT_CLUSTER}
      BY <1>1, UsedEntry DEF ChainInv
    <3>2. c # cluster
      BY <2>3, <2>4 DEF Owned
    <3>3. SectorAt(c, i) # at /\ SectorAt(c, i) \in Sectors
      BY <2>1, <3>1, <3>2, SectorsDiffer, SectorsOfFiles, Areas
    <3> QED BY <2>1, <3>3
  <2>8. StoreSteady
    <3>1. FilesSpared
      BY <1>1, <2>1, QuietFiles DEF ChainInv
    <3> QED BY <1>1, <2>2, <2>7, <3>1, Steady
  <2>9. UsedFirst' /\ FilesWhole' /\ Files' = Files
    BY <1>1, <2>8 DEF StoreInv, StoreSteady
  <2>10. DataDone'
    <3> SUFFICES ASSUME NEW k \in 1 .. Len(op.data), pc' = "dir" \/ k <= pos'
                 PROVE  disk'[SectorAt(s[ClusterOf(k)], k - 1)] = Data(op.data[k])
      BY <2>2, <2>6 DEF DataDone
    <3>1. k \in Nat \ {0} /\ k - 1 \in Nat /\ k <= pos + 1
      BY <2>1, <2>2
    <3>2. ClusterOf(k) \in 1 .. n
      BY <2>2, <2>5, InAFileOf
    <3>3. ClusterOf(pos + 1) = j /\ (pos + 1) - 1 = pos
      <4>1. (j - 1) * SECTORS_PER_CLUSTER <= pos /\ pos < j * SECTORS_PER_CLUSTER
        BY <2>2, <2>4 DEF InCluster
      <4>2. pos \div SECTORS_PER_CLUSTER = j - 1
        BY <2>1, <2>3, <4>1, RowEnd
      <4>3. (pos + 1) - 1 = pos
        BY <2>1
      <4>4. ClusterOf(pos + 1) = 1 + (j - 1)
        BY <4>2, <4>3 DEF ClusterOf
      <4> QED BY <2>3, <4>3, <4>4
    <3>4. CASE k = pos + 1
      <4>1. SectorAt(s[ClusterOf(k)], k - 1) = at /\ pos < Len(op.data)
        BY <2>1, <2>2, <2>4, <3>3, <3>4
      <4> QED BY <2>2, <3>4, <4>1
    <3>5. CASE k # pos + 1
      <4>1. k <= pos
        BY <2>1, <3>1, <3>5
      <4>2. disk[SectorAt(s[ClusterOf(k)], k - 1)] = Data(op.data[k])
        BY <1>1, <2>2, <2>5, <4>1 DEF StoreInv, DataDone
      <4>3. SectorAt(s[ClusterOf(k)], k - 1) # at
        <5> SUFFICES ASSUME SectorAt(s[ClusterOf(k)], k - 1) = at PROVE FALSE
          OBVIOUS
        <5>1. s[ClusterOf(k)] \in Clusters
          BY <2>5, <3>2 DEF InRow
        <5>2. s[ClusterOf(k)] = s[j] /\ (k - 1) % SECTORS_PER_CLUSTER = pos % SECTORS_PER_CLUSTER
          BY <2>1, <2>4, <3>1, <5>1, SectorsDiffer
        <5>3. ClusterOf(k) = ClusterOf(pos + 1)
          BY <2>5, <3>2, <3>3, <5>2 DEF InRow
        <5>4. pos + 1 \in Nat \ {0}
          BY <2>1
        <5> QED BY <3>1, <3>3, <3>5, <5>2, <5>3, <5>4, ChunksDiffer
      <4>4. SectorAt(s[ClusterOf(k)], k - 1) \in Sectors
        <5>1. s[ClusterOf(k)] \in Clusters \ {ROOT_CLUSTER}
          BY <2>5, <3>2 DEF InRow
        <5> QED BY <3>1, <5>1, SectorsOfFiles, Areas
      <4> QED BY <2>1, <4>2, <4>3, <4>4
    <3> QED BY <3>4, <3>5
  <2>11. DirScan'
    <3>1. \A q \in RootSlots : ~ (q[1] < 0)
      BY RootPlace, LayoutAssumption
    <3> QED BY <2>2, <3>1 DEF DirScan, RootSlots
  <2>12. StoreInv'
    BY <2>2, <2>9, <2>10, <2>11 DEF StoreInv, ToWrite, LookScan, ReadSoFar, Reading
  <2> QED BY <2>2, <2>9, <2>12, StepsOfTheStore
<1>2. CASE formatted # "ok"
  <2>1. formatted' = formatted
    BY DEF DataWrite, history
  <2> QED BY <1>2, <2>1, NothingPromised
<1> QED BY <1>1, <1>2

\* The step along a chain changes no file.
LEMMA NextClusterStores ==
  ASSUME IInv, ChainInv, StoreInv, NextCluster
  PROVE  StoreInv' /\ StoreStep
<1>1. /\ pc = "next" /\ UNCHANGED <<disk, op, first, left, todo, pos, out, reply, formatted>>
      /\ pc' \in {"astray", "read", "data"}
  BY DEF NextCluster, history
<1>2. CASE formatted # "ok"
  BY <1>1, <1>2, NothingPromised
<1>3. CASE formatted = "ok"
  <2>1. StoreSteady
    BY <1>1, <1>3, SteadyDisk
  <2>2. UsedFirst' /\ FilesWhole' /\ Files' = Files
    BY <1>3, <2>1 DEF StoreInv, StoreSteady
  <2>3. ToWrite' /\ DirScan' /\ LookScan'
    BY <1>1, <1>3 DEF StoreInv, ToWrite, DirScan, LookScan
  <2>4. DataDone'
    <3> SUFFICES ASSUME first # 0, pc' # "dir", NEW k \in 1 .. Len(op.data), k <= pos
                 PROVE  disk[OwnSector(k)'] = Data(op.data[k])
      BY <1>1 DEF DataDone
    <3>1. PICK n, s : n \in Nat \ {0} /\ Owned(s, n)
      BY <1>3 DEF ChainInv, OwnChain
    <3>2. OwnSector(k)' = OwnSector(k)
      BY <1>1, <1>3, <3>1, DiskQuiet, OwnChainIs, OwnChainStays
    <3> QED BY <1>1, <1>3, <3>2 DEF StoreInv, DataDone
  <2>5. ReadSoFar'
    <3>1. CASE first # 0
      <4>1. op.data # <<>>
        BY <1>1, <3>1 DEF ChainInv, CallControl
      <4>2. pc' # "read"
        BY <1>1, <4>1 DEF NextCluster
      <4> QED BY <1>1, <4>2 DEF ReadSoFar, Reading
    <3>2. CASE first = 0
      <4>1. PICK p : /\ ReadsFile(p) /\ FirstHit(p, ShortName[op.name])
                     /\ \A k \in 1 .. Len(out) : out[k] = ContentAt(p)[k]
        BY <1>1, <1>3, <3>2 DEF StoreInv, ReadSoFar, Reading
      <4>2. ReadsFile(p)'
        BY <1>3, <3>2, <4>1, NextClusterReads
      <4>3. FirstHit(p, ShortName[op.name])'
        BY <1>1, <2>1, <4>1 DEF StoreSteady, FirstHit, HitsOf
      <4>4. ContentAt(p)' = ContentAt(p)
        BY <2>1, <4>1 DEF StoreSteady, ReadsFile
      <4> QED BY <1>1, <4>1, <4>2, <4>3, <4>4 DEF ReadSoFar
    <3> QED BY <3>1, <3>2
  <2>6. StoreInv'
    BY <2>2, <2>3, <2>4, <2>5 DEF StoreInv
  <2> QED BY <1>1, <2>2, <2>6, StepsOfTheStore
<1> QED BY <1>2, <1>3

(***************************************************************************)
(* The answers of read_file                                                *)
(***************************************************************************)

\* On a formatted disk an entry of the name that is in the sector read_file is at
\* is one it finds there.
LEMMA InSectorFound ==
  ASSUME IInv, ChainInv, StoreInv, formatted = "ok", pc = "lookup",
         NEW q \in HitsOf(ShortName[op.name]), q[1] = pos
  PROVE  q[2] \in Hits /\ q = <<pos, q[2]>>
<1>1. q \in UsedSlots /\ q \in RootSlots /\ EntryAt(q).name = ShortName[op.name]
  BY DEF HitsOf, UsedSlots
<1>2. q[2] \in DirSlots /\ q = <<pos, q[2]>> /\ EntriesHere[q[2]].name = ShortName[op.name]
  BY <1>1, RootPlace DEF EntryAt, EntriesHere
<1>3. ASSUME NEW j \in 1 .. q[2] - 1 PROVE EntriesHere[j] # Unused
  <2>1. j \in DirSlots /\ j < q[2]
    BY <1>2, CallerAssumption DEF DirSlots
  <2>2. <<pos, j>> \in RootSlots /\ Before(<<pos, j>>, q)
    BY <1>1, <2>1 DEF RootSlots, Before
  <2>3. <<pos, j>> \in UsedSlots
    BY <1>1, <2>2 DEF StoreInv, UsedFirst
  <2>4. EntryAt(<<pos, j>>) = EntriesHere[j]
    BY DEF EntryAt, EntriesHere
  <2> QED BY <2>3, <2>4 DEF UsedSlots
<1> QED BY <1>2, <1>3 DEF Hits, Matches

\* What it finds is the first entry of the name.
LEMMA FoundIsFirst ==
  ASSUME IInv, ChainInv, StoreInv, formatted = "ok", pc = "lookup", Hits # {}
  PROVE  FirstHit(<<pos, Found>>, ShortName[op.name])
<1> DEFINE p == <<pos, Found>>
<1>1. /\ p \in HitsOf(ShortName[op.name]) /\ p \in RootSlots
      /\ \A i \in Hits : Found <= i
      /\ Found \in DirSlots
  BY FoundIsUsed DEF HitsOf, UsedSlots
<1>2. ASSUME NEW q \in HitsOf(ShortName[op.name]) PROVE p = q \/ Before(p, q)
  <2>1. q \in RootSlots /\ q[1] \in Nat /\ q[2] \in Nat /\ pos \in Nat /\ Found \in Nat
    BY <1>1, RootPlace, LayoutAssumption, CallerAssumption DEF HitsOf, UsedSlots, DirSlots, IInv, Control
  <2>2. ~ (q[1] < pos)
    BY DEF StoreInv, LookScan
  <2>3. CASE q[1] = pos
    <3>1. q[2] \in Hits /\ q = <<pos, q[2]>>
      BY <2>3, InSectorFound
    <3>2. Found <= q[2]
      BY <1>1, <3>1
    <3> QED BY <2>1, <2>3, <3>1, <3>2 DEF Before
  <2>4. CASE q[1] # pos
    BY <2>1, <2>2, <2>4 DEF Before
  <2> QED BY <2>3, <2>4
<1> QED BY <1>1, <1>2 DEF FirstHit

\* A name with an entry holds a content.
LEMMA VisibleContent ==
  ASSUME StoreInv, formatted = "ok", NEW p, NEW s \in ShortNames, FirstHit(p, s)
  PROVE  p \in UsedSlots /\ Files[s] = ContentAt(p) /\ Files[s] \in Contents /\ Files[s] # Nothing
<1>1. p \in UsedSlots
  BY DEF FirstHit, HitsOf
<1>2. Files[s] = ContentAt(p)
  BY VisibleIs DEF Files
<1> QED BY <1>1, <1>2, CallerAssumption DEF StoreInv, FilesWhole

\* The scan of read_file ends with the answer that the store gives, or goes on to
\* the first entry of the name.
LEMMA LookupStores ==
  ASSUME IInv, ChainInv, StoreInv, Lookup
  PROVE  StoreInv' /\ StoreStep
<1>1. pc = "lookup" /\ UNCHANGED <<disk, formatted>> /\ pos \in 0 .. SECTORS_PER_CLUSTER - 1
  BY LookupDoes
<1>2. CASE formatted # "ok"
  BY <1>1, <1>2, NothingPromised
<1>3. CASE formatted = "ok"
  <2>1. StoreSteady
    BY <1>1, <1>3, SteadyDisk
  <2>2. UsedFirst' /\ FilesWhole' /\ Files' = Files
    BY <1>3, <2>1 DEF StoreInv, StoreSteady
  <2>3. op.name \in Names /\ ShortName[op.name] \in ShortNames
    BY <1>1, CallersName
  <2>4. CASE \/ Hits = {} /\ ~ (pos + 1 < SECTORS_PER_CLUSTER) /\ Return("notfound", Nothing)
             \/ Hits # {} /\ EntriesHere[Found].size = 0 /\ Return("data", <<>>)
    <3>1. StoreInv'
      BY <1>3, <2>1, <2>4, AtRest DEF Return, ClearLocals
    <3>2. CASE Hits = {} /\ ~ (pos + 1 < SECTORS_PER_CLUSTER) /\ Return("notfound", Nothing)
      <4>1. HitsOf(ShortName[op.name]) = {}
        <5> SUFFICES ASSUME NEW q \in HitsOf(ShortName[op.name]) PROVE FALSE
          OBVIOUS
        <5>1. q[1] \in 0 .. SECTORS_PER_CLUSTER - 1
          BY RootPlace DEF HitsOf, UsedSlots
        <5>2. ~ (q[1] < pos)
          BY <1>1, <1>3 DEF StoreInv, LookScan
        <5>3. q[1] = pos
          BY <1>1, <3>2, <5>1, <5>2, LayoutAssumption
        <5> QED BY <1>1, <1>3, <3>2, <5>3, InSectorFound
      <4>2. Files[ShortName[op.name]] = Nothing
        BY <1>3, <2>3, <4>1, VisibleIs DEF Files
      <4>3. reply' = [kind |-> "notfound", name |-> op.name, data |-> Nothing]
        BY <3>2 DEF Return
      <4>4. reply' = (IF Files[ShortName[op.name]] = Nothing
                      THEN [kind |-> "notfound", name |-> op.name, data |-> Nothing]
                      ELSE [kind |-> "data", name |-> op.name, data |-> Files[ShortName[op.name]]])
        BY <4>2, <4>3, Zenon
      <4>5. formatted' = "ok"
        BY <1>1, <1>3
      <4>6. StoreStep
        BY <1>3, <2>2, <2>3, <4>4, <4>5, StepsOfTheStore, Zenon
      <4> QED BY <3>1, <4>6
    <3>3. CASE Hits # {} /\ EntriesHere[Found].size = 0 /\ Return("data", <<>>)
      <4> DEFINE p == <<pos, Found>>
      <4>1. FirstHit(p, ShortName[op.name])
        BY <1>1, <1>3, <3>3, FoundIsFirst
      <4>2. Files[ShortName[op.name]] = ContentAt(p) /\ Files[ShortName[op.name]] \in Contents
            /\ Files[ShortName[op.name]] # Nothing
        BY <1>3, <2>3, <4>1, VisibleContent
      <4>3. EntryAt(p).size = 0
        BY <1>1, <3>3, FoundIsUsed
      <4>4. ContentAt(p) = <<>>
        <5>1. DOMAIN ContentAt(p) = 1 .. 0
          BY <4>3 DEF ContentAt
        <5>2. DOMAIN ContentAt(p) = 1 .. Len(ContentAt(p)) /\ Len(ContentAt(p)) \in Nat
              /\ (ContentAt(p) = <<>> <=> Len(ContentAt(p)) = 0)
          BY <4>2, ContentsAreSequences
        <5> QED BY <5>1, <5>2
      <4>5. reply' = [kind |-> "data", name |-> op.name, data |-> Files[ShortName[op.name]]]
        BY <3>3, <4>2, <4>4 DEF Return
      <4>6. reply' = (IF Files[ShortName[op.name]] = Nothing
                      THEN [kind |-> "notfound", name |-> op.name, data |-> Nothing]
                      ELSE [kind |-> "data", name |-> op.name, data |-> Files[ShortName[op.name]]])
        BY <4>2, <4>5, Zenon
      <4>7. formatted' = "ok"
        BY <1>1, <1>3
      <4>8. StoreStep
        BY <1>3, <2>2, <2>3, <4>6, <4>7, StepsOfTheStore, Zenon
      <4> QED BY <3>1, <4>8
    <3> QED BY <2>4, <3>2, <3>3
  <2>5. CASE /\ Hits = {} /\ pos + 1 < SECTORS_PER_CLUSTER /\ pos' = pos + 1
             /\ UNCHANGED <<pc, op, first, cluster, left, todo, out, reply>>
    <3>1. LookScan'
      <4> SUFFICES ASSUME NEW q \in HitsOf(ShortName[op.name]), q[1] < pos + 1 PROVE FALSE
        BY <2>1, <2>5 DEF LookScan, StoreSteady
      <4>1. q[1] \in 0 .. SECTORS_PER_CLUSTER - 1
        BY RootPlace DEF HitsOf, UsedSlots
      <4>2. ~ (q[1] < pos)
        BY <1>1, <1>3 DEF StoreInv, LookScan
      <4>3. q[1] = pos
        BY <1>1, <4>1, <4>2, LayoutAssumption
      <4> QED BY <1>1, <1>3, <2>5, <4>3, InSectorFound
    <3>2. ToWrite'
      BY <1>1, <1>3, <2>5 DEF StoreInv, ToWrite
    <3>3. DataDone' /\ DirScan' /\ ReadSoFar'
      BY <1>1, <2>5 DEF DataDone, DirScan, ReadSoFar, Reading
    <3> QED BY <1>1, <2>2, <2>5, <3>1, <3>2, <3>3, StepsOfTheStore DEF StoreInv
  <2>6. CASE /\ Hits # {} /\ EntriesHere[Found].size # 0
             /\ UNCHANGED <<op, first, todo, out, reply>>
    <3> PICK p : p = <<pos, Found>>
      OBVIOUS
    <3>1. ReadsFile(p)' /\ pc' = "read" /\ out' = <<>>
      BY <1>3, <2>6, LookupReads
    <3>2. FirstHit(p, ShortName[op.name])
      BY <1>1, <1>3, <2>6, FoundIsFirst
    <3>3. FirstHit(p, ShortName[op.name])'
      BY <2>1, <2>6, <3>2 DEF StoreSteady, FirstHit, HitsOf
    <3>4. ReadSoFar'
      BY <3>1, <3>3 DEF ReadSoFar
    <3>5. first' = 0
      BY <1>1, <2>6 DEF ChainInv, CallControl
    <3>6. ToWrite' /\ DataDone' /\ DirScan' /\ LookScan'
      BY <3>1, <3>5 DEF ToWrite, DataDone, DirScan, LookScan
    <3> QED BY <1>1, <2>2, <2>6, <3>4, <3>6, StepsOfTheStore DEF StoreInv
  <2> QED BY <2>4, <2>5, <2>6, LookupDoes
<1> QED BY <1>2, <1>3

\* Reading ends with the content whole.
LEMMA DataReadStores ==
  ASSUME IInv, ChainInv, StoreInv, DataRead
  PROVE  StoreInv' /\ StoreStep
<1> DEFINE x == Chunk(disk[SectorAt(cluster, pos)])
           got == Append(out, x)
<1>1. /\ pc = "read" /\ UNCHANGED <<disk, formatted>> /\ first = 0 /\ pos \in Nat
      /\ \/ Len(got) = left /\ Return("data", got)
         \/ /\ Len(got) # left /\ out' = got /\ pos' = pos + 1 /\ pc' \in {"next", "read"}
            /\ UNCHANGED <<op, first, cluster, left, todo, reply>>
  BY DataReadDoes
<1>2. CASE formatted # "ok"
  BY <1>1, <1>2, NothingPromised
<1>3. CASE formatted = "ok"
  <2>1. StoreSteady
    BY <1>1, <1>3, SteadyDisk
  <2>2. UsedFirst' /\ FilesWhole' /\ Files' = Files
    BY <1>3, <2>1 DEF StoreInv, StoreSteady
  <2>3. op.name \in Names /\ ShortName[op.name] \in ShortNames
    BY <1>1, CallersName
  <2>4. PICK p : /\ ReadsFile(p) /\ FirstHit(p, ShortName[op.name])
                 /\ \A k \in 1 .. Len(out) : out[k] = ContentAt(p)[k]
    BY <1>1, <1>3 DEF StoreInv, ReadSoFar, Reading
  <2>5. /\ p \in UsedSlots /\ left = EntryAt(p).size /\ pos < left /\ IsSeq(out) /\ pos = Len(out)
        /\ EntryAt(p).size \in Nat
    BY <1>3, <2>4, UsedEntry DEF ReadsFile, ChainInv
  <2>6. /\ IsSeq(got) /\ Len(got) = pos + 1
        /\ \A i \in 1 .. pos : got[i] = out[i]
        /\ got[pos + 1] = x
    BY <2>5, Appended
  <2>7. ContentAt(p)[pos + 1] = x
    <3>1. PICK j \in 1 .. SizeAt(p) : cluster = ChainAt(p)[j] /\ InCluster(j)
      BY <2>4 DEF ReadsFile
    <3>2. (j - 1) * SECTORS_PER_CLUSTER <= pos /\ pos < j * SECTORS_PER_CLUSTER /\ j \in Nat \ {0}
      <4>1. SizeAt(p) \in Nat
        BY <1>3, <2>5, UsedEntry DEF ChainInv
      <4> QED BY <1>1, <3>1, <4>1 DEF InCluster
    <3>3. pos \div SECTORS_PER_CLUSTER = j - 1
      BY <1>1, <3>2, RowEnd
    <3>4. (pos + 1) - 1 = pos /\ pos + 1 \in 1 .. EntryAt(p).size
      BY <1>1, <2>5
    <3>5. ClusterOf(pos + 1) = j
      <4>1. ClusterOf(pos + 1) = 1 + (j - 1)
        BY <3>3, <3>4 DEF ClusterOf
      <4> QED BY <3>2, <4>1
    <3> QED BY <3>1, <3>4, <3>5 DEF ContentAt
  <2> HIDE DEF got, x
  <2>8. \A k \in 1 .. pos + 1 : got[k] = ContentAt(p)[k]
    <3> TAKE k \in 1 .. pos + 1
    <3>1. k \in 1 .. pos \/ k = pos + 1
      BY <1>1
    <3> QED BY <2>4, <2>5, <2>6, <2>7, <3>1
  <2>9. CASE Len(got) = left /\ Return("data", got)
    <3>1. StoreInv'
      BY <1>3, <2>1, <2>9, AtRest DEF Return, ClearLocals
    <3>2. Files[ShortName[op.name]] = ContentAt(p) /\ Files[ShortName[op.name]] # Nothing
      BY <1>3, <2>3, <2>4, VisibleContent
    <3>3. got = ContentAt(p)
      <4>1. PICK S : got \in Seq(S)
        BY <2>6 DEF IsSeq
      <4>2. DOMAIN got = 1 .. EntryAt(p).size /\ pos + 1 = EntryAt(p).size
        BY <2>5, <2>6, <2>9, <4>1
      <4>3. got = [k \in 1 .. EntryAt(p).size |-> got[k]]
        BY <4>1, <4>2
      <4>4. ContentAt(p) = [k \in 1 .. EntryAt(p).size |-> ContentAt(p)[k]]
        BY DEF ContentAt
      <4> QED BY <2>8, <4>2, <4>3, <4>4
    <3>4. reply' = (IF Files[ShortName[op.name]] = Nothing
                    THEN [kind |-> "notfound", name |-> op.name, data |-> Nothing]
                    ELSE [kind |-> "data", name |-> op.name, data |-> Files[ShortName[op.name]]])
      <4>1. reply' = [kind |-> "data", name |-> op.name, data |-> got]
        BY <2>9 DEF Return
      <4> QED BY <3>2, <3>3, <4>1, Zenon
    <3>5. formatted' = "ok"
      BY <1>1, <1>3
    <3>6. StoreStep
      BY <1>3, <2>2, <2>3, <3>4, <3>5, StepsOfTheStore, Zenon
    <3> QED BY <3>1, <3>6
  <2>10. CASE /\ Len(got) # left /\ out' = got /\ pos' = pos + 1 /\ pc' \in {"next", "read"}
              /\ UNCHANGED <<op, first, cluster, left, todo, reply>>
    <3>1. ReadsFile(p)'
      BY <1>3, <2>4, <2>10, DataReadReads
    <3>2. FirstHit(p, ShortName[op.name])'
      BY <2>1, <2>4, <2>10 DEF StoreSteady, FirstHit, HitsOf
    <3>3. ContentAt(p)' = ContentAt(p)
      BY <2>1, <2>5 DEF StoreSteady
    <3>4. ReadSoFar'
      BY <2>6, <2>8, <2>10, <3>1, <3>2, <3>3 DEF ReadSoFar
    <3>5. ToWrite' /\ DataDone' /\ DirScan' /\ LookScan'
      BY <1>1, <2>10 DEF ToWrite, DataDone, DirScan, LookScan
    <3> QED BY <1>1, <2>2, <2>10, <3>4, <3>5, StepsOfTheStore DEF StoreInv
  <2> QED BY <1>1, <2>9, <2>10
<1> QED BY <1>2, <1>3

(***************************************************************************)
(* The directory entry that ends write_file                                *)
(***************************************************************************)

\* The new entry comes after all the others, and no unused one before it.
LEMMA EntryIsLast ==
  ASSUME IInv, ChainInv, StoreInv, formatted = "ok", pc = "dir", NEW p, EntryMade(p)
  PROVE  /\ \A q \in RootSlots : Before(q, p) => q \in UsedSlots
         /\ \A q \in UsedSlots : Before(q, p)
<1>1. p \in RootSlots /\ p[1] = pos /\ p \notin UsedSlots
  BY DEF EntryMade, UsedSlots
<1>2. ASSUME NEW q \in RootSlots, Before(q, p) PROVE q \in UsedSlots
  <2>1. CASE q[1] < pos
    BY <2>1 DEF StoreInv, DirScan
  <2>2. CASE ~ (q[1] < pos)
    <3>1. q[1] = pos /\ q[2] < p[2]
      BY <1>1, <1>2, <2>2 DEF Before
    <3>2. q = <<pos, q[2]>> /\ q[2] \in 1 .. p[2] - 1
      BY <1>1, <3>1, RootPlace, CallerAssumption DEF DirSlots
    <3>3. EntryAt(<<pos, q[2]>>) # Unused
      BY <3>2 DEF EntryMade
    <3> QED BY <3>2, <3>3 DEF UsedSlots
  <2> QED BY <2>1, <2>2
<1>3. ASSUME NEW q \in UsedSlots PROVE Before(q, p)
  <2>1. q \in RootSlots /\ q # p
    BY <1>1 DEF UsedSlots
  <2>2. ~ Before(p, q)
    BY <1>1 DEF StoreInv, UsedFirst
  <2> QED BY <1>1, <2>1, <2>2, SlotOrder
<1> QED BY <1>2, <1>3

\* It stands for what the caller wrote, and the others for what they did.
LEMMA EntryHolds ==
  ASSUME IInv, ChainInv, StoreInv, formatted = "ok", pc = "dir", NEW p, EntryMade(p)
  PROVE  /\ op.data \in Contents /\ ContentAt(p)' = op.data
         /\ \A q \in UsedSlots : EntryAt(q)' = EntryAt(q) /\ ContentAt(q)' = ContentAt(q)
<1>1. first # 0
  BY DEF ChainInv, CallControl
<1>2. PICK n, s : n \in Nat \ {0} /\ Owned(s, n)
  BY <1>1 DEF ChainInv, OwnChain
<1>3. /\ op.data \in Contents /\ Len(op.data) \in Nat /\ n = ClustersFor(Len(op.data))
      /\ InRow(s, n)
      /\ \A k : OwnSector(k) = SectorAt(s[ClusterOf(k)], k - 1)
  BY <1>1, <1>2, OwnChainIs
<1>4. /\ EntryAt(p)' = Entry(ShortName[op.name], first, Len(op.data))
      /\ \A q \in RootSlots : q # p => EntryAt(q)' = EntryAt(q)
      /\ p \notin UsedSlots
      /\ \A z \in Sectors : z # RootSector(pos) => disk'[z] = disk[z]
      /\ RootSector(pos) \in RootArea
  BY EntryAppears
<1>5. /\ ChainAt(p)' = s
      /\ \A q \in UsedSlots : ChainAt(q)' = ChainAt(q)
  BY <1>2, FileAppears
<1>6. \A z \in FileArea : disk'[z] = disk[z]
  BY <1>4, Areas
<1>7. DataSpared
  BY <1>6, SparingData
<1>8. ASSUME NEW q \in UsedSlots PROVE EntryAt(q)' = EntryAt(q) /\ ContentAt(q)' = ContentAt(q)
  <2>1. EntryAt(q)' = EntryAt(q)
    BY <1>4 DEF UsedSlots
  <2> QED BY <1>5, <1>7, <2>1, ContentSteady
<1>9. ContentAt(p)' = op.data
  <2>1. EntryAt(p).size' = Len(op.data)
    BY <1>4 DEF Entry
  <2>2. ContentAt(p)' = [k \in 1 .. Len(op.data) |-> Chunk(disk'[SectorAt(s[ClusterOf(k)], k - 1)])]
    BY <1>5, <2>1 DEF ContentAt
  <2>3. ASSUME NEW k \in 1 .. Len(op.data)
        PROVE  Chunk(disk'[SectorAt(s[ClusterOf(k)], k - 1)]) = op.data[k]
    <3>1. k - 1 \in Nat /\ ClusterOf(k) \in 1 .. n
      BY <1>3, InAFileOf
    <3>2. s[ClusterOf(k)] \in Clusters \ {ROOT_CLUSTER}
      BY <1>3, <3>1 DEF InRow
    <3>3. disk'[SectorAt(s[ClusterOf(k)], k - 1)] = disk[OwnSector(k)]
      BY <1>3, <1>6, <3>1, <3>2, SectorsOfFiles
    <3>4. disk[OwnSector(k)] = Data(op.data[k])
      BY <1>1 DEF StoreInv, DataDone
    <3> QED BY <3>3, <3>4 DEF Chunk, Data
  <2>4. op.data = [k \in 1 .. Len(op.data) |-> op.data[k]]
    <3>1. PICK S : op.data \in Seq(S)
      BY <1>3, CallerAssumption
    <3> QED BY <3>1
  <2> QED BY <2>2, <2>3, <2>4
<1> QED BY <1>3, <1>8, <1>9

\* The name has the content, if it had none.
LEMMA NameAppears ==
  ASSUME IInv, ChainInv, StoreInv, formatted = "ok", formatted' = "ok", pc = "dir",
         NEW p, EntryMade(p)
  PROVE  Files' = [Files EXCEPT ![ShortName[op.name]] = IF @ = Nothing THEN op.data ELSE @]
<1> PICK nm : nm = ShortName[op.name]
  OBVIOUS
<1>1. /\ op.data \in Contents /\ ContentAt(p)' = op.data
      /\ \A q \in UsedSlots : EntryAt(q)' = EntryAt(q) /\ ContentAt(q)' = ContentAt(q)
  BY EntryHolds
<1>2. /\ EntryAt(p)'.name = nm /\ UsedSlots' = UsedSlots \union {p} /\ p \notin UsedSlots
  BY EntryAppears DEF Entry
<1>3. \A q \in UsedSlots : Before(q, p)
  BY EntryIsLast
<1>4. nm \in ShortNames
  BY CallersName
<1>5. \A s : HitsOf(s)' = IF s = nm THEN HitsOf(s) \union {p} ELSE HitsOf(s)
  <2> TAKE s
  <2>1. \A q : q \in HitsOf(s)' <=> q \in HitsOf(s) \/ (q = p /\ s = nm)
    BY <1>1, <1>2 DEF HitsOf
  <2> QED BY <2>1
<1>6. ASSUME NEW s, HitsOf(s) # {} PROVE Visible(s)' = Visible(s)
  <2>1. PICK q : FirstHit(q, s)
    BY <1>6, OneIsFirst
  <2>2. q \in UsedSlots /\ q \in HitsOf(s)
    BY <2>1 DEF FirstHit, HitsOf
  <2>3. FirstHit(q, s)'
    <3>1. q \in HitsOf(s)'
      BY <1>5, <2>2
    <3>2. ASSUME NEW r \in HitsOf(s)' PROVE q = r \/ Before(q, r)
      <4>1. r \in HitsOf(s) \/ r = p
        BY <1>5
      <4> QED BY <1>3, <2>1, <2>2, <4>1 DEF FirstHit
    <3> QED BY <3>1, <3>2 DEF FirstHit, Before
  <2>4. Visible(s) = ContentAt(q) /\ Visible(s)' = ContentAt(q)'
    BY <2>1, <2>3, VisibleIs, VisibleIsNext
  <2> QED BY <1>1, <2>2, <2>4
<1>7. ASSUME NEW s, HitsOf(s) = {}, s # nm PROVE Visible(s)' = Visible(s)
  <2>1. HitsOf(s)' = {}
    BY <1>5, <1>7
  <2> QED BY <1>7, <2>1, VisibleIs, VisibleIsNext
<1>8. HitsOf(nm) = {} => Files[nm] = Nothing /\ Visible(nm)' = op.data
  <2> SUFFICES ASSUME HitsOf(nm) = {} PROVE Files[nm] = Nothing /\ Visible(nm)' = op.data
    OBVIOUS
  <2>1. Files[nm] = Nothing
    BY <1>4, VisibleIs DEF Files
  <2>2. FirstHit(p, nm)'
    <3>1. HitsOf(nm)' = {p}
      BY <1>5
    <3> QED BY <3>1 DEF FirstHit
  <2>3. Visible(nm)' = ContentAt(p)'
    BY <2>2, VisibleIsNext
  <2> QED BY <1>1, <2>1, <2>3
<1>9. HitsOf(nm) # {} => Files[nm] # Nothing
  <2> SUFFICES ASSUME HitsOf(nm) # {} PROVE Files[nm] # Nothing
    OBVIOUS
  <2>1. PICK q : FirstHit(q, nm)
    BY OneIsFirst
  <2> QED BY <1>4, <2>1, VisibleContent
<1>10. \A s \in ShortNames :
         Visible(s)' = IF s = nm /\ Files[nm] = Nothing THEN op.data ELSE Files[s]
  <2> TAKE s \in ShortNames
  <2>1. Files[s] = Visible(s)
    BY DEF Files
  <2> QED BY <1>6, <1>7, <1>8, <1>9, <2>1
<1>11. Files' = [s \in ShortNames |-> Visible(s)']
  BY DEF Files
<1>12. DOMAIN Files = ShortNames /\ Files = [s \in ShortNames |-> Files[s]]
  BY DEF Files
<1> HIDE DEF Files
<1> QED BY <1>4, <1>10, <1>11, <1>12

\* What holds of the directory and its contents once the entry is made.
LEMMA EntryKeepsOrder ==
  ASSUME IInv, ChainInv, StoreInv, formatted = "ok", formatted' = "ok", pc = "dir",
         NEW p, EntryMade(p)
  PROVE  StoreInv'
<1>1. /\ UsedSlots' = UsedSlots \union {p} /\ p \in RootSlots
      /\ \A q \in RootSlots : Before(q, p) => q \in UsedSlots
      /\ op.data \in Contents /\ ContentAt(p)' = op.data
      /\ \A q \in UsedSlots : ContentAt(q)' = ContentAt(q)
  BY EntryAppears, EntryIsLast, EntryHolds
<1>2. UsedFirst'
  <2>1. \A r \in UsedSlots' : \A q \in RootSlots : Before(q, r) => q \in UsedSlots'
    BY <1>1 DEF StoreInv, UsedFirst
  <2> QED BY <2>1 DEF UsedFirst, Before, RootSlots
<1>3. FilesWhole'
  BY <1>1 DEF StoreInv, FilesWhole
<1>4. pc' = "idle" /\ first' = 0
  BY DEF EntryMade, Return, ClearLocals
<1> QED BY <1>2, <1>3, <1>4 DEF StoreInv, ToWrite, DataDone, DirScan, LookScan, ReadSoFar, Reading

\* A sector of the directory without an unused entry is full.
LEMMA SectorFull ==
  ASSUME FirstUnused(DirEntries(disk[RootSector(pos)])) = {}, NEW q \in RootSlots, q[1] = pos
  PROVE  q \in UsedSlots
<1> DEFINE es == DirEntries(disk[RootSector(pos)])
           U == {i \in DirSlots : es[i] = Unused}
<1>1. EntryAt(q) = es[q[2]] /\ q[2] \in DirSlots
  BY RootPlace DEF EntryAt
<1> SUFFICES ASSUME EntryAt(q) = Unused PROVE FALSE
  BY DEF UsedSlots
<1>2. U \subseteq Nat /\ U # {}
  BY <1>1, CallerAssumption DEF DirSlots
<1>3. PICK i \in U : \A j \in U : i <= j
  <2> HIDE DEF U
  <2> QED BY <1>2, LeastNumber
<1>4. \A j \in 1 .. i - 1 : es[j] # Unused
  <2> TAKE j \in 1 .. i - 1
  <2>1. j \in DirSlots /\ ~ (i <= j)
    BY <1>3, CallerAssumption DEF DirSlots
  <2> QED BY <1>3, <2>1
<1>5. i \in FirstUnused(es)
  BY <1>3, <1>4 DEF FirstUnused
<1> QED BY <1>5

\* The scan goes on in the next sector of the directory.
LEMMA ScanGoesOn ==
  ASSUME IInv, ChainInv, StoreInv, formatted = "ok", formatted' = formatted, pc = "dir",
         FirstUnused(DirEntries(disk[RootSector(pos)])) = {}, pos \in Nat, pos' = pos + 1,
         UNCHANGED <<disk, pc, op, first, out, reply>>
  PROVE  StoreInv' /\ StoreStep
<1>1. StoreSteady
  BY SteadyDisk
<1>2. UsedFirst' /\ FilesWhole' /\ Files' = Files
  BY <1>1 DEF StoreInv, StoreSteady
<1>3. ToWrite'
  BY DEF StoreInv, ToWrite
<1>4. DataDone'
  <2> SUFFICES ASSUME first # 0, NEW k \in 1 .. Len(op.data)
               PROVE  disk[OwnSector(k)'] = Data(op.data[k])
    BY DEF DataDone
  <2>1. PICK n, s : n \in Nat \ {0} /\ Owned(s, n)
    BY DEF ChainInv, OwnChain
  <2>2. OwnSector(k)' = OwnSector(k)
    BY <2>1, DiskQuiet, OwnChainIs, OwnChainStays
  <2> QED BY <2>2 DEF StoreInv, DataDone
<1>5. DirScan'
  <2>1. ASSUME NEW q \in RootSlots, q[1] < pos + 1 PROVE q \in UsedSlots
    <3>1. q[1] < pos \/ q[1] = pos
      BY <2>1, RootPlace, LayoutAssumption
    <3> QED BY <3>1, SectorFull DEF StoreInv, DirScan
  <2>2. UsedSlots' = UsedSlots
    BY <1>1 DEF StoreSteady
  <2> QED BY <2>1, <2>2 DEF DirScan, RootSlots
<1>6. StoreInv'
  BY <1>2, <1>3, <1>4, <1>5 DEF StoreInv, LookScan, ReadSoFar, Reading
<1> QED BY <1>2, <1>6, StepsOfTheStore

\* The scan of write_file ends with the file in the store, or with an error and no
\* file changed.
LEMMA DirWriteStores ==
  ASSUME IInv, ChainInv, StoreInv, DirWrite
  PROVE  StoreInv' /\ StoreStep
<1>1. /\ pc = "dir" /\ formatted' = formatted /\ pos \in 0 .. SECTORS_PER_CLUSTER - 1
      /\ \/ \E p : EntryMade(p)
         \/ /\ FirstUnused(DirEntries(disk[RootSector(pos)])) = {} /\ UNCHANGED disk
            /\ \/ pos' = pos + 1 /\ UNCHANGED <<pc, op, first, out, reply>>
               \/ Return("error", Nothing)
  BY DirWriteDoes
<1>2. op.name \in Names
  BY <1>1, CallersName
<1>3. CASE formatted # "ok"
  BY <1>1, <1>3, NothingPromised
<1>4. CASE formatted = "ok" /\ \E p : EntryMade(p)
  <2> PICK p : EntryMade(p)
    BY <1>4
  <2>1. StoreInv'
    BY <1>1, <1>4, EntryKeepsOrder
  <2>2. Files' = [Files EXCEPT ![ShortName[op.name]] = IF @ = Nothing THEN op.data ELSE @]
    BY <1>1, <1>4, NameAppears
  <2>3. op.data \in Contents
    BY <1>1, <1>4, EntryHolds
  <2>4. reply' = [kind |-> "ok", name |-> op.name, data |-> Nothing]
    BY DEF EntryMade, Return
  <2>5. StoreStep
    BY <1>1, <1>2, <1>4, <2>2, <2>3, <2>4, StepsOfTheStore, Zenon
  <2> QED BY <2>1, <2>5
<1>5. CASE formatted = "ok" /\ UNCHANGED disk /\ Return("error", Nothing)
  <2>1. StoreSteady
    BY <1>1, <1>5, SteadyDisk
  <2>2. StoreInv'
    BY <1>5, <2>1, AtRest DEF Return, ClearLocals
  <2>3. StoreStep
    BY <1>1, <1>2, <1>5, <2>1, StepsOfTheStore DEF StoreSteady, Return
  <2> QED BY <2>2, <2>3
<1>6. CASE /\ formatted = "ok" /\ FirstUnused(DirEntries(disk[RootSector(pos)])) = {}
           /\ UNCHANGED disk /\ pos' = pos + 1 /\ UNCHANGED <<pc, op, first, out, reply>>
  <2>1. pos \in Nat
    BY <1>1, LayoutAssumption
  <2> QED BY <1>1, <1>6, <2>1, ScanGoesOn
<1> QED BY <1>1, <1>3, <1>4, <1>5, <1>6

(***************************************************************************)
(* Starting the machine                                                    *)
(***************************************************************************)

\* format() ends with an empty store.
LEMMA FormatStepStores ==
  ASSUME IInv, ChainInv, StoreInv, FormatStep
  PROVE  StoreInv' /\ StoreStep
<1>1. /\ pc = "format" /\ pc' \in {"format", "idle"} /\ first' = 0 /\ UNCHANGED reply
      /\ formatted = "no" /\ formatted' \in {"no", "ok"} /\ (formatted' = "ok" => pc' = "idle")
  BY DEF FormatStep, IInv, Control
<1>2. CASE formatted' # "ok"
  BY <1>1, <1>2, NothingPromised
<1>3. CASE formatted' = "ok"
  <2>1. UsedSlots' = {}
    <3>1. \A s \in RootArea : disk'[s] = Zero
      BY <1>3, FormatEnds
    <3>2. DirEntries(Zero) = [i \in DirSlots |-> Unused]
      BY DEF DirEntries, Zero
    <3>3. \A p \in RootSlots : EntryAt(p)' = Unused
      BY <3>1, <3>2, RootPlace DEF EntryAt
    <3> QED BY <3>3 DEF UsedSlots
  <2>2. Files' = [s \in ShortNames |-> Nothing]
    <3>1. \A s : HitsOf(s)' = {}
      BY <2>1 DEF HitsOf
    <3>2. \A s : Visible(s)' = Nothing
      BY <3>1, VisibleIsNext
    <3> QED BY <3>2 DEF Files
  <2>3. StoreStep
    BY <1>1, <1>3, <2>2, StepsThatEmptyTheStore
  <2>4. StoreInv'
    BY <1>1, <1>3, <2>1
    DEF StoreInv, UsedFirst, FilesWhole, ToWrite, DataDone, DirScan, LookScan, ReadSoFar, Reading
  <2> QED BY <2>3, <2>4
<1> QED BY <1>1, <1>2, <1>3

\* So does the restart of the machine; a failed format() promises nothing.
LEMMA RestartStores ==
  ASSUME IInv, ChainInv, StoreInv, Restart \/ FormatFails \/ AtaTest
  PROVE  StoreInv' /\ StoreStep
<1>1. CASE Restart
  <2>1. formatted' # "ok" /\ reply' = NoReply
    BY <1>1 DEF Restart
  <2> QED BY <2>1, NotReady, StepsThatEmptyTheStore
<1>2. CASE FormatFails \/ AtaTest
  <2>1. formatted # "ok" /\ formatted' # "ok"
    BY <1>2 DEF FormatFails, AtaTest, history, IInv, Control
  <2> QED BY <2>1, NothingPromised
<1> QED BY <1>1, <1>2

\* A step that changes nothing.
LEMMA StutterStores ==
  ASSUME IInv, ChainInv, StoreInv, UNCHANGED vars
  PROVE  StoreInv' /\ StoreStep
<1>1. UNCHANGED <<disk, pc, op, first, cluster, left, pos, out, reply, formatted>>
  BY DEF vars, locals, history
<1>2. CASE formatted # "ok"
  BY <1>1, <1>2, NothingPromised
<1>3. CASE formatted = "ok"
  <2>1. StoreSteady
    BY <1>1, <1>3, SteadyDisk
  <2>2. UsedFirst' /\ FilesWhole' /\ Files' = Files
    BY <1>3, <2>1 DEF StoreInv, StoreSteady
  <2>3. ToWrite' /\ DirScan' /\ LookScan'
    BY <1>1, <1>3, <2>1 DEF StoreInv, ToWrite, DirScan, LookScan, StoreSteady, RootSlots, HitsOf
  <2>4. DataDone'
    BY <1>1, <1>3 DEF StoreInv, DataDone, OwnSector, Chain, read_fat_entry, FatValue, SectorAt
  <2>5. ReadSoFar'
    <3> SUFFICES ASSUME Reading PROVE ReadSoFar'
      BY <1>1 DEF ReadSoFar, Reading
    <3>1. PICK p : /\ ReadsFile(p) /\ FirstHit(p, ShortName[op.name])
                   /\ \A k \in 1 .. Len(out) : out[k] = ContentAt(p)[k]
      BY <1>3 DEF StoreInv, ReadSoFar
    <3>2. ReadsFile(p)'
      <4>1. FilesSpared
        BY <1>1, <1>3, DiskQuiet, QuietFiles DEF ChainInv
      <4>2. /\ p \in UsedSlots' /\ EntryAt(p)' = EntryAt(p)
            /\ SizeAt(p)' = SizeAt(p) /\ ChainAt(p)' = ChainAt(p)
        BY <3>1, <4>1 DEF FilesSpared, ReadsFile, UsedSlots
      <4> QED BY <1>1, <3>1, <4>2 DEF ReadsFile, InCluster
    <3>3. FirstHit(p, ShortName[op.name])'
      BY <1>1, <2>1, <3>1 DEF StoreSteady, FirstHit, HitsOf
    <3>4. ContentAt(p)' = ContentAt(p)
      BY <2>1, <3>1 DEF StoreSteady, ReadsFile
    <3> QED BY <1>1, <3>1, <3>2, <3>3, <3>4 DEF ReadSoFar
  <2>6. StoreInv'
    BY <2>2, <2>3, <2>4, <2>5 DEF StoreInv
  <2> QED BY <1>1, <2>2, <2>6, StepsOfTheStore
<1> QED BY <1>2, <1>3

(***************************************************************************)
(* The theorem                                                             *)
(***************************************************************************)

\* The driver starts as the store does.
LEMMA InitStore == Init => StoreInv /\ Store!FSInit
<1> SUFFICES ASSUME Init PROVE StoreInv /\ Store!FSInit
  OBVIOUS
<1>1. formatted = "no" /\ reply = NoReply
  BY DEF Init
<1>2. StoreInv
  BY <1>1 DEF StoreInv
<1>3. Store!FSInit
  BY <1>1 DEF Store!FSInit, Store!NoReply, NoReply
<1> QED BY <1>2, <1>3

\* Every step of the driver is a step of the store, or changes nothing of it.
LEMMA NextStore == IInv /\ ChainInv /\ StoreInv /\ [Next]_vars => StoreInv' /\ StoreStep
<1> SUFFICES ASSUME IInv, ChainInv, StoreInv, [Next]_vars PROVE StoreInv' /\ StoreStep
  OBVIOUS
<1>1. CASE Step
  BY <1>1, RestartStores, FormatStepStores, FindFreeStores, FailedCallStores, FatWriteStores,
     DataWriteStores, NextClusterStores, DirWriteStores, LookupStores, DataReadStores DEF Step
<1>2. CASE Restart \/ FormatFails \/ TransferFails
  BY <1>2, RestartStores, FailedCallStores
<1>3. CASE \E n \in Names : BeginRead(n) \/ \E d \in Contents : BeginWrite(n, d)
  BY <1>3, BeginReadStores, BeginWriteStores
<1>4. CASE UNCHANGED vars
  BY <1>4, StutterStores
<1> QED BY <1>1, <1>2, <1>3, <1>4 DEF Next

\* The driver on its disk of any geometry implements the store of FileStore: a
\* file appears whole or not at all, a read gives the content of the first
\* successful write_file of the name, and a call or a transfer that fails changes
\* no file; the restart of the machine, which formats the disk again, empties the
\* store (StoreSpec).
THEOREM TheDiskIsAStore == Spec => StoreSpec
<1>1. Init => StoreInv /\ Store!FSInit
  BY InitStore
<1>2. IInv /\ ChainInv /\ StoreInv /\ [Next]_vars => StoreInv' /\ [Store!FSNext]_(Store!fsVars)
  BY NextStore DEF StoreStep
<1>3. Spec => [](IInv /\ ChainInv)
  BY ChainInvariance
<1> QED BY <1>1, <1>2, <1>3, PTL DEF Spec, StoreSpec, Store!FSSpec

(***************************************************************************)
(* Types                                                                   *)
(***************************************************************************)

\* What a sector may hold, anywhere and at any time, and what a directory entry.
Records == [name : ShortNames \union {Nothing, "junk"}, first : Clusters \union {0, FAT_EOC}, size : Nat]
SectorContents ==
  {Zero, Boot} \union {Data(c) : c \in Chunks \union {"pattern"}}
    \union {Fat(e) : e \in [FatSlots -> FatValues]} \union {Dir(e) : e \in [DirSlots -> Records]}

\* What a call may have read.
Readable == Chunks \union {"pattern", "zero", "boot", "fat", "dir"}

SectorsTyped == DOMAIN disk = Sectors /\ \A s \in Sectors : disk[s] \in SectorContents

LocalsTyped ==
  /\ pc \in {"ata_test", "format", "idle", "find", "fat", "data", "next", "dir",
             "lookup", "read", "astray"}
  /\ op.name \in Names \union {Nothing} /\ op.data \in Contents \union {<<>>}
  /\ pc \in {"find", "fat", "dir"} => op.data \in Contents
  /\ cluster \in FatValues /\ left \in Nat /\ out \in Seq(Readable)
  /\ written \in [Names -> Contents \union {Nothing}]

TypeInv == SectorsTyped /\ LocalsTyped

\* What is read in a sector of any kind.
LEMMA SectorRead ==
  ASSUME NEW x \in SectorContents
  PROVE  /\ x.type \in {"zero", "boot", "data", "fat", "dir"}
         /\ FatEntries(x) \in [FatSlots -> FatValues]
         /\ DirEntries(x) \in [DirSlots -> Records]
         /\ Chunk(x) \in Readable
<1>0. /\ FAT_FREE \in FatValues /\ BadEntry \in FatValues
      /\ Unused \in Records /\ Junk \in Records
  BY DEF FatValues, Unused, Junk, Entry, Records
<1>1. CASE x = Zero \/ x = Boot
  BY <1>0, <1>1 DEF Zero, Boot, FatEntries, DirEntries, Chunk, Readable
<1>2. CASE \E c \in Chunks \union {"pattern"} : x = Data(c)
  BY <1>0, <1>2 DEF Data, FatEntries, DirEntries, Chunk, Readable
<1>3. CASE \E e \in [FatSlots -> FatValues] : x = Fat(e)
  BY <1>0, <1>3 DEF Fat, FatEntries, DirEntries, Chunk, Readable
<1>4. CASE \E e \in [DirSlots -> Records] : x = Dir(e)
  BY <1>0, <1>4 DEF Dir, FatEntries, DirEntries, Chunk, Readable
<1> QED BY <1>1, <1>2, <1>3, <1>4 DEF SectorContents

\* One sector is written.
LEMMA SectorWritten ==
  ASSUME SectorsTyped, NEW s, NEW v \in SectorContents, disk' = [disk EXCEPT ![s] = v]
  PROVE  SectorsTyped'
BY DEF SectorsTyped

\* The types at the end of a call.
LEMMA ReturnTyped ==
  ASSUME LocalsTyped, NEW kind, NEW d, Return(kind, d),
         written' \in [Names -> Contents \union {Nothing}]
  PROVE  LocalsTyped'
<1>1. op' = NoOp /\ cluster' = 0 /\ left' = 0 /\ out' = <<>> /\ pc' = "idle"
  BY DEF Return, ClearLocals
<1>2. 0 \in FatValues
  BY DEF FatValues, FAT_FREE
<1> QED BY <1>1, <1>2 DEF LocalsTyped, NoOp

\* At power-on every variable has its type.
LEMMA InitTyped == Init => TypeInv
<1> SUFFICES ASSUME Init PROVE TypeInv
  OBVIOUS
<1>1. SectorsTyped
  BY DEF Init, SectorsTyped, SectorContents
<1>2. 0 \in FatValues
  BY DEF FatValues, FAT_FREE
<1>3. LocalsTyped
  BY <1>2 DEF Init, LocalsTyped, NoOp
<1> QED BY <1>1, <1>3 DEF TypeInv

\* The starts of the machine and of calls.
LEMMA StartsTyped ==
  ASSUME IInv, CallControl, TypeInv,
         AtaTest \/ Restart \/ FormatStep \/ FormatFails
           \/ \E n \in Names : BeginRead(n) \/ \E d \in Contents : BeginWrite(n, d)
  PROVE  TypeInv'
<1>0. 0 \in FatValues
  BY DEF FatValues, FAT_FREE
<1>1. CASE AtaTest
  <2>1. Data("pattern") \in SectorContents
    BY DEF SectorContents
  <2>2. SectorsTyped'
    <3>1. CASE disk' = disk
      BY <3>1 DEF TypeInv, SectorsTyped
    <3>2. CASE disk' = [disk EXCEPT ![0] = Data("pattern")]
      BY <3>2, <2>1, SectorWritten DEF TypeInv
    <3> QED BY <1>1, <3>1, <3>2 DEF AtaTest
  <2>3. LocalsTyped'
    BY <1>1 DEF AtaTest, TypeInv, LocalsTyped, locals, history
  <2> QED BY <2>2, <2>3 DEF TypeInv
<1>2. CASE Restart
  <2>1. SectorsTyped'
    BY <1>2 DEF Restart, TypeInv, SectorsTyped
  <2>2. LocalsTyped'
    BY <1>0, <1>2 DEF Restart, ClearLocals, NoOp, LocalsTyped
  <2> QED BY <2>1, <2>2 DEF TypeInv
<1>3. CASE FormatStep
  <2> DEFINE v == FormatPlan[pos + 1].value
             s == FormatPlan[pos + 1].sector
  <2>1. v \in {Zero, Boot, FirstFatSector}
    <3>1. pos + 1 \in 1 .. Len(FormatPlan)
      <4>1. pos \in Nat /\ pos < FormatLength
        BY <1>3 DEF FormatStep, IInv, FormatProgress, Control
      <4>2. FormatLength \in Nat /\ Len(FormatPlan) = FormatLength
        BY Plan, LayoutAssumption DEF FormatLength, FatBegun, FatZeroed, BootDone
      <4> QED BY <4>1, <4>2
    <3> DEFINE writes == [sector : Int, value : {Zero, Boot, FirstFatSector}]
               plan == FormatPlan
    <3>2. plan \in Seq(writes)
      BY WholePlan
    <3>3. pos + 1 \in 1 .. Len(plan)
      BY <3>1
    <3> HIDE DEF plan, writes
    <3>4. plan[pos + 1] \in writes
      BY <3>2, <3>3
    <3> QED BY <3>4 DEF plan, writes
  <2>2. FirstFatSector \in SectorContents
    <3> DEFINE e == [i \in FatSlots |-> IF i <= 2 THEN FAT_EOC ELSE FAT_FREE]
    <3>1. e \in [FatSlots -> FatValues] /\ FirstFatSector = Fat(e)
      BY DEF FirstFatSector, FatValues
    <3> HIDE DEF e
    <3> QED BY <3>1 DEF SectorContents
  <2>3. v \in SectorContents
    BY <2>1, <2>2 DEF SectorContents
  <2>4. disk' = [disk EXCEPT ![s] = v]
    BY <1>3 DEF FormatStep
  <2> HIDE DEF s, v
  <2>5. SectorsTyped'
    BY <2>3, <2>4, SectorWritten DEF TypeInv
  <2>6. pc' \in {"format", "idle"} /\ UNCHANGED <<op, cluster, left, out, written>>
    BY <1>3 DEF FormatStep
  <2>7. LocalsTyped'
    BY <2>6 DEF TypeInv, LocalsTyped
  <2> QED BY <2>5, <2>7 DEF TypeInv
<1>4. CASE FormatFails
  <2>1. pc' = "idle" /\ UNCHANGED <<disk, op, cluster, left, out, written>>
    BY <1>4 DEF FormatFails
  <2> QED BY <2>1 DEF TypeInv, LocalsTyped, SectorsTyped
<1>5. CASE \E n \in Names : BeginRead(n)
  <2>1. PICK n \in Names : BeginRead(n)
    BY <1>5
  <2>2. /\ pc' = "lookup" /\ op' = [name |-> n, data |-> <<>>]
        /\ UNCHANGED <<disk, cluster, left, out, written>>
    BY <2>1 DEF BeginRead, BeginCall, history
  <2> QED BY <2>2 DEF TypeInv, LocalsTyped, SectorsTyped
<1>6. CASE \E n \in Names : \E d \in Contents : BeginWrite(n, d)
  <2>1. PICK n \in Names, d \in Contents : BeginWrite(n, d)
    BY <1>6
  <2>2. /\ pc' = "find" /\ op' = [name |-> n, data |-> d] /\ left' = NeededClusters(d)
        /\ UNCHANGED <<disk, cluster, out, written>>
    BY <2>1 DEF BeginWrite, BeginCall, history
  <2>3. NeededClusters(d) \in Nat
    BY NeededPositive
  <2> QED BY <2>2, <2>3 DEF TypeInv, LocalsTyped, SectorsTyped
<1> QED BY <1>1, <1>2, <1>3, <1>4, <1>5, <1>6

\* The steps of write_file that reserve clusters.
LEMMA ReservingTyped ==
  ASSUME IInv, CallControl, TypeInv, FindFree \/ FindFull \/ FatWrite
  PROVE  TypeInv'
<1>1. CASE FindFree
  <2>1. cluster' \in Clusters
    <3>1. FreeClusters \subseteq Clusters /\ Clusters \subseteq Nat
      BY DEF FreeClusters, Clusters
    <3>2. FreeClusters # {} /\ cluster' = Min(FreeClusters)
      BY <1>1 DEF FindFree
    <3>3. Min(FreeClusters) \in FreeClusters
      BY <3>1, <3>2, LeastIsMember
    <3> QED BY <3>1, <3>2, <3>3
  <2>2. left \in Nat /\ left > 0
    BY <1>1 DEF FindFree, CallControl, TypeInv, LocalsTyped
  <2>3. /\ left' = left - 1 /\ pc = "find" /\ pc' = "fat"
        /\ UNCHANGED <<disk, op, out, written>>
    BY <1>1 DEF FindFree, history
  <2>4. left' \in Nat /\ cluster' \in FatValues
    BY <2>1, <2>2, <2>3 DEF FatValues
  <2> QED BY <2>3, <2>4 DEF TypeInv, LocalsTyped, SectorsTyped
<1>2. CASE FindFull
  <2>1. Return("error", Nothing) /\ UNCHANGED <<disk, written>>
    BY <1>2 DEF FindFull
  <2>2. LocalsTyped'
    BY <2>1, ReturnTyped DEF TypeInv, LocalsTyped
  <2> QED BY <2>1, <2>2 DEF TypeInv, SectorsTyped
<1>3. CASE FatWrite
  <2> DEFINE w == todo[1]
  <2>1. w \in FatWrites /\ disk' = WithFatEntry(w)
    <3>1. todo # <<>> /\ todo \in Seq(FatWrites)
      BY <1>3 DEF FatWrite, IInv, WritesPaired
    <3> QED BY <1>3, <3>1 DEF FatWrite
  <2> DEFINE s == FatSectorOf(w.copy, w.cluster)
             old == FatEntries(disk[s])
             new == [old EXCEPT ![FatSlotOf(w.cluster)] = w.value]
  <2>2. w.copy \in {0, 1} /\ w.cluster \in Clusters /\ w.value \in FatValues
    BY <2>1 DEF FatWrites, FatValues
  <2>3. s \in Sectors
    BY <2>2, FatPlaces, Areas
  <2>4. old \in [FatSlots -> FatValues]
    BY <2>3, SectorRead DEF TypeInv, SectorsTyped
  <2>5. disk' = [disk EXCEPT ![s] = Fat(new)]
    BY <2>1 DEF WithFatEntry
  <2>6. new \in [FatSlots -> FatValues]
    <3> HIDE DEF old, w
    <3> QED BY <2>2, <2>4
  <2> HIDE DEF new, s, old, w
  <2>7. SectorsTyped'
    <3>1. Fat(new) \in SectorContents
      BY <2>6 DEF SectorContents
    <3> QED BY <2>5, <3>1, SectorWritten DEF TypeInv
  <2>8. \/ UNCHANGED <<pc, cluster>>
        \/ pc' = "find" /\ UNCHANGED cluster
        \/ pc' \in {"dir", "data"} /\ cluster' = first
    BY <1>3, Zenon DEF FatWrite
  <2>10. pc = "fat" /\ UNCHANGED <<op, left, out, written>>
    BY <1>3 DEF FatWrite, history
  <2>9. first \in FatValues
    BY DEF IInv, Control, FatValues, FAT_FREE
  <2> QED BY <2>7, <2>8, <2>9, <2>10 DEF TypeInv, LocalsTyped
<1> QED BY <1>1, <1>2, <1>3

\* The steps that move data, along the chain of a cluster or in it.
LEMMA MovingTyped ==
  ASSUME IInv, CallControl, TypeInv, DataWrite \/ NextCluster \/ DataRead
  PROVE  TypeInv'
<1>1. CASE DataWrite
  <2> DEFINE v == IF pos < Len(op.data) THEN Data(op.data[pos + 1]) ELSE Zero
             s == SectorAt(cluster, pos)
  <2>1. v \in SectorContents
    <3>1. CASE pos < Len(op.data)
      <4>1. op.data \in Contents /\ pos + 1 \in 1 .. Len(op.data)
        <5>1. op.data \in Contents /\ pos \in Nat /\ Len(op.data) \in Nat
          BY <1>1, ContentsAreSequences DEF DataWrite, CallControl, IInv, Control
        <5> QED BY <5>1, <3>1
      <4>2. op.data[pos + 1] \in Chunks
        BY <4>1 DEF Chunks
      <4> QED BY <3>1, <4>2 DEF SectorContents
    <3>2. CASE ~(pos < Len(op.data))
      BY <3>2 DEF SectorContents
    <3> QED BY <3>1, <3>2
  <2>2. disk' = [disk EXCEPT ![s] = v]
    BY <1>1 DEF DataWrite
  <2> HIDE DEF s, v
  <2>3. SectorsTyped'
    BY <2>1, <2>2, SectorWritten DEF TypeInv
  <2>4. pc' \in {"dir", "next", "data"} /\ UNCHANGED <<op, cluster, left, out, written>>
    BY <1>1 DEF DataWrite, history
  <2>5. op.data \in Contents
    BY <1>1 DEF DataWrite, CallControl
  <2> QED BY <2>3, <2>4, <2>5 DEF TypeInv, LocalsTyped
<1>2. CASE NextCluster
  <2>1. cluster \in Clusters
    BY <1>2 DEF NextCluster, IInv, Control
  <2>2. read_fat_entry(cluster) \in FatValues
    <3>1. FatSectorOf(0, cluster) \in Sectors /\ FatSlotOf(cluster) \in FatSlots
      BY <2>1, FatPlaces, Areas
    <3>2. FatEntries(disk[FatSectorOf(0, cluster)]) \in [FatSlots -> FatValues]
      BY <3>1, SectorRead DEF TypeInv, SectorsTyped
    <3> QED BY <3>1, <3>2 DEF read_fat_entry, FatValue
  <2>3. /\ cluster' = read_fat_entry(cluster) /\ pc' \in {"astray", "read", "data"}
        /\ UNCHANGED <<disk, op, left, out, written>>
    BY <1>2 DEF NextCluster, history
  <2> QED BY <2>2, <2>3 DEF TypeInv, LocalsTyped, SectorsTyped
<1>3. CASE DataRead
  <2> DEFINE got == Append(out, Chunk(disk[SectorAt(cluster, pos)]))
  <2>1. SectorAt(cluster, pos) \in Sectors
    <3>1. cluster \in Clusters /\ pos \in Nat
      BY <1>3 DEF DataRead, IInv, Control
    <3>2. pos % SECTORS_PER_CLUSTER \in 0 .. SECTORS_PER_CLUSTER - 1
      BY <3>1, LayoutAssumption
    <3>3. SectorAt(cluster, pos) \in DATA_START_SECTOR .. TOTAL_SECTORS - 1
      BY <3>1, <3>2, ClusterSectorsOnDisk DEF SectorAt
    <3> QED BY <3>3, Sizes, LayoutAssumption DEF Sectors
  <2>2. Chunk(disk[SectorAt(cluster, pos)]) \in Readable
    BY <2>1, SectorRead DEF TypeInv, SectorsTyped
  <2>3. got \in Seq(Readable)
    BY <2>2 DEF TypeInv, LocalsTyped
  <2>4. disk' = disk /\ written' = written
    BY <1>3 DEF DataRead, history
  <2>5. CASE Len(got) = left
    <3>1. Return("data", got)
      BY <1>3, <2>5 DEF DataRead
    <3>2. LocalsTyped'
      BY <2>4, <3>1, ReturnTyped DEF TypeInv, LocalsTyped
    <3> QED BY <2>4, <3>2 DEF TypeInv, SectorsTyped
  <2>6. CASE Len(got) # left
    <3>1. out' = got /\ pc' \in {"next", "read"} /\ UNCHANGED <<op, cluster, left>>
      BY <1>3, <2>6 DEF DataRead
    <3> HIDE DEF got
    <3> QED BY <2>3, <2>4, <3>1 DEF TypeInv, LocalsTyped, SectorsTyped
  <2> QED BY <2>5, <2>6
<1> QED BY <1>1, <1>2, <1>3

\* The scans of the directory, and the end of a call that fails.
LEMMA ScanningTyped ==
  ASSUME IInv, CallControl, TypeInv, DirWrite \/ Lookup \/ TransferFails
  PROVE  TypeInv'
<1> DEFINE at == RootSector(pos)
           es == DirEntries(disk[at])
<1>1. ASSUME DirWrite \/ Lookup PROVE es \in [DirSlots -> Records]
  <2>1. pos \in 0 .. SECTORS_PER_CLUSTER - 1
    BY <1>1, LayoutAssumption DEF DirWrite, Lookup, IInv, Control
  <2>2. at \in Sectors
    BY <2>1, RootSectors, Areas DEF RootSector
  <2> QED BY <2>2, SectorRead DEF TypeInv, SectorsTyped
<1>2. CASE DirWrite
  <2>1. op.name \in Names /\ op.data \in Contents \union {<<>>} /\ Len(op.data) \in Nat
    BY <1>2, ContentsAreSequences DEF DirWrite, CallControl
  <2>2. CASE \E i \in FirstUnused(es) :
               /\ disk' = [disk EXCEPT ![at] =
                             Dir([es EXCEPT ![i] = Entry(ShortName[op.name], first, Len(op.data))])]
               /\ written' = [written EXCEPT ![op.name] = op.data]
               /\ Return("ok", Nothing)
    <3>1. PICK i \in FirstUnused(es) :
            /\ disk' = [disk EXCEPT ![at] =
                          Dir([es EXCEPT ![i] = Entry(ShortName[op.name], first, Len(op.data))])]
            /\ written' = [written EXCEPT ![op.name] = op.data]
            /\ Return("ok", Nothing)
      BY <2>2
    <3> DEFINE new == [es EXCEPT ![i] = Entry(ShortName[op.name], first, Len(op.data))]
    <3>2. Entry(ShortName[op.name], first, Len(op.data)) \in Records
      <4>1. ShortName[op.name] \in ShortNames /\ first \in Clusters \union {0}
        BY <2>1, CallerAssumption DEF IInv, Control
      <4> QED BY <2>1, <4>1 DEF Entry, Records
    <3>3. new \in [DirSlots -> Records]
      <4> HIDE DEF es
      <4> QED BY <1>1, <1>2, <3>2 DEF FirstUnused
    <3>4. disk' = [disk EXCEPT ![at] = Dir(new)]
      BY <3>1
    <3> HIDE DEF new, at
    <3>5. SectorsTyped'
      <4>1. Dir(new) \in SectorContents
        BY <3>3 DEF SectorContents
      <4> QED BY <3>4, <4>1, SectorWritten DEF TypeInv
    <3>6. written' \in [Names -> Contents \union {Nothing}]
      <4>1. op.data \in Contents
        BY <1>2 DEF DirWrite, TypeInv, LocalsTyped
      <4> QED BY <3>1, <4>1, <2>1 DEF TypeInv, LocalsTyped
    <3> QED BY <3>1, <3>5, <3>6, ReturnTyped DEF TypeInv
  <2>3. CASE /\ UNCHANGED <<disk, written>>
             /\ \/ UNCHANGED <<pc, op, first, cluster, left, todo, out, reply, clean>>
                \/ Return("error", Nothing)
    <3>1. CASE UNCHANGED <<pc, op, first, cluster, left, todo, out, reply, clean>>
      BY <2>3, <3>1 DEF TypeInv, LocalsTyped, SectorsTyped
    <3>2. CASE Return("error", Nothing)
      <4>1. LocalsTyped'
        BY <2>3, <3>2, ReturnTyped DEF TypeInv, LocalsTyped
      <4> QED BY <2>3, <4>1 DEF TypeInv, SectorsTyped
    <3> QED BY <2>3, <3>1, <3>2
  <2> QED BY <1>2, <2>2, <2>3 DEF DirWrite
<1>3. CASE Lookup
  <2>1. disk' = disk /\ written' = written
    BY <1>3 DEF Lookup, history
  <2>2. CASE \E kind, d : Return(kind, d)
    <3>1. LocalsTyped'
      BY <2>1, <2>2, ReturnTyped DEF TypeInv, LocalsTyped
    <3> QED BY <2>1, <3>1 DEF TypeInv, SectorsTyped
  <2>3. CASE UNCHANGED <<pc, op, cluster, left, out>>
    BY <2>1, <2>3 DEF TypeInv, LocalsTyped, SectorsTyped
  <2>4. CASE /\ UNCHANGED <<op, out>> /\ pc' \in {"read", "astray"}
             /\ \E i \in DirSlots : cluster' = es[i].first /\ left' = es[i].size
    <3>1. PICK i \in DirSlots : cluster' = es[i].first /\ left' = es[i].size
      BY <2>4
    <3>2. es[i] \in Records
      BY <1>1, <1>3
    <3> HIDE DEF es
    <3>3. cluster' \in FatValues /\ left' \in Nat
      BY <3>1, <3>2 DEF Records, FatValues, FAT_FREE
    <3> QED BY <2>1, <2>4, <3>3 DEF TypeInv, LocalsTyped, SectorsTyped
  <2>5. Matches(es, ShortName[op.name]) # {} => Min(Matches(es, ShortName[op.name])) \in DirSlots
    <3> DEFINE hits == Matches(es, ShortName[op.name])
    <3>1. hits \subseteq DirSlots /\ DirSlots \subseteq Nat
      BY CallerAssumption DEF Matches, DirSlots
    <3> HIDE DEF hits
    <3>2. hits # {} => Min(hits) \in hits
      BY <3>1, LeastIsMember
    <3> QED BY <3>1, <3>2 DEF hits
  <2> HIDE DEF es
  <2>6. es = DirEntries(disk[RootSector(pos)])
    BY DEF es
  <2> QED BY <1>3, <2>2, <2>3, <2>4, <2>5, <2>6 DEF Lookup
<1>4. CASE TransferFails
  <2>1. Return("error", Nothing) /\ UNCHANGED <<disk, written>>
    BY <1>4 DEF TransferFails
  <2>2. LocalsTyped'
    BY <2>1, ReturnTyped DEF TypeInv, LocalsTyped
  <2> QED BY <2>1, <2>2 DEF TypeInv, SectorsTyped
<1> QED BY <1>2, <1>3, <1>4

\* Every step keeps the types.
LEMMA NextTyped == IInv /\ CallControl /\ TypeInv /\ [Next]_vars => TypeInv'
<1> SUFFICES ASSUME IInv, CallControl, TypeInv, [Next]_vars PROVE TypeInv'
  OBVIOUS
<1>1. CASE Step
  BY <1>1, StartsTyped, ReservingTyped, MovingTyped, ScanningTyped DEF Step
<1>2. CASE Restart \/ FormatFails \/ TransferFails
  BY <1>2, StartsTyped, ScanningTyped
<1>3. CASE \E n \in Names : BeginRead(n) \/ \E d \in Contents : BeginWrite(n, d)
  BY <1>3, StartsTyped
<1>4. CASE UNCHANGED vars
  BY <1>4 DEF TypeInv, LocalsTyped, SectorsTyped, vars, locals, history
<1> QED BY <1>1, <1>2, <1>3, <1>4 DEF Next

\* Every variable has its type, with any failures and on any disk, formatted or not: what is
\* read in any sector, and taken for a FAT entry or a directory entry, is one the driver can go
\* on with, and no cluster beyond the disk's is ever linked to.
THEOREM TypeCorrect == Spec => []TypeOK
<1>1. Init => IInv /\ ChainInv /\ TypeInv
  BY InitIInv, ChainInit, InitTyped
<1>2. IInv /\ ChainInv /\ TypeInv /\ [Next]_vars => (IInv /\ ChainInv /\ TypeInv)'
  BY NextIInv, NextChainInv, NextTyped DEF ChainInv
<1>3. IInv /\ ChainInv /\ TypeInv => TypeOK
  <2> SUFFICES ASSUME IInv, ChainInv, TypeInv PROVE TypeOK
    OBVIOUS
  <2>1. \A s \in Sectors : disk[s].type \in {"zero", "boot", "data", "fat", "dir"}
    BY SectorRead DEF TypeInv, SectorsTyped
  <2>2. \A i \in 1 .. Len(todo) : todo[i].cluster \in Clusters /\ todo[i].value \in FatValues
    <3>1. todo \in Seq(FatWrites)
      BY DEF IInv, WritesPaired
    <3>2. \A w \in FatWrites : w.cluster \in Clusters /\ w.value \in FatValues
      BY DEF FatWrites, FatValues
    <3> QED BY <3>1, <3>2
  <2>3. \A i \in 1 .. Len(out) : out[i] \in Chunks \cup {"pattern", "zero", "boot", "fat", "dir"}
    BY DEF TypeInv, LocalsTyped, Readable
  <2>4. formatted \in {"no", "ok", "failed"} /\ clean \in BOOLEAN /\ pos \in Nat
        /\ first \in Clusters \cup {0}
    BY DEF IInv, Control
  <2> QED BY <2>1, <2>2, <2>3, <2>4 DEF TypeOK, TypeInv, LocalsTyped
<1> QED BY <1>1, <1>2, <1>3, PTL DEF Spec
====
