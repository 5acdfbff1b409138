----------------------------- MODULE Fat32Layout -----------------------------
(***************************************************************************)
(* Where arona_kernel's FAT32 driver (fat32/format.rs, fat32/dir.rs) puts   *)
(* things on the disk: reserved sectors, NUM_FATS copies of the FAT, then   *)
(* the clusters, numbered from 2, the first of them the root directory.     *)
(***************************************************************************)
EXTENDS Integers

CONSTANTS
  RESERVED_SECTORS,     \* 32 in format.rs
  SECTORS_PER_FAT,      \* 1024
  SECTORS_PER_CLUSTER,  \* 8
  TOTAL_SECTORS,        \* 1048576
  FatEntriesPerSector   \* 128: BYTES_PER_SECTOR / 4

NUM_FATS     == 2
ROOT_CLUSTER == 2

FAT_START_SECTOR  == RESERVED_SECTORS
DATA_START_SECTOR == FAT_START_SECTOR + NUM_FATS * SECTORS_PER_FAT

\* The clusters find_free_cluster scans.
total_clusters == (TOTAL_SECTORS - DATA_START_SECTOR) \div SECTORS_PER_CLUSTER
Clusters == 2 .. 1 + total_clusters

\* Mutant: clusters counted from 3.
cluster_to_sector_from3(cluster) == DATA_START_SECTOR + (cluster - 3) * SECTORS_PER_CLUSTER

cluster_to_sector(cluster) == DATA_START_SECTOR + (cluster - 2) * SECTORS_PER_CLUSTER

\* The sector of FAT copy fat_index that holds the entry of a cluster, and the
\* entry's place in it.
FatSectorOf(fat_index, cluster) ==
  FAT_START_SECTOR + fat_index * SECTORS_PER_FAT + cluster \div FatEntriesPerSector
FatSlotOf(cluster) == cluster % FatEntriesPerSector

\* The fixed geometry of format.rs, as far as anything depends on it: boot
\* sector and FSInfo with their backups fit in the reserved sectors, the three
\* reserved FAT entries in the first FAT sector, all entries in a FAT copy, and
\* there is a root cluster.
ASSUME LayoutAssumption ==
  /\ RESERVED_SECTORS \in Nat /\ RESERVED_SECTORS >= 8
  /\ SECTORS_PER_FAT \in Nat \ {0}
  /\ SECTORS_PER_CLUSTER \in Nat \ {0}
  /\ FatEntriesPerSector \in Nat /\ FatEntriesPerSector >= 3
  /\ TOTAL_SECTORS \in Nat
  /\ DATA_START_SECTOR + SECTORS_PER_CLUSTER <= TOTAL_SECTORS
  /\ total_clusters + 2 <= SECTORS_PER_FAT * FatEntriesPerSector
==============================================================================
