---------------------------- MODULE FatFsProofs ----------------------------
(***************************************************************************)
(* Proofs about FatFs, for every content of the cards, damaged or not, and *)
(* every order of commands, failures and changes of card: between mounts   *)
(* no sector is taken from outside the volume.                             *)
(***************************************************************************)
EXTENDS FatFs, TLAPS

-----------------------------------------------------------------------------
\* Arithmetic of sectors and clusters.

\* What division by a sector's size is.
LEMMA Division ==
    ASSUME NEW n \in Nat \ {0}, NEW a \in Nat
    PROVE  /\ a \div n \in Nat /\ a % n \in 0..(n - 1)
           /\ a = n * (a \div n) + (a % n)
           /\ n * (a \div n) \in Nat
  OBVIOUS

\* A quotient and a remainder are the only ones.
LEMMA OneQuotient ==
    ASSUME NEW n \in Nat \ {0}, NEW q \in Nat, NEW r \in 0..(n - 1)
    PROVE  (n * q + r) \div n = q /\ (n * q + r) % n = r
<1> DEFINE a == n * q + r
<1>1. a \in Nat
  OBVIOUS
<1> DEFINE p == a \div n
           s == a % n
<1>2. p \in Nat /\ s \in 0..(n - 1) /\ n * q + r = n * p + s
  BY <1>1, Division
<1> HIDE DEF p, s, a
<1>3. n * (q - p) = s - r
  BY <1>2
<1>4. q = p
  <2>1. CASE q > p
    <3>1. n * (q - p) >= n
      BY <2>1, <1>2
    <3> QED
      BY <3>1, <1>2, <1>3
  <2>2. CASE q < p
    <3>1. n * (p - q) >= n /\ n * (q - p) = -(n * (p - q))
      BY <2>2, <1>2
    <3> QED
      BY <3>1, <1>2, <1>3
  <2> QED
    BY <2>1, <2>2, <1>2
<1>5. r = s
  BY <1>2, <1>4
<1> QED
  BY <1>4, <1>5 DEF p, s, a

\* The next number has the next remainder and the same quotient, or a remainder of
\* zero and the next quotient.
LEMMA NextQuotient ==
    ASSUME NEW n \in Nat \ {0}, NEW a \in Nat
    PROVE  /\ (a + 1) % n # 0 => (a + 1) \div n = a \div n /\ (a + 1) % n = (a % n) + 1
           /\ (a + 1) % n = 0 => (a + 1) \div n = a \div n + 1
<1> DEFINE q == a \div n
           r == a % n
<1>1. q \in Nat /\ r \in 0..(n - 1) /\ a = n * q + r /\ n * q \in Nat
  BY Division
<1> HIDE DEF q, r
<1>2. CASE r = n - 1
  <2>1. n * (q + 1) = n * q + n
    BY <1>1
  <2>2. a + 1 = n * (q + 1) + 0
    BY <2>1, <1>1, <1>2
  <2>3. (a + 1) \div n = q + 1 /\ (a + 1) % n = 0
    BY <2>2, <1>1, OneQuotient
  <2> QED
    BY <2>3 DEF q
<1>3. CASE r # n - 1
  <2>1. r + 1 \in 0..(n - 1) /\ a + 1 = n * q + (r + 1)
    BY <1>1, <1>3
  <2>2. (n * q + (r + 1)) \div n = q /\ (n * q + (r + 1)) % n = r + 1
    BY <2>1, <1>1, OneQuotient
  <2>3. (a + 1) \div n = q /\ (a + 1) % n = r + 1
    BY ONLY <2>1, <2>2
  <2> QED
    BY <2>3, <1>1 DEF q, r
<1> QED
  BY <1>2, <1>3

\* Byte a of b bytes lies in one of the sectors that hold them.
LEMMA ByteInSectors ==
    ASSUME NEW n \in Nat \ {0}, NEW a \in Nat, NEW b \in Nat, a < b
    PROVE  a \div n \in Nat /\ a \div n < (b + n - 1) \div n
<1> DEFINE q == a \div n
           p == (b + n - 1) \div n
<1>1. q \in Nat /\ n * q \in Nat /\ n * q <= a
  BY Division
<1>2. b + n - 1 \in Nat
  OBVIOUS
<1>3. p \in Nat /\ n * p \in Nat /\ n * p >= b
  BY <1>2, Division
<1> HIDE DEF q, p
<1>4. n * q < n * p
  BY <1>1, <1>3
<1>5. q < p
  <2> SUFFICES ASSUME q >= p
               PROVE  FALSE
    BY <1>1, <1>3
  <2>1. n * (q - p) >= 0 /\ n * q = n * p + n * (q - p)
    BY <1>1, <1>3
  <2> QED
    BY <2>1, <1>1, <1>3, <1>4
<1> QED
  BY <1>1, <1>5 DEF q, p

-----------------------------------------------------------------------------
\* The volume.

\* Sector s is one of the volume of geometry g.
Inside(g, s) == s \in g.base..(g.base + g.tsect - 1)

\* Where the FAT entry of cluster c begins, as FatOffset has it.
OffsetOf(type, c) == CASE type = "FAT12" -> c + c \div 2
                       [] type = "FAT16" -> 2 * c
                       [] type = "FAT32" -> 4 * c

\* Whatever is computed from the geometry is a sector of the volume: the two
\* sectors get_fat calls for, the sectors of every cluster, those of the root
\* directory.
FatInside(g) ==
  \A c \in 2..(g.n_fatent - 1) :
    /\ Inside(g, g.fatbase + OffsetOf(g.type, c) \div SS)
    /\ Inside(g, g.fatbase + (OffsetOf(g.type, c) + 1) \div SS)
ClustersInside(g) ==
  \A c \in 2..(g.n_fatent - 1), k \in 0..(g.csize - 1) :
    g.database + g.csize * (c - 2) + k \in g.database..(g.base + g.tsect - 1)
RootInside(g) ==
  \A j \in 0..(g.n_rootdir - 1) : g.dirbase \in Nat /\ Inside(g, g.dirbase + j \div EPS)

GeometryOK(g) ==
  /\ g.base \in Nat /\ g.tsect \in Nat /\ g.n_rootdir \in Nat /\ g.n_fatent \in Nat
  /\ g.csize \in Nat \ {0} /\ g.database \in Nat \ {0} /\ g.base <= g.database
  /\ g.n_rootdir % EPS = 0
  /\ Inside(g, g.base)
  /\ FatInside(g) /\ ClustersInside(g) /\ RootInside(g)

\* The fields of a boot sector that CardsAssumption speaks of.
BootFields(b) ==
  /\ b.FATSz16 \in Nat /\ b.FATSz32 \in Nat /\ b.TotSec16 \in Nat /\ b.TotSec32 \in Nat
  /\ b.RsvdSecCnt \in Nat /\ b.RootEntCnt \in Nat

\* A FAT of Szbfat bytes holds the entry of every cluster, both bytes of it.
LEMMA EntryInFat ==
    ASSUME NEW b, Nclst(b) \in Nat, NEW c \in 2..(Nclst(b) + 1)
    PROVE  /\ OffsetOf(FatType(b), c) \in Nat /\ Szbfat(b) \in Nat
           /\ OffsetOf(FatType(b), c) + 1 < Szbfat(b)
<1> DEFINE n == Nclst(b) + 2
<1>1. n \in Nat /\ c \in Nat /\ c <= n - 1
  OBVIOUS
<1>2. FatType(b) \in {"FAT12", "FAT16", "FAT32"}
  BY DEF FatType
<1>3. Szbfat(b) = CASE FatType(b) = "FAT12" -> (n * 3) \div 2 + (n % 2)
                    [] FatType(b) = "FAT16" -> n * 2
                    [] FatType(b) = "FAT32" -> n * 4
  BY DEF Szbfat
<1> HIDE DEF n
<1>4. CASE FatType(b) = "FAT12"
  <2>1. /\ c \div 2 \in Nat /\ c % 2 \in 0..1 /\ c = 2 * (c \div 2) + (c % 2)
        /\ (n * 3) \div 2 \in Nat /\ (n * 3) % 2 \in 0..1 /\ n % 2 \in 0..1
        /\ n * 3 = 2 * ((n * 3) \div 2) + ((n * 3) % 2)
        /\ (n * 3) % 2 = n % 2
    BY <1>1
  <2>2. c + c \div 2 + 1 < (n * 3) \div 2 + (n % 2)
    BY <2>1, <1>1
  <2> QED
    BY <1>4, <1>1, <1>3, <2>1, <2>2 DEF OffsetOf
<1>5. CASE FatType(b) = "FAT16"
  BY <1>5, <1>1, <1>3 DEF OffsetOf
<1>6. CASE FatType(b) = "FAT32"
  BY <1>6, <1>1, <1>3 DEF OffsetOf
<1> QED
  BY <1>2, <1>4, <1>5, <1>6

\* The volume the code takes has its FAT, its clusters and its root directory
\* within the sectors the boot sector gives it: what the checks of mount_volume
\* are for.
LEMMA VolumeTaken ==
    ASSUME NEW b, BootFields(b), Accepted(b), NEW base \in Nat, NEW id
    PROVE  GeometryOK(Geometry(b, base, id))
<1> DEFINE g == Geometry(b, base, id)
           fasize == Fasize(b)
           tsect == Tsect(b)
           fats == fasize * b.NumFATs
           root == b.RootEntCnt \div EPS
           nclst == Nclst(b)
<1>1. /\ SS \in Nat \ {0} /\ EPS \in Nat \ {0}
      /\ fasize \in Nat /\ tsect \in Nat
      /\ b.RsvdSecCnt \in Nat \ {0} /\ b.RootEntCnt \in Nat /\ b.RootEntCnt % EPS = 0
      /\ b.SecPerClus \in Nat \ {0}
      /\ b.NumFATs \in {1, 2}
  BY SizesAssumption DEF BootFields, Accepted, Fasize, Tsect
<1>2. fats \in Nat /\ fasize <= fats
  BY <1>1
<1>3. root \in Nat /\ b.RootEntCnt = EPS * root
  BY <1>1, Division
<1>4. /\ Sysect(b) = b.RsvdSecCnt + fats + root
      /\ Sysect(b) <= tsect
      /\ nclst = (tsect - Sysect(b)) \div b.SecPerClus
      /\ nclst \in Nat
      /\ fasize >= (Szbfat(b) + SS - 1) \div SS
  <2>1. nclst \in Nat
    BY LimitsAssumption DEF Accepted
  <2> QED
    BY <2>1 DEF Accepted, Sysect, Nclst
<1>5. /\ g.type = FatType(b) /\ g.base = base /\ g.tsect = tsect /\ g.csize = b.SecPerClus
      /\ g.n_rootdir = b.RootEntCnt /\ g.n_fatent = nclst + 2
      /\ g.fatbase = base + b.RsvdSecCnt /\ g.database = base + Sysect(b)
      /\ g.dirbase = IF FatType(b) = "FAT32" THEN b.RootClus32
                     ELSE base + b.RsvdSecCnt + fats
  BY DEF Geometry
<1> HIDE DEF g, fasize, tsect, fats, root, nclst
<1>10. /\ fasize \in Nat /\ tsect \in Nat /\ fats \in Nat /\ root \in Nat /\ fasize <= fats
       /\ b.RsvdSecCnt \in Nat \ {0} /\ b.SecPerClus \in Nat \ {0}
       /\ Sysect(b) = b.RsvdSecCnt + fats + root /\ Sysect(b) <= tsect /\ Sysect(b) \in Nat
  BY <1>1, <1>2, <1>3, <1>4
<1>6. FatInside(g)
  <2> SUFFICES ASSUME NEW c \in 2..(nclst + 1)
               PROVE  /\ Inside(g, g.fatbase + OffsetOf(g.type, c) \div SS)
                      /\ Inside(g, g.fatbase + (OffsetOf(g.type, c) + 1) \div SS)
    BY <1>4, <1>5 DEF FatInside
  <2> DEFINE o == OffsetOf(g.type, c)
             z == Szbfat(b)
  <2>1. o \in Nat /\ z \in Nat /\ o + 1 < z
    BY <1>4, <1>5, EntryInFat DEF nclst
  <2> HIDE DEF o, z
  <2>2. o \div SS \in Nat /\ o \div SS < (z + SS - 1) \div SS
    BY <2>1, <1>1, ByteInSectors
  <2>3. (o + 1) \div SS \in Nat /\ (o + 1) \div SS < (z + SS - 1) \div SS
    BY <2>1, <1>1, ByteInSectors
  <2>4. (z + SS - 1) \div SS \in Nat
    <3>1. z + SS - 1 \in Nat /\ SS \in Nat \ {0}
      BY <2>1, <1>1
    <3> QED
      BY <3>1, Division
  <2>5. o \div SS < fasize /\ (o + 1) \div SS < fasize
    BY <2>2, <2>3, <2>4, <1>1, <1>4 DEF z
  <2>6. ASSUME NEW q \in Nat, q < fasize
        PROVE  Inside(g, g.fatbase + q)
    BY <2>6, <1>10, <1>5 DEF Inside
  <2> QED
    BY <2>2, <2>3, <2>5, <2>6 DEF o
<1>7. ClustersInside(g)
  <2> SUFFICES ASSUME NEW c \in 2..(nclst + 1), NEW k \in 0..(b.SecPerClus - 1)
               PROVE  g.database + b.SecPerClus * (c - 2) + k \in g.database..(base + tsect - 1)
    BY <1>1, <1>4, <1>5 DEF ClustersInside
  <2> DEFINE d == tsect - Sysect(b)
             z == b.SecPerClus
  <2>1. d \in Nat /\ z \in Nat \ {0} /\ g.database + d = base + tsect /\ g.database \in Nat
    BY <1>10, <1>5
  <2>2. z * nclst <= d
    <3> HIDE DEF d, z
    <3>1. nclst = d \div z
      BY <1>4 DEF d, z
    <3>2. d = z * (d \div z) + (d % z) /\ d % z \in 0..(z - 1) /\ z * (d \div z) \in Nat
      BY <2>1, Division
    <3> QED
      BY <3>1, <3>2, <2>1
  <2> HIDE DEF z, d
  <2>3. z * (c - 2) \in Nat /\ z * (c - 1) = z * (c - 2) + z /\ z * (c - 1) <= z * nclst
    <3>1. z * (nclst - (c - 1)) >= 0 /\ z * nclst = z * (c - 1) + z * (nclst - (c - 1))
      BY <2>1, <1>4
    <3>2. z * (c - 2) \in Nat /\ z * (c - 1) = z * (c - 2) + z
      BY <2>1, <1>4
    <3> QED
      BY <3>1, <3>2, <2>1, <1>4
  <2>4. z * nclst \in Nat /\ k \in Nat /\ k < z
    BY <2>1, <1>4 DEF z
  <2>5. g.database + z * (c - 2) + k \in g.database..(base + tsect - 1)
    BY <2>1, <2>2, <2>3, <2>4, <1>1
  <2> QED
    BY <2>5 DEF z
<1>8. RootInside(g)
  <2> SUFFICES ASSUME NEW j \in 0..(b.RootEntCnt - 1)
               PROVE  g.dirbase \in Nat /\ Inside(g, g.dirbase + j \div EPS)
    BY <1>5 DEF RootInside
  <2>1. FatType(b) # "FAT32" /\ j \in Nat /\ j < b.RootEntCnt
    BY <1>1 DEF Accepted
  <2>2. j \div EPS \in Nat /\ j \div EPS < root
    <3>1. /\ j \div EPS \in Nat
          /\ j \div EPS < (b.RootEntCnt + EPS - 1) \div EPS
      BY <1>1, <2>1, ByteInSectors
    <3>2. EPS - 1 \in 0..(EPS - 1) /\ b.RootEntCnt + EPS - 1 = EPS * root + (EPS - 1)
      BY <1>1, <1>3
    <3>3. (EPS * root + (EPS - 1)) \div EPS = root
      BY <1>1, <1>3, <3>2, OneQuotient
    <3> QED
      BY <3>1, <3>2, <3>3
  <2>3. g.dirbase = base + b.RsvdSecCnt + fats
    BY <2>1, <1>5
  <2> QED
    BY <2>2, <2>3, <1>10, <1>5 DEF Inside
<1>9. /\ g.base \in Nat /\ g.tsect \in Nat /\ g.n_rootdir \in Nat /\ g.n_fatent \in Nat
      /\ g.csize \in Nat \ {0} /\ g.database \in Nat \ {0} /\ g.base <= g.database
      /\ g.n_rootdir % EPS = 0
      /\ Inside(g, g.base)
  <2>1. g.n_rootdir \in Nat /\ g.n_rootdir % EPS = 0 /\ g.n_fatent \in Nat
    BY <1>1, <1>4, <1>5
  <2>2. g.database \in Nat \ {0} /\ g.base <= g.database
    BY <1>10, <1>5
  <2>3. tsect > 0 /\ Inside(g, g.base)
    BY <1>10, <1>5 DEF Inside
  <2> QED
    BY <1>10, <1>5, <2>1, <2>2, <2>3
<1> QED
  BY <1>6, <1>7, <1>8, <1>9 DEF GeometryOK, g

-----------------------------------------------------------------------------
\* The inductive invariant: InsideVolume, and why it goes on holding.

\* The records have the fields they began with.
VolumeShape(g) ==
  g = [type |-> g.type, id |-> g.id, card |-> g.card, base |-> g.base, tsect |-> g.tsect,
       csize |-> g.csize, n_rootdir |-> g.n_rootdir, n_fatent |-> g.n_fatent,
       fatbase |-> g.fatbase, dirbase |-> g.dirbase, database |-> g.database]
DirShape(d) ==
  /\ d = [valid |-> d.valid, id |-> d.id, sclust |-> d.sclust, dptr |-> d.dptr,
          clust |-> d.clust, sect |-> d.sect, attr |-> d.attr]
  /\ d.dptr \in Nat
FileShape(f) ==
  /\ f = [valid |-> f.valid, id |-> f.id, sclust |-> f.sclust, objsize |-> f.objsize,
          fptr |-> f.fptr, clust |-> f.clust, sect |-> f.sect, of |-> f.of, err |-> f.err]
  /\ f.objsize \in Nat /\ f.fptr \in Nat

\* What the window holds was read from a card that has such a sector.
Readable(w) ==
  w = Lost \/ /\ w = [card |-> w.card, sect |-> w.sect]
              /\ w.card \in Cards /\ w.sect \in 0..(Len(Image[w.card]) - 1)

WindowInside(w) == w = Lost \/ (w.card = fs.card /\ Inside(fs, w.sect))

\* The sector of a directory is the one its cluster and index, or in the root its
\* index alone, lead to; or there is none.
DirInside(d) ==
  \/ d.sect = 0
  \/ /\ d.clust \in 2..(fs.n_fatent - 1)
     /\ d.sect = fs.database + fs.csize * (d.clust - 2) + ((d.dptr \div EPS) % fs.csize)
  \/ /\ d.clust = 0 /\ d.dptr < fs.n_rootdir
     /\ d.sect = fs.dirbase + d.dptr \div EPS

FileInside(f) ==
  f.sect # 0 => f.of = fs.card /\ f.sect \in fs.database..(fs.base + fs.tsect - 1)

BootSector(w) == ~Failed(w) /\ Sector(w).sig /\ Sector(w).jump /\ Sector(w).fat

Typed == VolumeShape(fs) /\ DirShape(dp) /\ FileShape(fil) /\ btr \in Int
SlotOK == card \in Cards \union {NoCard} /\ (ready => card \in Cards)

\* Where the program is, and what has been done by then.
Phases ==
  /\ pc \in {"idle", "call", "sector0", "partition", "bpb"} => dp.sect = 0 /\ fil.sect = 0
  /\ pc \in {"call", "sector0", "partition", "bpb"} => ~Mounted
  /\ pc \in {"follow", "segment", "find", "followed", "dirread", "read"} => Mounted
  /\ pc = "partition" => i \in 1..4 /\ \A e \in 1..4 : mbr[e] \in Nat
  /\ pc = "bpb" => BootSector(win) /\ (ready => card = win.card)
  /\ pc = "find" => dp.sect # 0
  /\ pc = "followed" /\ res = "OK" /\ seg # NoName => ~Failed(win)

InVolume ==
  Mounted =>
    /\ ready => card = fs.card
    /\ GeometryOK(fs)
    /\ WindowInside(win) /\ DirInside(dp) /\ FileInside(fil)

IInv == Typed /\ SlotOK /\ Readable(win) /\ Phases /\ InVolume

-----------------------------------------------------------------------------
\* The functions of the read path, in a state of the invariant.

\* move_window leaves the window on the sector asked for, or lost.
LEMMA Moved ==
    ASSUME NEW w, Readable(w), SlotOK, NEW s \in Int, NEW v \in move_window(w, s)
    PROVE  /\ Readable(v)
           /\ v.sect = s \/ v = Lost
           /\ v = w \/ v = Lost \/ (ready /\ v.card = card)
<1>1. CASE v = w /\ s = w.sect
  BY <1>1
<1>2. CASE v = Lost
  BY <1>2 DEF Readable
<1>3. CASE v = [card |-> card, sect |-> s] /\ TRUE \in disk_read(s)
  <2>1. ready /\ s \in 0..(Len(Image[card]) - 1)
    BY <1>3 DEF disk_read
  <2> QED
    BY <1>3, <2>1 DEF Readable, SlotOK
<1>4. \/ v = w /\ s = w.sect
      \/ v \in {IF ok THEN [card |-> card, sect |-> s] ELSE Lost : ok \in disk_read(s)}
  BY DEF move_window
<1>5. disk_read(s) \subseteq BOOLEAN
  BY DEF disk_read
<1> QED
  BY <1>1, <1>2, <1>3, <1>4, <1>5

\* A sector of the volume asked for leaves the window in the volume.
LEMMA MovedInside ==
    ASSUME NEW w, Readable(w), WindowInside(w), SlotOK, ready => card = fs.card,
           NEW s, Inside(fs, s), GeometryOK(fs), NEW v \in move_window(w, s)
    PROVE  Readable(v) /\ WindowInside(v) /\ (v.sect = s \/ v = Lost)
<1>1. s \in Int
  BY DEF Inside, GeometryOK
<1>2. /\ Readable(v)
      /\ v.sect = s \/ v = Lost
      /\ v = w \/ v = Lost \/ (ready /\ v.card = card)
  BY <1>1, Moved
<1> QED
  BY <1>2 DEF WindowInside

\* A window not lost has a sector of a card.
LEMMA Held ==
    ASSUME NEW w, Readable(w), ~Failed(w)
    PROVE  w \in [card : Cards, sect : Nat] /\ w.sect + 1 \in 1..Len(Image[w.card])
<1>1. w # Lost
  BY DEF Lost, Failed
<1>2. w = [card |-> w.card, sect |-> w.sect] /\ w.card \in Cards
      /\ w.sect \in 0..(Len(Image[w.card]) - 1)
  BY <1>1 DEF Readable
<1>3. Len(Image[w.card]) \in Nat
  BY <1>2, CardsAssumption
<1>4. w.sect \in Nat /\ w.sect + 1 \in 1..Len(Image[w.card])
  BY <1>2, <1>3
<1> QED
  BY <1>2, <1>4

\* get_fat takes the entry of a cluster from the volume, whatever number the
\* cluster has.
LEMMA FatReadInside ==
    ASSUME NEW w, Readable(w), WindowInside(w), SlotOK, ready => card = fs.card,
           GeometryOK(fs), NEW c, NEW g \in get_fat(w, c)
    PROVE  Readable(g.win) /\ WindowInside(g.win)
<1> DEFINE At1(b) == fs.fatbase + b \div SS
<1>1. CASE c \notin 2..(fs.n_fatent - 1)
  BY <1>1 DEF get_fat
<1>2. CASE c \in 2..(fs.n_fatent - 1)
  <2>1. Inside(fs, At1(FatOffset(c))) /\ Inside(fs, At1(FatOffset(c) + 1))
    BY <1>2 DEF GeometryOK, FatInside, FatOffset, OffsetOf
  <2> HIDE DEF At1
  <2>2. ASSUME NEW f \in move_window(w, At1(FatOffset(c)))
        PROVE  Readable(f) /\ WindowInside(f)
    BY <2>1, MovedInside
  <2>3. ASSUME NEW f \in move_window(w, At1(FatOffset(c))),
               NEW h \in move_window(f, At1(FatOffset(c) + 1))
        PROVE  Readable(h) /\ WindowInside(h)
    BY <2>1, <2>2, MovedInside
  <2>4. PICK f \in move_window(w, At1(FatOffset(c))) :
          \/ g.win = f
          \/ \E h \in move_window(f, At1(FatOffset(c) + 1)) : g.win = h
    BY <1>2 DEF get_fat, At1
  <2> QED
    BY <2>2, <2>3, <2>4
<1> QED
  BY <1>1, <1>2

\* The sectors of a directory are sectors of the volume.
LEMMA DirectorySector ==
    ASSUME NEW d, DirShape(d), DirInside(d), d.sect # 0, GeometryOK(fs)
    PROVE  Inside(fs, d.sect)
<1>1. CASE d.clust \in 2..(fs.n_fatent - 1)
           /\ d.sect = fs.database + fs.csize * (d.clust - 2) + ((d.dptr \div EPS) % fs.csize)
  <2> DEFINE k == (d.dptr \div EPS) % fs.csize
  <2>1. d.dptr \div EPS \in Nat
    BY SizesAssumption, Division DEF DirShape
  <2>2. k \in 0..(fs.csize - 1)
    BY <2>1, Division DEF GeometryOK
  <2> HIDE DEF k
  <2>3. fs.database + fs.csize * (d.clust - 2) + k \in fs.database..(fs.base + fs.tsect - 1)
    BY <2>2, <1>1 DEF GeometryOK, ClustersInside
  <2>4. d.sect \in fs.database..(fs.base + fs.tsect - 1)
    BY <2>3, <1>1 DEF k
  <2> QED
    BY <2>4 DEF Inside, GeometryOK
<1>2. CASE d.clust = 0 /\ d.dptr < fs.n_rootdir /\ d.sect = fs.dirbase + d.dptr \div EPS
  <2>1. d.dptr \in 0..(fs.n_rootdir - 1)
    BY <1>2 DEF DirShape, GeometryOK
  <2> QED
    BY <1>2, <2>1 DEF GeometryOK, RootInside
<1> QED
  BY <1>1, <1>2 DEF DirInside

\* A number is a cluster's or leads nowhere.
LEMMA ClusterSector ==
    ASSUME NEW c, GeometryOK(fs)
    PROVE  /\ c \in 2..(fs.n_fatent - 1) =>
                clst2sect(c) = fs.database + fs.csize * (c - 2) /\ clst2sect(c) # 0
           /\ c \notin 2..(fs.n_fatent - 1) => clst2sect(c) = 0
<1>1. CASE c \in 2..(fs.n_fatent - 1)
  <2>1. fs.csize * (c - 2) \in Nat
    BY <1>1 DEF GeometryOK
  <2> QED
    BY <1>1, <2>1 DEF clst2sect, GeometryOK
<1>2. CASE c \notin 2..(fs.n_fatent - 1)
  BY <1>2 DEF clst2sect
<1> QED
  BY <1>1, <1>2

\* dir_sdi leads to the first entry, or nowhere.
LEMMA Rewound ==
    ASSUME NEW d, DirShape(d), GeometryOK(fs)
    PROVE  LET t == dir_sdi(d) IN
           /\ DirShape(t.dir) /\ DirInside(t.dir)
           /\ t.res \in {"OK", "INT_ERR"}
           /\ t.res = "OK" => t.dir.sect # 0
<1> DEFINE clst == IF d.sclust = 0 /\ fs.type = "FAT32" THEN fs.dirbase ELSE d.sclust
           sect == CASE clst # 0 -> clst2sect(clst)
                     [] clst = 0 -> IF fs.n_rootdir = 0 THEN 0 ELSE fs.dirbase
           t == dir_sdi(d)
<1>1. /\ t.res = IF sect = 0 THEN "INT_ERR" ELSE "OK"
      /\ t.dir = [d EXCEPT !.dptr = 0, !.clust = clst, !.sect = sect]
  BY DEF dir_sdi
<1>2. clst = 0 \/ clst # 0
  OBVIOUS
<1>3. sect = IF clst = 0 THEN IF fs.n_rootdir = 0 THEN 0 ELSE fs.dirbase ELSE clst2sect(clst)
  BY <1>2
<1> HIDE DEF clst, sect, t
<1>4. /\ DirShape(t.dir) /\ t.dir.dptr = 0 /\ t.dir.clust = clst /\ t.dir.sect = sect
  <2>1. d = [valid |-> d.valid, id |-> d.id, sclust |-> d.sclust, dptr |-> d.dptr,
             clust |-> d.clust, sect |-> d.sect, attr |-> d.attr]
    BY DEF DirShape
  <2>2. t.dir = [valid |-> d.valid, id |-> d.id, sclust |-> d.sclust, dptr |-> 0,
                 clust |-> clst, sect |-> sect, attr |-> d.attr]
    BY <2>1, <1>1
  <2> QED
    BY <2>2 DEF DirShape
<1>5. 0 \div EPS = 0 /\ 0 % fs.csize = 0
  BY SizesAssumption DEF GeometryOK
<1>6. CASE clst = 0 /\ fs.n_rootdir # 0
  <2>1. 0 \in 0..(fs.n_rootdir - 1) /\ 0 < fs.n_rootdir
    BY <1>6 DEF GeometryOK
  <2>2. fs.dirbase \in Nat
    BY <2>1 DEF GeometryOK, RootInside
  <2>3. sect = fs.dirbase + 0 \div EPS
    BY <1>6, <1>3, <1>5, <2>2
  <2> QED
    BY <1>1, <1>4, <1>6, <2>1, <2>3 DEF DirInside, t
<1>7. CASE clst \in 2..(fs.n_fatent - 1)
  <2>1. clst # 0 /\ sect = fs.database + fs.csize * (clst - 2)
    BY <1>7, <1>3, ClusterSector
  <2>2. fs.database + fs.csize * (clst - 2) \in Int
    BY <1>7 DEF GeometryOK
  <2>3. sect = fs.database + fs.csize * (clst - 2) + ((0 \div EPS) % fs.csize)
    BY <1>5, <2>1, <2>2
  <2> QED
    BY <1>1, <1>4, <1>7, <2>3 DEF DirInside, t
<1>8. CASE sect = 0
  BY <1>1, <1>4, <1>8 DEF DirInside, t
<1> QED
  BY <1>3, <1>6, <1>7, <1>8, ClusterSector

\* dir_next in a new cluster: its first sector, if the FAT's entry is a cluster.
LEMMA NextClusterInside ==
    ASSUME NEW d, DirShape(d), GeometryOK(fs), d.clust # 0, DirInside(d), d.sect # 0,
           ~InsideSector(d), ~InsideCluster(d), NEW g, NEW n \in NextCluster(d, g)
    PROVE  /\ n.win = g.win
           /\ DirShape(n.dir) /\ DirInside(n.dir)
           /\ n.res \in {"OK", "NO_FILE", "INT_ERR", "DISK_ERR"}
           /\ n.res = "OK" => n.dir.sect # 0
<1> DEFINE next == [d EXCEPT !.dptr = NextIndex(d), !.clust = g.val, !.sect = clst2sect(g.val)]
<1>1. d.dptr + 1 \in Nat /\ NextIndex(d) = d.dptr + 1
  BY DEF DirShape, NextIndex
<1>2. /\ DirShape(next) /\ next.dptr = d.dptr + 1
      /\ next.clust = g.val /\ next.sect = clst2sect(g.val)
  <2> HIDE DEF next
  <2>1. next = [d EXCEPT !.dptr = d.dptr + 1, !.clust = g.val, !.sect = clst2sect(g.val)]
    BY <1>1 DEF next
  <2>2. d = [valid |-> d.valid, id |-> d.id, sclust |-> d.sclust, dptr |-> d.dptr,
             clust |-> d.clust, sect |-> d.sect, attr |-> d.attr]
    BY DEF DirShape
  <2>3. next = [valid |-> d.valid, id |-> d.id, sclust |-> d.sclust, dptr |-> d.dptr + 1,
                clust |-> g.val, sect |-> clst2sect(g.val), attr |-> d.attr]
    BY <2>1, <2>2
  <2> QED
    BY <2>3, <1>1 DEF DirShape
<1>3. ASSUME g.val \in 2..(fs.n_fatent - 1)
      PROVE  DirInside(next) /\ next.sect # 0
  <2>1. /\ clst2sect(g.val) = fs.database + fs.csize * (g.val - 2)
        /\ clst2sect(g.val) # 0
    BY <1>3, ClusterSector
  <2>2. fs.database + fs.csize * (g.val - 2) \in Int
    BY <1>3 DEF GeometryOK
  <2>3. (next.dptr \div EPS) % fs.csize = 0
    BY <1>2 DEF InsideCluster
  <2>4. next.sect = fs.database + fs.csize * (next.clust - 2) + ((next.dptr \div EPS) % fs.csize)
    BY <1>2, <2>1, <2>2, <2>3
  <2> QED
    BY <1>2, <1>3, <2>1, <2>4 DEF DirInside
<1>4. [d EXCEPT !.sect = 0].sect = 0 /\ DirShape([d EXCEPT !.sect = 0])
      /\ DirInside([d EXCEPT !.sect = 0])
  BY DEF DirShape, DirInside
<1> HIDE DEF next
<1>5. \/ n = [res |-> "INT_ERR", dir |-> d, win |-> g.win]
      \/ n = [res |-> "DISK_ERR", dir |-> d, win |-> g.win]
      \/ g.val \in 2..(fs.n_fatent - 1) /\ n = [res |-> "OK", dir |-> next, win |-> g.win]
      \/ n = [res |-> "NO_FILE", dir |-> [d EXCEPT !.sect = 0], win |-> g.win]
  BY DEF NextCluster, DirNext, next
<1> QED
  BY <1>2, <1>3, <1>4, <1>5

\* dir_next stays in the volume: in the sector, in the cluster, in the next cluster,
\* in the root directory; or it stops.
LEMMA NextEntry ==
    ASSUME NEW w, Readable(w), WindowInside(w), SlotOK, ready => card = fs.card,
           GeometryOK(fs), NEW d, DirShape(d), DirInside(d), NEW n \in dir_next(w, d)
    PROVE  /\ Readable(n.win) /\ WindowInside(n.win)
           /\ DirShape(n.dir) /\ DirInside(n.dir)
           /\ n.res \in {"OK", "NO_FILE", "INT_ERR", "DISK_ERR"}
           /\ n.res = "OK" => n.dir.sect # 0
<1> DEFINE ofs == d.dptr + 1
           q == d.dptr \div EPS
<1>1. /\ d.dptr \in Nat /\ ofs \in Nat /\ q \in Nat
      /\ EPS \in Nat \ {0} /\ fs.csize \in Nat \ {0}
  <2>1. d.dptr \in Nat /\ EPS \in Nat \ {0} /\ fs.csize \in Nat \ {0}
    BY SizesAssumption DEF DirShape, GeometryOK
  <2> QED
    BY <2>1, Division
<1>2. /\ ofs % EPS # 0 => ofs \div EPS = q
      /\ ofs % EPS = 0 => ofs \div EPS = q + 1
  BY <1>1, NextQuotient
<1>3. (q + 1) % fs.csize # 0 => (q + 1) % fs.csize = (q % fs.csize) + 1
  BY <1>1, NextQuotient
<1>4. ASSUME n \in DirNext("NO_FILE", [d EXCEPT !.sect = 0], w)
      PROVE  /\ DirShape(n.dir) /\ DirInside(n.dir)
             /\ n.res = "NO_FILE" /\ n.win = w
  BY <1>4 DEF DirNext, DirShape, DirInside
<1>5. ASSUME NEW e, d.sect # 0, InsideSector(d), e = [d EXCEPT !.dptr = ofs]
      PROVE  DirShape(e) /\ DirInside(e) /\ e.sect # 0
  <2>1. DirShape(e) /\ e.dptr = ofs /\ e.clust = d.clust /\ e.sect = d.sect
    BY <1>5, <1>1 DEF DirShape
  <2>2. ofs \div EPS = q
    BY <1>2, <1>5 DEF InsideSector
  <2>3. d.dptr < fs.n_rootdir => ofs < fs.n_rootdir
    <3>1. fs.n_rootdir \in Nat /\ fs.n_rootdir % EPS = 0 /\ ofs % EPS # 0
      BY <1>5 DEF GeometryOK, InsideSector
    <3> QED
      BY <3>1, <1>1
  <2> QED
    BY <2>1, <2>2, <2>3, <1>5 DEF DirInside
<1>6. ASSUME NEW e, d.sect # 0, ~InsideSector(d), e = [d EXCEPT !.dptr = ofs, !.sect = @ + 1],
             \/ d.clust = 0 /\ ofs < fs.n_rootdir
             \/ d.clust # 0 /\ InsideCluster(d)
      PROVE  DirShape(e) /\ DirInside(e) /\ e.sect # 0
  <2>1. DirShape(e) /\ e.dptr = ofs /\ e.clust = d.clust /\ e.sect = d.sect + 1
    BY <1>6, <1>1 DEF DirShape
  <2>2. ofs \div EPS = q + 1
    BY <1>2, <1>6 DEF InsideSector
  <2>3. d.sect \in Nat
    BY DirectorySector, <1>6 DEF Inside, GeometryOK
  <2>4. CASE d.clust = 0 /\ ofs < fs.n_rootdir
    <3>1. d.dptr \in 0..(fs.n_rootdir - 1)
      BY <2>4, <1>1, <1>6 DEF DirInside, GeometryOK
    <3>2. fs.dirbase \in Nat
      BY <3>1 DEF GeometryOK, RootInside
    <3>3. d.sect = fs.dirbase + q
      BY <2>4, <1>6 DEF DirInside
    <3>4. e.sect = fs.dirbase + e.dptr \div EPS
      BY <2>1, <2>2, <3>2, <3>3, <1>1
    <3> QED
      BY <2>1, <2>3, <2>4, <3>4 DEF DirInside
  <2>5. CASE d.clust # 0 /\ InsideCluster(d)
    <3>1. (q + 1) % fs.csize = (q % fs.csize) + 1
      BY <2>2, <2>5, <1>3 DEF InsideCluster
    <3>2. /\ d.clust \in 2..(fs.n_fatent - 1)
          /\ d.sect = fs.database + fs.csize * (d.clust - 2) + (q % fs.csize)
      BY <2>5, <1>6 DEF DirInside
    <3>3. fs.database + fs.csize * (d.clust - 2) \in Int /\ q % fs.csize \in Int
      BY <3>2, <1>1 DEF GeometryOK
    <3>4. e.sect = fs.database + fs.csize * (d.clust - 2) + ((q + 1) % fs.csize)
      BY <2>1, <3>1, <3>2, <3>3
    <3> QED
      BY <2>1, <2>2, <2>3, <3>2, <3>4 DEF DirInside
  <2> QED
    BY <2>4, <2>5, <1>6
<1>7. ASSUME d.clust # 0, d.sect # 0, ~InsideSector(d), ~InsideCluster(d),
             n \in UNION {NextCluster(d, g) : g \in get_fat(w, d.clust)}
      PROVE  /\ Readable(n.win) /\ WindowInside(n.win)
             /\ DirShape(n.dir) /\ DirInside(n.dir)
             /\ n.res \in {"OK", "NO_FILE", "INT_ERR", "DISK_ERR"}
             /\ n.res = "OK" => n.dir.sect # 0
  <2>1. PICK g \in get_fat(w, d.clust) : n \in NextCluster(d, g)
    BY <1>7
  <2>2. Readable(g.win) /\ WindowInside(g.win)
    BY FatReadInside
  <2> QED
    BY <2>1, <2>2, <1>7, NextClusterInside
<1>8. \/ n \in DirNext("NO_FILE", [d EXCEPT !.sect = 0], w)
      \/ /\ d.sect # 0 /\ InsideSector(d)
         /\ n \in DirNext("OK", [d EXCEPT !.dptr = ofs], w)
      \/ /\ d.sect # 0 /\ ~InsideSector(d)
         /\ (d.clust = 0 /\ ~(ofs >= fs.n_rootdir)) \/ (d.clust # 0 /\ InsideCluster(d))
         /\ n \in DirNext("OK", [d EXCEPT !.dptr = ofs, !.sect = @ + 1], w)
      \/ /\ d.clust # 0 /\ d.sect # 0 /\ ~InsideSector(d) /\ ~InsideCluster(d)
         /\ n \in UNION {NextCluster(d, g) : g \in get_fat(w, d.clust)}
  BY DEF dir_next
<1>9. CASE n \in DirNext("NO_FILE", [d EXCEPT !.sect = 0], w)
  BY <1>4, <1>9
<1>10. CASE d.sect # 0 /\ InsideSector(d) /\ n \in DirNext("OK", [d EXCEPT !.dptr = ofs], w)
  <2>1. n.dir = [d EXCEPT !.dptr = ofs] /\ n.win = w /\ n.res = "OK"
    BY <1>10 DEF DirNext
  <2> QED
    BY <2>1, <1>5, <1>10
<1>11. CASE /\ d.sect # 0 /\ ~InsideSector(d)
            /\ (d.clust = 0 /\ ~(ofs >= fs.n_rootdir)) \/ (d.clust # 0 /\ InsideCluster(d))
            /\ n \in DirNext("OK", [d EXCEPT !.dptr = ofs, !.sect = @ + 1], w)
  <2>1. n.dir = [d EXCEPT !.dptr = ofs, !.sect = @ + 1] /\ n.win = w /\ n.res = "OK"
    BY <1>11 DEF DirNext
  <2>2. (d.clust = 0 /\ ofs < fs.n_rootdir) \/ (d.clust # 0 /\ InsideCluster(d))
    BY <1>11, <1>1 DEF GeometryOK
  <2> QED
    BY <2>1, <2>2, <1>6, <1>11
<1> QED
  BY <1>7, <1>8, <1>9, <1>10, <1>11

-----------------------------------------------------------------------------
\* The steps.

\* What the invariant says is known of a volume that is not touched by a step: only
\* the window, the directory, the file and the place in the program are new.
LEMMA SameVolume ==
    ASSUME IInv, UNCHANGED <<slot, volume>>,
           Readable(win)', Mounted => WindowInside(win'),
           DirShape(dp)', Mounted => DirInside(dp'),
           FileShape(fil)', Mounted => FileInside(fil'), btr' \in Int
    PROVE  Typed' /\ SlotOK' /\ Readable(win)' /\ InVolume'
<1>1. Typed' /\ SlotOK'
  BY DEF IInv, Typed, SlotOK, slot, volume
<1>2. InVolume'
  BY DEF IInv, InVolume, Mounted, slot, volume, WindowInside, DirInside, FileInside
<1> QED
  BY <1>1, <1>2

\* The card leaves and comes: nothing can be read until it is initialised.
LEMMA CardKeeps ==
    IInv /\ (PullOut \/ PutIn) => IInv'
<1> SUFFICES ASSUME IInv, PullOut \/ PutIn
             PROVE  IInv'
  OBVIOUS
<1>1. ready' = FALSE /\ UNCHANGED <<fs, win, fil, dp, pc, mbr, i, btr, res, seg>>
  BY DEF PullOut, PutIn, volume, finding, mounting, reading
<1>2. Typed' /\ SlotOK' /\ Readable(win)'
  BY <1>1 DEF IInv, Typed, SlotOK, PullOut, PutIn
<1>3. Phases'
  BY <1>1 DEF IInv, Phases, Mounted, BootSector, Failed, Sector
<1>4. InVolume'
  BY <1>1 DEF IInv, InVolume, Mounted, WindowInside, DirInside, FileInside
<1> QED
  BY <1>2, <1>3, <1>4 DEF IInv

\* A command begins by forgetting the mount, with no directory or file open.
LEMMA CommandKeeps ==
    ASSUME NEW function, NEW p
    PROVE  IInv /\ Command(function, p) => IInv'
<1> SUFFICES ASSUME IInv, Command(function, p)
             PROVE  IInv'
  OBVIOUS
<1>1. /\ pc = "idle" /\ pc' = "call" /\ fs' = [fs EXCEPT !.type = "none"]
      /\ UNCHANGED <<slot, win, fil, dp, btr>>
  BY DEF Command, f_mount, reading
<1>2. VolumeShape(fs)' /\ fs'.type = "none"
  BY <1>1 DEF IInv, Typed, VolumeShape
<1>3. Typed' /\ SlotOK' /\ Readable(win)'
  BY <1>1, <1>2 DEF IInv, Typed, SlotOK, slot
<1>4. Phases'
  BY <1>1, <1>2 DEF IInv, Phases, Mounted
<1>5. InVolume'
  BY <1>2 DEF InVolume, Mounted
<1> QED
  BY <1>3, <1>4, <1>5 DEF IInv

\* mount_volume finds no mount left, and makes none.
LEMMA MountKeeps ==
    IInv /\ mount_volume => IInv'
<1> SUFFICES ASSUME IInv, mount_volume
             PROVE  IInv'
  OBVIOUS
<1>1. pc = "call" /\ ~Mounted /\ UNCHANGED <<win, fil, dp, btr>>
  BY DEF mount_volume, IInv, Phases, reading
<1>2. \/ /\ pc' = "returned" /\ UNCHANGED <<slot, fs>>
      \/ /\ fs' = [fs EXCEPT !.type = "none"] /\ card' = card
         /\ pc' \in {"sector0", "returned"}
         /\ ready' => card # NoCard
         /\ ready' \in BOOLEAN
  BY <1>1 DEF mount_volume, Return, Mounted
<1>3. VolumeShape(fs)' /\ fs'.type = "none"
  BY <1>1, <1>2 DEF IInv, Typed, VolumeShape, Mounted
<1>4. Typed' /\ SlotOK' /\ Readable(win)'
  BY <1>1, <1>2, <1>3 DEF IInv, Typed, SlotOK, slot
<1>5. Phases'
  BY <1>1, <1>2, <1>3 DEF IInv, Phases, Mounted
<1>6. InVolume'
  BY <1>3 DEF InVolume, Mounted
<1> QED
  BY <1>4, <1>5, <1>6 DEF IInv

\* A sector called in anew is of the card in the slot, or not there.
LEMMA Checked ==
    ASSUME SlotOK, NEW s \in Nat, NEW w \in check_fs(s)
    PROVE  Readable(w) /\ (w = Lost \/ (ready /\ w.card = card))
<1>1. Readable(Lost)
  BY DEF Readable
<1> QED
  BY <1>1, Moved DEF check_fs

\* What a sector is, seen by its number.
LEMMA Formats ==
    ASSUME NEW w
    PROVE  /\ Fmt(w) \in {0, 2, 3, 4}
           /\ Fmt(w) = 0 => BootSector(w)
           /\ Fmt(w) = 2 => ~Failed(w) /\ Sector(w).sig
  BY DEF Fmt, BootSector

\* A boot sector on a card has the fields of one.
LEMMA BootOnCard ==
    ASSUME NEW w, Readable(w), BootSector(w)
    PROVE  BootFields(Sector(w)) /\ w.sect \in Nat
<1>1. w \in [card : Cards, sect : Nat] /\ w.sect + 1 \in 1..Len(Image[w.card])
  BY Held DEF BootSector
<1>2. BootFields(Image[w.card][w.sect + 1])
  BY <1>1, CardsAssumption DEF BootFields, BootSector, Sector
<1> QED
  BY <1>1, <1>2 DEF Sector

\* A partition table on a card has four numbers.
LEMMA TableOnCard ==
    ASSUME NEW w, Readable(w), ~Failed(w), Sector(w).sig
    PROVE  \A e \in 1..4 : Sector(w).part[e] \in Nat
<1>1. w \in [card : Cards, sect : Nat] /\ w.sect + 1 \in 1..Len(Image[w.card])
  BY Held
<1> QED
  BY <1>1, CardsAssumption DEF Sector

\* The search for a volume, in sector 0 and in the partitions.
LEMMA SearchKeeps ==
    IInv /\ (find_volume \/ TryPartition) => IInv'
<1> SUFFICES ASSUME IInv, find_volume \/ TryPartition
             PROVE  IInv'
  OBVIOUS
<1>1. pc \in {"sector0", "partition"} /\ ~Mounted /\ UNCHANGED <<slot, fs, fil, dp, btr>>
  BY DEF find_volume, TryPartition, IInv, Phases, reading, volume
<1>2. /\ Readable(win)'
      /\ pc' \in {"bpb", "partition", "returned"}
      /\ pc' = "bpb" => BootSector(win') /\ (ready => card = win'.card)
      /\ pc' = "partition" => i' \in 1..4 /\ \A e \in 1..4 : mbr'[e] \in Nat
  <2>1. CASE find_volume
    <3>1. PICK w \in check_fs(0) :
            /\ win' = w
            /\ \/ Fmt(w) = 0 /\ pc' = "bpb"
               \/ Fmt(w) = 2 /\ pc' = "partition" /\ mbr' = Sector(w).part /\ i' = 1
               \/ pc' = "returned"
      BY <2>1, Formats DEF find_volume, NoFat, Return
    <3>2. Readable(w) /\ (w = Lost \/ (ready /\ w.card = card))
      BY Checked DEF IInv
    <3>3. Lost.sect = NoSector
      BY DEF Lost
    <3>4. Fmt(w) = 0 => BootSector(w) /\ card = w.card
      BY <3>2, <3>3, Formats DEF BootSector, Failed
    <3>5. Fmt(w) = 2 => \A e \in 1..4 : Sector(w).part[e] \in Nat
      BY <3>2, Formats, TableOnCard
    <3> QED
      BY <3>1, <3>2, <3>4, <3>5
  <2>2. CASE TryPartition
    <3>1. i \in 1..4 /\ mbr[i] \in Nat /\ \A e \in 1..4 : mbr[e] \in Nat
      BY <2>2 DEF TryPartition, IInv, Phases
    <3>2. PICK w \in IF mbr[i] = 0 THEN {win} ELSE check_fs(mbr[i]) :
            /\ win' = w
            /\ \/ mbr[i] # 0 /\ Fmt(w) = 0 /\ pc' = "bpb"
               \/ i < 4 /\ i' = i + 1 /\ pc' = pc
               \/ pc' = "returned"
      <4> DEFINE fmt(w) == IF mbr[i] = 0 THEN 3 ELSE Fmt(w)
      <4>1. PICK w \in IF mbr[i] = 0 THEN {win} ELSE check_fs(mbr[i]) :
              /\ win' = w
              /\ CASE fmt(w) = 0          -> pc' = "bpb" /\ UNCHANGED <<i, res>>
                   [] fmt(w) # 0 /\ i < 4 -> i' = i + 1 /\ UNCHANGED <<pc, res>>
                   [] fmt(w) # 0 /\ i >= 4 -> NoFat(fmt(w)) /\ UNCHANGED i
        BY <2>2 DEF TryPartition
      <4>2. \/ mbr[i] # 0 /\ Fmt(w) = 0 /\ pc' = "bpb"
            \/ i < 4 /\ i' = i + 1 /\ pc' = pc
            \/ pc' = "returned"
        <5>1. fmt(w) = 0 => mbr[i] # 0 /\ Fmt(w) = 0
          OBVIOUS
        <5>2. NoFat(fmt(w)) => pc' = "returned"
          BY DEF NoFat, Return
        <5>3. i < 4 \/ i >= 4
          BY <3>1
        <5> HIDE DEF fmt
        <5> QED
          BY <4>1, <5>1, <5>2, <5>3
      <4> QED
        BY <4>1, <4>2
    <3>3. pc = "partition" /\ mbr' = mbr
      BY <2>2 DEF TryPartition
    <3>4. Readable(w) /\ (mbr[i] # 0 => w = Lost \/ (ready /\ w.card = card))
      BY <3>1, <3>2, Checked DEF IInv
    <3>5. Lost.sect = NoSector
      BY DEF Lost
    <3>6. mbr[i] # 0 /\ Fmt(w) = 0 => BootSector(w) /\ card = w.card
      BY <3>4, <3>5, Formats DEF BootSector, Failed
    <3> QED
      BY <3>1, <3>2, <3>3, <3>4, <3>6
  <2> QED
    BY <2>1, <2>2
<1>3. Typed' /\ SlotOK'
  BY <1>1 DEF IInv, Typed, SlotOK, slot
<1>4. BootSector(win') = BootSector(win)'
  BY DEF BootSector, Sector, Failed
<1>5. Phases'
  BY <1>1, <1>2, <1>4 DEF IInv, Phases, Mounted, slot
<1>6. InVolume'
  BY <1>1 DEF InVolume, Mounted
<1> QED
  BY <1>2, <1>3, <1>5, <1>6 DEF IInv

\* A volume is taken: everything the invariant says of one is true of it.
LEMMA VolumeKeeps ==
    IInv /\ InitVolume => IInv'
<1> SUFFICES ASSUME IInv, InitVolume
             PROVE  IInv'
  OBVIOUS
<1>1. /\ pc = "bpb" /\ ~Mounted /\ UNCHANGED <<slot, win, fil, dp, btr, seg>>
      /\ dp.sect = 0 /\ fil.sect = 0 /\ (ready => card = win.card) /\ BootSector(win)
      /\ Readable(win)
  BY DEF InitVolume, IInv, Phases, reading, finding
<1>2. CASE pc' = "returned" /\ UNCHANGED volume
  <2>1. Typed' /\ SlotOK' /\ Readable(win)'
    BY <1>1, <1>2 DEF IInv, Typed, SlotOK, slot, volume
  <2>2. Phases' /\ InVolume'
    BY <1>1, <1>2 DEF Phases, InVolume, Mounted, volume
  <2> QED
    BY <2>1, <2>2 DEF IInv
<1>3. ASSUME NEW id, Accepted(Sector(win)), pc' = "follow",
             fs' = Geometry(Sector(win), win.sect, id)
      PROVE  IInv'
  <2>1. BootFields(Sector(win)) /\ win.sect \in Nat
    BY <1>1, BootOnCard
  <2>2. GeometryOK(fs')
    BY <2>1, <1>3, VolumeTaken
  <2>3. VolumeShape(fs') /\ fs'.base = win.sect /\ fs'.card = win.card
    BY <1>3 DEF Geometry, VolumeShape
  <2>4. Typed' /\ SlotOK' /\ Readable(win)'
    BY <1>1, <2>3 DEF IInv, Typed, SlotOK, slot
  <2>5. Phases'
    <3>1. FatType(Sector(win)) \in {"FAT12", "FAT16", "FAT32"}
      BY DEF FatType
    <3>2. fs'.type # "none"
      BY <1>3, <3>1 DEF Geometry
    <3> QED
      BY <1>1, <1>3, <3>2 DEF Phases, Mounted
  <2>6. InVolume'
    <3>1. WindowInside(win)'
      BY <1>1, <2>2, <2>3 DEF WindowInside, GeometryOK
    <3>2. DirInside(dp)' /\ FileInside(fil)'
      BY <1>1 DEF DirInside, FileInside
    <3> QED
      BY <1>1, <2>2, <2>3, <3>1, <3>2 DEF InVolume, slot
  <2> QED
    BY <2>4, <2>5, <2>6 DEF IInv
<1> QED
  BY <1>2, <1>3 DEF InitVolume, Return

\* What the invariant says of a mounted volume, for the steps that work on one.
OnVolume ==
  /\ Mounted /\ SlotOK /\ Readable(win) /\ (ready => card = fs.card)
  /\ GeometryOK(fs) /\ WindowInside(win) /\ DirInside(dp) /\ FileInside(fil)
  /\ DirShape(dp) /\ FileShape(fil) /\ btr \in Int

\* All of that is part of the invariant.
LEMMA Working ==
    IInv /\ Mounted => OnVolume
  BY DEF IInv, InVolume, Typed, OnVolume

\* NoDir and NoFile lead nowhere.
LEMMA NothingOpen ==
    /\ DirShape(NoDir) /\ DirInside(NoDir) /\ NoDir.sect = 0
    /\ FileShape(NoFile) /\ FileInside(NoFile) /\ NoFile.sect = 0
<1>1. DirShape(NoDir) /\ NoDir.sect = 0
  BY DEF NoDir, DirShape
<1>2. FileShape(NoFile) /\ NoFile.sect = 0
  BY DEF NoFile, FileShape
<1> QED
  BY <1>1, <1>2 DEF DirInside, FileInside

\* The path is followed from the root, and each directory rewound.
LEMMA FollowKeeps ==
    IInv /\ (follow_path \/ NextSegment) => IInv'
<1> SUFFICES ASSUME IInv, follow_path \/ NextSegment
             PROVE  IInv'
  OBVIOUS
<1>1. /\ pc \in {"follow", "segment"} /\ Mounted /\ OnVolume
      /\ UNCHANGED <<slot, volume, win, fil, btr>>
  BY Working DEF follow_path, NextSegment, IInv, Phases, reading
<1>2. ASSUME NEW d, DirShape(d), NEW t, t = dir_sdi(d)
      PROVE  /\ DirShape(t.dir) /\ DirInside(t.dir) /\ t.res \in {"OK", "INT_ERR"}
             /\ t.res = "OK" => t.dir.sect # 0
  BY <1>1, <1>2, Rewound DEF OnVolume
<1>3. /\ DirShape(dp') /\ DirInside(dp')
      /\ pc' \in {"segment", "find", "followed"}
      /\ pc' = "find" => dp'.sect # 0
      /\ pc' = "followed" /\ res' = "OK" => seg' = NoName
  <2>1. CASE follow_path
    <3>1. DirShape(dir_sdi(NoDir).dir) /\ DirInside(dir_sdi(NoDir).dir)
      BY <1>2, NothingOpen
    <3> QED
      BY <2>1, <3>1, NothingOpen DEF follow_path, Followed
  <2>2. CASE NextSegment
    <3> DEFINE n == create_name(path)
               top == dir_sdi(dp)
    <3>1. /\ DirShape(top.dir) /\ DirInside(top.dir) /\ top.res \in {"OK", "INT_ERR"}
          /\ top.res = "OK" => top.dir.sect # 0
      BY <1>1, <1>2 DEF OnVolume
    <3>2. \/ dp' = top.dir /\ top.res = "OK" /\ pc' = "find"
          \/ dp' = top.dir /\ top.res # "OK" /\ pc' = "followed" /\ res' = top.res
          \/ dp' = dp /\ pc' = "followed" /\ res' = "INVALID_NAME"
      BY <2>2 DEF NextSegment, Followed
    <3> HIDE DEF n, top
    <3> QED
      BY <1>1, <3>1, <3>2 DEF OnVolume
  <2> QED
    BY <2>1, <2>2
<1>4. Typed' /\ SlotOK' /\ Readable(win)' /\ InVolume'
  <2>1. Readable(win)' /\ DirShape(dp)' /\ FileShape(fil)' /\ btr' \in Int
    BY <1>1, <1>3 DEF OnVolume
  <2>2. WindowInside(win') /\ DirInside(dp') /\ FileInside(fil')
    BY <1>1, <1>3 DEF OnVolume
  <2> QED
    BY <1>1, <2>1, <2>2, SameVolume
<1>5. Phases'
  BY <1>1, <1>3 DEF Phases, Mounted, volume
<1> QED
  BY <1>4, <1>5 DEF IInv

\* An entry looked at: the window goes to its sector, which is one of the volume.
LEMMA Looked ==
    ASSUME OnVolume, dp.sect # 0, NEW w \in move_window(win, dp.sect)
    PROVE  Readable(w) /\ WindowInside(w)
<1>1. Inside(fs, dp.sect)
  BY DirectorySector DEF OnVolume
<1> QED
  BY <1>1, MovedInside DEF OnVolume

\* The next entry, from there.
LEMMA LookedOn ==
    ASSUME OnVolume, NEW w, Readable(w), WindowInside(w), NEW n \in dir_next(w, dp)
    PROVE  /\ Readable(n.win) /\ WindowInside(n.win)
           /\ DirShape(n.dir) /\ DirInside(n.dir)
           /\ n.res \in {"OK", "NO_FILE", "INT_ERR", "DISK_ERR"}
           /\ n.res = "OK" => n.dir.sect # 0
  BY NextEntry DEF OnVolume

\* What dir_find does not say of a directory does not move it.
LEMMA Attributed ==
    ASSUME NEW d, DirShape(d), DirInside(d), NEW x, NEW e,
           e = [d EXCEPT !.attr = x] \/ e = [d EXCEPT !.sclust = x]
    PROVE  DirShape(e) /\ DirInside(e) /\ e.sect = d.sect
<1>1. DirShape(e) /\ e.dptr = d.dptr /\ e.clust = d.clust /\ e.sect = d.sect
  BY DEF DirShape
<1> QED
  BY <1>1 DEF DirInside

\* One entry of a search: the name is there, or the next entry is.
LEMMA FindKeeps ==
    IInv /\ dir_find => IInv'
<1> SUFFICES ASSUME IInv, dir_find
             PROVE  IInv'
  OBVIOUS
<1>1. /\ pc = "find" /\ Mounted /\ OnVolume /\ dp.sect # 0
      /\ UNCHANGED <<slot, volume, fil, btr, seg>>
  BY Working DEF dir_find, IInv, Phases, reading, finding
<1> DEFINE Good == /\ Readable(win') /\ WindowInside(win') /\ DirShape(dp') /\ DirInside(dp')
                   /\ pc' \in {"segment", "find", "followed"}
                   /\ pc' = "find" => dp'.sect # 0
                   /\ pc' = "followed" /\ res' = "OK" => ~Failed(win')
<1>2. PICK w \in move_window(win, dp.sect) :
       \/ /\ Failed(w)
          /\ Followed("DISK_ERR") /\ win' = w /\ UNCHANGED dp
       \/ /\ ~Failed(w) /\ Entry(w, dp).name[1] = NUL
          /\ Missing /\ win' = w /\ UNCHANGED dp
       \/ /\ ~Failed(w) /\ Entry(w, dp).name[1] # NUL /\ Matches(Entry(w, dp))
          /\ Enter(w) /\ win' = w
       \/ /\ ~Failed(w) /\ Entry(w, dp).name[1] # NUL /\ ~Matches(Entry(w, dp))
          /\ \E n \in dir_next(w, dp) :
               /\ win' = n.win /\ dp' = n.dir
               /\ CASE n.res = "OK"      -> UNCHANGED <<pc, res>>
                    [] n.res = "NO_FILE" -> Missing
                    [] OTHER             -> Followed(n.res)
  BY DEF dir_find
<1>3. Readable(w) /\ WindowInside(w)
  BY <1>1, Looked
<1>4. Missing => pc' = "followed" /\ res' # "OK"
  BY DEF Missing, Followed
<1>5. ASSUME win' = w, dp' = dp, Missing \/ Followed("DISK_ERR")
      PROVE  Good
  <2>1. pc' = "followed" /\ res' # "OK"
    BY <1>4, <1>5 DEF Followed
  <2> QED
    BY <1>1, <1>3, <1>5, <2>1 DEF OnVolume
<1>6. ASSUME ~Failed(w), Enter(w), win' = w
      PROVE  Good
  <2>1. \/ dp' = [dp EXCEPT !.attr = Entry(w, dp).attr] /\ pc' = "followed"
        \/ dp' = dp /\ pc' = "followed"
        \/ dp' = [dp EXCEPT !.sclust = ld_clust(Entry(w, dp))] /\ pc' = "segment"
    BY <1>6 DEF Enter, Followed
  <2>2. DirShape(dp') /\ DirInside(dp')
    BY <1>1, <2>1, Attributed DEF OnVolume
  <2> QED
    BY <1>3, <1>6, <2>1, <2>2
<1>7. ASSUME NEW n \in dir_next(w, dp), win' = n.win, dp' = n.dir,
             CASE n.res = "OK"      -> UNCHANGED <<pc, res>>
               [] n.res = "NO_FILE" -> Missing
               [] OTHER             -> Followed(n.res)
      PROVE  Good
  <2>1. /\ Readable(n.win) /\ WindowInside(n.win) /\ DirShape(n.dir) /\ DirInside(n.dir)
        /\ n.res \in {"OK", "NO_FILE", "INT_ERR", "DISK_ERR"}
        /\ n.res = "OK" => n.dir.sect # 0
    BY <1>1, <1>3, LookedOn
  <2>2. \/ pc' = pc /\ n.res = "OK"
        \/ pc' = "followed" /\ res' # "OK"
    BY <1>4, <1>7, <2>1 DEF Followed
  <2> QED
    BY <1>1, <1>7, <2>1, <2>2
<1>8. Good
  BY <1>2, <1>5, <1>6, <1>7
<1> HIDE DEF Good
<1>9. Typed' /\ SlotOK' /\ Readable(win)' /\ InVolume'
  <2>1. Readable(win)' /\ DirShape(dp)' /\ FileShape(fil)' /\ btr' \in Int
    BY <1>1, <1>8 DEF OnVolume, Good
  <2>2. WindowInside(win') /\ DirInside(dp') /\ FileInside(fil')
    BY <1>1, <1>8 DEF OnVolume, Good
  <2> QED
    BY <1>1, <2>1, <2>2, SameVolume
<1>10. Phases'
  BY <1>1, <1>8 DEF Good, Phases, Mounted, volume, Failed
<1> QED
  BY <1>9, <1>10 DEF IInv

\* A file is made of the entry in the window, which is there, and has no sector yet.
LEMMA OpenKeeps ==
    IInv /\ f_open => IInv'
<1> SUFFICES ASSUME IInv, f_open
             PROVE  IInv'
  OBVIOUS
<1>1. /\ pc = "followed" /\ pc' = "returned" /\ Mounted /\ OnVolume /\ dp' = NoDir
      /\ UNCHANGED <<slot, volume, win, btr>>
  BY Working DEF f_open, Return, IInv, Phases, reading
<1>2. \/ fil' = NoFile
      \/ /\ res = "OK" /\ seg # NoName
         /\ fil' = [NoFile EXCEPT !.valid = TRUE, !.id = fs.id,
                                  !.sclust = ld_clust(Entry(win, dp)),
                                  !.objsize = Entry(win, dp).size]
  BY DEF f_open
<1>3. FileShape(fil') /\ FileInside(fil')
  <2>1. CASE fil' = NoFile
    BY <2>1, NothingOpen
  <2>2. CASE /\ res = "OK" /\ seg # NoName
             /\ fil' = [NoFile EXCEPT !.valid = TRUE, !.id = fs.id,
                                      !.sclust = ld_clust(Entry(win, dp)),
                                      !.objsize = Entry(win, dp).size]
    <3>1. ~Failed(win)
      BY <1>1, <2>2 DEF IInv, Phases
    <3>2. win \in [card : Cards, sect : Nat] /\ win.sect + 1 \in 1..Len(Image[win.card])
      BY <1>1, <3>1, Held DEF OnVolume
    <3>3. dp.dptr % EPS \in 0..(EPS - 1) /\ EPS \in Nat
      BY <1>1, SizesAssumption, Division DEF OnVolume, DirShape
    <3>4. (dp.dptr % EPS) + 1 \in 1..EPS
      BY <3>3
    <3>5. Entry(win, dp).size \in Nat
      BY <3>2, <3>4, CardsAssumption DEF Entry, Sector
    <3> DEFINE e == Entry(win, dp)
               cl == ld_clust(e)
    <3>6. fil' = [NoFile EXCEPT !.valid = TRUE, !.id = fs.id, !.sclust = cl, !.objsize = e.size]
      BY <2>2
    <3> HIDE DEF e, cl
    <3>7. FileShape(fil') /\ fil'.sect = 0
      BY <3>5, <3>6 DEF NoFile, FileShape, e
    <3> QED
      BY <3>7 DEF FileInside
  <2> QED
    BY <1>2, <2>1, <2>2
<1>4. Typed' /\ SlotOK' /\ Readable(win)' /\ InVolume'
  <2>1. Readable(win)' /\ DirShape(dp)' /\ FileShape(fil)' /\ btr' \in Int
    BY <1>1, <1>3, NothingOpen DEF OnVolume
  <2>2. WindowInside(win') /\ DirInside(dp') /\ FileInside(fil')
    BY <1>1, <1>3, NothingOpen DEF OnVolume
  <2> QED
    BY <1>1, <2>1, <2>2, SameVolume
<1>5. Phases'
  BY <1>1 DEF Phases
<1> QED
  BY <1>4, <1>5 DEF IInv

\* Steps that touch neither the window nor the file, and the directory only to
\* rewind it, to mark it valid, or to leave it.
LEMMA QuietKeeps ==
    ASSUME IInv, UNCHANGED <<slot, volume, win, fil>>, btr' \in Int,
           DirShape(dp'), Mounted => DirInside(dp'),
           pc' \in {"dirread", "read", "returned"},
           pc' # "returned" => Mounted
    PROVE  IInv'
<1>1. Typed' /\ SlotOK' /\ Readable(win)' /\ InVolume'
  <2>1. Readable(win)' /\ DirShape(dp)' /\ FileShape(fil)' /\ btr' \in Int
    BY DEF IInv, Typed
  <2>2. Mounted => WindowInside(win') /\ DirInside(dp') /\ FileInside(fil')
    BY DEF IInv, InVolume
  <2> QED
    BY <2>1, <2>2, SameVolume
<1>2. Phases'
  BY DEF Phases, Mounted, volume
<1> QED
  BY <1>1, <1>2 DEF IInv

\* Rewinding for a list, its end, and f_read's and f_findnext's checks of their object
\* are such steps.
LEMMA QuietStepsKeep ==
    IInv /\ (f_opendir \/ AtEnd \/ f_findnext \/ f_read \/ ReadDone) => IInv'
<1> SUFFICES ASSUME IInv, f_opendir \/ AtEnd \/ f_findnext \/ f_read \/ ReadDone
             PROVE  IInv'
  OBVIOUS
<1>1. /\ UNCHANGED <<slot, volume, win, fil>>
      /\ DirShape(dp) /\ (Mounted => DirInside(dp)) /\ btr \in Int /\ fil.objsize \in Nat /\ fil.fptr \in Nat
  BY DEF f_opendir, AtEnd, f_findnext, f_read, ReadDone, IInv, Typed, InVolume, FileShape
<1>2. CASE f_opendir
  <2>1. Mounted /\ OnVolume
    BY <1>2, Working DEF f_opendir, IInv, Phases
  <2>2. DirShape(dir_sdi(dp).dir) /\ DirInside(dir_sdi(dp).dir)
    BY <2>1, Rewound DEF OnVolume
  <2>3. /\ pc' \in {"dirread", "returned"} /\ btr' = btr
        /\ \/ dp' = NoDir
           \/ dp' = [dir_sdi(dp).dir EXCEPT !.valid = TRUE, !.id = fs.id]
    BY <1>2 DEF f_opendir, Return, reading
  <2>4. DirShape(dp') /\ DirInside(dp')
    <3>1. CASE dp' = NoDir
      BY <3>1, NothingOpen
    <3>2. CASE dp' = [dir_sdi(dp).dir EXCEPT !.valid = TRUE, !.id = fs.id]
      <4> DEFINE d == dir_sdi(dp).dir
      <4>1. DirShape(d) /\ DirInside(d) /\ dp' = [d EXCEPT !.valid = TRUE, !.id = fs.id]
        BY <2>2, <3>2
      <4> HIDE DEF d
      <4>2. DirShape(dp') /\ dp'.sect = d.sect /\ dp'.clust = d.clust /\ dp'.dptr = d.dptr
        BY <4>1 DEF DirShape
      <4> QED
        BY <4>1, <4>2 DEF DirInside
    <3> QED
      BY <2>3, <3>1, <3>2
  <2> QED
    BY <1>1, <2>1, <2>3, <2>4, QuietKeeps
<1>3. CASE AtEnd
  <2>1. pc' = "returned" /\ dp' = dp /\ btr' = btr
    BY <1>3 DEF AtEnd, EndOfDirectory, Return, reading
  <2> QED
    BY <1>1, <2>1, QuietKeeps
<1>4. CASE f_findnext
  <2>1. /\ pc' \in {"dirread", "returned"} /\ dp' = dp /\ btr' = btr
        /\ pc' = "dirread" => Mounted
    BY <1>4 DEF f_findnext, Return, reading, validate, Mounted
  <2> QED
    BY <1>1, <2>1, QuietKeeps
<1>5. CASE f_read
  <2>1. /\ pc' \in {"read", "returned"} /\ dp' = dp
        /\ pc' = "read" => Mounted
        /\ btr' = btr \/ \E n \in Requests : btr' = Smaller(n, fil.objsize - fil.fptr)
    BY <1>5 DEF f_read, Return, validate, Mounted
  <2>2. btr' \in Int
    BY <1>1, <2>1, SizesAssumption DEF Smaller
  <2> QED
    BY <1>1, <2>1, <2>2, QuietKeeps
<1>6. CASE ReadDone
  <2>1. pc' = "returned" /\ dp' = dp /\ btr' = btr
    BY <1>6 DEF ReadDone, Return, reading
  <2> QED
    BY <1>1, <2>1, QuietKeeps
<1> QED
  BY <1>2, <1>3, <1>4, <1>5, <1>6

\* Listing looks at the entries as finding does; closed, a directory has no sector.
LEMMA ListKeeps ==
    IInv /\ f_readdir => IInv'
<1> SUFFICES ASSUME IInv, f_readdir
             PROVE  IInv'
  OBVIOUS
<1>1. /\ pc = "dirread" /\ Mounted /\ OnVolume /\ dp.sect # 0
      /\ UNCHANGED <<slot, volume, fil, btr>>
  BY Working DEF f_readdir, IInv, Phases, reading
<1>2. PICK w \in move_window(win, dp.sect) :
        \/ win' = w /\ dp' = Closed(dp) /\ pc' = "returned"
        \/ \E n \in dir_next(w, dp) :
             /\ win' = n.win
             /\ dp' = n.dir \/ dp' = Closed(n.dir)
             /\ pc' = pc \/ pc' = "returned"
  BY DEF f_readdir, Return, EndOfDirectory
<1>3. Readable(w) /\ WindowInside(w)
  BY <1>1, Looked
<1>4. ASSUME NEW d, DirShape(d)
      PROVE  DirShape(Closed(d)) /\ DirInside(Closed(d))
  BY <1>4 DEF Closed, DirShape, DirInside
<1>5. /\ Readable(win') /\ WindowInside(win') /\ DirShape(dp') /\ DirInside(dp')
      /\ pc' \in {"dirread", "returned"}
  <2>1. CASE win' = w /\ dp' = Closed(dp) /\ pc' = "returned"
    BY <1>1, <1>3, <1>4, <2>1 DEF OnVolume
  <2>2. ASSUME NEW n \in dir_next(w, dp), win' = n.win,
               dp' = n.dir \/ dp' = Closed(n.dir), pc' = pc \/ pc' = "returned"
        PROVE  /\ Readable(win') /\ WindowInside(win') /\ DirShape(dp') /\ DirInside(dp')
               /\ pc' \in {"dirread", "returned"}
    <3>1. Readable(n.win) /\ WindowInside(n.win) /\ DirShape(n.dir) /\ DirInside(n.dir)
      BY <1>1, <1>3, LookedOn
    <3> QED
      BY <1>1, <1>4, <2>2, <3>1
  <2> QED
    BY <1>2, <2>1, <2>2
<1>6. Typed' /\ SlotOK' /\ Readable(win)' /\ InVolume'
  <2>1. Readable(win)' /\ DirShape(dp)' /\ FileShape(fil)' /\ btr' \in Int
    BY <1>1, <1>5 DEF OnVolume
  <2>2. WindowInside(win') /\ DirInside(dp') /\ FileInside(fil')
    BY <1>1, <1>5 DEF OnVolume
  <2> QED
    BY <1>1, <2>1, <2>2, SameVolume
<1>7. Phases'
  BY <1>1, <1>5 DEF Phases, Mounted, volume
<1> QED
  BY <1>6, <1>7 DEF IInv

\* The bytes delivered: the file goes on by as many, and stays as it was else.
LEMMA Delivered ==
    ASSUME NEW f, FileShape(f), btr \in Int, btr > 0, Deliver(f)
    PROVE  /\ FileShape(fil') /\ fil'.sect = f.sect /\ fil'.of = f.of
           /\ btr' \in Int /\ pc' = pc
<1> DEFINE rcnt == Smaller(SS - (f.fptr % SS), btr)
<1>1. f.fptr % SS \in 0..(SS - 1) /\ SS \in Nat
  BY SizesAssumption, Division DEF FileShape
<1>2. rcnt \in Nat
  BY <1>1 DEF Smaller
<1>3. fil' = [f EXCEPT !.fptr = @ + rcnt] /\ btr' = btr - rcnt /\ pc' = pc
  BY DEF Deliver
<1> HIDE DEF rcnt
<1>4. f = [valid |-> f.valid, id |-> f.id, sclust |-> f.sclust, objsize |-> f.objsize,
           fptr |-> f.fptr, clust |-> f.clust, sect |-> f.sect, of |-> f.of, err |-> f.err]
      /\ f.objsize \in Nat /\ f.fptr \in Nat
  BY DEF FileShape
<1>5. fil' = [valid |-> f.valid, id |-> f.id, sclust |-> f.sclust, objsize |-> f.objsize,
              fptr |-> f.fptr + rcnt, clust |-> f.clust, sect |-> f.sect, of |-> f.of,
              err |-> f.err]
  BY <1>3, <1>4
<1> QED
  BY <1>2, <1>3, <1>4, <1>5 DEF FileShape

\* f_read takes a sector of a cluster of the volume, whatever the chain leads to.
LEMMA ReadKeeps ==
    IInv /\ (ReadOn \/ ReadSector) => IInv'
<1> SUFFICES ASSUME IInv, ReadOn \/ ReadSector
             PROVE  IInv'
  OBVIOUS
<1>1. /\ pc = "read" /\ Mounted /\ OnVolume /\ btr > 0
      /\ UNCHANGED <<slot, volume, dp>>
  BY Working DEF ReadOn, ReadSector, IInv, Phases
<1> DEFINE Good == /\ Readable(win') /\ WindowInside(win') /\ FileShape(fil') /\ FileInside(fil')
                   /\ btr' \in Int /\ pc' \in {"read", "returned"}
<1>2. ASSUME ReadOn
      PROVE  Good
  <2>1. Deliver(fil) /\ win' = win
    BY <1>2 DEF ReadOn
  <2>2. /\ FileShape(fil') /\ fil'.sect = fil.sect /\ fil'.of = fil.of
        /\ btr' \in Int /\ pc' = pc
    BY <1>1, <2>1, Delivered DEF OnVolume
  <2> QED
    BY <1>1, <2>1, <2>2 DEF OnVolume, FileInside
<1>3. ASSUME ReadSector
      PROVE  Good
  <2> DEFINE F(g) == [fil EXCEPT !.clust = g.val]
             At1(g) == clst2sect(g.val) + Csect
  <2>1. PICK g \in Cluster :
          /\ win' = g.win
          /\ \/ Abort(fil, "INT_ERR")
             \/ Abort(fil, "DISK_ERR")
             \/ Abort(F(g), "INT_ERR")
             \/ /\ clst2sect(g.val) # 0
                /\ \E ok \in IF At1(g) = F(g).sect THEN {TRUE} ELSE disk_read(At1(g)) :
                     IF ok
                     THEN Deliver(IF At1(g) = F(g).sect THEN F(g)
                                  ELSE [F(g) EXCEPT !.sect = At1(g), !.of = card])
                     ELSE Abort(F(g), "DISK_ERR")
    BY <1>3 DEF ReadSector
  <2>2. Readable(g.win) /\ WindowInside(g.win)
    <3>1. g.win = win \/ g \in get_fat(win, fil.clust)
      BY DEF Cluster
    <3> QED
      BY <1>1, <3>1, FatReadInside DEF OnVolume
  <2> DEFINE f == F(g)
             sect == At1(g)
  <2>3. FileShape(f) /\ f.sect = fil.sect /\ f.of = fil.of /\ FileInside(f)
    <3>1. FileShape(f) /\ f.sect = fil.sect /\ f.of = fil.of
      BY <1>1 DEF OnVolume, FileShape
    <3> QED
      BY <3>1, <1>1 DEF OnVolume, FileInside
  <2>4. ASSUME NEW h, FileShape(h), FileInside(h), NEW r, Abort(h, r)
        PROVE  FileShape(fil') /\ FileInside(fil') /\ btr' = btr /\ pc' = "returned"
    <3>1. fil' = [h EXCEPT !.err = r] /\ btr' = btr /\ pc' = "returned"
      BY <2>4 DEF Abort, Return
    <3>2. FileShape(fil') /\ fil'.sect = h.sect /\ fil'.of = h.of
      BY <2>4, <3>1 DEF FileShape
    <3> QED
      BY <3>1, <3>2, <2>4 DEF FileInside
  <2>5. ASSUME clst2sect(g.val) # 0
        PROVE  sect \in fs.database..(fs.base + fs.tsect - 1)
    <3>1. /\ g.val \in 2..(fs.n_fatent - 1)
          /\ clst2sect(g.val) = fs.database + fs.csize * (g.val - 2)
      BY <1>1, <2>5, ClusterSector DEF OnVolume
    <3>2. fil.fptr \div SS \in Nat /\ fs.csize \in Nat \ {0}
      BY <1>1, SizesAssumption, Division DEF OnVolume, FileShape, GeometryOK
    <3>3. Csect \in 0..(fs.csize - 1)
      BY <3>2, Division DEF Csect
    <3> QED
      BY <1>1, <3>1, <3>3 DEF OnVolume, GeometryOK, ClustersInside
  <2> HIDE DEF F, At1
  <2>6. ASSUME clst2sect(g.val) # 0, NEW h,
               h = IF sect = f.sect THEN f ELSE [f EXCEPT !.sect = sect, !.of = card],
               sect = f.sect \/ TRUE \in disk_read(sect),
               Deliver(h)
        PROVE  FileShape(fil') /\ FileInside(fil') /\ btr' \in Int /\ pc' = pc
    <3>1. FileShape(h) /\ FileInside(h)
      <4>1. CASE sect = f.sect
        BY <2>3, <2>6, <4>1
      <4>2. CASE sect # f.sect
        <5>1. card = fs.card
          BY <1>1, <2>6, <4>2 DEF disk_read, OnVolume
        <5> HIDE DEF f, sect
        <5>2. FileShape(h) /\ h.sect = sect /\ h.of = card
          BY <2>3, <2>6, <4>2 DEF FileShape
        <5> QED
          BY <2>5, <2>6, <5>1, <5>2 DEF FileInside
      <4> QED
        BY <4>1, <4>2
    <3>2. /\ FileShape(fil') /\ fil'.sect = h.sect /\ fil'.of = h.of
          /\ btr' \in Int /\ pc' = pc
      BY <1>1, <2>6, <3>1, Delivered DEF OnVolume
    <3> QED
      BY <3>1, <3>2 DEF FileInside
  <2>7. \/ \E h, r : (h = fil \/ h = f) /\ Abort(h, r)
        \/ /\ clst2sect(g.val) # 0
           /\ sect = f.sect \/ TRUE \in disk_read(sect)
           /\ Deliver(IF sect = f.sect THEN f ELSE [f EXCEPT !.sect = sect, !.of = card])
    BY <2>1 DEF disk_read
  <2>8. FileShape(fil') /\ FileInside(fil') /\ btr' \in Int /\ pc' \in {"read", "returned"}
    <3>1. ASSUME NEW h, NEW r, h = fil \/ h = f, Abort(h, r)
          PROVE  FileShape(fil') /\ FileInside(fil') /\ btr' \in Int /\ pc' \in {"read", "returned"}
      <4>1. FileShape(h) /\ FileInside(h) /\ btr \in Int
        BY <1>1, <2>3, <3>1 DEF OnVolume
      <4> QED
        BY <2>4, <3>1, <4>1
    <3>2. ASSUME clst2sect(g.val) # 0, sect = f.sect \/ TRUE \in disk_read(sect),
                 Deliver(IF sect = f.sect THEN f ELSE [f EXCEPT !.sect = sect, !.of = card])
          PROVE  FileShape(fil') /\ FileInside(fil') /\ btr' \in Int /\ pc' \in {"read", "returned"}
      BY <1>1, <2>6, <3>2
    <3> QED
      BY <2>7, <3>1, <3>2
  <2> QED
    BY <2>1, <2>2, <2>8
<1>4. Good
  BY <1>2, <1>3
<1> HIDE DEF Good
<1>5. Typed' /\ SlotOK' /\ Readable(win)' /\ InVolume'
  <2>1. Readable(win)' /\ DirShape(dp)' /\ FileShape(fil)' /\ btr' \in Int
    BY <1>1, <1>4 DEF OnVolume, Good
  <2>2. WindowInside(win') /\ DirInside(dp') /\ FileInside(fil')
    BY <1>1, <1>4 DEF OnVolume, Good
  <2> QED
    BY <1>1, <2>1, <2>2, SameVolume
<1>6. Phases'
  BY <1>1, <1>4 DEF Good, Phases, Mounted, volume
<1> QED
  BY <1>5, <1>6 DEF IInv

\* The end of a command leaves nothing open.
LEMMA EndKeeps ==
    IInv /\ CommandEnds => IInv'
<1> SUFFICES ASSUME IInv, CommandEnds
             PROVE  IInv'
  OBVIOUS
<1>1. /\ pc' = "idle" /\ fil' = NoFile /\ dp' = NoDir /\ btr' = 0
      /\ UNCHANGED <<slot, volume, win>>
  BY DEF CommandEnds
<1>2. Typed' /\ SlotOK' /\ Readable(win)' /\ InVolume'
  <2>1. Readable(win)' /\ DirShape(dp)' /\ FileShape(fil)' /\ btr' \in Int
    BY <1>1, NothingOpen DEF IInv
  <2>2. Mounted => WindowInside(win') /\ DirInside(dp') /\ FileInside(fil')
    BY <1>1, NothingOpen DEF IInv, InVolume
  <2> QED
    BY <1>1, <2>1, <2>2, SameVolume
<1>3. Phases'
  BY <1>1, NothingOpen DEF Phases
<1> QED
  BY <1>2, <1>3 DEF IInv

-----------------------------------------------------------------------------
\* The theorems.

\* Nothing is mounted and nothing open at first.
LEMMA InitOK ==
    Init => IInv
<1> SUFFICES ASSUME Init
             PROVE  IInv
  OBVIOUS
<1>1. Typed /\ SlotOK /\ Readable(win)
  BY DEF Init, Typed, SlotOK, Readable, NoVolume, NoDir, NoFile, VolumeShape, DirShape, FileShape
<1>2. Phases
  BY DEF Init, Phases, Mounted, NoVolume, NoDir, NoFile
<1>3. InVolume
  BY DEF Init, InVolume, Mounted, NoVolume
<1> QED
  BY <1>1, <1>2, <1>3 DEF IInv

\* Every step keeps the invariant.
LEMMA StepOK ==
    IInv /\ [Next]_vars => IInv'
<1> SUFFICES ASSUME IInv, [Next]_vars
             PROVE  IInv'
  OBVIOUS
<1>1. CASE xdir \/ xsdread
  BY <1>1, CommandKeeps DEF xdir, xsdread
<1>2. CASE Running
  BY <1>2, MountKeeps, SearchKeeps, VolumeKeeps, FollowKeeps, FindKeeps, OpenKeeps, ListKeeps,
     QuietStepsKeep, ReadKeeps, EndKeeps DEF Running, NotFound, f_close, f_closedir
<1>3. CASE PullOut \/ PutIn
  BY <1>3, CardKeeps
<1>4. CASE UNCHANGED vars
  <2>1. UNCHANGED <<card, ready, fs, win, fil, dp, pc, seg, mbr, i, btr, res>>
    BY <1>4 DEF vars, slot, volume, finding, mounting, reading
  <2>2. Typed' /\ SlotOK' /\ Readable(win)'
    BY <2>1 DEF IInv, Typed, SlotOK
  <2>3. Phases'
    BY <2>1 DEF IInv, Phases, Mounted, BootSector, Sector, Failed
  <2>4. InVolume'
    BY <2>1 DEF IInv, InVolume, Mounted, WindowInside, DirInside, FileInside
  <2> QED
    BY <2>2, <2>3, <2>4 DEF IInv
<1> QED
  BY <1>1, <1>2, <1>3, <1>4 DEF Next

\* The invariant holds in every state: of every card, whatever is written on it, in
\* every order of commands, with a failure or a change of card at any moment.
THEOREM Inductive == Spec => []IInv
  BY InitOK, StepOK, PTL DEF Spec

\* Between mounts no sector is taken from outside the volume or from another card:
\* clst2sect and get_fat of ff.c let through only the clusters that the checks of
\* mount_volume found room for, dir_next and f_read go by them alone, and a mount
\* never outlives its card.
THEOREM StaysInVolume == Spec => []InsideVolume
<1>1. IInv => InsideVolume
  <2> SUFFICES ASSUME IInv, Mounted
               PROVE  InsideVolume
    BY DEF InsideVolume
  <2> QED
    BY DEF IInv, InVolume, WindowInside, Inside, FileInside, InsideVolume
<1> QED
  BY <1>1, Inductive, PTL
=============================================================================
