------------------------------- MODULE FatFs -------------------------------
(***************************************************************************)
(* The read path of FatFs R0.14 as this program builds and uses it         *)
(* (src/briey/ff.c, ff.h, ffconf.h): one volume, read only, short names,   *)
(* MBR partitions, no exFAT; driven by the monitor's "=" (list the root)   *)
(* and "!" (load a file) of src/briey/deb.c; on a card reached through     *)
(* disk_initialize, disk_status and disk_read of src/briey/diskio.h.       *)
(*                                                                         *)
(* A card is a sequence of sectors, a sector a record with the view of it  *)
(* the code takes: a boot sector's fields, a partition table, the bytes of *)
(* a FAT, or directory entries.  File data has no value, only a place: a   *)
(* byte read is <<card, sector, offset>>.  A step is one sector examined,  *)
(* one directory entry looked at, or one turn of f_read's loop; the card   *)
(* may be pulled out between any two, and any read may fail.               *)
(***************************************************************************)
EXTENDS FatNames

CONSTANTS
  Cards, NoCard, Image,   \* Image[c] : the sectors of card c
  Volumes,                \* what was put on the cards (see the properties)
  Paths,                  \* what may be typed after "!"
  Requests,               \* the lengths xsdread reads
  SS,                     \* bytes of a sector: 512 in the code
  EPS,                    \* directory entries of a sector: 16 (SS / SZDIRE)
  MAX_DIR,                \* entries of a directory: 65536 (0x200000 / SZDIRE)
  MAX_FAT12, MAX_FAT16, MAX_FAT32,
  IDS                     \* mount IDs before Fsid (a WORD) wraps: 65536

ASSUME SizesAssumption ==
  /\ SS \in Nat \ {0} /\ EPS \in Nat \ {0} /\ IDS \in Nat \ {0}
  /\ Requests \subseteq 1..(SS - 1)   \* at most 88 of 512 in deb.c: f_read's
                                      \* direct transfer is never taken

(* Sectors can be looked at as a directory whatever they hold, boot        *)
(* sectors as a partition table; the fields are unsigned.                  *)
ASSUME CardsAssumption ==
  \A c \in Cards :
    /\ Len(Image[c]) \in Nat
    /\ \A k \in 1..Len(Image[c]) :
         LET s == Image[c][k] IN
         /\ \A e \in 1..EPS : s.ent[e].size \in Nat
         /\ s.sig => \A e \in 1..4 : s.part[e] \in Nat
         /\ s.sig /\ s.jump /\ s.fat =>
              /\ s.FATSz16 \in Nat /\ s.FATSz32 \in Nat
              /\ s.TotSec16 \in Nat /\ s.TotSec32 \in Nat
              /\ s.RsvdSecCnt \in Nat /\ s.RootEntCnt \in Nat
ASSUME LimitsAssumption == MAX_FAT12 \in Nat /\ MAX_FAT16 \in Nat /\ MAX_FAT32 \in Nat

(* DiskErr is 0xFFFFFFFF, more than any cluster number; NoSector marks a   *)
(* window whose content is not valid.                                      *)
DiskErr == 2147483647
NoSector == -1

VARIABLES
  card, ready,  \* what is in the slot, and whether it was initialised there
  noinit,       \* STA_NOINIT of the driver's status
  fs,           \* FATFS but for its window
  Fsid,         \* the last mount ID given
  win,          \* FATFS.win and winsect: which sector of which card
  fil,          \* the FIL of xsdread
  dp,           \* the DIR of xdir, or of f_open
  call, pc,     \* the function called and where in it the program is
  name, path,   \* the path given and what is left of it
  seg,          \* NSFLAG and fn of the segment looked for
  mbr, i,       \* mbr_pt and the index of find_volume
  want, btr, got, \* f_read: bytes asked for, still to come, delivered
  fno, listed,  \* FILINFO's name, and the names xdir has shown
  res,          \* what the function returned
  hurt          \* the card failed or left since the command began

slot == <<card, ready, noinit>>
volume == <<fs, Fsid>>
finding == <<path, seg>>
mounting == <<mbr, i>>
reading == <<want, btr, got>>
listing == <<fno, listed>>
vars == <<slot, volume, win, fil, dp, call, pc, name, finding, mounting,
          reading, listing, res, hurt>>

NoVolume == [type |-> "none", id |-> 0, card |-> NoCard, base |-> 0, tsect |-> 0, csize |-> 1,
             n_rootdir |-> 0, n_fatent |-> 2, fatbase |-> 0, dirbase |-> 0, database |-> 0]
NoDir == [valid |-> FALSE, id |-> 0, sclust |-> 0, dptr |-> 0, clust |-> 0, sect |-> 0,
          attr |-> {}]
NoFile == [valid |-> FALSE, id |-> 0, sclust |-> 0, objsize |-> 0, fptr |-> 0, clust |-> 0,
           sect |-> 0, of |-> NoCard, err |-> "OK"]
NoInfo == [name |-> <<>>, dir |-> FALSE]
Lost == [card |-> NoCard, sect |-> NoSector]

Init ==
  /\ card \in Cards \union {NoCard} /\ ready = FALSE /\ noinit = TRUE
  /\ fs = NoVolume /\ Fsid = 0 /\ win = Lost /\ fil = NoFile /\ dp = NoDir
  /\ call = "none" /\ pc = "idle" /\ name = <<>> /\ path = <<>> /\ seg = NoName
  /\ mbr = <<>> /\ i = 0 /\ want = 0 /\ btr = 0 /\ got = <<>> /\ fno = NoInfo /\ listed = <<>>
  /\ res = "OK" /\ hurt = FALSE

-----------------------------------------------------------------------------
(* The card.                                                               *)

(* disk_read of sector s: it may fail, and does when no initialised card   *)
(* has that sector.                                                        *)
disk_read(s) == IF ready /\ s \in 0..(Len(Image[card]) - 1) THEN BOOLEAN ELSE {FALSE}

(* The window after sector s was called into w: unmoved if s is there.     *)
move_window(w, s) ==
  IF s = w.sect THEN {w}
  ELSE {IF ok THEN [card |-> card, sect |-> s] ELSE Lost : ok \in disk_read(s)}

Failed(w) == w.sect = NoSector
Sector(w) == Image[w.card][w.sect + 1]
Byte(w, o) == Sector(w).byte[(o % SS) + 1]
Entry(w, d) == Sector(w).ent[(d.dptr % EPS) + 1]

(* As a slip of the bound would have it: the entry after the last.         *)
Clst2sectToEnd(c) ==
  IF c \in 2..fs.n_fatent THEN fs.database + fs.csize * (c - 2) ELSE 0

(* clst2sect: 0 for a number that is no cluster of the volume.             *)
clst2sect(c) == IF c \in 2..(fs.n_fatent - 1) THEN fs.database + fs.csize * (c - 2) ELSE 0

(* get_fat: the entry of cluster c, 1 if there is none, DiskErr if it      *)
(* cannot be read.  A FAT12 entry is a byte and a half and may lie on two  *)
(* sectors; its second byte is called for after the first was taken.       *)
FatOffset(c) == CASE fs.type = "FAT12" -> c + c \div 2
                  [] fs.type = "FAT16" -> 2 * c
                  [] fs.type = "FAT32" -> 4 * c

FatValue(f, g, c) ==
  LET b == FatOffset(c)
      wc == Byte(f, b) + 256 * Byte(g, b + 1)
  IN CASE fs.type = "FAT12" -> IF c % 2 = 1 THEN wc \div 16 ELSE wc % 4096
       [] fs.type = "FAT16" -> wc
       [] fs.type = "FAT32" -> wc + 65536 * Byte(g, b + 2) + 16777216 * (Byte(g, b + 3) % 16)

(* As if an entry never lay on two sectors.                                *)
GetFatOneSector(w, c) ==
  IF c \notin 2..(fs.n_fatent - 1) THEN {[val |-> 1, win |-> w]}
  ELSE {[val |-> IF Failed(f) THEN DiskErr ELSE FatValue(f, f, c), win |-> f] :
          f \in move_window(w, fs.fatbase + FatOffset(c) \div SS)}

get_fat(w, c) ==
  IF c \notin 2..(fs.n_fatent - 1) THEN {[val |-> 1, win |-> w]}
  ELSE LET At1(b) == fs.fatbase + b \div SS IN
       UNION {IF Failed(f) THEN {[val |-> DiskErr, win |-> f]}
              ELSE {[val |-> IF Failed(g) THEN DiskErr ELSE FatValue(f, g, c), win |-> g] :
                      g \in move_window(f, At1(FatOffset(c) + 1))} :
              f \in move_window(w, At1(FatOffset(c)))}

(* dir_sdi(dp, 0): to the first entry of directory d.                      *)
dir_sdi(d) ==
  LET clst == IF d.sclust = 0 /\ fs.type = "FAT32" THEN fs.dirbase ELSE d.sclust
      sect == CASE clst # 0 -> clst2sect(clst)
                [] clst = 0 -> IF fs.n_rootdir = 0 THEN 0 ELSE fs.dirbase
  IN [res |-> IF sect = 0 THEN "INT_ERR" ELSE "OK",
      dir |-> [d EXCEPT !.dptr = 0, !.clust = clst, !.sect = sect]]

(* dir_next: to the next entry of d, over sectors and clusters; NO_FILE    *)
(* after the last, or after MAX_DIR of them.                               *)
SameIndex(d) == d.dptr              \* as if it stayed in a new cluster
NextIndex(d) == d.dptr + 1
AtLimit(ofs) == ofs >= MAX_DIR
DirNext(r, d, w) == {[res |-> r, dir |-> d, win |-> w]}
InsideSector(d) == (d.dptr + 1) % EPS # 0
InsideCluster(d) == ((d.dptr + 1) \div EPS) % fs.csize # 0

NextCluster(d, g) ==
  LET next == [d EXCEPT !.dptr = NextIndex(d), !.clust = g.val, !.sect = clst2sect(g.val)]
  IN CASE g.val <= 1      -> DirNext("INT_ERR", d, g.win)
       [] g.val = DiskErr -> DirNext("DISK_ERR", d, g.win)
       [] g.val \in 2..(fs.n_fatent - 1) -> DirNext("OK", next, g.win)
       [] OTHER           -> DirNext("NO_FILE", [d EXCEPT !.sect = 0], g.win)

dir_next(w, d) ==
  LET ofs == d.dptr + 1
      ended == DirNext("NO_FILE", [d EXCEPT !.sect = 0], w)
  IN IF AtLimit(ofs) \/ d.sect = 0 THEN ended
     ELSE IF InsideSector(d) THEN DirNext("OK", [d EXCEPT !.dptr = ofs], w)
     ELSE IF d.clust = 0 /\ ofs >= fs.n_rootdir THEN ended
     ELSE IF d.clust = 0 \/ InsideCluster(d)
          THEN DirNext("OK", [d EXCEPT !.dptr = ofs, !.sect = @ + 1], w)
     ELSE UNION {NextCluster(d, g) : g \in get_fat(w, d.clust)}

ld_clust(e) == IF fs.type = "FAT32" THEN e.lo + 65536 * e.hi ELSE e.lo

validate(obj) == obj.valid /\ fs.type # "none" /\ obj.id = fs.id /\ ~noinit

(* LEAVE_FF: r goes back to the caller.                                    *)
Return(r) == res' = r /\ pc' = "returned"
Hurts(w) == hurt' = (hurt \/ Failed(w))

-----------------------------------------------------------------------------
(* The card is pulled out at any moment, and one is put in.  A card put in *)
(* during a command answers no read before the next command initialises    *)
(* it, so it is put in between commands here.                              *)
PullOut ==
  /\ card # NoCard
  /\ card' = NoCard /\ ready' = FALSE /\ hurt' = (pc # "idle")
  /\ UNCHANGED <<noinit, volume, win, fil, dp, call, pc, name, finding, mounting, reading,
                 listing, res>>

PutIn ==
  /\ card = NoCard /\ pc = "idle"
  /\ card' \in Cards /\ ready' = FALSE
  /\ UNCHANGED <<noinit, volume, win, fil, dp, call, pc, name, finding, mounting, reading,
                 listing, res, hurt>>

(* f_mount(&FatFs, "", 0), with which both commands begin: the old mount   *)
(* is forgotten, the new one put off to the first function with a path.    *)
FMountKeeps == UNCHANGED fs     \* as if the old mount were left valid
f_mount == fs' = [fs EXCEPT !.type = "none"]

(* deb.c: "=" lists the root directory, "!" loads the file named p.        *)
Command(function, p) ==
  /\ pc = "idle"
  /\ f_mount
  /\ call' = function /\ name' = p /\ pc' = "call"
  /\ UNCHANGED <<slot, Fsid, win, fil, dp, finding, mounting, reading, listing, res, hurt>>

xdir == Command("f_findfirst", <<>>)
xsdread == \E p \in Paths : Command("f_open", p)

-----------------------------------------------------------------------------
(* Mounting.                                                               *)

(* mount_volume up to disk_initialize.  A volume already mounted on a      *)
(* drive still initialised is used as it is: never here, f_mount forgot it.*)
mount_volume ==
  /\ pc = "call"
  /\ LET drive == get_ldnumber(name) IN
     IF ~drive.ok
     THEN Return("INVALID_DRIVE") /\ UNCHANGED <<slot, fs, path, hurt>>
     ELSE /\ path' = drive.rest
          /\ IF fs.type # "none" /\ ~noinit
             THEN pc' = "follow" /\ UNCHANGED <<slot, fs, res, hurt>>
             ELSE \E ok \in IF card = NoCard THEN {FALSE} ELSE BOOLEAN :
                    /\ fs' = [fs EXCEPT !.type = "none"]
                    /\ ready' = ok /\ noinit' = ~ok /\ hurt' = (hurt \/ ~ok)
                    /\ IF ok THEN pc' = "sector0" /\ UNCHANGED res ELSE Return("NOT_READY")
                    /\ UNCHANGED card
  /\ UNCHANGED <<Fsid, win, fil, dp, call, name, seg, mounting, reading, listing>>

(* check_fs: sector s called into an invalidated window, and what it is:   *)
(* 0 a FAT boot sector, 2 a boot sector, 3 neither, 4 not readable.        *)
CheckFsCached(s) == move_window(win, s)     \* as if the window stayed valid
check_fs(s) == move_window(Lost, s)
Fmt(w) == IF Failed(w) THEN 4
          ELSE IF ~Sector(w).sig THEN 3
          ELSE IF Sector(w).jump /\ Sector(w).fat THEN 0 ELSE 2

NoFat(fmt) == Return(IF fmt = 4 THEN "DISK_ERR" ELSE "NO_FILESYSTEM")

(* find_volume: sector 0 is the volume, or holds the partition table.      *)
find_volume ==
  /\ pc = "sector0"
  /\ \E w \in check_fs(0) :
       /\ win' = w /\ Hurts(w)
       /\ CASE Fmt(w) = 0 -> pc' = "bpb" /\ UNCHANGED <<mounting, res>>
            [] Fmt(w) = 2 -> pc' = "partition" /\ mbr' = Sector(w).part /\ i' = 1
                             /\ UNCHANGED res
            [] OTHER      -> NoFat(Fmt(w)) /\ UNCHANGED mounting
  /\ UNCHANGED <<slot, volume, fil, dp, call, name, finding, reading, listing>>

(* The partitions in turn until one holds a FAT volume; one that cannot be *)
(* read is passed over, and only the last one's failure is reported.       *)
TryPartition ==
  /\ pc = "partition"
  /\ \E w \in IF mbr[i] = 0 THEN {win} ELSE check_fs(mbr[i]) :
       LET fmt == IF mbr[i] = 0 THEN 3 ELSE Fmt(w) IN
       /\ win' = w /\ hurt' = (hurt \/ fmt = 4)
       /\ CASE fmt = 0           -> pc' = "bpb" /\ UNCHANGED <<i, res>>
            [] fmt # 0 /\ i < 4  -> i' = i + 1 /\ UNCHANGED <<pc, res>>
            [] fmt # 0 /\ i >= 4 -> NoFat(fmt) /\ UNCHANGED i
  /\ UNCHANGED <<slot, volume, fil, dp, call, name, finding, mbr, reading, listing>>

(* The BIOS parameter block in the window: sizes of the parts, the FAT     *)
(* type that follows from the number of clusters, and whether the code     *)
(* takes the volume.                                                       *)
Fasize(b) == IF b.FATSz16 # 0 THEN b.FATSz16 ELSE b.FATSz32
Tsect(b) == IF b.TotSec16 # 0 THEN b.TotSec16 ELSE b.TotSec32
Sysect(b) == b.RsvdSecCnt + Fasize(b) * b.NumFATs + b.RootEntCnt \div EPS
Nclst(b) == (Tsect(b) - Sysect(b)) \div b.SecPerClus
FatType(b) == CASE Nclst(b) <= MAX_FAT12 -> "FAT12"
                [] Nclst(b) \in (MAX_FAT12 + 1)..MAX_FAT16 -> "FAT16"
                [] OTHER -> "FAT32"
Szbfat(b) == LET n == Nclst(b) + 2 IN
             CASE FatType(b) = "FAT12" -> (n * 3) \div 2 + (n % 2)
               [] FatType(b) = "FAT16" -> n * 2
               [] FatType(b) = "FAT32" -> n * 4

Accepted(b) ==
  /\ b.BytsPerSec = SS
  /\ b.NumFATs \in {1, 2}
  /\ b.SecPerClus \in {1, 2, 4, 8, 16, 32, 64, 128}
  /\ b.RootEntCnt % EPS = 0
  /\ b.RsvdSecCnt # 0
  /\ Tsect(b) >= Sysect(b)
  /\ Nclst(b) \in 1..MAX_FAT32
  /\ IF FatType(b) = "FAT32" THEN b.FSVer32 = 0 /\ b.RootEntCnt = 0 ELSE b.RootEntCnt # 0
  /\ Fasize(b) >= (Szbfat(b) + SS - 1) \div SS

Geometry(b, base, id) ==
  [type |-> FatType(b), id |-> id, card |-> win.card, base |-> base, tsect |-> Tsect(b),
   csize |-> b.SecPerClus, n_rootdir |-> b.RootEntCnt, n_fatent |-> Nclst(b) + 2,
   fatbase |-> base + b.RsvdSecCnt, database |-> base + Sysect(b),
   dirbase |-> IF FatType(b) = "FAT32" THEN b.RootClus32
               ELSE base + b.RsvdSecCnt + Fasize(b) * b.NumFATs]

InitVolume ==
  /\ pc = "bpb"
  /\ IF Accepted(Sector(win))
     THEN LET id == (Fsid + 1) % IDS IN
          /\ fs' = Geometry(Sector(win), win.sect, id) /\ Fsid' = id
          /\ pc' = "follow" /\ UNCHANGED res
     ELSE Return("NO_FILESYSTEM") /\ UNCHANGED volume
  /\ UNCHANGED <<slot, win, fil, dp, call, name, finding, mounting, reading, listing, hurt>>

-----------------------------------------------------------------------------
(* Finding.                                                                *)

(* follow_path: from the root, separators stripped; with nothing left the  *)
(* path is the root itself (NS_NONAME).                                    *)
Followed(r) == res' = r /\ pc' = "followed"

follow_path ==
  /\ pc = "follow"
  /\ path' = Stripped(path)
  /\ LET root == dir_sdi(NoDir) IN
     IF path' = <<>>
     THEN dp' = root.dir /\ seg' = NoName /\ Followed(root.res)
     ELSE dp' = NoDir /\ pc' = "segment" /\ UNCHANGED <<seg, res>>
  /\ UNCHANGED <<slot, volume, win, fil, call, name, mounting, reading, listing, hurt>>

(* One segment's name is made and the directory rewound to look for it.    *)
NextSegment ==
  /\ pc = "segment"
  /\ LET n == create_name(path)
         top == dir_sdi(dp)
     IN IF n.ok
        THEN /\ seg' = n /\ path' = n.rest /\ dp' = top.dir
             /\ IF top.res = "OK" THEN pc' = "find" /\ UNCHANGED res ELSE Followed(top.res)
        ELSE Followed("INVALID_NAME") /\ UNCHANGED <<finding, dp>>
  /\ UNCHANGED <<slot, volume, win, fil, call, name, mounting, reading, listing, hurt>>

(* dir_find, one entry: the end of the table, the entry looked for, or the *)
(* step to the next one.  A label or long-name entry never matches.        *)
Missing == Followed(IF seg.last THEN "NO_FILE" ELSE "NO_PATH")
Matches(e) == "V" \notin e.attr /\ e.name = seg.fn

Enter(w) ==
  LET e == Entry(w, dp) IN
  CASE seg.last -> Followed("OK") /\ dp' = [dp EXCEPT !.attr = e.attr]
    [] ~seg.last /\ "D" \notin e.attr -> Followed("NO_PATH") /\ UNCHANGED dp
    [] ~seg.last /\ "D" \in e.attr ->
         pc' = "segment" /\ dp' = [dp EXCEPT !.sclust = ld_clust(e)] /\ UNCHANGED res

dir_find ==
  /\ pc = "find"
  /\ \E w \in move_window(win, dp.sect) :
       \/ /\ Failed(w)
          /\ Followed("DISK_ERR") /\ win' = w /\ UNCHANGED dp
       \/ /\ ~Failed(w) /\ Entry(w, dp).name[1] = NUL
          /\ Missing /\ win' = w /\ UNCHANGED dp
       \/ /\ ~Failed(w) /\ Entry(w, dp).name[1] # NUL /\ Matches(Entry(w, dp))
          /\ Enter(w) /\ win' = w
       \/ /\ ~Failed(w) /\ Entry(w, dp).name[1] # NUL /\ ~Matches(Entry(w, dp))
          /\ \E n \in dir_next(w, dp) :
               /\ win' = n.win /\ dp' = n.dir
               /\ CASE n.res = "OK"      -> UNCHANGED <<pc, res>>
                    [] n.res = "NO_FILE" -> Missing
                    [] OTHER             -> Followed(n.res)
  /\ Hurts(win')
  /\ UNCHANGED <<slot, volume, fil, call, name, finding, mounting, reading, listing>>

(* f_open: what was found becomes the file, unless it is a directory.      *)
f_open ==
  /\ pc = "followed" /\ call = "f_open"
  /\ LET r == CASE res # "OK" -> res
                [] res = "OK" /\ seg = NoName -> "INVALID_NAME"
                [] OTHER -> IF "D" \in dp.attr THEN "NO_FILE" ELSE "OK"
     IN /\ Return(r)
        /\ fil' = IF r # "OK" THEN NoFile
                  ELSE [NoFile EXCEPT !.valid = TRUE, !.id = fs.id,
                                      !.sclust = ld_clust(Entry(win, dp)),
                                      !.objsize = Entry(win, dp).size]
  /\ dp' = NoDir
  /\ UNCHANGED <<slot, volume, win, call, name, finding, mounting, reading, listing, hurt>>

(* f_opendir for f_findfirst: the directory rewound, then its first item   *)
(* read by f_findnext.  The path of "=" is empty: the root.                *)
f_opendir ==
  /\ pc = "followed" /\ call = "f_findfirst"
  /\ LET top == dir_sdi(dp)
         r == IF res = "OK" THEN top.res ELSE res
     IN IF r = "OK"
        THEN /\ dp' = [top.dir EXCEPT !.valid = TRUE, !.id = fs.id]
             /\ pc' = "dirread" /\ UNCHANGED res
        ELSE Return(r) /\ dp' = NoDir
  /\ UNCHANGED <<slot, volume, win, fil, call, name, finding, mounting, reading, listing, hurt>>

-----------------------------------------------------------------------------
(* Listing: f_findnext is f_readdir until a name matches the pattern "*".  *)
Listable(e) ==
  /\ e.name[1] \notin {DDEM, "."}
  /\ e.attr # {"R", "H", "S", "V"}
  /\ e.attr \ {"A"} # {"V"}

get_fileinfo(e) == [name |-> ShownName(e.name), dir |-> "D" \in e.attr]

(* No entry is left: an empty name, and no error.                          *)
EndOfDirectory == Return("OK") /\ fno' = NoInfo
Closed(d) == [d EXCEPT !.sect = 0]

(* One entry of dir_read: it is the item and the index moves past it, or   *)
(* it is skipped.  An error met while moving past it is returned instead.  *)
f_readdir ==
  /\ pc = "dirread" /\ dp.sect # 0
  /\ \E w \in move_window(win, dp.sect) :
       \/ /\ Failed(w)
          /\ Return("DISK_ERR") /\ win' = w /\ dp' = Closed(dp) /\ UNCHANGED fno
       \/ /\ ~Failed(w) /\ Entry(w, dp).name[1] = NUL
          /\ EndOfDirectory /\ win' = w /\ dp' = Closed(dp)
       \/ /\ ~Failed(w) /\ Entry(w, dp).name[1] # NUL /\ Listable(Entry(w, dp))
          /\ \E n \in dir_next(w, dp) :
               LET r == IF n.res = "NO_FILE" THEN "OK" ELSE n.res IN
               /\ win' = n.win /\ dp' = n.dir
               /\ fno' = get_fileinfo(Entry(w, dp))
               /\ IF r = "OK" /\ ~pattern_matching(<<"*">>, fno'.name, 0, FALSE)
                  THEN UNCHANGED <<pc, res>> ELSE Return(r)
       \/ /\ ~Failed(w) /\ Entry(w, dp).name[1] # NUL /\ ~Listable(Entry(w, dp))
          /\ \E n \in dir_next(w, dp) :
               /\ win' = n.win
               /\ CASE n.res = "OK"      -> dp' = n.dir /\ UNCHANGED <<pc, res, fno>>
                    [] n.res = "NO_FILE" -> dp' = n.dir /\ EndOfDirectory
                    [] OTHER             -> dp' = Closed(n.dir) /\ Return(n.res)
                                            /\ UNCHANGED fno
  /\ Hurts(win')
  /\ UNCHANGED <<slot, volume, fil, call, name, finding, mounting, reading, listed>>

(* The directory was already read to its end.                              *)
AtEnd ==
  /\ pc = "dirread" /\ dp.sect = 0
  /\ EndOfDirectory
  /\ UNCHANGED <<slot, volume, win, fil, dp, call, name, finding, mounting, reading, listed, hurt>>

Finding == call \in {"f_findfirst", "f_findnext"}
Item == res = "OK" /\ fno.name # <<>>

(* xdir shows the item and asks for the next one.                          *)
f_findnext ==
  /\ pc = "returned" /\ Finding /\ Item
  /\ listed' = Append(listed, fno) /\ call' = "f_findnext"
  /\ IF validate(dp) THEN pc' = "dirread" /\ UNCHANGED res ELSE Return("INVALID_OBJECT")
  /\ UNCHANGED <<slot, volume, win, fil, dp, name, finding, mounting, reading, fno, hurt>>

-----------------------------------------------------------------------------
(* Reading.                                                                *)
Smaller(a, b) == IF a < b THEN a ELSE b

(* xsdread reads on after f_open, and after an f_read that gave all the    *)
(* bytes asked for.                                                        *)
f_read ==
  /\ pc = "returned"
  /\ (call = "f_open" /\ res = "OK") \/ (call = "f_read" /\ Len(got) = want)
  /\ \E n \in Requests :
       /\ want' = n /\ got' = <<>> /\ call' = "f_read"
       /\ LET ready_ == validate(fil) /\ fil.err = "OK" IN
          IF ready_
          THEN pc' = "read" /\ btr' = Smaller(n, fil.objsize - fil.fptr) /\ UNCHANGED res
          ELSE /\ Return(IF validate(fil) THEN fil.err ELSE "INVALID_OBJECT")
               /\ UNCHANGED btr
  /\ UNCHANGED <<slot, volume, win, fil, dp, name, finding, mounting, listing, hurt>>

(* ABORT: the error is kept in the file object as well.                    *)
Abort(f, r) == fil' = [f EXCEPT !.err = r] /\ Return(r) /\ UNCHANGED <<btr, got>>

(* The bytes taken from the file's buffer: to its end or to what is asked. *)
Deliver(f) ==
  LET at == f.fptr % SS
      rcnt == Smaller(SS - at, btr)
  IN /\ got' = got \o [k \in 1..rcnt |-> <<f.of, f.sect, at + k - 1>>]
     /\ fil' = [f EXCEPT !.fptr = @ + rcnt]
     /\ btr' = btr - rcnt
     /\ UNCHANGED <<pc, res>>

OnSector == fil.fptr % SS = 0
Csect == (fil.fptr \div SS) % fs.csize

(* The cluster under the file pointer: a new one on a cluster's boundary.  *)
Cluster == CASE Csect # 0 -> {[val |-> fil.clust, win |-> win]}
             [] Csect = 0 -> IF fil.fptr = 0 THEN {[val |-> fil.sclust, win |-> win]}
                             ELSE get_fat(win, fil.clust)

ReadOn ==
  /\ pc = "read" /\ btr > 0 /\ ~OnSector
  /\ Deliver(fil)
  /\ UNCHANGED <<slot, volume, win, dp, call, name, finding, mounting, want, listing, hurt>>

ReadSector ==
  /\ pc = "read" /\ btr > 0 /\ OnSector
  /\ \E g \in Cluster :
       LET f == [fil EXCEPT !.clust = g.val]
           sect == clst2sect(g.val) + Csect
       IN /\ win' = g.win
          /\ \/ g.val < 2 /\ Abort(fil, "INT_ERR") /\ UNCHANGED hurt
             \/ g.val = DiskErr /\ Abort(fil, "DISK_ERR") /\ hurt' = TRUE
             \/ /\ g.val \in 2..(DiskErr - 1) /\ clst2sect(g.val) = 0
                /\ Abort(f, "INT_ERR") /\ UNCHANGED hurt
             \/ /\ g.val \in 2..(DiskErr - 1) /\ clst2sect(g.val) # 0
                /\ \E ok \in IF sect = f.sect THEN {TRUE} ELSE disk_read(sect) :
                     /\ hurt' = (hurt \/ ~ok)
                     /\ IF ok
                        THEN Deliver(IF sect = f.sect THEN f
                                     ELSE [f EXCEPT !.sect = sect, !.of = card])
                        ELSE Abort(f, "DISK_ERR")
  /\ UNCHANGED <<slot, volume, dp, call, name, finding, mounting, want, listing>>

ReadDone ==
  /\ pc = "read" /\ btr = 0
  /\ Return("OK")
  /\ UNCHANGED <<slot, volume, win, fil, dp, call, name, finding, mounting, reading, listing, hurt>>

-----------------------------------------------------------------------------
(* The end of a command: its file or directory object, a local of it, goes.*)
CommandEnds ==
  /\ pc' = "idle" /\ fil' = NoFile /\ dp' = NoDir /\ call' = "none"
  /\ name' = <<>> /\ path' = <<>> /\ seg' = NoName /\ mbr' = <<>> /\ i' = 0
  /\ want' = 0 /\ btr' = 0 /\ got' = <<>> /\ fno' = NoInfo /\ listed' = <<>>
  /\ res' = "OK" /\ hurt' = FALSE
  /\ UNCHANGED <<slot, volume, win>>

(* "Not Found": whatever kept f_open from opening.                         *)
NotFound == pc = "returned" /\ call = "f_open" /\ res # "OK" /\ CommandEnds

(* The file's end, a record that ends the load, or an error, of which only *)
(* the short count is seen.                                                *)
f_close == pc = "returned" /\ call = "f_read" /\ CommandEnds

f_closedir == pc = "returned" /\ Finding /\ ~Item /\ CommandEnds

Running ==
  \/ mount_volume \/ find_volume \/ TryPartition \/ InitVolume
  \/ follow_path \/ NextSegment \/ dir_find \/ f_open \/ f_opendir
  \/ f_readdir \/ AtEnd \/ f_findnext
  \/ f_read \/ ReadOn \/ ReadSector \/ ReadDone
  \/ NotFound \/ f_close \/ f_closedir

Next == xdir \/ xsdread \/ Running \/ PullOut \/ PutIn

Spec == Init /\ [][Next]_vars
FairSpec == Spec /\ WF_vars(Running)

-----------------------------------------------------------------------------
(* Volumes[c] is what was written on card c, said without the code's       *)
(* arithmetic: its FAT volumes in the order of the partition table, each   *)
(* with the sectors it occupies, the names of its root directory in order  *)
(* (or the part of them that can be read), and the files by every path     *)
(* that names one: their size and the sectors that hold them, fewer than   *)
(* the size needs when the chain is broken.                                *)
VolumesOf(c) == IF c = NoCard THEN <<>> ELSE Volumes[c]
Mounted == fs.type # "none"
Home == {v \in {VolumesOf(fs.card)[k] : k \in DOMAIN VolumesOf(fs.card)} : v.base = fs.base}

(* f_read gives the bytes of the file, in order and none twice, from where *)
(* the last one stopped, whatever fails on the way; without a failure it   *)
(* stops short only at the end of the file or of a broken chain, and says  *)
(* which.                                                                  *)
ReadsTheFile ==
  call = "f_read" /\ pc = "returned" =>
    \E v \in Home :
      LET file == v.files[name]
          from == fil.fptr - Len(got)
          chained == Smaller(file.size, SS * Len(file.sects))
          wanted == Smaller(want, file.size - from)
      IN /\ name \in DOMAIN v.files
         /\ \A k \in 1..Len(got) :
              got[k] = <<fs.card, file.sects[(from + k - 1) \div SS + 1], (from + k - 1) % SS>>
         /\ (res = "OK" <=> Len(got) = wanted)
         /\ (~hurt /\ res # "OK" => res = "INT_ERR" /\ fil.fptr = chained)

(* f_open opens exactly the files of the first FAT volume of the card in   *)
(* the slot, by the paths that name them, whatever commands, cards and     *)
(* failures came before; a failure of the card never opens a wrong one.    *)
OpensWhatExists ==
  call = "f_open" /\ pc = "returned" =>
    /\ res = "OK" => \E v \in Home :
                       name \in DOMAIN v.files /\ fil.objsize = v.files[name].size
    /\ ~hurt => LET there == VolumesOf(card) IN
                IF there = <<>> THEN res # "OK"
                ELSE res = "OK" <=> name \in DOMAIN there[1].files
    /\ ~hurt /\ Mounted => fs.card = card /\ fs.base = VolumesOf(card)[1].base

(* xdir shows the names of the root directory in order, none left out and  *)
(* none twice, and all of them unless an error was returned.               *)
ListsTheDirectory ==
  Finding =>
    /\ listed # <<>> => \E v \in Home : IsPrefix(listed, v.shown)
    /\ pc = "returned" /\ res = "OK" /\ fno.name = <<>> => \E v \in Home : listed = v.shown
    /\ pc = "returned" /\ ~hurt /\ res # "OK" =>
         VolumesOf(card) = <<>> \/ \E v \in Home : v.broken

(* Between mounts no sector is taken from outside the volume the boot      *)
(* sector describes, or from another card, even with a damaged FAT or      *)
(* directory: the window stays in the volume, the file's buffer in its     *)
(* data area.                                                              *)
InsideVolume ==
  Mounted =>
    /\ win = Lost \/ (win.card = fs.card /\ win.sect \in fs.base..(fs.base + fs.tsect - 1))
    /\ fil.sect # 0 => /\ fil.of = fs.card
                       /\ fil.sect \in fs.database..(fs.base + fs.tsect - 1)

(* Every command comes back to the monitor, whatever is on the card, also  *)
(* a directory whose chain of clusters runs in a circle.                   *)
CallEnds == (pc # "idle") ~> (pc = "idle")
=============================================================================
