------------------------------ MODULE MCFatFs ------------------------------
(***************************************************************************)
(* FatFs on small cards, one for each way a volume can lie on a card or be *)
(* damaged.  A sector has 8 bytes or 2 directory entries, a name 2 + 1     *)
(* bytes; the limits between the FAT types are scaled with them, the bytes *)
(* of a FAT entry are not.                                                 *)
(***************************************************************************)
EXTENDS FatFs, TLC

MCCards == {"floppy12", "mbr16", "mbr32", "circle32", "cut32", "blank", "rejected"}

MCPaths == {<<"A", ".", "B">>, <<"/", "a", ".", "b">>, <<"D", "/", "B">>, <<"D">>,
            <<"D", "/", "E5", "a">>, <<"0", ":", "C">>, <<"1", ":", "C">>, <<>>,
            <<"A", ".", "B", "/", "B">>, <<" ", "C">>}

(* Directory entries: name, attributes, start cluster, size.               *)
Ent(nm, attr, lo, hi, size) ==
  [name |-> nm, attr |-> attr, lo |-> lo, hi |-> hi, size |-> size]
AB == <<"A", " ", "B">>
C == <<"C", " ", " ">>
D == <<"D", " ", " ">>
Unused == Ent(<<NUL, " ", " ">>, {}, 0, 0, 0)
Deleted == Ent(<<DDEM, " ", "B">>, {"A"}, 2, 0, 3)
Label == Ent(<<"C", " ", " ">>, {"V", "A"}, 0, 0, 0)
LongName == Ent(<<"A", "B", "B">>, {"R", "H", "S", "V"}, 0, 0, 0)
Dot == Ent(<<".", " ", " ">>, {"D"}, 3, 0, 0)
DotDot == Ent(<<".", ".", " ">>, {"D"}, 0, 0, 0)

(* Sectors.                                                                *)
Dir(a, b) == [sig |-> FALSE, ent |-> <<a, b>>]
Plain == Dir(Unused, Unused)
Boot(fat) == [sig |-> TRUE, jump |-> TRUE, fat |-> fat, part |-> <<0, 0, 0, 0>>] @@ Plain
Mbr(part) == [Boot(FALSE) EXCEPT !.jump = FALSE, !.part = part]
Other == Boot(FALSE)
Vbr(fatsz, nfats, spc, root, tot16, tot32, clus) ==
  [BytsPerSec |-> SS,
   FATSz16 |-> IF clus = 0 THEN fatsz ELSE 0, FATSz32 |-> fatsz, NumFATs |-> nfats,
   SecPerClus |-> spc, RootEntCnt |-> root, TotSec16 |-> tot16, TotSec32 |-> tot32,
   RsvdSecCnt |-> 1, FSVer32 |-> 0, RootClus32 |-> clus] @@ Boot(TRUE)

(* The n sectors of a FAT of entries w nibbles wide; entry j is at f[j+1]. *)
Fat(f, w, n) ==
  LET Nibble(j) == IF j \div w >= Len(f) THEN 0
                   ELSE (f[(j \div w) + 1] \div 16^(j % w)) % 16
      ByteAt(o) == Nibble(2 * o) + 16 * Nibble(2 * o + 1)
  IN [s \in 1..n |-> [byte |-> [o \in 1..SS |-> ByteAt(SS * (s - 1) + o - 1)]] @@ Plain]
EOC12 == 4095
EOC16 == 65528
EOC32 == 2147483640     \* 0x7FFFFFF8: the top nibble is not part of it

(* FAT12 from sector 0, clusters of two sectors, two FATs; the entry of    *)
(* cluster 5 lies on two sectors of the FAT; the root is full.             *)
Fat12 == <<4088, EOC12, EOC12, 7, EOC12, 2, EOC12, EOC12>>
Floppy12 ==
  <<Vbr(2, 2, 2, 4, 19, 0, 0)>> \o Fat(Fat12, 3, 2) \o Fat(Fat12, 3, 2)
  \o <<Dir(Label, Ent(AB, {"A"}, 5, 0, 20)), Dir(Deleted, Ent(D, {"D"}, 3, 0, 0)),
       Plain, Plain,                                                 \* cluster 2
       Dir(Dot, DotDot), Dir(LongName, Ent(<<"05", "a", " ">>, {"A"}, 4, 0, 9)),
       Plain, Plain, Plain, Plain, Plain, Plain,                     \* 4, 5, 6
       Dir(Ent(<<"B", " ", " ">>, {}, 6, 0, 3), Unused), Plain>>     \* 7

(* FAT16 in the second partition, a FAT12 volume in the third.             *)
Mbr16 ==
  <<Mbr(<<1, 2, 14, 0>>), Other, Vbr(3, 1, 1, 2, 0, 12, 0)>>
  \o Fat(<<65528, EOC16, 0, 8, EOC16, 0, 0, 0, 4>>, 4, 3)
  \o <<Dir(Ent(AB, {"A"}, 3, 1, 20), Ent(C, {"R"}, 0, 0, 0)),
       Plain, Plain, Plain, Plain, Plain, Plain, Plain,
       Vbr(1, 1, 1, 2, 5, 0, 0)>> \o Fat(<<4088, EOC12, EOC12, 0>>, 3, 1)
  \o <<Dir(Ent(AB, {"A"}, 2, 0, 2), Unused), Plain, Plain>>

(* FAT32 in the first partition, with a root directory of two clusters.    *)
Mbr32 ==
  <<Mbr(<<1, 0, 0, 0>>), Vbr(6, 1, 1, 0, 17, 0, 3)>>
  \o Fat(<<EOC32, EOC32, 0, 5, 7, EOC32, 9, EOC32, EOC32, EOC32, EOC32, 0>>, 8, 6)
  \o <<Plain, Dir(Ent(D, {"D"}, 6, 0, 0), Ent(AB, {"A"}, 4, 0, 12)),  \* 2, 3
       Plain, Dir(Label, Ent(C, {"H"}, 8, 0, 1)),                      \* 4, 5
       Dir(Dot, DotDot), Plain, Plain,                                 \* 6, 7, 8
       Dir(Ent(<<"B", " ", " ">>, {}, 10, 0, 3), Unused), Plain, Plain, Plain>>

(* FAT32 from sector 0 with the root in a circle, A.B cut after a cluster, *)
(* C starting at no cluster, and D leading back to the root.               *)
Circle32 ==
  <<Vbr(6, 1, 1, 0, 17, 0, 2)>>
  \o Fat(<<EOC32, EOC32, 3, 2, 0, 0, 0, 0, 0, 0, 0, 0>>, 8, 6)
  \o <<Dir(Ent(AB, {"A"}, 4, 0, 12), Ent(C, {}, 12, 0, 3)),
       Dir(Ent(D, {"D"}, 0, 0, 0), Deleted)>>
  \o [s \in 1..10 |-> Plain]

(* FAT32 from sector 0 with the root's chain leading to a free cluster and *)
(* a directory D at no cluster.                                            *)
Cut32 ==
  <<Vbr(6, 1, 1, 0, 17, 0, 2)>>
  \o Fat(<<EOC32, EOC32, 0, 0, 15, 0, 0, 0, 0, 0, 0, 0>>, 8, 6)
  \o <<Dir(Ent(AB, {"A"}, 4, 0, 12), Ent(D, {"D"}, 20, 0, 0))>>
  \o [s \in 1..11 |-> Plain]

MCImage == [c \in MCCards |->
  CASE c = "floppy12" -> Floppy12 [] c = "mbr16" -> Mbr16 [] c = "mbr32" -> Mbr32
    [] c = "circle32" -> Circle32 [] c = "cut32" -> Cut32
    [] c = "blank"    -> <<Plain, Plain>>
    \* a FAT of one sector for eight clusters
    [] c = "rejected" -> <<Mbr(<<0, 1, 0, 0>>), Vbr(1, 1, 1, 2, 11, 0, 0), Plain>>]

-----------------------------------------------------------------------------
Info(nm, dir) == [name |-> nm, dir |-> dir]
ShowAB == Info(<<"A", ".", "B">>, FALSE)
ShowC == Info(<<"C">>, FALSE)
ShowD == Info(<<"D">>, TRUE)
Chain(size, sects) == [size |-> size, sects |-> sects]
pAB == <<"A", ".", "B">>
pab == <<"/", "a", ".", "b">>
pC == <<"0", ":", "C">>
pDB == <<"D", "/", "B">>
Volume(base, broken, shown, files) ==
  [base |-> base, broken |-> broken, shown |-> shown, files |-> files]

MCVolumes == [c \in MCCards |->
  CASE c = "floppy12" ->
         LET ab == Chain(20, <<13, 14, 7, 8>>) IN
         <<Volume(0, FALSE, <<ShowAB, ShowD>>,
             pAB :> ab @@ pab :> ab @@ pDB :> Chain(3, <<15>>)
             @@ <<"D", "/", "E5", "a">> :> Chain(9, <<11, 12>>))>>
    [] c = "mbr16" ->
         LET ab == Chain(20, <<8, 13, 9>>) IN
         <<Volume(2, FALSE, <<ShowAB, ShowC>>,
                  pAB :> ab @@ pab :> ab @@ pC :> Chain(0, <<>>)),
           Volume(14, FALSE, <<ShowAB>>, pAB :> Chain(2, <<17>>) @@ pab :> Chain(2, <<17>>))>>
    [] c = "mbr32" ->
         LET ab == Chain(12, <<10, 13>>) IN
         <<Volume(1, FALSE, <<ShowD, ShowAB, ShowC>>,
             pAB :> ab @@ pab :> ab @@ pC :> Chain(1, <<14>>) @@ pDB :> Chain(3, <<16>>))>>
    [] c = "circle32" ->
         LET ab == Chain(12, <<9>>) IN
         <<Volume(0, FALSE, <<ShowAB, ShowC, ShowD, ShowAB, ShowC, ShowD, ShowAB, ShowC>>,
             pAB :> ab @@ pab :> ab @@ pC :> Chain(3, <<>>))>>
    [] c = "cut32" ->
         LET ab == Chain(12, <<9>>) IN
         <<Volume(0, TRUE, <<ShowAB>>, pAB :> ab @@ pab :> ab)>>
    [] OTHER -> <<>>]
=============================================================================
