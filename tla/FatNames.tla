------------------------------ MODULE FatNames ------------------------------
(***************************************************************************)
(* How FatFs reads the names it is given and shows the ones it finds       *)
(* (src/briey/ff.c): the drive prefix, one segment of a path in directory  *)
(* form, the name of a directory entry, and the pattern of f_findnext.     *)
(* A byte of a name is a string; DBCS code page 932 gives some bytes the   *)
(* meaning "first of two".  The 8 + 3 bytes of a name are BODY + EXT here. *)
(***************************************************************************)
EXTENDS Integers, Sequences, FiniteSets, SequencesExt

CONSTANTS BODY, EXT,    \* bytes of a short name: 8 and 3 in the code
          Lead, Trail   \* dbc_1st and dbc_2nd, over the bytes in use

ASSUME FieldsAssumption == BODY \in Nat \ {0} /\ EXT \in Nat \ {0}

NUL == ""           \* also the first byte of a directory entry never used
DDEM == "E5"        \* the first byte of a deleted entry
RDDEM == "05"       \* what stands for E5 in the first byte of a name
Separators == {"/", "\\"}
Illegal == {"\"", "*", "+", ",", ":", ";", "<", "=", ">", "?", "[", "]", "|"}
Digits == {"0", "1", "2", "3", "4", "5", "6", "7", "8", "9"}

Upper(c) == CASE c = "a" -> "A" [] c = "b" -> "B" [] OTHER -> c

(* The byte p[k] of a string, its terminating zero included. *)
At(p, k) == IF k <= Len(p) THEN p[k] ELSE NUL

(* p without the separators at its head. *)
Stripped(p) ==
  LET n == CHOOSE k \in 0..Len(p) : /\ \A j \in 1..k : p[j] \in Separators
                                    /\ At(p, k + 1) \notin Separators
  IN SubSeq(p, n + 1, Len(p))

-----------------------------------------------------------------------------
(* A drive prefix ends at the first colon before a blank.  There is one    *)
(* volume, "0:"; any other prefix is an invalid drive.                     *)
get_ldnumber(p) ==
  LET Colon(k) == p[k] = ":" /\ \A j \in 1..(k - 1) : p[j] \notin {":", " "} IN
  CASE \A k \in DOMAIN p : ~Colon(k)   -> [ok |-> TRUE, rest |-> p]
    [] Len(p) >= 2 /\ p[1] = "0" /\ Colon(2)
                                       -> [ok |-> TRUE, rest |-> SubSeq(p, 3, Len(p))]
    [] OTHER                           -> [ok |-> FALSE, rest |-> p]

(* One segment of the path: its name in directory form, whether it is the  *)
(* last, and what follows.  A byte goes to the body until the dot, then to *)
(* the extension; the first of a double byte takes the next one with it.   *)
NoName == [ok |-> FALSE, fn |-> <<>>, last |-> TRUE, rest |-> <<>>]
Blank == [k \in 1..(BODY + EXT) |-> " "]

Named(sfn, i, last, rest) ==
  IF i = 0 THEN NoName
           ELSE [ok |-> TRUE, last |-> last, rest |-> rest,
                 fn |-> IF sfn[1] = DDEM THEN [sfn EXCEPT ![1] = RDDEM] ELSE sfn]

(* The bytes of p from p[k] on, i bytes of the name made, ni to be made.   *)
Segment(p) ==
  LET from[k \in 1..(Len(p) + 1), i \in 0..(BODY + EXT), ni \in {BODY, BODY + EXT},
           sfn \in [1..(BODY + EXT) -> STRING]] ==
        LET c == At(p, k)
            d == At(p, k + 1)
        IN CASE c \in {NUL, " "}    -> Named(sfn, i, TRUE, <<>>)
             [] c \in Separators    ->
                  Named(sfn, i, FALSE, Stripped(SubSeq(p, k, Len(p))))
             [] c = "." \/ (c \notin {NUL, " "} \union Separators /\ i >= ni) ->
                  IF ni = BODY + EXT \/ c # "." THEN NoName
                                                ELSE from[k + 1, BODY, BODY + EXT, sfn]
             [] c \in Lead /\ i < ni ->
                  IF d \notin Trail \/ i >= ni - 1 THEN NoName
                    ELSE from[k + 2, i + 2, ni, [sfn EXCEPT ![i + 1] = c, ![i + 2] = d]]
             [] OTHER ->
                  IF c \in Illegal THEN NoName
                    ELSE from[k + 1, i + 1, ni, [sfn EXCEPT ![i + 1] = Upper(c)]]
  IN from

create_name(p) == Segment(p)[1, 0, BODY, Blank]

(* The name get_fileinfo makes of an entry: no padding, a dot before the   *)
(* extension, E5 restored.                                                 *)
ShownName(name) ==
  LET Piece(k) == IF name[k] = " " THEN <<>>
                  ELSE (IF k = BODY + 1 THEN <<".">> ELSE <<>>)
                       \o <<IF name[k] = RDDEM THEN DDEM ELSE name[k]>>
  IN FlattenSeq([k \in 1..(BODY + EXT) |-> Piece(k)])

-----------------------------------------------------------------------------
(* The pattern of f_findfirst.  get_achar is one character, of one byte or *)
(* two; a first byte without its second ends the string.                   *)
get_achar(s) ==
  LET c == Upper(At(s, 1))
      d == At(s, 2)
  IN CASE c = NUL      -> [chr |-> <<>>, rest |-> <<>>]
       [] c \in Lead /\ d \in Trail
                       -> [chr |-> <<c, d>>, rest |-> SubSeq(s, 3, Len(s))]
       [] c \in Lead /\ d \notin Trail
                       -> [chr |-> <<>>, rest |-> Tail(s)]
       [] OTHER        -> [chr |-> <<c>>, rest |-> Tail(s)]

Wild == {"?", "*"}

(* What is left of a name after n of its characters, if it has so many.    *)
Skipped(nam, n) ==
  LET left[k \in 0..n] ==
        IF k = 0 THEN [ok |-> TRUE, rest |-> nam]
        ELSE LET c == get_achar(left[k - 1].rest)
             IN [ok |-> left[k - 1].ok /\ c.chr # <<>>, rest |-> c.rest]
  IN left[n]

(* The tail of a name where the pattern goes on: here, or after "*" at any *)
(* later character.                                                        *)
Retry(branch, pat, nam, inf) ==
  LET retry[np \in Suffixes(nam)] ==
        LET b == branch[pat, np]
        IN b.ok \/ (inf /\ b.nc # <<>> /\ retry[get_achar(np).rest])
  IN retry[nam]

Matched(branch, pat, nam, skip, inf) ==
  LET s == Skipped(nam, skip)
  IN s.ok /\ ((pat = <<>> /\ inf) \/ Retry(branch, pat, s.rest, inf))

(* Pattern against name from here: matched, or the name's character where  *)
(* they part.  A block of wildcards starts a branch of its own.            *)
Branch(pat, nam) ==
  LET branch[pp \in Suffixes(pat), np \in Suffixes(nam)] ==
        IF At(pp, 1) \in Wild
        THEN LET n == CHOOSE k \in 1..Len(pp) : /\ \A j \in 1..k : pp[j] \in Wild
                                                /\ At(pp, k + 1) \notin Wild
                 marks == {j \in 1..n : pp[j] = "?"}
             IN [ok |-> Matched(branch, SubSeq(pp, n + 1, Len(pp)), np,
                                Cardinality(marks), Cardinality(marks) < n),
                 nc |-> IF np = <<>> THEN <<>> ELSE <<At(np, 1)>>]
        ELSE LET p == get_achar(pp)
                 n == get_achar(np)
             IN CASE p.chr # n.chr -> [ok |-> FALSE, nc |-> n.chr]
                  [] p.chr = <<>> /\ n.chr = <<>> -> [ok |-> TRUE, nc |-> <<>>]
                  [] OTHER -> branch[p.rest, n.rest]
  IN branch

pattern_matching(pat, nam, skip, inf) == Matched(Branch(pat, nam), pat, nam, skip, inf)
=============================================================================
