--------------------------- MODULE FirmwareProofs ---------------------------
(***************************************************************************)
(* Proofs about the start-up of the firmware and its services.  First the  *)
(* symbol table of SymTable.tla, for every size of the table and of a      *)
(* name: it is the dictionary of SymDict.tla.  Then Firmware.tla, which    *)
(* fills it: what main leaves behind, what reaches the line, and that the  *)
(* table stays a dictionary under main and under the programs.  Last what   *)
(* Xprintf.tla prints for every call of a program.                         *)
(***************************************************************************)
EXTENDS Firmware, FiniteSetTheorems, WellFoundedInduction, SequenceTheorems, TLAPS

-----------------------------------------------------------------------------
\* The symbol table.

\* A set of natural numbers that is not empty has a least one.
LEMMA Least ==
    ASSUME NEW S, S \subseteq Nat, S # {}
    PROVE  \E m \in S : \A h \in S : m <= h
<1>1. PICK m \in S : \A h \in S : <<h, m>> \notin OpToRel(<, Nat)
  BY NatLessThanWellFounded, WFMin, Zenon
<1>2. ASSUME NEW h \in S PROVE ~(h < m)
  BY <1>1 DEF OpToRel
<1> QED
  BY <1>2

LEMMA FirstIsIn ==
    ASSUME NEW S, S \subseteq Slot
    PROVE  /\ S # {} => FirstOf(S) \in S
           /\ FirstOf(S) = 0 <=> S = {}
<1>1. S \subseteq Nat
  BY SymSizes DEF Slot
<1>2. ASSUME S # {} PROVE FirstOf(S) \in S
  BY <1>1, <1>2, Least DEF FirstOf
<1>3. 0 \notin Slot
  BY SymSizes DEF Slot
<1> QED
  BY <1>2, <1>3 DEF FirstOf

-----------------------------------------------------------------------------
\* Names and keys.

NameField == [Pos -> Char \cup {NUL}]

\* What strncmp takes for the same name is the same key.
LEMMA SameKey ==
    ASSUME NEW f \in NameField, NEW n \in Names
    PROVE  SameName(f, n) <=> KeyOf(f) = KeyFor(n)
<1>1. n \in Seq(Char) /\ NUL \notin Char /\ SYMNAMELEN \in Nat
  BY SymNames, SymSizes
<1>2. ASSUME SameName(f, n), NEW p \in Pos
      PROVE  KeyOf(f)[p] = CharOf(n, p)
  <2>1. p \in Nat
    BY <1>1 DEF Pos
  <2>2. CASE \A q \in 1..p : f[q] # NUL
    <3>1. p \in 1..p /\ \A q \in 1..(p - 1) : f[q] # NUL
      BY <2>1, <2>2 DEF Pos
    <3> QED
      BY <1>2, <2>2, <3>1 DEF SameName, KeyOf
  <2>3. CASE \E q \in 1..p : f[q] = NUL
    <3>1. PICK m \in {q \in 1..p : f[q] = NUL} : \A h \in {q \in 1..p : f[q] = NUL} : m <= h
      <4>1. {q \in 1..p : f[q] = NUL} \subseteq Nat /\ {q \in 1..p : f[q] = NUL} # {}
        BY <2>3
      <4> QED
        BY <4>1, Least
    <3>2. m \in Pos /\ m <= p /\ f[m] = NUL /\ \A q \in 1..(m - 1) : f[q] # NUL
      <4>1. m \in 1..p /\ f[m] = NUL
        BY <3>1
      <4>2. ASSUME NEW q \in 1..(m - 1) PROVE f[q] # NUL
        <5>1. q \in 1..p /\ ~(m <= q)
          BY <2>1, <4>1
        <5> QED
          BY <3>1, <5>1
      <4> QED
        BY <1>1, <2>1, <4>1, <4>2 DEF Pos
    <3>3. CharOf(n, m) = NUL
      BY <1>2, <3>2 DEF SameName
    <3>4. ~(m <= Len(n))
      BY <1>1, <3>2, <3>3 DEF CharOf, Pos
    <3>5. CharOf(n, p) = NUL
      BY <1>1, <2>1, <3>2, <3>4 DEF CharOf, Pos
    <3> QED
      BY <2>3, <3>5 DEF KeyOf
  <2> QED
    BY <2>2, <2>3
<1>3. ASSUME KeyOf(f) = KeyFor(n), NEW p \in Pos, \A q \in 1..(p - 1) : f[q] # NUL
      PROVE  f[p] = CharOf(n, p)
  <2>1. KeyOf(f)[p] = CharOf(n, p)
    BY <1>3 DEF KeyFor
  <2>2. CASE f[p] = NUL
    <3>1. p \in 1..p
      BY <1>1 DEF Pos
    <3> QED
      BY <2>1, <2>2, <3>1 DEF KeyOf
  <2>3. CASE f[p] # NUL
    <3>1. \A q \in 1..p : f[q] # NUL
      <4>1. \A q \in 1..p : q \in 1..(p - 1) \/ q = p
        BY <1>1 DEF Pos
      <4> QED
        BY <1>3, <2>3, <4>1
    <3> QED
      BY <2>1, <3>1 DEF KeyOf
  <2> QED
    BY <2>2, <2>3
<1>4. SameName(f, n) => KeyOf(f) = KeyFor(n)
  BY <1>2 DEF KeyOf, KeyFor
<1>5. KeyOf(f) = KeyFor(n) => SameName(f, n)
  BY <1>3 DEF SameName
<1> QED
  BY <1>4, <1>5

\* A name stored whole begins with a character, so its slot is in use.
LEMMA KeyOfFirst ==
    ASSUME NEW f \in NameField, NEW n \in Names
    PROVE  /\ KeyOf(f)[1] = f[1] /\ KeyFor(n)[1] # NUL
           /\ Written(f, n) \in NameField /\ Written(f, n)[1] # NUL
<1>1. n \in Seq(Char) /\ n # <<>> /\ NUL \notin Char /\ 1 \in Pos
  BY SymNames, SymSizes DEF Pos
<1>2. 1 <= Len(n) /\ n[1] \in Char
  BY <1>1
<1>3. KeyOf(f)[1] = f[1]
  <2>1. \A q \in 1..1 : q = 1
    OBVIOUS
  <2>2. 1 \in 1..1
    OBVIOUS
  <2> QED
    BY <1>1, <2>1, <2>2 DEF KeyOf
<1>4. KeyFor(n)[1] # NUL
  BY <1>1, <1>2 DEF KeyFor, CharOf
<1>5. Written(f, n) \in NameField
  <2>1. ASSUME NEW p \in Pos, p <= Len(n) PROVE n[p] \in Char
    BY <1>1, <2>1 DEF Pos
  <2> QED
    BY <2>1 DEF Written, NameField
<1>6. Written(f, n)[1] # NUL
  BY <1>1, <1>2 DEF Written
<1> QED
  BY <1>3, <1>4, <1>5, <1>6

-----------------------------------------------------------------------------
\* The invariant.

Key(i)  == KeyOf(table[i].name)
Addr(i) == table[i].address

TableType == table \in [Slot -> [name : NameField, address : Addresses]]

\* No two slots in use have the same key, unless a name was lost.
KeysApart == \A i, j \in Slot : Used(i) /\ Used(j) /\ Key(i) = Key(j) => i = j
SymIInv == TableType /\ lost \in BOOLEAN /\ (~lost => KeysApart)

\* What a name finds, while none was lost.
LEMMA FindsKey ==
    ASSUME TableType, NEW n \in Names
    PROVE  /\ Matches(n) = {i \in Slot : Used(i) /\ Key(i) = KeyFor(n)}
           /\ Find(n) # 0 => Find(n) \in Slot /\ Used(Find(n)) /\ Key(Find(n)) = KeyFor(n)
           /\ Find(n) = 0 => \A i \in Slot : Used(i) => Key(i) # KeyFor(n)
<1>1. ASSUME NEW i \in Slot PROVE table[i].name \in NameField
  BY DEF TableType
<1>2. Matches(n) = {i \in Slot : Used(i) /\ Key(i) = KeyFor(n)}
  BY <1>1, SameKey DEF Matches, Key
<1>3. Matches(n) \subseteq Slot
  BY DEF Matches
<1> QED
  BY <1>2, <1>3, FirstIsIn DEF Find

\* What PutNew makes of the table.
LEMMA PutNewSlot ==
    ASSUME TableType, NEW n \in Names, NEW a \in Addresses, PutNew(n, a)
    PROVE  \E i \in Free :
             /\ ret' = i /\ TableType' /\ Addr(i)' = a /\ Used(i)'
             /\ \A j \in Slot \ {i} : Used(j)' = Used(j) /\ Key(j)' = Key(j) /\ Addr(j)' = Addr(j)
             /\ lost' = (lost \/ Key(i)' # KeyFor(n))
<1>1. PICK i \in Free : i = FirstOf(Free)
  BY FirstIsIn DEF PutNew, Free
<1>2. PICK name : name = Written(table[i].name, n)
  OBVIOUS
<1>3. /\ table' = [table EXCEPT ![i] = [name |-> name, address |-> a]] /\ ret' = i
      /\ i \in Slot
  BY <1>1, <1>2 DEF PutNew, Free
<1>4. lost' = (lost \/ ~SameName(name, n))
  BY <1>1, <1>2, Zenon DEF PutNew
<1>5. name \in NameField /\ name[1] # NUL
  BY <1>2, <1>3, KeyOfFirst DEF TableType
<1>6. TableType'
  BY <1>3, <1>5 DEF TableType
<1>7. table'[i].name = name /\ table'[i].address = a
  BY <1>3 DEF TableType
<1>8. ASSUME NEW j \in Slot \ {i} PROVE table'[j] = table[j]
  BY <1>3 DEF TableType
<1>9. lost' = (lost \/ Key(i)' # KeyFor(n))
  BY <1>4, <1>5, <1>7, SameKey, Zenon DEF Key
<1>10. Used(i)' /\ Addr(i)' = a
  BY <1>5, <1>7 DEF Used, Addr
<1>11. \A j \in Slot \ {i} : Used(j)' = Used(j) /\ Key(j)' = Key(j) /\ Addr(j)' = Addr(j)
  BY <1>8 DEF Used, Key, Addr
<1> QED
  BY <1>3, <1>6, <1>9, <1>10, <1>11, Zenon

-----------------------------------------------------------------------------
\* The dictionary.

InUse == {j \in Slot : Used(j)}
Entries == {<<Key(i), Addr(i)>> : i \in InUse}

\* How many entries it has.
LEMMA EntryCount ==
    /\ Free # {} => Cardinality(Entries) < SYMTABLESIZ
    /\ Free = {} /\ KeysApart => Cardinality(Entries) = SYMTABLESIZ
<1> DEFINE f == [j \in InUse |-> <<Key(j), Addr(j)>>]
<1>1. SYMTABLESIZ \in Nat \ {0} /\ IsFiniteSet(Slot) /\ Cardinality(Slot) = SYMTABLESIZ
  BY SymSizes, FS_Interval DEF Slot
<1>2. f \in Surjection(InUse, Entries)
  BY DEF Entries, Surjection
<1>3. IsFiniteSet(InUse) /\ Cardinality(InUse) \in Nat
  BY <1>1, FS_Subset, FS_CardinalityType DEF InUse
<1>4. /\ Cardinality(Entries) <= Cardinality(InUse)
      /\ Cardinality(Entries) = Cardinality(InUse) <=> f \in Injection(InUse, Entries)
  BY <1>2, <1>3, FS_Surjection, Zenon
<1>5. IsFiniteSet(Entries) /\ Cardinality(Entries) \in Nat
  BY <1>2, <1>3, FS_Surjection, FS_CardinalityType, Zenon
<1> HIDE DEF f
<1>6. ASSUME Free # {} PROVE Cardinality(Entries) < SYMTABLESIZ
  <2>1. PICK i \in Slot : ~Used(i)
    BY <1>6 DEF Free
  <2>2. IsFiniteSet(Slot \ {i}) /\ Cardinality(Slot \ {i}) = SYMTABLESIZ - 1
    BY <1>1, FS_RemoveElement
  <2>3. InUse \in SUBSET (Slot \ {i})
    BY <2>1 DEF InUse
  <2>4. Cardinality(InUse) <= SYMTABLESIZ - 1
    BY <2>2, <2>3, FS_Subset
  <2> QED
    BY <1>1, <1>3, <1>4, <1>5, <2>4
<1>7. ASSUME Free = {}, KeysApart PROVE Cardinality(Entries) = SYMTABLESIZ
  <2>1. InUse = Slot
    BY <1>7 DEF Free, InUse
  <2>2. ASSUME NEW i \in InUse, NEW j \in InUse, f[i] = f[j] PROVE i = j
    BY <1>7, <2>2 DEF f, KeysApart, InUse
  <2>3. f \in Injection(InUse, Entries)
    BY <1>2, <2>2 DEF Injection, IsInjective, Surjection
  <2> QED
    BY <1>1, <1>4, <2>1, <2>3
<1> QED
  BY <1>6, <1>7

\* A key is known where the search for the name ends at a slot.
LEMMA KnownKeys ==
    ASSUME TableType, NEW n \in Names
    PROVE  Find(n) # 0 <=> \E entry \in Entries : entry[1] = KeyFor(n)
<1>1. ASSUME Find(n) # 0 PROVE \E entry \in Entries : entry[1] = KeyFor(n)
  <2>1. Find(n) \in InUse /\ Key(Find(n)) = KeyFor(n)
    BY <1>1, FindsKey DEF InUse
  <2>2. <<Key(Find(n)), Addr(Find(n))>> \in Entries
    BY <2>1 DEF Entries
  <2> QED
    BY <2>1, <2>2
<1>2. ASSUME NEW entry \in Entries, entry[1] = KeyFor(n) PROVE Find(n) # 0
  BY <1>2, FindsKey DEF Entries, InUse
<1> QED
  BY <1>1, <1>2

LEMMA InitIInv == SymInit => SymIInv
<1> SUFFICES ASSUME SymInit
             PROVE  SymIInv
  OBVIOUS
<1>1. TableType
  BY SymAddresses DEF SymInit, TableType, NameField
<1>2. ASSUME NEW i \in Slot PROVE ~Used(i)
  BY SymSizes DEF SymInit, Used, Pos
<1> QED
  BY <1>1, <1>2, Zenon DEF SymInit, SymIInv, KeysApart

LEMMA InitDict == SymInit => Dict!DInit
<1> SUFFICES ASSUME SymInit
             PROVE  Dict!DInit
  OBVIOUS
<1>1. ASSUME NEW i \in Slot PROVE ~Used(i)
  BY SymSizes DEF SymInit, Used, Pos
<1>2. {<<KeyOf(table[i].name), table[i].address>> : i \in {j \in Slot : Used(j)}} = {}
  BY <1>1, Zenon
<1>3. ret = 0 /\ ~lost
  BY Zenon DEF SymInit
<1> QED
  BY <1>2, <1>3, Zenon DEF Dict!DInit

\* The calls, each with what it leaves and what it is to the dictionary.
LEMMA Clears ==
    ASSUME SymIInv, symt_clear
    PROVE  SymIInv' /\ Entries' = {} /\ ret' = 0 /\ last'.op = "clear"
<1>1. 1 \in Pos
  BY SymSizes DEF Pos
<1>2. ASSUME NEW i \in Slot PROVE table'[i] \in [name : NameField, address : Addresses] /\ table'[i].name[1] = NUL
  <2>1. table'[i] = [table[i] EXCEPT !.name[1] = NUL]
    BY DEF symt_clear
  <2> QED
    BY <1>1, <2>1 DEF SymIInv, TableType, NameField
<1>3. TableType'
  BY <1>2 DEF symt_clear, TableType
<1>4. \A i \in Slot : ~Used(i)'
  BY <1>2 DEF Used
<1>5. Entries' = {} /\ KeysApart'
  BY <1>4, Zenon DEF Entries, InUse, KeysApart
<1>6. ret' = 0 /\ last'.op = "clear"
  BY DEF symt_clear, Called
<1>7. lost' \in BOOLEAN
  BY Zenon DEF symt_clear
<1> QED
  BY <1>3, <1>5, <1>6, <1>7, Zenon DEF SymIInv

\* symt_put of a name that is there, while no name was lost.
LEMMA PutsAgain ==
    ASSUME TableType, KeysApart, NEW n \in Names, NEW a \in Addresses, PutAgain(n, a)
    PROVE  /\ TableType' /\ KeysApart' /\ ret' = 0 /\ Find(n) # 0
           /\ Entries' = {entry \in Entries : entry[1] # KeyFor(n)} \cup {<<KeyFor(n), a>>}
<1>1. PICK i \in Slot : i = Find(n) /\ Used(i) /\ Key(i) = KeyFor(n)
  BY FindsKey DEF PutAgain
<1>2. table' = [table EXCEPT ![i].address = a] /\ ret' = 0 /\ Find(n) # 0
  BY <1>1 DEF PutAgain
<1>3. TableType'
  BY <1>2 DEF TableType
<1>4. ASSUME NEW j \in Slot
      PROVE  Used(j)' = Used(j) /\ Key(j)' = Key(j) /\ Addr(j)' = IF j = i THEN a ELSE Addr(j)
  <2>1. table'[j].name = table[j].name /\ table'[j].address = IF j = i THEN a ELSE table[j].address
    BY <1>2 DEF TableType
  <2> QED
    BY <2>1 DEF Used, Key, Addr
<1>5. KeysApart'
  BY <1>4, Zenon DEF KeysApart
<1>6. InUse' = InUse
  BY <1>4, Zenon DEF InUse
<1>7. ASSUME NEW e \in Entries'
      PROVE  e \in {entry \in Entries : entry[1] # KeyFor(n)} \cup {<<KeyFor(n), a>>}
  <2>1. PICK j \in InUse : e = <<Key(j)', Addr(j)'>>
    BY <1>6, <1>7 DEF Entries
  <2>2. j \in Slot /\ Used(j)
    BY <2>1 DEF InUse
  <2>3. CASE j = i
    BY <1>1, <1>4, <2>1, <2>2, <2>3
  <2>4. CASE j # i
    <3>1. Key(j) # KeyFor(n)
      BY <1>1, <2>2, <2>4 DEF KeysApart
    <3>2. e = <<Key(j), Addr(j)>>
      BY <1>4, <2>1, <2>2, <2>4
    <3> QED
      BY <2>1, <3>1, <3>2 DEF Entries
  <2> QED
    BY <2>3, <2>4
<1>8. ASSUME NEW e \in Entries, e[1] # KeyFor(n) PROVE e \in Entries'
  <2>1. PICK j \in InUse : e = <<Key(j), Addr(j)>>
    BY <1>8 DEF Entries
  <2>2. j \in Slot /\ j # i
    BY <1>1, <1>8, <2>1 DEF InUse
  <2>3. e = <<Key(j)', Addr(j)'>>
    BY <1>4, <2>1, <2>2
  <2> QED
    BY <1>6, <2>1, <2>3 DEF Entries
<1>9. <<KeyFor(n), a>> \in Entries'
  <2>1. <<KeyFor(n), a>> = <<Key(i)', Addr(i)'>> /\ i \in InUse
    BY <1>1, <1>4 DEF InUse
  <2> QED
    BY <1>6, <2>1 DEF Entries
<1> QED
  BY <1>2, <1>3, <1>5, <1>7, <1>8, <1>9

\* symt_put of a new name, while none was or is lost.
LEMMA PutsNew ==
    ASSUME TableType, KeysApart, NEW n \in Names, NEW a \in Addresses, PutNew(n, a), ~lost'
    PROVE  /\ KeysApart' /\ Find(n) = 0
           /\ Entries' = Entries \cup {<<KeyFor(n), a>>}
           /\ table'[ret'].address = a /\ ret' # 0 /\ Free # {}
<1>1. PICK i \in Free :
         /\ ret' = i /\ Addr(i)' = a /\ Used(i)' /\ Key(i)' = KeyFor(n)
         /\ \A j \in Slot \ {i} : Used(j)' = Used(j) /\ Key(j)' = Key(j) /\ Addr(j)' = Addr(j)
  BY PutNewSlot, Zenon
<1>2. i \in Slot /\ ~Used(i) /\ 0 \notin Slot
  BY SymSizes DEF Free, Slot
<1>3. Find(n) = 0 /\ \A j \in Slot : Used(j) => Key(j) # KeyFor(n)
  BY FindsKey DEF PutNew
<1>4. KeysApart'
  <2> SUFFICES ASSUME NEW j \in Slot, NEW h \in Slot, Used(j)', Used(h)', Key(j)' = Key(h)'
               PROVE  j = h
    BY DEF KeysApart
  <2>1. CASE j = i \/ h = i
    BY <1>1, <1>3, <2>1
  <2>2. CASE j # i /\ h # i
    BY <1>1, <2>2 DEF KeysApart
  <2> QED
    BY <2>1, <2>2
<1>5. InUse' = InUse \cup {i}
  BY <1>1, <1>2 DEF InUse
<1>6. ASSUME NEW e \in Entries' PROVE e \in Entries \cup {<<KeyFor(n), a>>}
  <2>1. PICK j \in InUse \cup {i} : e = <<Key(j)', Addr(j)'>>
    BY <1>5, <1>6 DEF Entries
  <2>2. CASE j = i
    BY <1>1, <2>1, <2>2
  <2>3. CASE j # i
    <3>1. j \in InUse /\ e = <<Key(j), Addr(j)>>
      BY <1>1, <2>1, <2>3 DEF InUse
    <3> QED
      BY <3>1 DEF Entries
  <2> QED
    BY <2>2, <2>3
<1>7. ASSUME NEW e \in Entries PROVE e \in Entries'
  <2>1. PICK j \in InUse : e = <<Key(j), Addr(j)>>
    BY <1>7 DEF Entries
  <2>2. j \in Slot /\ j # i
    BY <1>2, <2>1 DEF InUse
  <2>3. e = <<Key(j)', Addr(j)'>>
    BY <1>1, <2>1, <2>2
  <2> QED
    BY <1>5, <2>1, <2>3 DEF Entries
<1>8. <<KeyFor(n), a>> \in Entries'
  <2>1. <<KeyFor(n), a>> = <<Key(i)', Addr(i)'>>
    BY <1>1
  <2> QED
    BY <1>5, <2>1 DEF Entries
<1>9. Entries' = Entries \cup {<<KeyFor(n), a>>}
  BY <1>6, <1>7, <1>8
<1>10. table'[ret'].address = a
  BY <1>1 DEF Addr
<1> QED
  BY <1>1, <1>2, <1>3, <1>4, <1>9, <1>10

LEMMA NextIInv == SymIInv /\ [SymNext]_symVars => SymIInv'
<1> SUFFICES ASSUME SymIInv, [SymNext]_symVars
             PROVE  SymIInv'
  OBVIOUS
<1>1. TableType
  BY DEF SymIInv
<1>2. CASE UNCHANGED symVars
  BY <1>2 DEF symVars, SymIInv, TableType, KeysApart, Used, Key
<1>3. CASE symt_clear
  BY <1>3, Clears
<1>4. ASSUME NEW n \in Names, symt_get(n) PROVE SymIInv'
  BY <1>4 DEF symt_get, SymIInv, TableType, KeysApart, Used, Key
<1>5. ASSUME NEW n \in Names, NEW a \in Addresses, PutAgain(n, a) PROVE SymIInv'
  <2>1. lost' = lost
    BY <1>5 DEF PutAgain
  <2>2. TableType'
    <3>1. Find(n) \in Slot /\ table' = [table EXCEPT ![Find(n)].address = a]
      BY <1>1, <1>5, FindsKey DEF PutAgain
    <3> QED
      BY <1>1, <3>1 DEF TableType
  <2>3. ~lost => KeysApart'
    BY <1>1, <1>5, PutsAgain, Zenon DEF SymIInv
  <2> QED
    BY <2>1, <2>2, <2>3, Zenon DEF SymIInv
<1>6. ASSUME NEW n \in Names, NEW a \in Addresses, PutNew(n, a) PROVE SymIInv'
  <2>1. TableType'
    BY <1>1, <1>6, PutNewSlot, Zenon
  <2>2. lost' \in BOOLEAN /\ (lost => lost')
    BY <1>6, Zenon DEF PutNew
  <2>3. ~lost' => KeysApart'
    BY <1>1, <1>6, <2>2, PutsNew, Zenon DEF SymIInv
  <2> QED
    BY <2>1, <2>2, <2>3, Zenon DEF SymIInv
<1>7. ASSUME NEW n \in Names, PutFull(n) PROVE SymIInv'
  BY <1>7 DEF PutFull, SymIInv, TableType, KeysApart, Used, Key
<1> QED
  BY <1>2, <1>3, <1>4, <1>5, <1>6, <1>7 DEF SymNext, symt_put

\* The dictionary's answer to a call.
Answer == IF ret = 0 THEN NoAddress ELSE table[ret].address
KeyOfCall == KeyFor(last.name)

\* What the calls are to the dictionary, in the words of the table.
Knows == \E entry \in Entries : entry[1] = KeyOfCall'
Cleared == last'.op = "clear" /\ Entries' = {} /\ Answer' = NoAddress
LookedUp == /\ last'.op = "get" /\ Entries' = Entries
            /\ IF Knows THEN <<KeyOfCall', Answer'>> \in Entries ELSE Answer' = NoAddress
Updated == /\ last'.op = "put" /\ Knows /\ Answer' = NoAddress
           /\ Entries' = {entry \in Entries : entry[1] # KeyOfCall'}
                          \cup {<<KeyOfCall', last'.address>>}
Inserted == /\ last'.op = "put" /\ ~Knows /\ Cardinality(Entries) < SYMTABLESIZ
            /\ Entries' = Entries \cup {<<KeyOfCall', last'.address>>}
            /\ Answer' = last'.address
Refused == /\ last'.op = "put" /\ ~Knows /\ Cardinality(Entries) = SYMTABLESIZ
           /\ Entries' = Entries /\ Answer' = NoAddress

LEMMA SameCount == Dict!Cardinality(Entries) = Cardinality(Entries)
BY Zenon DEF Cardinality, Dict!Cardinality

LEMMA ServeIs ==
    ASSUME Cleared \/ LookedUp \/ Updated \/ Inserted \/ Refused
    PROVE  Dict!Serve
<1> USE DEF Knows, Entries, Key, Addr, InUse, Answer, KeyOfCall, Dict!Known
<1>1. CASE Cleared
  BY <1>1 DEF Cleared, Dict!Serve
<1>2. CASE LookedUp
  BY <1>2 DEF LookedUp, Dict!Serve, Dict!Lookup
<1>3. CASE Updated
  BY <1>3 DEF Updated, Dict!Serve, Dict!Update
<1>4. CASE Inserted
  BY <1>4, SameCount DEF Inserted, Dict!Serve, Dict!Insert
<1>5. CASE Refused
  BY <1>5, SameCount DEF Refused, Dict!Serve, Dict!Refuse
<1> QED
  BY <1>1, <1>2, <1>3, <1>4, <1>5

LEMMA NextDict ==
    ASSUME SymIInv, [SymNext]_symVars
    PROVE  [Dict!DNext]_(Dict!dvars)
<1>1. TableType
  BY DEF SymIInv
<1>2. CASE UNCHANGED symVars
  BY <1>2 DEF symVars, Dict!dvars, Used
<1>3. CASE lost'
  BY <1>3, Zenon DEF Dict!DNext
<1>4. ASSUME symt_clear PROVE Dict!DNext
  <2>1. Cleared
    BY <1>4, Clears DEF Cleared, Answer
  <2>2. Dict!Serve
    BY <2>1, ServeIs
  <2> QED
    BY <2>1, <2>2 DEF Dict!DNext, Cleared
<1>5. ASSUME ~lost', NEW n \in Names, symt_get(n) PROVE Dict!DNext
  <2>1. /\ table' = table /\ last'.op = "get" /\ KeyOfCall' = KeyFor(n) /\ ret' = Find(n)
    BY <1>5 DEF symt_get, Called, KeyOfCall
  <2>2. ~lost
    BY <1>5, Zenon DEF symt_get
  <2>3. Entries' = Entries
    BY <2>1 DEF Entries, InUse, Used, Key, Addr
  <2>4. Knows <=> Find(n) # 0
    BY <1>1, <2>1, KnownKeys DEF Knows
  <2>5. ASSUME Knows PROVE <<KeyOfCall', Answer'>> \in Entries
    <3>1. Find(n) \in InUse /\ Key(Find(n)) = KeyFor(n)
      BY <1>1, <2>4, <2>5, FindsKey DEF InUse
    <3>2. <<Key(Find(n)), Addr(Find(n))>> \in Entries
      BY <3>1 DEF Entries
    <3>3. Answer' = Addr(Find(n))
      BY <2>1, <2>4, <2>5 DEF Answer, Addr
    <3> QED
      BY <2>1, <3>1, <3>2, <3>3
  <2>6. ~Knows => Answer' = NoAddress
    BY <2>1, <2>4 DEF Answer
  <2>7. LookedUp
    BY <2>1, <2>3, <2>5, <2>6 DEF LookedUp
  <2> QED
    BY <2>2, <2>7, ServeIs, Zenon DEF Dict!DNext
<1>6. ASSUME ~lost', NEW n \in Names, NEW a \in Addresses, symt_put(n, a) PROVE Dict!DNext
  <2>1. last'.op = "put" /\ KeyOfCall' = KeyFor(n) /\ last'.address = a
    BY <1>6 DEF symt_put, Called, KeyOfCall
  <2>2. ~lost
    BY <1>6, Zenon DEF symt_put, PutAgain, PutNew, PutFull
  <2>3. KeysApart
    BY <2>2, Zenon DEF SymIInv
  <2>4. Knows <=> Find(n) # 0
    BY <1>1, <2>1, KnownKeys DEF Knows
  <2>5. CASE PutAgain(n, a)
    <3>1. Updated
      BY <1>1, <2>1, <2>3, <2>4, <2>5, PutsAgain DEF Updated, Answer
    <3> QED
      BY <2>2, <3>1, ServeIs, Zenon DEF Dict!DNext
  <2>6. CASE PutNew(n, a)
    <3>1. /\ Find(n) = 0 /\ Free # {} /\ Entries' = Entries \cup {<<KeyFor(n), a>>}
          /\ table'[ret'].address = a /\ ret' # 0
      BY <1>1, <1>6, <2>3, <2>6, PutsNew, Zenon
    <3>2. Answer' = a
      BY <3>1 DEF Answer
    <3>3. Inserted
      BY <2>1, <2>4, <3>1, <3>2, EntryCount DEF Inserted
    <3> QED
      BY <2>2, <3>3, ServeIs, Zenon DEF Dict!DNext
  <2>7. CASE PutFull(n)
    <3>1. Find(n) = 0 /\ Free = {} /\ ret' = 0 /\ table' = table
      BY <2>7 DEF PutFull
    <3>2. Entries' = Entries /\ Answer' = NoAddress
      BY <3>1 DEF Entries, InUse, Used, Key, Addr, Answer
    <3>3. Refused
      BY <2>1, <2>3, <2>4, <3>1, <3>2, EntryCount DEF Refused
    <3> QED
      BY <2>2, <3>3, ServeIs, Zenon DEF Dict!DNext
  <2> QED
    BY <1>6, <2>5, <2>6, <2>7 DEF symt_put
<1> QED
  BY <1>2, <1>3, <1>4, <1>5, <1>6 DEF SymNext

-----------------------------------------------------------------------------
\* The theorem.

\* symt_clear, symt_get and symt_put implement the dictionary of SymDict: a name
\* put is found with the address last put for it, until the table is cleared, and
\* a full table keeps what it has, until a name gets the tail of an older one.
THEOREM IsDictionary == SymSpec => FindsWhatWasPut
<1>1. Dict!DInit /\ [][Dict!DNext]_(Dict!dvars) => Dict!Dictionary
  BY DEF Dict!Dictionary
<1> QED
  BY <1>1, InitIInv, InitDict, NextIInv, NextDict, PTL DEF SymSpec, FindsWhatWasPut

-----------------------------------------------------------------------------
\* The firmware.  What is printed is a queue of characters, each with the function
\* that puts it next.

\* The provers do not know that "old" is in STRING.
Glyph == STRING \cup {"old"}
By == {"putcon", "uart", "console"}
Jobs == [char : Glyph, by : By]
Pending == IF todo # <<>> /\ Head(todo).by = "console" THEN Tail(todo) ELSE todo

TextType ==
    /\ tx \in Seq(Glyph) /\ wire \in Seq(Glyph) /\ said \in Seq(Glyph) /\ text \in Seq(Glyph)
    /\ todo \in Seq(Jobs)

\* Only the first character is ever half put, and main and xprintf put each to the
\* line and to the screen.
Queue ==
    /\ \A j \in DOMAIN todo : j # 1 => todo[j].by # "console"
    /\ \A j \in DOMAIN todo : program = "none" => todo[j].by # "uart"

\* The steps of main, and what has been done by then.
BeforeClear == {"uart_init", "vga_stop", "vga_set", "vga_clear", "console_clear"}
BeforePrint == BeforeClear \cup {"xdev_out", "symt_init", "symt_clear", "symt_put"}
Steps == BeforePrint \cup {"print", "monitor"}

Progress ==
    /\ pc \in Steps /\ k \in Nat \ {0}
    /\ pc \in BeforePrint => todo = <<>>
    /\ pc # "monitor" => program = "none"
    /\ pc \in BeforePrint \ {"symt_put"} => k = 1
    /\ pc \notin BeforeClear \cup {"xdev_out"} => xfunc_out = "putcon"
    /\ pc \in {"symt_clear", "symt_put", "print", "monitor"} => SYMTABLETOP = TableAddress
    /\ pc = "symt_put" => k \in DOMAIN Exports
    /\ pc = "print" => k \in DOMAIN Lines

\* The screen shows what main printed, but for what is on its way there.
OnScreen ==
    program = "none" =>
        /\ pc \in BeforeClear => said \in {<<>>, <<"old">>}
        /\ pc \notin BeforeClear => \/ said = text \o Chars(todo)
                                    \/ said = <<"old">> \o (text \o Chars(todo))
        /\ pc = "monitor" \/ (pc = "print" /\ k # 1) => text \o Chars(todo) # <<>>

\* The first n of main's names are in the first n slots, and nothing is in the others.
Filled(n) ==
    /\ \A j \in Slot : j <= n => Used(j) /\ Key(j) = KeyFor(Exports[j]) /\ Addr(j) = AddressOf[j]
    /\ \A j \in Slot : j > n => table[j].name = [p \in Pos |-> NUL]

TableFilled ==
    /\ SymIInv
    /\ pc \in BeforePrint \ {"symt_put"} => Filled(0) /\ ~lost
    /\ pc = "symt_put" => Filled(k - 1) /\ ~lost
    /\ pc \in {"print", "monitor"} /\ program # "linker" => Filled(Len(Exports)) /\ ~lost

\* The picture.
PictureCleared ==
    /\ DOMAIN frame = Word
    /\ pc \notin {"uart_init", "vga_stop", "vga_set", "vga_clear"} => \A w \in Word : frame[w] = 0

IInv == TextType /\ Queue /\ Progress /\ OnTheWire /\ OnScreen /\ TableFilled /\ PictureCleared

-----------------------------------------------------------------------------
\* Queues of characters.

\* The first of a queue goes behind the one before it: together they are as they were.
LEMMA HeadMoves ==
    ASSUME NEW S, NEW a \in Seq(S), NEW b \in Seq(S), b # <<>>
    PROVE  /\ Append(a, Head(b)) \in Seq(S) /\ Tail(b) \in Seq(S)
           /\ Append(a, Head(b)) \o Tail(b) = a \o b
<1>1. /\ Head(b) \in S /\ Tail(b) \in Seq(S) /\ Append(a, Head(b)) \in Seq(S)
      /\ <<Head(b)>> \in Seq(S)
  BY HeadTailProperties, AppendProperties
<1>2. Append(a, Head(b)) = a \o <<Head(b)>>
  BY <1>1, AppendIsConcat
<1>3. <<Head(b)>> \o Tail(b) = b
  BY <1>1
<1>4. (a \o <<Head(b)>>) \o Tail(b) = a \o (<<Head(b)>> \o Tail(b))
  BY <1>1, ConcatAssociative
<1> QED
  BY <1>1, <1>2, <1>3, <1>4

LEMMA Associates ==
    \A a, b, c \in Seq(Glyph) : (a \o b) \o c = a \o (b \o c)
BY ConcatAssociative

\* The characters of a queue.
LEMMA CharsOf ==
    ASSUME NEW q \in Seq(Jobs)
    PROVE  /\ Chars(q) \in Seq(Glyph) /\ Len(Chars(q)) = Len(q) /\ DOMAIN Chars(q) = DOMAIN q
           /\ q = <<>> <=> Chars(q) = <<>>
           /\ q # <<>> => /\ Tail(q) \in Seq(Jobs) /\ Head(q) \in Jobs
                          /\ Head(Chars(q)) = Head(q).char
                          /\ Tail(Chars(q)) = Chars(Tail(q))
<1>1. Len(q) \in Nat /\ DOMAIN q = 1..Len(q) /\ \A j \in 1..Len(q) : q[j] \in Jobs
  BY LenProperties, ElementOfSeq
<1>2. ASSUME NEW j \in 1..Len(q) PROVE q[j].char \in Glyph
  BY <1>1 DEF Jobs
<1>3. Chars(q) = [j \in 1..Len(q) |-> q[j].char]
  BY <1>1 DEF Chars
<1>4. Chars(q) \in Seq(Glyph) /\ Len(Chars(q)) = Len(q)
  BY <1>1, <1>2, <1>3
<1>5. q = <<>> <=> Chars(q) = <<>>
  BY <1>4, EmptySeq
<1>6. ASSUME q # <<>>
      PROVE  /\ Tail(q) \in Seq(Jobs) /\ Head(q) \in Jobs
             /\ Head(Chars(q)) = Head(q).char
             /\ Tail(Chars(q)) = Chars(Tail(q))
  <2>1. Tail(q) \in Seq(Jobs) /\ Head(q) \in Jobs /\ Len(q) > 0
    BY <1>6, HeadTailProperties
  <2>2. Head(Chars(q)) = Head(q).char
    BY <1>3, <1>4, <2>1
  <2>3. /\ Len(Tail(q)) = Len(q) - 1 /\ DOMAIN Tail(q) = 1..(Len(q) - 1)
        /\ \A j \in 1..(Len(q) - 1) : Tail(q)[j] = q[j + 1]
    BY <2>1, <1>1
  <2>4. Chars(Tail(q)) = [j \in 1..(Len(q) - 1) |-> q[j + 1].char]
    BY <2>3 DEF Chars
  <2>5. Tail(Chars(q)) = [j \in 1..(Len(q) - 1) |-> q[j + 1].char]
    BY <1>1, <1>3, <1>4, <2>1
  <2> QED
    BY <2>1, <2>2, <2>4, <2>5
<1> QED
  BY <1>1, <1>3, <1>4, <1>5, <1>6

\* A first character half put is still the first.
LEMMA HalfPut ==
    ASSUME NEW q \in Seq(Jobs), q # <<>>, NEW r, r = [q EXCEPT ![1].by = "console"]
    PROVE  /\ r \in Seq(Jobs) /\ r # <<>> /\ DOMAIN r = DOMAIN q
           /\ Chars(r) = Chars(q) /\ Tail(r) = Tail(q)
           /\ Head(r).by = "console" /\ Head(r).char = Head(q).char
           /\ \A j \in DOMAIN q : j # 1 => r[j] = q[j]
           /\ r[1].by = "console"
<1>1. /\ Len(q) \in Nat /\ DOMAIN q = 1..Len(q) /\ Len(q) > 0
      /\ \A j \in 1..Len(q) : q[j] \in Jobs
  BY LenProperties, ElementOfSeq, EmptySeq
<1>2. 1 \in DOMAIN q /\ q[1] \in Jobs
  BY <1>1
<1>3. [q[1] EXCEPT !.by = "console"] = [char |-> q[1].char, by |-> "console"]
      /\ [char |-> q[1].char, by |-> "console"] \in Jobs
  BY <1>2 DEF Jobs, By
<1>4. r = [q EXCEPT ![1] = [char |-> q[1].char, by |-> "console"]]
  BY <1>2, <1>3
<1> DEFINE e == [char |-> q[1].char, by |-> "console"]
<1>5. /\ r \in Seq(Jobs) /\ Len(r) = Len(q) /\ DOMAIN r = 1..Len(q)
      /\ r[1] = e /\ \A j \in 2..Len(q) : r[j] = q[j]
  <2> HIDE DEF e
  <2>1. e \in Jobs /\ r = [q EXCEPT ![1] = e]
    BY <1>3, <1>4 DEF e
  <2>2. r \in Seq(Jobs) /\ Len(r) = Len(q)
    BY <2>1, <1>1, ExceptSeq
  <2> QED
    BY <2>1, <2>2, <1>1
<1>6. r # <<>>
  BY <1>1, <1>5
<1>7. Head(r) = e /\ Head(q) = q[1]
  BY <1>5, <1>6, <1>1
<1>8. Chars(r) = Chars(q)
  BY <1>1, <1>5 DEF Chars
<1>9. Tail(r) = Tail(q)
  <2>1. Tail(q) \in Seq(Jobs) /\ Tail(r) \in Seq(Jobs) /\ Len(Tail(q)) = Len(q) - 1
        /\ Len(Tail(r)) = Len(q) - 1
    BY <1>1, <1>5, <1>6
  <2>2. \A j \in 1..(Len(q) - 1) : Tail(r)[j] = Tail(q)[j]
    BY <1>1, <1>5, <1>6
  <2> QED
    BY <2>1, <2>2, SeqEqual
<1> QED
  BY <1>1, <1>5, <1>6, <1>7, <1>8, <1>9

\* What Job makes of a text.
LEMMA JobOf ==
    ASSUME NEW c \in Seq(Glyph), NEW by \in By, Job(c, by)
    PROVE  /\ todo' \in Seq(Jobs) /\ Chars(todo') = c /\ DOMAIN todo' = DOMAIN c
           /\ \A j \in DOMAIN todo' : todo'[j].by = by
<1>1. Len(c) \in Nat /\ DOMAIN c = 1..Len(c) /\ \A j \in 1..Len(c) : c[j] \in Glyph
  BY LenProperties, ElementOfSeq
<1>2. todo' = [j \in 1..Len(c) |-> [char |-> c[j], by |-> by]]
  BY <1>1 DEF Job
<1>3. ASSUME NEW j \in 1..Len(c)
      PROVE  [char |-> c[j], by |-> by] \in Jobs
  BY <1>1 DEF Jobs
<1>4. todo' \in Seq(Jobs)
  BY <1>1, <1>2, <1>3
<1>5. Chars(todo') = [j \in 1..Len(c) |-> c[j]]
  BY <1>2 DEF Chars
<1>6. [j \in 1..Len(c) |-> c[j]] = c
  BY <1>1
<1> QED
  BY <1>1, <1>2, <1>4, <1>5, <1>6

-----------------------------------------------------------------------------
\* The invariant holds at first.

LEMMA InitTable == SymInit => Filled(0)
<1> SUFFICES ASSUME SymInit
             PROVE  Filled(0)
  OBVIOUS
<1>1. ASSUME NEW j \in Slot PROVE ~(j <= 0) /\ table[j].name = [p \in Pos |-> NUL]
  BY DEF SymInit, Slot
<1> QED
  BY <1>1 DEF Filled

LEMMA FirmwareInit == Init => IInv
<1> SUFFICES ASSUME Init
             PROVE  IInv
  OBVIOUS
<1>1. /\ pc = "uart_init" /\ k = 1 /\ todo = <<>> /\ wire = <<>> /\ said = tx
      /\ tx \in {<<>>, <<"old">>} /\ text = <<"old">> /\ program = "none"
      /\ frame = [w \in Word |-> 1] /\ SymInit
  BY DEF Init
<1>2. TextType
  <2>1. <<>> \in Seq(Glyph) /\ <<>> \in Seq(Jobs)
    BY EmptySeq
  <2>2. <<"old">> \in Seq(Glyph)
    BY DEF Glyph
  <2> QED
    BY <1>1, <2>1, <2>2 DEF TextType
<1>3. Queue
  BY <1>1 DEF Queue
<1>4. Progress
  BY <1>1 DEF Progress, Steps, BeforePrint, BeforeClear
<1>5. OnTheWire
  <2>1. Chars(<<>>) = <<>>
    BY CharsOf, EmptySeq
  <2>2. wire \o tx = tx /\ tx \o <<>> = tx
    BY <1>1, <1>2, ConcatEmptySeq DEF TextType
  <2> QED
    BY <1>1, <2>1, <2>2 DEF OnTheWire
<1>6. OnScreen
  BY <1>1 DEF OnScreen, BeforeClear
<1>7. TableFilled
  <2>1. ~lost
    BY <1>1, Zenon DEF SymInit
  <2>2. pc \notin {"symt_put", "print", "monitor"}
    BY <1>1
  <2> QED
    BY <1>1, <2>1, <2>2, InitIInv, InitTable, Zenon DEF TableFilled
<1>8. PictureCleared
  BY <1>1 DEF PictureCleared
<1> QED
  BY <1>2, <1>3, <1>4, <1>5, <1>6, <1>7, <1>8 DEF IInv

-----------------------------------------------------------------------------
\* What a step leaves alone.

\* A step that puts nothing out, with the text as it was, or cleared by main.
LEMMA SameOutput ==
    ASSUME TextType, Queue, OnTheWire, UNCHANGED <<tx, wire, todo, said>>,
           program' = program, text' \in {text, <<>>}
    PROVE  TextType' /\ Queue' /\ OnTheWire' /\ Chars(todo)' = Chars(todo)
<1>1. TextType'
  BY EmptySeq DEF TextType
<1>2. Queue'
  BY DEF Queue
<1>3. OnTheWire'
  BY DEF OnTheWire
<1>4. Chars(todo)' = Chars(todo)
  BY DEF Chars
<1> QED
  BY <1>1, <1>2, <1>3, <1>4

LEMMA SameTable ==
    ASSUME UNCHANGED symVars, NEW n
    PROVE  Filled(n)' <=> Filled(n)
<1>1. table' = table
  BY DEF symVars
<1> QED
  BY <1>1 DEF Filled, Used, Key, Addr

\* Where main stands is as before, or does not matter before it fills the table.
LEMMA TableStays ==
    ASSUME TableFilled, UNCHANGED symVars,
           \/ UNCHANGED <<pc, k, program>>
           \/ /\ pc \in BeforePrint \ {"symt_put"}
              /\ pc' \in BeforePrint \ {"symt_put"}
    PROVE  TableFilled'
<1>1. SymIInv' /\ (lost' <=> lost)
  BY NextIInv DEF TableFilled, symVars
<1>2. CASE UNCHANGED <<pc, k, program>>
  <2>1. ASSUME pc \in BeforePrint \ {"symt_put"} PROVE Filled(0)' /\ ~lost
    BY <2>1, SameTable, Zenon DEF TableFilled
  <2>2. ASSUME pc = "symt_put" PROVE Filled(k - 1)' /\ ~lost
    BY <2>2, SameTable, Zenon DEF TableFilled
  <2>3. ASSUME pc \in {"print", "monitor"}, program # "linker" PROVE Filled(Len(Exports))' /\ ~lost
    BY <2>3, SameTable, Zenon DEF TableFilled
  <2> QED
    BY <1>1, <1>2, <2>1, <2>2, <2>3, Zenon DEF TableFilled, Filled, Used, Key, Addr
<1>3. CASE pc \in BeforePrint \ {"symt_put"} /\ pc' \in BeforePrint \ {"symt_put"}
  <2>1. Filled(0)' /\ ~lost
    BY <1>3, SameTable, Zenon DEF TableFilled
  <2>2. pc' \notin {"symt_put", "print", "monitor"}
    BY <1>3 DEF BeforePrint, BeforeClear
  <2> QED
    BY <1>1, <2>1, <2>2, Zenon DEF TableFilled
<1> QED
  BY <1>2, <1>3

-----------------------------------------------------------------------------
\* The hardware.

LEMMA SendKeeps == ASSUME IInv, Send PROVE IInv'
<1> USE DEF IInv
<1>1. /\ tx # <<>> /\ wire' = Append(wire, Head(tx)) /\ tx' = Tail(tx)
      /\ UNCHANGED <<pc, k, frame, text, todo, said, xfunc_out, symVars, SYMTABLETOP, program>>
  BY DEF Send, screenVars, tableVars
<1>2. wire' \in Seq(Glyph) /\ tx' \in Seq(Glyph) /\ wire' \o tx' = wire \o tx
  BY <1>1, HeadMoves DEF TextType
<1>3. TextType'
  BY <1>1, <1>2 DEF TextType
<1>4. OnTheWire'
  BY <1>1, <1>2 DEF OnTheWire
<1>5. Queue' /\ Progress'
  BY <1>1 DEF Queue, Progress
<1>6. OnScreen'
  <2>1. Chars(todo)' = Chars(todo)
    BY <1>1 DEF Chars
  <2> QED
    BY <1>1, <2>1 DEF OnScreen
<1>7. TableFilled'
  BY <1>1, TableStays
<1>8. PictureCleared'
  BY <1>1 DEF PictureCleared, Word
<1> QED
  BY <1>3, <1>4, <1>5, <1>6, <1>7, <1>8

LEMMA FrameEndsKeeps == ASSUME IInv, FrameEnds PROVE IInv'
<1> USE DEF IInv
<1>1. UNCHANGED <<pc, k, frame, tx, wire, text, todo, said, xfunc_out, symVars, SYMTABLETOP, program>>
  BY DEF FrameEnds, outVars, tableVars
<1>2. TextType' /\ Queue' /\ OnTheWire' /\ Chars(todo)' = Chars(todo)
  BY <1>1, SameOutput
<1>3. Progress'
  BY <1>1 DEF Progress
<1>4. OnScreen'
  BY <1>1, <1>2 DEF OnScreen
<1>5. TableFilled'
  BY <1>1, TableStays
<1>6. PictureCleared'
  BY <1>1 DEF PictureCleared, Word
<1> QED
  BY <1>2, <1>3, <1>4, <1>5, <1>6

-----------------------------------------------------------------------------
\* The steps of main before it prints.

\* What every one of them leaves alone but the table: pc goes on, to before the output.
LEMMA EarlyStep ==
    ASSUME IInv, pc \in BeforePrint, UNCHANGED <<tx, wire, todo, said, program, k>>,
           text' \in {text, <<>>}
    PROVE  TextType' /\ Queue' /\ OnTheWire' /\ Chars(todo)' = <<>> /\ todo' = <<>>
<1> USE DEF IInv
<1>1. TextType' /\ Queue' /\ OnTheWire' /\ Chars(todo)' = Chars(todo)
  BY SameOutput
<1>2. todo = <<>> /\ Chars(<<>>) = <<>>
  BY CharsOf, EmptySeq DEF Progress
<1> QED
  BY <1>1, <1>2

\* The steps that set up the UART and the display up to vga_clear.
LEMMA DisplaySteps ==
    ASSUME IInv, UartInit \/ vga_stop \/ VgaSet
    PROVE  IInv'
<1> USE DEF IInv
<1>1. /\ UNCHANGED <<k, frame, tx, wire, text, todo, said, xfunc_out, symVars, SYMTABLETOP, program>>
      /\ pc \in {"uart_init", "vga_stop", "vga_set"}
      /\ pc' \in {"vga_stop", "vga_set", "vga_clear"}
  BY DEF UartInit, vga_stop, VgaSet, Goto, outVars, tableVars
<1>2. TextType' /\ Queue' /\ OnTheWire'
  BY <1>1, EarlyStep DEF BeforePrint, BeforeClear
<1>3. Progress'
  BY <1>1 DEF Progress, Steps, BeforePrint, BeforeClear
<1>4. OnScreen'
  BY <1>1 DEF OnScreen, BeforeClear
<1>5. TableFilled'
  BY <1>1, TableStays DEF BeforePrint, BeforeClear
<1>6. PictureCleared'
  BY <1>1 DEF PictureCleared, Word
<1> QED
  BY <1>2, <1>3, <1>4, <1>5, <1>6

LEMMA vga_clearKeeps == ASSUME IInv, vga_clear PROVE IInv'
<1> USE DEF IInv
<1>1. /\ UNCHANGED <<k, tx, wire, text, todo, said, xfunc_out, symVars, SYMTABLETOP, program>>
      /\ pc = "vga_clear" /\ pc' = "console_clear"
      /\ frame' = [w \in Word |-> IF w < RES_Y * (RES_X \div 2) THEN 0 ELSE frame[w]]
  BY DEF vga_clear, Goto, outVars, tableVars
<1>2. TextType' /\ Queue' /\ OnTheWire'
  BY <1>1, EarlyStep DEF BeforePrint, BeforeClear
<1>3. Progress'
  BY <1>1 DEF Progress, Steps, BeforePrint, BeforeClear
<1>4. OnScreen'
  BY <1>1 DEF OnScreen, BeforeClear
<1>5. TableFilled'
  BY <1>1, TableStays DEF BeforePrint, BeforeClear
<1>6. ASSUME NEW w \in Word PROVE w < RES_Y * (RES_X \div 2)
  <2>1. PICK h \in Nat : RES_X = 2 * h
    BY DisplaySizes
  <2>2. RES_X \div 2 = h
    BY <2>1
  <2>3. PICK m \in Nat : m = RES_Y * h
    BY <2>1, DisplaySizes
  <2>4. RES_X * RES_Y = 2 * m
    BY <2>1, <2>3, DisplaySizes
  <2>5. (2 * m) \div 2 = m
    BY <2>3
  <2>6. w \in 0..(m - 1)
    BY <2>4, <2>5 DEF Word
  <2> QED
    BY <2>2, <2>3, <2>6
<1>7. PictureCleared'
  BY <1>1, <1>6 DEF PictureCleared, Word
<1> QED
  BY <1>2, <1>3, <1>4, <1>5, <1>7

LEMMA ConsoleClearKeeps == ASSUME IInv, ConsoleClear PROVE IInv'
<1> USE DEF IInv
<1>1. /\ UNCHANGED <<k, frame, tx, wire, todo, said, xfunc_out, symVars, SYMTABLETOP, program>>
      /\ pc = "console_clear" /\ pc' = "xdev_out" /\ text' = <<>>
  BY DEF ConsoleClear, Goto, screenVars, tableVars
<1>2. TextType' /\ Queue' /\ OnTheWire' /\ Chars(todo)' = <<>>
  BY <1>1, EarlyStep DEF BeforePrint, BeforeClear
<1>3. Progress'
  BY <1>1 DEF Progress, Steps, BeforePrint, BeforeClear
<1>4. OnScreen'
  <2>1. said' \in {<<>>, <<"old">>}
    BY <1>1 DEF OnScreen, BeforeClear, Progress
  <2>2. text' \o Chars(todo)' = <<>>
    BY <1>1, <1>2, ConcatEmptySeq, EmptySeq
  <2>3. <<"old">> \o <<>> = <<"old">>
    BY ConcatEmptySeq
  <2> QED
    BY <1>1, <2>1, <2>2, <2>3 DEF OnScreen, BeforeClear
<1>5. TableFilled'
  BY <1>1, TableStays DEF BeforePrint, BeforeClear
<1>6. PictureCleared'
  BY <1>1 DEF PictureCleared, Word
<1> QED
  BY <1>2, <1>3, <1>4, <1>5, <1>6

LEMMA DeviceSteps ==
    ASSUME IInv, xdev_out \/ symt_init
    PROVE  IInv'
<1> USE DEF IInv
<1>1. /\ UNCHANGED <<k, frame, tx, wire, text, todo, said, symVars, program>>
      /\ \/ pc = "xdev_out" /\ pc' = "symt_init" /\ xfunc_out' = "putcon"
         \/ pc = "symt_init" /\ pc' = "symt_clear" /\ SYMTABLETOP' = TableAddress
            /\ xfunc_out' = xfunc_out
  BY DEF xdev_out, symt_init, Goto, screenVars, outVars, tableVars
<1>2. TextType' /\ Queue' /\ OnTheWire' /\ Chars(todo)' = <<>> /\ todo' = <<>>
  BY <1>1, EarlyStep DEF BeforePrint
<1>3. Progress'
  BY <1>1, <1>2 DEF Progress, Steps, BeforePrint, BeforeClear
<1>4. OnScreen'
  BY <1>1, <1>2 DEF OnScreen, BeforeClear
<1>5. TableFilled'
  BY <1>1, TableStays DEF BeforePrint, BeforeClear
<1>6. PictureCleared'
  BY <1>1 DEF PictureCleared, Word
<1> QED
  BY <1>2, <1>3, <1>4, <1>5, <1>6

LEMMA MainClearsKeeps == ASSUME IInv, MainClears PROVE IInv'
<1> USE DEF IInv
<1>1. /\ UNCHANGED <<k, frame, tx, wire, text, todo, said, xfunc_out, SYMTABLETOP, program>>
      /\ pc = "symt_clear" /\ pc' = "symt_put" /\ symt_clear
  BY DEF MainClears, Goto, screenVars, outVars
<1>2. TextType' /\ Queue' /\ OnTheWire' /\ Chars(todo)' = <<>> /\ todo' = <<>>
  BY <1>1, EarlyStep DEF BeforePrint
<1>3. k = 1
  BY <1>1 DEF Progress, BeforePrint
<1>4. Progress'
  <2>1. 1 \in DOMAIN Exports
    BY ExportsAreNames, ExportsFit
  <2> QED
    BY <1>1, <1>2, <1>3, <2>1 DEF Progress, Steps, BeforePrint, BeforeClear
<1>5. OnScreen'
  BY <1>1, <1>2 DEF OnScreen, BeforeClear
<1>6. TableFilled'
  <2>1. SymIInv /\ Filled(0)
    BY <1>1 DEF TableFilled, BeforePrint
  <2>2. SymIInv' /\ ~lost'
    <3>1. SymIInv'
      BY <1>1, <2>1, Clears
    <3>2. ~lost'
      BY <1>1, Zenon DEF symt_clear
    <3> QED
      BY <3>1, <3>2
  <2>3. ASSUME NEW j \in Slot PROVE table'[j].name = [p \in Pos |-> NUL] /\ ~(j <= 0)
    <3> DEFINE none == [p \in Pos |-> NUL]
    <3>1. j > 0 /\ ~(j <= 0) /\ 1 \in Pos
      BY SymSizes DEF Slot, Pos
    <3>2. table[j].name = [p \in Pos |-> NUL] /\ table[j] \in [name : NameField, address : Addresses]
      BY <2>1, <3>1 DEF Filled, SymIInv, TableType
    <3>3. table'[j] = [table[j] EXCEPT !.name[1] = NUL]
      BY <1>1 DEF symt_clear
    <3>4. table'[j].name = [table[j].name EXCEPT ![1] = NUL]
      BY <3>2, <3>3
    <3>5. [none EXCEPT ![1] = NUL] = none
      BY <3>1
    <3>6. table[j].name = none
      BY <3>2
    <3> HIDE DEF none
    <3>7. table'[j].name = none
      BY <3>4, <3>5, <3>6
    <3> QED
      BY <3>1, <3>7 DEF none
  <2>4. Filled(0)'
    BY <2>3 DEF Filled
  <2>5. k' - 1 = 0
    BY <1>1, <1>3
  <2>6. pc' \notin BeforePrint \ {"symt_put"} /\ pc' \notin {"print", "monitor"}
    BY <1>1
  <2> QED
    BY <2>2, <2>4, <2>5, <2>6, Zenon DEF TableFilled
<1>7. PictureCleared'
  BY <1>1 DEF PictureCleared, Word
<1> QED
  BY <1>2, <1>4, <1>5, <1>6, <1>7

\* The next of main's names goes to the next slot, whole.
LEMMA PutsNext ==
    ASSUME SymIInv, ~lost, NEW h \in DOMAIN Exports, Filled(h - 1),
           symt_put(Exports[h], AddressOf[h])
    PROVE  SymIInv' /\ ~lost' /\ Filled(h)'
<1> DEFINE n == Exports[h]
           a == AddressOf[h]
<1>1. n \in Names /\ a \in Addresses /\ h \in Nat /\ h \in Slot
  BY ExportsAreNames, ExportsFit, SymSizes DEF Slot
<1>2. TableType
  BY DEF SymIInv
<1>3. 1 \in Pos /\ 0 \notin Slot
  BY SymSizes DEF Pos, Slot
<1>4. ASSUME NEW j \in Slot PROVE (j <= h - 1 \/ j > h - 1) /\ (Used(j) <=> j <= h - 1)
  <2>1. j \in Nat /\ (j <= h - 1 \/ j > h - 1) /\ ~(j <= h - 1 /\ j > h - 1)
    BY <1>1 DEF Slot
  <2>2. ASSUME j > h - 1 PROVE ~Used(j)
    BY <1>3, <2>2 DEF Filled, Used
  <2> QED
    BY <2>1, <2>2 DEF Filled
<1>5. ASSUME NEW j \in Slot, Used(j) PROVE Key(j) # KeyFor(n)
  <2>1. j <= h - 1 /\ j \in DOMAIN Exports /\ j # h
    BY <1>1, <1>4, <1>5, ExportsAreNames DEF Slot
  <2>2. Key(j) = KeyFor(Exports[j])
    BY <2>1 DEF Filled
  <2> QED
    BY <2>1, <2>2, ExportsFit
<1>6. Find(n) = 0
  BY <1>1, <1>2, <1>5, FindsKey
<1>7. h \in Free /\ \A j \in Free : h <= j
  <2>1. ~(h <= h - 1)
    BY <1>1
  <2>2. \A j \in Free : j > h - 1 /\ j \in Nat
    BY <1>4 DEF Free, Slot
  <2> QED
    BY <1>1, <1>4, <2>1, <2>2 DEF Free
<1>8. FirstOf(Free) = h
  <2>1. Free # {} /\ Free \subseteq Nat
    BY <1>7 DEF Free, Slot
  <2>2. FirstOf(Free) \in Free /\ \A j \in Free : FirstOf(Free) <= j
    BY <1>7, <2>1 DEF FirstOf
  <2> QED
    BY <1>7, <2>1, <2>2
<1>9. PICK name : name = Written(table[h].name, n)
  OBVIOUS
<1>10. PutNew(n, a)
  BY <1>6, <1>7, Zenon DEF symt_put, PutAgain, PutFull
<1>11. /\ table' = [table EXCEPT ![h] = [name |-> name, address |-> a]]
       /\ lost' <=> ~SameName(name, n)
  BY <1>8, <1>9, <1>10 DEF PutNew
<1>12. table[h].name = [p \in Pos |-> NUL] /\ table[h].name \in NameField
  <2>1. h > h - 1
    BY <1>1
  <2> QED
    BY <1>1, <1>2, <2>1 DEF Filled, TableType
<1>13. name = [p \in Pos |-> CharOf(n, p)]
  BY <1>9, <1>12 DEF Written, CharOf
<1>14. SameName(name, n)
  BY <1>13 DEF SameName
<1>15. name \in NameField /\ name[1] # NUL /\ KeyOf(name) = KeyFor(n)
  BY <1>1, <1>9, <1>12, <1>14, KeyOfFirst, SameKey
<1>16. table'[h] = [name |-> name, address |-> a] /\ \A j \in Slot : j # h => table'[j] = table[j]
  BY <1>1, <1>2, <1>11 DEF TableType
<1>17. SymIInv'
  <2>1. SymNext
    BY <1>1 DEF SymNext
  <2> QED
    BY <2>1, NextIInv
<1>18. ASSUME NEW j \in Slot, j <= h
       PROVE  Used(j)' /\ Key(j)' = KeyFor(Exports[j]) /\ Addr(j)' = AddressOf[j]
  <2>1. CASE j = h
    BY <1>15, <1>16, <2>1 DEF Used, Key, Addr
  <2>2. CASE j # h
    <3>1. j <= h - 1
      BY <1>1, <1>18, <2>2 DEF Slot
    <3> QED
      BY <1>16, <2>2, <3>1 DEF Filled, Used, Key, Addr
  <2> QED
    BY <2>1, <2>2
<1>19. ASSUME NEW j \in Slot, j > h PROVE table'[j].name = [p \in Pos |-> NUL]
  <2>1. j > h - 1 /\ j # h
    BY <1>1, <1>19 DEF Slot
  <2> QED
    BY <1>16, <2>1 DEF Filled
<1>20. Filled(h)'
  BY <1>18, <1>19, Zenon DEF Filled
<1> QED
  BY <1>11, <1>14, <1>17, <1>20

LEMMA MainPutsKeeps == ASSUME IInv, MainPuts PROVE IInv'
<1> USE DEF IInv
<1>1. /\ UNCHANGED <<frame, tx, wire, text, todo, said, xfunc_out, SYMTABLETOP, program>>
      /\ pc = "symt_put" /\ symt_put(Exports[k], AddressOf[k])
      /\ \/ k < Len(Exports) /\ k' = k + 1 /\ pc' = "symt_put"
         \/ ~(k < Len(Exports)) /\ k' = 1 /\ pc' = "print"
  BY DEF MainPuts, screenVars, outVars
<1>2. TextType' /\ Queue' /\ OnTheWire' /\ Chars(todo)' = Chars(todo)
  BY <1>1, SameOutput
<1>3. todo = <<>> /\ todo' = <<>>
  BY <1>1 DEF Progress, BeforePrint
<1>4. k \in DOMAIN Exports /\ k \in Nat /\ Len(Exports) \in Nat /\ DOMAIN Exports = 1..Len(Exports)
  BY <1>1, ExportsAreNames DEF Progress
<1>5. Progress'
  <2>1. 1 \in DOMAIN Lines
    BY OutputIsText
  <2>2. CASE k < Len(Exports) /\ k' = k + 1 /\ pc' = "symt_put"
    BY <1>1, <1>3, <1>4, <2>2 DEF Progress, Steps, BeforePrint, BeforeClear
  <2>3. CASE k' = 1 /\ pc' = "print"
    BY <1>1, <1>3, <2>1, <2>3 DEF Progress, Steps, BeforePrint, BeforeClear
  <2> QED
    BY <1>1, <2>2, <2>3
<1>6. OnScreen'
  BY <1>1, <1>2 DEF OnScreen, BeforeClear
<1>7. TableFilled'
  <2>1. SymIInv /\ ~lost /\ Filled(k - 1)
    BY <1>1, Zenon DEF TableFilled
  <2>2. PICK h : h = k
    OBVIOUS
  <2>3. SymIInv' /\ ~lost' /\ Filled(h)'
    BY <1>1, <1>4, <2>1, <2>2, PutsNext
  <2>4. CASE k' = k + 1 /\ pc' = "symt_put"
    <3>1. k' - 1 = h /\ pc' \notin BeforePrint \ {"symt_put"} /\ pc' \notin {"print", "monitor"}
      BY <1>4, <2>2, <2>4
    <3> QED
      BY <2>3, <3>1, Zenon DEF TableFilled
  <2>5. CASE ~(k < Len(Exports)) /\ k' = 1 /\ pc' = "print"
    <3>1. h = Len(Exports) /\ pc' \notin BeforePrint
      BY <1>4, <2>2, <2>5 DEF BeforePrint, BeforeClear
    <3> QED
      BY <2>3, <2>5, <3>1, Zenon DEF TableFilled
  <2> QED
    BY <1>1, <2>4, <2>5
<1>8. PictureCleared'
  BY <1>1 DEF PictureCleared, Word
<1> QED
  BY <1>2, <1>5, <1>6, <1>7, <1>8

-----------------------------------------------------------------------------
\* The output.

\* Behind the first of the queue nothing is half put.
LEMMA BehindFirst ==
    ASSUME todo \in Seq(Jobs), todo # <<>>, Queue
    PROVE  /\ \A j \in DOMAIN Tail(todo) : /\ Tail(todo)[j].by # "console"
                                           /\ program = "none" => Tail(todo)[j].by # "uart"
           /\ Tail(todo) # <<>> => Head(Tail(todo)).by # "console"
<1>1. /\ DOMAIN todo = 1..Len(todo) /\ Len(todo) \in Nat /\ Len(todo) > 0
      /\ Tail(todo) \in Seq(Jobs) /\ DOMAIN Tail(todo) = 1..(Len(todo) - 1)
      /\ \A j \in 1..(Len(todo) - 1) : Tail(todo)[j] = todo[j + 1]
  BY LenProperties, EmptySeq
<1>2. ASSUME NEW j \in DOMAIN Tail(todo)
      PROVE  Tail(todo)[j].by # "console" /\ (program = "none" => Tail(todo)[j].by # "uart")
  <2>1. j + 1 \in DOMAIN todo /\ j + 1 # 1 /\ Tail(todo)[j] = todo[j + 1]
    BY <1>1
  <2> QED
    BY <2>1, Zenon DEF Queue
<1>3. ASSUME Tail(todo) # <<>> PROVE Head(Tail(todo)).by # "console"
  <2>1. Len(Tail(todo)) # 0 /\ Len(Tail(todo)) = Len(todo) - 1
    BY <1>1, <1>3, EmptySeq
  <2>2. 1 \in DOMAIN Tail(todo) /\ Head(Tail(todo)) = Tail(todo)[1]
    BY <1>1, <2>1
  <2> QED
    BY <1>2, <2>2
<1> QED
  BY <1>2, <1>3

\* What is on the line once the first of the queue is put there.
LEMMA FirstSent ==
    ASSUME TextType, todo # <<>>, Queue,
           OnTheWire, tx' = Append(tx, Head(todo).char), Head(todo).by # "console",
           UNCHANGED <<wire, said>>
    PROVE  tx' \in Seq(Glyph) /\ wire' \o tx' \o Chars(Tail(todo)) = said'
<1>1. /\ todo \in Seq(Jobs) /\ Chars(todo) \in Seq(Glyph) /\ Chars(todo) # <<>>
      /\ Head(Chars(todo)) = Head(todo).char /\ Tail(Chars(todo)) = Chars(Tail(todo))
  BY CharsOf DEF TextType
<1> DEFINE b == Chars(todo)
<1>2. tx \in Seq(Glyph) /\ wire \in Seq(Glyph) /\ b \in Seq(Glyph) /\ b # <<>>
  BY <1>1 DEF TextType
<1>3. (wire \o tx) \o b = said /\ tx' = Append(tx, Head(b)) /\ Chars(Tail(todo)) = Tail(b)
  BY <1>1 DEF OnTheWire
<1> HIDE DEF b
<1>4. tx' \in Seq(Glyph) /\ Tail(b) \in Seq(Glyph) /\ tx' \o Tail(b) = tx \o b
  BY <1>2, <1>3, HeadMoves, Zenon
<1>5. (wire \o tx) \o b = wire \o (tx \o b)
  BY <1>2, Associates
<1>6. (wire \o tx') \o Tail(b) = wire \o (tx' \o Tail(b))
  BY <1>2, <1>4, Associates
<1> QED
  BY <1>3, <1>4, <1>5, <1>6

LEMMA UartWriteKeeps == ASSUME IInv, UartWrite PROVE IInv'
<1> USE DEF IInv
<1>1. /\ UNCHANGED <<pc, k, frame, wire, text, said, xfunc_out, symVars, SYMTABLETOP, program>>
      /\ todo # <<>> /\ Head(todo).by # "console" /\ tx' = Append(tx, Head(todo).char)
      /\ todo' = IF Head(todo).by = "putcon" THEN [todo EXCEPT ![1].by = "console"] ELSE Tail(todo)
  BY DEF UartWrite, screenVars, tableVars
<1>2. todo \in Seq(Jobs) /\ Tail(todo) \in Seq(Jobs) /\ Head(todo) \in Jobs
  BY <1>1, CharsOf DEF TextType
<1>3. tx' \in Seq(Glyph) /\ wire' \o tx' \o Chars(Tail(todo)) = said'
  BY <1>1, FirstSent
<1>4. pc \notin BeforePrint
  BY <1>1 DEF Progress
<1>5. Progress' /\ TableFilled' /\ PictureCleared'
  <2>1. Progress'
    BY <1>1, <1>4 DEF Progress
  <2>2. PictureCleared'
    BY <1>1 DEF PictureCleared, Word
  <2> QED
    BY <1>1, <2>1, <2>2, TableStays
<1>6. CASE Head(todo).by = "putcon"
  <2>1. todo' = [todo EXCEPT ![1].by = "console"]
    BY <1>1, <1>6
  <2>2. /\ todo' \in Seq(Jobs) /\ todo' # <<>> /\ DOMAIN todo' = DOMAIN todo
        /\ Chars(todo)' = Chars(todo) /\ Tail(todo') = Tail(todo)
        /\ Head(todo').by = "console" /\ todo'[1].by = "console"
        /\ \A j \in DOMAIN todo : j # 1 => todo'[j] = todo[j]
    BY <1>1, <1>2, <2>1, HalfPut
  <2>3. TextType'
    BY <1>1, <1>3, <2>2 DEF TextType
  <2>4. Queue'
    BY <1>1, <2>2, Zenon DEF Queue
  <2>5. OnTheWire'
    BY <1>3, <2>2 DEF OnTheWire
  <2>6. OnScreen'
    BY <1>1, <2>2 DEF OnScreen
  <2> QED
    BY <1>5, <2>3, <2>4, <2>5, <2>6
<1>7. CASE Head(todo).by # "putcon"
  <2>1. todo' = Tail(todo)
    BY <1>1, <1>7
  <2>2. TextType'
    BY <1>1, <1>2, <1>3, <2>1 DEF TextType
  <2>3. /\ \A j \in DOMAIN todo' : /\ todo'[j].by # "console"
                                   /\ program = "none" => todo'[j].by # "uart"
        /\ todo' # <<>> => Head(todo').by # "console"
    BY <1>1, <1>2, <2>1, BehindFirst
  <2>4. Queue'
    BY <1>1, <2>3 DEF Queue
  <2>5. OnTheWire'
    BY <1>3, <2>1, <2>3 DEF OnTheWire
  <2>6. program # "none"
    <3>1. Head(todo).by = "uart"
      BY <1>1, <1>2, <1>7 DEF Jobs, By
    <3>2. 1 \in DOMAIN todo /\ Head(todo) = todo[1]
      BY <1>1, <1>2, LenProperties, EmptySeq
    <3> QED
      BY <3>1, <3>2 DEF Queue
  <2>7. OnScreen'
    BY <1>1, <2>6 DEF OnScreen
  <2> QED
    BY <1>5, <2>2, <2>4, <2>5, <2>7
<1> QED
  BY <1>6, <1>7

LEMMA PutConsoleKeeps == ASSUME IInv, PutConsole PROVE IInv'
<1> USE DEF IInv
<1>1. /\ UNCHANGED <<pc, k, frame, tx, wire, said, xfunc_out, symVars, SYMTABLETOP, program>>
      /\ todo # <<>> /\ Head(todo).by = "console" /\ text' = Append(text, Head(todo).char)
      /\ todo' = Tail(todo)
  BY DEF PutConsole, screenVars, tableVars
<1>2. /\ todo \in Seq(Jobs) /\ Tail(todo) \in Seq(Jobs)
      /\ Chars(todo) \in Seq(Glyph) /\ Chars(todo) # <<>>
      /\ Head(Chars(todo)) = Head(todo).char /\ Tail(Chars(todo)) = Chars(Tail(todo))
  BY <1>1, CharsOf DEF TextType
<1>3. text' \in Seq(Glyph) /\ text' \o Chars(todo)' = text \o Chars(todo)
  <2> DEFINE b == Chars(todo)
  <2>1. /\ text \in Seq(Glyph) /\ b \in Seq(Glyph) /\ b # <<>>
        /\ text' = Append(text, Head(b)) /\ Chars(Tail(todo)) = Tail(b)
    BY <1>1, <1>2 DEF TextType
  <2>2. Chars(todo)' = Chars(Tail(todo))
    BY <1>1 DEF Chars
  <2> HIDE DEF b
  <2>3. text' \in Seq(Glyph) /\ text' \o Tail(b) = text \o b
    BY <2>1, HeadMoves, Zenon
  <2> QED
    BY <2>1, <2>2, <2>3 DEF b
<1>4. /\ \A j \in DOMAIN todo' : /\ todo'[j].by # "console"
                                 /\ program = "none" => todo'[j].by # "uart"
      /\ todo' # <<>> => Head(todo').by # "console"
  BY <1>1, <1>2, BehindFirst
<1>5. TextType'
  BY <1>1, <1>2, <1>3 DEF TextType
<1>6. Queue'
  BY <1>1, <1>4 DEF Queue
<1>7. Progress'
  BY <1>1 DEF Progress
<1>8. OnTheWire'
  BY <1>1, <1>4 DEF OnTheWire
<1>9. OnScreen'
  <2>1. pc \notin BeforeClear
    BY <1>1 DEF Progress, BeforePrint
  <2> QED
    BY <1>1, <1>3, <2>1 DEF OnScreen
<1>10. TableFilled'
  BY <1>1, TableStays
<1>11. PictureCleared'
  BY <1>1 DEF PictureCleared, Word
<1> QED
  BY <1>5, <1>6, <1>7, <1>8, <1>9, <1>10, <1>11

\* A new text behind all that was put.
LEMMA NewJob ==
    ASSUME TextType, NEW c \in Seq(Glyph), Job(c, "putcon") \/ Job(c, "uart"),
           Pending = <<>>, OnTheWire, UNCHANGED <<tx, wire>>, said' = said \o c
    PROVE  /\ todo' \in Seq(Jobs) /\ said' \in Seq(Glyph) /\ OnTheWire' /\ Chars(todo)' = c
           /\ \A j \in DOMAIN todo' : todo'[j].by # "console"
           /\ Job(c, "putcon") => \A j \in DOMAIN todo' : todo'[j].by = "putcon"
<1>1. /\ todo' \in Seq(Jobs) /\ Chars(todo') = c
      /\ \A j \in DOMAIN todo' : todo'[j].by # "console"
      /\ Job(c, "putcon") => \A j \in DOMAIN todo' : todo'[j].by = "putcon"
  <2>1. ASSUME Job(c, "putcon") PROVE /\ todo' \in Seq(Jobs) /\ Chars(todo') = c
                                      /\ \A j \in DOMAIN todo' : todo'[j].by = "putcon"
    BY <2>1, JobOf DEF By
  <2>2. ASSUME Job(c, "uart") PROVE /\ todo' \in Seq(Jobs) /\ Chars(todo') = c
                                    /\ \A j \in DOMAIN todo' : todo'[j].by = "uart"
    BY <2>2, JobOf DEF By
  <2> QED
    BY <2>1, <2>2
<1>2. ASSUME todo' # <<>> PROVE Head(todo').by # "console"
  <2>1. 1 \in DOMAIN todo' /\ Head(todo') = todo'[1]
    BY <1>1, <1>2, LenProperties, EmptySeq
  <2> QED
    BY <1>1, <2>1
<1>3. Chars(<<>>) = <<>> /\ wire \o tx \in Seq(Glyph)
  BY CharsOf, EmptySeq, ConcatProperties DEF TextType
<1>4. said = wire \o tx
  <2>1. (wire \o tx) \o Chars(Pending) = said
    BY DEF OnTheWire, Pending
  <2> QED
    BY <1>3, <2>1, ConcatEmptySeq
<1>5. OnTheWire'
  BY <1>1, <1>2, <1>4 DEF OnTheWire
<1>6. said' \in Seq(Glyph) /\ Chars(todo)' = c
  BY <1>1, <1>3, <1>4, ConcatProperties
<1> QED
  BY <1>1, <1>5, <1>6

LEMMA MainPrintsKeeps == ASSUME IInv, MainPrints PROVE IInv'
<1> USE DEF IInv
<1>1. /\ UNCHANGED <<frame, tx, wire, text, xfunc_out, symVars, SYMTABLETOP, program>>
      /\ pc = "print" /\ todo = <<>>
      /\ \/ k < Len(Lines) /\ k' = k + 1 /\ pc' = "print"
         \/ pc' = "monitor" /\ k' = k
  BY DEF MainPrints, Goto, screenVars, tableVars
<1>2. /\ xfunc_out = "putcon" /\ SYMTABLETOP = TableAddress /\ program = "none"
      /\ k \in DOMAIN Lines /\ k \in Nat \ {0} /\ Len(Lines) \in Nat /\ DOMAIN Lines = 1..Len(Lines)
  BY <1>1, OutputIsText DEF Progress, BeforeClear
<1>3. PICK c \in Seq(Glyph) \ {<<>>} : Emits(c)
  <2>1. PICK w \in SavedWords \cup {TableAddress} : Emits(LineOf[k][w])
    BY <1>2 DEF MainPrints
  <2>2. LineOf[k][w] \in Seq(STRING) \ {<<>>}
    BY <1>2, <2>1, OutputIsText
  <2>3. LineOf[k][w] \in Seq(Glyph)
    BY <2>2, SeqMonotonic DEF Glyph
  <2> QED
    BY <2>1, <2>2, <2>3
<1>4. said' = said \o c /\ Job(c, "putcon")
  BY <1>2, <1>3 DEF Emits
<1>5. Pending = <<>>
  BY <1>1 DEF Pending
<1>6. /\ todo' \in Seq(Jobs) /\ said' \in Seq(Glyph) /\ OnTheWire' /\ Chars(todo)' = c
      /\ \A j \in DOMAIN todo' : todo'[j].by = "putcon"
  BY <1>1, <1>3, <1>4, <1>5, NewJob
<1>7. TextType'
  BY <1>1, <1>6 DEF TextType
<1>8. Queue'
  BY <1>6 DEF Queue
<1>9. Progress'
  <2>1. CASE k < Len(Lines) /\ k' = k + 1 /\ pc' = "print"
    BY <1>1, <1>2, <2>1 DEF Progress, Steps, BeforePrint, BeforeClear
  <2>2. CASE pc' = "monitor" /\ k' = k
    BY <1>1, <1>2, <2>2 DEF Progress, Steps, BeforePrint, BeforeClear
  <2> QED
    BY <1>1, <2>1, <2>2
<1>10. OnScreen'
  <2>1. said = text \/ said = <<"old">> \o text
    <3>1. text \o Chars(todo) = text
      BY <1>1, CharsOf, EmptySeq, ConcatEmptySeq DEF TextType
    <3> QED
      BY <1>1, <1>2, <3>1 DEF OnScreen, BeforeClear
  <2>2. text \in Seq(Glyph) /\ <<"old">> \in Seq(Glyph) /\ c \in Seq(Glyph) /\ c # <<>>
    BY <1>3 DEF TextType, Glyph
  <2>3. said' = text \o c \/ said' = <<"old">> \o (text \o c)
    <3>1. (<<"old">> \o text) \o c = <<"old">> \o (text \o c)
      BY <2>2, Associates, Zenon
    <3> QED
      BY <1>4, <2>1, <3>1
  <2>4. text \o c # <<>>
    BY <2>2, ConcatEqualIffEmpty
  <2> QED
    BY <1>1, <1>6, <2>3, <2>4 DEF OnScreen, BeforeClear
<1>11. TableFilled'
  <2>1. Filled(Len(Exports)) /\ ~lost /\ SymIInv
    BY <1>1, <1>2, Zenon DEF TableFilled
  <2>2. Filled(Len(Exports))' /\ (lost' <=> lost) /\ SymIInv'
    BY <1>1, <2>1, SameTable, NextIInv DEF symVars
  <2>3. pc' \notin BeforePrint
    BY <1>1 DEF BeforePrint, BeforeClear
  <2>4. pc' # "symt_put"
    BY <1>1
  <2> QED
    BY <2>1, <2>2, <2>3, <2>4, Zenon DEF TableFilled
<1>12. PictureCleared'
  BY <1>1 DEF PictureCleared, Word
<1> QED
  BY <1>6, <1>7, <1>8, <1>9, <1>10, <1>11, <1>12

-----------------------------------------------------------------------------
\* The programs.

LEMMA LoadKeeps ==
    ASSUME IInv, NEW kind \in {"printer", "linker"}, Load(kind)
    PROVE  IInv'
<1> USE DEF IInv
<1>1. /\ UNCHANGED <<pc, k, frame, tx, todo, xfunc_out, symVars, SYMTABLETOP>>
      /\ pc = "monitor" /\ todo = <<>> /\ program = "none" /\ program' = kind
      /\ text' = <<>> /\ wire' = <<>> /\ said' = tx
  BY DEF Load, screenVars, tableVars
<1>2. TextType'
  BY <1>1, EmptySeq DEF TextType
<1>3. Queue' /\ Progress'
  BY <1>1 DEF Queue, Progress
<1>4. OnTheWire'
  <2>1. Chars(<<>>) = <<>> /\ (<<>> \o tx) \o <<>> = tx
    BY CharsOf, EmptySeq, ConcatEmptySeq DEF TextType
  <2> QED
    BY <1>1, <2>1 DEF OnTheWire
<1>5. OnScreen'
  BY <1>1 DEF OnScreen
<1>6. TableFilled'
  <2>1. Filled(Len(Exports)) /\ ~lost /\ SymIInv
    BY <1>1, Zenon DEF TableFilled
  <2>2. Filled(Len(Exports))' /\ (lost' <=> lost) /\ SymIInv'
    BY <1>1, <2>1, SameTable, NextIInv DEF symVars
  <2>3. pc' \notin BeforePrint
    BY <1>1 DEF BeforePrint, BeforeClear
  <2>4. pc' # "symt_put"
    BY <1>1
  <2> QED
    BY <2>1, <2>2, <2>3, <2>4, Zenon DEF TableFilled
<1>7. PictureCleared'
  BY <1>1 DEF PictureCleared, Word
<1> QED
  BY <1>2, <1>3, <1>4, <1>5, <1>6, <1>7

\* The programs that print.
LEMMA PrinterKeeps ==
    ASSUME IInv, ProgramPrints \/ ProgramPuts
    PROVE  IInv'
<1> USE DEF IInv
<1>1. /\ UNCHANGED <<pc, k, frame, tx, wire, text, xfunc_out, symVars, SYMTABLETOP, program>>
      /\ program = "printer" /\ said = <<>>
  BY DEF ProgramPrints, ProgramPuts, screenVars, tableVars
<1>2. pc = "monitor" /\ xfunc_out = "putcon"
  BY <1>1 DEF Progress, BeforeClear
<1>3. PICK c \in Seq(Glyph) : (Job(c, "putcon") \/ Job(c, "uart")) /\ said' = c
  <2>1. CASE ProgramPrints
    <3>1. Printed[call'] \in Seq(STRING) /\ Job(Printed[call'], "putcon") /\ said' = Printed[call']
      BY <1>2, <2>1, OutputIsText DEF ProgramPrints
    <3>2. Printed[call'] \in Seq(Glyph)
      BY <3>1, SeqMonotonic DEF Glyph
    <3> QED
      BY <3>1, <3>2
  <2>2. CASE ProgramPuts
    <3>1. PICK t \in Texts : Job(t, "uart") /\ said' = t
      BY <2>2 DEF ProgramPuts
    <3>2. t \in Seq(Glyph)
      BY <3>1, OutputIsText, SeqMonotonic DEF Glyph
    <3> QED
      BY <3>1, <3>2
  <2> QED
    BY <2>1, <2>2
<1>4. Pending = <<>>
  <2>1. Pending \in Seq(Jobs)
    BY EmptySeq, CharsOf DEF Pending, TextType
  <2>2. /\ (wire \o tx) \o Chars(Pending) = <<>> /\ Chars(Pending) \in Seq(Glyph)
        /\ wire \o tx \in Seq(Glyph)
    BY <1>1, <2>1, CharsOf, ConcatProperties DEF OnTheWire, Pending, TextType
  <2>3. Chars(Pending) = <<>>
    BY <2>2, ConcatEqualIffEmpty
  <2> QED
    BY <2>1, <2>3, CharsOf
<1>5. said' = said \o c
  BY <1>1, <1>3, ConcatEmptySeq
<1>6. /\ todo' \in Seq(Jobs) /\ said' \in Seq(Glyph) /\ OnTheWire'
      /\ \A j \in DOMAIN todo' : todo'[j].by # "console"
  BY <1>1, <1>3, <1>4, <1>5, NewJob
<1>7. TextType'
  BY <1>1, <1>6 DEF TextType
<1>8. Queue'
  BY <1>1, <1>6 DEF Queue
<1>9. Progress'
  BY <1>1, <1>2 DEF Progress, BeforePrint, BeforeClear
<1>10. OnScreen'
  BY <1>1 DEF OnScreen
<1>11. TableFilled'
  BY <1>1, TableStays
<1>12. PictureCleared'
  BY <1>1 DEF PictureCleared, Word
<1> QED
  BY <1>6, <1>7, <1>8, <1>9, <1>10, <1>11, <1>12

LEMMA GoesOnKeeps == ASSUME IInv, ProgramGoesOn PROVE IInv'
<1> USE DEF IInv
<1>1. /\ UNCHANGED <<pc, k, frame, tx, todo, xfunc_out, symVars, SYMTABLETOP, program>>
      /\ program = "printer" /\ todo = <<>> /\ tx = <<>>
      /\ text' = <<>> /\ wire' = <<>> /\ said' = <<>>
  BY DEF ProgramGoesOn, screenVars, tableVars
<1>2. TextType'
  BY <1>1, EmptySeq DEF TextType
<1>3. Queue' /\ Progress'
  BY <1>1 DEF Queue, Progress
<1>4. OnTheWire'
  <2>1. Chars(<<>>) = <<>> /\ (<<>> \o tx) \o <<>> = tx
    BY CharsOf, EmptySeq, ConcatEmptySeq DEF TextType
  <2> QED
    BY <1>1, <2>1 DEF OnTheWire
<1>5. OnScreen'
  BY <1>1 DEF OnScreen
<1>6. TableFilled'
  BY <1>1, TableStays
<1>7. PictureCleared'
  BY <1>1 DEF PictureCleared, Word
<1> QED
  BY <1>2, <1>3, <1>4, <1>5, <1>6, <1>7

LEMMA LinksCalls == ProgramLinks => SymNext
<1>1. \A n \in OwnNames : n \in Names
  BY OwnAreNames
<1>2. \A a \in OwnAddresses : a \in Addresses
  BY OwnAreNames
<1> QED
  BY <1>1, <1>2, Zenon DEF ProgramLinks, SymNext

LEMMA LinksKeeps == ASSUME IInv, ProgramLinks PROVE IInv'
<1> USE DEF IInv
<1>1. /\ UNCHANGED <<pc, k, frame, tx, wire, text, todo, said, xfunc_out, SYMTABLETOP, program>>
      /\ program = "linker"
  BY DEF ProgramLinks, screenVars, outVars
<1>2. TextType' /\ Queue' /\ OnTheWire' /\ Chars(todo)' = Chars(todo)
  BY <1>1, SameOutput
<1>3. Progress'
  BY <1>1 DEF Progress
<1>4. OnScreen'
  BY <1>1 DEF OnScreen
<1>5. TableFilled'
  <2>1. SymIInv'
    BY LinksCalls, NextIInv DEF TableFilled
  <2>2. pc' = "monitor" /\ pc' \notin BeforePrint
    BY <1>1 DEF Progress, BeforePrint, BeforeClear
  <2>3. pc' # "symt_put"
    BY <2>2
  <2> QED
    BY <1>1, <2>1, <2>2, <2>3, Zenon DEF TableFilled
<1>6. PictureCleared'
  BY <1>1 DEF PictureCleared, Word
<1> QED
  BY <1>2, <1>3, <1>4, <1>5, <1>6

-----------------------------------------------------------------------------
\* The theorems.

LEMMA StutterKeeps == ASSUME IInv, UNCHANGED vars PROVE IInv'
<1> USE DEF IInv
<1>1. UNCHANGED <<pc, k, frame, tx, wire, text, todo, said, xfunc_out, symVars, SYMTABLETOP, program>>
  BY DEF vars, screenVars, outVars, tableVars
<1>2. TextType' /\ Queue' /\ OnTheWire' /\ Chars(todo)' = Chars(todo)
  BY <1>1, SameOutput
<1>3. Progress' /\ OnScreen'
  BY <1>1, <1>2 DEF Progress, OnScreen
<1>4. TableFilled'
  BY <1>1, TableStays
<1>5. PictureCleared'
  BY <1>1 DEF PictureCleared, Word
<1> QED
  BY <1>2, <1>3, <1>4, <1>5

\* Every step of main, of the hardware and of the programs keeps the invariant: where
\* main stands tells what the table, the screen and the frame buffer hold by then.
THEOREM Inductive == Spec => []IInv
<1>1. IInv /\ [Next]_vars => IInv'
  <2> SUFFICES ASSUME IInv, [Next]_vars
               PROVE  IInv'
    OBVIOUS
  <2>1. ASSUME Main PROVE IInv'
    BY <2>1, DisplaySteps, vga_clearKeeps, ConsoleClearKeeps, DeviceSteps, MainClearsKeeps,
       MainPutsKeeps, MainPrintsKeeps DEF Main
  <2>2. ASSUME Program PROVE IInv'
    BY <2>2, LoadKeeps, PrinterKeeps, GoesOnKeeps, LinksKeeps DEF Program
  <2> QED
    BY <2>1, <2>2, SendKeeps, FrameEndsKeeps, UartWriteKeeps, PutConsoleKeeps, StutterKeeps
    DEF Next, Putting
<1> QED
  BY <1>1, FirmwareInit, PTL DEF Spec

\* Nothing that main or a program prints is lost or reordered on its way through the
\* transmit queue (uart_write waits for room), whatever the queue held at first.
THEOREM NothingLostOnTheLine == Spec => []OnTheWire
<1>1. IInv => OnTheWire
  BY DEF IInv
<1> QED
  BY <1>1, Inductive, PTL

\* In the monitor the screen shows main's report, every name main registered leads to
\* its function, and the frame buffer is clear.
LEMMA StartsUp == IInv => StartedUp
<1> SUFFICES ASSUME IInv, pc = "monitor"
             PROVE  ReportOnScreen /\ ExportsFound /\ FrameCleared
  BY DEF StartedUp
<1>1. TextType /\ OnScreen /\ TableFilled /\ PictureCleared
  BY DEF IInv
<1>2. ReportOnScreen
  <2> SUFFICES ASSUME program = "none", todo = <<>>
               PROVE  text # <<>> /\ (text = said \/ <<"old">> \o text = said)
    BY DEF ReportOnScreen
  <2>1. text \o Chars(todo) = text
    BY <1>1, CharsOf, EmptySeq, ConcatEmptySeq DEF TextType
  <2> QED
    BY <1>1, <2>1 DEF OnScreen, BeforeClear
<1>3. ExportsFound
  <2> SUFFICES ASSUME program # "linker", NEW i \in DOMAIN Exports
               PROVE  Find(Exports[i]) # 0 /\ table[Find(Exports[i])].address = AddressOf[i]
    BY DEF ExportsFound
  <2>1. SymIInv /\ Filled(Len(Exports)) /\ ~lost
    BY <1>1, Zenon DEF TableFilled
  <2>2. TableType /\ KeysApart
    BY <2>1, Zenon DEF SymIInv
  <2>3. i \in Slot /\ i <= Len(Exports) /\ Exports[i] \in Names
    BY ExportsAreNames, ExportsFit, SymSizes DEF Slot
  <2>4. Used(i) /\ Key(i) = KeyFor(Exports[i]) /\ Addr(i) = AddressOf[i]
    BY <2>1, <2>3 DEF Filled
  <2>5. Find(Exports[i]) = i /\ 0 \notin Slot
    BY <2>2, <2>3, <2>4, FindsKey, SymSizes DEF KeysApart, Slot
  <2> QED
    BY <2>3, <2>4, <2>5 DEF Addr
<1>4. FrameCleared
  BY <1>1 DEF FrameCleared, PictureCleared
<1> QED
  BY <1>2, <1>3, <1>4

THEOREM LeavesItReady == Spec => []StartedUp
BY Inductive, StartsUp, PTL

LEMMA FirmwareCalls == IInv /\ [Next]_vars => [SymNext]_symVars
<1> SUFFICES ASSUME IInv, [Next]_vars
             PROVE  SymNext \/ UNCHANGED symVars
  BY Zenon
<1>1. ASSUME MainPuts PROVE SymNext
  <2>1. k \in DOMAIN Exports
    BY <1>1 DEF IInv, Progress, MainPuts
  <2>2. Exports[k] \in Names /\ AddressOf[k] \in Addresses
    BY <2>1, ExportsAreNames
  <2> QED
    BY <1>1, <2>2 DEF MainPuts, SymNext
<1>2. ASSUME MainClears PROVE SymNext
  BY <1>2 DEF MainClears, SymNext
<1>3. ASSUME Main PROVE SymNext \/ UNCHANGED symVars
  BY <1>1, <1>2, <1>3
  DEF Main, UartInit, vga_stop, VgaSet, vga_clear, ConsoleClear, xdev_out, symt_init, MainPrints,
      tableVars
<1>4. ASSUME Program PROVE SymNext \/ UNCHANGED symVars
  BY <1>4, LinksCalls DEF Program, Load, ProgramPrints, ProgramPuts, ProgramGoesOn, tableVars
<1>5. ASSUME Send \/ FrameEnds \/ Putting PROVE UNCHANGED symVars
  BY <1>5 DEF Send, FrameEnds, Putting, UartWrite, PutConsole, tableVars
<1>6. ASSUME UNCHANGED vars PROVE UNCHANGED symVars
  BY <1>6 DEF vars, tableVars
<1> QED
  BY <1>3, <1>4, <1>5, <1>6 DEF Next

\* Under main and under the programs it starts, the table is the dictionary.
THEOREM StaysDictionary == Spec => FindsWhatWasPut
<1>1. Dict!DInit /\ [][Dict!DNext]_(Dict!dvars) => Dict!Dictionary
  BY DEF Dict!Dictionary
<1>2. Init => Dict!DInit
  BY InitDict DEF Init
<1>3. IInv => SymIInv
  BY DEF IInv, TableFilled
<1> QED
  BY <1>1, <1>2, <1>3, Inductive, FirmwareCalls, NextDict, PTL DEF Spec, FindsWhatWasPut

-----------------------------------------------------------------------------
\* The fields xprintf prints.  A numeral is found by division; the field is read
\* from its first character on.

\* What holds of every number of whose predecessors it holds, holds of all.
LEMMA StrongInduction ==
    ASSUME NEW S, \A n \in Nat : (\A m \in 0..(n - 1) : m \in S) => n \in S
    PROVE  \A n \in Nat : n \in S
<1> SUFFICES ASSUME Nat \ S # {}
             PROVE  FALSE
  OBVIOUS
<1> DEFINE R == OpToRel(<, Nat)
<1>1. \A a, b \in Nat : a < b => <<a, b>> \in R
  BY DEF OpToRel
<1>2. IsWellFoundedOn(R, Nat)
  BY NatLessThanWellFounded
<1> HIDE DEF R
<1>3. PICK x \in Nat \ S : \A y \in Nat \ S : ~(<<y, x>> \in R)
  BY <1>2, WFMin, Zenon
<1>4. \A m \in 0..(x - 1) : m \in Nat /\ m < x
  BY <1>3
<1>5. \A m \in 0..(x - 1) : m \in S
  BY <1>1, <1>3, <1>4
<1> QED
  BY <1>3, <1>5

\* What holds of 0, and with every number of the next, holds of all.
LEMMA Induction ==
    ASSUME NEW S, 0 \in S, \A n \in Nat : n \in S => n + 1 \in S
    PROVE  \A n \in Nat : n \in S
<1>1. ASSUME NEW n \in Nat, \A m \in 0..(n - 1) : m \in S
      PROVE  n \in S
  <2>1. CASE n = 0
    BY <2>1
  <2>2. CASE n # 0
    <3>1. n - 1 \in 0..(n - 1) /\ n - 1 \in Nat /\ (n - 1) + 1 = n
      BY <2>2
    <3>2. n - 1 \in S
      BY <1>1, <3>1
    <3>3. (n - 1) + 1 \in S
      BY <3>1, <3>2
    <3> QED
      BY <3>1, <3>3
  <2> QED
    BY <2>1, <2>2
<1> QED
  BY <1>1, StrongInduction

Radices == {2, 8, 10, 16}

Divides(n, b) ==
    /\ n % b \in 0..15 /\ n \div b \in Nat /\ n = ((n \div b) * b) + (n % b)
    /\ n < b => n % b = n
    /\ n >= b => n \div b \in 1..(n - 1)

\* Division by a radix finds the last digit.
LEMMA Division ==
    ASSUME NEW n \in Nat, NEW r \in Radices
    PROVE  Divides(n, r)
<1>1. Divides(n, 2)
  <2>1. PICK q \in Int : q = n \div 2
    OBVIOUS
  <2>2. n >= 2 * q /\ n < 2 * (q + 1)
    BY <2>1
  <2>3. n % 2 = n - (2 * q)
    BY <2>2
  <2> QED
    BY <2>1, <2>2, <2>3 DEF Divides
<1>2. Divides(n, 8)
  <2>1. PICK q \in Int : q = n \div 8
    OBVIOUS
  <2>2. n >= 8 * q /\ n < 8 * (q + 1)
    BY <2>1
  <2>3. n % 8 = n - (8 * q)
    BY <2>2
  <2> QED
    BY <2>1, <2>2, <2>3 DEF Divides
<1>3. Divides(n, 10)
  <2>1. PICK q \in Int : q = n \div 10
    OBVIOUS
  <2>2. n >= 10 * q /\ n < 10 * (q + 1)
    BY <2>1
  <2>3. n % 10 = n - (10 * q)
    BY <2>2
  <2> QED
    BY <2>1, <2>2, <2>3 DEF Divides
<1>4. Divides(n, 16)
  <2>1. PICK q \in Int : q = n \div 16
    OBVIOUS
  <2>2. n >= 16 * q /\ n < 16 * (q + 1)
    BY <2>1
  <2>3. n % 16 = n - (16 * q)
    BY <2>2
  <2> QED
    BY <2>1, <2>2, <2>3 DEF Divides
<1> QED
  BY <1>1, <1>2, <1>3, <1>4 DEF Radices

\* The characters of numerals.
LEMMA Figures ==
    /\ ToSet(Figure) = {"0", "1", "2", "3", "4", "5", "6", "7", "8", "9"}
    /\ ToSet(Upper) = {"A", "B", "C", "D", "E", "F"}
    /\ ToSet(Lower) = {"a", "b", "c", "d", "e", "f"}
<1>1. \A x : x \in ToSet(Figure) <=> \E i \in 1..10 : Figure[i] = x
  BY DEF ToSet, Figure
<1>2. \A x : x \in ToSet(Upper) <=> \E i \in 1..6 : Upper[i] = x
  BY DEF ToSet, Upper
<1>3. \A x : x \in ToSet(Lower) <=> \E i \in 1..6 : Lower[i] = x
  BY DEF ToSet, Lower
<1>4. ToSet(Figure) = {"0", "1", "2", "3", "4", "5", "6", "7", "8", "9"}
  BY <1>1 DEF Figure
<1>5. ToSet(Upper) = {"A", "B", "C", "D", "E", "F"}
  BY <1>2 DEF Upper
<1>6. ToSet(Lower) = {"a", "b", "c", "d", "e", "f"}
  BY <1>3 DEF Lower
<1> QED
  BY <1>4, <1>5, <1>6

LEMMA FiguresAreDigits == Digits \cap {" ", "-", "*", "LF", "NUL"} = {}
BY Figures DEF Digits

\* A digit, printed and read.
LEMMA DigitRead ==
    ASSUME NEW d \in 0..15, NEW c
    PROVE  /\ DigitChar(d, c) \in Digits /\ ValueOf(DigitChar(d, c)) = d
           /\ d # 0 => DigitChar(d, c) # "0"
           /\ d = 0 => DigitChar(d, c) = "0"
<1>1. CASE d < 10
  <2>1. d + 1 \in 1..10 /\ DigitChar(d, c) = Figure[d + 1]
    BY <1>1 DEF DigitChar
  <2>2. \A i, j \in 1..10 : Figure[i] = Figure[j] => i = j
    BY DEF Figure
  <2>3. \A i \in 1..10 : Figure[i] \in ToSet(Figure) /\ (i # 1 => Figure[i] # "0") /\ Figure[1] = "0"
    BY Figures DEF Figure
  <2>4. FigureOf(Figure[d + 1]) = (d + 1) - 1
    <3>1. (CHOOSE i \in 1..10 : Figure[i] = Figure[d + 1]) = d + 1
      BY <2>1, <2>2
    <3> QED
      BY <3>1 DEF FigureOf
  <2> QED
    BY <2>1, <2>3, <2>4 DEF ValueOf, IsFigure, Digits
<1>2. CASE ~(d < 10)
  <2>1. d - 9 \in 1..6 /\ 9 + (d - 9) = d /\ d # 0
    BY <1>2
  <2>2. PICK i \in 1..6 : 9 + i = d /\ (DigitChar(d, c) = Upper[i] \/ DigitChar(d, c) = Lower[i])
    BY <1>2, <2>1 DEF DigitChar
  <2>3. \A j, h \in 1..6 : (Upper[j] = Upper[h] \/ Lower[j] = Lower[h] => j = h) /\ Upper[j] # Lower[h]
    BY DEF Upper, Lower
  <2>4. \A j \in 1..6 : /\ Upper[j] \in ToSet(Upper) /\ Upper[j] \notin ToSet(Figure) /\ Upper[j] # "0"
                        /\ Lower[j] \in ToSet(Lower) /\ Lower[j] \notin ToSet(Figure) /\ Lower[j] # "0"
    BY Figures DEF Upper, Lower
  <2> DEFINE x == DigitChar(d, c)
  <2> HIDE DEF x
  <2>5. (CHOOSE j \in 1..6 : Upper[j] = x \/ Lower[j] = x) = i
    <3>1. \A j \in 1..6 : Upper[j] = x \/ Lower[j] = x <=> j = i
      BY <2>2, <2>3 DEF x
    <3> QED
      BY <3>1
  <2>6. x \notin ToSet(Figure) /\ x \in Digits /\ x # "0"
    BY <2>2, <2>4 DEF x, Digits
  <2>7. ValueOf(x) = 9 + i
    BY <2>5, <2>6 DEF ValueOf, IsFigure
  <2> QED
    BY <2>1, <2>2, <2>6, <2>7 DEF x
<1> QED
  BY <1>1, <1>2

\* The numerals of the numbers up to v.
Numerals(v, r, c, f) ==
    /\ f \in [0..v -> Seq(Digits)]
    /\ \A n \in 0..v : f[n] = (IF n < r THEN <<>> ELSE f[n \div r]) \o <<DigitChar(n % r, c)>>

\* They exist, and the numeral of v is one of them.
LEMMA NumeralExists ==
    ASSUME NEW v \in Nat, NEW r \in Radices, NEW c
    PROVE  \E f : Numerals(v, r, c, f)
<1> DEFINE T == {n \in Nat : \E f : Numerals(n, r, c, f)}
           x(n) == <<DigitChar(n % r, c)>>
<1>1. \A n \in Nat : x(n) \in Seq(Digits)
  <2> SUFFICES ASSUME NEW n \in Nat
               PROVE  x(n) \in Seq(Digits)
    OBVIOUS
  <2>1. DigitChar(n % r, c) \in Digits
    BY Division, DigitRead DEF Divides
  <2> QED
    BY <2>1
<1> HIDE DEF x
<1>2. 0 < r /\ r \in Nat
  BY DEF Radices
<1>3. 0 \in T
  <2> DEFINE f == [n \in 0..0 |-> <<>> \o x(n)]
  <2>1. f \in [0..0 -> Seq(Digits)] /\ \A n \in 0..0 : f[n] = (IF n < r THEN <<>> ELSE f[n \div r]) \o x(n)
    BY <1>1, <1>2, ConcatEmptySeq
  <2> HIDE DEF f
  <2>2. Numerals(0, r, c, f)
    BY <2>1 DEF Numerals, x
  <2> QED
    BY <2>2
<1>4. ASSUME NEW n \in Nat, n \in T
      PROVE  n + 1 \in T
  <2>1. PICK f : Numerals(n, r, c, f)
    BY <1>4
  <2>2. f \in [0..n -> Seq(Digits)] /\ \A m \in 0..n : f[m] = (IF m < r THEN <<>> ELSE f[m \div r]) \o x(m)
    BY <2>1 DEF Numerals, x
  <2>3. \A m \in 0..(n + 1) : m >= r => m \div r \in 0..n
    <3> SUFFICES ASSUME NEW m \in 0..(n + 1), m >= r
                 PROVE  m \div r \in 0..n
      OBVIOUS
    <3>1. m \in Nat /\ m \div r \in 1..(m - 1)
      BY Division DEF Divides
    <3> QED
      BY <3>1
  <2> DEFINE y == (IF n + 1 < r THEN <<>> ELSE f[(n + 1) \div r]) \o x(n + 1)
             h == [m \in 0..(n + 1) |-> IF m = n + 1 THEN y ELSE f[m]]
  <2>4. y \in Seq(Digits)
    <3>1. x(n + 1) \in Seq(Digits)
      BY <1>1
    <3>2. (IF n + 1 < r THEN <<>> ELSE f[(n + 1) \div r]) \in Seq(Digits)
      BY <1>2, <2>2, <2>3
    <3> QED
      BY <3>1, <3>2, ConcatProperties
  <2>5. \A m \in 0..n : m \in 0..(n + 1) /\ m # n + 1
    OBVIOUS
  <2>6. h \in [0..(n + 1) -> Seq(Digits)] /\ h[n + 1] = y /\ \A m \in 0..n : h[m] = f[m]
    <3> HIDE DEF y
    <3> QED
      BY <2>2, <2>4
  <2> HIDE DEF h
  <2>7. ASSUME NEW m \in 0..(n + 1)
        PROVE  h[m] = (IF m < r THEN <<>> ELSE h[m \div r]) \o x(m)
    <3>1. ~(m < r) => h[m \div r] = f[m \div r]
      <4>1. ~(m < r) => m >= r
        BY <1>2
      <4> QED
        BY <2>3, <2>6, <4>1
    <3>2. CASE m = n + 1
      <4>1. h[m] = (IF m < r THEN <<>> ELSE f[m \div r]) \o x(m)
        BY <2>6, <3>2, Zenon
      <4> QED
        BY <3>1, <4>1, Zenon
    <3>3. CASE m # n + 1
      <4>1. m \in 0..n
        BY <3>3
      <4>2. h[m] = f[m] /\ f[m] = (IF m < r THEN <<>> ELSE f[m \div r]) \o x(m)
        BY <2>2, <2>6, <4>1
      <4> QED
        BY <3>1, <4>2, Zenon
    <3> QED
      BY <3>2, <3>3
  <2>8. Numerals(n + 1, r, c, h)
    BY <2>6, <2>7 DEF Numerals, x
  <2> QED
    BY <2>8
<1> HIDE DEF T
<1>5. v \in T
  BY <1>3, <1>4, Induction
<1> QED
  BY <1>5 DEF T

LEMMA NumeralIs ==
    ASSUME NEW v \in Nat, NEW r \in Radices, NEW c
    PROVE  \E f : Numerals(v, r, c, f) /\ Numeral(v, r, c) = f[v]
<1> DEFINE Fits(f) == f = [n \in 0..v |-> (IF n < r THEN <<>> ELSE f[n \div r]) \o <<DigitChar(n % r, c)>>]
           g == CHOOSE f : Fits(f)
<1>1. PICK f : Numerals(v, r, c, f)
  BY NumeralExists
<1>2. Fits(f)
  BY <1>1 DEF Numerals
<1>3. Fits(g)
  <2> HIDE DEF Fits
  <2> QED
    BY <1>2, Zenon
<1>4. Numeral(v, r, c) = g[v]
  BY Zenon DEF Numeral
<1> HIDE DEF g
<1>5. \A n \in 0..v : g[n] = (IF n < r THEN <<>> ELSE g[n \div r]) \o <<DigitChar(n % r, c)>>
  BY <1>3
<1>6. DOMAIN g = 0..v
  BY <1>3
<1> DEFINE T == {n \in Nat : n \in 0..v => g[n] \in Seq(Digits)}
<1>7. ASSUME NEW n \in Nat, \A m \in 0..(n - 1) : m \in T
      PROVE  n \in T
  <2> SUFFICES ASSUME n \in 0..v
               PROVE  g[n] \in Seq(Digits)
    OBVIOUS
  <2>1. <<DigitChar(n % r, c)>> \in Seq(Digits)
    <3>1. DigitChar(n % r, c) \in Digits
      BY Division, DigitRead DEF Divides
    <3> QED
      BY <3>1
  <2>2. (IF n < r THEN <<>> ELSE g[n \div r]) \in Seq(Digits)
    <3>1. CASE n < r
      BY <3>1
    <3>2. CASE ~(n < r)
      <4>1. n \div r \in 0..(n - 1) /\ n \div r \in 0..v
        <5>1. n >= r
          BY <3>2 DEF Radices
        <5>2. n \div r \in 1..(n - 1)
          BY <5>1, Division DEF Divides
        <5> QED
          BY <5>2
      <4>2. g[n \div r] \in Seq(Digits)
        BY <1>7, <4>1
      <4> QED
        BY <3>2, <4>2
    <3> QED
      BY <3>1, <3>2
  <2>3. (IF n < r THEN <<>> ELSE g[n \div r]) \o <<DigitChar(n % r, c)>> \in Seq(Digits)
    BY <2>1, <2>2, ConcatProperties
  <2>4. g[n] = (IF n < r THEN <<>> ELSE g[n \div r]) \o <<DigitChar(n % r, c)>>
    BY <1>5
  <2> QED
    BY <2>3, <2>4, Zenon
<1> HIDE DEF T
<1>8. \A n \in Nat : n \in T
  BY <1>7, StrongInduction
<1>9. \A n \in 0..v : g[n] \in Seq(Digits)
  BY <1>8 DEF T
<1>10. g \in [0..v -> Seq(Digits)]
  <2>1. g = [n \in 0..v |-> g[n]]
    BY <1>3, <1>6
  <2> QED
    BY <1>9, <2>1
<1>11. Numerals(v, r, c, g)
  BY <1>5, <1>10, Zenon DEF Numerals
<1> QED
  BY <1>4, <1>11

\* Text s is in text t, behind its first a characters.
Within(s, t, a) == a \in Nat /\ a + Len(s) <= Len(t) /\ \A j \in 1..Len(s) : t[a + j] = s[j]

\* What is read of s after each of its characters.
Sums(s, r, g) ==
    /\ g \in [0..Len(s) -> Int] /\ g[0] = 0
    /\ \A n \in 1..Len(s) : g[n] = IF s[n] \in Digits THEN g[n - 1] * r + ValueOf(s[n]) ELSE g[n - 1]

\* A numeral has a digit, no zero first, and reads as its number.
LEMMA NumeralRead ==
    ASSUME NEW v \in Nat, NEW r \in Radices, NEW c
    PROVE  LET s == Numeral(v, r, c)
           IN  /\ s \in Seq(Digits) /\ Len(s) > 0 /\ (v # 0 => s[1] # "0") /\ (v = 0 => s = <<"0">>)
               /\ \A t, a, g : /\ Len(t) \in Nat /\ Within(s, t, a) /\ Sums(t, r, g) /\ g[a] = 0
                               => g[a + Len(s)] = v
<1> DEFINE x(n) == DigitChar(n % r, c)
<1>1. PICK f : Numerals(v, r, c, f) /\ Numeral(v, r, c) = f[v]
  BY NumeralIs
<1>2. f \in [0..v -> Seq(Digits)] /\ \A n \in 0..v : f[n] = (IF n < r THEN <<>> ELSE f[n \div r]) \o <<x(n)>>
  BY <1>1 DEF Numerals
<1>3. \A n \in Nat : /\ x(n) \in Digits /\ ValueOf(x(n)) = n % r
                     /\ n < r /\ n # 0 => x(n) # "0"
  <2> SUFFICES ASSUME NEW n \in Nat
               PROVE  x(n) \in Digits /\ ValueOf(x(n)) = n % r /\ (n < r /\ n # 0 => x(n) # "0")
    OBVIOUS
  <2>1. n % r \in 0..15 /\ (n < r => n % r = n)
    BY Division DEF Divides
  <2> QED
    BY <2>1, DigitRead
<1>4. x(0) = "0"
  <2>1. 0 % r = 0
    BY Division DEF Divides, Radices
  <2> QED
    BY <2>1, DigitRead
<1>5. r \in Nat /\ 0 < r
  BY DEF Radices
<1> HIDE DEF x
\* The numeral of n, by the cases of the code.
<1>6. ASSUME NEW n \in 0..v, n < r
      PROVE  f[n] = <<x(n)>>
  <2>1. <<x(n)>> \in Seq(Digits)
    BY <1>3
  <2>2. f[n] = <<>> \o <<x(n)>>
    BY <1>2, <1>6, Zenon
  <2> QED
    BY <2>1, <2>2, ConcatEmptySeq
<1>7. ASSUME NEW n \in 0..v, ~(n < r)
      PROVE  /\ n \div r \in 1..(n - 1) /\ n \div r \in 0..v /\ n \div r # 0
             /\ f[n \div r] \in Seq(Digits) /\ f[n \div r] \o <<x(n)>> \in Seq(Digits)
             /\ f[n] = f[n \div r] \o <<x(n)>>
             /\ Len(f[n]) = Len(f[n \div r]) + 1
             /\ \A j \in 1..Len(f[n \div r]) : f[n][j] = f[n \div r][j]
             /\ f[n][Len(f[n \div r]) + 1] = x(n)
  <2>1. n \div r \in 1..(n - 1)
    <3>1. n >= r /\ n \in Nat
      BY <1>5, <1>7
    <3> QED
      BY <3>1, Division DEF Divides
  <2>2. n \div r \in 0..v /\ n \div r # 0
    BY <2>1
  <2>3. f[n \div r] \in Seq(Digits) /\ <<x(n)>> \in Seq(Digits)
    BY <1>2, <1>3, <2>2
  <2>4. f[n] = f[n \div r] \o <<x(n)>>
    BY <1>2, <1>7, Zenon
  <2> DEFINE u == f[n \div r]
  <2> HIDE DEF u
  <2>5. /\ u \o <<x(n)>> \in Seq(Digits) /\ Len(u \o <<x(n)>>) = Len(u) + 1
        /\ \A j \in 1..Len(u) : (u \o <<x(n)>>)[j] = u[j]
        /\ (u \o <<x(n)>>)[Len(u) + 1] = x(n)
    <3>1. u \in Seq(Digits) /\ <<x(n)>> \in Seq(Digits) /\ Len(<<x(n)>>) = 1 /\ <<x(n)>>[1] = x(n)
      BY <2>3 DEF u
    <3> QED
      BY <3>1, ConcatProperties
  <2> QED
    BY <2>1, <2>2, <2>3, <2>4, <2>5, Zenon DEF u
\* Its first digit.
<1> DEFINE T == {n \in Nat : n \in 0..v => Len(f[n]) > 0 /\ (n # 0 => f[n][1] # "0")}
<1>8. ASSUME NEW n \in Nat, \A m \in 0..(n - 1) : m \in T
      PROVE  n \in T
  <2> SUFFICES ASSUME n \in 0..v
               PROVE  Len(f[n]) > 0 /\ (n # 0 => f[n][1] # "0")
    OBVIOUS
  <2>1. CASE n < r
    <3>1. f[n] = <<x(n)>>
      BY <1>6, <2>1
    <3>2. Len(<<x(n)>>) = 1 /\ <<x(n)>>[1] = x(n)
      OBVIOUS
    <3> QED
      BY <1>3, <2>1, <3>1, <3>2
  <2>2. CASE ~(n < r)
    <3> DEFINE m == n \div r
    <3>1. /\ m \in 1..(n - 1) /\ m \in 0..v /\ f[m] \in Seq(Digits) /\ Len(f[n]) = Len(f[m]) + 1
          /\ \A j \in 1..Len(f[m]) : f[n][j] = f[m][j]
      BY <1>7, <2>2
    <3> HIDE DEF m
    <3>2. Len(f[m]) > 0 /\ f[m][1] # "0"
      BY <1>8, <3>1
    <3> QED
      BY <3>1, <3>2
  <2> QED
    BY <2>1, <2>2
<1> HIDE DEF T
<1>9. Len(f[v]) > 0 /\ (v # 0 => f[v][1] # "0")
  <2>1. v \in T
    BY <1>8, StrongInduction
  <2> QED
    BY <2>1 DEF T
<1>10. v = 0 => f[v] = <<"0">>
  <2>1. 0 \in 0..0 /\ 0 < r
    BY <1>5
  <2> QED
    BY <1>4, <1>6, <2>1
\* Its value.
<1>11. ASSUME NEW t, NEW a, NEW g, Len(t) \in Nat, Within(f[v], t, a), Sums(t, r, g), g[a] = 0
       PROVE  g[a + Len(f[v])] = v
  <2> DEFINE P(n) == n \in 0..v /\ Within(f[n], t, a) => g[a + Len(f[n])] = n
             Q == {n \in Nat : P(n)}
  <2>1. ASSUME NEW n \in Nat, \A m \in 0..(n - 1) : m \in Q
        PROVE  n \in Q
    <3> SUFFICES ASSUME n \in 0..v, Within(f[n], t, a)
                 PROVE  g[a + Len(f[n])] = n
      OBVIOUS
    <3>1. a \in Nat /\ a + Len(f[n]) <= Len(t) /\ \A j \in 1..Len(f[n]) : t[a + j] = f[n][j]
      BY DEF Within
    <3>2. \A i \in 1..Len(t) : t[i] \in Digits => g[i] = g[i - 1] * r + ValueOf(t[i])
      BY <1>11, Zenon DEF Sums
    <3>3. CASE n < r
      <4>1. f[n] = <<x(n)>> /\ Len(<<x(n)>>) = 1 /\ <<x(n)>>[1] = x(n)
        BY <1>6, <3>3
      <4>2. Len(f[n]) = 1 /\ f[n][1] = x(n)
        BY <4>1, Zenon
      <4>3. a + 1 \in 1..Len(t) /\ t[a + 1] = x(n) /\ (a + 1) - 1 = a
        BY <3>1, <4>2, <1>11
      <4>4. g[a + 1] = 0 * r + ValueOf(x(n))
        BY <1>3, <1>11, <3>2, <4>3, Zenon
      <4>5. ValueOf(x(n)) = n % r /\ n % r = n
        BY <1>3, <3>3, Division DEF Divides
      <4> QED
        BY <1>5, <4>2, <4>4, <4>5
    <3>4. CASE ~(n < r)
      <4> DEFINE m == n \div r
                 w == Len(f[m])
      <4>1. /\ m \in 1..(n - 1) /\ m \in 0..v /\ f[m] \in Seq(Digits) /\ Len(f[n]) = w + 1
            /\ \A j \in 1..w : f[n][j] = f[m][j]
            /\ f[n][w + 1] = x(n)
        BY <1>7, <3>4
      <4>2. w \in Nat
        BY <4>1
      <4> HIDE DEF w, m
      <4>3. \A j \in 1..w : t[a + j] = f[m][j]
        BY <3>1, <4>1, <4>2
      <4>4. Within(f[m], t, a)
        <5>1. a \in Nat /\ a + w <= Len(t)
          BY <3>1, <4>1, <4>2, <1>11
        <5> QED
          BY <4>3, <5>1 DEF Within, w
      <4>5. g[a + w] = m
        <5>1. m \in Q
          BY <2>1, <4>1
        <5> QED
          BY <4>1, <4>4, <5>1 DEF w
      <4>6. /\ (a + w) + 1 \in 1..Len(t) /\ t[(a + w) + 1] = x(n)
            /\ ((a + w) + 1) - 1 = a + w /\ a + Len(f[n]) = (a + w) + 1
        <5>1. w + 1 \in 1..(w + 1) /\ a + (w + 1) = (a + w) + 1
          BY <3>1, <4>2
        <5>2. t[a + (w + 1)] = x(n)
          BY <3>1, <4>1, <5>1
        <5>3. (a + w) + 1 \in 1..Len(t) /\ ((a + w) + 1) - 1 = a + w
          BY <3>1, <4>1, <4>2, <1>11
        <5> QED
          BY <4>1, <5>1, <5>2, <5>3
      <4>7. g[(a + w) + 1] = m * r + ValueOf(x(n))
        BY <1>3, <3>2, <4>5, <4>6, Zenon
      <4>8. ValueOf(x(n)) = n % r /\ n = m * r + (n % r)
        BY <1>3, Division DEF Divides, m
      <4> QED
        BY <4>6, <4>7, <4>8, Zenon
    <3> QED
      BY <3>3, <3>4
  <2>2. v \in Q
    <3> HIDE DEF Q
    <3> QED
      BY <2>1, StrongInduction
  <2> QED
    BY <1>11, <2>2
<1>12. f[v] \in Seq(Digits)
  BY <1>2
<1> HIDE DEF T
<1> DEFINE s == Numeral(v, r, c)
<1>13. s = f[v]
  BY <1>1
<1> HIDE DEF s
<1>14. /\ s \in Seq(Digits) /\ Len(s) > 0 /\ (v # 0 => s[1] # "0") /\ (v = 0 => s = <<"0">>)
       /\ \A t, a, g : /\ Len(t) \in Nat /\ Within(s, t, a) /\ Sums(t, r, g) /\ g[a] = 0
                       => g[a + Len(s)] = v
  BY <1>9, <1>10, <1>11, <1>12, <1>13, Zenon
<1> QED
  BY <1>14 DEF s

\* A function can be given by its first value and its next ones.
Chain(S, b, L, g, f) == f \in [0..L -> S] /\ f[0] = b /\ \A n \in 1..L : f[n] = g[n][f[n - 1]]

LEMMA Recursion ==
    ASSUME NEW S, NEW b \in S, NEW L \in Nat, NEW g \in [1..L -> [S -> S]]
    PROVE  \E f : Chain(S, b, L, g, f)
<1> DEFINE Good(n, f) == f \in [0..n -> S] /\ f[0] = b /\ \A m \in 1..n : f[m] = g[m][f[m - 1]]
           T == {n \in Nat : n <= L => \E f : Good(n, f)}
<1>1. 0 \in T
  <2>1. Good(0, [m \in 0..0 |-> b])
    OBVIOUS
  <2> QED
    BY <2>1
<1>2. ASSUME NEW n \in Nat, n \in T
      PROVE  n + 1 \in T
  <2> SUFFICES ASSUME n + 1 <= L
               PROVE  \E f : Good(n + 1, f)
    OBVIOUS
  <2>1. PICK f : Good(n, f)
    BY <1>2
  <2> DEFINE y == g[n + 1][f[n]]
             h == [m \in 0..(n + 1) |-> IF m = n + 1 THEN y ELSE f[m]]
  <2>2. f[n] \in S /\ y \in S
    BY <2>1
  <2> HIDE DEF y
  <2>3. h \in [0..(n + 1) -> S] /\ h[n + 1] = y /\ \A m \in 0..n : h[m] = f[m]
    BY <2>1, <2>2
  <2> HIDE DEF h
  <2>4. h[0] = b
    BY <2>1, <2>3
  <2>5. ASSUME NEW m \in 1..(n + 1)
        PROVE  h[m] = g[m][h[m - 1]]
    <3>1. h[m - 1] = f[m - 1]
      BY <2>3
    <3>2. CASE m = n + 1
      BY <2>3, <3>1, <3>2 DEF y
    <3>3. CASE m # n + 1
      <4>1. m \in 1..n /\ m \in 0..n
        BY <3>3
      <4> QED
        BY <2>1, <2>3, <3>1, <4>1
    <3> QED
      BY <3>2, <3>3
  <2>6. Good(n + 1, h)
    BY <2>3, <2>4, <2>5
  <2> QED
    BY <2>6
<1> HIDE DEF T
<1>3. L \in T
  BY <1>1, <1>2, Induction
<1> QED
  BY <1>3 DEF T, Chain

\* A digit is a number, and a zero is 0.
LEMMA DigitValues ==
    /\ \A c \in Digits : ValueOf(c) \in Int
    /\ "0" \in Digits /\ ValueOf("0") = 0
<1>1. ASSUME NEW c \in Digits
      PROVE  ValueOf(c) \in Int
  <2>1. CASE IsFigure(c)
    <3>1. \E i \in 1..10 : Figure[i] = c
      BY <2>1, Figures DEF IsFigure, ToSet, Figure
    <3> QED
      BY <2>1, <3>1 DEF ValueOf, FigureOf
  <2>2. CASE ~IsFigure(c)
    <3>1. c \in ToSet(Upper) \cup ToSet(Lower)
      BY <2>2 DEF IsFigure, Digits
    <3>2. \E i \in 1..6 : Upper[i] = c \/ Lower[i] = c
      BY <3>1 DEF ToSet, Upper, Lower
    <3> QED
      BY <2>2, <3>2 DEF ValueOf
  <2> QED
    BY <2>1, <2>2
<1>2. DigitChar(0, "x") = "0"
  BY DigitRead
<1> QED
  BY <1>1, <1>2, DigitRead

\* What is read of a field.
LEMMA Summed ==
    ASSUME NEW T, NEW s \in Seq(T), NEW r \in Int
    PROVE  \E g : Sums(s, r, g) /\ Read(s, r) = IF "-" \in ToSet(s) THEN -g[Len(s)] ELSE g[Len(s)]
<1> DEFINE Next1(n, x) == IF s[n] \in Digits THEN x * r + ValueOf(s[n]) ELSE x
           h == [n \in 1..Len(s) |-> [x \in Int |-> Next1(n, x)]]
           Fits(f) == f = [n \in 0..Len(s) |-> IF n = 0 THEN 0 ELSE IF s[n] \in Digits THEN f[n - 1] * r + ValueOf(s[n])
                                               ELSE f[n - 1]]
           g == CHOOSE f : Fits(f)
<1>1. Len(s) \in Nat
  OBVIOUS
<1>2. \A n \in 1..Len(s), x \in Int : Next1(n, x) \in Int
  BY DigitValues
<1> HIDE DEF Next1
<1>3. h \in [1..Len(s) -> [Int -> Int]] /\ \A n \in 1..Len(s), x \in Int : h[n][x] = Next1(n, x)
  BY <1>2
<1> HIDE DEF h
<1>14. PICK f : Chain(Int, 0, Len(s), h, f)
  <2> DEFINE S == Int
             L == Len(s)
  <2>1. 0 \in S /\ L \in Nat /\ h \in [1..L -> [S -> S]]
    BY <1>1, <1>3
  <2> HIDE DEF S, L
  <2>2. \E f : Chain(S, 0, L, h, f)
    BY <2>1, Recursion
  <2> QED
    BY <2>2 DEF S, L
<1>4. f \in [0..Len(s) -> Int] /\ f[0] = 0 /\ \A n \in 1..Len(s) : f[n] = h[n][f[n - 1]]
  BY <1>14 DEF Chain
<1>15. \A n \in 1..Len(s) : n - 1 \in 0..Len(s) /\ n \in 0..Len(s) /\ n # 0
  BY <1>1
<1>5. \A n \in 1..Len(s) : f[n] = Next1(n, f[n - 1])
  <2>1. \A n \in 1..Len(s) : f[n - 1] \in Int
    BY <1>4, <1>15
  <2> QED
    BY <1>3, <1>4, <2>1, Zenon
<1>6. Fits(f)
  <2>1. ASSUME NEW n \in 0..Len(s)
        PROVE  f[n] = IF n = 0 THEN 0 ELSE IF s[n] \in Digits THEN f[n - 1] * r + ValueOf(s[n]) ELSE f[n - 1]
    <3>1. CASE n = 0
      BY <1>4, <3>1
    <3>2. CASE n # 0
      <4>1. n \in 1..Len(s)
        BY <1>1, <3>2
      <4> QED
        BY <1>5, <3>2, <4>1, Zenon DEF Next1
    <3> QED
      BY <3>1, <3>2
  <2> QED
    BY <1>4, <2>1
<1>7. Fits(g)
  <2> HIDE DEF Fits
  <2> QED
    BY <1>6, Zenon
<1>8. Read(s, r) = IF "-" \in ToSet(s) THEN -g[Len(s)] ELSE g[Len(s)]
  BY Zenon DEF Read
<1> HIDE DEF g
<1>9. DOMAIN g = 0..Len(s) /\ g[0] = 0 /\ \A n \in 1..Len(s) : g[n] = Next1(n, g[n - 1])
  <2>1. DOMAIN g = 0..Len(s) /\ 0 \in 0..Len(s)
    BY <1>1, <1>7
  <2>2. \A n \in 0..Len(s) : g[n] = IF n = 0 THEN 0 ELSE IF s[n] \in Digits THEN g[n - 1] * r + ValueOf(s[n])
                                                       ELSE g[n - 1]
    BY <1>7
  <2>3. \A n \in 1..Len(s) : g[n] = Next1(n, g[n - 1])
    BY <1>15, <2>2, Zenon DEF Next1
  <2> QED
    BY <2>1, <2>2, <2>3, Zenon
<1> DEFINE I == {n \in Nat : n <= Len(s) => g[n] \in Int}
<1>10. 0 \in I
  BY <1>9
<1>11. ASSUME NEW n \in Nat, n \in I
       PROVE  n + 1 \in I
  <2> SUFFICES ASSUME n + 1 <= Len(s)
               PROVE  g[n + 1] \in Int
    OBVIOUS
  <2>1. n + 1 \in 1..Len(s) /\ (n + 1) - 1 = n /\ g[n] \in Int
    BY <1>1, <1>11
  <2>2. g[n + 1] = Next1(n + 1, g[n])
    BY <1>9, <2>1
  <2> QED
    BY <1>2, <2>1, <2>2
<1> HIDE DEF I
<1>12. \A n \in Nat : n \in I
  BY <1>10, <1>11, Induction
<1>13. g \in [0..Len(s) -> Int]
  <2>1. \A n \in 0..Len(s) : g[n] \in Int
    BY <1>1, <1>12 DEF I
  <2>2. g = [n \in 0..Len(s) |-> g[n]]
    BY <1>7, <1>9
  <2> QED
    BY <2>1, <2>2
<1>16. Sums(s, r, g)
  BY <1>9, <1>13, Zenon DEF Sums, Next1
<1> QED
  BY <1>8, <1>16

\* What is no digit, or a zero before the first, does not count.
Idle(t, g, a, n) == \A j \in 1..n : t[a + j] \notin Digits \/ (g[a] = 0 /\ t[a + j] = "0")

LEMMA SumsStay ==
    ASSUME NEW t, Len(t) \in Nat, NEW r \in Int, NEW g, Sums(t, r, g), NEW a \in Nat, NEW n \in Nat,
           a + n <= Len(t), Idle(t, g, a, n)
    PROVE  g[a + n] = g[a]
<1> DEFINE T == {m \in Nat : m <= n => g[a + m] = g[a]}
<1>1. 0 \in T
  <2>1. a + 0 = a
    OBVIOUS
  <2> QED
    BY <2>1
<1>2. ASSUME NEW m \in Nat, m \in T
      PROVE  m + 1 \in T
  <2> SUFFICES ASSUME m + 1 <= n
               PROVE  g[a + (m + 1)] = g[a]
    OBVIOUS
  <2>1. g[a + m] = g[a] /\ a + (m + 1) \in 1..Len(t) /\ (a + (m + 1)) - 1 = a + m /\ m + 1 \in 1..n
    BY <1>2
  <2>2. \A i \in 1..Len(t) : g[i] = IF t[i] \in Digits THEN g[i - 1] * r + ValueOf(t[i]) ELSE g[i - 1]
    BY DEF Sums
  <2>3. g[a + (m + 1)] = IF t[a + (m + 1)] \in Digits THEN g[a] * r + ValueOf(t[a + (m + 1)]) ELSE g[a]
    BY <2>1, <2>2, Zenon
  <2>6. t[a + (m + 1)] \notin Digits \/ (g[a] = 0 /\ t[a + (m + 1)] = "0")
    BY <2>1 DEF Idle
  <2>4. CASE t[a + (m + 1)] \notin Digits
    BY <2>3, <2>4, Zenon
  <2>5. CASE g[a] = 0 /\ t[a + (m + 1)] = "0"
    <3>1. g[a + (m + 1)] = 0 * r + 0
      BY <2>3, <2>5, DigitValues, Zenon
    <3> QED
      BY <2>5, <3>1
  <2> QED
    BY <2>1, <2>4, <2>5, <2>6
<1> HIDE DEF T
<1>3. n \in T
  BY <1>1, <1>2, Induction
<1> QED
  BY <1>3 DEF T

\* (A string that is a blank is beyond the SMT backend.)
Space == " "

\* Field F is s behind a characters z and before b blanks.
Shape(F, s, a, b, z) ==
    /\ a \in Nat /\ b \in Nat /\ Len(F) = a + Len(s) + b /\ Within(s, F, a)
    /\ \A j \in 1..a : F[j] = z
    /\ \A j \in 1..b : F[a + Len(s) + j] = Space

\* It is at least w long, filled up on the side asked for and no more than it must.
Laid(F, s, a, b, z, w, left) ==
    /\ Shape(F, s, a, b, z)
    /\ left => a = 0
    /\ ~left => b = 0
    /\ Len(F) >= w
    /\ Len(F) > w => a = 0 /\ b = 0

\* One sequence behind another.
LEMMA Joined ==
    ASSUME NEW S, NEW x \in Seq(S), NEW y \in Seq(S)
    PROVE  /\ x \o y \in Seq(S) /\ Len(x \o y) = Len(x) + Len(y)
           /\ \A j \in 1..Len(x) : (x \o y)[j] = x[j]
           /\ \A j \in 1..Len(y) : (x \o y)[Len(x) + j] = y[j]
BY ConcatProperties

\* A fill, and what Padded makes with it.
LEMMA FillIs ==
    ASSUME NEW S, NEW x \in S, NEW n \in Int, NEW m \in Nat, m = IF n > 0 THEN n ELSE 0
    PROVE  Fill(x, n) \in Seq(S) /\ Len(Fill(x, n)) = m /\ \A j \in 1..m : Fill(x, n)[j] = x
<1>1. Fill(x, n) = [i \in 1..m |-> x]
  BY DEF Fill
<1> QED
  BY <1>1

LEMMA PaddedIs ==
    ASSUME NEW S, Space \in S, NEW z \in S, NEW s \in Seq(S), NEW w \in Nat, NEW left \in BOOLEAN
    PROVE  /\ Padded(s, w, left, z) \in Seq(S)
           /\ \E a, b : Laid(Padded(s, w, left, z), s, a, b, z, w, left)
<1> DEFINE L == Len(s)
           m == IF w - L > 0 THEN w - L ELSE 0
           F == Padded(s, w, left, z)
<1>1. L \in Nat /\ m \in Nat /\ w - L \in Int /\ m = IF w - L > 0 THEN w - L ELSE 0
  OBVIOUS
<1>2. L + m >= w /\ (L + m > w => m = 0)
  BY <1>1
<1> HIDE DEF m, L
<1>3. CASE left
  <2> DEFINE e == Fill(Space, w - L)
  <2>1. e \in Seq(S) /\ Len(e) = m /\ \A j \in 1..m : e[j] = Space
    BY <1>1, FillIs
  <2>2. F = s \o e
    BY <1>3, Zenon DEF Padded, L, Space
  <2> HIDE DEF e, F
  <2>3. /\ F \in Seq(S) /\ Len(F) = L + m /\ (\A j \in 1..L : F[j] = s[j])
        /\ (\A j \in 1..m : F[L + j] = e[j])
    <3>1. s \in Seq(S) /\ e \in Seq(S)
      BY <2>1
    <3>2. /\ s \o e \in Seq(S) /\ Len(s \o e) = Len(s) + Len(e)
          /\ (\A j \in 1..Len(s) : (s \o e)[j] = s[j])
          /\ (\A j \in 1..Len(e) : (s \o e)[Len(s) + j] = e[j])
      BY <3>1, Joined
    <3> QED
      BY <2>1, <2>2, <3>2, Zenon DEF L
  <2>4. 0 + L <= Len(F) /\ Len(F) = 0 + L + m /\ 0 \in Nat
    BY <1>1, <2>3
  <2>5. \A j \in 1..L : F[0 + j] = s[j]
    <3>1. \A j \in 1..L : 0 + j = j
      BY <1>1
    <3> QED
      BY <2>3, <3>1
  <2>6. \A j \in 1..m : F[0 + L + j] = Space
    <3>1. 0 + L = L
      BY <1>1
    <3> QED
      BY <2>1, <2>3, <3>1
  <2>7. \A j \in 1..0 : F[j] = z
    OBVIOUS
  <2>8. Shape(F, s, 0, m, z)
    BY <1>1, <2>4, <2>5, <2>6, <2>7, Zenon DEF Shape, Within, L
  <2>9. Len(F) >= w /\ (Len(F) > w => m = 0)
    BY <1>2, <2>3
  <2>10. Laid(F, s, 0, m, z, w, left)
    BY <1>3, <2>8, <2>9, Zenon DEF Laid
  <2> QED
    BY <2>3, <2>10, Zenon DEF F
<1>4. CASE ~left
  <2> DEFINE e == Fill(z, w - L)
  <2>1. e \in Seq(S) /\ Len(e) = m /\ \A j \in 1..m : e[j] = z
    BY <1>1, FillIs
  <2>2. F = e \o s
    BY <1>4, Zenon DEF Padded, L
  <2> HIDE DEF e, F
  <2>3. /\ F \in Seq(S) /\ Len(F) = m + L /\ (\A j \in 1..m : F[j] = e[j])
        /\ (\A j \in 1..L : F[m + j] = s[j])
    <3>1. s \in Seq(S) /\ e \in Seq(S)
      BY <2>1
    <3>2. /\ e \o s \in Seq(S) /\ Len(e \o s) = Len(e) + Len(s)
          /\ (\A j \in 1..Len(e) : (e \o s)[j] = e[j])
          /\ (\A j \in 1..Len(s) : (e \o s)[Len(e) + j] = s[j])
      BY <3>1, Joined
    <3> QED
      BY <2>1, <2>2, <3>2, Zenon DEF L
  <2>4. m + L <= Len(F) /\ Len(F) = m + L + 0 /\ 0 \in Nat
    BY <1>1, <2>3
  <2>6. \A j \in 1..0 : F[m + L + j] = Space
    OBVIOUS
  <2>7. \A j \in 1..m : F[j] = z
    BY <2>1, <2>3, Zenon
  <2>8. Shape(F, s, m, 0, z)
    BY <1>1, <2>3, <2>4, <2>6, <2>7, Zenon DEF Shape, Within, L
  <2>9. Len(F) >= w /\ (Len(F) > w => m = 0)
    BY <1>1, <1>2, <2>3
  <2>10. Laid(F, s, m, 0, z, w, left)
    BY <1>4, <2>8, <2>9, Zenon DEF Laid
  <2> QED
    BY <2>3, <2>10, Zenon DEF F
<1> QED
  BY <1>3, <1>4

\* Where a character of a field comes from.
LEMMA FromShape ==
    ASSUME NEW F, NEW s, Len(s) \in Nat, NEW a, NEW b, NEW z, Shape(F, s, a, b, z), NEW i \in 1..Len(F)
    PROVE  \/ i \in 1..a /\ F[i] = z
           \/ \E j \in 1..Len(s) : i = a + j /\ F[i] = s[j]
           \/ \E j \in 1..b : i = a + Len(s) + j /\ F[i] = Space
<1> DEFINE L == Len(s)
<1>1. /\ a \in Nat /\ b \in Nat /\ L \in Nat /\ i \in 1..(a + L + b)
  BY DEF Shape
<1>2. /\ \A j \in 1..L : F[a + j] = s[j]
      /\ \A j \in 1..a : F[j] = z
      /\ \A j \in 1..b : F[a + L + j] = Space
  BY DEF Shape, Within
<1> HIDE DEF L
<1>3. CASE i <= a
  <2>1. i \in 1..a
    BY <1>1, <1>3
  <2> QED
    BY <1>2, <2>1
<1>4. CASE ~(i <= a) /\ i <= a + L
  <2>1. i - a \in 1..L /\ i = a + (i - a)
    BY <1>1, <1>4
  <2> QED
    BY <1>2, <2>1 DEF L
<1>5. CASE ~(i <= a + L)
  <2>1. i - a - L \in 1..b /\ i = a + L + (i - a - L)
    BY <1>1, <1>5
  <2>2. F[a + L + (i - a - L)] = Space
    BY <1>2, <2>1
  <2> QED
    BY <2>1, <2>2 DEF L
<1> QED
  BY <1>3, <1>4, <1>5

\* What a field of a number shall be.
Right(F, r, value, w, left, zero) ==
    /\ Len(F) \in Nat /\ Len(F) > 0 /\ Len(F) >= w
    /\ w > 0 => F[IF left THEN 1 ELSE Len(F)] # Space
    /\ Read(F, r) = value
    /\ Len(F) > w => F = <<"0">> \/ (F[1] # "0" /\ F[1] # Space /\ F[Len(F)] # Space)
    /\ zero => Space \notin ToSet(F)

\* A numeral behind its sign.
Signs(s, d, p) ==
    /\ p \in {0, 1} /\ Len(s) = p + Len(d)
    /\ \A j \in 1..Len(d) : s[p + j] = d[j]
    /\ p = 1 => s[1] = "-"

\* Neither a fill nor a sign is read as a digit.
LEMMA SpaceIsNoDigit == Space \notin Digits /\ "-" \notin Digits /\ Space # "-"
<1>1. " " # "-" /\ " " \in {" ", "-", "*", "LF", "NUL"} /\ "-" \in {" ", "-", "*", "LF", "NUL"}
  BY Zenon
<1>2. " " \notin Digits /\ "-" \notin Digits
  BY <1>1, FiguresAreDigits, Zenon
<1> QED
  BY <1>1, <1>2, Zenon DEF Space

LEMMA SignedIs ==
    ASSUME NEW S, Digits \cup {"-"} \subseteq S, NEW d \in Seq(Digits), NEW minus \in BOOLEAN
    PROVE  LET s == IF minus THEN <<"-">> \o d ELSE d
           IN  s \in Seq(S) /\ Signs(s, d, IF minus THEN 1 ELSE 0)
<1> DEFINE s == <<"-">> \o d
<1>1. <<"-">> \in Seq(S) /\ d \in Seq(S) /\ Len(<<"-">>) = 1 /\ <<"-">>[1] = "-" /\ Len(d) \in Nat
  OBVIOUS
<1>2. /\ s \in Seq(S) /\ Len(s) = 1 + Len(d)
      /\ (\A j \in 1..1 : s[j] = <<"-">>[j])
      /\ \A j \in 1..Len(d) : s[1 + j] = d[j]
  <2>1. <<"-">> \in Seq(S) /\ d \in Seq(S)
    BY <1>1
  <2>2. /\ s \in Seq(S) /\ Len(s) = Len(<<"-">>) + Len(d)
        /\ (\A j \in 1..Len(<<"-">>) : s[j] = <<"-">>[j])
        /\ \A j \in 1..Len(d) : s[Len(<<"-">>) + j] = d[j]
    BY <2>1, Joined
  <2> QED
    BY <1>1, <2>2, Zenon
<1>3. s[1] = "-"
  BY <1>1, <1>2
<1> HIDE DEF s
<1>4. Signs(s, d, 1)
  BY <1>2, <1>3 DEF Signs
<1>5. Signs(d, d, 0)
  <2>1. \A j \in 1..Len(d) : 0 + j = j
    BY <1>1
  <2> QED
    BY <1>1, <2>1 DEF Signs
<1> QED
  BY <1>1, <1>2, <1>4, <1>5 DEF s

\* The value of a field of a numeral.
LEMMA FieldRead ==
    ASSUME NEW S, NEW F \in Seq(S), NEW s, NEW d, NEW p, NEW a, NEW b, NEW z, NEW v \in Nat, NEW r \in Radices, NEW c,
           d = Numeral(v, r, c), Signs(s, d, p), Shape(F, s, a, b, z), z = Space \/ z = "0"
    PROVE  Read(F, r) = IF p = 1 THEN -v ELSE v
<1> DEFINE l == Len(d)
           n == Len(F)
<1>1. /\ d \in Seq(Digits)
      /\ \A t, e, g : Len(t) \in Nat /\ Within(d, t, e) /\ Sums(t, r, g) /\ g[e] = 0 => g[e + l] = v
  BY NumeralRead
<1>2. l \in Nat /\ n \in Nat /\ a \in Nat /\ b \in Nat /\ p \in {0, 1} /\ Len(s) = p + l
  BY <1>1 DEF Signs, Shape
<1>3. n = (a + p + l) + b /\ Len(s) \in Nat /\ r \in Int
  BY <1>2 DEF Shape, Radices
<1>4. /\ \A j \in 1..l : s[p + j] = d[j]
      /\ \A j \in 1..Len(s) : F[a + j] = s[j]
      /\ \A j \in 1..a : F[j] = z
      /\ \A j \in 1..b : F[a + Len(s) + j] = Space
  BY DEF Signs, Shape, Within
<1>5. PICK g : Sums(F, r, g) /\ Read(F, r) = IF "-" \in ToSet(F) THEN -g[n] ELSE g[n]
  BY <1>3, Summed
<1>6. g[0] = 0
  BY <1>5 DEF Sums
<1> HIDE DEF l, n
<1>7. g[0 + a] = g[0]
  <2>1. \A j \in 1..a : F[0 + j] \notin Digits \/ (g[0] = 0 /\ F[0 + j] = "0")
    <3> SUFFICES ASSUME NEW j \in 1..a
                 PROVE  F[0 + j] \notin Digits \/ (g[0] = 0 /\ F[0 + j] = "0")
      OBVIOUS
    <3>1. 0 + j = j
      BY <1>2
    <3>2. F[0 + j] = z
      BY <1>4, <3>1
    <3> QED
      BY <1>6, <3>2, SpaceIsNoDigit
  <2>3. Idle(F, g, 0, a)
    BY <2>1 DEF Idle
  <2>2. 0 + a <= Len(F) /\ 0 \in Nat /\ a \in Nat /\ Len(F) \in Nat
    BY <1>2, <1>3 DEF n
  <2> QED
    BY <1>3, <1>5, <2>2, <2>3, SumsStay
<1>8. g[a + p] = g[a]
  <2>1. \A j \in 1..p : F[a + j] \notin Digits
    <3> SUFFICES ASSUME NEW j \in 1..p
                 PROVE  F[a + j] \notin Digits
      OBVIOUS
    <3>1. j = 1 /\ p = 1 /\ j \in 1..Len(s)
      BY <1>2
    <3>2. F[a + j] = "-"
      BY <1>4, <3>1 DEF Signs
    <3> QED
      BY <3>2, SpaceIsNoDigit
  <2>3. Idle(F, g, a, p)
    BY <2>1 DEF Idle
  <2>2. a + p <= Len(F) /\ p \in Nat /\ Len(F) \in Nat /\ a \in Nat
    BY <1>2, <1>3 DEF n
  <2> QED
    BY <1>3, <1>5, <2>2, <2>3, SumsStay
<1>9. g[(a + p) + l] = v
  <2>1. ASSUME NEW j \in 1..l
        PROVE  F[(a + p) + j] = d[j]
    <3>1. (a + p) + j = a + (p + j) /\ p + j \in 1..Len(s)
      BY <1>2
    <3> QED
      BY <1>4, <3>1
  <2>2. a + p \in Nat /\ (a + p) + l <= n
    BY <1>2, <1>3
  <2>3. Within(d, F, a + p)
    BY <2>1, <2>2 DEF Within, l, n
  <2>4. g[a + p] = 0
    <3>1. 0 + a = a
      BY <1>2
    <3> QED
      BY <1>6, <1>7, <1>8, <3>1
  <2> QED
    BY <1>1, <1>2, <1>5, <2>3, <2>4 DEF n
<1>10. g[n] = v
  <2> DEFINE e == (a + p) + l
  <2>1. e \in Nat /\ e + b = n /\ e = a + Len(s) /\ e + b <= n
    BY <1>2, <1>3
  <2>2. g[e] = v
    BY <1>9
  <2> HIDE DEF e
  <2>3. \A j \in 1..b : F[e + j] \notin Digits
    BY <1>4, <2>1, SpaceIsNoDigit
  <2>5. Idle(F, g, e, b)
    BY <2>3 DEF Idle
  <2>6. e + b <= Len(F) /\ b \in Nat /\ Len(F) \in Nat
    BY <1>2, <2>1 DEF n
  <2>4. g[e + b] = g[e]
    BY <1>3, <1>5, <2>1, <2>5, <2>6, SumsStay
  <2> QED
    BY <2>1, <2>2, <2>4
<1>11. CASE p = 1
  <2>1. a + 1 \in 1..n /\ 1 \in 1..Len(s)
    BY <1>2, <1>3, <1>11
  <2>2. F[a + 1] = "-"
    BY <1>4, <1>11, <2>1 DEF Signs
  <2>3. "-" \in ToSet(F)
    <3>1. a + 1 \in DOMAIN F
      BY <2>1 DEF n
    <3> QED
      BY <2>2, <3>1, Zenon DEF ToSet
  <2> QED
    BY <1>5, <1>10, <1>11, <2>3
<1>12. CASE p # 1
  <2>1. p = 0 /\ Len(s) = l
    BY <1>2, <1>12
  <2>2. \A j \in 1..Len(s) : s[j] \in Digits
    <3> SUFFICES ASSUME NEW j \in 1..Len(s)
                 PROVE  s[j] \in Digits
      OBVIOUS
    <3>1. 0 + j = j /\ j \in 1..l
      BY <2>1
    <3>2. s[j] = d[j]
      BY <1>4, <2>1, <3>1
    <3> QED
      BY <1>1, <3>1, <3>2 DEF l
  <2>3. ASSUME NEW i \in 1..n
        PROVE  F[i] # "-"
    <3>1. \/ F[i] = z \/ F[i] = Space
          \/ \E j \in 1..Len(s) : F[i] = s[j]
      BY <1>3, FromShape DEF n
    <3>2. z # "-" /\ Space # "-"
      BY SpaceIsNoDigit
    <3> QED
      BY <2>2, <3>1, <3>2, SpaceIsNoDigit
  <2>4. "-" \notin ToSet(F)
    <3>1. DOMAIN F = 1..n
      BY DEF n
    <3> QED
      BY <2>3, <3>1, Zenon DEF ToSet
  <2> QED
    BY <1>5, <1>10, <1>12, <2>4
<1> QED
  BY <1>11, <1>12

\* The field of a number is right, and every character of it is a digit, a sign or a blank.
NumberRight(v, r, minus, d, w, left, zero) ==
    LET F == Padded(IF minus THEN <<"-">> \o d ELSE d, w, left, IF zero THEN "0" ELSE Space)
    IN  F \in Seq(Digits \cup {"-", Space}) /\ Right(F, r, IF minus THEN -v ELSE v, w, left, zero)

LEMMA NumberField ==
    ASSUME NEW r \in Radices, NEW v \in Nat, NEW c, NEW minus \in BOOLEAN, minus => v # 0,
           NEW zero \in BOOLEAN, NEW left \in BOOLEAN, zero => ~left, NEW w \in Nat, NEW d, d = Numeral(v, r, c)
    PROVE  NumberRight(v, r, minus, d, w, left, zero)
<1> DEFINE S == Digits \cup {"-", Space}
           s == IF minus THEN <<"-">> \o d ELSE d
           z == IF zero THEN "0" ELSE Space
           p == IF minus THEN 1 ELSE 0
           F == Padded(s, w, left, z)
<1>1. /\ d \in Seq(Digits) /\ Len(d) > 0 /\ Len(d) \in Nat
      /\ v # 0 => d[1] # "0"
      /\ v = 0 => d = <<"0">>
  BY NumeralRead
<1>2. Digits \subseteq S /\ Digits \cup {"-"} \subseteq S /\ Space \in S /\ z \in S /\ (z = Space \/ z = "0")
  BY DigitValues
<1>3. s \in Seq(S) /\ Signs(s, d, p) /\ p \in {0, 1} /\ (p = 1 <=> minus)
  <2>1. s \in Seq(S) /\ Signs(s, d, p)
    <3>1. d \in Seq(Digits) /\ Digits \cup {"-"} \subseteq S
      BY <1>1, <1>2
    <3> HIDE DEF S
    <3> QED
      BY <3>1, SignedIs
  <2> QED
    BY <2>1
<1>4. F \in Seq(S) /\ \E a, b : Laid(F, s, a, b, z, w, left)
  <2> HIDE DEF S, s, z
  <2>1. Space \in S /\ z \in S /\ s \in Seq(S)
    BY <1>2, <1>3
  <2> QED
    BY <2>1, PaddedIs
<1> HIDE DEF F, S, s, z, p
<1>6. PICK a, b : Laid(F, s, a, b, z, w, left)
  BY <1>4
<1>7. Shape(F, s, a, b, z)
  BY <1>6 DEF Laid
<1>8. Read(F, r) = IF p = 1 THEN -v ELSE v
  BY <1>1, <1>2, <1>3, <1>4, <1>7, FieldRead
<1> DEFINE l == Len(d)
           L == Len(s)
           n == Len(F)
<1>9. /\ l \in Nat /\ l > 0 /\ L = p + l /\ p \in {0, 1} /\ a \in Nat /\ b \in Nat /\ n = a + L + b
      /\ L \in Nat /\ n \in Nat
      /\ n >= w /\ (n > w => a = 0 /\ b = 0) /\ (left => a = 0) /\ (~left => b = 0)
  BY <1>1, <1>3, <1>6, <1>7 DEF Signs, Shape, Laid
<1> HIDE DEF l, L, n
\* The first character and the last.
<1>10. L > 0 /\ n > 0 /\ 1 \in 1..L /\ L \in 1..L
  BY <1>9
<1>11. s[L] \in Digits
  <2>1. l \in 1..l /\ p + l = L
    BY <1>9
  <2>2. s[p + l] = d[l]
    BY <1>3, <2>1 DEF Signs, l
  <2> QED
    BY <1>1, <2>1, <2>2 DEF l
<1>12. s[1] # Space /\ (s[1] = "0" => p = 0 /\ d = <<"0">>)
  <2>1. CASE p = 1
    BY <1>3, <2>1, SpaceIsNoDigit, DigitValues DEF Signs
  <2>2. CASE p = 0
    <3>1. 1 \in 1..l /\ 0 + 1 = 1
      BY <1>9
    <3>2. s[1] = d[1] /\ d[1] \in Digits
      BY <1>1, <1>3, <2>2, <3>1 DEF Signs, l
    <3> QED
      BY <1>1, <2>2, <3>2, SpaceIsNoDigit
  <2> QED
    BY <1>9, <2>1, <2>2
<1>13. \A j \in 1..L : F[a + j] = s[j]
  BY <1>7 DEF Shape, Within, L
<1>14. a = 0 => F[1] = s[1]
  <2>1. 0 + 1 = 1
    OBVIOUS
  <2> QED
    BY <1>10, <1>13, <2>1
<1>15. b = 0 => F[n] = s[L]
  <2>1. b = 0 => n = a + L
    BY <1>9
  <2> QED
    BY <1>10, <1>13, <2>1
<1>16. w > 0 => F[IF left THEN 1 ELSE n] # Space
  BY <1>9, <1>11, <1>12, <1>14, <1>15, SpaceIsNoDigit
<1>17. n > w => F = <<"0">> \/ (F[1] # "0" /\ F[1] # Space /\ F[n] # Space)
  <2> SUFFICES ASSUME n > w
               PROVE  F = <<"0">> \/ (F[1] # "0" /\ F[1] # Space /\ F[n] # Space)
    OBVIOUS
  <2>1. a = 0 /\ b = 0 /\ n = L /\ F[1] = s[1] /\ F[n] = s[L]
    BY <1>9, <1>14, <1>15
  <2>2. CASE s[1] # "0"
    BY <1>11, <1>12, <2>1, <2>2, SpaceIsNoDigit
  <2>3. CASE s[1] = "0"
    <3>1. p = 0 /\ d = <<"0">>
      BY <1>12, <2>3
    <3>2. l = 1
      BY <3>1 DEF l
    <3>3. n = 1
      BY <1>9, <2>1, <3>1, <3>2
    <3>4. F = <<F[1]>>
      BY <1>4, <3>3 DEF n
    <3> QED
      BY <2>1, <2>3, <3>4
  <2> QED
    BY <2>2, <2>3
<1>18. zero => Space \notin ToSet(F)
  <2> SUFFICES ASSUME zero
               PROVE  Space \notin ToSet(F)
    OBVIOUS
  <2>1. b = 0 /\ z = "0" /\ "0" # Space /\ 1..0 = {}
    BY <1>9, SpaceIsNoDigit, DigitValues DEF z
  <2>2. ASSUME NEW i \in 1..n
        PROVE  F[i] # Space
    <3>1. \/ F[i] = z
          \/ \E j \in 1..L : F[i] = s[j]
          \/ \E j \in 1..b : F[i] = Space
      <4>1. Len(s) \in Nat /\ i \in 1..Len(F)
        BY <1>9 DEF L, n
      <4> QED
        BY <1>7, <4>1, FromShape DEF L
    <3>2. ASSUME NEW j \in 1..L
          PROVE  s[j] # Space
      <4>1. CASE p = 1 /\ j = 1
        BY <1>12, <4>1
      <4>2. CASE ~(p = 1 /\ j = 1)
        <5>1. j - p \in 1..l /\ p + (j - p) = j
          BY <1>9, <4>2
        <5>2. s[j] = d[j - p]
          BY <1>3, <5>1 DEF Signs, l
        <5>3. d[j - p] \in Digits
          BY <1>1, <5>1 DEF l
        <5> QED
          BY <5>2, <5>3, SpaceIsNoDigit
      <4> QED
        BY <4>1, <4>2
    <3> QED
      BY <2>1, <3>1, <3>2
  <2>3. DOMAIN F = 1..n
    BY <1>4 DEF n
  <2> QED
    BY <2>2, <2>3, Zenon DEF ToSet
<1>19. Right(F, r, IF p = 1 THEN -v ELSE v, w, left, zero)
  BY <1>8, <1>9, <1>10, <1>16, <1>17, <1>18, Zenon DEF Right, n
<1>20. Right(F, r, IF minus THEN -v ELSE v, w, left, zero)
  BY <1>3, <1>19, Zenon
<1> QED
  BY <1>4, <1>20, Zenon DEF NumberRight, F, s, z, S

-----------------------------------------------------------------------------
\* The fields of strings, and the format of a call.

\* A longer start of a sequence has one more element.
LEMMA SubSeqGrows ==
    ASSUME NEW S, NEW s \in Seq(S), NEW m \in Nat, m < Len(s)
    PROVE  SubSeq(s, 1, m + 1) = Append(SubSeq(s, 1, m), s[m + 1])
<1>1. SubSeq(s, 1, m) \in Seq(S) /\ Len(SubSeq(s, 1, m)) = m /\ \A i \in 1..m : SubSeq(s, 1, m)[i] = s[i]
  OBVIOUS
<1>2. /\ SubSeq(s, 1, m + 1) \in Seq(S) /\ Len(SubSeq(s, 1, m + 1)) = m + 1
      /\ \A i \in 1..(m + 1) : SubSeq(s, 1, m + 1)[i] = s[i]
  OBVIOUS
<1> QED
  BY <1>1, <1>2

\* Without its blanks a field is the string.
LEMMA KeptField ==
    ASSUME NEW S, NEW s \in Seq(S), \A j \in 1..Len(s) : s[j] # Space,
           NEW F, Len(F) \in Nat, NEW a, NEW b, Shape(F, s, a, b, Space)
    PROVE  Kept(F) = s
<1> DEFINE L == Len(s)
           n == Len(F)
           Cut(i) == IF i <= a THEN 0 ELSE IF i <= a + L THEN i - a ELSE L
           e(i) == SubSeq(s, 1, Cut(i))
           Fits(f) == f = [i \in 0..Len(F) |-> IF i = 0 THEN <<>>
                                               ELSE IF F[i] = " " THEN f[i - 1] ELSE Append(f[i - 1], F[i])]
           g == CHOOSE f : Fits(f)
           h == [i \in 0..n |-> e(i)]
<1>1. L \in Nat /\ n \in Nat /\ a \in Nat /\ b \in Nat /\ n = a + L + b
  BY DEF Shape
<1>2. /\ \A j \in 1..L : F[a + j] = s[j]
      /\ \A j \in 1..a : F[j] = Space
      /\ \A j \in 1..b : F[a + L + j] = Space
  BY DEF Shape, Within
<1>3. Cut(0) = 0 /\ Cut(n) = L
  BY <1>1
<1>4. e(0) = <<>> /\ e(n) = s
  <2>1. SubSeq(s, 1, 0) = <<>> /\ SubSeq(s, 1, Len(s)) = s
    OBVIOUS
  <2> QED
    BY <1>3, <2>1
<1>5. ASSUME NEW i \in 1..n
      PROVE  e(i) = IF F[i] = Space THEN e(i - 1) ELSE Append(e(i - 1), F[i])
  <2> DEFINE j == i - a
             m == j - 1
  <2>1. CASE i <= a
    <3>1. i \in 1..a /\ Cut(i) = 0 /\ Cut(i - 1) = 0
      BY <1>1, <2>1
    <3> HIDE DEF Cut
    <3> QED
      BY <1>2, <3>1
  <2>2. CASE ~(i <= a) /\ i <= a + L
    <3>1. j \in 1..L /\ a + j = i /\ m \in Nat /\ m + 1 = j /\ m < L
      BY <1>1, <2>2
    <3>2. Cut(i) = m + 1 /\ Cut(i - 1) = m
      BY <1>1, <2>2
    <3> HIDE DEF Cut, j, m
    <3>3. F[i] = s[m + 1] /\ F[i] # Space
      BY <1>2, <3>1
    <3>4. SubSeq(s, 1, m + 1) = Append(SubSeq(s, 1, m), s[m + 1])
      BY <3>1, SubSeqGrows
    <3> QED
      BY <3>2, <3>3, <3>4, Zenon
  <2>3. CASE ~(i <= a + L)
    <3>1. i - (a + L) \in 1..b /\ a + L + (i - (a + L)) = i /\ Cut(i) = L /\ Cut(i - 1) = L
      BY <1>1, <2>3
    <3>2. F[i] = Space
      BY <1>2, <3>1
    <3> HIDE DEF Cut
    <3> QED
      BY <3>1, <3>2, Zenon
  <2> QED
    BY <2>1, <2>2, <2>3
<1> HIDE DEF e
<1>6. h[n] = e(n) /\ h[0] = <<>> /\ \A i \in 1..n : h[i] = e(i) /\ h[i - 1] = e(i - 1)
  BY <1>1, <1>4
<1>7. Fits(h)
  <2>1. ASSUME NEW i \in 0..n
        PROVE  h[i] = IF i = 0 THEN <<>> ELSE IF F[i] = " " THEN h[i - 1] ELSE Append(h[i - 1], F[i])
    <3>1. i = 0 \/ (i # 0 /\ i \in 1..n)
      BY <1>1
    <3> QED
      BY <1>5, <1>6, <3>1, Zenon DEF Space
  <2> HIDE DEF n
  <2>2. h = [i \in 0..n |-> IF i = 0 THEN <<>> ELSE IF F[i] = " " THEN h[i - 1] ELSE Append(h[i - 1], F[i])]
    BY <2>1, Zenon
  <2> QED
    BY <2>2, Zenon DEF n
<1>8. Fits(g)
  <2> HIDE DEF Fits
  <2> QED
    BY <1>7, Zenon
<1>9. Kept(F) = g[n]
  BY Zenon DEF Kept
<1> HIDE DEF g, h
<1>10. g[0] = <<>> /\ \A i \in 1..n : g[i] = IF F[i] = Space THEN g[i - 1] ELSE Append(g[i - 1], F[i])
  <2>1. \A i \in 0..n : g[i] = IF i = 0 THEN <<>> ELSE IF F[i] = " " THEN g[i - 1] ELSE Append(g[i - 1], F[i])
    <3> HIDE DEF n
    <3>1. g = [i \in 0..n |-> IF i = 0 THEN <<>> ELSE IF F[i] = " " THEN g[i - 1] ELSE Append(g[i - 1], F[i])]
      BY <1>8, Zenon DEF n
    <3> QED
      BY <3>1, Zenon
  <2>2. 0 \in 0..n /\ \A i \in 1..n : i \in 0..n /\ i # 0
    BY <1>1
  <2> QED
    BY <2>1, <2>2, Zenon DEF Space
<1> HIDE DEF n, Fits
<1> DEFINE T == {i \in Nat : i <= n => g[i] = e(i)}
<1>11. 0 \in T
  BY <1>4, <1>10
<1>12. ASSUME NEW i \in Nat, i \in T
       PROVE  i + 1 \in T
  <2> SUFFICES ASSUME i + 1 <= n
               PROVE  g[i + 1] = e(i + 1)
    OBVIOUS
  <2>1. i + 1 \in 1..n /\ (i + 1) - 1 = i /\ g[i] = e(i)
    BY <1>1, <1>12
  <2>2. g[i + 1] = IF F[i + 1] = Space THEN g[i] ELSE Append(g[i], F[i + 1])
    BY <1>10, <2>1
  <2>3. e(i + 1) = IF F[i + 1] = Space THEN e(i) ELSE Append(e(i), F[i + 1])
    BY <1>5, <2>1
  <2> QED
    BY <2>1, <2>2, <2>3, Zenon
<1> HIDE DEF T
<1>13. n \in T
  BY <1>1, <1>11, <1>12, Induction
<1> QED
  BY <1>1, <1>4, <1>9, <1>13 DEF T

\* What a field of a string shall be.
RightText(F, s, w, left) ==
    /\ Len(F) >= w
    /\ w > 0 /\ s # <<>> => F[IF left THEN 1 ELSE Len(F)] # Space
    /\ Kept(F) = s

\* The field of a string without blanks.
LEMMA TextField ==
    ASSUME NEW S, NEW s \in Seq(S), \A j \in 1..Len(s) : s[j] # Space, Space \in S,
           NEW left \in BOOLEAN, NEW w \in Nat
    PROVE  Padded(s, w, left, Space) \in Seq(S) /\ RightText(Padded(s, w, left, Space), s, w, left)
<1> DEFINE F == Padded(s, w, left, Space)
           L == Len(s)
           n == Len(F)
<1>1. F \in Seq(S) /\ \E a, b : Laid(F, s, a, b, Space, w, left)
  BY PaddedIs
<1> HIDE DEF F
<1>2. PICK a, b : Laid(F, s, a, b, Space, w, left)
  BY <1>1
<1>3. Shape(F, s, a, b, Space)
  BY <1>2 DEF Laid
<1>4. /\ L \in Nat /\ n \in Nat /\ a \in Nat /\ b \in Nat /\ n = a + L + b
      /\ n >= w /\ (left => a = 0) /\ (~left => b = 0)
  BY <1>1, <1>2, <1>3 DEF Laid, Shape
<1>5. \A j \in 1..L : F[a + j] = s[j]
  BY <1>3 DEF Shape, Within
<1>6. Kept(F) = s
  BY <1>3, <1>4, KeptField
<1>7. s # <<>> => L > 0
  OBVIOUS
<1> HIDE DEF L, n
<1>8. ASSUME w > 0, s # <<>>
      PROVE  F[IF left THEN 1 ELSE n] # Space
  <2>1. 1 \in 1..L /\ L \in 1..L
    BY <1>4, <1>7, <1>8
  <2>2. CASE left
    <3>1. a + 1 = 1
      BY <1>4, <2>2
    <3> QED
      BY <1>5, <2>1, <2>2, <3>1 DEF L
  <2>3. CASE ~left
    <3>1. a + L = n
      BY <1>4, <2>3
    <3> QED
      BY <1>5, <2>1, <2>3, <3>1 DEF L
  <2> QED
    BY <2>2, <2>3
<1> QED
  BY <1>1, <1>4, <1>6, <1>8, Zenon DEF RightText, n, F

\* Without a line feed xputc sends what it is given.
LEMMA NoLineFeed ==
    ASSUME NEW S, NEW s \in Seq(S), \A i \in 1..Len(s) : s[i] # "LF"
    PROVE  CrLf(s) = s
<1> DEFINE n == Len(s)
           q == [i \in 1..n |-> <<s[i]>>]
           e(i) == SubSeq(s, 1, i)
           h == [i \in 1..n |-> e(i)]
           Fits(f) == f = [i \in 1..Len(q) |-> IF i = 1 THEN q[i] ELSE f[i - 1] \o q[i]]
           flatten == CHOOSE f : Fits(f)
<1>1. n \in Nat /\ DOMAIN s = 1..n
  OBVIOUS
<1>2. CrLf(s) = FlattenSeq(q)
  <2>1. \A i \in 1..n : (IF s[i] = "LF" THEN <<"CR", "LF">> ELSE <<s[i]>>) = <<s[i]>>
    OBVIOUS
  <2> HIDE DEF n
  <2>2. [i \in 1..n |-> IF s[i] = "LF" THEN <<"CR", "LF">> ELSE <<s[i]>>] = q
    BY <2>1
  <2> HIDE DEF q
  <2> QED
    BY <1>1, <2>2, Zenon DEF CrLf
<1>3. Len(q) = n /\ \A i \in 1..n : q[i] = <<s[i]>>
  OBVIOUS
<1>4. \A i \in 1..n : e(i) = IF i = 1 THEN <<s[i]>> ELSE e(i - 1) \o <<s[i]>>
  <2> SUFFICES ASSUME NEW i \in 1..n
               PROVE  e(i) = IF i = 1 THEN <<s[i]>> ELSE e(i - 1) \o <<s[i]>>
    OBVIOUS
  <2>1. CASE i = 1
    <3>1. SubSeq(s, 1, 0 + 1) = Append(SubSeq(s, 1, 0), s[0 + 1])
      <4>1. 0 \in Nat /\ 0 < Len(s)
        OBVIOUS
      <4> QED
        BY <4>1, SubSeqGrows
    <3>2. SubSeq(s, 1, 0) = <<>> /\ 0 + 1 = 1
      OBVIOUS
    <3>3. e(1) = Append(<<>>, s[1])
      BY <3>1, <3>2
    <3>4. Append(<<>>, s[1]) = <<s[1]>>
      OBVIOUS
    <3> QED
      BY <2>1, <3>3, <3>4
  <2>2. CASE i # 1
    <3>1. SubSeq(s, 1, (i - 1) + 1) = Append(SubSeq(s, 1, i - 1), s[(i - 1) + 1])
      <4>1. i - 1 \in Nat /\ i - 1 < Len(s)
        OBVIOUS
      <4> QED
        BY <4>1, SubSeqGrows
    <3>2. (i - 1) + 1 = i
      OBVIOUS
    <3>3. e(i) = Append(e(i - 1), s[i]) /\ e(i - 1) \in Seq(S)
      BY <3>1, <3>2
    <3>4. Append(e(i - 1), s[i]) = e(i - 1) \o <<s[i]>>
      <4> HIDE DEF e
      <4> QED
        BY <3>3
    <3> QED
      BY <2>2, <3>3, <3>4, Zenon
  <2> QED
    BY <2>1, <2>2
<1>5. e(n) = s
  OBVIOUS
<1> HIDE DEF q, e
<1>6. CASE n = 0
  <2>1. q = <<>> /\ s = <<>>
    BY <1>6 DEF q
  <2> QED
    BY <1>2, <1>3, <1>6, <2>1 DEF FlattenSeq
<1>7. CASE n # 0
  <2>1. Fits(h)
    <3>1. \A i \in 1..n : h[i] = e(i) /\ (i # 1 => h[i - 1] = e(i - 1))
      OBVIOUS
    <3>2. \A i \in 1..n : h[i] = IF i = 1 THEN q[i] ELSE h[i - 1] \o q[i]
      BY <1>3, <1>4, <3>1
    <3>3. h = [i \in 1..n |-> h[i]]
      OBVIOUS
    <3> HIDE DEF h
    <3> QED
      BY <1>3, <3>2, <3>3
  <2>2. Fits(flatten)
    <3> HIDE DEF Fits
    <3> QED
      BY <2>1, Zenon
  <2>3. FlattenSeq(q) = flatten[Len(q)]
    BY <1>3, <1>7, Zenon DEF FlattenSeq
  <2> HIDE DEF flatten
  <2>4. \A i \in 1..n : flatten[i] = IF i = 1 THEN <<s[i]>> ELSE flatten[i - 1] \o <<s[i]>>
    BY <1>3, <2>2
  <2> DEFINE T == {i \in Nat : i \in 1..n => flatten[i] = e(i)}
  <2>5. 0 \in T
    OBVIOUS
  <2>6. ASSUME NEW i \in Nat, i \in T
        PROVE  i + 1 \in T
    <3> SUFFICES ASSUME i + 1 \in 1..n
                 PROVE  flatten[i + 1] = e(i + 1)
      OBVIOUS
    <3>1. flatten[i + 1] = IF i + 1 = 1 THEN <<s[i + 1]>> ELSE flatten[(i + 1) - 1] \o <<s[i + 1]>>
      BY <2>4
    <3>2. e(i + 1) = IF i + 1 = 1 THEN <<s[i + 1]>> ELSE e((i + 1) - 1) \o <<s[i + 1]>>
      BY <1>4
    <3>3. (i + 1) - 1 = i /\ (i + 1 = 1 \/ flatten[i] = e(i))
      BY <2>6
    <3> QED
      BY <3>1, <3>2, <3>3, Zenon
  <2> HIDE DEF T
  <2>7. n \in T
    BY <1>1, <2>5, <2>6, Induction
  <2>8. flatten[n] = e(n)
    BY <1>1, <1>7, <2>7 DEF T
  <2> QED
    BY <1>2, <1>3, <1>5, <2>3, <2>8, Zenon
<1> QED
  BY <1>6, <1>7

-----------------------------------------------------------------------------
\* What a call of a program makes xvprintf do.

Want(c) == IF c.width = <<"*">> THEN Signed(c.star) ELSE NumberOf(c.width)
FieldOf(c) == Converted(c.type, c.flag = <<"0">> /\ Want(c) >= 0, c.flag = <<"-">> \/ Want(c) < 0,
                       IF Want(c) < 0 THEN -Want(c) ELSE Want(c), c.arg)

\* The width begins behind the first b - 1 characters of the format.
Laying(c, b, n) ==
    /\ b \in {3, 4} /\ b = 3 + Len(c.flag) /\ n \in Nat /\ n = Len(c.width)
    /\ Len(FormatOf(c)) = b + n + 1
    /\ FormatOf(c)[1] = "<" /\ FormatOf(c)[2] = "%"
    /\ b = 4 => FormatOf(c)[3] = c.flag[1]
    /\ \A j \in 1..n : FormatOf(c)[(b - 1) + j] = c.width[j]
    /\ FormatOf(c)[b + n] = c.type /\ FormatOf(c)[b + n + 1] = ">"

\* What each place of the format of a call holds.
LEMMA FormatIs ==
    ASSUME NEW c \in Calls
    PROVE  \E b, n, S : /\ Laying(c, b, n) /\ FormatOf(c) \in Seq(S)
                        /\ c.flag \in Seq(S) /\ c.width \in Seq(S)
<1> DEFINE S == ToSet(Figure) \cup {"<", "%", "0", "-", "*", c.type, ">"}
           f == c.flag
           w == c.width
           n == Len(w)
           m == Len(f)
           x == <<"<", "%">>
           y == <<c.type, ">">>
<1>1. f \in {<<>>, <<"0">>, <<"-">>} /\ (w = <<"*">> \/ w \in Seq(ToSet(Figure)))
  BY CallsAreWellFormed, Zenon
<1>2. f \in Seq(S) /\ m \in {0, 1}
  <2>1. "0" \in S /\ "-" \in S
    OBVIOUS
  <2> HIDE DEF S
  <2>2. <<>> \in Seq(S) /\ <<"0">> \in Seq(S) /\ <<"-">> \in Seq(S)
    BY <2>1
  <2>3. Len(<<>>) = 0 /\ Len(<<"0">>) = 1 /\ Len(<<"-">>) = 1
    OBVIOUS
  <2> QED
    BY <1>1, <2>2, <2>3, Zenon
<1>3. w \in Seq(S) /\ n \in Nat
  <2>1. \A T, U : T \subseteq U => Seq(T) \subseteq Seq(U)
    OBVIOUS
  <2>2. ToSet(Figure) \subseteq S /\ <<"*">> \in Seq(S)
    OBVIOUS
  <2>3. w \in Seq(S)
    BY <1>1, <2>1, <2>2, Zenon
  <2> QED
    BY <2>3
<1>4. /\ x \in Seq(S) /\ y \in Seq(S) /\ Len(x) = 2 /\ Len(y) = 2
      /\ x[1] = "<" /\ x[2] = "%" /\ y[1] = c.type /\ y[2] = ">"
  OBVIOUS
<1> HIDE DEF S, f, w, n, m, x, y
<1> DEFINE u == x \o f
           v == u \o w
           F == v \o y
<1>5. u \in Seq(S) /\ Len(u) = 2 + m /\ (\A j \in 1..2 : u[j] = x[j]) /\ (\A j \in 1..m : u[2 + j] = f[j])
  <2>2. x \in Seq(S) /\ f \in Seq(S)
    BY <1>2, <1>4
  <2>1. /\ u \in Seq(S) /\ Len(u) = Len(x) + Len(f)
        /\ (\A j \in 1..Len(x) : u[j] = x[j])
        /\ (\A j \in 1..Len(f) : u[Len(x) + j] = f[j])
    BY <2>2, Joined
  <2> QED
    BY <1>4, <2>1, Zenon DEF m
<1> HIDE DEF u
<1>6. /\ v \in Seq(S) /\ Len(v) = 2 + m + n
      /\ (\A j \in 1..(2 + m) : v[j] = u[j]) /\ (\A j \in 1..n : v[2 + m + j] = w[j])
  <2>2. u \in Seq(S) /\ w \in Seq(S)
    BY <1>3, <1>5
  <2>1. /\ v \in Seq(S) /\ Len(v) = Len(u) + Len(w)
        /\ (\A j \in 1..Len(u) : v[j] = u[j])
        /\ (\A j \in 1..Len(w) : v[Len(u) + j] = w[j])
    BY <2>2, Joined
  <2> QED
    BY <1>5, <2>1, Zenon DEF n
<1> HIDE DEF v
<1>7. /\ F \in Seq(S) /\ Len(F) = 2 + m + n + 2
      /\ (\A j \in 1..(2 + m + n) : F[j] = v[j]) /\ (\A j \in 1..2 : F[2 + m + n + j] = y[j])
  <2>2. v \in Seq(S) /\ y \in Seq(S)
    BY <1>4, <1>6
  <2>1. /\ F \in Seq(S) /\ Len(F) = Len(v) + Len(y)
        /\ (\A j \in 1..Len(v) : F[j] = v[j])
        /\ (\A j \in 1..Len(y) : F[Len(v) + j] = y[j])
    BY <2>2, Joined
  <2> QED
    BY <1>4, <1>6, <2>1, Zenon
<1>8. FormatOf(c) = F
  BY Zenon DEF FormatOf, F, u, v, x, y, f, w
<1> HIDE DEF F
<1>9. F[1] = "<" /\ F[2] = "%"
  <2>1. /\ 1 \in 1..2 /\ 2 \in 1..2
        /\ 1 \in 1..(2 + m) /\ 2 \in 1..(2 + m) /\ 1 \in 1..(2 + m + n) /\ 2 \in 1..(2 + m + n)
    BY <1>2, <1>3
  <2> QED
    BY <1>4, <1>5, <1>6, <1>7, <2>1
<1>10. 3 + m = 4 => F[3] = f[1]
  <2> SUFFICES ASSUME 3 + m = 4
               PROVE  F[3] = f[1]
    OBVIOUS
  <2>1. m = 1 /\ 1 \in 1..m /\ 2 + 1 = 3 /\ 3 \in 1..(2 + m) /\ 3 \in 1..(2 + m + n)
    BY <1>2, <1>3
  <2> QED
    BY <1>5, <1>6, <1>7, <2>1
<1>11. \A j \in 1..n : F[((3 + m) - 1) + j] = w[j]
  <2> SUFFICES ASSUME NEW j \in 1..n
               PROVE  F[((3 + m) - 1) + j] = w[j]
    OBVIOUS
  <2>1. ((3 + m) - 1) + j = 2 + m + j /\ 2 + m + j \in 1..(2 + m + n)
    BY <1>2, <1>3
  <2> QED
    BY <1>6, <1>7, <2>1
<1>12. F[3 + m + n] = c.type /\ F[3 + m + n + 1] = ">"
  <2>1. 3 + m + n = 2 + m + n + 1 /\ 3 + m + n + 1 = 2 + m + n + 2 /\ 1 \in 1..2 /\ 2 \in 1..2
    BY <1>2, <1>3
  <2> QED
    BY <1>4, <1>7, <2>1
<1>13. 3 + m \in {3, 4} /\ Len(F) = (3 + m) + n + 1
  BY <1>2, <1>3, <1>7
<1>14. Laying(c, 3 + m, n)
  BY <1>3, <1>8, <1>9, <1>10, <1>11, <1>12, <1>13, Zenon DEF Laying, m, n, f, w
<1> QED
  BY <1>2, <1>3, <1>7, <1>8, <1>14, Zenon DEF f, w

Types == {"s", "d", "u", "x", "X", "b", "o"}

\* What a program may ask for.
LEMMA CallIs ==
    ASSUME NEW c \in Calls
    PROVE  /\ c.flag \in {<<>>, <<"0">>, <<"-">>} /\ c.type \in Types
           /\ c.width # <<"*">> => c.width \in Seq(ToSet(Figure)) /\ (c.width # <<>> => c.width[1] # "0")
           /\ c.width = <<"*">> => c.star \in 0..(WordSize - 1)
           /\ c.type # "s" => c.arg \in 0..(WordSize - 1)
BY CallsAreWellFormed, Zenon DEF Types

\* Past the width of a call is its type.
LEMMA WidthEnds ==
    ASSUME NEW c \in Calls, NEW b, NEW n, Laying(c, b, n), c.width # <<"*">>
    PROVE  PastFigures(FormatOf(c), b) = b + n /\ SubSeq(FormatOf(c), b, (b + n) - 1) = c.width
<1> DEFINE F == FormatOf(c)
           N == Len(F)
           w == c.width
           P(j) == ~IsFigure(At(F, j)) /\ \A h \in b..(j - 1) : IsFigure(F[h])
<1>1. /\ b \in {3, 4} /\ n \in Nat /\ n = Len(w) /\ N = b + n + 1
      /\ \A j \in 1..n : F[(b - 1) + j] = w[j]
      /\ F[b + n] = c.type
  BY DEF Laying
<1>2. w \in Seq(ToSet(Figure))
  BY CallIs
<1>3. ~IsFigure(c.type)
  BY CallIs, Figures DEF IsFigure, Types
<1> HIDE DEF F, N, w
<1>4. ASSUME NEW h \in b..((b + n) - 1)
      PROVE  F[h] = w[h - b + 1] /\ IsFigure(F[h])
  <2>1. h - b + 1 \in 1..n /\ (b - 1) + (h - b + 1) = h
    BY <1>1
  <2>2. F[h] = w[h - b + 1]
    BY <1>1, <2>1
  <2>3. w[h - b + 1] \in ToSet(Figure)
    BY <1>1, <1>2, <2>1
  <2> QED
    BY <2>2, <2>3 DEF IsFigure
<1>5. \A j \in b..(b + n) : At(F, j) = F[j]
  BY <1>1 DEF At, N
<1>6. b + n \in b..(N + 1) /\ b + n \in b..(b + n)
  BY <1>1
<1>7. P(b + n)
  BY <1>1, <1>3, <1>4, <1>5, <1>6
<1>8. ASSUME NEW j \in b..(N + 1), P(j)
      PROVE  j = b + n
  <2>1. CASE j < b + n
    <3>1. j \in b..((b + n) - 1) /\ j \in b..(b + n)
      BY <1>1, <2>1
    <3> QED
      BY <1>4, <1>5, <1>8, <3>1
  <2>2. CASE j > b + n
    <3>1. b + n \in b..(j - 1)
      BY <1>1, <2>2
    <3>2. IsFigure(F[b + n])
      BY <1>8, <3>1
    <3> QED
      BY <1>1, <1>3, <3>2
  <2>3. j \in Int /\ b + n \in Int
    BY <1>1
  <2> QED
    BY <2>1, <2>2, <2>3
<1>9. (CHOOSE j \in b..(N + 1) : P(j)) = b + n
  <2> HIDE DEF P
  <2> QED
    BY <1>6, <1>7, <1>8
<1>10. PastFigures(F, b) = b + n
  BY <1>9, Zenon DEF PastFigures, N
<1>11. SubSeq(F, b, (b + n) - 1) = w
  <2> DEFINE m == (b + n) - 1
             q == SubSeq(F, b, m)
  <2>1. m \in Int /\ b \in Int /\ (IF b <= m THEN m - b + 1 ELSE 0) = n /\ m - b + 1 = n
    BY <1>1
  <2>2. \A i \in b..m : F[i] \in ToSet(Figure)
    BY <1>4 DEF IsFigure
  <2> HIDE DEF m
  <2>3. /\ q \in Seq(ToSet(Figure)) /\ Len(q) = (IF b <= m THEN m - b + 1 ELSE 0)
        /\ \A i \in 1..(m - b + 1) : q[i] = F[(b + i) - 1]
    BY <2>1, <2>2, SubSeqProperties
  <2> HIDE DEF q
  <2>4. Len(q) = n /\ \A i \in 1..n : q[i] = F[(b + i) - 1]
    BY <2>1, <2>3, Zenon
  <2>5. ASSUME NEW i \in 1..n
        PROVE  q[i] = w[i]
    <3>1. (b + i) - 1 \in b..((b + n) - 1) /\ (b - 1) + i = (b + i) - 1
      BY <1>1
    <3> QED
      BY <1>1, <2>4, <3>1
  <2>6. q = w
    BY <1>1, <1>2, <2>3, <2>4, <2>5
  <2> QED
    BY <2>6 DEF q, m
<1> QED
  BY <1>10, <1>11 DEF F, w

\* The turns of xvprintf on a call.
LEMMA FirstTurn ==
    ASSUME NEW c \in Calls, NEW b, NEW n, Laying(c, b, n), NEW at, at = [i |-> 1, arp |-> ArgsOf(c), out |-> <<>>]
    PROVE  Turn(FormatOf(c), at) = [i |-> 2, arp |-> ArgsOf(c), out |-> <<"<">>]
<1> DEFINE F == FormatOf(c)
           A == ArgsOf(c)
<1>1. F[1] = "<" /\ ~(1 > Len(F)) /\ "<" # "%"
  <2>1. b \in {3, 4} /\ n \in Nat /\ Len(F) = b + n + 1
    BY Zenon DEF Laying
  <2>2. F[1] = "<"
    BY Zenon DEF Laying
  <2>3. ~(1 > Len(F))
    BY <2>1
  <2> QED
    BY <2>2, <2>3
<1>2. Append(<<>>, "<") = <<"<">>
  OBVIOUS
<1> HIDE DEF F, A
<1>3. at.i = 1 /\ at.arp = A /\ at.out = <<>>
  BY DEF A
<1>4. Turn(F, at) = [i |-> 1 + 1, arp |-> A, out |-> Append(<<>>, F[1])]
  BY <1>1, <1>3, Zenon DEF Turn
<1>7. 1 + 1 = 2
  OBVIOUS
<1> QED
  BY <1>1, <1>2, <1>4, <1>7, Zenon DEF F, A

LEMMA LastTurn ==
    ASSUME NEW c \in Calls, NEW b, NEW n, Laying(c, b, n), NEW at, at.i = b + n + 1
    PROVE  Turn(FormatOf(c), at) = [i |-> b + n + 2, arp |-> at.arp, out |-> Append(at.out, ">")]
<1> DEFINE F == FormatOf(c)
           N == b + n + 1
<1>1. N \in Nat /\ F[N] = ">" /\ ~(N > Len(F)) /\ ">" # "%" /\ N + 1 = b + n + 2
  <2>1. b \in {3, 4} /\ n \in Nat /\ Len(F) = b + n + 1
    BY Zenon DEF Laying
  <2>2. F[N] = ">"
    BY Zenon DEF Laying
  <2>3. N \in Nat /\ ~(N > Len(F)) /\ N + 1 = b + n + 2
    BY <2>1
  <2> QED
    BY <2>2, <2>3
<1> HIDE DEF F, N
<1>3. at.i = N
  BY DEF N
<1>4. Turn(F, at) = [i |-> N + 1, arp |-> at.arp, out |-> Append(at.out, F[N])]
  BY <1>1, <1>3, Zenon DEF Turn
<1> QED
  BY <1>1, <1>4, Zenon DEF F

LEMMA SecondTurn ==
    ASSUME NEW c \in Calls, NEW b, NEW n, Laying(c, b, n), NEW o, NEW at, at = [i |-> 2, arp |-> ArgsOf(c), out |-> o]
    PROVE  Turn(FormatOf(c), at) = [i |-> b + n + 1, arp |-> <<>>, out |-> o \o FieldOf(c)]
<1> DEFINE F == FormatOf(c)
           A == ArgsOf(c)
           flag == At(F, 3)
           star == At(F, b) = "*"
           args == IF star THEN Tail(A) ELSE A
           e == IF star THEN b + 1 ELSE PastFigures(F, b)
           width == IF star THEN Signed(A[1]) ELSE NumberOf(SubSeq(F, b, e - 1))
<1>1. /\ b \in {3, 4} /\ b = 3 + Len(c.flag) /\ n \in Nat /\ n = Len(c.width)
      /\ Len(F) = b + n + 1 /\ F[2] = "%" /\ (b = 4 => F[3] = c.flag[1])
      /\ (\A j \in 1..n : F[(b - 1) + j] = c.width[j])
      /\ F[b + n] = c.type
  BY DEF Laying
<1>19. /\ b \in {3, 4} /\ n \in Nat /\ Len(F) = b + n + 1
       /\ b <= Len(F) /\ 3 <= Len(F) /\ ~(2 > Len(F)) /\ 2 + 1 = 3 /\ 2 + 2 = 4
       /\ b + n <= Len(F) /\ ~(b + n > Len(F)) /\ b + n \in Nat
  <2>1. b \in {3, 4} /\ n \in Nat /\ Len(F) = b + n + 1
    BY <1>1, Zenon
  <2> HIDE DEF F
  <2> QED
    BY <2>1
<1>2. c.flag \in {<<>>, <<"0">>, <<"-">>} /\ c.type \in Types
  BY CallIs
<1>3. c.width # <<"*">> => c.width \in Seq(ToSet(Figure)) /\ (c.width # <<>> => c.width[1] # "0")
  BY CallIs
<1>4. c.width = <<"*">> => n = 1 /\ c.width[1] = "*"
  BY <1>1
<1>5. c.width # <<"*">> /\ n # 0 => c.width[1] \in ToSet(Figure) /\ c.width[1] # "0"
  BY <1>1, <1>3
<1> HIDE DEF F
\* The character at the place of the width.
<1>6. At(F, b) = IF n = 0 THEN c.type ELSE c.width[1]
  <2>1. b <= Len(F)
    BY <1>19
  <2>2. CASE n = 0
    <3>1. b + n = b
      BY <1>1, <2>2
    <3> QED
      BY <1>1, <2>1, <2>2, <3>1 DEF At
  <2>3. CASE n # 0
    <3>1. 1 \in 1..n /\ (b - 1) + 1 = b
      BY <1>1, <2>3
    <3> QED
      BY <1>1, <2>1, <2>3, <3>1 DEF At
  <2> QED
    BY <2>2, <2>3
<1>7. star <=> c.width = <<"*">>
  <2>1. "*" \notin ToSet(Figure) /\ "*" \notin Types
    BY Figures DEF Types
  <2>2. c.width = <<"*">> => star
    BY <1>4, <1>6
  <2>3. c.width # <<"*">> => ~star
    BY <1>2, <1>5, <1>6, <2>1
  <2> QED
    BY <2>2, <2>3
<1>8. /\ flag = "0" <=> c.flag = <<"0">>
      /\ flag = "-" <=> c.flag = <<"-">>
      /\ b = IF flag \in {"0", "-"} THEN 4 ELSE 3
  <2>1. 3 <= Len(F)
    BY <1>19
  <2>2. CASE c.flag = <<>>
    <3>1. b = 3
      BY <1>1, <2>2
    <3>2. flag = IF n = 0 THEN c.type ELSE c.width[1]
      BY <1>6, <3>1
    <3>3. "-" \notin Types /\ "0" \notin Types /\ "-" \notin ToSet(Figure)
      BY Figures DEF Types
    <3>4. flag # "0" /\ flag # "-"
      BY <1>2, <1>4, <1>5, <3>2, <3>3
    <3> QED
      BY <2>2, <3>1, <3>4
  <2>3. CASE c.flag = <<"0">>
    <3>1. b = 4 /\ flag = "0"
      BY <1>1, <2>1, <2>3 DEF At
    <3> QED
      BY <2>3, <3>1
  <2>4. CASE c.flag = <<"-">>
    <3>1. b = 4 /\ flag = "-"
      BY <1>1, <2>1, <2>4 DEF At
    <3> QED
      BY <2>4, <3>1
  <2> QED
    BY <1>2, <2>2, <2>3, <2>4
<1>9. A = IF c.width = <<"*">> THEN <<c.star, c.arg>> ELSE <<c.arg>>
  BY DEF ArgsOf
<1>10. args = <<c.arg>>
  <2>1. Tail(<<c.star, c.arg>>) = <<c.arg>>
    OBVIOUS
  <2> HIDE DEF A, star
  <2> QED
    BY <1>7, <1>9, <2>1
<1>11. e = b + n
  <2>1. CASE star
    BY <1>4, <1>7, <2>1
  <2>2. CASE ~star
    BY <1>7, <2>2, WidthEnds DEF F
  <2> QED
    BY <2>1, <2>2
<1>12. width = Want(c)
  <2>1. CASE star
    <3>1. A[1] = c.star
      BY <1>7, <1>9, <2>1
    <3> QED
      BY <1>7, <2>1, <3>1, Zenon DEF Want
  <2>2. CASE ~star
    <3>1. SubSeq(F, b, e - 1) = c.width
      BY <1>7, <1>11, <2>2, WidthEnds DEF F
    <3> QED
      BY <1>7, <2>2, <3>1, Zenon DEF Want
  <2> QED
    BY <2>1, <2>2
<1>13. At(F, e) = c.type /\ c.type \notin {"l", "L"} /\ F[e] = c.type /\ ~(e > Len(F)) /\ e + 1 = b + n + 1
  <2>1. b + n <= Len(F) /\ e = b + n /\ F[b + n] = c.type /\ ~(b + n > Len(F)) /\ e + 1 = b + n + 1
    <3> HIDE DEF e
    <3>1. F[b + n] = c.type
      BY <1>1, Zenon
    <3>2. e + 1 = b + n + 1
      BY <1>11, Zenon
    <3> QED
      BY <1>11, <1>19, <3>1, <3>2, Zenon
  <2>2. c.type \notin {"l", "L"}
    BY <1>2 DEF Types
  <2> HIDE DEF e
  <2> QED
    BY <2>1, <2>2 DEF At
<1>14. TypeOf(c.type) # "none"
  BY <1>2 DEF TypeOf, Types
<1>15. at.i = 2 /\ at.arp = A /\ at.out = o /\ ~(2 > Len(F)) /\ 2 + 1 = 3 /\ 2 + 2 = 4
  <2>1. at.i = 2 /\ at.arp = A /\ at.out = o
    <3> HIDE DEF A
    <3>1. at = [i |-> 2, arp |-> A, out |-> o]
      BY Zenon DEF A
    <3> QED
      BY <3>1
  <2> QED
    BY <1>19, <2>1, Zenon
<1>16. args[1] = c.arg /\ Tail(args) = <<>>
  <2>1. Tail(<<c.arg>>) = <<>> /\ <<c.arg>>[1] = c.arg
    OBVIOUS
  <2> QED
    BY <1>10, <2>1, Zenon
<1>17. Turn(F, at) = [i |-> e + 1, arp |-> Tail(args),
                      out |-> o \o Converted(c.type, flag = "0" /\ width >= 0, flag = "-" \/ width < 0,
                                             IF width < 0 THEN -width ELSE width, args[1])]
  <2>1. Turn(F, at) = Conversion(F, at)
    BY <1>1, <1>15, Zenon DEF Turn
  <2>2. Conversion(F, at) = [i |-> e + 1, arp |-> Tail(args),
                             out |-> o \o Converted(c.type, flag = "0" /\ width >= 0, flag = "-" \/ width < 0,
                                                    IF width < 0 THEN -width ELSE width, args[1])]
    BY <1>8, <1>13, <1>14, <1>15, Zenon DEF Conversion
  <2> QED
    BY <2>1, <2>2, Zenon
<1>18. Converted(c.type, flag = "0" /\ width >= 0, flag = "-" \/ width < 0, IF width < 0 THEN -width ELSE width, args[1])
         = FieldOf(c)
  <2> HIDE DEF flag, width, args
  <2> QED
    BY <1>8, <1>12, <1>16, Zenon DEF FieldOf
<1> QED
  BY <1>13, <1>16, <1>17, <1>18, Zenon DEF F

\* Turns of a call, one after another, and those that change nothing.
LEMMA PrintsField ==
    ASSUME NEW c \in Calls
    PROVE  xvprintf(FormatOf(c), ArgsOf(c)) = Append(<<"<">> \o FieldOf(c), ">")
<1> DEFINE F == FormatOf(c)
           N == Len(F)
           R0 == [i |-> 1, arp |-> ArgsOf(c), out |-> <<>>]
           Fits(f) == f = [m \in 0..Len(F) |-> IF m = 0 THEN R0 ELSE Turn(F, f[m - 1])]
           g == CHOOSE f : Fits(f)
<1>1. PICK b, n : Laying(c, b, n)
  BY FormatIs
<1>2. b \in {3, 4} /\ n \in Nat /\ N = b + n + 1
  BY <1>1, Zenon DEF Laying
<1> DEFINE R1 == [i |-> 2, arp |-> ArgsOf(c), out |-> <<"<">>]
           R2 == [i |-> b + n + 1, arp |-> <<>>, out |-> <<"<">> \o FieldOf(c)]
           R3 == [i |-> b + n + 2, arp |-> <<>>, out |-> Append(<<"<">> \o FieldOf(c), ">")]
           h == [m \in 0..N |-> IF m = 0 THEN R0 ELSE IF m = 1 THEN R1 ELSE IF m = 2 THEN R2 ELSE R3]
<1>3. Turn(F, R0) = R1
  BY <1>1, FirstTurn, Zenon
<1>4. Turn(F, R1) = R2
  <2> DEFINE o == <<"<">>
  <2> HIDE DEF o
  <2>1. \A at : at = [i |-> 2, arp |-> ArgsOf(c), out |-> o]
                => Turn(FormatOf(c), at) = [i |-> b + n + 1, arp |-> <<>>, out |-> o \o FieldOf(c)]
    BY <1>1, SecondTurn
  <2> QED
    BY <2>1, Zenon DEF o
<1>5. Turn(F, R2) = R3
  <2>1. R2.i = b + n + 1 /\ R2.arp = <<>> /\ R2.out = <<"<">> \o FieldOf(c)
    OBVIOUS
  <2> HIDE DEF R2
  <2>2. Turn(F, R2) = [i |-> b + n + 2, arp |-> R2.arp, out |-> Append(R2.out, ">")]
    BY <1>1, <2>1, LastTurn
  <2> QED
    BY <2>1, <2>2, Zenon
<1>6. Turn(F, R3) = R3
  <2>1. R3.i = b + n + 2
    OBVIOUS
  <2> HIDE DEF R3
  <2>2. R3.i > Len(F)
    BY <1>2, <2>1
  <2> QED
    BY <2>2, Zenon DEF Turn
<1>7. R3.out = Append(<<"<">> \o FieldOf(c), ">")
  OBVIOUS
<1> HIDE DEF R0, R1, R2, R3, F, N
<1>8. \A m \in 0..N : h[m] = IF m = 0 THEN R0 ELSE Turn(F, h[m - 1])
  <2> SUFFICES ASSUME NEW m \in 0..N
               PROVE  h[m] = IF m = 0 THEN R0 ELSE Turn(F, h[m - 1])
    OBVIOUS
  <2>1. CASE m = 0
    BY <2>1
  <2>2. CASE m = 1
    <3>1. h[1] = R1 /\ h[0] = R0 /\ 1 - 1 = 0 /\ 1 # 0
      BY <1>2
    <3> QED
      BY <1>3, <2>2, <3>1, Zenon
  <2>3. CASE m = 2
    <3>1. h[2] = R2 /\ h[1] = R1 /\ 2 - 1 = 1 /\ 2 # 0
      BY <1>2
    <3> QED
      BY <1>4, <2>3, <3>1, Zenon
  <2>4. CASE m = 3
    <3>1. h[3] = R3 /\ h[2] = R2 /\ 3 - 1 = 2 /\ 3 # 0
      BY <1>2
    <3> QED
      BY <1>5, <2>4, <3>1, Zenon
  <2>5. CASE m > 3
    <3>1. m \in 0..N /\ m - 1 \in 0..N /\ m # 0 /\ m # 1 /\ m # 2 /\ m - 1 # 0 /\ m - 1 # 1 /\ m - 1 # 2
      BY <1>2, <2>5
    <3>2. h[m] = R3 /\ h[m - 1] = R3
      BY <3>1, Zenon
    <3> QED
      BY <1>6, <3>1, <3>2, Zenon
  <2>6. m = 0 \/ m = 1 \/ m = 2 \/ m = 3 \/ m > 3
    BY <1>2
  <2> QED
    BY <2>1, <2>2, <2>3, <2>4, <2>5, <2>6
<1>9. Fits(h)
  <2>1. h = [m \in 0..N |-> h[m]]
    OBVIOUS
  <2> HIDE DEF h
  <2>2. h = [m \in 0..N |-> IF m = 0 THEN R0 ELSE Turn(F, h[m - 1])]
    BY <1>8, <2>1
  <2> QED
    BY <2>2, Zenon DEF N
<1>10. Fits(g)
  <2> HIDE DEF Fits
  <2> QED
    BY <1>9, Zenon
<1>11. xvprintf(FormatOf(c), ArgsOf(c)) = g[N].out
  BY Zenon DEF xvprintf, F, N, R0
<1> HIDE DEF g, h
<1>12. \A m \in 0..N : g[m] = IF m = 0 THEN R0 ELSE Turn(F, g[m - 1])
  BY <1>10, Zenon DEF N
<1> HIDE DEF Fits
<1> DEFINE T == {m \in Nat : m + 3 <= N => g[m + 3] = R3}
<1>13. 0 \in T
  <2>1. 0 \in 0..N /\ 1 \in 0..N /\ 2 \in 0..N /\ 3 \in 0..N /\ 1 - 1 = 0 /\ 2 - 1 = 1 /\ 3 - 1 = 2 /\ 0 + 3 = 3
    BY <1>2
  <2>2. g[0] = R0
    BY <1>12, <2>1
  <2>3. g[1] = R1
    BY <1>3, <1>12, <2>1, <2>2
  <2>4. g[2] = R2
    BY <1>4, <1>12, <2>1, <2>3
  <2>5. g[3] = R3
    BY <1>5, <1>12, <2>1, <2>4
  <2> QED
    BY <2>1, <2>5
<1>14. ASSUME NEW m \in Nat, m \in T
       PROVE  m + 1 \in T
  <2> SUFFICES ASSUME (m + 1) + 3 <= N
               PROVE  g[(m + 1) + 3] = R3
    OBVIOUS
  <2>1. (m + 1) + 3 \in 0..N /\ ((m + 1) + 3) - 1 = m + 3 /\ (m + 1) + 3 # 0 /\ g[m + 3] = R3
    BY <1>2, <1>14
  <2>2. g[(m + 1) + 3] = Turn(F, g[m + 3])
    BY <1>12, <2>1
  <2> QED
    BY <1>6, <2>1, <2>2
<1> HIDE DEF T
<1>15. g[N] = R3
  <2>1. N - 3 \in Nat /\ (N - 3) + 3 = N /\ N <= N
    BY <1>2
  <2>2. N - 3 \in T
    BY <1>13, <1>14, <2>1, Induction
  <2> QED
    BY <2>1, <2>2 DEF T
<1> QED
  BY <1>7, <1>11, <1>15, Zenon

\* A width is a number.
LEMMA FigureValues == \A x \in ToSet(Figure) : FigureOf(x) \in Int
<1> SUFFICES ASSUME NEW x \in ToSet(Figure)
             PROVE  FigureOf(x) \in Int
  OBVIOUS
<1>1. \E i \in 1..10 : Figure[i] = x
  BY DEF ToSet, Figure
<1> QED
  BY <1>1 DEF FigureOf

LEMMA NumberIsInt ==
    ASSUME NEW s \in Seq(ToSet(Figure))
    PROVE  NumberOf(s) \in Int
<1> DEFINE L == Len(s)
           S == Int
           Next1(n, x) == (x * 10 + FigureOf(s[n])) % WordSize
           h == [n \in 1..L |-> [x \in S |-> Next1(n, x)]]
           Fits(f) == f = [n \in 0..Len(s) |-> IF n = 0 THEN 0 ELSE (f[n - 1] * 10 + FigureOf(s[n])) % WordSize]
           g == CHOOSE f : Fits(f)
<1>1. L \in Nat /\ 0 \in S
  OBVIOUS
<1>2. \A n \in 1..L, x \in S : Next1(n, x) \in S
  <2> SUFFICES ASSUME NEW n \in 1..L, NEW x \in Int
               PROVE  Next1(n, x) \in Int
    OBVIOUS
  <2>1. FigureOf(s[n]) \in Int
    BY FigureValues
  <2>2. x * 10 + FigureOf(s[n]) \in Int /\ WordSize \in Nat \ {0}
    BY <2>1, WordSizeIsEven
  <2> QED
    BY <2>2
<1> HIDE DEF L, S, Next1
<1>3. h \in [1..L -> [S -> S]] /\ \A n \in 1..L, x \in S : h[n][x] = Next1(n, x)
  BY <1>2
<1> HIDE DEF h
<1>4. PICK f : Chain(S, 0, L, h, f)
  BY <1>1, <1>3, Recursion
<1>5. f \in [0..L -> S] /\ f[0] = 0 /\ \A n \in 1..L : f[n] = h[n][f[n - 1]]
  BY <1>4 DEF Chain
<1>6. \A n \in 0..L : f[n] = IF n = 0 THEN 0 ELSE (f[n - 1] * 10 + FigureOf(s[n])) % WordSize
  <2> SUFFICES ASSUME NEW n \in 0..L, n # 0
               PROVE  f[n] = (f[n - 1] * 10 + FigureOf(s[n])) % WordSize
    BY <1>5
  <2>1. n \in 1..L /\ n - 1 \in 0..L
    BY <1>1
  <2>2. f[n - 1] \in S
    BY <1>5, <2>1
  <2> QED
    BY <1>3, <1>5, <2>1, <2>2, Zenon DEF Next1
<1>7. Fits(f)
  <2>1. f = [n \in 0..L |-> f[n]]
    BY <1>5
  <2>2. f = [n \in 0..L |-> IF n = 0 THEN 0 ELSE (f[n - 1] * 10 + FigureOf(s[n])) % WordSize]
    BY <1>6, <2>1, Zenon
  <2> QED
    BY <2>2, Zenon DEF L
<1>8. Fits(g)
  <2> HIDE DEF Fits
  <2> QED
    BY <1>7, Zenon
<1>9. NumberOf(s) = g[L]
  BY Zenon DEF NumberOf, L
<1> HIDE DEF g
<1>10. \A n \in 0..L : g[n] = IF n = 0 THEN 0 ELSE (g[n - 1] * 10 + FigureOf(s[n])) % WordSize
  BY <1>8, Zenon DEF L
<1> HIDE DEF Fits
<1> DEFINE T == {n \in Nat : n \in 0..L => g[n] \in S}
<1>11. 0 \in T
  BY <1>1, <1>10
<1>12. ASSUME NEW n \in Nat, n \in T
       PROVE  n + 1 \in T
  <2> SUFFICES ASSUME n + 1 \in 0..L
               PROVE  g[n + 1] \in S
    OBVIOUS
  <2>1. n + 1 \in 1..L /\ (n + 1) - 1 = n /\ g[n] \in S /\ n + 1 # 0
    BY <1>1, <1>12
  <2>2. g[n + 1] = Next1(n + 1, g[n])
    BY <1>10, <2>1, Zenon DEF Next1
  <2> QED
    BY <1>2, <2>1, <2>2, Zenon
<1> HIDE DEF T
<1>13. L \in T
  BY <1>1, <1>11, <1>12, Induction
<1> QED
  BY <1>1, <1>9, <1>13 DEF T, S

\* What the field F of call c reads as, and all that PrintsTheValue says of it.
ReadsAs(c, F) ==
    CASE c.type = "s" -> Kept(F) = c.arg
      [] c.type = "d" -> Read(F, 10) = Signed(c.arg)
      [] OTHER -> Read(F, Radix(TypeOf(c.type))) = c.arg
AtLeast(c) == IF Want(c) < 0 THEN -Want(c) ELSE Want(c)
FromLeft(c)  == c.flag = <<"-">> \/ Want(c) < 0
Zeros(c)  == c.flag = <<"0">> /\ Want(c) >= 0
FieldRight(c, F) ==
    /\ Len(F) >= AtLeast(c)
    /\ AtLeast(c) > 0 /\ ~(c.type = "s" /\ c.arg = <<>>) => F[IF FromLeft(c) THEN 1 ELSE Len(F)] # Space
    /\ ReadsAs(c, F)
    /\ Len(F) > AtLeast(c) /\ c.type # "s" => F = <<"0">> \/ (F[1] # "0" /\ F[1] # Space /\ F[Len(F)] # Space)
    /\ Zeros(c) /\ c.type # "s" => Space \notin ToSet(F)

\* The width asked for, and the side and the character of the fill.
LEMMA WidthIs ==
    ASSUME NEW c \in Calls
    PROVE  /\ Want(c) \in Int /\ AtLeast(c) \in Nat
           /\ FromLeft(c) \in BOOLEAN /\ Zeros(c) \in BOOLEAN /\ (Zeros(c) => ~FromLeft(c))
<1>1. Want(c) \in Int
  <2>1. CASE c.width = <<"*">>
    <3>1. c.star \in 0..(WordSize - 1) /\ WordSize \in Nat
      BY <2>1, CallIs, WordSizeIsEven
    <3>2. Signed(c.star) \in Int
      BY <3>1 DEF Signed
    <3> QED
      BY <2>1, <3>2, Zenon DEF Want
  <2>2. CASE c.width # <<"*">>
    <3>1. c.width \in Seq(ToSet(Figure))
      BY <2>2, CallIs
    <3> QED
      BY <2>2, <3>1, NumberIsInt, Zenon DEF Want
  <2> QED
    BY <2>1, <2>2
<1>2. Zeros(c) => ~FromLeft(c)
  <2>1. <<"0">> # <<"-">>
    <3>1. <<"0">>[1] # <<"-">>[1]
      OBVIOUS
    <3> QED
      BY <3>1, Zenon
  <2>2. Want(c) >= 0 => ~(Want(c) < 0)
    BY <1>1
  <2> QED
    BY <2>1, <2>2, Zenon DEF Zeros, FromLeft
<1>3. AtLeast(c) \in Nat
  BY <1>1 DEF AtLeast
<1>4. FromLeft(c) \in BOOLEAN /\ Zeros(c) \in BOOLEAN
  BY DEF FromLeft, Zeros
<1> QED
  BY <1>1, <1>2, <1>3, <1>4

\* The types of numbers have their radices.
LEMMA Radixes ==
    /\ TypeOf("s") = "S" /\ TypeOf("d") = "D" /\ Radix("D") = 10
    /\ \A t \in Types \ {"s"} :
         TypeOf(t) \notin {"S", "C"} /\ Radix(TypeOf(t)) \in Radices /\ (t # "d" => TypeOf(t) # "D")
<1>1. TypeOf("s") = "S" /\ TypeOf("d") = "D" /\ Radix("D") = 10
  BY DEF TypeOf, Radix
<1>2. /\ TypeOf("u") = "U" /\ TypeOf("x") = "X" /\ TypeOf("X") = "X" /\ TypeOf("b") = "B" /\ TypeOf("o") = "O"
      /\ Radix("U") = 10 /\ Radix("X") = 16 /\ Radix("B") = 2 /\ Radix("O") = 8
  BY DEF TypeOf, Radix
<1> QED
  BY <1>1, <1>2 DEF Types, Radices

\* What stands behind a minus sign is the number without it.
LEMMA Negative ==
    ASSUME NEW a \in 0..(WordSize - 1)
    PROVE  /\ Signed(a) < 0 => Negate(a) \in Nat /\ Negate(a) # 0 /\ -Negate(a) = Signed(a)
           /\ ~(Signed(a) < 0) => Signed(a) = a
<1>1. WordSize \in Nat \ {0}
  BY WordSizeIsEven
<1>2. CASE 2 * a < WordSize
  <2>1. Signed(a) = a
    BY <1>2 DEF Signed
  <2> QED
    BY <1>1, <2>1
<1>3. CASE ~(2 * a < WordSize)
  <2>1. Signed(a) = a - WordSize
    BY <1>3 DEF Signed
  <2>2. WordSize - a \in 0..(WordSize - 1) /\ WordSize - a # 0 /\ a - WordSize < 0 /\ -(WordSize - a) = a - WordSize
    BY <1>1, <1>3
  <2>3. (WordSize - a) % WordSize = WordSize - a
    BY <1>1, <2>2
  <2> QED
    BY <2>1, <2>2, <2>3 DEF Negate
<1> QED
  BY <1>2, <1>3

\* The field of a number is right, and that of a string.
LEMMA NumberIs ==
    ASSUME NEW c \in Calls, c.type # "s"
    PROVE  FieldOf(c) \in Seq(Digits \cup {"-", Space}) /\ FieldRight(c, FieldOf(c))
<1> DEFINE r == Radix(TypeOf(c.type))
           minus == TypeOf(c.type) = "D" /\ Signed(c.arg) < 0
           v == IF minus THEN Negate(c.arg) ELSE c.arg
           value == IF minus THEN -v ELSE v
           d == Numeral(v, r, c.type)
           F == Padded(IF minus THEN <<"-">> \o d ELSE d, AtLeast(c), FromLeft(c), IF Zeros(c) THEN "0" ELSE Space)
<1>1. c.type \in Types /\ c.type # "s" /\ c.arg \in 0..(WordSize - 1)
  BY CallIs
<1>2. TypeOf(c.type) \notin {"S", "C"} /\ r \in Radices /\ minus \in BOOLEAN
  BY <1>1, Radixes
<1>3. v \in Nat /\ (minus => v # 0)
  BY <1>1, Negative, WordSizeIsEven
<1>4. /\ c.type = "d" => value = Signed(c.arg) /\ r = 10
      /\ c.type # "d" => value = c.arg
  BY <1>1, Negative, Radixes
<1>5. FieldOf(c) = F
  BY <1>2, Zenon DEF FieldOf, Converted, AtLeast, FromLeft, Zeros, Space
<1> HIDE DEF minus, v, r, value
<1>6. F \in Seq(Digits \cup {"-", Space}) /\ Right(F, r, value, AtLeast(c), FromLeft(c), Zeros(c))
  <2>1. AtLeast(c) \in Nat /\ FromLeft(c) \in BOOLEAN /\ Zeros(c) \in BOOLEAN /\ (Zeros(c) => ~FromLeft(c))
    BY WidthIs
  <2> HIDE DEF d
  <2>2. d = Numeral(v, r, c.type)
    BY DEF d
  <2>3. r \in Radices /\ minus \in BOOLEAN /\ v \in Nat /\ (minus => v # 0)
    BY <1>2, <1>3, Zenon
  <2>4. NumberRight(v, r, minus, d, AtLeast(c), FromLeft(c), Zeros(c))
    BY <2>1, <2>2, <2>3, NumberField
  <2> QED
    BY <2>4, Zenon DEF NumberRight, value
<1> HIDE DEF F
<1>7. ReadsAs(c, F)
  <2>1. CASE c.type = "d"
    BY <1>4, <1>6, <2>1 DEF ReadsAs, Right
  <2>2. CASE c.type # "d"
    BY <1>1, <1>4, <1>6, <2>2 DEF ReadsAs, Right, r
  <2> QED
    BY <2>1, <2>2
<1>8. FieldRight(c, F)
  BY <1>6, <1>7, Zenon DEF FieldRight, Right
<1> QED
  BY <1>5, <1>6, <1>8, Zenon

LEMMA StringIs ==
    ASSUME NEW c \in Calls, c.type = "s"
    PROVE  \E S : "LF" \notin S /\ FieldOf(c) \in Seq(S) /\ FieldRight(c, FieldOf(c))
<1> DEFINE s == c.arg
           U == {x \in STRING : x # Space /\ x # "LF"}
           S == U \cup {Space}
           F == Padded(s, AtLeast(c), FromLeft(c), Space)
<1>1. s \in Seq(STRING) /\ \A i \in DOMAIN s : s[i] # Space /\ s[i] # "LF"
  BY CallsAreWellFormed, Zenon DEF Space
<1>2. s \in Seq(U) /\ s \in Seq(S) /\ \A j \in 1..Len(s) : s[j] # Space
  <2> HIDE DEF s
  <2>1. DOMAIN s = 1..Len(s) /\ Len(s) \in Nat
    BY <1>1
  <2>2. \A j \in 1..Len(s) : s[j] \in U
    BY <1>1, <2>1
  <2> HIDE DEF U
  <2>3. s \in Seq(U)
    BY <1>1, <2>2
  <2>4. s \in Seq(S)
    BY <1>1, <2>2
  <2> QED
    BY <1>1, <2>1, <2>3, <2>4, Zenon
<1>3. "LF" \notin S /\ Space \in S
  <2>1. "LF" # Space
    BY Zenon DEF Space
  <2> QED
    BY <2>1
<1>4. FieldOf(c) = F
  <2>1. TypeOf(c.type) = "S"
    BY Radixes
  <2> QED
    BY <2>1, Zenon DEF FieldOf, Converted, AtLeast, FromLeft, Space
<1>5. FromLeft(c) \in BOOLEAN /\ AtLeast(c) \in Nat
  BY WidthIs
<1>6. F \in Seq(S) /\ RightText(F, s, AtLeast(c), FromLeft(c))
  <2> HIDE DEF s, S
  <2> QED
    BY <1>2, <1>3, <1>5, TextField
<1> HIDE DEF F
<1>7. ReadsAs(c, F)
  BY <1>6 DEF ReadsAs, RightText
<1> HIDE DEF S
<1>8. FieldRight(c, F)
  BY <1>6, <1>7, Zenon DEF FieldRight, RightText
<1> QED
  BY <1>3, <1>4, <1>6, <1>8, Zenon

\* The whole of what a call prints.
LEMMA PrintedIs ==
    ASSUME NEW c \in Calls
    PROVE  /\ SubSeq(Printed[c], 2, Len(Printed[c]) - 1) = FieldOf(c)
           /\ FieldRight(c, FieldOf(c)) /\ Printed[c] # <<>>
<1>1. PICK S : "LF" \notin S /\ FieldOf(c) \in Seq(S) /\ FieldRight(c, FieldOf(c))
  <2>1. CASE c.type = "s"
    BY <2>1, StringIs
  <2>2. CASE c.type # "s"
    <3>1. "LF" \in {" ", "-", "*", "LF", "NUL"} /\ "LF" # "-" /\ "LF" # Space
      BY Zenon DEF Space
    <3>2. "LF" \notin Digits
      BY <3>1, FiguresAreDigits, Zenon
    <3>3. "LF" \notin Digits \cup {"-", Space}
      BY <3>1, <3>2, Zenon
    <3> QED
      BY <2>2, <3>3, NumberIs
  <2> QED
    BY <2>1, <2>2
<1> DEFINE T == S \cup {"<", ">"}
           f == FieldOf(c)
           x == <<"<">>
           u == x \o f
           p == Append(u, ">")
<1>2. f \in Seq(T) /\ x \in Seq(T) /\ Len(x) = 1 /\ x[1] = "<" /\ Len(f) \in Nat
  BY <1>1
<1>3. "LF" \notin T /\ ">" \in T
  BY <1>1
<1> HIDE DEF T, f, x
<1>4. /\ u \in Seq(T) /\ Len(u) = Len(x) + Len(f)
      /\ (\A j \in 1..Len(f) : u[Len(x) + j] = f[j])
  BY <1>2, Joined
<1> HIDE DEF u
<1>5. p \in Seq(T) /\ Len(p) = Len(u) + 1 /\ \A j \in 1..Len(u) : p[j] = u[j]
  BY <1>3, <1>4
<1> HIDE DEF p
<1>6. CrLf(p) = p
  <2>1. \A j \in 1..Len(p) : p[j] # "LF"
    BY <1>3, <1>5
  <2> QED
    BY <1>5, <2>1, NoLineFeed
<1>7. Printed[c] = p
  <2>1. Printed[c] = CrLf(xvprintf(FormatOf(c), ArgsOf(c)))
    BY DEF Printed
  <2> QED
    BY <1>6, <2>1, PrintsField, Zenon DEF p, u, f, x
<1> DEFINE l == Len(f)
           q == SubSeq(p, 2, Len(p) - 1)
<1>8. l \in Nat /\ Len(p) = l + 2 /\ Len(u) = 1 + l
  BY <1>2, <1>4, <1>5
<1>9. \A j \in 1..l : p[1 + j] = f[j]
  <2> SUFFICES ASSUME NEW j \in 1..l
               PROVE  p[1 + j] = f[j]
    OBVIOUS
  <2>1. 1 + j \in 1..Len(u)
    BY <1>8
  <2>2. u[1 + j] = f[j]
    BY <1>2, <1>4
  <2> QED
    BY <1>5, <2>1, <2>2
<1>10. q \in Seq(T) /\ Len(q) = l /\ \A j \in 1..l : q[j] = p[1 + j]
  <2> HIDE DEF l
  <2> DEFINE m == Len(p) - 1
  <2>1. m \in Int /\ 2 \in Int /\ m = l + 1 /\ (IF 2 <= m THEN m - 2 + 1 ELSE 0) = l /\ m - 2 + 1 = l
    BY <1>8
  <2>2. \A i \in 2..m : p[i] \in T
    BY <1>5, <1>8, <2>1
  <2> HIDE DEF m
  <2>3. /\ SubSeq(p, 2, m) \in Seq(T) /\ Len(SubSeq(p, 2, m)) = (IF 2 <= m THEN m - 2 + 1 ELSE 0)
        /\ \A i \in 1..(m - 2 + 1) : SubSeq(p, 2, m)[i] = p[(2 + i) - 1]
    BY <2>1, <2>2, SubSeqProperties
  <2>4. \A i \in 1..l : (2 + i) - 1 = 1 + i
    BY <1>8
  <2>5. q \in Seq(T) /\ Len(q) = l
    BY <2>1, <2>3, Zenon DEF m
  <2>6. \A j \in 1..l : q[j] = p[1 + j]
    BY <2>1, <2>3, <2>4, Zenon DEF m
  <2> QED
    BY <2>5, <2>6
<1> HIDE DEF q
<1>11. q = f
  BY <1>2, <1>9, <1>10
<1>12. p # <<>>
  BY <1>5, <1>8
<1> QED
  BY <1>1, <1>7, <1>11, <1>12, Zenon DEF f, q

-----------------------------------------------------------------------------
\* From the call to the screen.

\* What a call printed is on the screen or on its way there, and goes there; a
\* program that has said nothing starts with an empty screen.
CallShown ==
    /\ call # NoCall => /\ program = "printer" /\ call \in Calls
                        /\ text \o Chars(todo) = Printed[call]
                        /\ \A j \in DOMAIN todo : todo[j].by # "uart"
    /\ program = "printer" /\ said = <<>> => text = <<>> /\ todo = <<>>

CallIInv == IInv /\ CallShown

\* Every step keeps it.
LEMMA SameCall ==
    ASSUME CallIInv, UNCHANGED <<text, todo, said, program, call>>
    PROVE  CallShown'
BY DEF CallIInv, CallShown, Chars

LEMMA MainNoCall ==
    ASSUME CallIInv, Main
    PROVE  CallShown'
<1>1. pc # "monitor"
  BY DEF Main, UartInit, vga_stop, VgaSet, vga_clear, ConsoleClear, xdev_out, symt_init, MainClears,
         MainPuts, MainPrints
<1>2. program = "none"
  BY <1>1 DEF CallIInv, IInv, Progress
<1>3. UNCHANGED <<program, call>>
  BY DEF Main, UartInit, vga_stop, VgaSet, vga_clear, ConsoleClear, xdev_out, symt_init, MainClears,
         MainPuts, MainPrints
<1> QED
  BY <1>2, <1>3 DEF CallIInv, CallShown

LEMMA WriteShown ==
    ASSUME CallIInv, UartWrite
    PROVE  CallShown'
<1>1. /\ UNCHANGED <<text, said, program, call>> /\ todo # <<>>
      /\ todo' = IF Head(todo).by = "putcon" THEN [todo EXCEPT ![1].by = "console"] ELSE Tail(todo)
      /\ Head(todo).by # "console"
  BY DEF UartWrite
<1>2. todo \in Seq(Jobs)
  BY DEF CallIInv, IInv, TextType
<1>3. ASSUME call # NoCall
      PROVE  Head(todo).by = "putcon"
  <2>1. \A j \in DOMAIN todo : todo[j].by # "uart"
    BY <1>3 DEF CallIInv, CallShown
  <2>2. 1 \in DOMAIN todo /\ Head(todo) = todo[1] /\ Head(todo) \in Jobs
    BY <1>1, <1>2, LenProperties, EmptySeq
  <2> QED
    BY <1>1, <2>1, <2>2 DEF Jobs, By
<1>4. ASSUME call # NoCall
      PROVE  Chars(todo') = Chars(todo) /\ \A j \in DOMAIN todo' : todo'[j].by # "uart"
  <2>1. todo' = [todo EXCEPT ![1].by = "console"]
    BY <1>1, <1>3, <1>4
  <2>2. /\ Chars(todo') = Chars(todo) /\ DOMAIN todo' = DOMAIN todo /\ todo'[1].by = "console"
        /\ \A j \in DOMAIN todo : j # 1 => todo'[j] = todo[j]
    BY <1>1, <1>2, <2>1, HalfPut
  <2>3. \A j \in DOMAIN todo : todo[j].by # "uart"
    BY <1>4 DEF CallIInv, CallShown
  <2> QED
    BY <2>2, <2>3
<1>5. Chars(todo)' = Chars(todo')
  BY DEF Chars
<1> QED
  BY <1>1, <1>4, <1>5 DEF CallIInv, CallShown

LEMMA PutShown ==
    ASSUME CallIInv, PutConsole
    PROVE  CallShown'
<1>1. /\ UNCHANGED <<said, program, call>> /\ todo # <<>>
      /\ text' = Append(text, Head(todo).char) /\ todo' = Tail(todo)
  BY DEF PutConsole
<1>2. todo \in Seq(Jobs) /\ text \in Seq(Glyph)
  BY DEF CallIInv, IInv, TextType
<1>3. text' \o Chars(todo)' = text \o Chars(todo)
  <2> DEFINE b == Chars(todo)
  <2>1. /\ b \in Seq(Glyph) /\ b # <<>> /\ Head(b) = Head(todo).char /\ Tail(b) = Chars(Tail(todo))
    BY <1>1, <1>2, CharsOf
  <2>2. text' = Append(text, Head(b)) /\ Chars(todo)' = Tail(b)
    BY <1>1, <2>1 DEF Chars
  <2> HIDE DEF b
  <2>4. b \in Seq(Glyph) /\ b # <<>>
    BY <2>1
  <2>3. Append(text, Head(b)) \o Tail(b) = text \o b
    BY <1>2, <2>4, HeadMoves
  <2> QED
    BY <2>2, <2>3 DEF b
<1>4. ASSUME \A j \in DOMAIN todo : todo[j].by # "uart"
      PROVE  \A j \in DOMAIN todo' : todo'[j].by # "uart"
  <2>1. /\ DOMAIN todo = 1..Len(todo) /\ Len(todo) \in Nat /\ Len(todo) > 0
        /\ DOMAIN Tail(todo) = 1..(Len(todo) - 1)
        /\ \A j \in 1..(Len(todo) - 1) : Tail(todo)[j] = todo[j + 1]
    BY <1>1, <1>2, LenProperties, EmptySeq
  <2> SUFFICES ASSUME NEW j \in DOMAIN todo'
               PROVE  todo'[j].by # "uart"
    OBVIOUS
  <2>2. j + 1 \in DOMAIN todo /\ todo'[j] = todo[j + 1]
    BY <1>1, <2>1
  <2> QED
    BY <1>4, <2>2, Zenon
<1> QED
  BY <1>1, <1>3, <1>4 DEF CallIInv, CallShown

LEMMA ProgramShown ==
    ASSUME CallIInv, Program
    PROVE  CallShown'
<1>1. ASSUME NEW kind, Load(kind)
      PROVE  CallShown'
  <2>1. /\ program = "none" /\ todo = <<>> /\ text' = <<>> /\ UNCHANGED <<todo, call>>
    BY <1>1 DEF Load
  <2> QED
    BY <2>1 DEF CallIInv, CallShown
<1>2. ASSUME program = "printer", said = <<>>
      PROVE  call = NoCall /\ text = <<>> /\ todo = <<>>
  <2>1. text = <<>> /\ todo = <<>>
    BY <1>2 DEF CallIInv, CallShown
  <2>2. text \o Chars(todo) = <<>>
    <3>1. Chars(<<>>) = <<>>
      BY CharsOf, EmptySeq
    <3> QED
      BY <2>1, <3>1, ConcatEmptySeq
  <2>3. call # NoCall => call \in Calls /\ text \o Chars(todo) = Printed[call]
    BY DEF CallIInv, CallShown
  <2> QED
    BY <2>1, <2>2, <2>3, PrintedIs
<1>3. ASSUME ProgramPrints
      PROVE  CallShown'
  <2>1. /\ program = "printer" /\ said = <<>> /\ call' \in Calls /\ Job(Printed[call'], xfunc_out)
        /\ said' = Printed[call'] /\ UNCHANGED <<text, program>>
    BY <1>3 DEF ProgramPrints
  <2>2. xfunc_out = "putcon"
    BY <2>1 DEF CallIInv, IInv, Progress, BeforeClear
  <2> DEFINE p == Printed[call']
  <2>3. p \in Seq(STRING) /\ p # <<>>
    BY <2>1, OutputIsText, PrintedIs
  <2>4. p \in Seq(Glyph)
    BY <2>3, SeqMonotonic DEF Glyph
  <2> HIDE DEF p
  <2>5. Job(p, "putcon")
    BY <2>1, <2>2 DEF p
  <2>6. Chars(todo') = p /\ \A j \in DOMAIN todo' : todo'[j].by = "putcon"
    BY <2>4, <2>5, JobOf DEF By
  <2>7. text' = <<>>
    BY <1>2, <2>1
  <2>8. text' \o Chars(todo)' = p
    <3>1. Chars(todo)' = p
      BY <2>6 DEF Chars
    <3> QED
      BY <2>4, <2>7, <3>1, ConcatEmptySeq
  <2>9. said' # <<>>
    BY <2>1, <2>3 DEF p
  <2> QED
    BY <2>1, <2>6, <2>8, <2>9 DEF CallShown, p
<1>4. ASSUME ProgramPuts
      PROVE  CallShown'
  <2>1. /\ program = "printer" /\ said = <<>> /\ UNCHANGED <<text, program, call>>
    BY <1>4 DEF ProgramPuts
  <2>2. PICK s \in Texts : Job(s, "uart") /\ said' = s
    BY <1>4 DEF ProgramPuts
  <2>3. s = <<>> => todo' = <<>>
    <3>1. s \in Seq(Glyph)
      BY <2>2, OutputIsText, SeqMonotonic DEF Glyph
    <3>2. todo' \in Seq(Jobs) /\ Chars(todo') = s
      BY <2>2, <3>1, JobOf DEF By
    <3> QED
      BY <3>2, CharsOf
  <2> QED
    BY <1>2, <2>1, <2>2, <2>3 DEF CallShown
<1>5. ASSUME ProgramGoesOn
      PROVE  CallShown'
  BY <1>5 DEF ProgramGoesOn, CallShown
<1>6. ASSUME ProgramLinks
      PROVE  CallShown'
  <2>1. UNCHANGED <<text, todo, said, program, call>>
    BY <1>6 DEF ProgramLinks, outVars
  <2> QED
    BY <2>1, SameCall
<1> QED
  BY <1>1, <1>3, <1>4, <1>5, <1>6 DEF Program

\* The field on the screen is the one xprintf made.
LEMMA ShowsTheValue == CallIInv => PrintsTheValue
<1> SUFFICES ASSUME CallIInv, call # NoCall, todo = <<>>
             PROVE  PrintsTheValue
  BY Zenon DEF PrintsTheValue
<1>1. call \in Calls /\ text \o Chars(todo) = Printed[call]
  BY DEF CallIInv, CallShown
<1>2. text = Printed[call]
  <2>1. Chars(<<>>) = <<>> /\ text \in Seq(Glyph)
    BY CharsOf, EmptySeq DEF CallIInv, IInv, TextType
  <2> QED
    BY <1>1, <2>1, ConcatEmptySeq
<1>3. Field = FieldOf(call) /\ FieldRight(call, FieldOf(call))
  BY <1>1, <1>2, PrintedIs DEF Field
<1>4. FieldRight(call, Field)
  BY <1>3
<1> DEFINE want == Want(call)
<1>5. want > 0 => want >= 0
  BY <1>1, WidthIs
<1>6. /\ Len(Field) >= AtLeast(call)
      /\ AtLeast(call) > 0 /\ ~(call.type = "s" /\ call.arg = <<>>) =>
           Field[IF FromLeft(call) THEN 1 ELSE Len(Field)] # " "
      /\ ReadsAs(call, Field)
      /\ Len(Field) > AtLeast(call) /\ call.type # "s" =>
           \/ Field = <<"0">>
           \/ Field[1] \notin {"0", " "} /\ Field[Len(Field)] # " "
      /\ call.flag = <<"0">> /\ want > 0 /\ call.type # "s" => " " \notin ToSet(Field)
  BY <1>4, <1>5, Zenon DEF FieldRight, Zeros, Space
<1> QED
  BY <1>6, Zenon DEF PrintsTheValue, AtLeast, FromLeft, ReadsAs, Want

LEMMA CallInit == Init => CallIInv
<1>1. Init => call = NoCall /\ program = "none"
  BY DEF Init
<1> QED
  BY <1>1, FirmwareInit DEF CallIInv, CallShown

\* xprintf prints the argument, in the radix and the width asked for and no wider,
\* filled on the side asked for, whatever the call: division finds the digits that
\* reading them gives back, and neither sign nor fill adds to what is read.
THEOREM PrintsWhatItIsGiven == Spec => []PrintsTheValue
<1>1. IInv /\ CallIInv /\ [Next]_vars => CallShown'
  <2> SUFFICES ASSUME CallIInv, [Next]_vars
               PROVE  CallShown'
    BY DEF CallIInv
  <2>1. ASSUME Send \/ FrameEnds PROVE CallShown'
    BY <2>1, SameCall DEF Send, FrameEnds, outVars
  <2>2. ASSUME UNCHANGED vars PROVE CallShown'
    BY <2>2, SameCall DEF vars, outVars
  <2> QED
    BY <2>1, <2>2, MainNoCall, WriteShown, PutShown, ProgramShown DEF Next, Putting
<1>2. CallIInv /\ [Next]_vars /\ IInv' => CallIInv'
  BY <1>1 DEF CallIInv
<1> QED
  BY <1>2, CallInit, Inductive, ShowsTheValue, PTL DEF Spec
=============================================================================
