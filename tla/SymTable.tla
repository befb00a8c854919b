------------------------------ MODULE SymTable ------------------------------
(***************************************************************************)
(* The symbol table of src/briey/symtable.c, by which the firmware tells   *)
(* loaded programs where its functions are.  One action is one call.  A    *)
(* name is a C string, here a sequence of characters without its NUL; a    *)
(* slot holds an array of SYMNAMELEN of them, which a name of that length  *)
(* or more fills without a NUL, and a shorter one does not end either.     *)
(***************************************************************************)
EXTENDS Naturals, Sequences, FiniteSets

CONSTANTS
    SYMNAMELEN, SYMTABLESIZ,
    Char, NUL,      \* the characters of names, and the one that ends a string
    Names,          \* the names programs use
    Addresses,
    NoAddress       \* no address

ASSUME SymSizes == SYMNAMELEN \in Nat \ {0} /\ SYMTABLESIZ \in Nat \ {0}
ASSUME SymNames == Names \subseteq Seq(Char) \ {<<>>} /\ NUL \notin Char
ASSUME SymAddresses == NoAddress \notin Addresses /\ 0 \in Addresses

VARIABLES
    table,          \* _SYMTABLE
    beyond,         \* the word symt_clear takes for an address, past its end
    last,           \* history: the last call
    ret,            \* the slot it returned; 0 is the null pointer
    lost            \* history: a name got the tail of an older one

symVars == <<table, beyond, last, ret, lost>>

Slot == 1..SYMTABLESIZ
Pos  == 1..SYMNAMELEN

Used(i) == table[i].name[1] # NUL

CharOf(n, p) == IF p <= Len(n) THEN n[p] ELSE NUL

\* strncmp finds no difference: up to the first NUL, at most SYMNAMELEN.
SameName(f, n) ==
    \A p \in Pos : (\A q \in 1..(p - 1) : f[q] # NUL) => f[p] = CharOf(n, p)

\* The smallest of some slots, and 0 of none.
FirstOf(S) == IF S = {} THEN 0 ELSE CHOOSE i \in S : \A j \in S : i <= j

Matches(n) == {i \in Slot : Used(i) /\ SameName(table[i].name, n)}
Free       == {i \in Slot : ~Used(i)}

\* The first slot in use that has the name.
Find(n) == FirstOf(Matches(n))

\* strncpy of the name without its end.
Written(f, n) == [p \in Pos |-> IF p <= Len(n) THEN n[p] ELSE f[p]]

Called(op, n, a) == [op |-> op, name |-> n, address |-> a]

SymInit ==
    /\ table = [i \in Slot |-> [name |-> [p \in Pos |-> NUL], address |-> 0]]
    /\ beyond \in Addresses /\ last = Called("none", <<>>, 0) /\ ret = 0 /\ lost = FALSE

-----------------------------------------------------------------------------
symt_clear ==
    /\ table' = [i \in Slot |-> [table[i] EXCEPT !.name[1] = NUL]]
    /\ beyond' = 0 /\ last' = Called("clear", <<>>, 0) /\ ret' = 0 /\ lost' = FALSE

symt_get(n) ==
    /\ ret' = Find(n) /\ last' = Called("get", n, 0)
    /\ UNCHANGED <<table, beyond, lost>>

\* Mutant: a name that is there keeps its address.
PutAgainKeeps(n, a) ==
    /\ Find(n) # 0
    /\ ret' = 0
    /\ UNCHANGED <<table, beyond, lost>>

\* A name that is there gets the new address, and the null pointer is returned.
PutAgain(n, a) ==
    /\ Find(n) # 0
    /\ table' = [table EXCEPT ![Find(n)].address = a]
    /\ ret' = 0
    /\ UNCHANGED <<beyond, lost>>

\* A new one takes the first free slot.
PutNew(n, a) ==
    /\ Find(n) = 0 /\ Free # {}
    /\ LET i == FirstOf(Free)
           name == Written(table[i].name, n)
       IN  /\ table' = [table EXCEPT ![i] = [name |-> name, address |-> a]]
           /\ ret' = i
           /\ lost' = (lost \/ ~SameName(name, n))
    /\ UNCHANGED beyond

PutFull(n) ==
    /\ Find(n) = 0 /\ Free = {}
    /\ ret' = 0
    /\ UNCHANGED <<table, beyond, lost>>

symt_put(n, a) == /\ PutAgain(n, a) \/ PutNew(n, a) \/ PutFull(n)
                  /\ last' = Called("put", n, a)

SymNext == \/ symt_clear
           \/ \E n \in Names : symt_get(n) \/ \E a \in Addresses : symt_put(n, a)
SymSpec == SymInit /\ [][SymNext]_symVars

-----------------------------------------------------------------------------
\* Properties.

\* Up to its first NUL, a stored name; the same for a name.
KeyOf(f)   == [p \in Pos |-> IF \A q \in 1..p : f[q] # NUL THEN f[p] ELSE NUL]
KeyFor(n)  == [p \in Pos |-> CharOf(n, p)]

\* To its users the table is a dictionary of names cut to SYMNAMELEN
\* characters: a name put is found with the address last put for it, until the
\* table is cleared; a full table drops new names and keeps the old.  Only a
\* name shorter than the one its slot held before a clear breaks this.
Dict == INSTANCE SymDict
    WITH Room <- SYMTABLESIZ, astray <- lost,
         dict <- {<<KeyOf(table[i].name), table[i].address>> : i \in {j \in Slot : Used(j)}},
         call <- [op |-> last.op, key |-> KeyFor(last.name), address |-> last.address],
         answer <- IF ret = 0 THEN NoAddress ELSE table[ret].address
FindsWhatWasPut == Dict!Dictionary
=============================================================================
