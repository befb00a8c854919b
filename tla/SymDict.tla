------------------------------ MODULE SymDict ------------------------------
(***************************************************************************)
(* What src/briey/symtable.c promises a program: a dictionary of at most   *)
(* Room names, which tells names apart by their first characters only.     *)
(* The promise ends where a name is stored with the end of an older one,   *)
(* and is good again once the table has been cleared.                      *)
(***************************************************************************)
EXTENDS Naturals, FiniteSets

CONSTANTS Room, NoAddress

VARIABLES
    dict,       \* the names in the table, each with its address
    call,       \* the last call: "clear", "get" or "put", with key and address
    answer,     \* what it led its caller to
    astray      \* the promise no longer holds

dvars == <<dict, call, answer, astray>>

DInit == dict = {} /\ answer = NoAddress /\ ~astray

Known(k) == \E entry \in dict : entry[1] = k

\* The address of a name in the table, or none.
Lookup(k) == /\ IF Known(k) THEN <<k, answer'>> \in dict ELSE answer' = NoAddress
             /\ dict' = dict

\* A name that is there gets the address, and its caller no answer.
Update(k, a) == /\ Known(k)
                /\ dict' = {entry \in dict : entry[1] # k} \cup {<<k, a>>}
                /\ answer' = NoAddress

Insert(k, a) == /\ ~Known(k) /\ Cardinality(dict) < Room
                /\ dict' = dict \cup {<<k, a>>}
                /\ answer' = a

Refuse(k) == /\ ~Known(k) /\ Cardinality(dict) = Room
             /\ dict' = dict /\ answer' = NoAddress

Serve ==
    \/ call'.op = "clear" /\ dict' = {} /\ answer' = NoAddress
    \/ call'.op = "get" /\ Lookup(call'.key)
    \/ call'.op = "put" /\ \/ Update(call'.key, call'.address)
                           \/ Insert(call'.key, call'.address)
                           \/ Refuse(call'.key)

DNext == astray' \/ (Serve /\ (astray => call'.op = "clear"))
Dictionary == DInit /\ [][DNext]_dvars
=============================================================================
