------------------------------- MODULE JSAtoms -------------------------------
(***************************************************************************)
(* The atom table of a runtime (spec 4.4): a JSAtom is a uint32_t          *)
(* (quickjs.h 73) and JS_ATOM_NULL, 0, is no atom (quickjs.h 537). Texts  *)
(* are interned in a table of counted entries; an index-shaped key takes   *)
(* the fast path and becomes an atom with bit 31 set and no entry at all,  *)
(* so that an array index and its text are the same atom. The predefined  *)
(* atoms are never counted nor reclaimed. Freed entries are reused, the   *)
(* most recently freed first.                                              *)
(***************************************************************************)
EXTENDS CArith, Sequences, FiniteSets

CONSTANTS
    Names,      \* non-numeric texts
    Predefined, \* the texts of the predefined atoms, a subset of Names
    Nums,       \* uint32 values (words) given to JS_NewAtomUInt32 or as text
    Slots,      \* capacity of the table: entries 1 .. Slots
    Clients,    \* where handles on atoms are held (property keys, C variables)
    NONE        \* no text

\* The text of a number, as JS_NewAtom would be given it.
NumText(n) == [num |-> n]
Texts == Names \cup {NumText(n) : n \in Nums}

\* The predefined atoms occupy the first entries.
PredefIndex == CHOOSE f \in [Predefined -> 1 .. Slots] : \A a, b \in Predefined : a # b => f[a] # f[b]
NPredef == Cardinality(Predefined)
Dynamic == NPredef + 1 .. Slots

ASSUME Predefined \subseteq Names /\ NPredef < Slots

JS_ATOM_NULL == W(0, 0)

\* The largest index that has an index atom: JS_ATOM_MAX_INT, 2^31 - 1.
IsIndexText(t) == t \in {NumText(n) : n \in Nums} /\ t.num.s = 0
IndexAtom(n) == W(1, n.m)
IsIndexAtom(a) == a.s = 1
IsConstAtom(a) == a.s = 0 /\ a.m \in 1 .. NPredef

VARIABLES
    text,       \* text[i]: the text of entry i, or NONE when free
    count,      \* count[i]: the entry's reference count
    freeList,   \* free entries, the next one to reuse first
    held,       \* held[c]: the atom client c owns, or JS_ATOM_NULL
    meant,      \* meant[c]: the text c's atom was made for (history)
    exc,        \* an out-of-memory exception is pending
    str,        \* str[c]: the text of the string value c owns, or NONE
    strMeant    \* strMeant[c]: the text of the atom str[c] was made from (history)

avars == <<text, count, freeList, held, meant, exc, str, strMeant>>

Init ==
    /\ text = [i \in 1 .. Slots |->
                 IF \E p \in Predefined : PredefIndex[p] = i
                 THEN CHOOSE p \in Predefined : PredefIndex[p] = i ELSE NONE]
    /\ count = [i \in 1 .. Slots |-> IF i <= NPredef THEN 1 ELSE 0]
    /\ freeList = [k \in 1 .. Slots - NPredef |-> NPredef + k]
    /\ held = [c \in Clients |-> JS_ATOM_NULL]
    /\ meant = [c \in Clients |-> NONE]
    /\ exc = FALSE
    /\ str = [c \in Clients |-> NONE]
    /\ strMeant = [c \in Clients |-> NONE]

\* The live entry holding text t, if any (the hash lookup).
Lookup(t) == {i \in 1 .. Slots : text[i] = t}

(* Mutant: a text already in the table is shared without counting the new *)
(* handle.                                                                 *)
InternNoDup(c, t) ==
    /\ meant' = [meant EXCEPT ![c] = t]
    /\ \/ \E i \in Lookup(t) :
            /\ held' = [held EXCEPT ![c] = W(0, i)]
            /\ UNCHANGED <<text, count, freeList, exc>>
       \/ /\ Lookup(t) = {} /\ freeList # << >>
          /\ LET i == Head(freeList)
             IN  /\ text' = [text EXCEPT ![i] = t]
                 /\ count' = [count EXCEPT ![i] = 1]
                 /\ freeList' = Tail(freeList)
                 /\ held' = [held EXCEPT ![c] = W(0, i)]
          /\ UNCHANGED exc
       \/ /\ Lookup(t) = {} /\ freeList = << >>
          /\ exc' = TRUE
          /\ UNCHANGED <<text, count, freeList, held>>

(* Intern t for client c: an existing entry is shared (counted unless     *)
(* predefined), else the next free entry is taken with count 1, else the  *)
(* table cannot grow: JS_ATOM_NULL and an out-of-memory exception.        *)
Intern(c, t) ==
    /\ meant' = [meant EXCEPT ![c] = t]
    /\ \/ \E i \in Lookup(t) :
            /\ held' = [held EXCEPT ![c] = W(0, i)]
            /\ count' = IF i <= NPredef THEN count ELSE [count EXCEPT ![i] = @ + 1]
            /\ UNCHANGED <<text, freeList, exc>>
       \/ /\ Lookup(t) = {} /\ freeList # << >>
          /\ LET i == Head(freeList)
             IN  /\ text' = [text EXCEPT ![i] = t]
                 /\ count' = [count EXCEPT ![i] = 1]
                 /\ freeList' = Tail(freeList)
                 /\ held' = [held EXCEPT ![c] = W(0, i)]
          /\ UNCHANGED exc
       \/ /\ Lookup(t) = {} /\ freeList = << >>
          /\ exc' = TRUE
          /\ UNCHANGED <<text, count, freeList, held>>

(* Mutant: JS_NewAtom interns every text, index-shaped ones included.    *)
NewAtomNoIndexCheck(c, t) ==
    /\ held[c] = JS_ATOM_NULL
    /\ Intern(c, t)

(* JS_NewAtom: a text that spells an index below 2^31 is the index atom;  *)
(* any other text is interned. The client must not already own an atom.   *)
JS_NewAtom(c, t) ==
    /\ held[c] = JS_ATOM_NULL
    /\ IF IsIndexText(t)
       THEN /\ held' = [held EXCEPT ![c] = IndexAtom(t.num)]
            /\ meant' = [meant EXCEPT ![c] = t]
            /\ UNCHANGED <<text, count, freeList, exc>>
       ELSE Intern(c, t)

(* JS_NewAtomUInt32, intern_index: an index below 2^31 needs no string;   *)
(* a larger one is interned as its text.                                   *)
JS_NewAtomUInt32(c, n) ==
    /\ held[c] = JS_ATOM_NULL
    /\ IF n.s = 0
       THEN /\ held' = [held EXCEPT ![c] = IndexAtom(n)]
            /\ meant' = [meant EXCEPT ![c] = NumText(n)]
            /\ UNCHANGED <<text, count, freeList, exc>>
       ELSE Intern(c, NumText(n))

\* Dup of an atom: only a counted table entry changes.
Counted(a) == ~IsIndexAtom(a) /\ ~IsConstAtom(a)

(* JS_DupAtom: client c2 receives its own handle on c1's atom.             *)
JS_DupAtom(c1, c2) ==
    /\ held[c1] # JS_ATOM_NULL /\ held[c2] = JS_ATOM_NULL
    /\ held' = [held EXCEPT ![c2] = held[c1]]
    /\ meant' = [meant EXCEPT ![c2] = meant[c1]]
    /\ count' = IF Counted(held[c1]) THEN [count EXCEPT ![held[c1].m] = @ + 1] ELSE count
    /\ UNCHANGED <<text, freeList, exc>>

(* Mutant: the predefined test is dropped, so a predefined atom is counted *)
(* down and reclaimed like any other.                                      *)
FreeAtomNoConstCheck(c) ==
    /\ held[c] # JS_ATOM_NULL
    /\ held' = [held EXCEPT ![c] = JS_ATOM_NULL]
    /\ meant' = [meant EXCEPT ![c] = NONE]
    /\ LET a == held[c] IN
       IF IsIndexAtom(a) THEN UNCHANGED <<text, count, freeList, exc>>
       ELSE /\ count' = [count EXCEPT ![a.m] = @ - 1]
            /\ IF count[a.m] = 1
               THEN /\ text' = [text EXCEPT ![a.m] = NONE]
                    /\ freeList' = <<a.m>> \o freeList
               ELSE UNCHANGED <<text, freeList>>
            /\ UNCHANGED exc

(* JS_FreeAtom: c gives its handle up. A counted entry that reaches zero   *)
(* is cleared and its slot becomes the next one reused.                    *)
JS_FreeAtom(c) ==
    /\ held[c] # JS_ATOM_NULL
    /\ held' = [held EXCEPT ![c] = JS_ATOM_NULL]
    /\ meant' = [meant EXCEPT ![c] = NONE]
    /\ LET a == held[c] IN
       IF ~Counted(a) THEN UNCHANGED <<text, count, freeList, exc>>
       ELSE /\ count' = [count EXCEPT ![a.m] = @ - 1]
            /\ IF count[a.m] = 1
               THEN /\ text' = [text EXCEPT ![a.m] = NONE]
                    /\ freeList' = <<a.m>> \o freeList
               ELSE UNCHANGED <<text, freeList>>
            /\ UNCHANGED exc

(* JS_GetException clears the pending out-of-memory exception.            *)
JS_GetException ==
    /\ exc /\ exc' = FALSE
    /\ UNCHANGED <<text, count, freeList, held, meant>>

(* The text an atom stands for: the decimal text of an index atom (bit   *)
(* 31 cleared), else its entry's text. The mutant keeps bit 31.            *)
AtomTextKeepsTag(a) == IF IsIndexAtom(a) THEN NumText(a) ELSE text[a.m]
AtomText(a) == IF IsIndexAtom(a) THEN NumText(W(0, a.m)) ELSE text[a.m]

(* JS_AtomToString, JS_AtomToValue: c's atom is borrowed and c receives an *)
(* owning string value of its text.                                        *)
JS_AtomToString(c) ==
    /\ held[c] # JS_ATOM_NULL /\ str[c] = NONE
    /\ str' = [str EXCEPT ![c] = AtomText(held[c])]
    /\ strMeant' = [strMeant EXCEPT ![c] = meant[c]]
    /\ UNCHANGED <<text, count, freeList, held, meant, exc>>

(* JS_ValueToAtom: d's string value is borrowed and c receives the atom of *)
(* its text, exactly as JS_NewAtom would make it.                          *)
JS_ValueToAtom(c, d) ==
    /\ str[d] # NONE
    /\ JS_NewAtom(c, str[d])
    /\ UNCHANGED <<str, strMeant>>

(* JS_FreeValue of c's string value.                                       *)
FreeString(c) ==
    /\ str[c] # NONE
    /\ str' = [str EXCEPT ![c] = NONE]
    /\ strMeant' = [strMeant EXCEPT ![c] = NONE]
    /\ UNCHANGED <<text, count, freeList, held, meant, exc>>

Next ==
    \/ \E c \in Clients, t \in Texts : JS_NewAtom(c, t) /\ UNCHANGED <<str, strMeant>>
    \/ \E c \in Clients, n \in Nums : JS_NewAtomUInt32(c, n) /\ UNCHANGED <<str, strMeant>>
    \/ \E c1, c2 \in Clients : JS_DupAtom(c1, c2) /\ UNCHANGED <<str, strMeant>>
    \/ \E c \in Clients : JS_FreeAtom(c) /\ UNCHANGED <<str, strMeant>>
    \/ \E c \in Clients : JS_AtomToString(c)
    \/ \E c, d \in Clients : JS_ValueToAtom(c, d)
    \/ \E c \in Clients : FreeString(c)
    \/ JS_GetException /\ UNCHANGED <<str, strMeant>>

Spec == Init /\ [][Next]_avars

-----------------------------------------------------------------------------
MaxCount == Cardinality(Clients) + 1

\* Each entry's count stays within the handles that can exist; the free
\* list holds table slots.
TypeOK ==
    /\ text \in [1 .. Slots -> Texts \cup {NONE}]
    /\ count \in [1 .. Slots -> 0 .. MaxCount]
    /\ freeList \in Seq(Dynamic)
    /\ held \in [Clients -> {JS_ATOM_NULL} \cup {W(0, i) : i \in 1 .. Slots}
                              \cup {IndexAtom(n) : n \in {m \in Nums : m.s = 0}}]
    /\ exc \in BOOLEAN
    /\ str \in [Clients -> Texts \cup {NONE}]

(* Atom identity (spec 4.4 and section 6): two handles made for the same   *)
(* text, by JS_NewAtom, JS_NewAtomUInt32 or JS_DupAtom, are the same atom, *)
(* so atoms compare by ==, however the text reached the table.             *)
AtomIdentity ==
    \A c, d \in Clients :
        held[c] # JS_ATOM_NULL /\ held[d] # JS_ATOM_NULL /\ meant[c] = meant[d]
            => held[c] = held[d]

(* No stale atom: every owned table atom names a live entry holding the    *)
(* text it was made for, whose count is at least the handles on it, and    *)
(* the free list holds exactly the free dynamic entries, each once. A free *)
(* in JS_FreeAtom that reclaims a shared or predefined entry breaks this.  *)
NoStaleAtom ==
    /\ \A c \in Clients :
         held[c] # JS_ATOM_NULL /\ ~IsIndexAtom(held[c]) =>
            /\ text[held[c].m] = meant[c]
            /\ held[c].m > NPredef =>
                 count[held[c].m] = Cardinality({d \in Clients : held[d] = held[c]})
    /\ Len(freeList) = Cardinality({i \in Dynamic : text[i] = NONE})
    /\ \A k \in 1 .. Len(freeList) : text[freeList[k]] = NONE

(* Atom to text (spec 6, atom boundary): a string value made by            *)
(* JS_AtomToString spells the text its atom was made for, the decimal      *)
(* digits of an index atom included, so JS_ValueToAtom of it gives the      *)
(* same atom back.                                                          *)
AtomTextFaithful ==
    \A c \in Clients : str[c] # NONE => str[c] = strMeant[c]
=============================================================================
