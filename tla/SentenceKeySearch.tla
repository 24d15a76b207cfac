-------------------------- MODULE SentenceKeySearch --------------------------
(***************************************************************************)
(* The split of a query field into known features                          *)
(* (src/src/sentenceLexerKeySearch.cpp): a best-first search over the      *)
(* positions of the field, with a queue of partial splits, and for every   *)
(* position taken from the queue an exploration of the features that start *)
(* there.  The exploration backtracks over a key buffer in which spaces    *)
(* are replaced by links.                                                  *)
(*                                                                         *)
(* Characters are model values for letters and the two separators; names   *)
(* and fields are sequences of them.  Positions count from 0 as in the     *)
(* code.  Fields are shorter than MaxKeyLen.                               *)
(***************************************************************************)
EXTENDS Integers, FiniteSets, SequencesExt

CONSTANTS
    Space, Link, \* m_spaceSubst, m_linkSubst
    End,         \* the character after the last
    Fields,      \* the fields that may be scanned
    NameLists    \* the features that may be stored: sequences of their names
                 \* in the order of the database

Seps == {Space, Link}

ASSUME KeySearchAssumption ==
    /\ Space # Link /\ End \notin Seps
    /\ \A f \in Fields : f \in Seq(Range(f)) /\ End \notin Range(f)
    /\ \A ns \in NameLists :
          /\ ns \in Seq(Range(ns))
          /\ \A i \in DOMAIN ns : ns[i] \in Seq(Range(ns[i])) /\ ns[i] # << >>

\* In the order of the database a name comes before the longer ones it begins.
ASSUME NameOrderAssumption ==
    \A ns \in NameLists : \A i, j \in DOMAIN ns : IsPrefix(ns[i], ns[j]) => i <= j

VARIABLES
    field,     \* the argument of scanField
    names,     \* the features stored; the number of a feature is its place
    phase,     \* "queue": between two elements of the queue, "expand": in the
               \* exploration of cur, "done"
    queue,     \* the partial splits to be continued
    elemar,    \* the elements of the splits, linked by their predecessor
    solutions, \* the complete splits
    minsize,   \* the size of the smallest of them, -1 if there is none
    cur,       \* the queue element processed
    key,       \* the key buffer of keyCursor
    kitr,      \* its current position
    stack      \* keyCursorStack: saved buffers and positions

vars == <<field, names, phase, queue, elemar, solutions, minsize, cur, key, kitr, stack>>

QueueElement == [nofUnresolved : Nat, pos : Nat, predidx : Nat \cup {-1}, size : Nat]

TypeOK ==
    /\ field \in Fields /\ names \in NameLists
    /\ phase \in {"queue", "expand", "done"}
    /\ queue \subseteq QueueElement /\ cur \in QueueElement
    /\ \A i \in DOMAIN elemar :
          /\ elemar[i].featno \in 0..Len(names)
          /\ elemar[i].startpos < elemar[i].endpos /\ elemar[i].endpos <= Len(field)
          /\ elemar[i].predidx \in -1..(i - 2)
    /\ \A i \in DOMAIN solutions : solutions[i].idx \in -1..(Len(elemar) - 1)
    /\ minsize \in Nat \cup {-1}
    /\ \A q \in queue : q.pos <= Len(field) /\ q.predidx < Len(elemar)
    /\ kitr \in 0..Len(key)
    /\ \A i \in DOMAIN stack : stack[i].kitr \in 0..Len(stack[i].key)

Init ==
    /\ field \in Fields /\ names \in NameLists
    /\ phase = "queue"
    /\ cur = [nofUnresolved |-> 0, pos |-> 0, predidx |-> -1, size |-> 0]
    /\ queue = {cur}
    /\ elemar = << >> /\ solutions = << >> /\ minsize = -1
    /\ key = << >> /\ kitr = 0 /\ stack = << >>

-----------------------------------------------------------------------------
(* KeyCursor.                                                              *)

CharAt(s, p) == IF p < Len(s) THEN s[p + 1] ELSE End

\* skipToken: over a link, or over the word and a space before it
SkipToken(k, p) ==
    IF CharAt(k, p) = Link THEN p + 1
    ELSE LET from == IF CharAt(k, p) = Space THEN p + 1 ELSE p
         IN  Min({q \in from..Len(k) : CharAt(k, q) \in Seps \cup {End}})

\* isEqualField: spaces and links are not distinguished
EqualField(a, b) ==
    /\ Len(a) = Len(b)
    /\ \A i \in DOMAIN a : a[i] = b[i] \/ {a[i], b[i]} = Seps

\* FeatureCursor::skipPrefix: the first feature with the prefix, 0 if none
Hit(prefix) ==
    LET found == {i \in DOMAIN names : IsPrefix(prefix, names[i])}
    IN  IF found = {} THEN 0 ELSE Min(found)

\* (fault: one character more than the rest of the field is always accepted)
Fault_KeyLen(f, p) ==
    LET rest == SubSeq(field, p + 1, Len(field))
        n == Len(names[f])
    IN  IF /\ n <= Len(rest) /\ EqualField(SubSeq(rest, 1, n), names[f])
           /\ (n = Len(rest) \/ CharAt(field, n) \in Seps \/ CharAt(field, n - 1) \in Seps)
        THEN n
        ELSE IF n = Len(rest) + 1 /\ EqualField(rest, SubSeq(names[f], 1, n - 1))
        THEN n - 1
        ELSE -1

\* How much of the field from position p on feature f stands for, -1 if it
\* does not.  The separator after it is looked for at the length of the name
\* in the field, which is the end of the name only if p is 0.
KeyLen(f, p) ==
    LET rest == SubSeq(field, p + 1, Len(field))
        n == Len(names[f])
    IN  IF /\ n <= Len(rest) /\ EqualField(SubSeq(rest, 1, n), names[f])
           /\ (n = Len(rest) \/ CharAt(field, n) \in Seps \/ CharAt(field, n - 1) \in Seps)
        THEN n
        ELSE IF /\ n = Len(rest) + 1 /\ EqualField(rest, SubSeq(names[f], 1, n - 1))
                /\ names[f][n] = Link
        THEN n - 1
        ELSE -1

\* tryLoad: the first feature that fits, with growing prefixes of the key;
\* none or one
Loaded(k, kofs, p) ==
    LET fit == {x \in (kofs..Len(k)) \X (DOMAIN names) :
                   x[2] = Hit(SubSeq(k, 1, x[1])) /\ KeyLen(x[2], p) # -1}
    IN  {[featno |-> x[2], keylen |-> KeyLen(x[2], p)] :
            x \in {y \in fit : \A z \in fit : y[1] <= z[1]}}

IsWord(k, p) == \E i \in 1..p : k[i] \notin Seps

\* (fault: a position is always followed by the next but one)
Fault_Successor(k, p) == IF p < Len(k) THEN p + 1 ELSE p

\* The position after a feature or token: one separator is skipped.
Successor(k, p) == IF CharAt(k, p) \in Seps THEN p + 1 ELSE p

\* Where the saved key leaves the one that is continued: at the first space
\* in the feature found, which is changed to a link there.
Deviation(k, p, keylen) ==
    Min({q \in p..Len(k) :
            /\ (q = p \/ CharAt(k, q) \in Seps \cup {End} \/ CharAt(k, q - 1) = Link)
            /\ (q >= keylen \/ CharAt(k, q) = Space)})

LinkAt(k, q) == IF CharAt(k, q) = Space THEN [k EXCEPT ![q + 1] = Link] ELSE k

\* The key is continued after the feature found with links for the first
\* space in it and the space after it.  The keys without are saved: a copy of
\* KeyCursor keeps the pointers into the original buffer, so the change is
\* made there, and the content copied is what assignment restores.
Continue(k, p, keylen, saved) ==
    LET q == Deviation(k, p, keylen)
        k1 == IF q < keylen THEN LinkAt(k, q) ELSE k
    IN  /\ key' = LinkAt(k1, keylen)
        /\ kitr' = keylen
        /\ stack' = saved \o (IF q = keylen THEN << >> ELSE <<[key |-> k, kitr |-> q]>>)
                          \o (IF CharAt(k1, keylen) = Space
                              THEN <<[key |-> k1, kitr |-> keylen]>> ELSE << >>)

-----------------------------------------------------------------------------
(* The queue: scanField.                                                   *)

\* (fault: the position counts before the number of unresolved elements)
Fault_Precedes(a, b) ==
    \/ a.pos > b.pos
    \/ a.pos = b.pos /\ a.nofUnresolved < b.nofUnresolved
    \/ a.pos = b.pos /\ a.nofUnresolved = b.nofUnresolved /\ a.size < b.size
    \/ a.pos = b.pos /\ a.nofUnresolved = b.nofUnresolved /\ a.size = b.size /\ a.predidx < b.predidx

\* QueueElement::operator<
Precedes(a, b) ==
    \/ a.nofUnresolved < b.nofUnresolved
    \/ /\ a.nofUnresolved = b.nofUnresolved
       /\ \/ a.pos > b.pos
          \/ a.pos = b.pos /\ a.size < b.size
          \/ a.pos = b.pos /\ a.size = b.size /\ a.predidx < b.predidx

First == CHOOSE q \in queue : \A o \in queue : o = q \/ Precedes(q, o)

\* No better solution can follow one with fewer unresolved elements.
HasMore ==
    queue # {} /\ (solutions # << >> => solutions[1].nofUnresolved >= First.nofUnresolved)

\* A split with more than one element more than the smallest is dropped.
TooLong(q) == solutions # << >> /\ minsize # -1 /\ q.size > minsize + 1

Taking == phase = "queue" /\ HasMore

\* (fault: the element dropped is not removed)
Fault_Drop ==
    /\ Taking /\ TooLong(First)
    /\ UNCHANGED vars

Drop ==
    /\ Taking /\ TooLong(First)
    /\ queue' = queue \ {First}
    /\ UNCHANGED <<field, names, phase, elemar, solutions, minsize, cur, key, kitr, stack>>

Complete ==
    /\ Taking /\ ~TooLong(First)
    /\ First.pos = Len(field)
    /\ queue' = queue \ {First}
    /\ minsize' = IF minsize = -1 \/ minsize > First.size THEN First.size ELSE minsize
    /\ solutions' = Append(solutions, [idx |-> First.predidx, nofUnresolved |-> First.nofUnresolved])
    /\ UNCHANGED <<field, names, phase, elemar, cur, key, kitr, stack>>

\* The element that q is continued with, and what follows it in the queue
Element(q, featno, size) ==
    [featno |-> featno, startpos |-> q.pos, endpos |-> q.pos + size, predidx |-> q.predidx]

\* (fault: the index of the element is taken after it has been pushed)
Fault_Following(q, unresolved, k, size) ==
    [nofUnresolved |-> q.nofUnresolved + unresolved, pos |-> q.pos + Successor(k, size),
     predidx |-> Len(elemar) + 1, size |-> q.size + 1]

Following(q, unresolved, k, size) ==
    [nofUnresolved |-> q.nofUnresolved + unresolved, pos |-> q.pos + Successor(k, size),
     predidx |-> Len(elemar), size |-> q.size + 1]

\* keyCursor as it is set up for the first element of the queue
Rest == SubSeq(field, First.pos + 1, Len(field))
Token == SkipToken(Rest, 0)

\* A feature starts here; a separator alone may also be skipped.
Explore ==
    /\ Taking /\ ~TooLong(First)
    /\ First.pos < Len(field)
    /\ \E k \in {Rest}, p \in {Token}, q \in {First} : \E r \in Loaded(k, p, q.pos) :
          /\ cur' = q
          /\ queue' = (queue \ {q}) \cup {Following(q, 0, k, r.keylen)}
                      \cup IF IsWord(k, p) THEN {} ELSE {[q EXCEPT !.pos = @ + p]}
          /\ elemar' = Append(elemar, Element(q, r.featno, r.keylen))
          /\ Continue(k, p, r.keylen, << >>)
    /\ phase' = "expand"
    /\ UNCHANGED <<field, names, solutions, minsize>>

\* No feature starts here: the token is unresolved, separators are skipped.
Unknown ==
    /\ Taking /\ ~TooLong(First)
    /\ First.pos < Len(field)
    /\ Loaded(Rest, Token, First.pos) = {}
    /\ \E k \in {Rest}, p \in {Token}, q \in {First} :
          IF IsWord(k, p)
          THEN /\ queue' = (queue \ {q}) \cup {Following(q, 1, k, p)}
               /\ elemar' = Append(elemar, Element(q, 0, p))
          ELSE /\ queue' = (queue \ {q}) \cup {[q EXCEPT !.pos = @ + Successor(k, p)]}
               /\ UNCHANGED elemar
    /\ UNCHANGED <<field, names, phase, solutions, minsize, cur, key, kitr, stack>>

\* tryLoadNext, if the key has more
LoadedNext == IF kitr < Len(key) THEN Loaded(key, SkipToken(key, kitr), cur.pos) ELSE {}

Expand ==
    /\ phase = "expand"
    /\ \E r \in LoadedNext :
          /\ queue' = queue \cup {Following(cur, 0, key, r.keylen)}
          /\ elemar' = Append(elemar, Element(cur, r.featno, r.keylen))
          /\ Continue(key, SkipToken(key, kitr), r.keylen, stack)
    /\ UNCHANGED <<field, names, phase, solutions, minsize, cur>>

\* (fault: the buffer keeps its links when a saved key is resumed)
Fault_Backtrack ==
    /\ phase = "expand" /\ LoadedNext = {} /\ stack # << >>
    /\ kitr' = stack[Len(stack)].kitr
    /\ stack' = SubSeq(stack, 1, Len(stack) - 1)
    /\ UNCHANGED <<field, names, phase, queue, elemar, solutions, minsize, cur, key>>

Backtrack ==
    /\ phase = "expand" /\ LoadedNext = {} /\ stack # << >>
    /\ key' = stack[Len(stack)].key
    /\ kitr' = stack[Len(stack)].kitr
    /\ stack' = SubSeq(stack, 1, Len(stack) - 1)
    /\ UNCHANGED <<field, names, phase, queue, elemar, solutions, minsize, cur>>

ExpandEnds ==
    /\ phase = "expand" /\ LoadedNext = {} /\ stack = << >>
    /\ phase' = "queue"
    /\ key' = << >> /\ kitr' = 0
    /\ UNCHANGED <<field, names, queue, elemar, solutions, minsize, cur, stack>>

ScanEnds ==
    /\ phase = "queue" /\ ~HasMore
    /\ phase' = "done"
    /\ UNCHANGED <<field, names, queue, elemar, solutions, minsize, cur, key, kitr, stack>>

\* scanField has returned: not a deadlock.
Returned == phase = "done" /\ UNCHANGED vars

Step == Drop \/ Complete \/ Explore \/ Unknown \/ Expand \/ Backtrack \/ ExpandEnds \/ ScanEnds

Next == Step \/ Returned

\* scanField runs in one thread without waiting for anything.
Spec == Init /\ [][Next]_vars /\ WF_vars(Step)

-----------------------------------------------------------------------------
(* Properties.                                                             *)

\* The elements that lead to element i, the elements numbered from 0
Trace[i \in -1..(Len(elemar) - 1)] ==
    IF i = -1 THEN << >> ELSE Append(Trace[elemar[i + 1].predidx], elemar[i + 1])

OnlySeps(a, b) == \A p \in a..(b - 1) : CharAt(field, p) \in Seps

\* Every solution covers the field: its elements follow each other, and what
\* is between them, before the first and after the last, is separators.
SolutionsCoverField ==
    \A i \in DOMAIN solutions :
        LET t == Trace[solutions[i].idx]
            ends == <<0>> \o [j \in DOMAIN t |-> t[j].endpos]
            starts == Append([j \in DOMAIN t |-> t[j].startpos], Len(field))
        IN  \A j \in DOMAIN ends : ends[j] <= starts[j] /\ OnlySeps(ends[j], starts[j])

\* A feature stands for the part of the field that it is given for: they are
\* equal but for spaces and links, and a link the name ends with.
ElementsNamed ==
    \A i \in DOMAIN elemar :
        LET e == elemar[i]
            part == SubSeq(field, e.startpos + 1, e.endpos)
        IN  e.featno # 0 =>
                \/ EqualField(part, names[e.featno])
                \/ e.endpos = Len(field) /\ EqualField(Append(part, Link), names[e.featno])

\* All solutions have the same number of unresolved elements, and none of the
\* splits still in the queue when the search gives up has less.
FewestUnresolved ==
    /\ \A i \in DOMAIN solutions :
          LET t == Trace[solutions[i].idx]
          IN  /\ solutions[i].nofUnresolved = Cardinality({j \in DOMAIN t : t[j].featno = 0})
              /\ solutions[i].nofUnresolved = solutions[1].nofUnresolved
    /\ phase = "done" => \A q \in queue : q.nofUnresolved > solutions[1].nofUnresolved

\* A field that is the name of a feature is found as this feature, or as one
\* whose name differs in spaces and links only, whatever other features have
\* a part of it as their name.
WholeFieldFound ==
    phase = "done" /\ field # << >> /\ (\E f \in DOMAIN names : names[f] = field) =>
        \E i \in DOMAIN solutions :
            LET t == Trace[solutions[i].idx]
            IN  Len(t) = 1 /\ t[1].featno # 0 /\ t[1].startpos = 0 /\ t[1].endpos = Len(field)

\* The search ends: no sequence of separators or backtracking repeats itself.
Terminates == <>(phase = "done")

=============================================================================
