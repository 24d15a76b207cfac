------------------------------ MODULE PageWeight ------------------------------
(***************************************************************************)
(* The program strusPageWeight (src/src_pageweight): it reads declarations *)
(* of pages with their links and redirects, drops what leads to pages      *)
(* nobody declared, and builds the sparse matrix of the page rank          *)
(* calculation.  The calculation itself is arithmetic and left out.        *)
(*                                                                         *)
(* The input is a sequence of lexemes; those that are none of the four     *)
(* symbols are names.  The empty name stands for a name not set.           *)
(***************************************************************************)
EXTENDS Integers, FiniteSets, SequencesExt

CONSTANT Inputs \* the inputs that may be read

Symbols == {"*", "=", "->", ";"}

ASSUME PageAssumption == Inputs \subseteq Seq(STRING) /\ "" \notin UNION {Range(i) : i \in Inputs}

VARIABLES
    input, pos,   \* the lexemes, and how many of them are read
    phase,        \* "parse", "reduce", "calculate", "done", "error"
    declname, linknames, redirectname, \* the declaration read
    idinv,        \* m_idinv: the names of the pages, by their identifiers
    defset,       \* m_defset: the pages declared with links
    linkMatrix,   \* m_linkMatrix: counts of the links
    redirectMap,  \* m_redirectMap
    maxrow, maxcol, \* m_maxrow, m_maxcol
    dummies,      \* the empty elements that give the matrix its size
    declared      \* history: the links and redirects declared, in their order

declVars == <<declname, linknames, redirectname>>
pageVars == <<idinv, defset, linkMatrix, redirectMap, maxrow, maxcol>>
vars == <<input, pos, phase, declVars, pageVars, dummies, declared>>

Pages == DOMAIN idinv

TypeOK ==
    /\ pos \in 0..Len(input)
    /\ phase \in {"parse", "reduce", "calculate", "done", "error"}
    /\ Cardinality(Range(idinv)) = Len(idinv)
    /\ defset \subseteq Pages
    /\ DOMAIN linkMatrix \subseteq Pages \X Pages
    /\ \A l \in DOMAIN linkMatrix : linkMatrix[l] > 0 /\ l[1] <= maxrow /\ l[2] <= maxcol
    /\ DOMAIN redirectMap \subseteq Pages
    /\ \A p \in DOMAIN redirectMap : redirectMap[p] \in Pages \ {p}
    /\ maxrow \in 0..Len(idinv) /\ maxcol \in 0..Len(idinv)

Empty == [p \in {} |-> 0]

Init ==
    /\ input \in Inputs /\ pos = 0
    /\ phase = "parse"
    /\ declname = "" /\ linknames = << >> /\ redirectname = ""
    /\ idinv = << >> /\ defset = {} /\ linkMatrix = Empty /\ redirectMap = Empty
    /\ maxrow = 0 /\ maxcol = 0
    /\ dummies = << >> /\ declared = << >>

-----------------------------------------------------------------------------
(* The parser in main.                                                     *)

Reading(lexeme) == phase = "parse" /\ pos < Len(input) /\ input[pos + 1] = lexeme

HasName(i) == i <= Len(input) /\ input[i] \notin Symbols

\* A rule starts with the name of a page; one without name is skipped.
StartRule ==
    /\ Reading("*")
    /\ linknames' = << >> /\ redirectname' = ""
    /\ \/ /\ HasName(pos + 2)
          /\ declname' = input[pos + 2]
          /\ pos' = pos + 2
          /\ UNCHANGED phase
       \/ /\ pos + 2 <= Len(input) /\ input[pos + 2] = "="
          /\ declname' = ""
          /\ pos' = Min({i \in (pos + 3)..Len(input) : input[i] = ";"} \cup {Len(input)})
          /\ UNCHANGED phase
       \/ /\ ~HasName(pos + 2) /\ (pos + 2 <= Len(input) => input[pos + 2] # "=")
          /\ declname' = ""
          /\ phase' = "error"
          /\ UNCHANGED pos
    /\ UNCHANGED <<input, pageVars, dummies, declared>>

NameOrEqual ==
    /\ phase = "parse" /\ pos < Len(input)
    /\ HasName(pos + 1) \/ input[pos + 1] = "="
    /\ pos' = pos + 1
    /\ linknames' = IF HasName(pos + 1) THEN Append(linknames, input[pos + 1]) ELSE linknames
    /\ UNCHANGED <<input, phase, declname, redirectname, pageVars, dummies, declared>>

\* (fault: a second arrow is read as if it was the first)
Fault_Redirect ==
    /\ Reading("->")
    /\ UNCHANGED <<pos, redirectname, declname, linknames>>
    /\ UNCHANGED <<input, phase, pageVars, dummies, declared>>

\* The name after an arrow.  A second arrow takes the place of the first, the
\* end of the rule drops the rule, and another symbol is dropped.  At the end
\* of the input the arrow is read again, for ever.
Redirect ==
    /\ Reading("->")
    /\ \/ /\ HasName(pos + 2)
          /\ redirectname' = input[pos + 2] /\ pos' = pos + 2
          /\ UNCHANGED <<declname, linknames>>
       \/ /\ pos + 1 = Len(input)
          /\ redirectname' = ""
          /\ UNCHANGED <<pos, declname, linknames>>
       \/ /\ pos + 2 <= Len(input) /\ input[pos + 2] \in Symbols
          /\ redirectname' = ""
          /\ pos' = IF input[pos + 2] = "->" THEN pos + 1 ELSE pos + 2
          /\ declname' = IF input[pos + 2] = ";" THEN "" ELSE declname
          /\ linknames' = IF input[pos + 2] = ";" THEN << >> ELSE linknames
    /\ UNCHANGED <<input, phase, pageVars, dummies, declared>>

\* (fault: a name gets a new identifier whenever it is read)
Fault_WithName(ns, n) == Append(ns, n)

\* getOrCreatePageId
WithName(ns, n) == IF n \in Range(ns) THEN ns ELSE Append(ns, n)
IdOf(ns, n) == CHOOSE i \in DOMAIN ns : ns[i] = n

\* getOrCreatePageId for every name of a sequence
Named(ns, s) == FoldLeft(WithName, ns, s)

Larger(a, b) == IF a > b THEN a ELSE b

\* (fault: a link declared twice counts once)
Fault_LinksAdded(m, froms) == [l \in DOMAIN m \cup Range(froms) |-> IF l \in DOMAIN m THEN m[l] ELSE 1]

\* addLink for every pair of the sequence
LinksAdded(m, pairs) ==
    [l \in DOMAIN m \cup Range(pairs) |->
        (IF l \in DOMAIN m THEN m[l] ELSE 0) + Cardinality({i \in DOMAIN pairs : pairs[i] = l})]

\* The names of a rule in the order they get their identifiers
NewNames ==
    IF declname = "" THEN <<"">>
    ELSE <<declname>> \o (IF redirectname = "" THEN << >> ELSE <<redirectname>>) \o linknames

\* The end of a rule: pages are numbered in the order of their appearance.  A
\* page is declared if it has links.  A rule without name counts as a page
\* with the empty name, and its links are dropped.
EndRule ==
    /\ Reading(";")
    /\ \E ns \in {Named(idinv, NewNames)} : \E d \in {IdOf(ns, declname)} :
       \E pairs \in {IF declname = "" THEN << >>
                      ELSE [i \in DOMAIN linknames |-> <<d, IdOf(ns, linknames[i])>>]} :
           /\ idinv' = ns
           /\ defset' = IF linknames = << >> THEN defset ELSE defset \cup {d}
           /\ redirectMap' = IF declname = "" \/ redirectname \in {"", declname} THEN redirectMap
                             ELSE [p \in DOMAIN redirectMap \cup {d} |->
                                      IF p = d THEN IdOf(ns, redirectname) ELSE redirectMap[p]]
           /\ linkMatrix' = LinksAdded(linkMatrix, pairs)
           /\ maxrow' = IF pairs = << >> THEN maxrow ELSE Larger(maxrow, d)
           /\ maxcol' = Max({maxcol} \cup {pairs[i][2] : i \in DOMAIN pairs})
    /\ declared' = IF declname = "" THEN declared
                   ELSE Append(declared, [name |-> declname, links |-> linknames, redirect |-> redirectname])
    /\ pos' = pos + 1
    /\ declname' = "" /\ linknames' = << >> /\ redirectname' = ""
    /\ UNCHANGED <<input, phase, dummies>>

EndOfInput ==
    /\ phase = "parse" /\ pos = Len(input)
    /\ phase' = "reduce"
    /\ UNCHANGED <<input, pos, declVars, pageVars, dummies, declared>>

-----------------------------------------------------------------------------
(* PageWeight::reduce and calculate.                                       *)

\* (fault: redirects of declared pages are followed, too)
Fault_Resolved(p) ==
    IF p \in DOMAIN redirectMap /\ redirectMap[p] \in defset THEN redirectMap[p] ELSE p

\* resolveRedirect: one redirect is followed, to a declared page only
Resolved(p) ==
    IF p \notin defset /\ p \in DOMAIN redirectMap /\ redirectMap[p] \in defset
    THEN redirectMap[p] ELSE p

\* The names of the first i pages, as far as they are declared
DeclaredNames[i \in 0..Len(idinv)] ==
    IF i = 0 THEN << >>
    ELSE IF i \in defset THEN Append(DeclaredNames[i - 1], idinv[i]) ELSE DeclaredNames[i - 1]

\* The counts of the links of a set, which become one
Sum(links) == FoldSet(LAMBDA l, sum : sum + linkMatrix[l], 0, links)

KeptLinks == {l \in DOMAIN linkMatrix : l[1] \in defset /\ Resolved(l[2]) \in defset}

\* The declared pages get new identifiers in the order of the old ones; the
\* links to them stay, those to pages redirected to them are added.
Reduce ==
    /\ phase = "reduce"
    /\ \E ns \in {DeclaredNames[Len(idinv)]} :
       \E new \in {[l \in KeptLinks |-> <<IdOf(ns, idinv[l[1]]), IdOf(ns, idinv[Resolved(l[2])])>>]} :
           /\ idinv' = ns
           /\ linkMatrix' = [n \in Range(new) |-> Sum({l \in KeptLinks : new[l] = n})]
           /\ maxrow' = Max({0} \cup {l[1] : l \in Range(new)})
           /\ maxcol' = Max({0} \cup {l[2] : l \in Range(new)})
           /\ defset' = DOMAIN ns
    /\ redirectMap' = Empty
    /\ phase' = "calculate"
    /\ UNCHANGED <<input, pos, declVars, dummies, declared>>

\* (fault: the size of the matrix is taken for granted if there are links)
Fault_Dummies ==
    IF linkMatrix # Empty THEN << >> ELSE <<<<1, Len(idinv)>>, <<Len(idinv), 1>>>>

\* Elements of value 0 in the last column and the last row, each if no link
\* is in it; an element is a pair of row and column.
Dummies ==
    (IF maxrow < Len(idinv) THEN <<<<1, Len(idinv)>>>> ELSE << >>)
    \o (IF maxcol < Len(idinv) THEN <<<<Len(idinv), 1>>>> ELSE << >>)

\* A link is the element in the row of its target and the column of its source.
Elements == {<<l[2], l[1]>> : l \in DOMAIN linkMatrix}

\* The library takes the size of the matrix from all elements, drops those of
\* value 0 and only then looks for two of them at one place: the dummies never
\* clash with a link or with each other.
Calculate ==
    /\ phase = "calculate"
    /\ dummies' = IF idinv = << >> THEN << >> ELSE Dummies
    /\ phase' = "done"
    /\ UNCHANGED <<input, pos, declVars, pageVars, declared>>

\* The program has ended: not a deadlock.
Ended == phase \in {"done", "error"} /\ UNCHANGED vars

Step ==
    \/ StartRule \/ NameOrEqual \/ Redirect \/ EndRule \/ EndOfInput
    \/ Reduce \/ Calculate

Next == Step \/ Ended

\* The program is one thread that waits for nothing but its input.
Spec == Init /\ [][Next]_vars /\ WF_vars(Step)

-----------------------------------------------------------------------------
(* Properties.                                                             *)

\* What the declarations say, by names
IsDeclared(n) == \E i \in DOMAIN declared : declared[i].name = n /\ declared[i].links # << >>

Redirects(n) == {i \in DOMAIN declared : declared[i].name = n /\ declared[i].redirect \notin {"", n}}

TargetOf(n) ==
    IF ~IsDeclared(n) /\ Redirects(n) # {} /\ IsDeclared(declared[Max(Redirects(n))].redirect)
    THEN declared[Max(Redirects(n))].redirect ELSE n

\* The links of declarations of a page that lead to a page
Occurrences(from, to) ==
    UNION {{i} \X {j \in DOMAIN declared[i].links : TargetOf(declared[i].links[j]) = to} :
              i \in {k \in DOMAIN declared : declared[k].name = from}}

\* Every link declared between declared pages counts once for the matrix,
\* those to a page that is only a redirect for the page redirected to,
\* whatever the order of the declarations; nothing else is counted.
LinksCounted ==
    phase \in {"calculate", "done"} =>
        \A p, q \in Pages :
            (IF <<p, q>> \in DOMAIN linkMatrix THEN linkMatrix[<<p, q>>] ELSE 0)
                = Cardinality(Occurrences(idinv[p], idinv[q]))

\* The matrix has a row and a column for every page and no others, also where no
\* page is linked to, so that it can be multiplied with the vector of the weights.
MatrixFits ==
    phase = "done" /\ idinv # << >> =>
        LET all == Elements \cup Range(dummies)
        IN  Max({e[1] : e \in all}) = Len(idinv) /\ Max({e[2] : e \in all}) = Len(idinv)

\* The program ends, unless the input ends with an arrow.
Terminates == (input # << >> => input[Len(input)] # "->") => <>(phase \in {"done", "error"})

=============================================================================
