----------------------------- MODULE MCPageWeight -----------------------------
(* Instance of PageWeight for TLC.                                         *)
EXTENDS PageWeight

\* Rules as they should be: links, links of a page to itself and the same
\* link twice, redirects, chains of them, a redirect to itself, a redirect of
\* a page that has links
Rules == {
    <<"*", "A", "=", "B", "C", ";">>, <<"*", "A", "=", "A", "B", "B", ";">>,
    <<"*", "B", "=", "A", ";">>, <<"*", "B", "=", "->", "A", ";">>,
    <<"*", "C", "=", "->", "B", ";">>, <<"*", "C", "=", "->", "C", ";">>,
    <<"*", "C", "=", "B", "->", "A", ";">>, <<"*", "A", "=", ";">>}

\* Rules as they should not be
Faulty == {
    <<"*", "=", "B", ";">>, <<"C", ";">>, <<"*", "A", "->", "->", "C", ";">>,
    <<"*", "B", "->", ";">>, <<"*", "A", "->", "=", "B", ";">>, <<"*", "->">>,
    <<"*", "A", "=", "->">>, <<"*">>, <<"->", "*", "C", ";">>, << >>}

MCInputs ==
    {a \o b \o c : a \in Rules, b \in Rules, c \in Rules}
    \cup {a \o b \o c : a \in Rules, b \in Faulty, c \in Rules \cup {<< >>}}
=============================================================================
