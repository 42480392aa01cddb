------------------------------ MODULE MCFleet ------------------------------
(* TLC instances of Fleet. *)
EXTENDS Fleet

Token(k, n) == [kind |-> k, count |-> n]
SomeTokens == {Token(k, n) : k \in EngineKinds, n \in 1 .. 2}

\* One or two tokens, of the same kind or not, one or two instances of each,
\* all six kinds in two orders, and as many rtorrents as have ports of their own.
AllLists ==
    {<<a>> : a \in SomeTokens} \cup {<<a, b>> : a, b \in SomeTokens} \cup
    {<<Token("typhon", 1), Token("rqbit", 3), Token("transmission", 1),
       Token("libtorrent", 2), Token("rtorrent", 1), Token("rain", 1)>>,
     <<Token("rain", 2), Token("rtorrent", 1), Token("libtorrent", 1),
       Token("transmission", 2), Token("rqbit", 1), Token("typhon", 2)>>,
     <<Token("rtorrent", 20)>>}

Torrent(p, b, g, s, v) ==
    [payload |-> p, base |-> b, given |-> g, seeders |-> s, verify |-> v]

\* Nobody; the first of each kind; the second; the only one.
SeederSets ==
    {{}} \cup {{<<k, n>> : k \in EngineKinds} : n \in 0 .. 1} \cup
    {{<<k>> : k \in EngineKinds}}

\* Two torrents: random payloads, which have names of their own, or payload
\* files, which may share one or be the same.
AllSwarms ==
    {<<Torrent("p1", "b1", g, s, FALSE), Torrent("p2", "b2", g, t, v)>> :
        s, t \in SeederSets, g, v \in BOOLEAN} \cup
    {<<Torrent("p1", "b1", TRUE, s, FALSE), Torrent(p, "b1", TRUE, t, FALSE)>> :
        s, t \in SeederSets, p \in {"p1", "p2"}}

QbitList == {<<Token("libtorrent", 1), Token("typhon", 1)>>}
QbitSwarm == {<<Torrent("p1", "b1", FALSE, {<<"libtorrent">>}, FALSE)>>}
=============================================================================
