---------------------------- MODULE MCTorrentGen ----------------------------
(* TLC instances of TorrentGen. *)
EXTENDS TorrentGen, Bencode

\* An injective numbering of short sequences; no text contains such bytes.
Numbering(s) == 256 + FoldLeft(LAMBDA h, x : 2 * h + x, 1, s)

Ascending ==
    <<Announce, CreatedBy, CreationDate, Info, Length, Name, PieceLength, Pieces>>
SomeOrders == {Ascending, Reverse(Ascending),
               <<Info, Pieces, Announce, Name, CreationDate, Length, CreatedBy, PieceLength>>}

\* Default, one byte, two bytes, and longer than any payload.
SomeLengths == {-1, 0, 1, 2, 5}

\* Encode against the decoder, on values of every kind.
Scalars == {Str(<<>>), Str(<<EndMark>>), Str(<<49, Colon>>), Num(0), Num(-12), Num(120)}
Flat == Scalars \cup {List(<<>>), Dict(NoKeys)}
            \cup {List(<<x, y>>) : x, y \in Scalars}
            \cup {Dict(Pieces :> x @@ PieceLength :> y) : x, y \in Scalars}
Nested == Flat \cup {List(<<x>>) : x \in Flat} \cup {Dict(Info :> x @@ Name :> y) : x \in Flat, y \in Scalars}

ASSUME RoundTrip ==
    \A v \in Nested, o \in SomeOrders :
        Encode(v, o) \in Seq(Nat) /\ Decodes(Encode(v, o), v)

\* Each entry of a dictionary is in its encoding: the bytes of the key and, right
\* after them, what the value alone is encoded as, in whatever order.
ASSUME EntriesEmbedded ==
    \A v \in {x \in Nested : x.kind = "dict"}, o, q, r \in SomeOrders : \A k \in DOMAIN v.d :
        Occurs(Encode(Str(k), o) \o Encode(v.d[k], q), Encode(v, r))
=============================================================================
