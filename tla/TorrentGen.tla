----------------------------- MODULE TorrentGen -----------------------------
(***************************************************************************)
(* One synthetic torrent: materialiseSwarm (internal/runner/runner.go)     *)
(* with GenerateFile and hashPieces (internal/torrentgen/gen.go).  The     *)
(* payload is made here, or belongs to the user, who may still be writing  *)
(* to it: its size is asked for once and its bytes are read later.         *)
(*                                                                         *)
(* The module knows of the encoder, of those who decode its output and of  *)
(* SHA-1 only their results; instances take Encode and Decodes of Bencode. *)
(***************************************************************************)
EXTENDS BencodeValues, FiniteSets, SequencesExt

CONSTANTS
    MaxSize,        \* bound on the size of a payload
    PieceLengths,   \* values of piece_length in a scenario
    DefaultLength,  \* 256 KiB
    Orders,         \* orders in which a map may be iterated
    Encoder(_, _),  \* bencode.Encode of a value, for such an order
    Reads(_, _),    \* a decoder reads these bytes as this value
    Sha1(_)         \* digest of a piece, as one byte

ASSUME ConstantsAssumption ==
    /\ MaxSize \in Nat
    /\ PieceLengths \subseteq Int
    /\ DefaultLength \in Nat \ {0}

\* The first letters of the keys, as many as tell them apart and order them.
Announce == <<97>>
CreatedBy == <<99, 101>>
CreationDate == <<99, 105>>
Info == <<105>>
Length == <<108>>
Name == <<110>>
PieceLength == <<112, 32>>
Pieces == <<112, 115>>
Keys == {Announce, CreatedBy, CreationDate, Info, Length, Name, PieceLength, Pieces}

ASSUME OrdersAssumption ==
    \A o \in Orders : Len(o) = Cardinality(Keys) /\ {o[i] : i \in DOMAIN o} = Keys

Bytes == {0, 1}
Payloads == UNION {[1 .. n -> Bytes] : n \in 0 .. MaxSize}

ASSUME Sha1Assumption == \A p \in Payloads : Sha1(p) \in Nat

\* The payload's base name, the tool's name and the date, as bytes that could be
\* taken for syntax.
BaseName == <<EndMark>>
Tool == <<DictMark, 49>>
Date == 10

VARIABLES
    pc,         \* where materialiseSwarm is
    entry,      \* the SwarmEntry: path (payload_path is set), size, piece
    announced,  \* the announce URL is not empty
    payload,    \* the content of the payload file
    changed,    \* somebody has changed it since os.Open
    size,       \* what Stat said
    offset,     \* how far hashPieces has read
    pieces,     \* the digests so far
    infoBytes,  \* what InfoHash is the hash of
    torrent     \* the .torrent file

vars == <<pc, entry, announced, payload, changed, size, offset, pieces, infoBytes, torrent>>
inputVars == <<entry, announced>>

Entries == [path : BOOLEAN, size : -1 .. MaxSize, piece : PieceLengths]

TypeOK ==
    /\ pc \in {"payload", "open", "read", "info", "root", "done", "failed"}
    /\ entry \in Entries /\ announced \in BOOLEAN
    /\ payload \in Seq(Bytes) /\ changed \in BOOLEAN
    /\ size \in 0 .. MaxSize
    /\ offset \in 0 .. MaxSize
    /\ pieces \in Seq(Nat) /\ Len(pieces) <= MaxSize
    /\ infoBytes \in Seq(Nat) /\ torrent \in Seq(Nat)

Init ==
    /\ pc = "payload"
    /\ entry \in Entries /\ announced \in BOOLEAN
    /\ payload \in IF entry.path THEN Payloads ELSE {<<>>}
    /\ changed = FALSE /\ size = 0 /\ offset = 0
    /\ pieces = <<>> /\ infoBytes = <<>> /\ torrent = <<>>

-----------------------------------------------------------------------------
(* materialiseSwarm                                                        *)

UsePayload ==
    /\ pc = "payload" /\ entry.path
    /\ pc' = "open"
    /\ UNCHANGED <<inputVars, payload, changed, size, offset, pieces, infoBytes, torrent>>

RandomPayload ==
    /\ pc = "payload" /\ ~entry.path /\ entry.size > 0
    /\ payload' \in [1 .. entry.size -> Bytes]
    /\ pc' = "open"
    /\ UNCHANGED <<inputVars, changed, size, offset, pieces, infoBytes, torrent>>

\* Neither payload_path nor payload_size, or a file that cannot be written or read.
Fail ==
    /\ pc \in {"payload", "open", "read", "root"}
    /\ pc' = "failed"
    /\ UNCHANGED <<inputVars, payload, changed, size, offset, pieces, infoBytes, torrent>>

-----------------------------------------------------------------------------
(* GenerateFile and hashPieces                                             *)

PieceLen == IF entry.piece <= 0 THEN DefaultLength ELSE entry.piece

\* Open and Stat; an empty payload is an error.
Open ==
    /\ pc = "open"
    /\ size' = Len(payload)
    /\ pc' = IF payload = <<>> THEN "failed" ELSE "read"
    /\ UNCHANGED <<inputVars, payload, changed, offset, pieces, infoBytes, torrent>>

\* What io.ReadFull returns: up to a piece, less at the end of the file.
Chunk ==
    SubSeq(payload, offset + 1,
           IF offset + PieceLen <= Len(payload) THEN offset + PieceLen ELSE Len(payload))

\* Mutants: every piece is taken for a whole one; a short one is dropped.
ReadWhole ==
    /\ pc = "read"
    /\ offset' = offset + PieceLen
    /\ pieces' = IF Chunk = <<>> THEN pieces ELSE Append(pieces, Sha1(Chunk))
    /\ pc' = IF Len(Chunk) < PieceLen THEN "info" ELSE "read"
    /\ UNCHANGED <<inputVars, payload, changed, size, infoBytes, torrent>>

ReadFullOnly ==
    /\ pc = "read"
    /\ offset' = offset + Len(Chunk)
    /\ pieces' = IF Len(Chunk) < PieceLen THEN pieces ELSE Append(pieces, Sha1(Chunk))
    /\ pc' = IF Len(Chunk) < PieceLen THEN "info" ELSE "read"
    /\ UNCHANGED <<inputVars, payload, changed, size, infoBytes, torrent>>

\* A short read ends the loop, after its bytes, if any, have been hashed.
ReadPiece ==
    /\ pc = "read"
    /\ offset' = offset + Len(Chunk)
    /\ pieces' = IF Chunk = <<>> THEN pieces ELSE Append(pieces, Sha1(Chunk))
    /\ pc' = IF Len(Chunk) < PieceLen THEN "info" ELSE "read"
    /\ UNCHANGED <<inputVars, payload, changed, size, infoBytes, torrent>>

InfoDict ==
    Dict([k \in {Name, Length, PieceLength, Pieces} |->
            CASE k = Name -> Str(BaseName)
              [] k = Length -> Num(size)
              [] k = PieceLength -> Num(PieceLen)
              [] k = Pieces -> Str(pieces)])

RootDict ==
    Dict([k \in {Info, CreationDate, CreatedBy} \cup (IF announced THEN {Announce} ELSE {}) |->
            CASE k = Info -> InfoDict
              [] k = CreationDate -> Num(Date)
              [] k = CreatedBy -> Str(Tool)
              [] k = Announce -> Str(<<IntMark>>)])

\* Mutant: the hash is taken before the piece length gets its default.
EncodeInfoRaw ==
    /\ pc = "info"
    /\ \E o \in Orders :
          infoBytes' = Encoder(Dict([InfoDict.d EXCEPT ![PieceLength] = Num(entry.piece)]), o)
    /\ pc' = "root"
    /\ UNCHANGED <<inputVars, payload, changed, size, offset, pieces, torrent>>

EncodeInfo ==
    /\ pc = "info"
    /\ \E o \in Orders : infoBytes' = Encoder(InfoDict, o)
    /\ pc' = "root"
    /\ UNCHANGED <<inputVars, payload, changed, size, offset, pieces, torrent>>

\* Mutant: the encoded info goes in as a string.
EncodeRootOfBytes ==
    /\ pc = "root"
    /\ \E o \in Orders : torrent' = Encoder(Dict([RootDict.d EXCEPT ![Info] = Str(infoBytes)]), o)
    /\ pc' = "done"
    /\ UNCHANGED <<inputVars, payload, changed, size, offset, pieces, infoBytes>>

\* The maps are iterated again.  The runner writes the file.
EncodeRoot ==
    /\ pc = "root"
    /\ \E o \in Orders : torrent' = Encoder(RootDict, o)
    /\ pc' = "done"
    /\ UNCHANGED <<inputVars, payload, changed, size, offset, pieces, infoBytes>>

-----------------------------------------------------------------------------

\* Another program appends to the user's file or truncates it.
Change ==
    /\ entry.path /\ pc \in {"read", "info"} /\ ~changed
    /\ payload' \in {p \in Payloads : p # payload /\ (IsPrefix(p, payload) \/ IsPrefix(payload, p))}
    /\ changed' = TRUE
    /\ UNCHANGED <<pc, inputVars, size, offset, pieces, infoBytes, torrent>>

Done == pc \in {"done", "failed"} /\ UNCHANGED vars

Next ==
    \/ UsePayload \/ RandomPayload \/ Fail
    \/ Open \/ ReadPiece \/ EncodeInfo \/ EncodeRoot
    \/ Change \/ Done

Spec == Init /\ [][Next]_vars

-----------------------------------------------------------------------------
(* Properties                                                              *)

\* What BEP 3 asks for: pieces of one length but the last, none empty.
Digests(p, n) ==
    LET last == (Len(p) + n - 1) \div n
    IN  [i \in 1 .. last |->
            Sha1(SubSeq(p, (i - 1) * n + 1, IF i < last THEN i * n ELSE Len(p)))]

\* If nobody touched the payload meanwhile, then the file describes it: as many
\* digests as its length has pieces, each of the bytes at its place.
PiecesDescribePayload ==
    pc = "done" /\ ~changed =>
        size = Len(payload) /\ pieces = Digests(payload, PieceLen)

\* A strict decoder reads the .torrent back as it was meant, whatever the order
\* of the map iterations and whatever bytes names and digests are made of.
TorrentReadsBack == pc = "done" => Reads(torrent, RootDict)

\* The bytes w stand in b.
Occurs(w, b) == \E i \in 0 .. Len(b) - Len(w) : SubSeq(b, i + 1, i + Len(w)) = w

\* InfoHash is the hash that engines and tracker compute from the .torrent: the
\* very bytes that follow the key info.  It was taken of another encoding of the
\* same map.
InfoHashIsOfTheFile ==
    pc = "done" =>
        \A o \in Orders : Occurs(Encoder(Str(Info), o) \o infoBytes, torrent)
=============================================================================
