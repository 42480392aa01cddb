-------------------------- MODULE TorrentGenProofs --------------------------
(***************************************************************************)
(* Proofs about TorrentGen: types, what the pieces say of the payload, and *)
(* what the file says, given what the encoder promises.                    *)
(***************************************************************************)
EXTENDS TorrentGen, SequenceTheorems, TLAPS

-----------------------------------------------------------------------------
(* Arithmetic of pieces                                                    *)

\* The piece length is positive, whatever the scenario says.
LEMMA PieceLenPositive ==
  ASSUME entry \in Entries
  PROVE  PieceLen \in Nat \ {0}
<1>1. entry.piece \in PieceLengths
  BY Zenon DEF Entries
<1>2. entry.piece \in Int
  BY <1>1, ConstantsAssumption
<1> QED
  BY <1>2, ConstantsAssumption DEF PieceLen

\* A payload is a sequence of bytes, of at most MaxSize of them.
LEMMA PayloadIsSeq ==
  ASSUME NEW p
  PROVE  p \in Payloads <=> p \in Seq(Bytes) /\ Len(p) \in 0 .. MaxSize
<1>1. MaxSize \in Nat
  BY ConstantsAssumption
<1>2. ASSUME p \in Payloads
      PROVE  p \in Seq(Bytes) /\ Len(p) \in 0 .. MaxSize
  <2>1. PICK n \in 0 .. MaxSize : p \in [1 .. n -> Bytes]
    BY <1>2 DEF Payloads
  <2> QED
    BY <1>1, <2>1
<1>3. ASSUME p \in Seq(Bytes), Len(p) \in 0 .. MaxSize
      PROVE  p \in Payloads
  <2>1. p \in [1 .. Len(p) -> Bytes]
    BY <1>3
  <2> QED
    BY <1>3, <2>1 DEF Payloads
<1> QED
  BY <1>2, <1>3

\* What ReadFull returns of p from o on, in a buffer of n bytes.
Cut(p, o, n) == SubSeq(p, o + 1, IF o + n <= Len(p) THEN o + n ELSE Len(p))

\* It is a whole buffer, or all that is left.
LEMMA CutProperties ==
  ASSUME NEW p \in Payloads, NEW o \in Nat, NEW n \in Nat \ {0}
  PROVE  /\ Cut(p, o, n) \in Payloads
         /\ Len(Cut(p, o, n)) = IF o + n <= Len(p) THEN n
                                ELSE IF o <= Len(p) THEN Len(p) - o ELSE 0
         /\ Sha1(Cut(p, o, n)) \in Nat
<1> DEFINE e == IF o + n <= Len(p) THEN o + n ELSE Len(p)
           c == SubSeq(p, o + 1, e)
<1>1. p \in Seq(Bytes) /\ Len(p) \in 0 .. MaxSize /\ MaxSize \in Nat
  BY PayloadIsSeq, ConstantsAssumption
<1>2. e \in Nat /\ e <= Len(p)
  BY <1>1
<1>3. \A i \in o + 1 .. e : p[i] \in Bytes
  BY <1>1, <1>2
<1> HIDE DEF e
<1>4. c \in Seq(Bytes) /\ Len(c) = IF o + 1 <= e THEN e - (o + 1) + 1 ELSE 0
  BY <1>2, <1>3, SubSeqProperties
<1>5. Len(c) <= e
  BY <1>2, <1>4
<1>6. c \in Payloads
  <2>1. Len(c) \in 0 .. MaxSize
    BY <1>1, <1>2, <1>4, <1>5
  <2> QED
    BY <1>4, <2>1, PayloadIsSeq
<1>7. Sha1(c) \in Nat
  BY <1>6, Sha1Assumption
<1>8. Len(c) = IF o + n <= Len(p) THEN n ELSE IF o <= Len(p) THEN Len(p) - o ELSE 0
  BY <1>1, <1>4 DEF e
<1> QED
  BY <1>6, <1>7, <1>8 DEF Cut, e

\* The number of pieces, when k of them are whole and less than one is left.
LEMMA NumberOfPieces ==
  ASSUME NEW s \in Nat, NEW n \in Nat \ {0}, NEW k \in Nat,
         k * n <= s, s < k * n + n
  PROVE  (s + n - 1) \div n = IF s = k * n THEN k ELSE k + 1
<1> DEFINE r == s - k * n
<1>1. r \in 0 .. n - 1 /\ k * n \in Nat
  OBVIOUS
<1>2. CASE r = 0
  <2>1. (n * k + (n - 1)) \div n = k
    OBVIOUS
  <2> QED
    BY <1>1, <1>2, <2>1
<1>3. CASE r > 0
  <2>1. \A q \in 0 .. n - 1 : (n * (k + 1) + q) \div n = k + 1
    OBVIOUS
  <2>2. r - 1 \in 0 .. n - 1 /\ s + n - 1 = n * (k + 1) + (r - 1)
    BY <1>1, <1>3
  <2> QED
    BY <1>3, <2>1, <2>2
<1> QED
  BY <1>1, <1>2, <1>3
-----------------------------------------------------------------------------
(* One call of ReadFull                                                    *)

\* The digests s are those of the first pieces of p, all whole.
Whole(s, p, n) ==
    \A i \in 1 .. Len(s) : s[i] = Sha1(SubSeq(p, (i - 1) * n + 1, i * n))

\* A full buffer is the next whole piece.
LEMMA FullRead ==
  ASSUME NEW p \in Payloads, NEW n \in Nat \ {0}, NEW s \in Seq(Nat),
         Whole(s, p, n), Len(s) * n + n <= Len(p)
  PROVE  LET c == Cut(p, Len(s) * n, n)
         IN  /\ Whole(Append(s, Sha1(c)), p, n)
             /\ Len(s) * n + n = Len(Append(s, Sha1(c))) * n
<1> DEFINE c == Cut(p, Len(s) * n, n)
           t == Append(s, Sha1(c))
<1>1. Len(s) \in Nat /\ Len(s) * n \in Nat
  OBVIOUS
<1>2. c = SubSeq(p, Len(s) * n + 1, Len(s) * n + n) /\ Sha1(c) \in Nat
  BY <1>1, CutProperties DEF Cut
<1> HIDE DEF c
<1>3. /\ Len(t) = Len(s) + 1
      /\ \A i \in 1 .. Len(s) : t[i] = s[i]
      /\ t[Len(s) + 1] = Sha1(c)
  BY <1>2, AppendProperties
<1> HIDE DEF t
<1>4. (Len(s) + 1 - 1) * n = Len(s) * n /\ (Len(s) + 1) * n = Len(s) * n + n
  BY <1>1
<1>5. Whole(t, p, n)
  <2>1. ASSUME NEW i \in 1 .. Len(t)
        PROVE  t[i] = Sha1(SubSeq(p, (i - 1) * n + 1, i * n))
    <3>1. CASE i \in 1 .. Len(s)
      BY <1>3, <3>1 DEF Whole
    <3>2. CASE i = Len(s) + 1
      BY <1>2, <1>3, <1>4, <3>2
    <3> QED
      BY <1>1, <1>3, <3>1, <3>2
  <2> QED
    BY <2>1 DEF Whole
<1> QED
  BY <1>3, <1>4, <1>5 DEF c, t

\* A short read ends the payload: what it brings, if anything, is the last piece.
LEMMA ShortRead ==
  ASSUME NEW p \in Payloads, NEW n \in Nat \ {0}, NEW s \in Seq(Nat),
         Whole(s, p, n), Len(s) * n <= Len(p), Len(p) < Len(s) * n + n
  PROVE  LET c == Cut(p, Len(s) * n, n)
         IN  (IF c = <<>> THEN s ELSE Append(s, Sha1(c))) = Digests(p, n)
<1> DEFINE k == Len(s)
           c == Cut(p, k * n, n)
           last == (Len(p) + n - 1) \div n
           D(i) == Sha1(SubSeq(p, (i - 1) * n + 1, IF i < last THEN i * n ELSE Len(p)))
           t == IF c = <<>> THEN s ELSE Append(s, Sha1(c))
<1>1. p \in Seq(Bytes) /\ Len(p) \in Nat /\ k \in Nat /\ k * n \in Nat
  BY PayloadIsSeq
<1>2. /\ c = SubSeq(p, k * n + 1, Len(p)) /\ Sha1(c) \in Nat
      /\ c \in Seq(Bytes) /\ Len(c) = Len(p) - k * n
  <2>1. ~(k * n + n <= Len(p))
    BY <1>1
  <2>2. c = SubSeq(p, k * n + 1, Len(p))
    BY <2>1 DEF Cut
  <2>3. c \in Payloads /\ Sha1(c) \in Nat /\ Len(c) = Len(p) - k * n
    BY <1>1, <2>1, CutProperties
  <2> HIDE DEF c
  <2> QED
    BY <2>2, <2>3, PayloadIsSeq
<1>3. last = IF Len(p) = k * n THEN k ELSE k + 1
  BY <1>1, NumberOfPieces
<1>4. Digests(p, n) = [i \in 1 .. last |-> D(i)]
  BY DEF Digests
<1> HIDE DEF c, last
<1>5. \A i \in 1 .. k : i < last \/ (i = last /\ i * n = Len(p))
  BY <1>1, <1>3
<1>6. \A i \in 1 .. k : s[i] = D(i)
  BY <1>1, <1>5 DEF Whole
<1>7. CASE Len(p) = k * n
  <2>1. t = s /\ last = k
    BY <1>1, <1>2, <1>3, <1>7
  <2>2. s = [i \in 1 .. k |-> D(i)]
    <3>1. s = [i \in 1 .. k |-> s[i]]
      OBVIOUS
    <3> QED
      BY <1>6, <3>1
  <2> QED
    BY <1>4, <2>1, <2>2 DEF c
<1>8. CASE Len(p) # k * n
  <2>1. c # <<>> /\ last = k + 1
    <3>1. Len(c) # 0
      <4>1. \A x, y \in Nat : x # y => x - y # 0
        OBVIOUS
      <4> QED
        BY <1>1, <1>2, <1>8, <4>1, Zenon
    <3>2. Len(<<>>) = 0
      OBVIOUS
    <3> QED
      BY <1>3, <1>8, <3>1, <3>2
  <2>2. /\ t \in Seq(Nat) /\ Len(t) = k + 1
        /\ \A i \in 1 .. k : t[i] = s[i]
        /\ t[k + 1] = Sha1(c)
    BY <1>2, <2>1, AppendProperties
  <2> HIDE DEF t
  <2>3. D(k + 1) = Sha1(c)
    <3>1. (k + 1 - 1) * n + 1 = k * n + 1
      BY <1>1
    <3> QED
      BY <1>1, <1>2, <2>1, <3>1
  <2>4. \A i \in 1 .. k + 1 : t[i] = D(i)
    <3>1. \A i \in 1 .. k + 1 : i \in 1 .. k \/ i = k + 1
      BY <1>1
    <3> QED
      BY <1>6, <2>2, <2>3, <3>1
  <2> HIDE DEF D
  <2>5. t = [i \in 1 .. k + 1 |-> D(i)]
    <3>1. t = [i \in 1 .. k + 1 |-> t[i]]
      BY <2>2
    <3> QED
      BY <2>4, <3>1
  <2> QED
    BY <1>4, <2>1, <2>5 DEF c, t
<1> QED
  BY <1>7, <1>8

-----------------------------------------------------------------------------
(* The inductive invariant                                                 *)

\* Types of the variables that the encoding leaves alone.
ReadTypes ==
    /\ pc \in {"payload", "open", "read", "info", "root", "done", "failed"}
    /\ entry \in Entries /\ announced \in BOOLEAN
    /\ payload \in Payloads /\ changed \in BOOLEAN
    /\ size \in 0 .. MaxSize
    /\ offset \in 0 .. MaxSize
    /\ pieces \in Seq(Nat) /\ Len(pieces) <= offset

\* Of a payload that nobody disturbed: so far whole pieces, each at its place.
WholePieces ==
    /\ offset = Len(pieces) * PieceLen /\ offset <= Len(payload)
    /\ Whole(pieces, payload, PieceLen)

ReadInv ==
    /\ pc \in {"payload", "open"} => pieces = <<>> /\ offset = 0
    /\ ~changed /\ pc \in {"read", "info", "root", "done"} =>
          size = Len(payload) /\ Len(payload) > 0
    /\ ~changed /\ pc = "read" => WholePieces
    /\ ~changed /\ pc \in {"info", "root", "done"} => pieces = Digests(payload, PieceLen)

\* All that concerns the payload and the pieces.
IInv == ReadTypes /\ ReadInv

-----------------------------------------------------------------------------
(* Its proof                                                               *)

LEMMA ReadInit == Init => IInv
<1> SUFFICES ASSUME Init PROVE IInv
  OBVIOUS
<1>1. payload \in Payloads
  <2>1. <<>> \in Payloads
    <3>1. <<>> \in Seq(Bytes) /\ Len(<<>>) \in 0 .. MaxSize
      BY ConstantsAssumption
    <3> QED
      BY ONLY <3>1, PayloadIsSeq, Zenon
  <2> QED
    BY <2>1 DEF Init
<1>2. pieces \in Seq(Nat) /\ Len(pieces) = 0 /\ MaxSize \in Nat
  BY ConstantsAssumption DEF Init
<1>3. ReadTypes
  <2>1. entry \in Entries /\ announced \in BOOLEAN /\ changed \in BOOLEAN
    BY Zenon DEF Init
  <2> QED
    BY <1>1, <1>2, <2>1 DEF Init, ReadTypes
<1>4. ReadInv
  BY DEF Init, ReadInv
<1> QED
  BY <1>3, <1>4 DEF IInv

\* What the steps need to know of the types.
LEMMA TypeFacts ==
  ASSUME ReadTypes
  PROVE  /\ PieceLen \in Nat \ {0} /\ MaxSize \in Nat
         /\ payload \in Seq(Bytes) /\ Len(payload) \in 0 .. MaxSize
         /\ offset \in Nat /\ offset <= MaxSize
         /\ pieces \in Seq(Nat) /\ Len(pieces) \in Nat /\ Len(pieces) <= offset
BY PieceLenPositive, PayloadIsSeq, ConstantsAssumption DEF ReadTypes

\* One piece is read, whatever has become of the payload.
LEMMA ReadPieceStep == ASSUME IInv, ReadPiece PROVE IInv'
<1> DEFINE c == Cut(payload, offset, PieceLen)
<1>1. ReadTypes /\ ReadInv
  BY DEF IInv
<1>2. /\ PieceLen \in Nat \ {0} /\ MaxSize \in Nat
      /\ payload \in Payloads
      /\ payload \in Seq(Bytes) /\ Len(payload) \in 0 .. MaxSize
      /\ offset \in Nat /\ offset <= MaxSize
      /\ pieces \in Seq(Nat) /\ Len(pieces) \in Nat /\ Len(pieces) <= offset
  BY <1>1, TypeFacts DEF ReadTypes
<1>3. /\ c \in Payloads /\ Sha1(c) \in Nat
      /\ Len(c) = IF offset + PieceLen <= Len(payload) THEN PieceLen
                  ELSE IF offset <= Len(payload) THEN Len(payload) - offset ELSE 0
  BY <1>2, CutProperties
<1>4. c \in Seq(Bytes) /\ Len(c) \in Nat
  BY <1>3, PayloadIsSeq
<1>5. c = <<>> <=> Len(c) = 0
  BY <1>4
<1>6. /\ pc = "read"
      /\ offset' = offset + Len(c)
      /\ pieces' = IF c = <<>> THEN pieces ELSE Append(pieces, Sha1(c))
      /\ pc' = IF Len(c) < PieceLen THEN "info" ELSE "read"
      /\ UNCHANGED <<entry, announced, payload, changed, size>>
      /\ PieceLen' = PieceLen
  BY DEF ReadPiece, Chunk, Cut, inputVars, PieceLen
<1> HIDE DEF c
<1>7. ReadTypes'
  <2>1. offset' \in 0 .. MaxSize
    BY <1>2, <1>3, <1>6
  <2>2. pieces' \in Seq(Nat) /\ Len(pieces') <= offset'
    <3>1. CASE c = <<>>
      BY <1>2, <1>5, <1>6, <3>1
    <3>2. CASE c # <<>>
      <4>1. pieces' \in Seq(Nat) /\ Len(pieces') = Len(pieces) + 1
        BY <1>2, <1>3, <1>6, <3>2, AppendProperties
      <4>2. Len(c) > 0
        BY <1>4, <1>5, <3>2
      <4> QED
        BY <1>2, <1>4, <1>6, <4>1, <4>2
    <3> QED
      BY <3>1, <3>2
  <2> QED
    BY <1>1, <1>6, <2>1, <2>2 DEF ReadTypes
<1>8. ReadInv'
  <2> SUFFICES ASSUME ~changed
               PROVE  /\ size = Len(payload) /\ Len(payload) > 0
                      /\ pc' = "read" => WholePieces'
                      /\ pc' = "info" => pieces' = Digests(payload, PieceLen)
    BY <1>6 DEF ReadInv
  <2>1. /\ size = Len(payload) /\ Len(payload) > 0
        /\ offset = Len(pieces) * PieceLen /\ offset <= Len(payload)
        /\ Whole(pieces, payload, PieceLen)
    BY <1>1, <1>6 DEF ReadInv, WholePieces
  <2>2. CASE offset + PieceLen <= Len(payload)
    <3>1. Len(c) = PieceLen /\ c # <<>> /\ pc' = "read"
      BY <1>2, <1>3, <1>5, <1>6, <2>2
    <3>2. /\ Whole(pieces', payload, PieceLen)
          /\ offset' = Len(pieces') * PieceLen
      BY <1>2, <1>6, <2>1, <2>2, <3>1, FullRead DEF c
    <3>3. WholePieces'
      BY <1>6, <2>2, <3>1, <3>2 DEF WholePieces
    <3> QED
      BY <2>1, <3>1, <3>3
  <2>3. CASE ~(offset + PieceLen <= Len(payload))
    <3>1. pc' = "info"
      BY <1>2, <1>3, <1>6, <2>1, <2>3
    <3>2. Len(payload) < offset + PieceLen
      BY <1>2, <2>3
    <3>3. pieces' = Digests(payload, PieceLen)
      BY <1>2, <1>6, <2>1, <3>2, ShortRead DEF c
    <3> QED
      BY <2>1, <3>1, <3>3
  <2> QED
    BY <2>2, <2>3
<1> QED
  BY <1>7, <1>8 DEF IInv

\* The other steps: an encoding changes nothing that the pieces depend on.
LEMMA ReadStep == IInv /\ [Next]_vars => IInv'
<1> SUFFICES ASSUME IInv, [Next]_vars PROVE IInv'
  OBVIOUS
<1>1. ReadTypes /\ ReadInv
  BY DEF IInv
<1>2. /\ payload \in Seq(Bytes) /\ Len(payload) \in 0 .. MaxSize
      /\ MaxSize \in Nat
  BY <1>1, TypeFacts
<1>3. CASE UsePayload \/ Fail
  BY <1>1, <1>3 DEF UsePayload, Fail, inputVars, IInv, ReadTypes, ReadInv
<1>4. CASE RandomPayload
  <2>1. entry.size \in 0 .. MaxSize
    <3>1. entry.size \in -1 .. MaxSize
      BY <1>1, Zenon DEF ReadTypes, Entries
    <3> QED
      BY <1>2, <1>4, <3>1 DEF RandomPayload
  <2>2. payload' \in Payloads
    BY <1>4, <2>1, Zenon DEF RandomPayload, Payloads
  <2> QED
    BY <1>1, <1>4, <2>2 DEF RandomPayload, inputVars, IInv, ReadTypes, ReadInv
<1>5. CASE Open
  <2>1. ReadTypes'
    BY <1>1, <1>2, <1>5 DEF Open, inputVars, ReadTypes
  <2>2. ReadInv'
    <3>1. /\ pc = "open" /\ size' = Len(payload)
          /\ pc' = IF payload = <<>> THEN "failed" ELSE "read"
          /\ UNCHANGED <<entry, payload, changed, offset, pieces>>
          /\ pieces = <<>> /\ offset = 0
      BY <1>1, <1>5 DEF Open, inputVars, ReadInv
    <3>2. PieceLen' \in Nat \ {0}
      BY <1>1, <3>1, PieceLenPositive DEF PieceLen, ReadTypes
    <3>3. payload # <<>> => Len(payload) > 0
      BY <1>2
    <3>4. WholePieces'
      <4>1. Len(pieces') = 0 /\ 0 * PieceLen' = 0
        <5>1. pieces' = <<>> /\ Len(<<>>) = 0
          BY <3>1
        <5>2. \A n \in Nat : 0 * n = 0
          OBVIOUS
        <5> QED
          BY ONLY <3>2, <5>1, <5>2, Zenon
      <4>2. offset' = 0 /\ 0 <= Len(payload')
        BY <1>2, <3>1
      <4>3. Whole(pieces', payload', PieceLen')
        BY <4>1 DEF Whole
      <4> QED
        BY <4>1, <4>2, <4>3 DEF WholePieces
    <3> QED
      BY <3>1, <3>3, <3>4 DEF ReadInv
  <2> QED
    BY <2>1, <2>2 DEF IInv
<1>6. CASE ReadPiece
  BY <1>6, ReadPieceStep
<1>7. CASE EncodeInfo \/ EncodeRoot
  BY <1>1, <1>7 DEF EncodeInfo, EncodeRoot, inputVars, IInv, ReadTypes,
     ReadInv, PieceLen
<1>8. CASE Change
  BY <1>1, <1>8 DEF Change, inputVars, IInv, ReadTypes, ReadInv
<1>9. CASE UNCHANGED vars
  BY <1>1, <1>9 DEF vars, IInv, ReadTypes, ReadInv, WholePieces, PieceLen
<1> QED
  BY <1>3, <1>4, <1>5, <1>6, <1>7, <1>8, <1>9 DEF Next, Done

THEOREM ReadInvariant == Spec => []IInv
BY ReadInit, ReadStep, PTL DEF Spec

-----------------------------------------------------------------------------
(* The encoding                                                            *)

\* The dictionaries that GenerateFile may encode: of scalars, or of scalars and
\* such dictionaries.
Scalars == {Str(s) : s \in Seq(Nat)} \cup {Num(n) : n \in Int}
Maps(V) == UNION {[K -> V] : K \in SUBSET Keys}
FlatDicts == {Dict(d) : d \in Maps(Scalars)}
Dicts == {Dict(d) : d \in Maps(Scalars \cup FlatDicts)}

\* What bencode.Encode promises: bytes,
EncodesToBytes ==
    \A v \in FlatDicts \cup Dicts, o \in Orders : Encoder(v, o) \in Seq(Nat)

\* with each entry of a dictionary as it would be alone, and in any order.
EmbedsEntries ==
    \A v \in Dicts, o, q, r \in Orders : \A k \in DOMAIN v.d :
        Occurs(Encoder(Str(k), o) \o Encoder(v.d[k], q), Encoder(v, r))

\* What is encoded is such a dictionary, and info is an entry of it.
LEMMA InfoIsFlat == ReadTypes => InfoDict \in FlatDicts
<1> SUFFICES ASSUME ReadTypes PROVE InfoDict \in FlatDicts
  OBVIOUS
<1> DEFINE K == {Name, Length, PieceLength, Pieces}
           f == [k \in K |->
                   CASE k = Name -> Str(BaseName)
                     [] k = Length -> Num(size)
                     [] k = PieceLength -> Num(PieceLen)
                     [] k = Pieces -> Str(pieces)]
<1>1. /\ Str(BaseName) \in Scalars /\ Num(size) \in Scalars
      /\ Num(PieceLen) \in Scalars /\ Str(pieces) \in Scalars
  <2>1. BaseName \in Seq(Nat)
    BY DEF BaseName, EndMark
  <2>2. size \in Int /\ PieceLen \in Int /\ pieces \in Seq(Nat)
    BY TypeFacts DEF ReadTypes
  <2> QED
    BY <2>1, <2>2, Zenon DEF Scalars
<1>2. f \in [K -> Scalars]
  BY <1>1
<1>3. K \in SUBSET Keys
  BY DEF Keys
<1> HIDE DEF f, K
<1>4. f \in Maps(Scalars)
  BY <1>2, <1>3, Zenon DEF Maps
<1> QED
  BY <1>4, Zenon DEF FlatDicts, InfoDict, f, K

LEMMA KeysDiffer ==
  Info # CreationDate /\ Info # CreatedBy /\ Info # Announce
BY DEF Info, CreationDate, CreatedBy, Announce

LEMMA RootIsDict ==
  ReadTypes => /\ RootDict \in Dicts
               /\ Info \in DOMAIN RootDict.d /\ RootDict.d[Info] = InfoDict
<1> SUFFICES ASSUME ReadTypes
             PROVE  /\ RootDict \in Dicts
                    /\ Info \in DOMAIN RootDict.d /\ RootDict.d[Info] = InfoDict
  OBVIOUS
<1> DEFINE K == {Info, CreationDate, CreatedBy} \cup (IF announced THEN {Announce} ELSE {})
           f == [k \in K |->
                   CASE k = Info -> InfoDict
                     [] k = CreationDate -> Num(Date)
                     [] k = CreatedBy -> Str(Tool)
                     [] k = Announce -> Str(<<IntMark>>)]
           V == Scalars \cup FlatDicts
<1>1. /\ InfoDict \in V /\ Num(Date) \in V
      /\ Str(Tool) \in V /\ Str(<<IntMark>>) \in V
  <2>1. Tool \in Seq(Nat) /\ <<IntMark>> \in Seq(Nat) /\ Date \in Int
    BY DEF Tool, DictMark, IntMark, Date
  <2> QED
    BY <2>1, InfoIsFlat, Zenon DEF Scalars
<1> HIDE DEF V
<1>2. \A k \in K : k \in {Info, CreationDate, CreatedBy, Announce}
  OBVIOUS
<1>3. f \in [K -> V]
  BY <1>1, <1>2
<1>4. Info \in K /\ f[Info] = InfoDict
  BY KeysDiffer
<1>5. K \in SUBSET Keys
  BY <1>2 DEF Keys
<1> HIDE DEF f, K
<1>6. DOMAIN f = K
  BY <1>3
<1>7. f \in Maps(V)
  BY <1>3, <1>5, Zenon DEF Maps
<1>8. RootDict = Dict(f)
  BY DEF RootDict, f, K
<1>9. Dict(f).d = f
  BY DEF Dict
<1> QED
  BY <1>4, <1>6, <1>7, <1>8, <1>9, Zenon DEF Dicts, V

\* The bytes that exist are encodings of the maps as they still are.
Encodings ==
    /\ pc \in {"root", "done"} => \E o \in Orders : infoBytes = Encoder(InfoDict, o)
    /\ pc = "done" => \E o \in Orders : torrent = Encoder(RootDict, o)

LEMMA EncodingsStep == Encodings /\ [Next]_vars => Encodings'
<1> SUFFICES ASSUME Encodings, [Next]_vars PROVE Encodings'
  OBVIOUS
<1>1. ASSUME UNCHANGED <<entry, announced, size, pieces>>
      PROVE  InfoDict' = InfoDict /\ RootDict' = RootDict
  BY <1>1 DEF InfoDict, RootDict, PieceLen
<1>2. CASE EncodeInfo
  <2>1. \E o \in Orders : infoBytes' = Encoder(InfoDict, o)
    BY <1>2 DEF EncodeInfo
  <2>2. InfoDict' = InfoDict /\ pc' = "root"
    BY <1>1, <1>2 DEF EncodeInfo, inputVars
  <2> QED
    BY <2>1, <2>2 DEF Encodings
<1>3. CASE EncodeRoot
  <2>1. \E o \in Orders : torrent' = Encoder(RootDict, o)
    BY <1>3 DEF EncodeRoot
  <2>2. /\ InfoDict' = InfoDict /\ RootDict' = RootDict
        /\ pc = "root" /\ pc' = "done" /\ infoBytes' = infoBytes
    BY <1>1, <1>3 DEF EncodeRoot, inputVars
  <2> QED
    BY <2>1, <2>2 DEF Encodings
<1>4. CASE UsePayload \/ RandomPayload \/ Fail \/ Open \/ ReadPiece
  <2>1. pc' \notin {"root", "done"}
    BY <1>4 DEF UsePayload, RandomPayload, Fail, Open, ReadPiece
  <2> QED
    BY <2>1 DEF Encodings
<1>5. CASE Change \/ UNCHANGED vars
  <2>1. /\ InfoDict' = InfoDict /\ RootDict' = RootDict
        /\ UNCHANGED <<pc, infoBytes, torrent>>
    BY <1>1, <1>5 DEF Change, inputVars, vars
  <2> QED
    BY <2>1 DEF Encodings
<1> QED
  BY <1>2, <1>3, <1>4, <1>5 DEF Next, Done

LEMMA EncodingsAlways == Spec => []Encodings
<1>1. Init => Encodings
  BY DEF Init, Encodings
<1> QED
  BY <1>1, EncodingsStep, PTL DEF Spec

-----------------------------------------------------------------------------
(* Theorems                                                                *)

\* Every variable keeps its type, and offset and the number of digests their bound,
\* whatever becomes of the payload, if the encoder returns bytes.
THEOREM TypeCorrect ==
  ASSUME EncodesToBytes
  PROVE  Spec => []TypeOK
<1> DEFINE Bytewise == infoBytes \in Seq(Nat) /\ torrent \in Seq(Nat)
<1>1. Init => Bytewise
  BY DEF Init
<1>2. IInv /\ Bytewise /\ [Next]_vars => Bytewise'
  <2> SUFFICES ASSUME IInv, Bytewise, [Next]_vars PROVE Bytewise'
    OBVIOUS
  <2>1. /\ \A o \in Orders : Encoder(InfoDict, o) \in Seq(Nat)
        /\ \A o \in Orders : Encoder(RootDict, o) \in Seq(Nat)
    BY InfoIsFlat, RootIsDict, Zenon DEF IInv, EncodesToBytes
  <2>2. CASE EncodeInfo
    BY <2>1, <2>2 DEF EncodeInfo
  <2>3. CASE EncodeRoot
    BY <2>1, <2>3 DEF EncodeRoot
  <2>4. CASE ~EncodeInfo /\ ~EncodeRoot
    BY <2>4 DEF Next, UsePayload, RandomPayload, Fail, Open, ReadPiece, Change, Done, vars
  <2> QED
    BY <2>2, <2>3, <2>4
<1>3. IInv /\ Bytewise => TypeOK
  <2> SUFFICES ASSUME IInv, Bytewise PROVE TypeOK
    OBVIOUS
  <2>1. ReadTypes
    BY DEF IInv
  <2>2. payload \in Seq(Bytes) /\ Len(pieces) <= MaxSize
    BY <2>1, TypeFacts
  <2> QED
    BY <2>1, <2>2 DEF ReadTypes, TypeOK
<1> QED
  BY <1>1, <1>2, <1>3, ReadInvariant, PTL DEF Spec

\* The length and the digests of a .torrent are those of the payload, unless another
\* program wrote to it, for every payload and piece length.
THEOREM PiecesDescribePayloadAlways == Spec => []PiecesDescribePayload
<1>1. IInv => PiecesDescribePayload
  BY DEF IInv, ReadInv, PiecesDescribePayload
<1> QED
  BY <1>1, ReadInvariant, PTL

\* The hash that the harness gets of info is that of the bytes in the file: between
\* the two encodings nothing that goes into info changes, and an encoder that embeds
\* the entries of a map makes the same of it both times.
THEOREM InfoHashIsOfTheFileAlways ==
  ASSUME EmbedsEntries
  PROVE  Spec => []InfoHashIsOfTheFile
<1>1. IInv /\ Encodings => InfoHashIsOfTheFile
  <2> SUFFICES ASSUME IInv, Encodings, pc = "done", NEW o \in Orders
               PROVE  Occurs(Encoder(Str(Info), o) \o infoBytes, torrent)
    BY DEF InfoHashIsOfTheFile
  <2>1. PICK q \in Orders : infoBytes = Encoder(InfoDict, q)
    BY DEF Encodings
  <2>2. PICK r \in Orders : torrent = Encoder(RootDict, r)
    BY DEF Encodings
  <2>3. /\ RootDict \in Dicts
        /\ Info \in DOMAIN RootDict.d /\ RootDict.d[Info] = InfoDict
    BY RootIsDict DEF IInv
  <2>4. Occurs(Encoder(Str(Info), o) \o Encoder(RootDict.d[Info], q), Encoder(RootDict, r))
    BY <2>3, Zenon DEF EmbedsEntries
  <2> QED
    BY <2>1, <2>2, <2>3, <2>4, Zenon
<1> QED
  BY <1>1, ReadInvariant, EncodingsAlways, PTL

\* Whose hash InfoHash is, and what is in the file.
EncodingsAgree ==
    pc = "done" =>
        /\ Info \in DOMAIN RootDict.d
        /\ \E o \in Orders : infoBytes = Encoder(RootDict.d[Info], o)
        /\ \E o \in Orders : torrent = Encoder(RootDict, o)

\* At its end GenerateFile has hashed an encoding of the very map that is the entry
\* info of the map it has written: no step after the first encoding touches what goes
\* into either.  Nothing is assumed of the encoder.
THEOREM EncodingsAgreeAlways == Spec => []EncodingsAgree
<1>1. IInv /\ Encodings => EncodingsAgree
  <2> SUFFICES ASSUME IInv, Encodings, pc = "done"
               PROVE  /\ Info \in DOMAIN RootDict.d
                      /\ \E o \in Orders : infoBytes = Encoder(RootDict.d[Info], o)
                      /\ \E o \in Orders : torrent = Encoder(RootDict, o)
    BY DEF EncodingsAgree
  <2>1. Info \in DOMAIN RootDict.d /\ RootDict.d[Info] = InfoDict
    BY RootIsDict DEF IInv
  <2> QED
    BY <2>1, Zenon DEF Encodings
<1> QED
  BY <1>1, ReadInvariant, EncodingsAlways, PTL
=============================================================================
