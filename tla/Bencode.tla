------------------------------ MODULE Bencode ------------------------------
(***************************************************************************)
(* internal/bencode/bencode.go: Encode, and a decoder to check it against. *)
(* Bytes are numbers.  A Go map is iterated in any order: Encode gets the  *)
(* order of its iterations as a sequence of all keys.                      *)
(***************************************************************************)
EXTENDS BencodeValues, Sequences, FiniteSets, TLC

RECURSIVE Itoa(_)
Itoa(n) ==
    IF n < 0 THEN <<Minus>> \o Itoa(-n)
    ELSE IF n < 10 THEN <<48 + n>>
    ELSE Itoa(n \div 10) \o <<48 + (n % 10)>>

\* sort.Strings
Less(a, b) ==
    \E i \in 1 .. Len(b) :
        /\ \A j \in 1 .. i - 1 : j <= Len(a) /\ a[j] = b[j]
        /\ i <= Len(a) => a[i] < b[i]

WriteBytes(s) == Itoa(Len(s)) \o <<Colon>> \o s
WriteInt(n) == <<IntMark>> \o Itoa(n) \o <<EndMark>>

SortedKeys(d, order) == SortSeq(SelectSeq(order, LAMBDA k : k \in DOMAIN d), Less)

RECURSIVE Encode(_, _), WriteAll(_, _), WriteDict(_, _, _)
Encode(v, order) ==
    CASE v.kind = "string" -> WriteBytes(v.s)
      [] v.kind = "int" -> WriteInt(v.n)
      [] v.kind = "list" -> <<ListMark>> \o WriteAll(v.l, order) \o <<EndMark>>
      [] v.kind = "dict" -> <<DictMark>> \o WriteDict(v.d, SortedKeys(v.d, order), order) \o <<EndMark>>

WriteAll(l, order) ==
    IF l = <<>> THEN <<>> ELSE Encode(Head(l), order) \o WriteAll(Tail(l), order)

WriteDict(d, keys, order) ==
    IF keys = <<>> THEN <<>>
    ELSE WriteBytes(Head(keys)) \o Encode(d[Head(keys)], order)
            \o WriteDict(d, Tail(keys), order)

-----------------------------------------------------------------------------
(* The decoder: strict, as engines are.  Parse(b, i) reads one value that  *)
(* starts at b[i] and says where it ends; end = 0 is a syntax error.       *)

Bad == [v |-> Str(<<>>), end |-> 0]
At(b, i) == IF i \in DOMAIN b THEN b[i] ELSE 0

\* The run of digits at b[i]: its end, and its value.
DigitsEnd(b, i) ==
    CHOOSE e \in i .. Len(b) + 1 :
        /\ \A j \in i .. e - 1 : b[j] \in Digits
        /\ At(b, e) \notin Digits

RECURSIVE Number(_, _, _)
Number(b, i, e) == IF e = i THEN 0 ELSE Number(b, i, e - 1) * 10 + b[e - 1] - 48

\* No empty number, no leading zero.
GoodNumber(b, i, e) == e > i /\ (b[i] = 48 => e = i + 1)

ParseBytes(b, i) ==
    LET e == DigitsEnd(b, i)
        n == Number(b, i, e)
    IN  IF GoodNumber(b, i, e) /\ At(b, e) = Colon /\ e + n <= Len(b)
           THEN [v |-> Str(SubSeq(b, e + 1, e + n)), end |-> e + n + 1]
           ELSE Bad

ParseInt(b, i) ==
    LET neg == At(b, i) = Minus
        s == IF neg THEN i + 1 ELSE i
        e == DigitsEnd(b, s)
        n == Number(b, s, e)
    IN  IF GoodNumber(b, s, e) /\ At(b, e) = EndMark /\ (neg => n # 0)
           THEN [v |-> Num(IF neg THEN -n ELSE n), end |-> e + 1]
           ELSE Bad

RECURSIVE Parse(_, _), ParseList(_, _, _), ParseDict(_, _, _, _)
Parse(b, i) ==
    CASE At(b, i) \in Digits -> ParseBytes(b, i)
      [] At(b, i) = IntMark -> ParseInt(b, i + 1)
      [] At(b, i) = ListMark -> ParseList(b, i + 1, <<>>)
      [] At(b, i) = DictMark -> ParseDict(b, i + 1, NoKeys, <<>>)
      [] OTHER -> Bad

ParseList(b, i, done) ==
    IF At(b, i) = EndMark THEN [v |-> List(done), end |-> i + 1]
    ELSE LET x == Parse(b, i) IN
         IF x.end = 0 THEN Bad ELSE ParseList(b, x.end, Append(done, x.v))

\* Keys in ascending order, none twice.
ParseDict(b, i, done, lastKey) ==
    IF At(b, i) = EndMark THEN [v |-> Dict(done), end |-> i + 1]
    ELSE LET k == ParseBytes(b, i)
             x == Parse(b, k.end)
         IN  IF k.end = 0 \/ (DOMAIN done # {} /\ ~Less(lastKey, k.v.s)) THEN Bad
             ELSE IF x.end = 0 THEN Bad
             ELSE ParseDict(b, x.end, done @@ (k.v.s :> x.v), k.v.s)

\* b is exactly one value.
Decodes(b, v) == LET x == Parse(b, 1) IN x.end = Len(b) + 1 /\ x.v = v
=============================================================================
