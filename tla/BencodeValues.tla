--------------------------- MODULE BencodeValues ---------------------------
(* The values that internal/bencode/bencode.go encodes, and its syntax.    *)
EXTENDS Integers

Str(s)  == [kind |-> "string", s |-> s]     \* string and []byte
Num(n)  == [kind |-> "int", n |-> n]        \* int and int64
List(l) == [kind |-> "list", l |-> l]       \* []Value
Dict(d) == [kind |-> "dict", d |-> d]       \* Dict

NoKeys == [k \in {} |-> 0]

Colon == 58
Minus == 45
DictMark == 100
EndMark == 101
IntMark == 105
ListMark == 108
Digits == 48 .. 57
=============================================================================
