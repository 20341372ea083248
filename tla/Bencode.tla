------------------------------ MODULE Bencode ------------------------------
(***************************************************************************)
(* m2m/bencode.py: the encoding of every packet of the M2M protocol.  A    *)
(* byte is a symbol: a digit, the sign, one of the letters with a meaning, *)
(* or a byte without one.  A value is a pair of its Python type and its    *)
(* contents: <<"int", n>>, <<"bytes", symbols>>, <<"text", characters>>,   *)
(* <<"list", values>>, <<"dict", pairs>>, <<"bool", b>>; None is Nothing.  *)
(*                                                                         *)
(* The operators are recursive: modules with theorems do not reach them.   *)
(***************************************************************************)
EXTENDS Integers, Sequences, SequencesExt

Digits == <<"0", "1", "2", "3", "4", "5", "6", "7", "8", "9">>
IsDigit(c) == \E d \in DOMAIN Digits : Digits[d] = c

Nothing == <<"none">>
Failed  == <<"exception">>     \* an exception was raised
Endless == <<"endless">>       \* the reading does not end

(* "{}".format(n)                                                          *)
RECURSIVE Numeral(_)
Numeral(n) == IF n < 0 THEN <<"-">> \o Numeral(-n)
              ELSE IF n < 10 THEN <<Digits[n + 1]>>
              ELSE Append(Numeral(n \div 10), Digits[(n % 10) + 1])

(* int(symbols): an optional sign and digits.                              *)
IsNumeral(s) == LET d == IF s # <<>> /\ s[1] = "-" THEN Tail(s) ELSE s IN
                d # <<>> /\ \A i \in DOMAIN d : IsDigit(d[i])
RECURSIVE NumberOf(_)
NumberOf(s) == IF s = <<>> THEN 0
          ELSE IF s[1] = "-" THEN -NumberOf(Tail(s))
          ELSE 10 * NumberOf(Front(s)) + SelectInSeq(Digits, LAMBDA c : c = Last(s)) - 1

(* text.encode("utf-8"): "U+" stands for the characters of several bytes.  *)
Utf8Char(c) == IF c = "U+" THEN <<"xC3", "xA9">> ELSE <<c>>
Utf8(text) == FlattenSeq([i \in DOMAIN text |-> Utf8Char(text[i])])

-----------------------------------------------------------------------------
(* _decode.  Read(s) is what one call returns when s is still to be read,  *)
(* with what is left; Failed and Endless end everything.                   *)
Result(value, left) == [value |-> value, left |-> left]
Stops(r) == r.value \in {Failed, Endless}

(* i<number>e                                                              *)
ReadInt(s) ==
    LET e == SelectInSeq(s, LAMBDA c : ~IsDigit(c) /\ c # "-")
        number == SubSeq(s, 1, e - 1)
    IN IF e = 0 \/ s[e] # "e" \/ ~IsNumeral(number)
       THEN Result(Failed, <<>>)
       ELSE Result(<<"int", NumberOf(number)>>, SubSeq(s, e + 1, Len(s)))

(* <size>:<bytes>.  Without a colon the reading of the size never ends; a  *)
(* string that is cut short is returned as it is.                          *)
ReadBytes(s) ==
    LET colon == SelectInSeq(s, LAMBDA c : c = ":")
        size == SubSeq(s, 1, colon - 1)
        rest == SubSeq(s, colon + 1, Len(s))
        n == IF NumberOf(size) < 0 \/ NumberOf(size) > Len(rest) THEN Len(rest) ELSE NumberOf(size)
    IN IF colon = 0 THEN Result(Endless, <<>>)
       ELSE IF ~IsNumeral(size) THEN Result(Failed, <<>>)
       ELSE Result(<<"bytes", SubSeq(rest, 1, n)>>, SubSeq(rest, n + 1, Len(rest)))

RECURSIVE Read(_), ReadItems(_, _), ReadPairs(_, _)
Read(s) ==
    IF s = <<>> THEN Result(Failed, <<>>)                       \* DecodeError
    ELSE CASE s[1] = "e" -> Result(Nothing, Tail(s))
           [] s[1] = "i" -> ReadInt(Tail(s))
           [] s[1] = "l" -> ReadItems(Tail(s), <<>>)
           [] s[1] = "d" -> ReadPairs(Tail(s), {})
           [] OTHER -> ReadBytes(s)

ReadItems(s, items) ==
    LET r == Read(s) IN
    IF Stops(r) THEN r
    ELSE IF r.value = Nothing THEN Result(<<"list", items>>, r.left)
    ELSE ReadItems(r.left, Append(items, r.value))

(* dict(kv): the last value of a key stays, and a key must be hashable.    *)
ReadPairs(s, pairs) ==
    LET k == Read(s)
        v == Read(k.left)
    IN IF Stops(k) THEN k
       ELSE IF k.value = Nothing THEN Result(<<"dict", pairs>>, k.left)
       ELSE IF Stops(v) THEN v
       ELSE IF k.value[1] \in {"list", "dict"} THEN Result(Failed, <<>>)
       ELSE ReadPairs(v.left, {p \in pairs : p[1] # k.value} \cup {<<k.value, v.value>>})

Decode(s) == Read(s).value

-----------------------------------------------------------------------------
SizeAndBytes(s) == Numeral(Len(s)) \o <<":">> \o s
IsKey(v) == v[1] = "bytes"

(* add_encode.  The keys of a dict are sorted; any order will do here.     *)
RECURSIVE AddEncode(_)
AddEncode(v) ==
    CASE v[1] = "bytes" -> SizeAndBytes(v[2])
      [] v[1] = "text"  -> SizeAndBytes(Utf8(v[2]))
      [] v[1] = "int"   -> <<"i">> \o Numeral(v[2]) \o <<"e">>
      [] v[1] = "bool"  -> <<"i", "True or False", "e">>     \* a bool is an int
      [] v[1] = "list"  -> <<"l">> \o FlattenSeq([i \in DOMAIN v[2] |-> AddEncode(v[2][i])])
                                   \o <<"e">>
      [] v[1] = "dict"  -> LET kv == SetToSeq(v[2]) IN
                           <<"d">> \o FlattenSeq([i \in DOMAIN kv |-> AddEncode(kv[i][1])
                                                                 \o AddEncode(kv[i][2])])
                                   \o <<"e">>

(* A value that has no encoding raises EncodingError.                      *)
RECURSIVE Encodable(_)
Encodable(v) ==
    CASE v[1] = "list" -> \A i \in DOMAIN v[2] : Encodable(v[2][i])
      [] v[1] = "dict" -> \A p \in v[2] : IsKey(p[1]) /\ Encodable(p[2])
      [] OTHER -> v # Nothing

(* encode ends with `assert decode(bencode_data) is not None`, which also  *)
(* passes on what decode raises.                                           *)
Encode(v) == IF ~Encodable(v) THEN Failed
             ELSE LET s == AddEncode(v) IN
                  IF Decode(s) \in {Nothing, Failed, Endless} THEN Failed ELSE s
=============================================================================
