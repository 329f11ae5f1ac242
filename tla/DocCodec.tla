-------------------------------- MODULE DocCodec --------------------------------
(***************************************************************************)
(* How docstore turns Go values into what a driver stores and back: the    *)
(* traversal of package docstore/driver and the encoders and decoders of   *)
(* memdocstore, awsdynamodb, gcpfirestore and mongodocstore.               *)
(*                                                                         *)
(* A Go value is taken with its static type.  A type is a tuple of its     *)
(* kind and its parts, a value a tuple of a tag and a payload; the value   *)
(* of an interface carries its dynamic type.  A string is a tuple, empty   *)
(* for the empty string, so that the text of a time or of a number can be  *)
(* told from others.  The bytes of a value that marshals itself stand for  *)
(* the value.  An integer type has a width in bits, Bits at most (64 in    *)
(* the code); floats are counted in halves and are exact.                  *)
(***************************************************************************)
EXTENDS Integers, Sequences, TLC

CONSTANT Bits

Bool == <<"bool">>
String == <<"string">>
Float == <<"float">>
Time == <<"time">>
Interface == <<"any">>
IntN(w) == <<"int", w>>
UintN(w) == <<"uint", w>>
Small == Bits - 1          \* the width of int8 and uint8
Byte == UintN(Small)
Slice(T) == <<"slice", T>>
Array(T, n) == <<"array", T, n>>
MapOf(T, K) == <<"map", T, K>>
Ptr(T) == <<"ptr", T>>
Struct(fs) == <<"struct", fs>>    \* from names to types and omitempty
Field(T) == [type |-> T, omitEmpty |-> FALSE]
Proto == <<"proto">>              \* a protocol buffer timestamp
Marshaler == <<"binary">>         \* a type with MarshalBinary
TextMarshaler == <<"text">>       \* a type with MarshalText

Nil == <<"nil">>
Error == <<"error">>
Panic == <<"panic">>
None == <<"none">>                \* "false" of EncodeSpecial, AsSpecial and AsXXX
Failure == {Error, Panic}
As(T, v) == <<"as", T, v>>        \* what an interface holds

MinInt(w) == -(2 ^ (w - 1))
MaxInt(w) == 2 ^ (w - 1) - 1
MaxUint(w) == 2 ^ w - 1

\* Conversions between int64 and uint64.
ToInt64(n) == IF n > MaxInt(Bits) THEN n - 2 ^ Bits ELSE n
ToUint64(n) == IF n < 0 THEN n + 2 ^ Bits ELSE n

RECURSIVE Zero(_)
Zero(T) ==
  CASE T[1] = "bool" -> <<"bool", FALSE>>
    [] T[1] = "string" -> <<"string", << >>>>
    [] T[1] \in {"int", "uint", "float", "binary", "text"} -> <<T[1], 0>>
    [] T[1] \in {"time", "proto"} -> <<T[1], <<0, 0>>>>
    [] T[1] = "array" -> <<"list", [i \in 1 .. T[3] |-> Zero(T[2])]>>
    [] T[1] = "struct" -> <<"struct", [x \in DOMAIN T[2] |-> Zero(T[2][x].type)]>>
    [] OTHER -> Nil

IsEmptyValue(v) ==
  \/ v \in {Nil, <<"bool", FALSE>>, <<"int", 0>>, <<"uint", 0>>, <<"float", 0>>, <<"string", << >>>>}
  \/ v[1] = "list" /\ v[2] = << >>
  \/ v[1] = "bytes" /\ v[2] = <<"raw">>
  \/ v[1] = "map" /\ DOMAIN v[2] = {}

---------------------------------------------------------------------------
(* Encoders: what a driver keeps for one call of its encoder               *)

\* Unsigned numbers are converted to int64.
MemEncoder(call) == IF call[1] = "uint" THEN <<"int", ToInt64(call[2])>> ELSE call

\* A number is its decimal text, here its value in halves; there are no empty
\* strings.
DynamoEncoder(call) ==
  CASE call[1] \in {"int", "uint"} -> <<"N", 2 * call[2]>>
    [] call[1] = "float" -> <<"N", call[2]>>
    [] call = <<"string", << >>>> -> Nil
    [] OTHER -> call

FirestoreEncoder(call) == IF call[1] = "uint" THEN <<"int", ToInt64(call[2])>> ELSE call

MongoEncoder(call) == IF call[1] = "uint" THEN <<"int", ToInt64(call[2])>> ELSE call

Encoder(d, call) ==
  CASE d = "mem" -> MemEncoder(call)
    [] d = "dynamo" -> DynamoEncoder(call)
    [] d = "firestore" -> FirestoreEncoder(call)
    [] d = "mongo" -> MongoEncoder(call)

MemEncodeSpecial(T, v) == IF T = Time THEN v ELSE None

\* A time is the text of its RFC 3339 format.
DynamoEncodeSpecial(T, v) == IF T = Time THEN <<"string", <<"rfc3339", v[2]>>>> ELSE None

FirestoreEncodeSpecial(T, v) ==
  IF T = Time THEN v
  ELSE IF T = Ptr(Proto) THEN (IF v = Nil THEN Nil ELSE <<"time", v[2][2]>>)
  ELSE None

MongoEncodeSpecial(T, v) == IF T = Time THEN v ELSE None

EncodeSpecial(d, T, v) ==
  CASE d = "mem" -> MemEncodeSpecial(T, v)
    [] d = "dynamo" -> DynamoEncodeSpecial(T, v)
    [] d = "firestore" -> FirestoreEncodeSpecial(T, v)
    [] d = "mongo" -> MongoEncodeSpecial(T, v)

---------------------------------------------------------------------------
(* driver.Encode *)

Fails(s) == \E i \in DOMAIN s : s[i] \in Failure
FirstFailure(s) == s[CHOOSE i \in DOMAIN s : s[i] \in Failure]

\* Strings and integers can be map keys, and what marshals to text.
stringifyMapKey(k) ==
  CASE k[1] = "string" -> k[2]
    [] k[1] \in {"int", "uint"} -> <<"dec", k[2]>>
    [] k[1] = "text" -> <<"text", k[2]>>
    [] OTHER -> Error

RECURSIVE encode(_, _, _)

\* A slice of bytes is encoded as such, an array of bytes as a list.
encodeList(d, T, v) ==
  LET s == [i \in DOMAIN v[2] |-> encode(d, T[2], v[2][i])]
  IN  IF v[1] = "bytes" THEN Encoder(d, v) ELSE IF Fails(s) THEN FirstFailure(s) ELSE Encoder(d, <<"list", s>>)

encodeMap(d, T, v) ==
  LET keys == {stringifyMapKey(k) : k \in DOMAIN v[2]}
      key(sk) == CHOOSE k \in DOMAIN v[2] : stringifyMapKey(k) = sk
      m == [sk \in keys |-> encode(d, T[2], v[2][key(sk)])]
  IN  IF v = Nil THEN Encoder(d, Nil)
      ELSE IF Error \in keys THEN Error
      ELSE IF Fails(m) THEN FirstFailure(m) ELSE Encoder(d, <<"map", m>>)

encodeStructWithFields(d, T, v) ==
  LET kept == {x \in DOMAIN T[2] : T[2][x].omitEmpty => ~IsEmptyValue(v[2][x])}
      m == [k \in {<<x>> : x \in kept} |-> encode(d, T[2][k[1]].type, v[2][k[1]])]
  IN  IF Fails(m) THEN FirstFailure(m) ELSE Encoder(d, <<"map", m>>)

encode(d, T, v) ==
  IF EncodeSpecial(d, T, v) # None THEN EncodeSpecial(d, T, v)
  ELSE CASE T = Marshaler -> Encoder(d, <<"bytes", <<"binary", v[2]>>>>)
         [] T = Ptr(Proto) -> Encoder(d, IF v = Nil THEN Nil ELSE <<"bytes", <<"proto", v[2][2]>>>>)
         [] T = Proto -> Encoder(d, <<"bytes", <<"proto", v[2]>>>>)
         [] T = TextMarshaler -> Encoder(d, <<"string", <<"text", v[2]>>>>)
         [] T[1] \in {"bool", "int", "uint", "float", "string"} -> Encoder(d, v)
         [] T[1] \in {"slice", "array"} -> IF v = Nil THEN Encoder(d, Nil) ELSE encodeList(d, T, v)
         [] T[1] = "map" -> encodeMap(d, T, v)
         [] T[1] = "ptr" /\ T # Ptr(Proto) -> IF v = Nil THEN Encoder(d, Nil) ELSE encode(d, T[2], v[2])
         [] T[1] = "any" -> IF v = Nil THEN Encoder(d, Nil) ELSE encode(d, v[2], v[3])
         [] T[1] = "struct" -> encodeStructWithFields(d, T, v)
         [] T[1] = "chan" -> Error

\* External: what is read back is what was stored; BSON counts times in
\* milliseconds.
RECURSIVE Stored(_, _)
Stored(d, x) ==
  CASE x[1] = "time" /\ d = "mongo" -> <<"time", <<x[2][1], 0>>>>
    [] x[1] \in {"list", "map"} -> <<x[1], [i \in DOMAIN x[2] |-> Stored(d, x[2][i])]>>
    [] OTHER -> x

---------------------------------------------------------------------------
(* Decoders: a stored value as a bool, an int, ..., or None                *)

MemDecoder(x, kind) ==
  IF kind = "uint" /\ x[1] = "int" THEN <<"uint", ToUint64(x[2])>> ELSE IF x[1] = kind THEN x ELSE None

\* Numbers are parsed; null is the empty string.
DynamoDecoder(x, kind) ==
  LET whole == x[1] = "N" /\ x[2] % 2 = 0
  IN  CASE kind = "string" /\ x = Nil -> <<"string", << >>>>
        [] kind = "int" /\ whole ->
             IF x[2] \div 2 \in MinInt(Bits) .. MaxInt(Bits) THEN <<"int", x[2] \div 2>> ELSE None
        [] kind = "uint" /\ whole -> IF x[2] \div 2 \in 0 .. MaxUint(Bits) THEN <<"uint", x[2] \div 2>> ELSE None
        [] kind = "float" /\ x[1] = "N" -> <<"float", x[2]>>
        [] OTHER -> IF x[1] = kind THEN x ELSE None

FirestoreDecoder(x, kind) ==
  IF kind = "uint" /\ x[1] = "int" THEN <<"uint", ToUint64(x[2])>> ELSE IF x[1] = kind THEN x ELSE None

MongoDecoder(x, kind) ==
  IF kind = "uint" /\ x[1] = "int" THEN <<"uint", ToUint64(x[2])>> ELSE IF x[1] = kind THEN x ELSE None

Decoder(d, x, kind) ==
  CASE d = "mem" -> MemDecoder(x, kind)
    [] d = "dynamo" -> DynamoDecoder(x, kind)
    [] d = "firestore" -> FirestoreDecoder(x, kind)
    [] d = "mongo" -> MongoDecoder(x, kind)

\* The Go value that AsInterface finds best for a stored one.
GoScalar(x) ==
  CASE x[1] = "int" -> As(IntN(Bits), x)
    [] x[1] = "bytes" -> As(Slice(Byte), x)
    [] x[1] = "nil" -> Nil
    [] OTHER -> As(<<x[1]>>, x)

\* A whole number is an int64 if it can be, then a uint64.
DynamoNumber(h) ==
  IF h % 2 # 0 THEN As(Float, <<"float", h>>)
  ELSE IF h \div 2 \in MinInt(Bits) .. MaxInt(Bits) THEN As(IntN(Bits), <<"int", h \div 2>>)
  ELSE IF h \div 2 \in 0 .. MaxUint(Bits) THEN As(UintN(Bits), <<"uint", h \div 2>>)
  ELSE As(Float, <<"float", h>>)

RECURSIVE toGoValue(_)
toGoValue(x) ==
  CASE x[1] = "N" -> DynamoNumber(x[2])
    [] x[1] = "list" -> As(Slice(Interface), <<"list", [i \in DOMAIN x[2] |-> toGoValue(x[2][i])]>>)
    [] x[1] = "map" ->
         As(MapOf(Interface, String),
            <<"map", [k \in {<<"string", s>> : s \in DOMAIN x[2]} |-> toGoValue(x[2][k[2]])]>>)
    [] OTHER -> GoScalar(x)

\* The time of memdocstore is whatever is stored, a nil too.
MemAsSpecial(T, x) == IF T # Time THEN None ELSE IF x = Nil THEN Panic ELSE IF x[1] = "time" THEN x ELSE Error

DynamoAsSpecial(T, x) ==
  IF T # Time \/ x[1] # "string" THEN None
  ELSE IF Len(x[2]) = 2 /\ x[2][1] = "rfc3339" THEN <<"time", x[2][2]>> ELSE Error

FirestoreAsSpecial(T, x) ==
  IF T \notin {Time, Ptr(Proto)} THEN None
  ELSE IF x[1] # "time" THEN Error
  ELSE IF T = Time THEN x ELSE <<"ptr", <<"proto", x[2]>>>>

\* A time is decoded as one whatever the type.
MongoAsSpecial(T, x) ==
  IF x[1] # "time" THEN None
  ELSE IF T = Time THEN x ELSE IF T = Interface THEN As(Time, x) ELSE Error

AsSpecial(d, T, x) ==
  CASE d = "mem" -> MemAsSpecial(T, x)
    [] d = "dynamo" -> DynamoAsSpecial(T, x)
    [] d = "firestore" -> FirestoreAsSpecial(T, x)
    [] d = "mongo" -> MongoAsSpecial(T, x)

---------------------------------------------------------------------------
(* driver.Decode, into the zero value of a type *)

\* A number must fit; a float that is whole is taken for an integer.
decodeInt(d, w, x) ==
  LET i == Decoder(d, x, "int")
      f == Decoder(d, x, "float")
      n == IF i # None THEN i[2] ELSE f[2] \div 2
  IN  IF i = None /\ (f = None \/ f[2] % 2 # 0) THEN Error
      ELSE IF n \in MinInt(w) .. MaxInt(w) THEN <<"int", n>> ELSE Error

decodeUint(d, w, x) ==
  LET u == Decoder(d, x, "uint")
      f == Decoder(d, x, "float")
      n == IF u # None THEN u[2] ELSE f[2] \div 2
  IN  IF u = None /\ (f = None \/ f[2] % 2 # 0) THEN Error
      ELSE IF n \in 0 .. MaxUint(w) THEN <<"uint", n>> ELSE Error

\* A slice gets the length of the list, which a nil slice has if the list is
\* empty; an array may be longer.
prepareLength(T, s) ==
  CASE T[1] = "slice" -> IF s = << >> THEN Nil ELSE <<"list", s>>
    [] T[1] = "array" -> IF Len(s) > T[3] THEN Error
                         ELSE <<"list", [i \in 1 .. T[3] |-> IF i <= Len(s) THEN s[i] ELSE Zero(T[2])]>>

unstringifyMapKey(sk, K) ==
  CASE K[1] = "string" -> <<"string", sk>>
    [] K[1] = "text" -> IF Len(sk) = 2 /\ sk[1] = "text" THEN sk ELSE Error
    [] K[1] = "any" -> As(String, <<"string", sk>>)
    [] K[1] = "int" -> IF Len(sk) = 2 /\ sk[1] = "dec" /\ sk[2] \in MinInt(K[2]) .. MaxInt(K[2])
                       THEN <<"int", sk[2]>> ELSE Error
    [] K[1] = "uint" -> IF Len(sk) = 2 /\ sk[1] = "dec" /\ sk[2] \in 0 .. MaxUint(K[2])
                        THEN <<"uint", sk[2]>> ELSE Error
    [] OTHER -> Error

RECURSIVE decode(_, _, _)

decodeList(d, T, x) ==
  LET b == Decoder(d, x, "bytes")
      l == Decoder(d, x, "list")
      s == [i \in DOMAIN l[2] |-> decode(d, T[2], l[2][i])]
  IN  IF T = Slice(Byte) /\ b # None THEN b
      ELSE IF l = None THEN Error
      ELSE IF T[1] = "array" /\ Len(l[2]) > T[3] THEN Error
      ELSE IF Fails(s) THEN FirstFailure(s) ELSE prepareLength(T, s)

decodeMap(d, T, x) ==
  LET m == Decoder(d, x, "map")
      els == [sk \in DOMAIN m[2] |-> decode(d, T[2], m[2][sk])]
      vks == {unstringifyMapKey(sk, T[3]) : sk \in DOMAIN m[2]}
      from(vk) == CHOOSE sk \in DOMAIN m[2] : unstringifyMapKey(sk, T[3]) = vk
  IN  IF m = None THEN Error
      ELSE IF Fails(els) THEN FirstFailure(els)
      ELSE IF Error \in vks THEN Error ELSE <<"map", [vk \in vks |-> els[from(vk)]]>>

\* DecodeMap of something else does nothing in awsdynamodb and gcpfirestore.
\* A stored field must be one of the struct; the others keep their zero value.
decodeStruct(d, T, x) ==
  LET m == Decoder(d, x, "map")
      fv == [k \in DOMAIN m[2] |-> decode(d, T[2][k[1]].type, m[2][k])]
  IN  IF m = None THEN (IF d \in {"dynamo", "firestore"} THEN Zero(T) ELSE Panic)
      ELSE IF ~DOMAIN m[2] \subseteq {<<f>> : f \in DOMAIN T[2]} THEN Error
      ELSE IF Fails(fv) THEN FirstFailure(fv)
      ELSE <<"struct", [f \in DOMAIN T[2] |-> IF <<f>> \in DOMAIN m[2] THEN fv[<<f>>] ELSE Zero(T[2][f].type)]>>

decode(d, T, x) ==
  LET as(kind) == Decoder(d, x, kind)
      unmarshal(kind) ==
        IF as(kind) # None /\ as(kind)[2] # << >> /\ as(kind)[2][1] = T[1] THEN <<T[1], as(kind)[2][2]>> ELSE Error
  IN  IF x = Nil /\ T[1] \in {"any", "ptr", "map", "slice"} THEN Nil
      ELSE IF AsSpecial(d, T, x) # None THEN AsSpecial(d, T, x)
      ELSE CASE T \in {Marshaler, Proto} -> unmarshal("bytes")
             [] T = TextMarshaler -> unmarshal("string")
             [] T[1] \in {"bool", "string", "float"} -> IF as(T[1]) = None THEN Error ELSE as(T[1])
             [] T[1] = "int" -> decodeInt(d, T[2], x)
             [] T[1] = "uint" -> decodeUint(d, T[2], x)
             [] T[1] \in {"slice", "array"} -> decodeList(d, T, x)
             [] T[1] = "map" -> decodeMap(d, T, x)
             [] T[1] = "ptr" -> LET v == decode(d, T[2], x) IN IF v \in Failure THEN v ELSE <<"ptr", v>>
             [] T[1] = "struct" -> decodeStruct(d, T, x)
             [] T[1] = "any" -> toGoValue(x)
             [] OTHER -> Error

\* A value written with driver d and read into a variable of its type.
RoundTrip(d, T, v) ==
  LET e == encode(d, T, v) IN IF e \in Failure THEN e ELSE decode(d, T, Stored(d, e))

---------------------------------------------------------------------------
(* The tests of the codecs in package docstore/drivertest, from docstore   *)
(* to docstore (the codecs of the services' own clients are not under      *)
(* src/), and the round trip of any value of a set of types.               *)

Int64 == IntN(Bits)
Uint64 == UintN(Bits)
Int8 == IntN(Small)

\* A time with milliseconds only, and one with nanoseconds.
milliTime == <<"time", <<5, 0>>>>
nanoTime == <<"time", <<5, 7>>>>

int(n) == <<"int", n>>
str(s) == <<"string", <<s>>>>
ints(s) == <<"list", [i \in DOMAIN s |-> int(s[i])]>>
floats(s) == <<"list", [i \in DOMAIN s |-> <<"float", s[i]>>]>>
strKey(s) == <<"string", <<s>>>>

---------------------------------------------------------------------------

docstoreRoundTrip ==
  Struct([N |-> Field(Ptr(Int64)), I |-> Field(Int64), U |-> Field(Uint64), F |-> Field(Float),
          St |-> Field(String), B |-> Field(Bool), By |-> Field(Slice(Byte)), L |-> Field(Slice(Int64)),
          A |-> Field(Array(Int64, 2)), A2 |-> Field(Array(Int8, 2)), At |-> Field(Array(Byte, 2)),
          Uu |-> Field(Marshaler), M |-> Field(MapOf(Bool, String)), P |-> Field(Ptr(String)),
          T |-> Field(Time)])

testTypeDrivenDecode(d) ==
  LET dsrt == <<"struct",
        [N |-> Nil, I |-> int(1), U |-> <<"uint", 2>>, F |-> <<"float", 5>>, St |-> str("foo"),
         B |-> <<"bool", TRUE>>, L |-> ints(<<3, 4, 5>>), A |-> ints(<<6, 7>>), A2 |-> ints(<<1, 2>>),
         At |-> <<"list", <<<<"uint", 1>>, <<"uint", 2>>>>>>, Uu |-> <<"binary", 1>>,
         M |-> <<"map", strKey("a") :> <<"bool", TRUE>> @@ strKey("b") :> <<"bool", FALSE>>>>,
         By |-> <<"bytes", <<"raw", 6, 7, 8>>>>, P |-> <<"ptr", str("bar")>>, T |-> milliTime]>>
  IN  RoundTrip(d, docstoreRoundTrip, dsrt) = dsrt

\* Values in an interface, and what may come back.
testBlindDecode1(d) ==
  LET any(x) == RoundTrip(d, Struct([X |-> Field(Interface)]), <<"struct", [X |-> x]>>)
      gets(x, wants) == any(x) \in {<<"struct", [X |-> w]>> : w \in wants}
      int64(n) == As(Int64, int(n))
      texts == <<"string", <<"rfc3339", milliTime[2]>>>>
      list(s) == As(Slice(Interface), <<"list", s>>)
      float64(h) == As(Float, <<"float", h>>)
      mapA(x) == As(MapOf(Interface, String), <<"map", strKey("a") :> x>>)
      bytes == <<"bytes", <<"raw", 1, 2>>>>
  IN  /\ gets(Nil, {Nil})
      /\ gets(As(Bool, <<"bool", TRUE>>), {As(Bool, <<"bool", TRUE>>)})
      /\ gets(As(String, str("foo")), {As(String, str("foo"))})
      /\ gets(int64(3), {int64(3)}) /\ gets(As(Int8, int(3)), {int64(3)}) /\ gets(int64(-3), {int64(-3)})
      /\ gets(int64(MaxInt(Small) + 1), {int64(MaxInt(Small) + 1)})
      /\ gets(float64(3), {float64(3)})
      /\ gets(As(Slice(Byte), bytes), {As(Slice(Byte), bytes)})
      /\ gets(As(Slice(Int64), ints(<<1, 2>>)), {list(<<int64(1), int64(2)>>)})
      /\ gets(As(Slice(Float), floats(<<3, 5>>)), {list(<<float64(3), float64(5)>>)})
      /\ gets(As(Time, milliTime), {As(Time, milliTime), As(String, texts)})
      /\ gets(As(Slice(Time), <<"list", <<milliTime>>>>),
              {list(<<As(Time, milliTime)>>), list(<<As(String, texts)>>)})
      /\ gets(As(MapOf(Int64, String), <<"map", strKey("a") :> int(1)>>), {mapA(int64(1))})
      /\ gets(As(MapOf(Slice(Byte), String), <<"map", strKey("a") :> bytes>>), {mapA(As(Slice(Byte), bytes))})

\* A field of a map document: an integer comes back as an int64.
testData(d) ==
  LET got(x) == RoundTrip(d, MapOf(Interface, String), <<"map", strKey("val") :> x>>)[2][strKey("val")]
  IN  /\ \A w \in 2 .. Bits : /\ got(As(IntN(w), int(-2))) = As(Int64, int(-2))
                              /\ got(As(UintN(w), <<"uint", 3>>)) = As(Int64, int(3))
      /\ got(As(Float, <<"float", 7>>)) = As(Float, <<"float", 7>>)
      /\ LET b == As(Slice(Byte), <<"bytes", <<"raw", 0, 1, 2>>>>) IN got(b) = b

testProto(d) ==
  LET T == Struct([Name |-> Field(String), Proto |-> Field(Proto), PtrToProto |-> Field(Ptr(Proto))])
      doc == <<"struct", [Name |-> str("testing"), Proto |-> <<"proto", <<42, 0>>>>,
                          PtrToProto |-> <<"ptr", <<"proto", <<43, 0>>>>>>]>>
  IN  RoundTrip(d, T, doc) = doc

---------------------------------------------------------------------------
(* Any value of a type *)

Scalars == {Bool, String, Float, Time, Int64, Int8, Uint64, Byte, Marshaler, TextMarshaler, Proto}

Types ==
  Scalars \union {Slice(T) : T \in Scalars} \union {Ptr(T) : T \in Scalars}
          \union {Array(T, 2) : T \in Scalars}
          \union {MapOf(T, K) : T \in {Int8, String}, K \in {String, Int8, Byte, TextMarshaler, Float}}
          \union {Struct([x |-> [type |-> T, omitEmpty |-> TRUE]]) : T \in Scalars \union {Slice(String), Ptr(String)}}
          \union {Ptr(Ptr(String)), Ptr(Slice(Bool)), Slice(Ptr(String)), Slice(Slice(Bool)), <<"chan">>}

RECURSIVE Values(_)
Values(T) ==
  CASE T = Bool -> {<<"bool", b>> : b \in BOOLEAN}
    [] T = String -> {<<"string", << >>>>, str("foo"), <<"string", <<"dec", 1>>>>}
    [] T = Float -> {<<"float", h>> : h \in -3 .. 3}
    [] T = Time -> {milliTime, nanoTime}
    [] T = Proto -> {<<"proto", <<s, 0>>>> : s \in 0 .. 1}
    [] T[1] \in {"binary", "text"} -> {<<T[1], n>> : n \in 0 .. 1}
    [] T[1] = "int" -> {int(n) : n \in MinInt(T[2]) .. MaxInt(T[2])}
    [] T[1] = "uint" -> {<<"uint", n>> : n \in 0 .. MaxUint(T[2])}
    [] T = Slice(Byte) -> {Nil, <<"bytes", <<"raw">>>>, <<"bytes", <<"raw", 1>>>>}
    [] T[1] = "slice" /\ T # Slice(Byte) ->
         {Nil, <<"list", << >>>>} \union {<<"list", <<x, y>>>> : x, y \in Values(T[2])}
    [] T[1] = "array" -> {<<"list", <<x, y>>>> : x, y \in Values(T[2])}
    [] T[1] = "map" -> {Nil, <<"map", << >>>>} \union {<<"map", k :> x>> : k \in Values(T[3]), x \in Values(T[2])}
    [] T[1] = "ptr" -> {Nil} \union {<<"ptr", x>> : x \in Values(T[2])}
    [] T[1] = "struct" -> {<<"struct", [x |-> y]>> : y \in Values(T[2].x.type)}
    [] T[1] = "chan" -> {Nil}

\* Values that are refused: there is no encoding of them or of their keys.
Refused(T, v) == T[1] = "chan" \/ (T[1] = "map" /\ T[3] = Float /\ v # Nil /\ DOMAIN v[2] # {})

\* What a value may come back as: null stands for a nil of any type, for an
\* empty string in DynamoDB, and for a pointer to one of these; an empty list
\* comes back as a nil slice, a time of MongoDB without its nanoseconds.
RECURSIVE Survives(_, _, _)
Survives(d, T, v) ==
  LET null(U, x) == encode(d, U, x) = Nil
  IN  CASE v = Nil -> Nil
        [] T = Time /\ d = "mongo" -> <<"time", <<v[2][1], 0>>>>
        [] T[1] = "ptr" /\ v # Nil -> IF null(T[2], v[2]) THEN Nil ELSE <<"ptr", Survives(d, T[2], v[2])>>
        [] v[1] = "list" -> IF v[2] = << >> THEN Nil ELSE <<"list", [i \in DOMAIN v[2] |-> Survives(d, T[2], v[2][i])]>>
        [] T[1] = "struct" -> <<"struct", [x |-> IF IsEmptyValue(v[2].x) THEN Zero(T[2].x.type)
                                                 ELSE Survives(d, T[2].x.type, v[2].x)]>>
        [] OTHER -> v

\* mongodocstore decodes a stored time as a time.Time whatever the type of the
\* variable, and a pointer to one does not take it.
Unreadable(d, T, v) == d = "mongo" /\ T = Ptr(Time) /\ v # Nil

\* A value comes back as what was written, up to what is lost in Survives, or
\* there is an error: it never becomes another value of its type.
Faithful(d, T, v) ==
  RoundTrip(d, T, v) = IF Refused(T, v) \/ Unreadable(d, T, v) THEN Error ELSE Survives(d, T, v)

CodecTest(test, d) ==
  CASE test = "TypeDrivenDecode" -> testTypeDrivenDecode(d)
    [] test = "BlindDecode" -> testBlindDecode1(d)
    [] test = "Data" -> testData(d)
    [] test = "Proto" -> testProto(d)
================================================================================
