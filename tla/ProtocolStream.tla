---------------------------- MODULE ProtocolStream ----------------------------
(***************************************************************************)
(* network/api/protocol: packets of length-prefixed and fixed-size fields. *)
(* A BinaryStreamWriter fills and flushes a packet, a BinaryStreamReader   *)
(* gets its first bytes, all of them or fewer, and reads fields in the     *)
(* writer's order or in any other.                                         *)
(*                                                                         *)
(* Bytes have ByteBits bits and integers IntSize bytes instead of 8 and 4; *)
(* a length then takes at most IntSize + 1 bytes, as it does in the source.*)
(* Numbers are sequences of one number; <<>> is NULL.                      *)
(***************************************************************************)
EXTENDS Integers, Sequences, SequencesExt

CONSTANTS ByteBits, IntSize, ShortSize,
          MaxFields   \* fields in a packet

\* A number shifted to the left by n bits is multiplied by Power[n].
Power[n \in Nat] == IF n = 0 THEN 1 ELSE 2 * Power[n - 1]

Top == Power[ByteBits] - 1
Cont == Power[ByteBits - 1]            \* the continuation bit, 0x80
Word == Power[ByteBits * IntSize]      \* uint32_t wraps here
BINARY_PACKLEN_LEN_2 == IntSize
CHECKSUM_LEN == ShortSize
Header == BINARY_PACKLEN_LEN_2 + CHECKSUM_LEN
NullInt == Word \div 3                 \* 999999999, written without htonl
Unlimited == 0                         \* maxlen of a string

-----------------------------------------------------------------------------
(* Numbers as bytes.                                                       *)

write7BitEncoded[v \in Nat] ==
    IF v < Cont THEN <<v>> ELSE <<Cont + (v % Cont)>> \o write7BitEncoded[v \div Cont]

\* Mutant: the groups are put together in the other order.
DecodeReversed(bytes) ==
    LET value[k \in 0..Len(bytes)] ==
          IF k = 0 THEN 0 ELSE (value[k - 1] * Cont + (bytes[k] % Cont)) % Word
    IN value[Len(bytes)]
read7BitEncoded(bytes) ==
    LET value[k \in 0..Len(bytes)] ==
          IF k = 0 THEN 0 ELSE (value[k - 1] + (bytes[k] % Cont) * Power[(ByteBits - 1) * (k - 1)]) % Word
    IN value[Len(bytes)]

\* htonl and htons, and ntohl and ntohs: most significant byte first.
Net(v, size) == [k \in 1..size |-> (v \div Power[ByteBits * (size - k)]) % (Top + 1)]
Host(bytes) ==
    LET value[k \in 0..Len(bytes)] == IF k = 0 THEN 0 ELSE value[k - 1] * (Top + 1) + bytes[k]
    IN value[Len(bytes)]

\* The sum of the double bytes, an odd last byte alone, folded until it fits.
checksum(bytes) ==
    LET n == Len(bytes)
        M == (Top + 1) * (Top + 1)
        pair(k) == IF k < n THEN bytes[k] + bytes[k + 1] * (Top + 1) ELSE bytes[k]
        sum[k \in 0..(n + 1)] == IF k = 0 THEN 0
                                 ELSE sum[k - 1] + IF k % 2 = 1 /\ k <= n THEN pair(k) ELSE 0
        fold[x \in Nat] == IF x < M THEN x ELSE fold[(x \div M) + (x % M)]
    IN M - 1 - fold[sum[n + 1]]

-----------------------------------------------------------------------------
VARIABLES data,     \* the writer's packet
          sent,     \* the fields written
          phase,    \* "write" or "read"
          buf,      \* the bytes the reader was given
          cur,      \* the reader's place in it
          got,      \* the fields read, while in the writer's order
          inOrder   \* every read so far was for the right field and succeeded

vars == <<data, sent, phase, buf, cur, got, inOrder>>

Field(kind, value) == [kind |-> kind, value |-> value]

\* The bytes of a field.  64-bit integers and doubles are written as text.
WriteCString(s) == write7BitEncoded[Len(s)] \o s
WriteInt64(digits) == WriteCString(digits)
WriteDouble(digits) == WriteCString(digits)
WriteInt32(v) == IF v = <<>> THEN Reverse(Net(NullInt, IntSize)) ELSE Net(v[1], IntSize)
WriteShort(v) == IF v = <<>> THEN Net(0, ShortSize) ELSE Net(v[1], ShortSize)
WriteChar(v) == IF v = <<>> THEN <<0>> ELSE v

Bytes(f) ==
    CASE f.kind = "string" -> WriteCString(f.value)
      [] f.kind = "double" -> WriteDouble(f.value)
      [] f.kind = "int64" -> WriteInt64(f.value)
      [] f.kind = "int32" -> WriteInt32(f.value)
      [] f.kind = "short" -> WriteShort(f.value)
      [] f.kind = "char" -> WriteChar(f.value)

Fields ==
    {Field("string", s) : s \in {<<>>, <<Top>>, <<0>> \o [k \in 1..(Cont + 1) |-> Top]}}
    \cup {Field("double", <<1>>), Field("int64", <<>>), Field("int64", <<1, 2>>)}
    \cup {Field("int32", v) : v \in {<<>>, <<1>>, <<Word - 1>>}}
    \cup {Field("short", v) : v \in {<<>>, <<Top - 1>>}}
    \cup {Field("char", v) : v \in {<<>>, <<Top>>}}

\* What a reader should get for it.
Expected(f) ==
    CASE f.kind = "int32" /\ f.value = <<>> -> <<Host(Reverse(Net(NullInt, IntSize)))>>
      [] f.kind \in {"short", "char"} /\ f.value = <<>> -> <<0>>
      [] OTHER -> f.value

\* The header is not initialised; the checksum never is.
NewPacket == [k \in 1..Header |-> Top]

Init ==
    /\ data = NewPacket /\ sent = <<>> /\ phase = "write"
    /\ buf = <<>> /\ cur = 0 /\ got = <<>> /\ inOrder = TRUE

Write(f) ==
    /\ phase = "write" /\ Len(sent) < MaxFields
    /\ data' = data \o Bytes(f)
    /\ sent' = Append(sent, f)
    /\ UNCHANGED <<phase, buf, cur, got, inOrder>>

Clear ==
    /\ phase = "write"
    /\ data' = NewPacket
    /\ sent' = <<>>
    /\ UNCHANGED <<phase, buf, cur, got, inOrder>>

\* The total length is put in front.
Flushed == Net(Len(data), IntSize) \o SubSeq(data, IntSize + 1, Len(data))

\* Flush, and a reader over the first n bytes, the header at least: on fewer the
\* constructor already leaves cur behind the end.
Receive(n) ==
    /\ phase = "write" /\ n \in Header..Len(data)
    /\ phase' = "read"
    /\ data' = Flushed
    /\ buf' = SubSeq(Flushed, 1, n)
    /\ cur' = Header
    /\ UNCHANGED <<sent, got, inOrder>>

-----------------------------------------------------------------------------
(* Reading.  A result says whether the call succeeded, where it leaves cur,*)
(* and what it read.                                                       *)

Result(ok, at, val) == [ok |-> ok, at |-> at, val |-> val]

\* Bytes behind the end hold anything (x): the length is looked at before it is
\* known to lie in the buffer.
ByteAt(k, x) == IF k <= Len(buf) THEN buf[k] ELSE x
HeadLen(x) ==
    LET last == {k \in 1..(IntSize + 1) : ByteAt(cur + k, x) < Cont}
    IN IF last = {} THEN IntSize + 1 ELSE CHOOSE k \in last : \A j \in last : k <= j

\* Mutant: the length is not checked against the end.
LengthUnchecked(x) ==
    LET n == HeadLen(x)
        bytes == [k \in 1..n |-> ByteAt(cur + k, x)]
    IN IF bytes[n] < Cont THEN {Result(TRUE, n, read7BitEncoded(bytes))}
       ELSE {Result(TRUE, n, v) : v \in {0, 1, Word - 1}}
\* A length whose last byte still has the continuation bit is decoded past the
\* end of the local array: it may be anything.
ReadLengthWithoutOffset(x) ==
    LET n == HeadLen(x)
        bytes == [k \in 1..n |-> ByteAt(cur + k, x)]
    IN IF cur + n > Len(buf) THEN {Result(FALSE, 0, 0)}
       ELSE IF bytes[n] < Cont THEN {Result(TRUE, n, read7BitEncoded(bytes))}
       ELSE {Result(TRUE, n, v) : v \in {0, 1, Word - 1}}

\* Too long a field leaves cur where it is, one that is cut off leaves it behind
\* the length.
StringAfter(head, fits(_)) ==
    LET at == cur + head.at
    IN IF ~head.ok \/ ~fits(head.val) THEN Result(FALSE, cur, <<>>)
       ELSE IF at + head.val > Len(buf) THEN Result(FALSE, at, <<>>)
       ELSE Result(TRUE, at + head.val, SubSeq(buf, at + 1, at + head.val))

ReadCString(head, strlen) == StringAfter(head, LAMBDA n : n <= strlen)
ReadString(head, maxlen) == StringAfter(head, LAMBDA n : maxlen = Unlimited \/ n <= maxlen)
ReadCCString(head, maxlen) == StringAfter(head, LAMBDA n : maxlen = Unlimited \/ n <= maxlen)

\* The text is not terminated: atoll may go on in what the stack holds behind it.
ReadInt64(head) ==
    LET r == ReadCString(head, 128)
    IN {r} \cup (IF r.ok THEN {[r EXCEPT !.val = Append(@, 9)]} ELSE {})

Fixed(size, value(_)) ==
    IF cur + size > Len(buf) THEN Result(FALSE, cur, <<>>)
    ELSE Result(TRUE, cur + size, value(SubSeq(buf, cur + 1, cur + size)))
ReadInt32 == Fixed(IntSize, LAMBDA b : <<Host(b)>>)
ReadShort == Fixed(ShortSize, LAMBDA b : <<Host(b)>>)
ReadChar == Fixed(1, LAMBDA b : b)
ReadLength(head) == Result(head.ok, cur + head.at, <<>>)

\* What a call for a field of this kind can return, in a buffer for cap bytes.
Reads(kind, cap, x) ==
    CASE kind \in {"string", "double"} ->
           UNION {{ReadCString(h, cap), ReadString(h, cap), ReadCCString(h, cap)}
                   : h \in ReadLengthWithoutOffset(x)}
      [] kind = "int64" -> UNION {ReadInt64(h) : h \in ReadLengthWithoutOffset(x)}
      [] kind = "length" -> {ReadLength(h) : h \in ReadLengthWithoutOffset(x)}
      [] kind = "int32" -> {ReadInt32}
      [] kind = "short" -> {ReadShort}
      [] kind = "char" -> {ReadChar}

Kinds == {f.kind : f \in Fields} \cup {"length"}

Read(kind, cap, x) ==
    /\ phase = "read"
    /\ \E r \in Reads(kind, cap, x) :
          LET right == inOrder /\ r.ok /\ Len(got) < Len(sent) /\ sent[Len(got) + 1].kind = kind
          IN /\ cur' = r.at
             /\ inOrder' = right
             /\ got' = IF right THEN Append(got, r.val) ELSE <<>>
    /\ UNCHANGED <<data, sent, phase, buf>>

Next ==
    \/ \E f \in Fields : Write(f)
    \/ Clear
    \/ \E n \in 0..Len(data) : Receive(n)
    \/ \E kind \in Kinds, cap \in {Unlimited, 2 * Top}, x \in {0, Top} : Read(kind, cap, x)

Spec == Init /\ [][Next]_vars

-----------------------------------------------------------------------------
\* IsEnd's assertion: whatever is read, in whatever order and after whatever
\* failure, cur is never behind the end.
NotPastEnd == phase = "read" => cur <= Len(buf)

\* What a read finds does not depend on the bytes behind the end, although they
\* are looked at.
OwnBytesOnly ==
    phase = "read" => ReadLengthWithoutOffset(0) = ReadLengthWithoutOffset(Top)

\* Every field comes back as it was written (after a 64-bit number more digits
\* may follow, see ReadInt64), and none is refused by a buffer of its size when
\* the packet is complete; all read, the reader is at the end.
RoundTrip ==
    /\ phase = "read" => Host(SubSeq(data, 1, IntSize)) = Len(data)
    /\ inOrder => \A k \in 1..Len(got) :
          IF sent[k].kind = "int64" THEN IsPrefix(Expected(sent[k]), got[k])
          ELSE got[k] = Expected(sent[k])
    /\ phase = "read" /\ inOrder /\ buf = data =>
          IF Len(got) = Len(sent) THEN cur = Len(buf)
          ELSE \A r \in Reads(sent[Len(got) + 1].kind, 2 * Top, 0) : r.ok

\* A length takes at most one byte more than an integer and is decoded to what
\* it was; the checksum is the complement of the sum modulo the largest double
\* byte, so that it completes the packet's sum.
Numbers ==
    /\ \A v \in 0..(Word - 1) :
          LET e == write7BitEncoded[v] IN Len(e) <= IntSize + 1 /\ read7BitEncoded(e) = v
    /\ Len(data) % 2 = 0 =>
          LET c == checksum(data)
              M == (Top + 1) * (Top + 1)
          IN checksum(data \o <<c % (Top + 1), c \div (Top + 1)>>) = 0

StreamCorrect == NotPastEnd /\ OwnBytesOnly /\ RoundTrip /\ Numbers
=============================================================================
