----------------------------- MODULE Transform -----------------------------
(***************************************************************************)
(* dispatch_data_create_with_transform (transform.c): Base32, Base64 and   *)
(* the UTF encodings of a data object, which is a sequence of regions (the *)
(* non-empty buffers dispatch_data_apply visits).  A character of a Base32 *)
(* or Base64 text is its value in the decode table (Bad and Pad are the    *)
(* table's -1 and -2); everything else is a byte.  The host is             *)
(* little-endian.  malloc never fails.                                     *)
(***************************************************************************)
EXTENDS Integers, Sequences, SequencesExt

CONSTANTS
    Contents,     \* records [kind |-> "binary" or "text", of |-> bytes or code points]
    MaxCuts,      \* regions a data object is cut into, less one
    MallocMax     \* BUFFER_MALLOC_MAX

VARIABLES
    content,      \* what the data stands for
    data,         \* the data object: its regions
    format,       \* the format it is in
    refused,      \* the last conversion that returned NULL, or <<>>
    regular       \* no data converted so far was cut irregularly, or had four bytes left

transformVars == <<content, data, format, refused, regular>>

Bad == -1
Pad == -2
Blank == -3                          \* '\n', '\t' or ' '
Null == <<<<-4>>>>                   \* the NULL result
Undefined == <<<<-5>>>>              \* a write or a read outside a buffer

Formats == {"none", "base32", "base64", "utf8", "utf16le", "utf16be", "any"}

Size(d) == Len(FlattenSeq(d))

OffsetOf(d, r) == Size(SubSeq(d, 1, r - 1))

Bits(v, w) == [i \in 1..w |-> (v \div 2^(w - i)) % 2]

Value(bits) == FoldLeft(LAMBDA v, b: 2 * v + b, 0, bits)

Trailing(s, n) == SubSeq(s, IF Len(s) > n THEN Len(s) - n + 1 ELSE 1, Len(s))

NonEmpty(s) == IF s = <<>> THEN <<>> ELSE <<s>>

(* The bytes at offset, or <<>> if the data is too short.                  *)
SubrangeMap(d, offset, size) ==
    IF offset + size > Size(d) THEN <<>> ELSE SubSeq(FlattenSeq(d), offset + 1, offset + size)

----------------------------------------------------------------------------
(* base32 and base64: a character holds Width bits, a group of Chars       *)
(* characters holds Group bytes.                                           *)
Width(base) == IF base = 32 THEN 5 ELSE 6
Chars(base) == IF base = 32 THEN 8 ELSE 4
Group(base) == IF base = 32 THEN 5 ELSE 3

DropBase64(pad) == pad

DropBase32(pad) == CASE pad = 1 -> 1 [] pad = 3 -> 2 [] pad = 4 -> 3 [] pad = 6 -> 4 [] OTHER -> 0

Drop(base, pad) == IF base = 32 THEN DropBase32(pad) ELSE DropBase64(pad)

(* One character: w bits go into x and a full group of chars comes out.    *)
DecodeChar(w, chars, s, c) ==
    IF c = Blank \/ ~s.ok THEN s
    ELSE IF c = Bad THEN [s EXCEPT !.ok = FALSE]
    ELSE LET x     == Trailing(s.x \o Bits(IF c = Pad THEN 0 ELSE c, w), w * chars)
             full  == (s.count + 1) % chars = 0
             group == [k \in 1..(w * chars) \div 8 |-> Value(SubSeq(x, 8 * k - 7, 8 * k))]
         IN [s EXCEPT !.x = x, !.count = @ + 1,
                      !.pad = IF c = Pad THEN @ + 1 ELSE @,
                      !.dest = IF full THEN @ \o group ELSE @]

(* The block of _dispatch_transform_from_base32/64 for one region: dest is *)
(* sized for the region alone, pad counts from the first region on.        *)
DecodeRegion(base, s, region) ==
    LET t     == FoldLeft(LAMBDA u, c: DecodeChar(Width(base), Chars(base), u, c),
                          [s EXCEPT !.dest = <<>>], region)
        final == Len(t.dest) - Drop(base, t.pad)
    IN IF ~t.ok \/ t.rv = Undefined THEN t
       ELSE IF Len(t.dest) > (Len(region) * Width(base)) \div 8 \/ final < 0
            THEN [t EXCEPT !.rv = Undefined]
       ELSE [t EXCEPT !.rv = @ \o NonEmpty(SubSeq(t.dest, 1, final))]

Decoded(s) == IF s.ok THEN s.rv ELSE Null

FromBase(d, base) ==
    Decoded(FoldLeft(LAMBDA s, r: DecodeRegion(base, s, r),
                     [x |-> <<>>, count |-> 0, pad |-> 0, dest |-> <<>>, rv |-> <<>>, ok |-> TRUE], d))

FromBase32(d) == FromBase(d, 32)

FromBase64(d) == FromBase(d, 64)

ChunksBase32(k, last, curr) ==
    CASE k = 0 -> <<curr \div 8>>
      [] k = 1 -> <<(last * 4 + curr \div 64) % 32, (curr \div 2) % 32>>
      [] k = 2 -> <<(last * 16 + curr \div 16) % 32>>
      [] k = 3 -> <<(last * 2 + curr \div 128) % 32, (curr \div 4) % 32>>
      [] k = 4 -> <<(last * 8 + curr \div 32) % 32, curr % 32>>

(* The last case takes bits 4 and 3 of the byte where it wants 1 and 0.    *)
TailBase32(k, byte) ==
    CASE k = 0 -> <<>>
      [] k = 1 -> <<(byte * 4) % 32, Pad, Pad, Pad, Pad, Pad, Pad>>
      [] k = 2 -> <<(byte * 16) % 32, Pad, Pad, Pad, Pad>>
      [] k = 3 -> <<(byte * 2) % 32, Pad, Pad, Pad>>
      [] k = 4 -> <<((byte \div 8) % 4) * 8, Pad>>

\* Bug: the wrong bits of the last byte of a group.
ChunksBase64Bug(k, last, curr) ==
    CASE k = 0 -> <<curr \div 4>>
      [] k = 1 -> <<(last * 16 + curr \div 16) % 64>>
      [] k = 2 -> <<(last * 4 + curr \div 16) % 64, curr % 64>>

ChunksBase64(k, last, curr) ==
    CASE k = 0 -> <<curr \div 4>>
      [] k = 1 -> <<(last * 16 + curr \div 16) % 64>>
      [] k = 2 -> <<(last * 4 + curr \div 64) % 64, curr % 64>>

TailBase64(k, byte) ==
    CASE k = 0 -> <<>>
      [] k = 1 -> <<(byte * 16) % 64, Pad, Pad>>
      [] k = 2 -> <<(byte * 4) % 64, Pad>>

Chunks(base, k, last, curr) ==
    IF base = 32 THEN ChunksBase32(k, last, curr) ELSE ChunksBase64(k, last, curr)

Rest(base, k, byte) == IF base = 32 THEN TailBase32(k, byte) ELSE TailBase64(k, byte)

(* The block of _dispatch_transform_to_base32/64 for region r; the byte    *)
(* before the region is mapped from the whole data.                        *)
EncodeRegion(d, r, base) ==
    LET bytes  == d[r]
        offset == OffsetOf(d, r)
        size   == Len(bytes)
        At(i)  == LET k    == (offset + i - 1) % Group(base)
                      last == IF k = 0 THEN 0
                              ELSE IF i = 1 THEN SubrangeMap(d, offset - 1, 1)[1]
                              ELSE bytes[i - 1]
                  IN Chunks(base, k, last, bytes[i])
    IN FlattenSeq([i \in 1..size |-> At(i)])
         \o IF offset + size = Size(d)
              THEN Rest(base, (offset + size) % Group(base), bytes[size]) ELSE <<>>

ToBase(d, base) ==
    LET size     == ((Size(d) + Group(base) - 1) * Chars(base)) \div Group(base)
        destSize == size - (size % Chars(base))
        out      == FlattenSeq([r \in 1..Len(d) |-> EncodeRegion(d, r, base)])
    IN IF d = <<>> THEN <<>> ELSE IF Len(out) = destSize THEN <<out>> ELSE Undefined

ToBase32(d) == ToBase(d, 32)

ToBase64(d) == ToBase(d, 64)

----------------------------------------------------------------------------
(* The UTF encodings                                                       *)

NewBuffer == [data |-> <<>>, written |-> <<>>, size |-> 0]

(* What the blocks share between regions, and what it comes to.            *)
Fresh == [skip |-> 0, buffer |-> NewBuffer, ok |-> TRUE, bad |-> FALSE]

Outcome(s) == IF s.bad THEN Undefined ELSE IF s.ok THEN s.buffer.data ELSE Null

(* _dispatch_transform_buffer_new, which refuses too large a buffer        *)
BufferNew(s, required, size) ==
    LET b == s.buffer IN
    IF required = 0 \/ b.size - Len(b.written) < required
    THEN [s EXCEPT !.buffer = [data |-> b.data \o NonEmpty(b.written), written |-> <<>>,
                               size |-> required + size],
                   !.ok = @ /\ required + size <= MallocMax]
    ELSE s

Write(s, required, next, bytes) ==
    LET t == BufferNew(s, required, next)
    IN IF t.ok THEN [t EXCEPT !.buffer.written = @ \o bytes] ELSE t

Unit(order, b) == IF order = "utf16le" THEN b[1] + 256 * b[2] ELSE 256 * b[1] + b[2]

UnitBytes(order, x) == IF order = "utf16le" THEN <<x % 256, x \div 256>> ELSE <<x \div 256, x % 256>>

Utf8Length(byte) ==
    CASE byte < 128 -> 1
      [] byte \in 192..223 -> 2
      [] byte \in 224..239 -> 3
      [] byte \in 240..247 -> 4
      [] OTHER -> 0

ReadUtf8Sequence(bytes) ==
    LET n == Utf8Length(bytes[1])
    IN FoldLeft(LAMBDA wch, b: 64 * wch + (b % 64),
                bytes[1] % (IF n = 1 THEN 128 ELSE 2^(7 - n)), SubSeq(bytes, 2, n))

(* What to_utf16 does with a character: the surrogates but the last one    *)
(* are refused.                                                            *)
EmitUtf16(s, order, wch, next) ==
    IF wch >= 55296 /\ wch < 57343 THEN [s EXCEPT !.ok = FALSE]
    ELSE IF wch >= 65536
    THEN LET w == wch - 65536 IN
         Write(s, 4, next, UnitBytes(order, ((w \div 1024) % 1024) + 55296)
                             \o UnitBytes(order, (w % 1024) + 56320))
    ELSE Write(s, 2, next, UnitBytes(order, wch))

(* The loop of to_utf16 from position i of src, which starts skip bytes    *)
(* into the region while offset is the region's own.                       *)
RECURSIVE Utf8Loop(_, _, _, _, _, _)
Utf8Loop(d, order, offset, src, i, s) ==
    IF ~s.ok \/ s.bad \/ i >= Len(src) THEN s
    ELSE LET size == Len(src)
             n    == Utf8Length(src[i + 1])
             over == n + i > size
             seq  == IF over THEN SubrangeMap(d, offset + i, n) ELSE SubSeq(src, i + 1, i + n)
             next == IF over THEN size ELSE i + n
             t    == IF over THEN [s EXCEPT !.skip = @ + n - (size - i)] ELSE s
         IN IF n = 0 \/ seq = <<>> THEN [s EXCEPT !.ok = FALSE]
            ELSE IF Utf8Length(seq[1]) \notin 1..n THEN [s EXCEPT !.bad = TRUE]
            ELSE Utf8Loop(d, order, offset, src, next,
                          EmitUtf16(t, order, ReadUtf8Sequence(seq), 2 * (size - next)))

(* The block of _dispatch_transform_to_utf16 for region r.                 *)
ToUtf16Region(d, order, s, r) ==
    LET bytes  == d[r]
        size   == Len(bytes)
        s0     == IF r = 1 THEN Write(s, 2 + 2 * size, 0, UnitBytes(order, 65279)) ELSE s
        looped == Utf8Loop(d, order, OffsetOf(d, r), SubSeq(bytes, s0.skip + 1, size), 0,
                           [s0 EXCEPT !.skip = 0])
    IN IF ~s0.ok \/ s.bad THEN s0
       ELSE IF s0.skip >= size THEN [s0 EXCEPT !.skip = @ - size]
       ELSE BufferNew(looped, 0, 0)

ToUtf16(d, order) == Outcome(FoldLeftDomain(LAMBDA s, r: ToUtf16Region(d, order, s, r), Fresh, d))

EmitUtf8(s, wch, next) ==
    LET low(k) == 128 + ((wch \div 64^k) % 64)
    IN CASE wch < 128   -> Write(s, 1, next, <<wch>>)
         [] wch \in 128..2047 -> Write(s, 2, next, <<192 + wch \div 64, low(0)>>)
         [] wch \in 2048..65535 -> Write(s, 3, next, <<224 + wch \div 4096, low(1), low(0)>>)
         [] OTHER -> Write(s, 4, next, <<240 + wch \div 262144, low(2), low(1), low(0)>>)

(* The loop of from_utf16 at unit i of src.  The unit that an odd region   *)
(* cuts is mapped from the whole data, and eight bytes are read from the   *)
(* map of two; as the second of a pair it is read past the end of the      *)
(* region.                                                                 *)
RECURSIVE Utf16Loop(_, _, _, _, _, _)
Utf16Loop(d, order, offset, src, i, s) ==
    LET size    == Len(src)
        max     == (size + 1) \div 2
        odd(j)  == j = max - 1 /\ size % 2 = 1
        ch      == Unit(order, SubSeq(src, 2 * i + 1, 2 * i + 2))
        far     == i + 1 >= max
        units2  == IF far THEN SubrangeMap(d, offset + 2 * (i + 1), 2)
                          ELSE SubSeq(src, 2 * i + 3, 2 * i + 4)
        t       == [s EXCEPT !.skip = @ + IF far THEN 2 ELSE 0]
    IN IF ~s.ok \/ s.bad \/ i >= max THEN s
       ELSE IF odd(i)
       THEN IF SubrangeMap(d, offset + 2 * i, 2) = <<>> THEN [s EXCEPT !.ok = FALSE]
                                                     ELSE [s EXCEPT !.bad = TRUE]
       ELSE IF ch = 65534 /\ offset = 0 /\ i = 0 THEN [s EXCEPT !.ok = FALSE]
       ELSE IF ch = 65279 /\ offset = 0 /\ i = 0 THEN Utf16Loop(d, order, offset, src, i + 1, s)
       ELSE IF ch \in 55296..56319
       THEN IF odd(i + 1) THEN [s EXCEPT !.bad = TRUE]
            ELSE IF units2 = <<>> \/ Unit(order, units2) \notin 56320..57343 THEN [s EXCEPT !.ok = FALSE]
            ELSE Utf16Loop(d, order, offset, src, i + 2,
                           EmitUtf8(t, (ch - 55296) * 1024 + (Unit(order, units2) % 1024) + 65536,
                                    2 * (max - (i + 1))))
       ELSE IF ch \in 56320..57343 THEN [s EXCEPT !.ok = FALSE]
       ELSE Utf16Loop(d, order, offset, src, i + 1, EmitUtf8(s, ch, 2 * (max - i)))

(* The block of _dispatch_transform_from_utf16 for region r.               *)
FromUtf16Region(d, order, s, r) ==
    LET size   == Len(d[r])
        s0     == IF r = 1 THEN BufferNew(s, (2 * size) \div 3, 0) ELSE s
        looped == Utf16Loop(d, order, OffsetOf(d, r), SubSeq(d[r], s0.skip + 1, size), 0,
                            [s0 EXCEPT !.skip = 0])
    IN IF ~s0.ok \/ s.bad THEN s0
       ELSE IF s0.skip >= size THEN [s0 EXCEPT !.skip = @ - size]
       ELSE BufferNew(looped, 0, 0)

FromUtf16(d, order) == Outcome(FoldLeftDomain(LAMBDA s, r: FromUtf16Region(d, order, s, r), Fresh, d))

----------------------------------------------------------------------------
(* _dispatch_transform_detect_utf                                          *)
DetectUtf(d) ==
    LET p == SubrangeMap(d, 0, 2)
    IN CASE p = <<>> -> "unknown"
         [] p = <<255, 254>> -> "utf16le"
         [] p = <<254, 255>> -> "utf16be"
         [] OTHER -> "utf8"

(* The input_mask and the output_mask of a format are the same.            *)
Mask(f) ==
    CASE f = "none" -> Formats
      [] f \in {"base32", "base64"} -> {"none", "base32", "base64"}
      [] f \in {"utf8", "utf16le", "utf16be"} -> {"utf8", "utf16le", "utf16be"}
      [] OTHER -> {}

DecodeWith(f, d) ==
    CASE f = "base32" -> FromBase32(d)
      [] f = "base64" -> FromBase64(d)
      [] f \in {"utf16le", "utf16be"} -> FromUtf16(d, f)
      [] OTHER -> d

EncodeWith(f, d) ==
    CASE f = "base32" -> ToBase32(d)
      [] f = "base64" -> ToBase64(d)
      [] f \in {"utf16le", "utf16be"} -> ToUtf16(d, f)
      [] OTHER -> d

EncodeTemp(f, temp) == IF temp \in {Null, Undefined} THEN temp ELSE EncodeWith(f, temp)

TransformFrom(d, from, output) ==
    IF from \notin Mask(output) \/ output \notin Mask(from) THEN Null
    ELSE IF d = <<>> THEN d ELSE EncodeTemp(output, DecodeWith(from, d))

CreateWithTransform(d, input, output) ==
    TransformFrom(d, IF input = "any" THEN DetectUtf(d) ELSE input, output)

----------------------------------------------------------------------------
(* What the formats are, from RFC 4648 and Unicode, for the properties.    *)

BaseOf(bytes, w, chars) ==
    LET bits  == FlattenSeq([i \in DOMAIN bytes |-> Bits(bytes[i], 8)])
        n     == (Len(bits) + w - 1) \div w
        wide  == bits \o [i \in 1..(n * w - Len(bits)) |-> 0]
        total == ((n + chars - 1) \div chars) * chars
    IN [k \in 1..total |-> IF k <= n THEN Value(SubSeq(wide, w * (k - 1) + 1, w * k)) ELSE Pad]

Utf8Of(c) ==
    LET n == CASE c < 128 -> 1 [] c \in 128..2047 -> 2 [] c \in 2048..65535 -> 3 [] OTHER -> 4
        bits == Bits(c, 6 * n)
        lead == [i \in 1..n |-> 1] \o <<0>>
    IN IF n = 1 THEN <<c>>
       ELSE [k \in 1..n |-> IF k = 1 THEN Value(lead \o SubSeq(bits, n, 6)) ELSE
                               Value(<<1, 0>> \o SubSeq(bits, 6 * k - 5, 6 * k))]

Utf16Of(c) ==
    IF c < 65536 THEN <<c>>
    ELSE LET b == Bits(c - 65536, 20)
         IN <<Value(<<1, 1, 0, 1, 1, 0>> \o SubSeq(b, 1, 10)), Value(<<1, 1, 0, 1, 1, 1>> \o SubSeq(b, 11, 20))>>

Surrogate(c) == c \in 55296..57343

(* The bytes that stand for the content c in format f, or NULL's.          *)
Expected(c, f) ==
    LET each(Op(_)) == FlattenSeq([i \in DOMAIN c.of |-> Op(c.of[i])])
    IN CASE c.kind = "binary" /\ f = "none" -> c.of
         [] c.kind = "binary" /\ f = "base32" -> BaseOf(c.of, 5, 8)
         [] c.kind = "binary" /\ f = "base64" -> BaseOf(c.of, 6, 4)
         [] c.kind = "text" /\ f = "utf8" -> each(Utf8Of)
         [] /\ c.kind = "text" /\ f \in {"utf16le", "utf16be"}
            /\ \A i \in DOMAIN c.of: ~Surrogate(c.of[i])
              -> FlattenSeq([i \in 1..Len(<<65279>> \o each(Utf16Of)) |->
                               UnitBytes(f, (<<65279>> \o each(Utf16Of))[i])])
         [] OTHER -> Null[1]

(* Where the units of a format end: the offsets at which cutting the data  *)
(* cuts no character.                                                      *)
Ends(c, f) ==
    LET parts == [i \in DOMAIN c.of |->
                    IF f = "utf8" THEN Len(Utf8Of(c.of[i])) ELSE 2 * Len(Utf16Of(c.of[i]))]
        bom   == IF f = "utf8" THEN 0 ELSE 2
    IN {0} \cup {bom + FoldLeft(LAMBDA a, b: a + b, 0, SubSeq(parts, 1, i)): i \in 0..Len(parts)}

(* Cuts the decoders are indifferent to.  Base32 and Base64: every region  *)
(* is whole groups.  UTF: no region that starts inside a character ends    *)
(* inside another one, and UTF-16 is not cut inside a unit.                *)
Regular(c, f, d) ==
    LET cuts == {OffsetOf(d, r): r \in 2..Len(d)}
    IN CASE f \in {"base32", "base64"} ->
              \A r \in DOMAIN d: Len(SelectSeq(d[r], LAMBDA x: x # Blank)) % (IF f = "base32" THEN 8 ELSE 4) = 0
         [] f \in {"utf8", "utf16le", "utf16be"} ->
              /\ \A r \in 2..Len(d) - 1:
                   LET from == OffsetOf(d, r) to == OffsetOf(d, r + 1) ends == Ends(c, f)
                   IN from \in ends \/ to \in ends \/ ends \cap from..to = {}
              /\ f # "utf8" => \A x \in cuts: x % 2 = 0
         [] OTHER -> TRUE

----------------------------------------------------------------------------
Cut(bytes, at) == [r \in 1..Len(at) + 1 |->
    SubSeq(bytes, IF r = 1 THEN 1 ELSE at[r - 1] + 1, IF r > Len(at) THEN Len(bytes) ELSE at[r])]

Cuts(bytes) == {Cut(bytes, at): at \in
    {s \in UNION {[1..n -> 1..Len(bytes) - 1]: n \in 0..MaxCuts}: \A i, j \in DOMAIN s: i < j => s[i] < s[j]}}

Home(c) == IF c.kind = "binary" THEN "none" ELSE "utf8"

TransformInit ==
    /\ content \in Contents
    /\ format = Home(content)
    /\ data = NonEmpty(Expected(content, Home(content)))
    /\ refused = <<>> /\ regular = TRUE

(* The client joins subranges: the same bytes in other regions.            *)
Recut ==
    /\ regular /\ data # <<>>
    /\ data' \in Cuts(FlattenSeq(data))
    /\ refused' = <<>>
    /\ UNCHANGED <<content, format, regular>>

(* A line break in a Base32 or Base64 text.                                *)
Break ==
    /\ regular /\ format \in {"base32", "base64"} /\ data # <<>>
    /\ Blank \notin ToSet(FlattenSeq(data))
    /\ data' = [data EXCEPT ![1] = InsertAt(@, 2, Blank)]
    /\ refused' = <<>>
    /\ UNCHANGED <<content, format, regular>>

(* A character that is none of the alphabet in such a text.                *)
Garble ==
    /\ regular /\ format \in {"base32", "base64"} /\ data # <<>>
    /\ data' = [data EXCEPT ![1][1] = Bad]
    /\ content' = [kind |-> "malformed", of |-> <<>>]
    /\ refused' = <<>>
    /\ UNCHANGED <<format, regular>>

(* A Base32 group of four bytes, which is not encoded as RFC 4648 says: the *)
(* seventh digit takes the bits 3 and 4 of the last byte for its upper two. *)
FourLeft(c) == c.kind = "binary" /\ Len(c.of) % 5 = 4

Get(result, input, output) ==
    IF result = Null
    THEN refused' = <<input, output>> /\ UNCHANGED <<data, format>>
    ELSE refused' = <<>> /\ data' = result /\ format' = output

(* The client names the format, or has it detected.                        *)
Convert ==
    \E output \in Formats, input \in {format} \cup IF content.kind = "text" THEN {"any"} ELSE {}:
      /\ regular
      /\ regular' = (Regular(content, format, data) /\ ~(output = "base32" /\ FourLeft(content)))
      /\ Get(CreateWithTransform(data, input, output), input, output)
      /\ UNCHANGED content

TransformNext == Recut \/ Break \/ Garble \/ Convert

TransformSpec == TransformInit /\ [][TransformNext]_transformVars

----------------------------------------------------------------------------
(* The conversions that may be refused although there is a result: text    *)
(* whose encoding is to be detected in less than two bytes, which          *)
(* data_private.h says is UTF-8, and text that may need a buffer of more   *)
(* than BUFFER_MALLOC_MAX.                                                 *)
Unserved == \/ refused[1] = "any" /\ Size(data) < 2
            \/ content.kind = "text" /\ 2 * Size(data) + 4 > MallocMax

(* Through any chain of conversions and re-cuttings the data keeps         *)
(* standing for its content: its bytes are the ones RFC 4648 and Unicode   *)
(* give, however dispatch_data_create_with_transform met them, with two    *)
(* exceptions: data that was cut irregularly when it was decoded, and data *)
(* whose last Base32 group has four bytes, which data_private.h also       *)
(* promises in RFC 4648 format.  NULL is returned only where there is no   *)
(* result, or the conversion is one of Unserved.                           *)
TransformFaithful ==
    regular =>
      /\ \/ content.kind = "malformed"
         \/ SelectSeq(FlattenSeq(data), LAMBDA x: x # Blank) = Expected(content, format)
      /\ refused # <<>> => Expected(content, refused[2]) = Null[1] \/ Unserved
=============================================================================
