---------------------------- MODULE OpenPrintTag ----------------------------
(***************************************************************************)
(* A variant's OpenPrintTag: how its fields are found, encoded and written *)
(* on a tag by the browser (rfid-openprinttag/src, the route that encodes  *)
(* and web/app/rfid/rfid-form.tsx).                                        *)
(*                                                                         *)
(* What is encoded is a sequence of bytes, but that a text, after the bytes*)
(* that say how long it is, is one element: what it says and its length.   *)
(***************************************************************************)
EXTENDS Integers, Sequences, SequencesExt

CONSTANTS
    Tagged,            \* variants
    NameLengths,       \* lengths of a brand's and a filament's names, in characters
    Degrees,           \* temperatures a maker may give
    NoTag,
    MaxTags            \* bound: tags asked for

ASSUME TagParameters ==
    /\ NameLengths \subseteq Nat \ {0} /\ Degrees \subseteq Nat /\ MaxTags \in Nat

VARIABLES
    article,           \* by variant, what the catalogue says of it
    held,              \* what the tag holds
    encoding,          \* the request under way: its variant, and what the server answered
    result,            \* what the page shows: the fields, for the variant
    requests           \* tags asked for so far

tagVars == <<article, held, encoding, result, requests>>

\* In characters of one, two or three bytes.
TagNames == [length : NameLengths, wide : 1..3]
Articles == [brand : TagNames, name : TagNames, ofd : BOOLEAN, hot : Degrees \cup {NoTag},
             thick : {"1.75", "3"}]
-----------------------------------------------------------------------------
(* encode.ts                                                               *)

\* Mutant of MajorHead: a value of 24 is taken for a short one.
MajorHead_Off(type, value) ==
    IF value <= 24 THEN <<type * 32 + value>>
    ELSE IF value <= 255 THEN <<type * 32 + 24, value>>
    ELSE IF value <= 65535 THEN <<type * 32 + 25, value \div 256, value % 256>>
    ELSE <<type * 32 + 26, value \div 16777216, (value \div 65536) % 256,
           (value \div 256) % 256, value % 256>>

MajorHead(type, value) ==
    IF value < 24 THEN <<type * 32 + value>>
    ELSE IF value <= 255 THEN <<type * 32 + 24, value>>
    ELSE IF value <= 65535 THEN <<type * 32 + 25, value \div 256, value % 256>>
    ELSE <<type * 32 + 26, value \div 16777216, (value \div 65536) % 256,
           (value \div 256) % 256, value % 256>>

Bytes(numbers) == [i \in DOMAIN numbers |-> [kind |-> "byte", is |-> numbers[i]]]
Major(type, value) == Bytes(MajorHead(type, value))

Text(is, bytes) == [kind |-> "text", is |-> is, bytes |-> bytes]
Number(n) == [kind |-> "number", is |-> n]
CborNull == [kind |-> "null"]
\* A number that is no integer takes eight bytes.
Float(x) == [kind |-> "float", is |-> x]
Texts(of) == [kind |-> "list", of |-> of]

Plain(v) ==
    CASE v.kind = "text" -> Major(3, v.bytes) \o <<v>>
      [] v.kind = "number" -> IF v.is >= 0 THEN Major(0, v.is) ELSE Major(1, -v.is - 1)
      [] v.kind = "null" -> Bytes(<<246>>)
      [] v.kind = "float" -> Bytes(<<251>>) \o <<v>>

Cbor(v) ==
    IF v.kind # "list" THEN Plain(v)
    ELSE Major(4, Len(v.of)) \o FlattenSeq([i \in DOMAIN v.of |-> Plain(v.of[i])])

\* A map of texts to values: those that are left out do not count.
EncodePayload(fields) ==
    Major(5, Len(fields))
        \o FlattenSeq([i \in DOMAIN fields |->
                          Plain(fields[i].key) \o Cbor(fields[i].value)])

Takes(b) ==
    CASE b.kind = "byte" -> 1 [] b.kind = "text" -> b.bytes [] b.kind = "float" -> 8

Size(bytes) ==
    LET upTo[n \in 0..Len(bytes)] == IF n = 0 THEN 0 ELSE upTo[n - 1] + Takes(bytes[n])
    IN  upTo[Len(bytes)]

MimeType == Text(<<"type", "application/vnd.openprinttag">>, 28)

\* One record, short if the payload's length fits a byte.
BuildNdefRecord(payload) ==
    LET n == Size(payload) IN
    Bytes(IF n <= 255 THEN <<210, 28, n>>
          ELSE <<194, 28, n \div 16777216, (n \div 65536) % 256, (n \div 256) % 256, n % 256>>)
        \o <<MimeType>> \o payload
-----------------------------------------------------------------------------
(* map.ts and uuid.ts: the fields, in the order of their names.  Those that *)
(* hold a constant, or a number or a text like another's, are left out.     *)

Slice(name, most) == IF name.length > most THEN [name EXCEPT !.length = most] ELSE name
Said(name) == Text(<<"name", name>>, name.length * name.wide)

\* The maker's and the product's own uuid, or those that are derived from names
\* in full: two names have one uuid only if they are the same.
BrandUuid(a) == IF a.ofd THEN <<"of maker", a.brand>> ELSE <<"derived", a.brand>>
MaterialUuid(a) ==
    IF a.ofd THEN <<"of product", a.brand, a.name>> ELSE <<"derived", BrandUuid(a), a.name>>

NoteLengths == <<73, 79, 107, 37, 41>>
Notes == Texts([i \in 1..5 |-> Text(<<"note", i>>, NoteLengths[i])])

Field(key, bytes, value) == [key |-> Text(<<key>>, bytes), value |-> value]

MapCatalogToFields(v, a) ==
    LET degrees == IF a.hot = NoTag THEN CborNull ELSE Number(a.hot)
        uuid == Text(<<"variant", v>>, 36)
    IN  << Field("brand_name", 10, Said(Slice(a.brand, 31))),
           Field("brand_uuid", 10, Text(BrandUuid(a), 36)),
           Field("filament_diameter", 17,
                 IF a.thick = "3" THEN Number(3) ELSE Float(<<a.thick>>)),
           Field("material_name", 13, Said(Slice(a.name, 63))),
           Field("material_uuid", 13, Text(MaterialUuid(a), 36)),
           Field("max_print_temperature", 21, degrees),
           Field("notes", 5, Notes) >>
        \o (IF a.ofd THEN <<Field("ofd_variant_uuid", 16, uuid)>> ELSE << >>)
        \o <<Field("openfilament_variant_uuid", 25, uuid)>>

Encoded(v) ==
    LET fields == MapCatalogToFields(v, article[v])
        payload == EncodePayload(fields)
    IN [fields |-> fields, payload |-> payload, ndef |-> BuildNdefRecord(payload)]
-----------------------------------------------------------------------------
(* The page, and the catalogue beside it.                                  *)

WriteOpenPrintTag(v) ==
    /\ encoding = NoTag /\ requests < MaxTags /\ requests' = requests + 1
    /\ encoding' = [variant |-> v, answer |-> NoTag] /\ result' = NoTag
    /\ UNCHANGED <<article, held>>

EncodeAnswered ==
    /\ encoding # NoTag /\ encoding.answer = NoTag
    /\ encoding' = [encoding EXCEPT !.answer = Encoded(encoding.variant)]
    /\ UNCHANGED <<article, held, result, requests>>

\* Web NFC writes a record of its own with the payload.
TagTaken ==
    /\ encoding # NoTag /\ encoding.answer # NoTag
    /\ held' = encoding.answer.payload
    /\ result' = [variant |-> encoding.variant, fields |-> encoding.answer.fields,
                  ndef |-> encoding.answer.ndef]
    /\ encoding' = NoTag /\ UNCHANGED <<article, requests>>

\* No answer, or no tag; the tag may have been left half written.
TagFails ==
    /\ encoding # NoTag /\ encoding' = NoTag
    /\ \/ held' = held
       \/ encoding.answer # NoTag /\ held' = NoTag
    /\ UNCHANGED <<article, result, requests>>

\* The catalogue learns another temperature.
ArticleChanges(v, degrees) ==
    /\ encoding # NoTag /\ article' = [article EXCEPT ![v].hot = degrees]
    /\ UNCHANGED <<held, encoding, result, requests>>

OpenTagInit ==
    /\ article \in [Tagged -> Articles]
    /\ held = NoTag /\ encoding = NoTag /\ result = NoTag /\ requests = 0

OpenTagNext ==
    \/ \E v \in Tagged : WriteOpenPrintTag(v) \/ \E d \in Degrees : ArticleChanges(v, d)
    \/ EncodeAnswered \/ TagTaken \/ TagFails

OpenTagSpec == OpenTagInit /\ [][OpenTagNext]_tagVars
-----------------------------------------------------------------------------
(* How the standards read it (RFC 8949, and NDEF's record layout).         *)

ReadNumbers(s) ==
    LET type == s[1] \div 32
        info == s[1] % 32
    IN  CASE info = 24 -> [type |-> type, value |-> s[2], takes |-> 2]
          [] info = 25 -> [type |-> type, value |-> s[2] * 256 + s[3], takes |-> 3]
          [] info = 26 -> [type |-> type, takes |-> 5,
                           value |-> ((s[2] * 256 + s[3]) * 256 + s[4]) * 256 + s[5]]
          [] OTHER -> [type |-> type, value |-> info, takes |-> 1]

\* A text where a byte should be is nothing that can be read.
Readable(s) == s # << >> /\ s[1].kind = "byte"
ReadHead(s) ==
    LET numbers == [i \in 1..5 |-> IF i <= Len(s) /\ s[i].kind = "byte" THEN s[i].is ELSE 0]
        h == ReadNumbers(numbers)
    IN  [type |-> h.type, value |-> h.value, rest |-> SubSeq(s, h.takes + 1, Len(s))]

\* What cannot be read.
Unread == [kind |-> "unread"]

\* A text is read if what follows takes just the bytes that were said.
ReadPlain(s) ==
    IF ~Readable(s) THEN [item |-> Unread, rest |-> << >>]
    ELSE LET h == ReadHead(s)
             next == IF h.rest = << >> THEN Unread ELSE h.rest[1]
             after == IF h.rest = << >> THEN << >> ELSE Tail(h.rest)
         IN  CASE h.type = 0 -> [item |-> Number(h.value), rest |-> h.rest]
               [] h.type = 1 -> [item |-> Number(-1 - h.value), rest |-> h.rest]
               [] h.type = 3 /\ next.kind = "text" ->
                    [item |-> IF next.bytes = h.value THEN next ELSE Unread, rest |-> after]
               [] h.type = 7 /\ h.value = 22 -> [item |-> CborNull, rest |-> h.rest]
               [] h.type = 7 /\ h.value = 27 -> [item |-> next, rest |-> after]
               [] OTHER -> [item |-> Unread, rest |-> << >>]

\* One after the other: what was read, and what is left.
Further(before, next) == [read |-> Append(before.read, next.item), rest |-> next.rest]
AfterText(before) == Further(before, ReadPlain(before.rest))

ReadTexts(s, n) ==
    LET upTo[k \in 0..n] ==
            IF k = 0 THEN [read |-> << >>, rest |-> s]
            ELSE AfterText(upTo[k - 1])
    IN  upTo[n]

ListOf(texts) == [item |-> Texts(texts.read), rest |-> texts.rest]
ReadTextList(h) == ListOf(ReadTexts(h.rest, h.value))
ReadItem(s) ==
    IF Readable(s) /\ ReadHead(s).type = 4 THEN ReadTextList(ReadHead(s)) ELSE ReadPlain(s)

FieldOf(key, value) == [item |-> [key |-> key.item, value |-> value.item], rest |-> value.rest]
Keyed(key) == FieldOf(key, ReadItem(key.rest))
ReadField(s) == Keyed(ReadPlain(s))
AfterField(before) == Further(before, ReadField(before.rest))

ReadFields(s, n) ==
    LET upTo[k \in 0..n] ==
            IF k = 0 THEN [read |-> << >>, rest |-> s]
            ELSE AfterField(upTo[k - 1])
    IN  upTo[n]

ReadPayload(s) == LET h == ReadHead(s) IN ReadFields(h.rest, h.value)

\* The payload of a single record, and the length that was said of it.
ReadRecord(s) ==
    IF s[1].is = 210 THEN [length |-> s[3].is, payload |-> SubSeq(s, 5, Len(s))]
    ELSE [length |-> ((s[3].is * 256 + s[4].is) * 256 + s[5].is) * 256 + s[6].is,
          payload |-> SubSeq(s, 8, Len(s))]
-----------------------------------------------------------------------------
\* What a reader that knows the standards takes from a tag that was reported as
\* written are the fields the page shows, and the record that is offered beside it
\* holds the same; whatever the names' lengths and the temperatures.
TagReadsBack ==
    result # NoTag =>
        /\ ReadPayload(held) = [read |-> result.fields, rest |-> << >>]
        /\ LET r == ReadRecord(result.ndef) IN r.payload = held /\ r.length = Size(held)

\* The tag that is shown is of the variant it was asked for, in names of no other
\* than one; where the colours of a product share a material's uuid, the variant's
\* own tells them apart.
TagNamesVariant ==
    result # NoTag =>
        /\ \E f \in Range(result.fields) :
              f.key.is = <<"openfilament_variant_uuid">> /\ f.value.is = <<"variant", result.variant>>
        /\ \A f \in Range(result.fields) :
              f.key.is = <<"ofd_variant_uuid">> => f.value.is = <<"variant", result.variant>>

\* What is said of a length is read alike, at every step of the encoding's.
HeadsReadBack ==
    \A value \in {0, 23, 24, 255, 256, 65535, 65536, 16777216, 2147483647}, type \in 0..6 :
        ReadHead(Major(type, value)) = [type |-> type, value |-> value, rest |-> << >>]

OpenTagsAreSound == TagReadsBack /\ TagNamesVariant /\ HeadsReadBack
=============================================================================
