-------------------------------- MODULE Database -------------------------------
(***************************************************************************)
(* The format of the cachefile: the numbers, strings and records that      *)
(* class Database writes and reads (database/io.h, io.cc, io_corepkg.cc,   *)
(* io_header.cc), byte for byte.                                           *)
(*                                                                         *)
(* What is written is a sequence of items, each a number, a character or a *)
(* plain string.  The same items are either put into the file or counted:  *)
(* WRITE_COUNTER puts the number of bytes before the bytes.  A read takes  *)
(* the file and an offset, and returns what it found with the offset after *)
(* it; a read that fails has run into the end of the file.                 *)
(***************************************************************************)
EXTENDS Naturals, Sequences, FiniteSets, SequencesExt, FiniteSetsExt

CONSTANT
  Base       \* how many values a byte has (256 in the code)

ASSUME DatabaseAssumption == Base \in Nat /\ Base > 2

MAGICNUMCHAR == Base - 1
Byte == 0..MAGICNUMCHAR
max_type == 32      \* BasicPart::max_type
current == 39       \* DBHeader::current
magic == <<1, 2>>   \* DBHeader::magic, abbreviated

-------------------------------------------------------------------------------
(* What is written: a tree is a sequence of categories. The mask flags are
   written as a character and read as a number; they have few bits. *)

ByteString == Seq(Byte)
Part == [type : 0..(max_type - 1), content : ByteString]
Version ==
  [eapi : ByteString, maskflags : 0..(MAGICNUMCHAR - 1), propertiesFlags : Byte,
   restrictFlags : Nat, keywords : Seq(ByteString), parts : Seq(Part), slot : ByteString,
   overlay_key : Nat, iuse : Seq(ByteString), required_use : Seq(ByteString),
   depend : Seq(ByteString), rdepend : Seq(ByteString), pdepend : Seq(ByteString),
   bdepend : Seq(ByteString), idepend : Seq(ByteString), src_uri : ByteString]
Package ==
  [name : ByteString, desc : ByteString, homepage : ByteString, licenses : ByteString,
   versions : Seq(Version)]
Category == [name : ByteString, packages : Seq(Package)]
OverlayIdent == [path : ByteString, label : ByteString]
UseOptions == [depend : BOOLEAN, required_use : BOOLEAN, src_uri : BOOLEAN]

-------------------------------------------------------------------------------
(* Writing *)

Num(n) == [kind |-> "num", val |-> n]
Char(c) == [kind |-> "char", val |-> c]
Plain(s) == [kind |-> "plain", val |-> s]

(* t without its last i bytes, t >> (8 * i). *)
Shifted(t) ==
  LET shifted[i \in 0..t] == IF i = 0 THEN t ELSE shifted[i - 1] \div Base
  IN  shifted

(* How many bytes follow the first byte of t that is not 0. *)
LeadingDigit(t) ==
  CHOOSE n \in 0..t : Shifted(t)[n] < Base /\ (n > 0 => Shifted(t)[n - 1] >= Base)

(* A number below MAGICNUMCHAR is one byte. Any other number has one
   MAGICNUMCHAR for each byte but the first; a first byte MAGICNUMCHAR is
   flagged by a 0 after it. *)
write_num(t) ==
  IF t < Base
    THEN IF t = MAGICNUMCHAR THEN <<t, 0>> ELSE <<t>>
    ELSE LET count == LeadingDigit(t)
             d == Shifted(t)[count]
         IN  [i \in 1..count |-> MAGICNUMCHAR]
               \o (IF d = MAGICNUMCHAR THEN <<d, 0>> ELSE <<d>>)
               \o [i \in 1..count |-> Shifted(t)[count - i] % Base]

(* write_num while counting: how many bytes it would write. *)
counted_num(t) ==
  IF t < Base
    THEN IF t = MAGICNUMCHAR THEN 2 ELSE 1
    ELSE LET count == LeadingDigit(t)
         IN  (IF Shifted(t)[count] = MAGICNUMCHAR THEN 2 ELSE 1) + 2 * count

put(item) ==
  CASE item.kind = "num" -> write_num(item.val)
    [] item.kind = "char" -> <<item.val>>
    [] item.kind = "plain" -> item.val

counted(item) ==
  CASE item.kind = "num" -> counted_num(item.val)
    [] item.kind = "char" -> 1
    [] item.kind = "plain" -> Len(item.val)

Bytes(items) == FlattenSeq([i \in DOMAIN items |-> put(items[i])])

(* The counter while the items are counted. *)
counter(items) ==
  LET count[i \in 0..Len(items)] == IF i = 0 THEN 0 ELSE count[i - 1] + counted(items[i])
  IN  count[Len(items)]

WRITE_COUNTER(items) == <<Num(counter(items))>> \o items

WriteAll(write(_), s) == FlattenSeq([i \in DOMAIN s |-> write(s[i])])

write_string(s) == <<Num(Len(s)), Plain(s)>>

(* StringHash::get_index: a string that was not hashed is an internal error;
   here it gets an index that does not exist. *)
get_index(hash, s) ==
  IF s \in ToSet(hash) THEN (CHOOSE i \in DOMAIN hash : hash[i] = s) - 1 ELSE Len(hash)

write_hash_string(hash, s) == <<Num(get_index(hash, s))>>

write_hash_words(hash, words) ==
  <<Num(Len(words))>> \o WriteAll(LAMBDA w : write_hash_string(hash, w), words)

write_Part(part) ==
  <<Num(Len(part.content) * max_type + part.type)>>
    \o (IF part.content = <<>> THEN <<>> ELSE <<Plain(part.content)>>)

write_parts(parts) == <<Num(Len(parts))>> \o WriteAll(write_Part, parts)

DependFields == <<"depend", "rdepend", "pdepend", "bdepend", "idepend">>

write_depend(v, hdr) ==
  FlattenSeq([d \in DOMAIN DependFields |-> write_hash_words(hdr.depend_hash, v[DependFields[d]])])

(* What a version has always, and what it has only if the header says so. *)
write_version(v, hdr) ==
  FlattenSeq(<<write_hash_string(hdr.eapi_hash, v.eapi), <<Char(v.maskflags)>>,
               <<Char(v.propertiesFlags)>>, <<Num(v.restrictFlags)>>,
               write_hash_words(hdr.keywords_hash, v.keywords), write_parts(v.parts),
               write_hash_string(hdr.slot_hash, v.slot), <<Num(v.overlay_key)>>,
               write_hash_words(hdr.iuse_hash, v.iuse)>>)
    \o (IF hdr.use_required_use THEN write_hash_words(hdr.iuse_hash, v.required_use) ELSE <<>>)
    \o (IF hdr.use_depend THEN WRITE_COUNTER(write_depend(v, hdr)) ELSE <<>>)
    \o (IF hdr.use_src_uri THEN write_string(v.src_uri) ELSE <<>>)

write_versions(versions, hdr) ==
  <<Num(Len(versions))>> \o WriteAll(LAMBDA v : write_version(v, hdr), versions)

write_package_pure(pkg, hdr) ==
  FlattenSeq(<<write_string(pkg.name), write_string(pkg.desc), write_string(pkg.homepage),
               write_hash_string(hdr.license_hash, pkg.licenses)>>)
    \o write_versions(pkg.versions, hdr)

write_package(pkg, hdr) == WRITE_COUNTER(write_package_pure(pkg, hdr))

write_category_header(name, size) == write_string(name) \o <<Num(size)>>

write_category(c, hdr) ==
  write_category_header(c.name, Len(c.packages))
    \o WriteAll(LAMBDA p : write_package(p, hdr), c.packages)

write_packagetree(tree, hdr) == WriteAll(LAMBDA c : write_category(c, hdr), tree)

(* All packages of a tree, and all their versions. *)
Packages(tree) == UNION {ToSet(tree[c].packages) : c \in DOMAIN tree}
Versions(tree) == UNION {ToSet(p.versions) : p \in Packages(tree)}
WordsOf(tree, f) == UNION {ToSet(v[f]) : v \in Versions(tree)}

(* Every string of the tree that is written as an index gets one; the order is
   by frequency, which matters to nobody. *)
prep_header_hashs(tree, use) ==
  [use_depend |-> use.depend, use_src_uri |-> use.src_uri,
   use_required_use |-> use.required_use,
   eapi_hash |-> SetToSeq({v.eapi : v \in Versions(tree)}),
   license_hash |-> SetToSeq({p.licenses : p \in Packages(tree)}),
   keywords_hash |-> SetToSeq(WordsOf(tree, "keywords")),
   iuse_hash |-> SetToSeq(WordsOf(tree, "iuse") \cup
                          (IF use.required_use THEN WordsOf(tree, "required_use") ELSE {})),
   slot_hash |-> SetToSeq({v.slot : v \in Versions(tree)}),
   depend_hash |-> SetToSeq(IF use.depend THEN UNION {WordsOf(tree, DependFields[d]) :
                                                        d \in DOMAIN DependFields}
                                          ELSE {})]

write_hash(hash) == <<Num(Len(hash))>> \o WriteAll(write_string, hash)

SaveBitmask(hdr) ==
  (IF hdr.use_depend THEN 1 ELSE 0) + (IF hdr.use_required_use THEN 2 ELSE 0)
    + (IF hdr.use_src_uri THEN 4 ELSE 0)

write_overlay(o) == write_string(o.path) \o write_string(o.label)

write_overlays(overlays) == <<Num(Len(overlays))>> \o WriteAll(write_overlay, overlays)

write_header(hdr, size, overlays, world_sets) ==
  <<Plain(magic)>>
    \o FlattenSeq(<< <<Num(current)>>, <<Num(size)>>, write_overlays(overlays),
                     write_hash(hdr.eapi_hash), write_hash(hdr.license_hash),
                     write_hash(hdr.keywords_hash), write_hash(hdr.iuse_hash),
                     write_hash(hdr.slot_hash), write_hash(world_sets),
                     <<Num(SaveBitmask(hdr))>> >>)
    \o (IF hdr.use_depend THEN WRITE_COUNTER(write_hash(hdr.depend_hash)) ELSE <<>>)

-------------------------------------------------------------------------------
(* Reading *)

Got(p, v) == [ok |-> TRUE, pos |-> p, val |-> v]
ReadError(f, p) == [ok |-> FALSE, pos |-> IF p > Len(f) THEN p ELSE Len(f), val |-> <<>>]

(* Read first, then go on with what was read. *)
Then(r, next(_, _)) == IF r.ok THEN next(r.pos, r.val) ELSE r

read_num(f, p) ==
  LET ends == {q \in (p + 1)..(Len(f) - 1) : f[q + 1] # MAGICNUMCHAR} IN
  IF p >= Len(f) THEN ReadError(f, p)
  ELSE IF f[p + 1] # MAGICNUMCHAR THEN Got(p + 1, f[p + 1])
  ELSE IF ends = {} THEN ReadError(f, p)
  ELSE LET q == Min(ends)
           c == f[q + 1]
           toget == IF c = 0 THEN q - p - 1 ELSE q - p
           ret[i \in 0..toget] == IF i = 0 THEN (IF c = 0 THEN MAGICNUMCHAR ELSE c)
                                  ELSE ret[i - 1] * Base + f[q + 1 + i]
       IN  IF q + 1 + toget > Len(f) THEN ReadError(f, p)
           ELSE Got(q + 1 + toget, ret[toget])

readUChar(f, p) == IF p >= Len(f) THEN ReadError(f, p) ELSE Got(p + 1, f[p + 1])

read_string_plain(f, p, len) ==
  IF len = 0 THEN Got(p, <<>>)
  ELSE IF p + len > Len(f) THEN ReadError(f, p)
  ELSE Got(p + len, SubSeq(f, p + 1, p + len))

read_string(f, p) ==
  Then(read_num(f, p), LAMBDA q, len : read_string_plain(f, q, len))

(* skip_string, and a block of known length that is not wanted: a seek, which
   does not mind the end of the file. *)
skip_string(f, p) == Then(read_num(f, p), LAMBDA q, len : Got(q + len, <<>>))

(* An index beyond the hash means a corrupt database, and the program exits. *)
read_hash_string(hash, f, p) ==
  Then(read_num(f, p),
       LAMBDA q, i : IF i < Len(hash) THEN Got(q, hash[i + 1]) ELSE ReadError(f, q))

read_Part(f, p) ==
  Then(read_num(f, p),
       LAMBDA q, n : Then(read_string_plain(f, q, n \div max_type),
                          LAMBDA r, s : Got(r, [type |-> n % max_type, content |-> s])))

(* One read after another, the results in a sequence. A reader is a function
   from offsets to what is read there. *)
ReadEach(readers, p) ==
  LET after[i \in 0..Len(readers)] ==
        IF i = 0 THEN Got(p, <<>>)
        ELSE Then(after[i - 1], LAMBDA q, vals :
               Then(readers[i][q], LAMBDA r, v : Got(r, Append(vals, v))))
  IN  after[Len(readers)]

(* A number, and that many times the same read. *)
ReadMany(reader, f, p) ==
  Then(read_num(f, p), LAMBDA q, n : ReadEach([i \in 1..n |-> reader], q))

read_hash_words(hash, f, p) == ReadMany([q \in Nat |-> read_hash_string(hash, f, q)], f, p)

(* read_hash_words without a hash: the numbers are read and forgotten. *)
skip_hash_words(f, p) ==
  Then(ReadMany([q \in Nat |-> read_num(f, q)], f, p), LAMBDA q, words : Got(q, <<>>))

read_hash(f, p) == ReadMany([q \in Nat |-> read_string(f, q)], f, p)

read_overlay(f, p) ==
  Then(read_string(f, p), LAMBDA q, path :
  Then(read_string(f, q), LAMBDA r, label : Got(r, [path |-> path, label |-> label])))

(* A record is read field by field. A field is its name and how it is read. *)
ReadField(how, f, p) ==
  CASE how[1] = "num" -> read_num(f, p)
    [] how[1] = "char" -> readUChar(f, p)
    [] how[1] = "string" -> read_string(f, p)
    [] how[1] = "skip" -> skip_string(f, p)
    [] how[1] = "parts" -> ReadMany([q \in Nat |-> read_Part(f, q)], f, p)
    [] how[1] = "hash string" -> read_hash_string(how[2], f, p)
    [] how[1] = "hash words" -> read_hash_words(how[2], f, p)
    [] how[1] = "skip words" -> skip_hash_words(f, p)
    [] how[1] = "hash" -> read_hash(f, p)
    [] how[1] = "overlays" -> ReadMany([q \in Nat |-> read_overlay(f, q)], f, p)

ReadRecord(fields, f, p) ==
  Then(ReadEach([i \in DOMAIN fields |-> [q \in Nat |-> ReadField(fields[i][2], f, q)]], p),
       LAMBDA r, vals : Got(r, [n \in {fields[i][1] : i \in DOMAIN fields} |->
                                  vals[CHOOSE i \in DOMAIN fields : fields[i][1] = n]]))

(* Mutation of required_use_fields: unwanted words are not read over. *)
required_use_fields_unskipped(hdr, use) ==
  IF hdr.use_required_use /\ use.required_use
    THEN << <<"required_use", <<"hash words", hdr.iuse_hash>> >> >> ELSE <<>>

(* The optional fields depend on what the header says is there, and on what
   this run wants: what it does not want it reads over. *)
required_use_fields(hdr, use) ==
  IF ~ hdr.use_required_use THEN <<>>
  ELSE IF use.required_use THEN << <<"required_use", <<"hash words", hdr.iuse_hash>> >> >>
  ELSE << <<"required_use", <<"skip words">> >> >>

read_depend_fields(hdr, use) ==
  IF ~ hdr.use_depend THEN <<>>
  ELSE IF use.depend
    THEN << <<"dependencies", <<"num">> >> >>
           \o [i \in DOMAIN DependFields |->
                 <<DependFields[i], <<"hash words", hdr.depend_hash>> >>]
  ELSE << <<"dependencies", <<"skip">> >> >>

src_uri_fields(hdr, use) ==
  IF ~ hdr.use_src_uri THEN <<>>
  ELSE IF use.src_uri THEN << <<"src_uri", <<"string">> >> >>
  ELSE << <<"src_uri", <<"skip">> >> >>

version_fields(hdr, use) ==
  << <<"eapi", <<"hash string", hdr.eapi_hash>> >>, <<"maskflags", <<"num">> >>,
     <<"propertiesFlags", <<"char">> >>, <<"restrictFlags", <<"num">> >>,
     <<"keywords", <<"hash words", hdr.keywords_hash>> >>, <<"parts", <<"parts">> >>,
     <<"slot", <<"hash string", hdr.slot_hash>> >>, <<"overlay_key", <<"num">> >>,
     <<"iuse", <<"hash words", hdr.iuse_hash>> >> >>
  \o required_use_fields(hdr, use)
  \o read_depend_fields(hdr, use)
  \o src_uri_fields(hdr, use)

read_version(f, p, hdr, use) == ReadRecord(version_fields(hdr, use), f, p)

read_versions(f, p, hdr, use) ==
  ReadMany([q \in Nat |-> read_version(f, q, hdr, use)], f, p)

read_category_header(f, p) ==
  ReadRecord(<< <<"name", <<"string">> >>, <<"size", <<"num">> >> >>, f, p)

header_fields ==
  << <<"version", <<"num">> >>, <<"size", <<"num">> >>, <<"overlays", <<"overlays">> >>,
     <<"eapi_hash", <<"hash">> >>, <<"license_hash", <<"hash">> >>,
     <<"keywords_hash", <<"hash">> >>, <<"iuse_hash", <<"hash">> >>,
     <<"slot_hash", <<"hash">> >>, <<"world_sets", <<"hash">> >>,
     <<"bitmask", <<"num">> >> >>

HasBit(mask, bit) == (mask \div bit) % 2 = 1

(* read_header of a file in the current format. *)
read_header(f, use) ==
  Then(read_string_plain(f, 0, Len(magic)), LAMBDA p, m :
  Then(ReadRecord(header_fields, f, p), LAMBDA q, h :
    LET use_depend == HasBit(h.bitmask, 1)
        hash == IF ~ use_depend THEN Got(q, <<>>)
                ELSE IF use.depend
                  THEN Then(read_num(f, q), LAMBDA r, len : read_hash(f, r))
                  ELSE skip_string(f, q)
    IN  IF m # magic \/ h.version # current THEN ReadError(f, q)
        ELSE Then(hash, LAMBDA r, depend_hash :
               Got(r, [size |-> h.size, overlays |-> h.overlays,
                       eapi_hash |-> h.eapi_hash, license_hash |-> h.license_hash,
                       keywords_hash |-> h.keywords_hash, iuse_hash |-> h.iuse_hash,
                       slot_hash |-> h.slot_hash, world_sets |-> h.world_sets,
                       use_depend |-> use_depend,
                       use_required_use |-> HasBit(h.bitmask, 2),
                       use_src_uri |-> HasBit(h.bitmask, 4),
                       depend_hash |-> depend_hash]))))

================================================================================
