--------------------------- MODULE ValueConversion ----------------------------
(***************************************************************************)
(* What becomes of a Ruby value in a bin: hash2record on its way to the      *)
(* server, record2hash on its way back, and rb_copy_as_record, which scan    *)
(* and query put in between.  One record, the program that puts, gets,       *)
(* changes and appends, and other programs with other clients.               *)
(*                                                                           *)
(* A value is a pair of its type and its content.  The types of Ruby are     *)
(* int (T_FIXNUM), big (any type without a case, such as T_BIGNUM), str,     *)
(* sym, float, obj (an object, true or false), geo (GeoJson), data (another  *)
(* T_DATA, such as Time), nil, ary and hash, a sequence of pairs of a key    *)
(* and a value; those of C are int, str, dbl, bytes (of type AS_BYTES_RUBY), *)
(* blob (other bytes), geo, nil, null (no value), list and map, a set of     *)
(* such pairs.  What is recursive in the code is a function of the depth d   *)
(* that gives a function of the values nested no deeper than d.              *)
(***************************************************************************)
EXTENDS Integers, SequencesExt

CONSTANTS
  Half,      \* 2^62: a Fixnum is in -Half..Half-1, an integer of C twice that
  Names,     \* what strings and symbols may hold, the numbers in decimal among them
  Contents,  \* what other values may hold
  MaxDepth,  \* bound: how deep arrays, hashes, lists and maps are nested
  Hashes,    \* the hashes the program puts
  Changes,   \* the pairs it changes in a hash it has read
  Appended,  \* the values it appends to a list
  Foreign,   \* the values of C other programs write
  MaxList,   \* bound: the length of a list that is appended to
  NULL

VARIABLES
  stored,  \* the bins of the record
  given,   \* what the program has last put into each bin, NULL if others have written
           \* or nil was appended to it
  up       \* the program has not crashed

vars == <<stored, given, up>>

-----------------------------------------------------------------------------
(* Values *)

Nil == <<"nil", NULL>>

\* What is read at a pointer to nothing
Undefined == <<"undefined", NULL>>

\* A pointer to nothing
NoValue == <<"null", NULL>>

Fixnums == {"int"} \X (-Half..Half - 1)

Texts == {"str", "sym"} \X Names

Keys == Fixnums \cup Texts \cup {Nil}

\* The keys that have a name
NamedKeys == Keys \ {Nil}

RubyLeaves ==
  Fixnums \cup Texts \cup ({"float", "obj", "geo", "data", "big"} \X Contents) \cup {Nil}

\* Level by level, the values that have nothing but these leaves and keys in them
RubyOf(leaves, keys) ==
  LET level[d \in 0..MaxDepth] ==
        IF d = 0 THEN leaves
        ELSE leaves \cup ({"ary"} \X Seq(level[d - 1]))
                    \cup ({"hash"} \X Seq(keys \X level[d - 1]))
  IN level

RubyValues == RubyOf(RubyLeaves, Keys)

Leaves(types) == {v \in RubyLeaves : v[1] \in types}

Strings == {"str"} \X Names

CLeaves ==
  ({"int"} \X (-2 * Half..2 * Half - 1)) \cup Strings
    \cup ({"dbl", "bytes", "blob", "geo"} \X Contents) \cup {Nil}

Maps(keys, values) ==
  {m \in SUBSET (keys \X values) :
     IsFiniteSet(m) /\ \A p, q \in m : p[1] = q[1] => p = q}

COf(leaves, keys) ==
  LET level[d \in 0..MaxDepth] ==
        IF d = 0 THEN leaves
        ELSE leaves \cup ({"list"} \X Seq(level[d - 1]))
                    \cup ({"map"} \X Maps(keys, level[d - 1]))
  IN level

CValues == COf(CLeaves, CLeaves)

\* With what rb_copy_as_val makes of them
CopiedValues == COf(CLeaves \cup {NoValue}, CLeaves)

\* to_s of a key, or of a bin's name
KeyName(key) == IF key[1] = "int" THEN ToString(key[2]) ELSE key[2]

\* The last two are the names under which a get gives the header of the record
Bins == ({KeyName(pair[1]) : pair \in UNION {ToSet(h) : h \in Hashes}} \ {NULL})
          \cup {"header", "record_header"}

ASSUME ConversionAssumption ==
  /\ Half \in Nat \ {0} /\ MaxList \in Nat /\ MaxDepth \in Nat \ {0}
  /\ {"header", "record_header", "gen", "expire_in", "AS_BYTES"} \subseteq Names
  /\ \A n \in -Half..Half - 1 : ToString(n) \in Names
  /\ NULL \notin Names
  /\ \A h \in Hashes : h \in Seq(Keys \X RubyValues[MaxDepth])
  /\ \A p \in Changes : p \in Keys \X RubyValues[MaxDepth] /\ KeyName(p[1]) \in Bins
  /\ \A v \in Appended : v \in RubyValues[MaxDepth - 1]
  /\ \A c \in Foreign : c \in CValues[MaxDepth] /\ c # Nil

-----------------------------------------------------------------------------
(* From Ruby to C *)

InnerTypes    == {"int", "str", "sym", "float", "obj", "ary", "hash"}
BinTypes      == InnerTypes \cup {"nil", "geo", "data"}
OperandTypes  == {"int", "str", "float", "ary", "hash"}

\* What array2as_list and foreach_hash2as_hashmap have cases for
InnerValues == RubyOf(Leaves(InnerTypes), NamedKeys)

\* No conversion of v, or of a value inside, raises a ParseError
Converts(v, types) ==
  v[1] \in types /\ (v[1] \in {"ary", "hash"} => v \in InnerValues[MaxDepth])

\* The indices of the pairs with a name
With(pairs, indices, name) == {i \in indices : KeyName(pairs[i][1]) = name}

\* mutant of LastWith: the first one counts
FirstWith(pairs, indices, name) == Min(With(pairs, indices, name))

\* The pair that is set last for a name: it replaces the others
LastWith(pairs, indices, name) == Max(With(pairs, indices, name))

NamesOf(pairs, indices) == {KeyName(pairs[i][1]) : i \in indices}

\* mutant of MapKey: a number stays a number
TypedKey(pairs, name) ==
  LET key == pairs[LastWith(pairs, DOMAIN pairs, name)][1]
  IN IF key[1] = "int" THEN key ELSE <<"str", name>>

\* The key of a map: key2bin_name makes a string of it
MapKey(pairs, name) == <<"str", name>>

\* Marshal.dump, and Marshal.load of what is of type AS_BYTES_RUBY
Dump(object) == <<"bytes", object>>
Load(bytes)  == <<"obj", bytes>>

\* hash2as_hashmap; inner converts the values
HashToMap(inner, pairs) ==
  {<<MapKey(pairs, n), inner[pairs[LastWith(pairs, DOMAIN pairs, n)][2]]>> :
     n \in NamesOf(pairs, DOMAIN pairs)}

\* inner converts the values inside v
RubyToC(inner, v) ==
  CASE v[1] = "sym"   -> <<"str", v[2]>>
    [] v[1] = "float" -> <<"dbl", v[2]>>
    [] v[1] = "obj"   -> Dump(v[2])
    [] v[1] = "ary"   -> <<"list", [i \in DOMAIN v[2] |-> inner[v[2][i]]]>>
    [] v[1] = "hash"  -> <<"map", HashToMap(inner, v[2])>>
    [] OTHER          -> v

ToCAt[d \in 0..MaxDepth] == [v \in RubyValues[d] |-> RubyToC(ToCAt[d - 1], v)]

ToC(v) == ToCAt[MaxDepth][v]

\* foreach_hash2record passes over a T_DATA that is no GeoJson, and its key
Set(hash) == {i \in DOMAIN hash : hash[i][2][1] # "data"}

\* mutant of Accepted: values are not checked
AcceptedAnyType(hash) == \A i \in Set(hash) : hash[i][1][1] # "nil"

\* hash2record returns
Accepted(hash) ==
  \A i \in Set(hash) : hash[i][1][1] # "nil" /\ Converts(hash[i][2], BinTypes)

\* The bins of the record that is sent; a bin that is nil is removed
Sent(hash) ==
  [b \in NamesOf(hash, Set(hash)) |-> hash[LastWith(hash, Set(hash), b)][2]]

-----------------------------------------------------------------------------
(* From C to Ruby *)

\* mutant of Fix: two bits are dropped
FixInt(n) == ((n + (Half \div 2)) % Half) - (Half \div 2)

\* LONG2FIX drops the highest bit
Fix(n) == ((n + Half) % (2 * Half)) - Half

\* as_val_type_as_str, of the one type without a case that a bin may have
TypeStr == <<"str", "AS_BYTES">>

\* as_hashmap2hash, which reads every key as a string; the order of the pairs is some
\* order.  inner converts the values
MapToHash(inner, map) ==
  IF \E p \in map : p[1][1] # "str" THEN Undefined
  ELSE <<"hash", SetToSeq({<<p[1], inner[p[2]]>> : p \in map})>>

\* as_val2rb_val
CToRuby(inner, c) ==
  CASE c[1] = "int"   -> <<"int", Fix(c[2])>>
    [] c[1] = "dbl"   -> <<"float", c[2]>>
    [] c[1] = "bytes" -> Load(c[2])
    [] c[1] = "blob"  -> TypeStr
    [] c[1] = "null"  -> Undefined
    [] c[1] = "list"  -> <<"ary", [i \in DOMAIN c[2] |-> inner[c[2][i]]]>>
    [] c[1] = "map"   -> MapToHash(inner, c[2])
    [] OTHER          -> c

ToRubyAt[d \in 0..MaxDepth] == [c \in CopiedValues[d] |-> CToRuby(ToRubyAt[d - 1], c)]

ToRuby(c) == ToRubyAt[MaxDepth][c]

Record2Hash(record) == [b \in DOMAIN record |-> ToRuby(record[b])]

\* rb_copy_as_val knows no bytes and no nil, and gives no value for them
\* (a key of theirs may stay here what it is: with no value in its place the map is as
\* misread as with it)
CopyVal(inner, c) ==
  CASE c[1] \in {"int", "dbl", "str", "geo"} -> c
    [] c[1] = "list" -> <<"list", [i \in DOMAIN c[2] |-> inner[c[2][i]]]>>
    [] c[1] = "map"  -> <<"map", {<<p[1], inner[p[2]]>> : p \in c[2]}>>
    [] OTHER         -> NoValue

CopyAt[d \in 0..MaxDepth] == [c \in CValues[d] |-> CopyVal(CopyAt[d - 1], c)]

\* mutant of Copy: it knows no maps
CopyFlat(c) == IF c[1] = "map" THEN NoValue ELSE CopyAt[MaxDepth][c]

Copy(c) == CopyAt[MaxDepth][c]

\* rb_copy_as_record has no case for bytes either: it leaves the bin out
CopyRecord(record) ==
  [b \in {n \in DOMAIN record : record[n][1] \notin {"bytes", "blob"}} |-> Copy(record[b])]

\* What get and scan_each, and what scan and query give for the record
Got     == Record2Hash(stored)
Scanned == Record2Hash(CopyRecord(stored))

\* The header of the record; its numbers are left out
Header ==
  <<"hash", SetToSeq({<< <<"str", n>>, <<"int", 0>> >> : n \in {"gen", "expire_in"}})>>

HeaderName(bins) == IF "header" \in DOMAIN bins THEN "record_header" ELSE "header"

\* mutant of WithHeader: the header has one name
WithHeaderAlways(bins) ==
  [b \in DOMAIN bins \cup {"header"} |-> IF b = "header" THEN Header ELSE bins[b]]

\* check_with_header: a bin of the second name is replaced
WithHeader(bins) ==
  [b \in DOMAIN bins \cup {HeaderName(bins)} |-> IF b = HeaderName(bins) THEN Header ELSE bins[b]]

\* Somewhere in v a pointer to nothing has been read
Faulty(v) == v \notin RubyValues[MaxDepth]

-----------------------------------------------------------------------------
Init ==
  /\ stored = <<>>
  /\ given = [b \in Bins |-> NULL]
  /\ up = TRUE

\* put; one that raises a ParseError sends nothing
Put(hash) ==
  LET sent  == Sent(hash)
      after == {b \in DOMAIN stored \cup DOMAIN sent :
                  b \in DOMAIN sent => sent[b][1] # "nil"}
  IN /\ up /\ Accepted(hash)
     /\ stored' = [b \in after |-> IF b \in DOMAIN sent THEN ToC(sent[b]) ELSE stored[b]]
     /\ given' = [b \in Bins |-> IF b \in DOMAIN sent THEN sent[b] ELSE given[b]]
     /\ UNCHANGED up

\* get, with_header or not, a change of one entry of the hash, and put
Change(pair, with_header) ==
  LET read == IF with_header THEN WithHeader(Got) ELSE Got
      hash == SetToSeq({<< <<"str", b>>, read[b]>> : b \in DOMAIN read})
      same == {i \in DOMAIN hash : hash[i][1] = pair[1]}
  IN /\ \A b \in DOMAIN Got : ~Faulty(Got[b])
     /\ Put(IF same = {} THEN Append(hash, pair)
            ELSE [i \in DOMAIN hash |-> IF i \in same THEN pair ELSE hash[i]])

\* operate with a list_append: rb_val2as_val has fewer cases than array2as_list, and
\* raises a ParseError for the others but nil
ListAppend(b, v) ==
  /\ up
  /\ b \in DOMAIN stored /\ stored[b][1] = "list" /\ Len(stored[b][2]) < MaxList
  /\ Converts(v, OperandTypes)
  /\ stored' = [stored EXCEPT ![b] = <<"list", Append(@[2], ToC(v))>>]
  /\ given' = [given EXCEPT ![b] = IF @ = NULL THEN NULL ELSE <<"ary", Append(@[2], v)>>]
  /\ UNCHANGED up

\* rb_val2as_val makes no value of nil, and the C client is given a pointer to nothing:
\* it may append a nil, leave the list as it is, or crash
AppendNil(b) ==
  /\ up
  /\ b \in DOMAIN stored /\ stored[b][1] = "list" /\ Len(stored[b][2]) < MaxList
  /\ \/ stored' = [stored EXCEPT ![b] = <<"list", Append(@[2], Nil)>>] /\ UNCHANGED up
     \/ UNCHANGED <<stored, up>>
     \/ up' = FALSE /\ UNCHANGED stored
  /\ given' = [given EXCEPT ![b] = NULL]

\* A pointer to nothing: the program may crash, or go on with what it finds
GetFaults ==
  /\ up /\ \E b \in DOMAIN Got : Faulty(Got[b])
  /\ up' = FALSE
  /\ UNCHANGED <<stored, given>>

ScanFaults ==
  /\ up /\ \E b \in DOMAIN Scanned : Faulty(Scanned[b])
  /\ up' = FALSE
  /\ UNCHANGED <<stored, given>>

OthersWrite(b, c) ==
  /\ up
  /\ stored' = [n \in DOMAIN stored \cup {b} |-> IF n = b THEN c ELSE stored[n]]
  /\ given' = [given EXCEPT ![b] = NULL]
  /\ UNCHANGED up

Next ==
  \/ \E hash \in Hashes : Put(hash)
  \/ \E pair \in Changes, with_header \in BOOLEAN : Change(pair, with_header)
  \/ \E b \in Bins, v \in Appended : ListAppend(b, v)
  \/ \E b \in Bins : AppendNil(b)
  \/ GetFaults
  \/ ScanFaults
  \/ \E b \in Bins, c \in Foreign : OthersWrite(b, c)

Spec == Init /\ [][Next]_vars

-----------------------------------------------------------------------------
(* Properties *)

(* Bins hold values of C; what was put has a type that foreach_hash2record    *)
(* has a case for.                                                            *)
TypeOK ==
  /\ DOMAIN stored \subseteq Bins
  /\ \A b \in DOMAIN stored : stored[b] \in CValues[MaxDepth] \ {Nil}
  /\ DOMAIN given = Bins
  /\ \A b \in Bins :
       given[b] # NULL =>
         given[b] \in RubyValues[MaxDepth] /\ given[b][1] \in BinTypes \ {"data"}
  /\ up \in BOOLEAN

\* What the documentation makes of a value: symbols are strings, keys are strings,
\* and of entries whose keys are the same string the last one counts
NormalOf(inner, v) ==
  CASE v[1] = "sym"  -> <<"str", v[2]>>
    [] v[1] = "ary"  -> <<"ary", [i \in DOMAIN v[2] |-> inner[v[2][i]]]>>
    [] v[1] = "hash" ->
         LET named(i, n) == KeyName(v[2][i][1]) = n
             last(n) == CHOOSE i \in DOMAIN v[2] :
                          named(i, n) /\ \A j \in i + 1..Len(v[2]) : ~named(j, n)
         IN <<"hash", SetToSeq({<< <<"str", n>>, inner[v[2][last(n)][2]]>> :
                                  n \in {KeyName(v[2][i][1]) : i \in DOMAIN v[2]}})>>
    [] OTHER -> v

NormalAt[d \in 0..MaxDepth] == [v \in RubyValues[d] |-> NormalOf(NormalAt[d - 1], v)]

Normal(v) == NormalAt[MaxDepth][v]

(* A get gives back what the program has put, appended to or changed, however *)
(* deep the value and whatever its keys, and no bin that was set to nil       *)
(* (hash2record, record2hash).  Of a list that nil was appended to it says     *)
(* nothing.                                                                    *)
RoundTrip ==
  \A b \in Bins :
    given[b] # NULL =>
      IF given[b][1] = "nil" THEN b \notin DOMAIN stored
      ELSE b \in DOMAIN stored /\ ToRuby(stored[b]) = Normal(given[b])

\* Values that get and put carry over: not the integers that are no Fixnum, other
\* programs' bytes, and what is refused or misread inside lists and maps
PortableLeaves == Fixnums \cup Strings \cup ({"dbl", "bytes"} \X Contents)

PortableValues == COf(PortableLeaves, Strings)

Portable(c) == c[1] = "geo" \/ c \in PortableValues[MaxDepth]

\* A bin that a get does not show
Hidden(with_header) ==
  IF with_header /\ "header" \in DOMAIN stored THEN {"record_header"} ELSE {}

(* A program that gets a record, changes one bin and puts the hash back       *)
(* leaves every other bin as it was, also those other programs have written,  *)
(* and changes that bin whether it names it with a string or a symbol.  Of a  *)
(* record that has a bin "header", a get with_header hides "record_header".    *)
WriteBackKeeps ==
  [][\A pair \in Changes, with_header \in BOOLEAN : Change(pair, with_header) =>
       \A b \in DOMAIN stored \ Hidden(with_header) :
         IF b = KeyName(pair[1])
         THEN pair[2][1] \in {"nil", "data"} \/ stored'[b] = ToC(pair[2])
         ELSE Portable(stored[b]) => b \in DOMAIN stored' /\ stored'[b] = stored[b]]_vars

\* Values that rb_copy_as_record copies whole
WholeLeaves == {c \in CLeaves : c[1] \notin {"bytes", "blob", "nil"}}

WholeValues == COf(WholeLeaves, CLeaves)

Copied(c) == c \in WholeValues[MaxDepth]

(* A scan or a query gives the same for a bin as a get, unless there is an    *)
(* object, another program's bytes or a nil in it (rb_copy_as_record).        *)
ScanTells ==
  \A b \in DOMAIN stored :
    Copied(stored[b]) => b \in DOMAIN Scanned /\ Scanned[b] = Got[b]

(* The program crashes on nothing it has put itself, but for objects in lists *)
(* and maps that come with a scan and for a nil appended to a list          *)
(* (rb_val2as_val); another program's map whose keys are no strings crashes a  *)
(* get (as_hashmap2hash).                                                     *)
StaysUp ==
  ~up => \E b \in DOMAIN stored : given[b] = NULL \/ ~Copied(stored[b])

(* What a scan should do: give the values the program has put, objects among  *)
(* them, as a get gives them.  rb_copy_as_record has no case for them.        *)
ScanAgrees ==
  \A b \in DOMAIN stored :
    given[b] # NULL => b \in DOMAIN Scanned /\ Scanned[b] = Got[b]
===============================================================================
