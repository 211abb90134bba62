--------------------------- MODULE Format2PatchMap ---------------------------
(***************************************************************************)
(* The patch map of a font and its encoding as a format 2 table            *)
(* (ift/proto/patch_map.{h,cc}, ift/proto/format_2_patch_map.cc), and what *)
(* a client reads from it, which is not part of this code and follows the  *)
(* specification that EncodeEntryIds refers to.                            *)
(*                                                                         *)
(* The table is a sequence of fields [field, value], each of which the     *)
(* client finds only where it expects it.  BiasBytes tries all ways to     *)
(* write codepoints and takes the shortest; here any is taken.             *)
(***************************************************************************)
EXTENDS SparseBitSet
LOCAL INSTANCE SequencesExt

CONSTANTS PatchMapEntries,  \* the sequences of entries that are added
          DeltaLimit,       \* 2^23, the limit of a delta of 24 bits
          MaxChildren       \* 127, what a count of 7 bits can say

ASSUME LimitAssumption == DeltaLimit \in Nat \ {0} /\ MaxChildren \in Nat

VARIABLES entries,           \* left to add
          map,               \* PatchMap::entries_
          default_encoding,
          last_entry_index,
          encoded,           \* how many entries were encoded
          out,               \* the fields written
          status,
          position,          \* the client: the next field
          last_read,         \* the client: the entry index read last
          read               \* the client: the entries read

table_vars == <<entries, map, default_encoding, last_entry_index, encoded, out, status,
                position, last_read, read>>

Encoding == {"TABLE_KEYED_FULL", "TABLE_KEYED_PARTIAL", "GLYPH_KEYED"}

TableInit == /\ entries \in PatchMapEntries
             /\ map = <<>>
             /\ default_encoding = "GLYPH_KEYED"
             /\ last_entry_index = 0
             /\ encoded = 0
             /\ out = <<>>
             /\ status = "adding"
             /\ position = 1
             /\ last_read = 0
             /\ read = <<>>

-----------------------------------------------------------------------------
(***************************************************************************)
(* PatchMap::AddEntry: children are entries before this one.               *)
(***************************************************************************)
AddEntry ==
    LET e == Head(entries)
        valid == (\A i \in e.child_indices : i < Len(map)) /\ e.patch_indices # <<>>
    IN  /\ status = "adding"
        /\ entries # <<>>
        /\ entries' = Tail(entries)
        /\ map' = IF valid THEN Append(map, e) ELSE map
        /\ status' = IF valid THEN "adding" ELSE "failed"
        /\ UNCHANGED <<default_encoding, last_entry_index, encoded, out, position,
                       last_read, read>>

PickDefaultEncoding ==
    LET count(enc) == Cardinality({i \in DOMAIN map : map[i].encoding = enc})
        full    == count("TABLE_KEYED_FULL")
        partial == count("TABLE_KEYED_PARTIAL")
        glyph   == count("GLYPH_KEYED")
    IN  CASE full >= partial /\ full >= glyph -> "TABLE_KEYED_FULL"
          [] ~(full >= partial /\ full >= glyph) /\ partial >= full /\ partial >= glyph
                -> "TABLE_KEYED_PARTIAL"
          [] OTHER -> "GLYPH_KEYED"

\* the header, of which the client needs the number of entries
StartSerialize ==
    /\ status = "adding"
    /\ entries = <<>>
    /\ status' = "encoding"
    /\ default_encoding' = PickDefaultEncoding
    /\ UNCHANGED <<entries, map, last_entry_index, encoded, out, position, last_read, read>>

-----------------------------------------------------------------------------
Field(field, value) == <<[field |-> field, value |-> value]>>
When(condition, fields) == IF condition THEN fields ELSE <<>>

(***************************************************************************)
(* The entry indices as deltas, doubled, with the lowest bit set when      *)
(* another follows.                                                        *)
(* Mutation: the bit is set by adding one to a negative delta as well.     *)
(***************************************************************************)
Deltas(last, indices) ==
    [i \in DOMAIN indices |->
        indices[i] - ((IF i = 1 THEN last ELSE indices[i - 1]) + 1)]

EncodeEntryIdsUpwards(last, indices) ==
    LET deltas == Deltas(last, indices)
    IN  [i \in DOMAIN indices |-> IF i = Len(indices) THEN 2 * deltas[i]
                                  ELSE 2 * deltas[i] + 1]

EncodeEntryIds(last, indices) ==
    LET deltas == Deltas(last, indices)
    IN  [i \in DOMAIN indices |-> IF i = Len(indices) THEN 2 * deltas[i]
                                  ELSE IF deltas[i] >= 0 THEN 2 * deltas[i] + 1
                                  ELSE 2 * deltas[i] - 1]

\* 0, 2 or 3 bytes of the 4 that a codepoint would have
BiasBytes == {0, 2, 3}
Bias(bytes, cps) == Min({2 ^ ((bytes * Width) \div 4) - 1, Min(cps)})

EncodeCodepoints(bytes, bf, cps) ==
    When(bytes > 0, Field("bias", Bias(bytes, cps)))
        \o Field("codepoints", Encode({cp - Bias(bytes, cps) : cp \in cps}, bf))

HasDelta(e) == e.patch_indices # <<last_entry_index + 1>>

Format(e, bytes) ==
    [features |-> e.features # {},
     children |-> e.child_indices # {},
     delta |-> HasDelta(e),
     encoding |-> e.encoding # default_encoding,
     codepoints |-> e.codepoints # {},
     bias |-> bytes,
     ignored |-> e.ignored]

EncodeEntry(e, bytes, bf) ==
    LET format == Format(e, bytes)
        deltas == EncodeEntryIds(last_entry_index, e.patch_indices)
    IN  Field("format", format)
          \o When(format.features, Field("features", e.features))
          \o When(format.children,
                  Field("children", [indices |-> e.child_indices,
                                     conjunctive |-> e.conjunctive]))
          \o When(format.delta,
                  [i \in DOMAIN deltas |-> [field |-> "delta", value |-> deltas[i]]])
          \o When(format.encoding, Field("encoding", e.encoding))
          \o When(format.codepoints, EncodeCodepoints(bytes, bf, e.codepoints))

Encodable(e) ==
    /\ Cardinality(e.child_indices) <= MaxChildren
    /\ HasDelta(e) =>
          \A d \in Range(EncodeEntryIds(last_entry_index, e.patch_indices)) :
              d \in -DeltaLimit .. DeltaLimit - 1

\* the branch factors that may be taken for some codepoints
Factors(bytes, cps) ==
    IF cps = {} THEN {"BF4"} ELSE ChooseBranchFactor(<<Max(cps) - Bias(bytes, cps)>>)

EncodeNext(bytes, bf) ==
    LET e == map[encoded + 1]
    IN  /\ bf \in Factors(bytes, e.codepoints)
        /\ encoded' = encoded + 1
        /\ last_entry_index' = Last(e.patch_indices)
        /\ IF Encodable(e)
           THEN out' = out \o EncodeEntry(e, bytes, bf) /\ status' = status
           ELSE out' = out /\ status' = "failed"
        /\ UNCHANGED <<entries, map, default_encoding, position, last_read, read>>

FinishSerialize ==
    /\ status = "encoding"
    /\ encoded = Len(map)
    /\ status' = "reading"
    /\ UNCHANGED <<entries, map, default_encoding, last_entry_index, encoded, out,
                   position, last_read, read>>

-----------------------------------------------------------------------------
(***************************************************************************)
(* The client, an entry at a time.                                         *)
(***************************************************************************)
Expect(st, present, field) ==
    IF ~present THEN st
    ELSE IF st.position > Len(out) \/ out[st.position].field # field
    THEN [st EXCEPT !.ok = FALSE]
    ELSE [st EXCEPT !.position = @ + 1]

ValueAt(at, default) == IF at <= Len(out) THEN out[at].value ELSE default

Half(d) == IF d >= 0 THEN d \div 2 ELSE -((-d) \div 2)

\* deltas up to one without the lowest bit
ReadDeltas(at) ==
    LET end == CHOOSE i \in at .. Len(out) :
                  /\ out[i].field = "delta" => out[i].value % 2 = 0
                  /\ \A j \in at .. i - 1 : out[j].field = "delta" /\ out[j].value % 2 = 1
        indices[i \in at - 1 .. end] ==
            IF i = at - 1 THEN <<last_read>>
            ELSE Append(indices[i - 1], Last(indices[i - 1]) + 1 + Half(out[i].value))
    IN  Tail(indices[end])

ReadIndices(format, at) ==
    IF format.delta THEN ReadDeltas(at) ELSE <<last_read + 1>>

ReadEntry ==
    LET format   == ValueAt(position, Format(map[1], 0))
        start    == [ok |-> TRUE, position |-> position]
        features == Expect(Expect(start, TRUE, "format"), format.features, "features")
        children == Expect(features, format.children, "children")
        indices  == ReadIndices(format, children.position)
        deltas   == IF format.delta
                    THEN [children EXCEPT !.position = @ + Len(indices)]
                    ELSE children
        encoding == Expect(deltas, format.encoding, "encoding")
        bias     == Expect(encoding, format.codepoints /\ format.bias > 0, "bias")
        last     == Expect(bias, format.codepoints, "codepoints")
        set      == Decode(ValueAt(bias.position, <<>>))
        entry    ==
          [features |-> IF format.features THEN out[features.position - 1].value ELSE {},
           child_indices |-> IF format.children
                             THEN out[children.position - 1].value.indices ELSE {},
           conjunctive |-> format.children /\ out[children.position - 1].value.conjunctive,
           patch_indices |-> indices,
           encoding |-> IF format.encoding THEN out[encoding.position - 1].value
                        ELSE default_encoding,
           codepoints |-> IF ~format.codepoints THEN {}
                          ELSE {cp + (IF format.bias = 0 THEN 0
                                      ELSE out[bias.position - 1].value) : cp \in set.set},
           ignored |-> format.ignored]
        complete == format.codepoints => set.ok /\ set.rest = <<>>
    IN  /\ status = "reading"
        /\ Len(read) < Len(map)
        /\ IF last.ok /\ complete
           THEN /\ read' = Append(read, entry)
                /\ position' = last.position
                /\ last_read' = Last(indices)
                /\ status' = status
           ELSE /\ status' = "unreadable"
                /\ UNCHANGED <<read, position, last_read>>
        /\ UNCHANGED <<entries, map, default_encoding, last_entry_index, encoded, out>>

TableNext == \/ AddEntry
             \/ StartSerialize
             \/ /\ status = "encoding"
                /\ encoded < Len(map)
                /\ \E bytes \in BiasBytes, bf \in BranchFactor : EncodeNext(bytes, bf)
             \/ FinishSerialize
             \/ ReadEntry

TableSpec == TableInit /\ [][TableNext]_table_vars

-----------------------------------------------------------------------------
(***************************************************************************)
(* The client reads the entries that were added, however their codepoints  *)
(* are written, and the table ends with the last of them (Serialize: each  *)
(* optional field has its bit, indices are relative to the last, of the    *)
(* entry before).  Without children the mode of the children is lost.      *)
(***************************************************************************)
EntriesRoundTrip ==
    /\ status # "unreadable"
    /\ \A i \in DOMAIN read :
          read[i] = [map[i] EXCEPT !.conjunctive = @ /\ map[i].child_indices # {}]
    /\ status = "reading" /\ Len(read) = Len(map) => position = Len(out) + 1

(***************************************************************************)
(* Any set survives with any branch factor that is asked for, at the       *)
(* limits of the width as well, and leaves what follows it in the data     *)
(* (SparseBitSet::Encode, Decode and Remaining).                           *)
(***************************************************************************)
SetsRoundTrip ==
    status = "encoding" /\ encoded = 0 =>
        \A i \in DOMAIN map, bf \in BranchFactor :
            Decode(EncodeWith(map[i].codepoints, bf) \o <<{0}>>)
                = [ok |-> TRUE, set |-> map[i].codepoints, rest |-> <<{0}>>]
=============================================================================
