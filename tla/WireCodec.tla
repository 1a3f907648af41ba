------------------------------ MODULE WireCodec ------------------------------
(***************************************************************************)
(* The code every message class of web/app/lib/proto/im.js has around its  *)
(* list of fields (ImProto): construction, encode and decode.  A message   *)
(* is a function from the names of its own properties to their values,     *)
(* with the property "$unknowns" the decoder adds; a buffer is the         *)
(* sequence of its records, each with a field number, a wire type and a    *)
(* value.  A scalar is 0, the default of its type, or another value; a     *)
(* nested message is the sequence of its own records.                      *)
(*                                                                         *)
(* The state machine has a peer write one message in several parts, with   *)
(* records a later version of the schema may hold, and the client read it, *)
(* write it back and read it again.                                        *)
(***************************************************************************)
EXTENDS ImProto, Integers, Sequences, SequencesExt, FiniteSetsExt

CONSTANTS
    CheckedClasses,   \* the classes of this instance
    RecursionLimit,   \* protobufjs' limit on nested messages
    MaxWrites         \* how many parts and foreign records a buffer holds

ASSUME CodecAssumption ==
    /\ CheckedClasses \subseteq Classes
    /\ RecursionLimit \in Nat /\ MaxWrites \in Nat

VARIABLES cls,     \* the class of the message on the wire
          parts,   \* the messages written so far
          wire,    \* the buffer
          foreign, \* the records a later schema added to it
          got,     \* what the last decode returned
          phase    \* "write", "read", "rewritten" or "reread"
vars == <<cls, parts, wire, foreign, got, phase>>

Fields(c) == Range(Schema[c])
IsNested(f) == f.type \notin Scalar
IsList(f) == f.label \in {"list", "packed"}
WireType(f) == IF f.type \in Varint THEN 0 ELSE IF f.type \in Fixed64 THEN 1 ELSE 2
Without(m, names) == [n \in DOMAIN m \ names |-> m[n]]
With(m, name, v) == [n \in DOMAIN m \cup {name} |-> IF n = name THEN v ELSE m[n]]

(* new X(): no own property; an empty list is never written.               *)
NewMessage == << >>

(* $unknowns, and the repeated field f, of a message: absent is empty.     *)
ListOf(m, name) == IF name \in DOMAIN m THEN m[name] ELSE << >>

Entry(id, wt, v) == [id |-> id, wt |-> wt, val |-> v]

(* X.encode: the own properties in the order of the class, the unknown     *)
(* records last.  A required property is always written, with the default  *)
(* of the prototype if it has not been set; all of them are scalars.  ok   *)
(* is FALSE where the code throws: the nesting is too deep.                *)
RECURSIVE Encode(_, _, _)
Encode(c, m, depth) ==
    LET Item(f, v) == IF IsNested(f) THEN Encode(f.type, v, depth + 1).out ELSE v
        Written(f) ==
            IF f.name \notin DOMAIN m
            THEN IF f.label = "required" THEN <<Entry(f.id, WireType(f), 0)>> ELSE << >>
            ELSE IF f.label = "packed"
                 THEN IF m[f.name] = << >> THEN << >> ELSE <<Entry(f.id, 2, m[f.name])>>
            ELSE IF f.label = "list"
                 THEN [i \in DOMAIN m[f.name] |->
                          Entry(f.id, WireType(f), Item(f, m[f.name][i]))]
            ELSE <<Entry(f.id, WireType(f), Item(f, m[f.name]))>>
        Nested == {f \in Fields(c) : f.name \in DOMAIN m /\ IsNested(f)}
    IN [ok  |-> /\ depth <= RecursionLimit
                /\ \A f \in Nested :
                      \A v \in IF IsList(f) THEN Range(m[f.name]) ELSE {m[f.name]} :
                         Encode(f.type, v, depth + 1).ok,
        out |-> IF depth > RecursionLimit THEN << >>
                ELSE FlattenSeq([i \in DOMAIN Schema[c] |-> Written(Schema[c][i])])
                     \o ListOf(m, "$unknowns")]

(* The setter of a oneof group deletes the group's other properties.       *)
OneOfSetter(c, m, f) ==
    Without(m, {g.name : g \in {h \in Fields(c) : h.group = f.group /\ h # f}})

(* A record fits a field when its wire type is the field's; a list of      *)
(* numbers is read packed or not, whichever way it was written.            *)
Fits(f, r) ==
    \/ r.wt = 2 /\ IsList(f) /\ f.type \in Varint
    \/ r.wt = WireType(f)

\* Mutant: a nested message is decoded into a new one.
TargetFresh(m, name) == NewMessage

(* The message a nested message is decoded into: the one already there.    *)
Target(m, name) == IF name \in DOMAIN m THEN m[name] ELSE NewMessage

\* Mutant: a default value is set.
SetImplicitAlways(m, name, v) == With(m, name, v)

(* An implicit property: a default value on the wire deletes it.           *)
SetImplicit(m, name, v) == IF v = 0 THEN Without(m, {name}) ELSE With(m, name, v)

\* Mutant: unknown records are dropped.
KeepUnknownDropped(m, r) == m

(* discardUnknown is never set: a record without a case is kept.           *)
KeepUnknown(m, r) == With(m, "$unknowns", Append(ListOf(m, "$unknowns"), r))

(* One pass of the loop in X.decode.  A nested message is decoded into the *)
(* one already there; a list grows; a default value deletes an implicit    *)
(* property; a record that fits no case is kept among the unknown ones.    *)
RECURSIVE Decode(_, _, _, _)
DecodeRecord(c, res, r, depth) ==
    LET m == res.msg
        hits == {f \in Fields(c) : f.id = r.id /\ Fits(f, r)}
        Sub(f, target) == Decode(f.type, r.val, depth + 1, target)
        Apply(f) ==
            CASE IsList(f) /\ IsNested(f) ->
                    LET s == Sub(f, NewMessage)
                    IN [ok  |-> res.ok /\ s.ok,
                        msg |-> With(m, f.name, Append(ListOf(m, f.name), s.msg))]
              [] IsList(f) /\ ~IsNested(f) ->
                    [res EXCEPT !.msg = With(m, f.name, ListOf(m, f.name) \o
                        IF r.wt = 2 /\ f.type \in Varint THEN r.val ELSE <<r.val>>)]
              [] ~IsList(f) /\ IsNested(f) ->
                    LET s == Sub(f, Target(m, f.name))
                        set == With(m, f.name, s.msg)
                    IN [ok  |-> res.ok /\ s.ok,
                        msg |-> IF f.label = "oneof" THEN OneOfSetter(c, set, f) ELSE set]
              [] f.label = "implicit" /\ ~IsNested(f) ->
                    [res EXCEPT !.msg = SetImplicit(m, f.name, r.val)]
              [] f.label = "oneof" /\ ~IsNested(f) ->
                    [res EXCEPT !.msg = OneOfSetter(c, With(m, f.name, r.val), f)]
              [] OTHER -> [res EXCEPT !.msg = With(m, f.name, r.val)]
    IN IF hits = {}
       THEN [res EXCEPT !.msg = KeepUnknown(m, r)]
       ELSE Apply(CHOOSE f \in hits : TRUE)

(* X.decode(reader, length, _end, _depth, _target).                        *)
Decode(c, records, depth, target) ==
    IF depth > RecursionLimit THEN [ok |-> FALSE, msg |-> target]
    ELSE LET res == FoldLeft(LAMBDA acc, r : DecodeRecord(c, acc, r, depth),
                             [ok |-> TRUE, msg |-> target], records)
         IN [res EXCEPT !.ok = /\ @
                               /\ \A f \in Fields(c) :
                                     f.label = "required" => f.name \in DOMAIN res.msg]
-----------------------------------------------------------------------------
(***************************************************************************)
(* Inputs.  A message sets at most one property besides the required ones, *)
(* to the default of its type or to another value, and so do the messages  *)
(* nested in it, down to a depth; parts written one after the other bring  *)
(* every pair of properties together.                                      *)
(***************************************************************************)
Minimal(c) ==
    [n \in {f.name : f \in {g \in Fields(c) : g.label = "required"}} |-> 1]

RECURSIVE Samples(_, _)
Values(f, d) ==
    LET one == IF IsNested(f) THEN Samples(f.type, d - 1) ELSE {0, 1}
    IN IF IsList(f) THEN {<<v>> : v \in one} \cup {<<v, v>> : v \in one} ELSE one
Samples(c, d) ==
    {Minimal(c)} \cup
    IF d = 0 THEN {}
    ELSE UNION {{With(Minimal(c), f.name, v) : v \in Values(f, d)} : f \in Fields(c)}

(* A record of a later schema: a number no class uses, or a number in use  *)
(* with another wire type (5, 32 bits, which no field of im.js has).       *)
ForeignRecords(c) ==
    {Entry(777, 0, 1)} \cup {Entry(f.id, 5, 1) : f \in Fields(c)}

Init ==
    /\ cls \in CheckedClasses
    /\ parts = << >> /\ wire = << >> /\ foreign = << >>
    /\ got = [ok |-> TRUE, msg |-> NewMessage]
    /\ phase = "write"

(* The peer writes (another part of) the message.                          *)
Write ==
    /\ phase = "write" /\ Len(parts) + Len(foreign) < MaxWrites
    /\ \E m \in Samples(cls, 2) :
          /\ Encode(cls, m, 0).ok
          /\ parts' = Append(parts, m)
          /\ wire' = wire \o Encode(cls, m, 0).out
    /\ UNCHANGED <<cls, foreign, got, phase>>

(* The peer writes a record this schema does not have.                     *)
WriteForeign ==
    /\ phase = "write" /\ Len(parts) + Len(foreign) < MaxWrites
    /\ \E r \in ForeignRecords(cls) :
          /\ foreign' = Append(foreign, r)
          /\ wire' = Append(wire, r)
    /\ UNCHANGED <<cls, parts, got, phase>>

(* The client decodes the buffer.                                          *)
Read ==
    /\ phase \in {"write", "rewritten"}
    /\ got' = Decode(cls, wire, 0, NewMessage)
    /\ phase' = IF phase = "write" THEN "read" ELSE "reread"
    /\ UNCHANGED <<cls, parts, wire, foreign>>

(* The client encodes what it decoded.                                     *)
Rewrite ==
    /\ phase = "read" /\ got.ok
    /\ wire' = Encode(cls, got.msg, 0).out
    /\ phase' = "rewritten"
    /\ UNCHANGED <<cls, parts, foreign, got>>

Next == Write \/ WriteForeign \/ Read \/ Rewrite

Spec == Init /\ [][Next]_vars
-----------------------------------------------------------------------------
(***************************************************************************)
(* What protobuf promises of a message written in parts, field by field    *)
(* and without a decoder: a list holds the elements of all parts, a nested *)
(* message is the merge of those of all parts, a scalar has the value of   *)
(* the last part that sets it, and of a oneof group only the property set  *)
(* last counts, from the last part on that sets another one.               *)
(***************************************************************************)
RECURSIVE Merge(_, _)
Merge(c, ms) ==
    LET Setting(names) == {i \in DOMAIN ms : DOMAIN ms[i] \cap names # {}}
        Rivals(f) == {g.name : g \in {h \in Fields(c) : h.group = f.group /\ h # f}}
        Since(f) == IF f.label = "oneof" THEN Max({0} \cup Setting(Rivals(f))) ELSE 0
        Counting(f) == {i \in Setting({f.name}) : i > Since(f)}
        Given(f) == [k \in 1 .. Cardinality(Counting(f)) |->
                        ms[SetToSortSeq(Counting(f), <)[k]][f.name]]
        Each(f, s) == [k \in DOMAIN s |-> IF IsNested(f) THEN Merge(f.type, <<s[k]>>) ELSE s[k]]
        Merged(f) == CASE IsList(f) -> Each(f, FlattenSeq(Given(f)))
                       [] ~IsList(f) /\ IsNested(f) -> Merge(f.type, Given(f))
                       [] OTHER -> Last(Given(f))
        present == {f \in Fields(c) : /\ Counting(f) # {}
                                      /\ f.label = "implicit" /\ ~IsNested(f)
                                            => Last(Given(f)) # 0}
    IN [n \in {f.name : f \in present} |-> Merged(CHOOSE f \in present : f.name = n)]

HasRequired(c) == \E f \in Fields(c) : f.label = "required"

(* What encode wrote, in one or several parts and between records of a     *)
(* later schema, decode accepts, and it returns the merge of the parts;    *)
(* so it does after the client has encoded the message once more.          *)
ReadsTheMerge ==
    phase \in {"read", "reread"} =>
        /\ got.ok = (parts # << >> \/ ~HasRequired(cls))
        /\ Without(got.msg, {"$unknowns"}) = Merge(cls, parts)

(* Records of a later schema are kept in their order, and survive being    *)
(* written back by a client that does not know them.                       *)
ForeignRecordsKept ==
    /\ phase \in {"read", "reread"} => ListOf(got.msg, "$unknowns") = foreign
    /\ phase = "rewritten" => IsSuffix(foreign, wire)

(* A buffer the client writes back is canonical: no two records for one    *)
(* property, at most one for a oneof group, and no implicit default.       *)
RewrittenIsCanonical ==
    phase = "rewritten" =>
        \A i, j \in 1 .. (Len(wire) - Len(foreign)) :
            LET Of(k) == CHOOSE f \in Fields(cls) : f.id = wire[k].id
            IN /\ i # j /\ Of(i).label # "list" => Of(i) # Of(j)
               /\ i # j /\ Of(i).label = "oneof" => Of(i).group # Of(j).group
               /\ Of(i).label = "implicit" /\ ~IsNested(Of(i)) => wire[i].val # 0
=============================================================================
