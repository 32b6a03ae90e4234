--------------------------- MODULE ReferenceCodec ----------------------------
(***************************************************************************)
(* What a row of the reference journal holds and what reading it back      *)
(* makes of it: the exact-value body codec (davout/reference_codec.rs),    *)
(* the typed body with its URDF projection (reference_journal_event.rs,    *)
(* reference_urdf_codec.rs) and the row checks of the journal              *)
(* (reference_journal.rs, checked_body, validate_history, inspect).        *)
(*                                                                         *)
(* Bytes are numbers below Base.  A length takes one byte for the code's   *)
(* four, an integer one or two, a float one, of which Base - 1 stands for  *)
(* every nonfinite bit pattern; MAGIC is one byte.  A string is a sequence *)
(* of bytes, of which Base - 1 is not UTF-8.  Of the typed body the fields *)
(* that a check reads are kept, with a joint and a link of the URDF for   *)
(* the optional and nested parts of the projection.  SHA-256 is taken as injective.     *)
(***************************************************************************)
EXTENDS Integers, Sequences, FiniteSets, SequencesExt

CONSTANTS
    Base,
    BodyCapacity, NodeCapacity, CollectionCapacity, DepthCapacity,
    Tolerance,     \* homing.zero_verify_tolerance_rad
    Captures,      \* what a transaction staged: see Capture below
    Robots,        \* urdf_rs robots: a joint and a link each
    Junk,          \* byte values a damaged byte may take
    MaxDamage

CodecAssumption ==
    /\ Base \in Nat /\ Base > 21
    /\ {BodyCapacity, NodeCapacity, CollectionCapacity, DepthCapacity}
           \subseteq Nat \ {0}
    /\ Junk \subseteq 0 .. Base - 1

VARIABLES
    stage,   \* typed, stored, refused, failed, closed
    doc,     \* the value tree that was submitted, and by which schema
    row,     \* the row of reference_events
    damage,  \* what happened to the row since
    seen     \* what inspect made of it

codecvars == <<stage, doc, row, damage, seen>>

------------------------------------------------------------------------------
(* Value trees: enum Value.                                                *)

Bool(b) == [tag |-> IF b THEN 1 ELSE 0]
U8(k) == [tag |-> 2, n |-> k]
U64(k) == [tag |-> 5, n |-> k]
F32(k) == [tag |-> 11, n |-> k]
Str(text) == [tag |-> 14, text |-> text]
Items(items) == [tag |-> 16, items |-> items]
Fields(fields) == [tag |-> 17, fields |-> fields]
NoValue == [tag |-> 18]
Some(value) == [tag |-> 19, some |-> value]

NonFinite == Base - 1
Magic == 20

Earlier(s, t) ==
    \E k \in 0 .. Len(s) :
        /\ k < Len(t) /\ SubSeq(s, 1, k) = SubSeq(t, 1, k)
        /\ k < Len(s) => s[k + 1] < t[k + 1]

\* The keys of a BTreeMap in their order.
KeyOrder(fields) ==
    LET keys == DOMAIN fields IN
    [k \in 1 .. Cardinality(keys) |->
        CHOOSE key \in keys :
            Cardinality({other \in keys : Earlier(other, key)}) = k - 1]

------------------------------------------------------------------------------
(* Encoding.                                                               *)

RECURSIVE WriteValue(_)
WriteValue(v) ==
    CASE v.tag \in {0, 1, 18} -> <<v.tag>>
      [] v.tag \in {2, 11} -> <<v.tag, v.n>>
      [] v.tag = 5 -> <<v.tag, v.n % Base, v.n \div Base>>
      [] v.tag = 14 -> <<v.tag, Len(v.text)>> \o v.text
      [] v.tag = 16 -> <<v.tag, Len(v.items)>>
             \o FlattenSeq([k \in DOMAIN v.items |-> WriteValue(v.items[k])])
      [] v.tag = 17 ->
             LET keys == KeyOrder(v.fields) IN
             <<v.tag, Len(keys)>>
             \o FlattenSeq([k \in DOMAIN keys |->
                    WriteValue(Str(keys[k])) \o WriteValue(v.fields[keys[k]])])
      [] v.tag = 19 -> <<v.tag>> \o WriteValue(v.some)

Full == [ok |-> FALSE, bytes |-> 0, nodes |-> 0]

Reserve_BytesOnly(budget, size) ==
    IF ~ budget.ok \/ budget.bytes + size > BodyCapacity - 1 THEN Full
    ELSE [budget EXCEPT !.bytes = @ + size]

\* Budget::reserve.
Reserve(budget, size) ==
    IF \/ ~ budget.ok
       \/ budget.bytes + size > BodyCapacity - 1
       \/ budget.nodes + 1 > NodeCapacity
    THEN Full
    ELSE [budget EXCEPT !.bytes = @ + size, !.nodes = @ + 1]

\* The serializer: what a value costs, or that it is refused.  A sequence or
\* a field map needs a child level even when it is empty.
RECURSIVE Serialize(_, _, _)
Serialize(v, depth, budget) ==
    LET header == Reserve(budget, 2)
        Each(values) ==
            IF ~ header.ok THEN Full
            ELSE FoldLeft(LAMBDA b, x : Serialize(x, depth + 1, b), header, values)
        child == depth + 1 <= DepthCapacity
    IN
    CASE v.tag \in {0, 1, 18} -> Reserve(budget, 1)
      [] v.tag = 11 /\ v.n = NonFinite -> Full
      [] v.tag \in {2, 11} /\ v.n # NonFinite -> Reserve(budget, 2)
      [] v.tag = 2 /\ v.n = NonFinite -> Reserve(budget, 2)
      [] v.tag = 5 -> Reserve(budget, 3)
      [] v.tag = 14 -> Reserve(budget, 2 + Len(v.text))
      [] v.tag = 16 ->
             IF Len(v.items) > CollectionCapacity \/ ~ child THEN Full
             ELSE Each(v.items)
      [] v.tag = 17 ->
             LET keys == KeyOrder(v.fields) IN
             IF Len(keys) > CollectionCapacity \/ ~ child THEN Full
             ELSE Each(FlattenSeq([k \in DOMAIN keys |->
                          <<Str(keys[k]), v.fields[keys[k]]>>]))
      [] v.tag = 19 ->
             IF ~ child THEN Full
             ELSE Serialize(v.some, depth + 1, Reserve(budget, 1))

Counted(cost, bytes) ==
    IF cost.ok /\ Len(bytes) = 1 + cost.bytes THEN bytes ELSE <<>>

\* encode: the bytes, or none when the serializer refused or miscounted.
Encode(v) ==
    Counted(Serialize(v, 0, [ok |-> TRUE, bytes |-> 0, nodes |-> 0]),
            <<Magic>> \o WriteValue(v))

------------------------------------------------------------------------------
(* Decoding.                                                               *)

Bad == [ok |-> FALSE]
Good(v) == [ok |-> TRUE, value |-> v]
Mapped(r, Of(_)) == IF r.ok THEN [r EXCEPT !.value = Of(@)] ELSE Bad
Pushed(values, one) ==
    IF one.ok THEN [one EXCEPT !.value = Append(values, @)] ELSE Bad

\* The map of alternating keys and values, which are in strict key order.
FieldsIn(r) ==
    LET keys == {k \in DOMAIN r.value : k % 2 = 1}
        At(key) == CHOOSE k \in keys : r.value[k].text = key
    IN
    IF ~ r.ok THEN Bad
    ELSE IF /\ \A k \in keys : r.value[k].tag = 14
            /\ \A k \in keys : k + 2 \in keys =>
                   Earlier(r.value[k].text, r.value[k + 2].text)
    THEN [r EXCEPT !.value = Fields([key \in {r.value[k].text : k \in keys} |->
                                        r.value[At(key) + 1]])]
    ELSE Bad

\* Reader::value: one value from position `at' on, with the nodes so far.
RECURSIVE ReadValue(_, _, _, _)
ReadValue(bytes, at, nodes, depth) ==
    LET has(k) == at + k - 1 <= Len(bytes)
        tag == bytes[at]
        Done(v, k) == [ok |-> TRUE, value |-> v, at |-> at + k,
                       nodes |-> nodes + 1]
        length == bytes[at + 1]
        text == SubSeq(bytes, at + 2, at + 1 + length)
        Next(r, x) ==   \* one more value, as a step to fold over
            IF r.ok THEN Pushed(r.value, ReadValue(bytes, r.at, r.nodes, depth + 1))
            ELSE Bad
        Many(count) ==
            FoldLeft(Next, [ok |-> TRUE, value |-> <<>>, at |-> at + 2,
                            nodes |-> nodes + 1],
                     [k \in 1 .. count |-> k])
    IN
    IF nodes + 1 > NodeCapacity \/ depth > DepthCapacity \/ ~ has(1) THEN Bad
    ELSE CASE tag \in {0, 1, 18} -> Done([tag |-> tag], 1)
      [] tag \in {2, 11} ->
             IF has(2) /\ ~ (tag = 11 /\ bytes[at + 1] = NonFinite)
             THEN Done([tag |-> tag, n |-> bytes[at + 1]], 2) ELSE Bad
      [] tag = 5 ->
             IF has(3)
             THEN Done([tag |-> 5, n |-> bytes[at + 1] + Base * bytes[at + 2]], 3)
             ELSE Bad
      [] tag = 14 ->
             IF has(2) /\ has(2 + length) /\ \A k \in DOMAIN text :
                                                text[k] # NonFinite
             THEN Done(Str(text), 2 + length) ELSE Bad
      [] tag \in {16, 17} ->
             IF ~ has(2) \/ length > CollectionCapacity THEN Bad
             ELSE IF tag = 16 THEN Mapped(Many(length), Items)
             ELSE FieldsIn(Many(2 * length))
      [] tag = 19 -> Mapped(ReadValue(bytes, at + 1, nodes + 1, depth + 1), Some)
      [] OTHER -> Bad

Whole(bytes, r) ==
    IF ~ r.ok THEN Bad ELSE IF r.at = Len(bytes) + 1 THEN r ELSE Bad

\* The envelope both decoders check.
ReadBody(bytes) ==
    IF Len(bytes) > BodyCapacity \/ bytes = <<>> THEN Bad
    ELSE IF bytes[1] # Magic THEN Bad
    ELSE Whole(bytes, ReadValue(bytes, 2, 0, 0))

AllGood(each, Of(_)) ==
    IF \A k \in DOMAIN each : each[k].ok
    THEN Good(Of([k \in DOMAIN each |-> each[k].value])) ELSE Bad

\* The derived Deserialize over the Decoder.  A type is one of u64, f32,
\* text, a unit enum's variants, an option, a vector, a struct or an
\* internally tagged enum (Geometry); a struct ignores unknown fields, a
\* missing option is None, and integers convert.
RECURSIVE Deserialize(_, _)
Deserialize(type, v) ==
    LET Kinded(value) ==
            [value EXCEPT !.fields = (<<1>> :> v.fields[<<1>>]) @@ @]
    IN
    CASE type.is = "u64" -> IF v.tag \in {2, 5} THEN Good(U64(v.n)) ELSE Bad
      [] type.is = "f32" -> IF v.tag \in {2, 5, 11} THEN Good(F32(v.n)) ELSE Bad
      [] type.is = "text" -> IF v.tag = 14 THEN Good(v) ELSE Bad
      [] type.is = "enum" ->
             IF v.tag # 14 THEN Bad
             ELSE IF v.text \in type.of THEN Good(v) ELSE Bad
      [] type.is = "option" ->
             IF v.tag = 18 THEN Good(v)
             ELSE IF v.tag # 19 THEN Bad
             ELSE Mapped(Deserialize(type.of, v.some), Some)
      [] type.is = "vec" ->
             IF v.tag # 16 THEN Bad
             ELSE AllGood([k \in DOMAIN v.items |->
                              Deserialize(type.of, v.items[k])], Items)
      [] type.is = "struct" ->
             IF v.tag # 17 THEN Bad
             ELSE AllGood([key \in DOMAIN type.of |->
                     IF key \in DOMAIN v.fields
                     THEN Deserialize(type.of[key], v.fields[key])
                     ELSE IF type.of[key].is = "option" THEN Good(NoValue)
                     ELSE Bad], Fields)
      [] type.is = "tagged" ->
             IF v.tag # 17 THEN Bad
             ELSE IF <<1>> \notin DOMAIN v.fields THEN Bad
             ELSE IF v.fields[<<1>>].tag # 14 THEN Bad
             ELSE IF v.fields[<<1>>].text \notin DOMAIN type.of THEN Bad
             ELSE Mapped(Deserialize(type.of[v.fields[<<1>>].text], v), Kinded)

Typed(type, r) == IF r.ok THEN Deserialize(type, r.value) ELSE Bad

Exactly(bytes, typed) ==
    IF ~ typed.ok THEN Bad
    ELSE IF Encode(typed.value) = bytes THEN typed ELSE Bad

Decode_Lenient(type, bytes) == Typed(type, ReadBody(bytes))

\* decode: and the value must encode to exactly these bytes.
Decode(type, bytes) == Exactly(bytes, Typed(type, ReadBody(bytes)))

IdentityIn(r) ==
    LET Id(key) == IF key \notin DOMAIN r.value.fields THEN 0
                   ELSE IF r.value.fields[key].tag = 5
                   THEN r.value.fields[key].n ELSE 0
    IN IF ~ r.ok THEN Bad
       ELSE IF r.value.tag # 17 THEN Bad
       ELSE IF Id(<<2>>) = 0 \/ Id(<<3>>) = 0 THEN Bad
       ELSE [ok |-> TRUE, session |-> Id(<<2>>), job |-> Id(<<3>>)]

\* decode_identity: only the two row-key fields, exact in width, positive.
DecodeIdentity(bytes) == IdentityIn(ReadBody(bytes))

------------------------------------------------------------------------------
(* The URDF projection.                                                    *)

Number == [is |-> "f32"]
Text == [is |-> "text"]
Option(type) == [is |-> "option", of |-> type]
Struct(fields) == [is |-> "struct", of |-> fields]
JointTypes == {<<1>>, <<2>>, <<3>>}   \* of the seven

\* struct Joint of the projection.
JointSchema == Struct(
    <<1>> :> [is |-> "enum", of |-> JointTypes]
    @@ <<2>> :> Text                                                \* parent
    @@ <<3>> :> Option(Struct(<<1>> :> Number @@ <<2>> :> Number))  \* dynamics
    @@ <<4>> :> Option(Struct(<<1>> :> Text @@ <<2>> :> Option(Number)
                             @@ <<3>> :> Option(Number))))          \* mimic

Sphere == <<1>>
Mesh == <<2>>

\* enum Geometry, of which a solid and the mesh with its optional scale are
\* kept; struct Visual and struct Link.
GeometrySchema == [is |-> "tagged", of |->
    Sphere :> Struct(<<2>> :> Number)
    @@ Mesh :> Struct(<<2>> :> Text @@ <<3>> :> Option(Number))]
MaterialSchema == Struct(<<1>> :> Text @@ <<2>> :> Option(Text))
LinkSchema == Struct(
    <<1>> :> Number                                          \* inertial
    @@ <<2>> :> [is |-> "vec", of |->
           Struct(<<1>> :> GeometrySchema @@ <<2>> :> Option(MaterialSchema))])
UrdfSchema == Struct(<<1>> :> JointSchema @@ <<2>> :> LinkSchema)

Optional(set, Of(_)) == IF set = {} THEN NoValue
                        ELSE Some(Of(CHOOSE x \in set : TRUE))

\* From<&urdf_rs::Joint>: the link name is unwrapped, options stay options.
ProjectJoint(joint) == Fields(
    <<1>> :> Str(joint.type)
    @@ <<2>> :> Str(joint.parent.link)
    @@ <<3>> :> Optional(joint.dynamics, LAMBDA d :
           Fields(<<1>> :> F32(d.damping) @@ <<2>> :> F32(d.friction)))
    @@ <<4>> :> Optional(joint.mimic, LAMBDA m :
           Fields(<<1>> :> Str(m.joint)
                  @@ <<2>> :> Optional(m.multiplier, F32)
                  @@ <<3>> :> Optional(m.offset, F32))))

\* From<&urdf_rs::Geometry>.
ProjectGeometry(g) ==
    IF g.kind = "sphere"
    THEN Fields(<<1>> :> Str(Sphere) @@ <<2>> :> F32(g.radius))
    ELSE Fields(<<1>> :> Str(Mesh) @@ <<2>> :> Str(g.filename)
                @@ <<3>> :> Optional(g.scale, F32))

\* From<&urdf_rs::Material>.
ProjectMaterial(m) == Fields(<<1>> :> Str(m.name)
                             @@ <<2>> :> Optional(m.texture, Str))

\* From<&urdf_rs::Visual>.
ProjectVisual(v) == Fields(<<1>> :> ProjectGeometry(v.geometry)
                           @@ <<2>> :> Optional(v.material, ProjectMaterial))

\* From<&urdf_rs::Inertial>: the mass is unwrapped.
ProjectInertial(inertial) == F32(inertial.mass.value)

\* From<&urdf_rs::Link>.
ProjectLink(link) == Fields(
    <<1>> :> ProjectInertial(link.inertial)
    @@ <<2>> :> Items([k \in DOMAIN link.visual |->
                          ProjectVisual(link.visual[k])]))

\* From<&urdf_rs::Robot>.
Project(robot) == Fields(<<1>> :> ProjectJoint(robot.joint)
                         @@ <<2>> :> ProjectLink(robot.link))

Given(v, Of(_)) == IF v.tag = 18 THEN {} ELSE {Of(v.some)}

UnprojectJoint_DropsOffset(v) ==
    [type |-> v.fields[<<1>>].text,
     parent |-> [link |-> v.fields[<<2>>].text],
     dynamics |-> Given(v.fields[<<3>>], LAMBDA d :
         [damping |-> d.fields[<<1>>].n, friction |-> d.fields[<<2>>].n]),
     mimic |-> Given(v.fields[<<4>>], LAMBDA m :
         [joint |-> m.fields[<<1>>].text,
          multiplier |-> Given(m.fields[<<2>>], LAMBDA x : x.n),
          offset |-> {}])]

\* From<Joint> for urdf_rs::Joint.
UnprojectJoint(v) ==
    [type |-> v.fields[<<1>>].text,
     parent |-> [link |-> v.fields[<<2>>].text],
     dynamics |-> Given(v.fields[<<3>>], LAMBDA d :
         [damping |-> d.fields[<<1>>].n, friction |-> d.fields[<<2>>].n]),
     mimic |-> Given(v.fields[<<4>>], LAMBDA m :
         [joint |-> m.fields[<<1>>].text,
          multiplier |-> Given(m.fields[<<2>>], LAMBDA x : x.n),
          offset |-> Given(m.fields[<<3>>], LAMBDA x : x.n)])]

\* From<Geometry> for urdf_rs::Geometry.
UnprojectGeometry(v) ==
    IF v.fields[<<1>>].text = Sphere
    THEN [kind |-> "sphere", radius |-> v.fields[<<2>>].n]
    ELSE [kind |-> "mesh", filename |-> v.fields[<<2>>].text,
          scale |-> Given(v.fields[<<3>>], LAMBDA x : x.n)]

\* From<Material> for urdf_rs::Material.
UnprojectMaterial(v) ==
    [name |-> v.fields[<<1>>].text,
     texture |-> Given(v.fields[<<2>>], LAMBDA x : x.text)]

\* From<Visual> for urdf_rs::Visual.
UnprojectVisual(v) ==
    [geometry |-> UnprojectGeometry(v.fields[<<1>>]),
     material |-> Given(v.fields[<<2>>], UnprojectMaterial)]

\* From<Inertial> for urdf_rs::Inertial.
UnprojectInertial(v) == [mass |-> [value |-> v.n]]

\* From<Link> for urdf_rs::Link.
UnprojectLink(v) ==
    [inertial |-> UnprojectInertial(v.fields[<<1>>]),
     visual |-> [k \in DOMAIN v.fields[<<2>>].items |->
                    UnprojectVisual(v.fields[<<2>>].items[k])]]

\* From<Model> for urdf_rs::Robot.
Unproject(v) == [joint |-> UnprojectJoint(v.fields[<<1>>]),
                 link |-> UnprojectLink(v.fields[<<2>>])]

------------------------------------------------------------------------------
(* The typed body.                                                         *)

Virtual == <<1>>
Physical == <<2>>

\* struct Capture: position, order and frames of the evidence, the stamped
\* and the accepted generation, the stop attempts that failed (their number
\* and the action of each attempt), and the physical acknowledgement.
CaptureSchema == Struct(
    <<1>> :> Number @@ <<2>> :> [is |-> "u64"] @@ <<3>> :> [is |-> "u64"]
    @@ <<4>> :> [is |-> "u64"] @@ <<5>> :> [is |-> "u64"]
    @@ <<6>> :> [is |-> "vec", of |-> [is |-> "enum",
                                       of |-> {<<1>>, <<2>>, <<3>>}]]
    @@ <<7>> :> Option(Number))

\* struct Body: class, session, job, capture and model.
BodySchema == Struct(
    <<1>> :> [is |-> "enum", of |-> {Virtual, Physical}]
    @@ <<2>> :> [is |-> "u64"] @@ <<3>> :> [is |-> "u64"]
    @@ <<4>> :> CaptureSchema @@ <<5>> :> UrdfSchema)

\* journal_input: what the transaction staged becomes a capture.
Capture(c) == Fields(
    <<1>> :> F32(c.position) @@ <<2>> :> U64(c.order) @@ <<3>> :> U64(c.frames)
    @@ <<4>> :> U64(c.stamped) @@ <<5>> :> U64(c.accepted)
    @@ <<6>> :> Items([k \in 1 .. 3 |-> Str(<<k>>)])
    @@ <<7>> :> IF c.ack = NonFinite THEN NoValue ELSE Some(F32(c.ack)))

\* Input::encode up to the codec.
Body(session, job, c, robot) == Fields(
    <<1>> :> Str(IF c.ack = NonFinite THEN Virtual ELSE Physical)
    @@ <<2>> :> U64(session) @@ <<3>> :> U64(job)
    @@ <<4>> :> Capture(c) @@ <<5>> :> Project(robot))

\* A body an older binary wrote: its policy had a field that was retired, or
\* lacked one that is optional now.
Older(body) == {[body EXCEPT !.fields = (<<6>> :> Bool(TRUE)) @@ @],
                [body EXCEPT !.fields[<<4>>].fields =
                     [key \in DOMAIN @ \ {<<7>>} |-> @[key]]]}

\* Body::validate.
Validate(body) ==
    LET b == body.fields
        c == b[<<4>>].fields
    IN /\ b[<<1>>].text = Virtual <=> c[<<7>>].tag = 18
       /\ c[<<7>>].tag = 19 => c[<<7>>].some.n <= Tolerance
       /\ b[<<2>>].n > 0 /\ b[<<3>>].n > 0
       /\ c[<<1>>].n <= Tolerance
       /\ c[<<5>>].n > c[<<4>>].n
       /\ c[<<6>>].items = [k \in 1 .. 3 |-> Str(<<k>>)]
       /\ c[<<2>>].n < c[<<3>>].n

------------------------------------------------------------------------------
(* The journal row.                                                        *)

Digest(bytes) == <<"sha256", bytes>>

IsBodyOf(r, d) ==
    /\ d.ok
    /\ Validate(d.value)
    /\ d.value.fields[<<2>>].n = r.session /\ d.value.fields[<<3>>].n = r.job

\* checked_body: the readback of an append.
CheckedBody(r) ==
    r.sum = Digest(r.body) /\ IsBodyOf(r, Decode(BodySchema, r.body))

IsKeyOf(r, id) == id.ok /\ id.session = r.session /\ id.job = r.job

\* checked_history_row.
CheckedHistoryRow(r) ==
    r.sum = Digest(r.body) /\ IsKeyOf(r, DecodeIdentity(r.body))

NoRow == [session |-> 0, job |-> 0, body |-> <<>>, sum |-> <<>>]

CodecInit ==
    /\ stage = "typed"
    /\ \E c \in Captures, robot \in Robots :
          LET body == Body(1, 2, c, robot) IN
          doc \in {[old |-> FALSE, tree |-> body, robot |-> robot]}
                  \cup {[old |-> TRUE, tree |-> t, robot |-> robot] :
                           t \in Older(body)}
    /\ row = NoRow /\ damage = <<>> /\ seen = [kind |-> "nothing"]

\* Input::encode, then Database::append: checked_body, insert and commit.
\* (The readback compares with what was written and checks it again.)
Appends ==
    /\ stage = "typed"
    /\ \E bytes \in {Encode(doc.tree)} :
          IF bytes = <<>> THEN stage' = "refused" /\ row' = row
          ELSE /\ row' = [session |-> 1, job |-> 2, body |-> bytes,
                          sum |-> Digest(bytes)]
               /\ stage' = IF doc.old \/ CheckedBody(row') THEN "stored"
                           ELSE "failed"
    /\ UNCHANGED <<doc, damage, seen>>

\* The file changes under the journal: bits rot, or another writer's row.
Damages ==
    /\ stage = "stored" /\ Len(damage) < MaxDamage
    /\ \E how \in {"body", "rewritten"},
          body \in {[row.body EXCEPT ![k] = x] :
                        k \in DOMAIN row.body, x \in Junk}
                   \cup {SubSeq(row.body, 1, Len(row.body) - 1),
                         Append(row.body, 1)} :
          /\ body # row.body
          /\ row' = [row EXCEPT !.body = body,
                        !.sum = IF how = "body" THEN @ ELSE Digest(body)]
          /\ damage' = Append(damage, how)
    /\ UNCHANGED <<stage, doc, seen>>

Rekeys ==
    /\ stage = "stored" /\ Len(damage) < MaxDamage
    /\ \E s \in 1 .. 2, j \in 1 .. 2 :
          /\ <<s, j>> # <<row.session, row.job>>
          /\ row' = [row EXCEPT !.session = s, !.job = j]
    /\ damage' = Append(damage, "key")
    /\ UNCHANGED <<stage, doc, seen>>

ValidateHistory_Skipped == TRUE   \* mutant: a row is shown unchecked

\* Database::open: validate_history over every row.
ValidateHistory == CheckedHistoryRow(row)

Identified(id, d) ==
    IF id.ok /\ d.ok
    THEN IF /\ d.value.fields[<<2>>].n = id.session
            /\ d.value.fields[<<3>>].n = id.job
            /\ Validate(d.value)
         THEN d ELSE Bad
    ELSE Bad

\* ReferenceHistoryRecord::from_body: identity, typed body and validation.
FromBody(body) == Identified(DecodeIdentity(body), Decode(BodySchema, body))

LegacyOf(id) == [kind |-> "legacy", session |-> id.session, job |-> id.job]

\* ReferenceHistoryRecord::legacy.
Legacy(body) == LegacyOf(DecodeIdentity(body))

ShownAs(d) ==
    IF d.ok THEN [kind |-> "record", value |-> d.value,
                  robot |-> Unproject(d.value.fields[<<5>>])]
    ELSE IF CheckedHistoryRow(row) THEN Legacy(row.body)
    ELSE [kind |-> "error"]

\* inspect: a record, a legacy record, or an error.
Inspects ==
    /\ stage = "stored" /\ stage' = "closed"
    /\ seen' = IF ValidateHistory THEN ShownAs(FromBody(row.body))
               ELSE [kind |-> "error"]
    /\ UNCHANGED <<doc, row, damage>>

CodecNext == Appends \/ Damages \/ Rekeys \/ Inspects
CodecSpec == CodecInit /\ [][CodecNext]_codecvars

------------------------------------------------------------------------------
(* Properties.                                                             *)

RECURSIVE NodesOf(_)
NodesOf(v) ==
    CASE v.tag = 16 -> 1 + FoldLeft(LAMBDA n, x : n + NodesOf(x), 0, v.items)
      [] v.tag = 17 -> 1 + FoldLeft(LAMBDA n, key : n + 1 + NodesOf(v.fields[key]),
                                    0, KeyOrder(v.fields))
      [] v.tag = 19 -> 1 + NodesOf(v.some)
      [] OTHER -> 1

\* How many levels of sequences, maps and options a value has.
RECURSIVE LevelsOf(_)
LevelsOf(v) ==
    LET Most(values) == 1 + FoldLeft(LAMBDA n, x :
                IF LevelsOf(x) > n THEN LevelsOf(x) ELSE n, 0, values)
    IN CASE v.tag = 16 -> Most(v.items)
         [] v.tag = 17 -> Most([k \in 1 .. Cardinality(DOMAIN v.fields) |->
                                   v.fields[KeyOrder(v.fields)[k]]])
         [] v.tag = 19 -> Most(<<v.some>>)
         [] OTHER -> 0

\* The encoder and the reader count alike: a body is refused when it is too
\* large and for nothing else, and one that was encoded always reads back,
\* so that the check of an append never fails at a limit.
LimitsAgree ==
    /\ stage # "failed"
    /\ stage = "refused" =>
           \/ NodesOf(doc.tree) > NodeCapacity
           \/ LevelsOf(doc.tree) > DepthCapacity
           \/ Len(WriteValue(doc.tree)) + 1 > BodyCapacity
    /\ (stage = "stored" /\ damage = <<>>) => Len(row.body) <= BodyCapacity

\* An untouched row is shown as what was appended, URDF included, or as
\* legacy when an older schema wrote it; it is never an error.
UntouchedIsShown ==
    (stage = "closed" /\ damage = <<>>) =>
        IF doc.old THEN seen = [kind |-> "legacy", session |-> 1, job |-> 2]
        ELSE /\ seen.kind = "record"
             /\ seen.value = doc.tree /\ seen.robot = doc.robot

\* A row whose body or key was damaged is an error, and a row another
\* writer sealed is shown as a record only if it is exactly what this
\* binary would have written for that record.
ShownIsExact ==
    (stage = "closed" /\ damage # <<>>) =>
        /\ damage[Len(damage)] = "body" => seen.kind = "error"
        /\ seen.kind = "record" =>
               /\ Encode(seen.value) = row.body
               /\ Project(seen.robot) = seen.value.fields[<<5>>]
               /\ seen.value.fields[<<2>>].n = row.session
               /\ seen.value.fields[<<3>>].n = row.job
        /\ seen.kind = "legacy" => seen.session = row.session

\* The promises of the journal's rows.
CodecHolds == LimitsAgree /\ UntouchedIsShown /\ ShownIsExact
==============================================================================
