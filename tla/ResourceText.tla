--------------------------- MODULE ResourceText ---------------------------
(***************************************************************************)
(* How resources and attributes are read from the command line             *)
(* (resources.cpp, attributes.cpp).                                        *)
(*                                                                         *)
(* The text of resources is [json, array, items]: json says whether it     *)
(* parses as a JSON array, whose Resource messages array optionally holds  *)
(* (<<>> if they are not formatted properly); otherwise items are its      *)
(* parts between semicolons, [pieces, name, parens, role, text], with the  *)
(* number of pieces between colons and whether the parentheses around a    *)
(* role are "none", "matched" or "mismatched".  An attribute is            *)
(* [name, type, val, has].                                                 *)
(***************************************************************************)
EXTENDS ResourceOperations

Plain(name, type, val) ==
    [name |-> name, type |-> type, val |-> val, has |-> {type},
     alloc |-> <<>>, resv |-> <<>>, disk |-> <<>>, revocable |-> FALSE,
     shared |-> FALSE, provider |-> <<>>, role |-> <<>>,
     reservation |-> <<>>]

Static(role) == [kind |-> "STATIC", role |-> role, principal |-> <<>>,
                 labels |-> <<>>]

\* all of the optional values, or none if one is missing
Sequence(options) ==
    IF \E i \in DOMAIN options : options[i] = <<>> THEN <<>>
    ELSE <<[i \in DOMAIN options |-> options[i][1]]>>

\* Resources::parse(name, value, role)
ParseResource(name, text, role) ==
    LET Typed(value) ==
            IF value.type \in {"error", "TEXT"} THEN <<>>
            ELSE <<[Plain(name, value.type, value.val) EXCEPT
                        !.resv = IF role = Star THEN <<>> ELSE <<Static(role)>>]>>
    IN  Typed(Parse(text))

FromJSON(array, defaultRole) ==
    LET Default(r) == IF r.role = <<>> /\ r.resv = <<>>
                      THEN [r EXCEPT !.role = <<defaultRole>>] ELSE r
    IN  IF array = <<>> THEN <<>>
        ELSE <<[i \in DOMAIN array[1] |-> Default(array[1][i])]>>

FromSimpleString(items, defaultRole) ==
    LET One(item) ==
            IF item.pieces # 2 \/ item.parens = "mismatched" THEN <<>>
            ELSE ParseResource(item.name, item.text,
                               IF item.parens = "none" THEN defaultRole
                                                       ELSE item.role)
    IN  Sequence([i \in DOMAIN items |-> One(items[i])])

FromString(input, defaultRole) ==
    IF input.json THEN FromJSON(input.array, defaultRole)
                  ELSE FromSimpleString(input.items, defaultRole)

\* Seeded fault: only a scalar is compared with the resources before it.
ValidateScalars(pool) ==
    /\ \A i \in DOMAIN pool :
           /\ ~IsPersistentVolume(pool[i].r)
           /\ ~IsRevocable(pool[i].r)
           /\ ~IsDynamicallyReserved(pool[i].r)
    /\ \A i \in DOMAIN pool : \A j \in 1 .. i - 1 :
           pool[i].r.name = pool[j].r.name /\ pool[i].r.type = "SCALAR"
               => pool[j].r.type = "SCALAR"

\* no volume, revocable or dynamically reserved resource, and one type for
\* each name
ValidateCommandLineResources(pool) ==
    /\ \A i \in DOMAIN pool :
           /\ ~IsPersistentVolume(pool[i].r)
           /\ ~IsRevocable(pool[i].r)
           /\ ~IsDynamicallyReserved(pool[i].r)
    /\ \A i, j \in DOMAIN pool :
           pool[i].r.name = pool[j].r.name => pool[i].r.type = pool[j].r.type

\* Resources::parse(text, defaultRole)
ParseResources(input, defaultRole) ==
    LET Checked(result) ==
            IF ValidateCommandLineResources(result) THEN <<result>> ELSE <<>>
        Convert(read) ==
            IF read = <<>> \/ ~ValidateAll(read[1]) THEN <<>>
            ELSE Checked(Plus(<<>>, [i \in DOMAIN read[1] |->
                                        Copy(ConvertToPost(read[1][i]))]))
    IN  Convert(FromString(input, defaultRole))

--------------------------------------------------------------------------
(* Attributes *)

\* Attributes::get(Attribute): the first of that name and type
GetAttribute(attributes, a) ==
    LET i == SelectInSeq(attributes,
                 LAMBDA x : x.name = a.name /\ x.type = a.type)
    IN  IF i = 0 THEN <<>> ELSE <<attributes[i]>>

\* Seeded fault: attributes are compared position by position.
AttributesInOrder(l, r) ==
    Len(l) = Len(r) /\ \A i \in DOMAIN l : l[i] = r[i]

\* a set ends the process
AttributesEq(l, r) ==
    /\ Len(l) = Len(r)
    /\ \A i \in DOMAIN l :
           LET that == GetAttribute(r, l[i])
           IN  /\ that # <<>>
               /\ CASE l[i].type = "SCALAR" -> ScalarEq(l[i].val, that[1].val)
                    [] l[i].type = "RANGES" -> RangesEq(l[i].val, that[1].val)
                    [] l[i].type = "TEXT" -> l[i].val = that[1].val

\* Attributes::parse(name, text): <<>> stands for the LOG(FATAL)
ParseAttribute(name, text) ==
    LET Typed(value) ==
            IF value.type \in {"error", "SET"} THEN <<>>
            ELSE <<[name |-> name, type |-> value.type, val |-> value.val,
                    has |-> {value.type}]>>
    IN  Typed(Parse(text))

\* of pairs [colon, name, text]
ParseAttributes(pairs) ==
    LET One(p) == IF ~p.colon \/ p.name = "" \/ p.text = <<>> THEN <<>>
                  ELSE ParseAttribute(p.name, p.text)
    IN  Sequence([i \in DOMAIN pairs |-> One(pairs[i])])

AttributeValid(a) ==
    /\ a.name # ""
    /\ a.type \in {"SCALAR", "RANGES", "TEXT"}
    /\ a.type \in a.has

\* Attributes::get(name, default) for scalars, ranges and texts
AttributeOr(attributes, name, type, default) ==
    LET i == SelectInSeq(attributes,
                 LAMBDA x : x.name = name /\ x.type = type)
    IN  IF i = 0 THEN default ELSE attributes[i].val
=============================================================================
