----------------------------- MODULE Resources -----------------------------
(***************************************************************************)
(* The Resources class (resources.cpp), the collection in which offers,    *)
(* tasks and agents keep what they have, with the roles it depends on      *)
(* (roles.cpp).                                                            *)
(*                                                                         *)
(* An optional field is <<>> or <<value>>.  A Resource is a record         *)
(*   name, type, val   the quantity (module Values);                       *)
(*   has               the value fields that are set, {type} in a sound    *)
(*                     resource;                                           *)
(*   alloc             optional AllocationInfo, itself an optional role;   *)
(*   resv              the stack of ReservationInfo                        *)
(*                     [kind, role, principal, labels];                    *)
(*   disk              optional [source, persistence], both optional, a    *)
(*                     source being [type, path, mount] whose optional     *)
(*                     path and mount hold an optional root;               *)
(*   revocable, shared whether the field is set;                           *)
(*   provider          optional id;                                        *)
(*   role, reservation the fields of the old format: an optional role and  *)
(*                     an optional ReservationInfo.                        *)
(* A role is the sequence of its components between slashes.  A Resources  *)
(* object is a sequence of Resource_ [r, n], n being the sharedCount (1    *)
(* and unused when r is not shared).                                       *)
(***************************************************************************)
EXTENDS Values

CONSTANTS Dashed,   \* the role components that start with a dash
          Spaced    \* the role components that hold white space

--------------------------------------------------------------------------
(* Roles *)

Star == <<"*">>

\* left is right, a slash, and more
IsStrictSubroleOf(left, right) == IsStrictPrefix(right, left)

\* An empty component is a leading, trailing or doubled slash, or the empty
\* role.
RoleValid(role) ==
    \/ role = Star
    \/ \A i \in DOMAIN role :
           role[i] \notin {"", ".", "..", "*"} \cup Dashed \cup Spaced

--------------------------------------------------------------------------
(* Equality of the parts of a resource *)

LabelEq(l, r) == l.key = r.key /\ l.value = r.value

\* Repeated fields without an order are compared like labels everywhere: as
\* many elements, and each of the left's found somewhere in the right.
LabelsEq(l, r) ==
    Len(l) = Len(r) /\ \A i \in DOMAIN l : \E j \in DOMAIN r : LabelEq(l[i], r[j])

AllocationInfoEq(l, r) == l = r     \* an optional role

ReservationInfoEq(l, r) ==
    /\ l.kind = r.kind
    /\ l.role = r.role
    /\ l.principal = r.principal
    /\ Len(l.labels) = Len(r.labels)
    /\ \A i \in DOMAIN l.labels : LabelsEq(l.labels[i], r.labels[i])

PathEq(l, r) == l = r     \* an optional root

MountEq(l, r) == l = r

\* the value of an optional message: its default, without a root, if unset
MessageOr(optional) == IF optional = <<>> THEN <<>> ELSE optional[1]

\* only the left side's path and mount are looked for
SourceEq(l, r) ==
    /\ l.type = r.type
    /\ l.path # <<>> => PathEq(l.path[1], MessageOr(r.path))
    /\ l.mount # <<>> => MountEq(l.mount[1], MessageOr(r.mount))

DiskInfoEq(l, r) ==
    /\ Len(l.source) = Len(r.source)
    /\ \A i \in DOMAIN l.source : SourceEq(l.source[i], r.source[i])
    /\ l.persistence = r.persistence

ValueEq(l, r) ==
    CASE l.type = "SCALAR" -> ScalarEq(l.val, r.val)
      [] l.type = "RANGES" -> RangesEq(l.val, r.val)
      [] l.type = "SET" -> SetEq(l.val, r.val)
      [] OTHER -> FALSE

\* both have a DiskInfo, and equal ones, or neither has
SameDisk(l, r) ==
    Len(l) = Len(r) /\ \A i \in DOMAIN l : DiskInfoEq(l[i], r[i])

\* everything but the quantity, DiskInfo and SharedInfo
SameMeta(l, r) ==
    /\ l.name = r.name /\ l.type = r.type
    /\ AllocationInfoEq(l.alloc, r.alloc)
    /\ Len(l.resv) = Len(r.resv)
    /\ \A i \in DOMAIN l.resv : ReservationInfoEq(l.resv[i], r.resv[i])
    /\ l.revocable = r.revocable
    /\ l.provider = r.provider

ResourceEq(l, r) ==
    /\ SameMeta(l, r)
    /\ SameDisk(l.disk, r.disk)
    /\ l.shared = r.shared
    /\ ValueEq(l, r)

IsMount(disk) == disk.source # <<>> /\ disk.source[1].type = "MOUNT"

\* a volume or an exclusive disk
OnlyWhole(disk) ==
    \E i \in DOMAIN disk : IsMount(disk[i]) \/ disk[i].persistence # <<>>

\* Whether two resources may be merged into one: never two volumes, nor two
\* exclusive disks
Addable(l, r) ==
    /\ l.shared = r.shared
    /\ SameMeta(l, r)
    /\ SameDisk(l.disk, r.disk)
    /\ IF l.shared THEN ValueEq(l, r) ELSE ~OnlyWhole(l.disk)

\* Seeded fault: a part of a volume may be taken out of it.
SubtractableInPart(l, r) ==
    /\ l.shared = r.shared
    /\ SameMeta(l, r)
    /\ SameDisk(l.disk, r.disk)

\* Whether the right may be taken out of the left: a volume or an exclusive
\* disk only as a whole
Subtractable(l, r) ==
    /\ l.shared = r.shared
    /\ SameMeta(l, r)
    /\ SameDisk(l.disk, r.disk)
    /\ l.shared \/ OnlyWhole(l.disk) => ValueEq(l, r)

InternalContains(l, r) ==
    /\ Subtractable(l, r)
    /\ CASE l.type = "SCALAR" -> ScalarLeq(r.val, l.val)
         [] l.type = "RANGES" -> RangesLeq(r.val, l.val)
         [] l.type = "SET" -> SetLeq(r.val, l.val)
         [] OTHER -> FALSE

ResourcePlus(l, r) ==
    [l EXCEPT !.val = CASE l.type = "SCALAR" -> ScalarPlus(@, r.val)
                        [] l.type = "RANGES" -> RangesPlus(@, r.val)
                        [] l.type = "SET" -> SetPlus(@, r.val)
                        [] OTHER -> @]

ResourceMinus(l, r) ==
    [l EXCEPT !.val = CASE l.type = "SCALAR" -> ScalarMinus(@, r.val)
                        [] l.type = "RANGES" -> RangesMinus(@, r.val)
                        [] l.type = "SET" -> SetMinus(@, r.val)
                        [] OTHER -> @]

--------------------------------------------------------------------------
(* The predicates on one resource *)

\* Resources::isEmpty
EmptyResource(r) ==
    CASE r.type = "SCALAR" -> ScalarEq(r.val, 0)
      [] r.type \in {"RANGES", "SET"} -> r.val = <<>>
      [] OTHER -> FALSE

IsPersistentVolume(r) == r.disk # <<>> /\ r.disk[1].persistence # <<>>

IsUnreserved(r) == r.resv = <<>>

ReservationRole(r) == Last(r.resv).role

\* Seeded fault: a role's resources are those of the roles below it too.
IsReservedBelow(r, role) ==
    ~IsUnreserved(r) /\ \A i \in DOMAIN role : IsPrefix(role[i], ReservationRole(r))

\* role is optional
IsReserved(r, role) ==
    ~IsUnreserved(r) /\ \A i \in DOMAIN role : role[i] = ReservationRole(r)

IsAllocatableTo(r, role) ==
    \/ IsUnreserved(r)
    \/ role = ReservationRole(r)
    \/ IsStrictSubroleOf(role, ReservationRole(r))

IsDynamicallyReserved(r) == IsReserved(r, <<>>) /\ Last(r.resv).kind = "DYNAMIC"

IsRevocable(r) == r.revocable

IsShared(r) == r.shared

HasRefinedReservations(r) == Len(r.resv) > 1

--------------------------------------------------------------------------
(* Resources::validate *)

ValidValue(r) ==
    /\ r.has = {r.type}
    /\ CASE r.type = "SCALAR" -> r.val >= 0
         [] r.type = "RANGES" ->
                \A i \in DOMAIN r.val :
                    /\ r.val[i].b <= r.val[i].e
                    /\ \A j \in i + 1 .. Len(r.val) :
                           r.val[j].b \notin r.val[i].b .. r.val[i].e
         [] r.type = "SET" -> IsInjective(r.val)
         [] OTHER -> FALSE

ValidDisk(r) ==
    r.disk # <<>> =>
        /\ r.name = "disk"
        /\ r.disk[1].source # <<>> => r.disk[1].source[1].type # "UNKNOWN"

\* an unset optional role reads "*"
RoleOf(r) == IF r.role = <<>> THEN Star ELSE r.role[1]

\* the format before the refinement of reservations: role and reservation
ValidOldFormat(r) ==
    /\ RoleValid(RoleOf(r))
    /\ r.reservation # <<>> =>
           /\ r.reservation[1].kind = "unset"
           /\ r.reservation[1].role = <<>>
           /\ RoleOf(r) # Star

\* Seeded fault: a reservation may be refined for an unrelated role.
RefinedByAnyone(resv) == \A i \in 2 .. Len(resv) : resv[i].kind # "STATIC"

\* Every reservation below the first is dynamic, for a role below the
\* one before it
CorrectlyRefined(resv) ==
    \A i \in 2 .. Len(resv) :
        /\ resv[i].kind # "STATIC"
        /\ IsStrictSubroleOf(resv[i].role, resv[i - 1].role)

\* the old fields may repeat a single reservation, as the endpoints do
ConsistentOldFields(r) ==
    LET single == r.resv[1]
    IN  IF Len(r.resv) = 1
        THEN /\ r.role # <<>> => r.role[1] = single.role
             /\ CASE single.kind = "STATIC" -> r.reservation = <<>>
                  [] single.kind = "DYNAMIC" ->
                        /\ (r.role # <<>>) = (r.reservation # <<>>)
                        /\ r.reservation # <<>> =>
                             /\ r.reservation[1].principal = single.principal
                             /\ LabelsEq(MessageOr(r.reservation[1].labels),
                                         MessageOr(single.labels))
                  [] OTHER -> FALSE
        ELSE r.role = <<>> /\ r.reservation = <<>>

ValidReservations(r) ==
    /\ \A i \in DOMAIN r.resv :
           /\ r.resv[i].kind # "unset"
           /\ r.resv[i].role # <<>>
           /\ RoleValid(r.resv[i].role)
           /\ r.resv[i].role # Star
    /\ CorrectlyRefined(r.resv)
    /\ ConsistentOldFields(r)

\* only persistent volumes are shared
ValidShared(r) == r.shared => r.name = "disk" /\ IsPersistentVolume(r)

Validate(r) ==
    /\ r.name # ""
    /\ ValidValue(r)
    /\ ValidDisk(r)
    /\ IF r.resv = <<>> THEN ValidOldFormat(r) ELSE ValidReservations(r)
    /\ ValidShared(r)

ValidateAll(rs) == \A i \in DOMAIN rs : Validate(rs[i])

--------------------------------------------------------------------------
(* Resource_: a resource and how many copies of it are shared *)

Copy(r) == [r |-> r, n |-> 1]

CopyValid(x) == (x.r.shared => x.n >= 0) /\ Validate(x.r)

CopyEmpty(x) == (x.r.shared /\ x.n = 0) \/ EmptyResource(x.r)

CopyContains(x, y) ==
    /\ x.r.shared = y.r.shared
    /\ IF x.r.shared THEN x.n >= y.n /\ ResourceEq(x.r, y.r)
                     ELSE InternalContains(x.r, y.r)

CopyPlus(x, y) == IF x.r.shared THEN [x EXCEPT !.n = @ + y.n]
                                ELSE [x EXCEPT !.r = ResourcePlus(@, y.r)]

CopyMinus(x, y) == IF x.r.shared THEN [x EXCEPT !.n = @ - y.n]
                                 ELSE [x EXCEPT !.r = ResourceMinus(@, y.r)]

--------------------------------------------------------------------------
(* Resources *)

\* Seeded fault: an added resource is never merged.
AddAppends(pool, x) == IF CopyEmpty(x) THEN pool ELSE Append(pool, x)

AddTo(pool, x, allowing) ==
    IF allowing = {} THEN Append(pool, x)
    ELSE [pool EXCEPT ![Min(allowing)] = CopyPlus(@, x)]

\* merged into the first entry that allows it, appended if none does
Add(pool, x) ==
    IF CopyEmpty(x) THEN pool
    ELSE AddTo(pool, x, {i \in DOMAIN pool : Addable(pool[i].r, x.r)})

\* operator+= of one resource and of another Resources
PlusOne(pool, r) == IF CopyValid(Copy(r)) THEN Add(pool, Copy(r)) ELSE pool
RECURSIVE Plus(_, _)
Plus(pool, that) ==
    IF that = <<>> THEN pool ELSE Plus(Add(pool, Head(that)), Tail(that))

\* the constructors
RECURSIVE Make(_)
Make(rs) == IF rs = <<>> THEN <<>> ELSE PlusOne(Make(Front(rs)), Last(rs))

\* Seeded fault: the last entry is dropped, whichever was to be.
DropLast(pool, i) == Front(pool)

\* entry i is overwritten by the last one, and the last dropped
DropEntry(pool, i) == Front([pool EXCEPT ![i] = Last(pool)])

NegativeCopy(x) ==
    (x.r.shared /\ x.n < 0) \/ (x.r.type = "SCALAR" /\ x.r.val < 0)

\* Seeded fault: what is left of an entry stays when it is negative.
LeaveNegative(pool, i, rest) ==
    IF CopyEmpty(rest) THEN DropEntry(pool, i) ELSE [pool EXCEPT ![i] = rest]

\* what is left of entry i is dropped when it is negative or empty
Leave(pool, i, rest) ==
    IF NegativeCopy(rest) \/ CopyEmpty(rest) THEN DropEntry(pool, i)
    ELSE [pool EXCEPT ![i] = rest]

SubtractFrom(pool, x, allowing) ==
    IF allowing = {} THEN pool
    ELSE Leave(pool, Min(allowing), CopyMinus(pool[Min(allowing)], x))

\* taken from the first entry that allows it
Subtract(pool, x) ==
    IF CopyEmpty(x) THEN pool
    ELSE SubtractFrom(pool, x, {i \in DOMAIN pool : Subtractable(pool[i].r, x.r)})

MinusOne(pool, r) == IF CopyValid(Copy(r)) THEN Subtract(pool, Copy(r))
                                           ELSE pool
RECURSIVE Minus(_, _)
Minus(pool, that) ==
    IF that = <<>> THEN pool ELSE Minus(Subtract(pool, Head(that)), Tail(that))

SomeContains(pool, x) == \E i \in DOMAIN pool : CopyContains(pool[i], x)

\* contains(Resources): only volumes are taken out of what remains
RECURSIVE ContainsPool(_, _)
ContainsPool(pool, that) ==
    \/ that = <<>>
    \/ /\ SomeContains(pool, Head(that))
       /\ ContainsPool(IF IsPersistentVolume(Head(that).r)
                       THEN Subtract(pool, Head(that)) ELSE pool, Tail(that))

ContainsOne(pool, r) == Validate(r) /\ SomeContains(pool, Copy(r))

PoolEq(pool, that) == ContainsPool(pool, that) /\ ContainsPool(that, pool)

CountOf(pool, r) ==
    LET same == {i \in DOMAIN pool : ResourceEq(pool[i].r, r)}
    IN  IF same = {} THEN 0
        ELSE IF pool[Min(same)].r.shared THEN pool[Min(same)].n ELSE 1

=============================================================================
