------------------------------ MODULE Library ------------------------------
(***************************************************************************)
(* The library under the drivers at work: a Resources object that is added *)
(* to, taken from and changed by offer operations, beside a ledger of what *)
(* it ought to hold; and single computations, each on an input chosen at   *)
(* the start.  The pool's entries, their order and their merging are the   *)
(* code's business; the ledger only knows how much there is of what.       *)
(***************************************************************************)
EXTENDS TypeUtils, Fetcher

CONSTANTS Stock,        \* the Resources an agent starts with, a set of them
          Parcels,      \* the resources that are added and subtracted
          Operations,   \* the offer operations that are applied
          Targets,      \* the resources that are looked for
          MaxSteps,     \* bound on the changes of a pool
          Inputs(_)     \* the inputs of single computations of each kind

VARIABLES pool,     \* the Resources object
          ledger,   \* what it ought to hold: a quantity for every key
          steps,    \* changes so far
          input     \* [kind |-> "pool"], or the input of a computation

Kinds == {"ranges", "sets", "scalars", "wire", "command line", "attributes",
          "messages", "fetch"}

vars == <<pool, ledger, steps, input>>

--------------------------------------------------------------------------
(* The ledger *)

\* a volume, a shared resource or an exclusive disk is never split
Exclusive(r) ==    r.shared \/ OnlyWhole(r.disk)

Key(r) == <<[r EXCEPT !.val = 0], IF Exclusive(r) THEN <<r.val>> ELSE <<>>>>

PointsOf(rs) == UNION {rs[i].b .. rs[i].e : i \in DOMAIN rs}

Quantity(x) ==
    CASE Exclusive(x.r) -> x.n
      [] ~Exclusive(x.r) /\ x.r.type = "SCALAR" -> ConvertToFixed(x.r.val)
      [] x.r.type = "RANGES" -> PointsOf(x.r.val)
      [] x.r.type = "SET" -> ToSet(x.r.val)

IsAmount(r) == r.type = "SCALAR"    \* quantities are numbers, else sets

Nothing(r) == IF IsAmount(r) THEN 0 ELSE {}

Held(l, r) == IF Key(r) \in DOMAIN l THEN l[Key(r)] ELSE Nothing(r)

Set(l, r, quantity) ==
    [k \in (DOMAIN l \ {Key(r)})
           \cup {x \in {Key(r)} : IF IsAmount(r) THEN quantity > 0 ELSE quantity # {}}
        |-> IF k = Key(r) THEN quantity ELSE l[k]]

Credit(l, x) ==
    Set(l, x.r, IF IsAmount(x.r) THEN Held(l, x.r) + Quantity(x)
                ELSE Held(l, x.r) \cup Quantity(x))

Debit(l, x) ==
    Set(l, x.r, IF IsAmount(x.r) THEN Held(l, x.r) - Quantity(x)
                ELSE Held(l, x.r) \ Quantity(x))

Covers(l, x) ==
    /\ Key(x.r) \in DOMAIN l
    /\ IF IsAmount(x.r) THEN Quantity(x) <= Held(l, x.r)
       ELSE Quantity(x) \subseteq Held(l, x.r)

RECURSIVE Denote(_)
Denote(p) == IF p = <<>> THEN <<>> ELSE Credit(Denote(Front(p)), Last(p))

Popped(r) == [r EXCEPT !.resv = Front(@)]

\* every operation moves resources from one key to another, or is refused
MoveOf(op, i) ==
    LET r == op.resources[i]
    IN  CASE op.type = "RESERVE" -> <<Popped(r), r>>
          [] op.type = "UNRESERVE" -> <<r, Popped(r)>>
          [] op.type = "CREATE" -> <<StrippedVolume(r), r>>
          [] op.type = "DESTROY" -> <<r, StrippedVolume(r)>>

Booked(l, op) ==
    LET Move(acc, m) ==
            IF /\ acc # <<>> /\ Covers(acc[1], Copy(m[1]))
               /\ op.type = "DESTROY" => Held(acc[1], m[1]) = 1
            THEN <<Credit(Debit(acc[1], Copy(m[1])), Copy(m[2]))>>
            ELSE <<>>
        after[i \in 0 .. Len(op.resources)] ==
            IF i = 0 THEN <<l>> ELSE Move(after[i - 1], MoveOf(op, i))
    IN  after[Len(op.resources)]

--------------------------------------------------------------------------
(* The behaviours *)

Init ==
    /\ steps = 0
    /\ \/ input = [kind |-> "pool"] /\ pool \in Stock
       \/ (\E kind \in Kinds : input \in Inputs(kind)) /\ pool = <<>>
    /\ ledger = Denote(pool)

\* a port or an item exists once: it is not also held under another reservation
HeldOtherwise(r) ==
    ~IsAmount(r) /\ \E k \in DOMAIN ledger \ {Key(r)} :
        k[1].name = r.name /\ ledger[k] \cap Quantity(Copy(r)) # {}

\* operator+=
GiveOne(r) ==
    /\ ~HeldOtherwise(r)
    /\ pool' = PlusOne(pool, r)
    /\ ledger' = Credit(ledger, Copy(r))

\* operator-=, of a resource the pool has at least some of
TakeOne(r) ==
    /\ Key(r) \in DOMAIN ledger
    /\ pool' = MinusOne(pool, r)
    /\ ledger' = Debit(ledger, Copy(r))

\* apply(), when its result is kept: the process aborts if a CHECK fails
Operate(op) ==
    /\ \E result \in {Apply(pool, op)} :
           /\ result # <<>>
           /\ TotalsKept(pool, result[1])
           /\ pool' = result[1]
    /\ ledger' = Booked(ledger, op)[1]

Next ==
    /\ input.kind = "pool"
    /\ steps < MaxSteps
    /\ steps' = steps + 1
    /\ UNCHANGED input
    /\ \/ \E r \in Parcels : GiveOne(r) \/ TakeOne(r)
       \/ \E op \in Operations : Operate(op)

Spec == Init /\ [][Next]_vars

--------------------------------------------------------------------------
(* Properties of the pool *)

\* However resources were merged, split, swapped and dropped by add(),
\* subtract() and apply(), the pool holds what the ledger says.
PoolDenotesLedger == Denote(pool) = ledger

\* The representation invariant of Resources: no invalid, empty or negative
\* entry, and no two entries that add() would have merged - subtract() and contains()
\* only look at one of them.
PoolCanonical ==
    \A i \in DOMAIN pool :
        /\ CopyValid(pool[i]) /\ ~CopyEmpty(pool[i]) /\ ~NegativeCopy(pool[i])
        /\ \A j \in DOMAIN pool \ {i} : ~Addable(pool[i].r, pool[j].r)

\* contains() and apply() accept what the ledger covers, and only that.
PoolAnswersLikeLedger ==
    input.kind = "pool" =>
    /\ \A r \in Parcels \cup Targets : ContainsOne(pool, r) = Covers(ledger, Copy(r))
    /\ \A op \in Operations : (Apply(pool, op) # <<>>) = (Booked(ledger, op) # <<>>)

\* A Resources object is the amounts it stands for: it holds, represents and
\* answers for what was added and taken away, in whatever order.
PoolKeepsLedger == PoolDenotesLedger /\ PoolCanonical /\ PoolAnswersLikeLedger

\* Creating a shared volume that exists already makes a further copy of it
\* out of disk that is then no longer counted: a CHECK of apply() fails.
CopiesShared(op) ==
    /\ op.type = "CREATE"
    /\ \E i \in DOMAIN op.resources :
           op.resources[i].shared /\ CountOf(pool, op.resources[i]) > 0

\* The CHECKs at the end of apply() never abort the process, but for a
\* further copy of a shared volume.
ApplyKeepsTotals ==
    input.kind = "pool" =>
    \A op \in Operations : \A result \in {Apply(pool, op)} :
        result # <<>> /\ ~CopiesShared(op) => TotalsKept(pool, result[1])

Undoing == [RESERVE |-> "UNRESERVE", UNRESERVE |-> "RESERVE",
            CREATE |-> "DESTROY", DESTROY |-> "CREATE"]

\* a volume is created although one with its id, role and size is there
MakesTwin(op) ==
    /\ op.type = "CREATE"
    /\ \E i \in DOMAIN op.resources : CountOf(pool, op.resources[i]) > 0

\* RESERVE and UNRESERVE, CREATE and DESTROY undo each other, and so do
\* pushReservation() and popReservation() where the reservation is allowed.
OperationsUndone ==
    input.kind = "pool" =>
    \A op \in Operations :
        LET undo == [op EXCEPT !.type = Undoing[@], !.resources = Reverse(@)]
            pushed == op.resources[1].resv
        IN  /\ \A done \in {Apply(pool, op)} :
                  done # <<>> /\ ~MakesTwin(op) =>
                      \E undone \in {Apply(done[1], undo)} :
                          undone # <<>> /\ PoolEq(undone[1], pool)
            /\ pushed # <<>> =>
                  \A open \in {Filter(pool, {r \in ResourcesOf(pool) :
                          Validate([r EXCEPT !.resv = Append(@, Last(pushed))])})} :
                      PoolEq(PopReservation(PushReservation(open, Last(pushed))), open)

\* What find() returns is in the pool, and is as much as was asked for.
FindSound ==
    input.kind = "pool" =>
    \A t \in Targets : \A found \in {Find(pool, t)} :
        found # <<>> =>
            /\ ContainsPool(pool, found[1])
            /\ PoolEq(ToUnreserved(found[1]), ToUnreserved(Make(<<t>>)))

Unshared == \A i \in DOMAIN pool : pool[i].n = 1   \* no volume is held twice

\* find() only fails if no single entry covers the target, and a pool finds
\* itself: every entry is found under its own role or among the unreserved.
FindComplete ==
    input.kind = "pool" =>
    /\ \A t \in Targets :
          Find(pool, t) = <<>> =>
              \A bare \in Range(Bares(pool)) :
                  ~ContainsPool(bare, Bares(<<Copy(t)>>)[1])
    /\ Unshared => \E found \in {FindAll(pool, pool)} :
                       found # <<>> /\ PoolEq(found[1], pool)

Total(parts) == Plus(<<>>, FlattenSeq(SetToSeq(parts)))

\* The views of a pool by reservation role, by name, by revocability and by
\* sharing add up to the pool, and so do the allocations when everything is
\* allocated to the role it is reserved for; the quantities that
\* createStrippedScalarQuantity() reports are those of the scalars.
ViewsPartition ==
    input.kind = "pool" =>
    \A free \in {View(pool, "unreserved", <<>>)}, roles \in {Reservations(pool)} :
        LET given == Total({Allocate(roles[role], role) : role \in DOMAIN roles}
                           \cup {Allocate(free, Star)})
        IN  /\ \A parts \in
                   {{free} \cup {roles[role] : role \in DOMAIN roles},
                    {ByName(pool, name) : name \in Names(pool)},
                    {Unallocate(part) : part \in Range(Allocations(given))}}
                   \cup {{View(pool, kind, <<>>) : kind \in kinds} :
                            kinds \in {{"revocable", "nonRevocable"},
                                      {"shared", "nonShared"}}} :
                  PoolEq(Total(parts), pool)
            /\ \A stripped \in {CreateStrippedScalarQuantity(pool)},
                  scalars \in {Scalars(pool)} :
                  /\ \A name \in Names(pool) :
                        GetScalar(stripped, name) = GetScalar(scalars, name)
                  /\ DOMAIN Types(stripped) = DOMAIN Types(scalars)

\* what an agent is configured with: no volumes and no dynamic reservations
Configured(r) ==
    [r EXCEPT !.resv = SelectSeq(@, LAMBDA res : res.kind = "STATIC"),
              !.disk = IF @ # <<>> /\ @[1].source # <<>>
                       THEN <<[@[1] EXCEPT !.persistence = <<>>]>> ELSE <<>>,
              !.shared = FALSE]

\* An agent that restarts with the resources it is configured with and the
\* checkpointed ones has the resources it had, but for the number of copies
\* of a shared volume.
CheckpointRestores ==
    input.kind = "pool" =>
    \A restored \in {ApplyCheckpointedResources(
                        Plus(<<>>, [i \in DOMAIN pool |->
                                        [pool[i] EXCEPT !.r = Configured(@)]]),
                        Filter(pool, {r \in ResourcesOf(pool) : NeedCheckpointing(r)}))} :
        Unshared => restored # <<>> /\ PoolEq(restored[1], pool)

\* What find() and the views select from a pool is exactly what was asked for.
QueriesExact == FindSound /\ FindComplete /\ ViewsPartition

\* Offer operations neither make nor lose anything: apply()'s own CHECKs hold,
\* an operation can be undone, and a restarted agent has what it had.
OperationsBalance == ApplyKeepsTotals /\ OperationsUndone /\ CheckpointRestores

--------------------------------------------------------------------------
(* Properties of single computations *)

\* Ranges behave as the sets of their points: +, <=, == and, away from the
\* largest uint64_t, - ; a coalesced result is sorted with gaps between.
RangesAreSets ==
    input.kind = "ranges" =>
        LET a == input.a
            b == input.b
            sum == RangesPlus(a, b)
            gone == RangesDifference(a, b)
            A == PointsOf(a)
            B == PointsOf(b)
        IN  /\ PointsOf(sum) = A \cup B
            /\ Top \notin A \cup B =>
                 /\ \A i \in 2 .. Len(sum) : sum[i - 1].e + 1 < sum[i].b
                 /\ RangesLeq(a, b) = (A \subseteq B)
                 /\ RangesEq(a, b) = (A = B)
                 /\ PointsOf(gone) = A \ B
                 /\ gone = RangesMinus(a, b)

\* Sets of distinct items behave as sets, and keep their items distinct;
\* equal ones hold the same items (not conversely: order matters to ==).
SetsAreSets ==
    input.kind = "sets" =>
        LET a == input.s
            b == input.t
        IN  /\ ToSet(SetPlus(a, b)) = ToSet(a) \cup ToSet(b)
            /\ IsInjective(SetPlus(a, b))
            /\ ToSet(SetMinus(a, b)) = ToSet(a) \ ToSet(b)
            /\ SetMinus(a, b) = SetDifference(a, b)
            /\ SetLeq(a, b) = (ToSet(a) \subseteq ToSet(b))
            /\ SetEq(a, b) => SetLeq(a, b) /\ SetLeq(b, a)

\* Scalar arithmetic does not drift.
ScalarsDoNotDrift == input.kind = "scalars" => ScalarLaw(input.c, input.d)

\* What is printed is read back as an equal value.
TextReadBack ==
    /\ input.kind = "ranges" =>
           LET value == Parse(PrintRanges(input.a))
           IN  value.type = "RANGES" /\ RangesEq(value.val, input.a)
    /\ input.kind = "scalars" =>
           LET value == Parse(PrintScalar(input.c))
           IN  value.type = "SCALAR" /\ ScalarEq(value.val, input.c)

\* The three kinds of values compute what they stand for (values.cpp).
ValuesExact == RangesAreSets /\ SetsAreSets /\ ScalarsDoNotDrift /\ TextReadBack

\* A resource that is valid in any format stays valid when it is converted,
\* and the old formats lose nothing of what they can express.  The resources
\* of an operation are normalized if and only if they are valid, and once:
\* what was normalized, and what was downgraded before, comes out the same.
FormatsAgree ==
    input.kind = "wire" =>
        LET r == input.r
            offer == [type |-> "RESERVE", set |-> TRUE, resources |-> <<r>>]
            launch == [type |-> "LAUNCH", set |-> TRUE, executor |-> <<>>,
                       tasks |-> <<[resources |-> <<r>>, executor |-> <<<<r>>>>]>>]
            Endpoint(post) == ConvertToOld(post, "ENDPOINT")
        IN  /\ \A offered \in {NormalizeOffered(offer)} :
                  /\ (offered # <<>>) = Validate(r)
                  /\ offered # <<>> => NormalizeOffered(offered[1]) = offered
            /\ \A launched \in {NormalizeLaunch(launch)} :
                  /\ (launched # <<>>) = Validate(r)
                  /\ launched # <<>> => NormalizeLaunch(launched[1]) = launched
            /\ Validate(r) =>
                 \A post \in {ConvertToPost(r)} :
                    /\ ValidateAll(<<post, Endpoint(post)>>)
                    /\ ConvertToPost(Endpoint(post)) = post
                    /\ \A old \in {DowngradeResources(<<post>>)} :
                          /\ (old = <<>>) = HasRefinedReservations(post)
                          /\ old # <<>> => /\ ValidateAll(old[1])
                                           /\ ConvertAll(old[1], "POST") = <<post>>

\* A role that may be allocated a refined reservation may be allocated what
\* the reservation refines.
RefinementNarrows ==
    input.kind = "wire" /\ Validate(input.r) /\ input.r.resv # <<>> =>
        \A role \in {input.r.resv[i].role : i \in DOMAIN input.r.resv} :
            IsAllocatableTo(input.r, role) => IsAllocatableTo(Popped(input.r), role)

\* The text of resources means the same whatever the order of the resources in it
CommandLineUnordered ==
    input.kind = "command line" =>
        LET Reversed == [input.text EXCEPT !.items = Reverse(@)]
        IN  \A one \in {ParseResources(input.text, input.role)},
               other \in {ParseResources(Reversed, input.role)} :
                  /\ Len(one) = Len(other)
                  /\ one # <<>> => PoolEq(one[1], other[1])

\* Attributes are equal whatever the order they were given in, and every
\* one is found under its name, if no name is used twice with one type.
AttributesUnordered ==
    input.kind = "attributes" =>
        \A one \in {ParseAttributes(input.pairs)},
           other \in {ParseAttributes(Reverse(input.pairs))} :
            LET distinct == \A i, j \in DOMAIN one[1] :
                                i # j => one[1][i].name # one[1][j].name
            IN  /\ Len(one) = Len(other)
                /\ one # <<>> /\ distinct =>
                     /\ AttributesEq(one[1], other[1])
                     /\ \A i \in DOMAIN one[1] :
                          LET a == one[1][i]
                          IN  /\ AttributeValid(a)
                              /\ AttributeOr(other[1], a.name, a.type, <<>>) = a.val

\* What resources and attributes mean does not depend on the format they come
\* in or on the order they are given in.
DescriptionsAgree ==
    FormatsAgree /\ RefinementNarrows /\ CommandLineUnordered /\ AttributesUnordered

\* what == compares as unordered, as sets
Command(c) == [c EXCEPT !.uris = ToSet(@), !.environment = ToSet(@)]
Container(c) ==
    [c EXCEPT !.volumes = ToSet(@), !.docker.portMappings = ToSet(@),
              !.docker.parameters = ToSet(@)]
Discovery(d) == [d EXCEPT !.ports = ToSet(@), !.labels = ToSet(@)]

\* Two executors are equal if and only if they differ in nothing but the order
\* of what has no order, and how their resources are split into entries;
\* the same holds for tasks, agents and task groups.  (No list holds an
\* element twice: of lists that do, == is not even symmetric.)
MessagesEqual ==
    input.kind = "messages" =>
        LET l == input.l
            r == input.r
            Executor(e) == <<Denote(Make(e.resources)), Command(e.command),
                             Container(e.container), Discovery(e.discovery),
                             e.type, e.rest>>
            Task(t) == <<Denote(Make(t.resources)), ToSet(t.labels),
                         Discovery(t.discovery), t.statuses, t.rest>>
            Slave(m) == <<Denote(Make(m.resources)), ToSet(m.attributes),
                          m.rest>>
        IN  /\ ExecutorInfoEq(l.executor, r.executor)
                 = (Executor(l.executor) = Executor(r.executor))
            /\ TaskEq(l.task, r.task) = (Task(l.task) = Task(r.task))
            /\ SlaveInfoEq(l.slave, r.slave) = (Slave(l.slave) = Slave(r.slave))
            /\ TaskGroupInfoEq(l.group, r.group) = (ToSet(l.group) = ToSet(r.group))

\* If the fetcher succeeds, every URI is in the sandbox: executable, unpacked
\* or as a file - unless a later URI has the same basename.  It succeeds for
\* no list of URIs that validateUris() refuses.
FetchDelivers ==
    input.kind = "fetch" =>
        LET end == Main(input.info)
            items == input.info.items
            Name(i) == Basename(items[i].uri)[1]
        IN  end.exit = 0 =>
                /\ ValidateUris([i \in DOMAIN items |-> items[i].uri])
                /\ \A i \in DOMAIN items :
                      \/ \E j \in i + 1 .. Len(items) : Name(j) = Name(i)
                      \/ \E f \in end.sandbox :
                             /\ f.name = Name(i) /\ f.from = items[i].uri
                             /\ items[i].executable => f.exec
                             /\ items[i].extract /\ Name(i) \in Archive
                                    /\ ~items[i].executable
                                => items[i].uri \in end.contents
                      \/ /\ items[i].extract /\ ~items[i].executable
                         /\ items[i].uri \in end.contents
=============================================================================
