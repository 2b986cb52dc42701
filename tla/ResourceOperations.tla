------------------------ MODULE ResourceOperations ------------------------
(***************************************************************************)
(* What is computed from a Resources object: views, conversions, the       *)
(* search find(), the effect apply() of an offer operation (resources.cpp) *)
(* and the checkpointing and format conversions of resources_utils.cpp.    *)
(* A result that may be absent or an error is optional: <<>> or <<value>>. *)
(***************************************************************************)
EXTENDS Resources

--------------------------------------------------------------------------
(* Views *)

ResourcesOf(pool) == {pool[i].r : i \in DOMAIN pool}

\* kept: the resources of the pool that satisfy the predicate
Filter(pool, kept) == Plus(<<>>, SelectSeq(pool, LAMBDA x : x.r \in kept))

\* reservations() and allocations(): a Resources for every role
Reservations(pool) ==
    LET roles == {ReservationRole(pool[i].r) :
                    i \in {j \in DOMAIN pool : ~IsUnreserved(pool[j].r)}}
    IN  [role \in roles |->
            Filter(pool, {r \in ResourcesOf(pool) : IsReserved(r, <<role>>)})]

Allocations(pool) ==
    [role \in {pool[i].r.alloc[1][1] : i \in DOMAIN pool} |->
        Filter(pool, {r \in ResourcesOf(pool) : r.alloc[1][1] = role})]

\* reserved(), allocatableTo() ... nonShared(), for an optional role
View(pool, kind, role) ==
    Filter(pool, {r \in ResourcesOf(pool) :
        CASE kind = "reserved" -> IsReserved(r, role)
          [] kind = "allocatableTo" -> IsAllocatableTo(r, role[1])
          [] kind = "unreserved" -> IsUnreserved(r)
          [] kind = "persistentVolumes" -> IsPersistentVolume(r)
          [] kind = "revocable" -> IsRevocable(r)
          [] kind = "nonRevocable" -> ~IsRevocable(r)
          [] kind = "shared" -> IsShared(r)
          [] kind = "nonShared" -> ~IsShared(r)})

ByName(pool, name) == Filter(pool, {r \in ResourcesOf(pool) : r.name = name})
Scalars(pool) == Filter(pool, {r \in ResourcesOf(pool) : r.type = "SCALAR"})
Names(pool) == {r.name : r \in ResourcesOf(pool)}
\* the type of the last resource of each name
Types(pool) ==
    [name \in Names(pool) |->
        pool[SelectLastInSeq(pool, LAMBDA x : x.r.name = name)].r.type]

\* get<Value::Scalar>, get<Value::Set> and get<Value::Ranges>
ValuesOf(pool, name, type) ==
    LET found == SelectSeq(pool, LAMBDA x : x.r.name = name /\ x.r.type = type)
    IN  [i \in DOMAIN found |-> found[i].r.val]

\* There is a total only where something was found.
TotalOf(values, total) == IF values = <<>> THEN <<>> ELSE <<total>>

GetScalar(pool, name) ==
    LET values == ValuesOf(pool, name, "SCALAR")
    IN  TotalOf(values, FoldLeft(ScalarPlus, 0, values))
GetSet(pool, name) ==
    LET values == ValuesOf(pool, name, "SET")
    IN  TotalOf(values, FoldLeft(SetPlus, <<>>, values))
GetRanges(pool, name) ==
    LET values == ValuesOf(pool, name, "RANGES")
    IN  TotalOf(values, FoldLeft(RangesPlus, <<>>, values))

\* mem() and disk() in whole megabytes
Megabytes(scalar) == [i \in DOMAIN scalar |-> scalar[i] \div Unit]

--------------------------------------------------------------------------
(* Conversions *)

\* The other conversions change every entry, and add up the changed entries
\* anew; allocate() and unallocate() change the entries where they stand
Allocate(pool, role) ==
    [i \in DOMAIN pool |-> [pool[i] EXCEPT !.r.alloc = <<<<role>>>>]]
Unallocate(pool) == [i \in DOMAIN pool |-> [pool[i] EXCEPT !.r.alloc = <<>>]]

PushReservation(pool, reservation) ==
    Plus(<<>>, [i \in DOMAIN pool |->
                    [pool[i] EXCEPT !.r.resv = Append(@, reservation)]])

PopReservation(pool) ==
    Plus(<<>>, [i \in DOMAIN pool |-> [pool[i] EXCEPT !.r.resv = Front(@)]])

ToUnreserved(pool) ==
    Plus(<<>>, [i \in DOMAIN pool |-> [pool[i] EXCEPT !.r.resv = <<>>]])

\* one static reservation for the role of the last
Collapsed(resv) ==
    IF resv = <<>> THEN <<>>
    ELSE <<[kind |-> "STATIC", role |-> Last(resv).role,
            principal |-> <<>>, labels |-> <<>>]>>

CreateStrippedScalarQuantity(pool) ==
    LET Strip(r) == [r EXCEPT !.provider = <<>>, !.alloc = <<>>,
                              !.resv = Collapsed(@), !.disk = <<>>,
                              !.shared = FALSE]
        scalars == SelectSeq(pool, LAMBDA x : x.r.type = "SCALAR")
    IN  Plus(<<>>, [i \in DOMAIN scalars |-> Copy(Strip(scalars[i].r))])

--------------------------------------------------------------------------
(* find *)

\* Seeded fault: what is found keeps the reservation of the target.
FoundUnreserved(state, chosen) ==
    [state EXCEPT !.found = Plus(@, state.rest), !.done = TRUE]

\* What is left to find is taken from chosen, with chosen's reservations
FoundIn(state, chosen) ==
    LET Reserve(y) == [y EXCEPT !.r.resv = chosen.r.resv]
    IN  [state EXCEPT
            !.found = Plus(@, [i \in DOMAIN state.rest |-> Reserve(state.rest[i])]),
            !.done = TRUE]

\* All of chosen is taken, and the search goes on for the rest
FoundPart(state, chosen, bare) ==
    [state EXCEPT !.found = Add(@, chosen),
                  !.total = Subtract(@, chosen),
                  !.rest = Minus(@, bare)]

\* Seeded fault: only the first candidate is looked at.
FindFirst(state, candidates, bares) ==
    IF candidates = <<>> \/ ~ContainsPool(bares[1], state.rest) THEN state
    ELSE FoundIn(state, candidates[1])

\* One predicate of find(): the first candidate that covers the rest ends the
\* search; the first that is covered by it is taken, and the search goes on
\* with the next predicate.
FindAmong(state, candidates, bares) ==
    LET covers == {i \in DOMAIN bares : ContainsPool(bares[i], state.rest)}
        parts == {i \in DOMAIN bares : ContainsPool(state.rest, bares[i])}
        Choose(over, under) ==
            IF over \cup under = {} THEN state
            ELSE LET i == Min(over \cup under)
                 IN  IF i \in over THEN FoundIn(state, candidates[i])
                                   ELSE FoundPart(state, candidates[i], bares[i])
    IN  Choose(covers, parts)

\* the entries' quantities, without their reservations
Bares(entries) ==
    [i \in DOMAIN entries |-> ToUnreserved(Make(<<entries[i].r>>))]

FindWith(state, candidates) == FindAmong(state, candidates, Bares(candidates))

\* the target's own role first, then what is unreserved, then anything
Preferred(r, preference, target) ==
    CASE preference = 1 -> /\ ~IsUnreserved(target)
                           /\ IsReserved(r, <<ReservationRole(target)>>)
      [] preference = 2 -> IsUnreserved(r)
      [] preference = 3 -> TRUE

Find(pool, target) ==
    LET after[k \in 0 .. 3] ==
            IF k = 0
            THEN [found |-> <<>>, total |-> pool,
                  rest |-> ToUnreserved(Make(<<target>>)), done |-> FALSE]
            ELSE LET Search(state) ==
                        IF state.done THEN state
                        ELSE FindWith(state, Filter(state.total,
                                 {r \in ResourcesOf(state.total) : Preferred(r, k, target)}))
                 IN  Search(after[k - 1])
        Found(state) == IF state.done THEN <<state.found>> ELSE <<>>
    IN  Found(after[3])

\* find(Resources): every target is looked for in the whole pool
FindAll(pool, targets) ==
    LET Sum(founds) ==
            IF \E i \in DOMAIN founds : founds[i] = <<>> THEN <<>>
            ELSE <<Plus(<<>>, FlattenSeq([i \in DOMAIN founds |-> founds[i][1]]))>>
    IN  Sum([i \in DOMAIN targets |-> Find(pool, targets[i].r)])

--------------------------------------------------------------------------
(* apply *)

\* One resource of an operation is applied: the optional result

ReserveFrom(pool, reserved, below) ==
    IF IsDynamicallyReserved(reserved) /\ ContainsPool(pool, below)
    THEN <<Add(Minus(pool, below), Copy(reserved))>> ELSE <<>>

ReserveStep(pool, reserved) ==
    ReserveFrom(pool, reserved, PopReservation(Make(<<reserved>>)))

\* Seeded fault: a refined reservation is given up as a whole.
UnreserveAll(pool, reserved) ==
    IF IsDynamicallyReserved(reserved) /\ ContainsOne(pool, reserved)
    THEN <<Plus(Subtract(pool, Copy(reserved)),
                ToUnreserved(Make(<<reserved>>)))>>
    ELSE <<>>

UnreserveStep(pool, reserved) ==
    IF IsDynamicallyReserved(reserved) /\ ContainsOne(pool, reserved)
    THEN <<Plus(Subtract(pool, Copy(reserved)),
                PopReservation(Make(<<reserved>>)))>>
    ELSE <<>>

\* The disk a volume is made of: it keeps its source
StrippedVolume(volume) ==
    [volume EXCEPT
        !.disk = IF @[1].source # <<>>
                 THEN <<[@[1] EXCEPT !.persistence = <<>>]>> ELSE <<>>,
        !.shared = FALSE]

\* Seeded fault: the disk a volume is made of stays available.
CreateKeepsDisk(pool, volume) ==
    IF IsPersistentVolume(volume) /\ ContainsOne(pool, StrippedVolume(volume))
    THEN <<Add(pool, Copy(volume))>> ELSE <<>>

CreateStep(pool, volume) ==
    IF IsPersistentVolume(volume) /\ ContainsOne(pool, StrippedVolume(volume))
    THEN <<Add(Subtract(pool, Copy(StrippedVolume(volume))), Copy(volume))>>
    ELSE <<>>

\* refused while further copies of a shared volume remain
DestroyFrom(pool, volume, without) ==
    IF /\ IsPersistentVolume(volume)
       /\ ContainsOne(pool, volume) /\ ~ContainsOne(without, volume)
    THEN <<Add(without, Copy(StrippedVolume(volume)))>> ELSE <<>>

DestroyStep(pool, volume) ==
    DestroyFrom(pool, volume, Subtract(pool, Copy(volume)))

OperationStep(pool, type, r) ==
    CASE type = "RESERVE" -> ReserveStep(pool, r)
      [] type = "UNRESERVE" -> UnreserveStep(pool, r)
      [] type = "CREATE" -> CreateStep(pool, r)
      [] type = "DESTROY" -> DestroyStep(pool, r)

\* an operation is [type, resources]; for CREATE and DESTROY, its volumes
Apply(pool, op) ==
    LET after[i \in 0 .. Len(op.resources)] ==
            IF i = 0 THEN <<pool>>
            ELSE LET Go(before) ==
                        IF before = <<>> THEN <<>>
                        ELSE OperationStep(before[1], op.type, op.resources[i])
                 IN  Go(after[i - 1])
    IN  IF op.type \in {"LAUNCH", "LAUNCH_GROUP"} THEN <<pool>>
        ELSE IF op.type = "UNKNOWN" \/ ~ValidateAll(op.resources) THEN <<>>
        ELSE after[Len(op.resources)]

SamePorts(l, r) == Len(l) = Len(r) /\ (l # <<>> => RangesEq(l[1], r[1]))

\* The CHECKs at the end of apply(): the process aborts when one fails.
TotalsKept(pool, result) ==
    /\ \A name \in {"cpus", "gpus"} :
           GetScalar(result, name) = GetScalar(pool, name)
    /\ \A name \in {"mem", "disk"} :
           Megabytes(GetScalar(result, name)) = Megabytes(GetScalar(pool, name))
    /\ SamePorts(GetRanges(result, "ports"), GetRanges(pool, "ports"))

--------------------------------------------------------------------------
(* resources_utils.cpp *)

NeedCheckpointing(r) == IsDynamicallyReserved(r) \/ IsPersistentVolume(r)

\* Seeded fault: the agent is expected to hold the reserved resource already.
AgentKeepsReservation(r) ==
    IF IsPersistentVolume(r) THEN StrippedVolume(r) ELSE [r EXCEPT !.shared = FALSE]

\* what a checkpointed resource was on the agent before it was reserved
AgentResource(r) ==
    LET bare == IF IsPersistentVolume(r) THEN StrippedVolume(r)
                                         ELSE [r EXCEPT !.shared = FALSE]
    IN  IF ~IsDynamicallyReserved(r) THEN bare
        ELSE [bare EXCEPT !.resv =
                IF @[1].kind = "STATIC" THEN <<@[1]>> ELSE <<>>]

ApplyCheckpointedResources(pool, checkpointed) ==
    LET Restore(total, r, agent) ==
            IF total # <<>> /\ NeedCheckpointing(r) /\ ContainsOne(total[1], agent)
            THEN <<PlusOne(MinusOne(total[1], agent), r)>> ELSE <<>>
        upTo[i \in 0 .. Len(checkpointed)] ==
            IF i = 0 THEN <<pool>>
            ELSE Restore(upTo[i - 1], checkpointed[i].r,
                         AgentResource(checkpointed[i].r))
    IN  upTo[Len(checkpointed)]

\* PRE_RESERVATION_REFINEMENT and ENDPOINT; the former CHECKs that there is
\* at most one reservation
ConvertToOld(r, format) ==
    CASE r.resv = <<>> -> [r EXCEPT !.role = <<Star>>]
      [] Len(r.resv) = 1 ->
            [r EXCEPT
                !.role = <<r.resv[1].role>>,
                !.reservation = IF r.resv[1].kind = "DYNAMIC"
                                THEN <<[r.resv[1] EXCEPT !.kind = "unset",
                                                         !.role = <<>>]>>
                                ELSE @,
                !.resv = IF format = "PRE" THEN <<>> ELSE @]
      [] OTHER -> r

\* Seeded fault: every old reservation becomes a static one.
ConvertToStatic(r) ==
    IF r.resv # <<>> \/ RoleOf(r) = Star
    THEN [r EXCEPT !.role = <<>>, !.reservation = <<>>]
    ELSE [r EXCEPT !.resv = <<[kind |-> "STATIC", role |-> RoleOf(r),
                               principal |-> <<>>, labels |-> <<>>]>>,
                   !.role = <<>>, !.reservation = <<>>]

ConvertToPost(r) ==
    IF r.resv # <<>> \/ RoleOf(r) = Star
    THEN [r EXCEPT !.role = <<>>, !.reservation = <<>>]
    ELSE LET old == IF r.reservation = <<>>
                    THEN [kind |-> "STATIC", role |-> <<>>,
                          principal |-> <<>>, labels |-> <<>>]
                    ELSE [r.reservation[1] EXCEPT !.kind = "DYNAMIC"]
         IN  [r EXCEPT !.resv = <<[old EXCEPT !.role = RoleOf(r)]>>,
                       !.role = <<>>, !.reservation = <<>>]

ConvertResourceFormat(r, format) ==
    IF format = "POST" THEN ConvertToPost(r) ELSE ConvertToOld(r, format)

ConvertAll(rs, format) ==
    [i \in DOMAIN rs |-> ConvertResourceFormat(rs[i], format)]

\* RESERVE, UNRESERVE, CREATE and DESTROY: <<>> if the field named after the
\* type is missing or a resource is invalid
NormalizeOffered(op) ==
    IF op.set /\ ValidateAll(op.resources)
    THEN <<[op EXCEPT !.resources = ConvertAll(@, "POST")]>> ELSE <<>>

\* LAUNCH and LAUNCH_GROUP: every resource is validated before any is
\* converted; an executor is an optional sequence of resources
NormalizeLaunch(op) ==
    LET Post(rs) == ConvertAll(rs, "POST")
        PostOption(o) == [i \in DOMAIN o |-> Post(o[i])]
        Valid(o) == \A i \in DOMAIN o : ValidateAll(o[i])
    IN  IF /\ op.set
           /\ op.type = "LAUNCH_GROUP" => Valid(op.executor)
           /\ \A i \in DOMAIN op.tasks :
                  /\ ValidateAll(op.tasks[i].resources)
                  /\ Valid(op.tasks[i].executor)
        THEN <<[op EXCEPT
                !.executor = PostOption(@),
                !.tasks = [i \in DOMAIN @ |->
                            [resources |-> Post(@[i].resources),
                             executor |-> PostOption(@[i].executor)]]]>>
        ELSE <<>>

DowngradeResources(rs) ==
    IF \E i \in DOMAIN rs : HasRefinedReservations(rs[i]) THEN <<>>
    ELSE <<ConvertAll(rs, "PRE")>>
=============================================================================
