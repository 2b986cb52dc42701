------------------------------ MODULE Values ------------------------------
(***************************************************************************)
(* The values of resources and attributes (values.cpp): ranges and sets    *)
(* with their arithmetic, and the parser and printer of their text form.   *)
(*                                                                         *)
(* A uint64_t is a number of 0 .. Top and its arithmetic wraps.  A         *)
(* Value::Ranges is a sequence of [b, e], a Value::Set a sequence of items.*)
(* A text is a sequence of lexemes [k, n]: a bracket, "-", ",", a whole    *)
(* number "num", a decimal "dec" or a "word".                              *)
(***************************************************************************)
EXTENDS Scalars, SequencesExt

CONSTANT Top        \* the largest uint64_t

ASSUME TopAssumption == Top \in Nat \ {0}

--------------------------------------------------------------------------
(* Ranges *)

\* the order of the std::sort: by start, then by end
RangeBefore(l, r) == l.b < r.b \/ (l.b = r.b /\ l.e < r.e)

\* where the sort puts the i-th range
Rank(rs, i) ==
    Cardinality({j \in DOMAIN rs : \/ RangeBefore(rs[j], rs[i])
                                  \/ (rs[j] = rs[i] /\ j <= i)})

Sorted(rs) == [n \in DOMAIN rs |-> rs[CHOOSE i \in DOMAIN rs : Rank(rs, i) = n]]

\* Seeded fault: adjacent ranges are left apart.
Overlaps(current, r) == r.b <= current.e

\* current.end + 1 wraps at the largest uint64_t.
Touches(current, r) == r.b = current.b \/ r.b <= (current.e + 1) % (Top + 1)

\* The pass over the sorted ranges: current is extended by the next range
\* or, before a gap, becomes a range of the result.
RECURSIVE CoalesceFrom(_, _)
CoalesceFrom(current, rest) ==
    IF rest = <<>> THEN <<current>>
    ELSE IF Touches(current, Head(rest))
    THEN CoalesceFrom([current EXCEPT !.e = Max({@, Head(rest).e})], Tail(rest))
    ELSE <<current>> \o CoalesceFrom(Head(rest), Tail(rest))

CoalesceSorted(sorted) == CoalesceFrom(Head(sorted), Tail(sorted))

InternalCoalesce(rs) ==
    IF rs = <<>> THEN <<>>
    ELSE CoalesceSorted(Sorted(rs))

\* Coalesce the ranges of added into those of result
Coalesce(result, added) == InternalCoalesce(result \o added)

\* boost's interval [b, e + 1): empty when e + 1 wraps
IntervalOf(r) == IF r.e = Top THEN {} ELSE r.b .. r.e

RangesToIntervalSet(rs) == UNION {IntervalOf(rs[i]) : i \in DOMAIN rs}

\* the maximal intervals of a set of points, in order
IntervalSetToRanges(points) ==
    LET runs == {r \in [b : points, e : points] :
                    /\ r.b .. r.e # {} /\ r.b .. r.e \subseteq points
                    /\ r.b - 1 \notin points /\ r.e + 1 \notin points}
    IN  Sorted(SetToSeq(runs))

\* every range of the coalesced left is one of the coalesced right
RangesEq(l, r) ==
    LET Same(left, right) ==
            Len(left) = Len(right) /\ ToSet(left) \subseteq ToSet(right)
    IN  Same(InternalCoalesce(l), InternalCoalesce(r))

\* every range of the coalesced left lies within one of the coalesced right
RangesLeq(l, r) ==
    \A x \in ToSet(InternalCoalesce(l)) : \E y \in ToSet(InternalCoalesce(r)) :
        x.b >= y.b /\ x.e <= y.e

RangesPlus(l, r) == Coalesce(l, r)

\* operator-=: what both operators compute their difference with
RangesMinus(l, r) ==
    IntervalSetToRanges(RangesToIntervalSet(l) \ RangesToIntervalSet(r))

\* operator-: the left side is coalesced first
RangesDifference(l, r) == RangesMinus(InternalCoalesce(l), r)

--------------------------------------------------------------------------
(* Sets *)

\* The inner loop compares with right.item(i), not right.item(j): two sets
\* are equal when their items are, position by position.
SetEq(l, r) == Len(l) = Len(r) /\ \A i \in DOMAIN l : l[i] = r[i]

SetLeq(l, r) == Len(l) <= Len(r) /\ ToSet(l) \subseteq ToSet(r)

\* Seeded fault: an item is appended whether it is there or not.
AppendItem(items, x) == Append(items, x)

AddItem(items, x) == IF x \in ToSet(items) THEN items ELSE Append(items, x)

RECURSIVE SetPlus(_, _)
SetPlus(l, r) ==
    IF r = <<>> THEN l ELSE SetPlus(AddItem(l, Head(r)), Tail(r))

SetDifference(l, r) == SelectSeq(l, LAMBDA x : x \notin ToSet(r))

RemoveItem(items, x) ==
    IF x \notin ToSet(items) THEN items
    ELSE RemoveAt(items, Min({i \in DOMAIN items : items[i] = x}))

\* operator-=: one occurrence of every item of right is deleted
RECURSIVE SetMinus(_, _)
SetMinus(l, r) ==
    IF r = <<>> THEN l ELSE SetMinus(RemoveItem(l, Head(r)), Tail(r))

--------------------------------------------------------------------------
(* Text *)

\* strings::checkBracketsMatching
CheckBracketsMatching(text, open, close) ==
    LET Count(n, k) == Cardinality({i \in 1 .. n : text[i].k = k})
    IN  /\ \A n \in DOMAIN text : Count(n, open) >= Count(n, close)
        /\ Count(Len(text), open) = Count(Len(text), close)

\* strings::tokenize: the maximal runs of lexemes that are no delimiters
Tokenize(text, delimiters) ==
    LET ends == {i \in DOMAIN text : text[i].k \in delimiters}
        runs == {r \in [b : DOMAIN text \ ends, e : DOMAIN text \ ends] :
                    /\ r.b <= r.e /\ r.b .. r.e \cap ends = {}
                    /\ r.b - 1 \notin DOMAIN text \ ends
                    /\ r.e + 1 \notin DOMAIN text \ ends}
        Cut(sorted) ==
            [i \in DOMAIN sorted |-> SubSeq(text, sorted[i].b, sorted[i].e)]
    IN  Cut(Sorted(SetToSeq(runs)))

\* numify<uint64_t> and numify<double>
IsWhole(token) == Len(token) = 1 /\ token[1].k = "num"
Unsigned(token) == IF Head(token).k = "-" THEN Tail(token) ELSE token
IsNumber(token) == LET digits == Unsigned(token)
                   IN  Len(digits) = 1 /\ digits[1].k \in {"num", "dec"}
ToDouble(token) ==
    LET digits == Unsigned(token)
        size == IF digits[1].k = "num" THEN digits[1].n * Unit
                                       ELSE digits[1].n
    IN  IF digits = token THEN size ELSE -size

ParseError == [type |-> "error", val |-> <<>>]

ParseRanges(text) ==
    LET tokens == Tokenize(text, {"[", "]", "-", ","})
    IN  IF Len(tokens) % 2 # 0 \/ \E i \in DOMAIN tokens : ~IsWhole(tokens[i])
        THEN ParseError
        ELSE [type |-> "RANGES",
              val |-> InternalCoalesce(
                        [i \in 1 .. Len(tokens) \div 2 |->
                            [b |-> tokens[2 * i - 1][1].n,
                             e |-> tokens[2 * i][1].n]])]

ParseSet(text) ==
    LET tokens == Tokenize(text, {"{", "}", ","})
    IN  [type |-> "SET",
         val |-> [i \in DOMAIN tokens |->
                    [j \in DOMAIN tokens[i] |-> tokens[i][j].n]]]

\* internal::values::parse (the spaces are already gone)
Parse(text) ==
    LET Has(k) == \E i \in DOMAIN text : text[i].k = k
        Starts(k) == text[1].k = k
    IN  CASE \/ text = <<>>
             \/ ~CheckBracketsMatching(text, "{", "}")
             \/ ~CheckBracketsMatching(text, "[", "]")
             \/ ~CheckBracketsMatching(text, "(", ")") -> ParseError
          [] OTHER ->
             CASE Has("[") /\ Starts("[") -> ParseRanges(text)
               [] Has("[") /\ ~Starts("[") -> ParseError
               [] ~Has("[") /\ Has("{") /\ Starts("{") -> ParseSet(text)
               [] ~Has("[") /\ Has("{") /\ ~Starts("{") -> ParseError
               [] OTHER -> IF IsNumber(text)
                           THEN [type |-> "SCALAR", val |-> ToDouble(text)]
                           ELSE [type |-> "TEXT", val |-> text]

Lexeme(k) == [k |-> k, n |-> 0]
Whole(n) == [k |-> "num", n |-> n]

\* operator<< of ranges: "[b-e, b-e]"
PrintRanges(rs) ==
    LET Print1(i) == <<Whole(rs[i].b), Lexeme("-"), Whole(rs[i].e)>>
                     \o (IF i < Len(rs) THEN <<Lexeme(",")>> ELSE <<>>)
    IN  <<Lexeme("[")>> \o FlattenSeq([i \in DOMAIN rs |-> Print1(i)])
        \o <<Lexeme("]")>>

\* Seeded fault: the sign is lost.
PrintUnsigned(d) ==
    LET rounded == ConvertToFloating(ConvertToFixed(d))
        size == IF rounded < 0 THEN -rounded ELSE rounded
    IN  IF size % Unit = 0 THEN <<Whole(size \div Unit)>>
                           ELSE <<[k |-> "dec", n |-> size]>>

\* operator<< of a scalar: rounded to three digits
PrintScalar(d) ==
    LET rounded == ConvertToFloating(ConvertToFixed(d))
        size == IF rounded < 0 THEN -rounded ELSE rounded
        digits == IF size % Unit = 0 THEN Whole(size \div Unit)
                                     ELSE [k |-> "dec", n |-> size]
    IN  IF rounded < 0 THEN <<Lexeme("-"), digits>> ELSE <<digits>>
=============================================================================
