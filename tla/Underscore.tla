------------------------------ MODULE Underscore ------------------------------
(***************************************************************************)
(* The collection, array and object functions of underscore.js 1.7.0, the  *)
(* library the documentation pages and their search box are written with.  *)
(*                                                                         *)
(* An array is a sequence and its positions keep the library's numbering   *)
(* from 0 in every index that is passed or returned.  An object is a       *)
(* function whose keys are strings, as every property key is one; the keys *)
(* are the decimal texts of natural numbers, which JavaScript enumerates   *)
(* in the order of the numbers.  An iteratee is an operator.  A structured *)
(* value for isEqual is a node of a heap, as its identity matters.         *)
(***************************************************************************)
EXTENDS FunctionCalls, Integers, Sequences, FiniteSets

LOCAL INSTANCE SequencesExt
LOCAL INSTANCE FiniteSetsExt
LOCAL INSTANCE TLC

CONSTANTS
  Undef,      \* undefined
  Vals,       \* the numbers arrays hold
  MaxArray    \* bound: the length of arrays

ASSUME UnderscoreAssumption == Vals \subseteq Nat /\ MaxArray \in Nat

(***************************************************************************)
(* Collections.  The operators that take an iteratee stand for these lines *)
(* of underscore.js: each 97-112, map 115-127, reduce 133-148, reduceRight *)
(* 151-166, find 169-179, filter 183-191, reject 194-196, every 200-211,   *)
(* some 215-226, max 263-285, min 288-310, sortBy 338-355, group 358-368,  *)
(* groupBy 372-374, indexBy 378-380, countBy 385-387, partition 418-425,   *)
(* uniqBy (under Arrays) 513-518 and pick (under Objects) 914-932.         *)
(***************************************************************************)

(* The key of obj[v]: the text of a number, a string as it is (which       *)
(* ToString puts between quotes).                                          *)
toKey(v) ==
  LET text == ToString(v)
  IN IF SubSeq(text, 1, 1) = "\"" THEN SubSeq(text, 2, Len(text) - 1) ELSE text

(* keys: in the order of enumeration *)
keys(obj) ==
  LET numbers == SetToSortSeq(Vals, <)
  IN SelectSeq([i \in DOMAIN numbers |-> toKey(numbers[i])], LAMBDA k : k \in DOMAIN obj)

values(obj) == [i \in 1 .. Cardinality(DOMAIN obj) |-> obj[keys(obj)[i]]]

(* each: the effect Step has on memo, called on the elements in order *)
each(array, Step(_, _), memo) == FoldLeft(Step, memo, array)

map(array, F(_)) == [i \in DOMAIN array |-> F(array[i])]

(* reduce and reduceRight without an initial value: the first (last)       *)
(* element is the memo and is not visited again                            *)
reduce(array, Step(_, _)) == FoldLeft(Step, Head(array), Tail(array))

reduceRight(array, Step(_, _)) == FoldLeft(Step, Last(array), Reverse(Front(array)))

filter(array, P(_)) == each(array, LAMBDA out, x : IF P(x) THEN Append(out, x) ELSE out, <<>>)

reject(array, P(_)) == filter(array, LAMBDA x : ~P(x))

every(array, P(_)) == \A i \in DOMAIN array : P(array[i])

some(array, P(_)) == \E i \in DOMAIN array : P(array[i])

(* find: the first element that passes, or undefined *)
find(array, P(_)) ==
  IF some(array, P) THEN array[SelectInSeq(array, P)] ELSE Undef

pluck(array, key) == map(array, LAMBDA obj : obj[key])

(* max and min with an iteratee: the result is replaced by an element that *)
(* is Better; undefined stands for the infinity it begins with             *)
best(array, Better(_, _)) ==
  each(array, LAMBDA result, x : IF result = Undef \/ Better(x, result) THEN x ELSE result, Undef)

max(array, F(_)) == best(array, LAMBDA x, result : F(x) > F(result))

min(array, F(_)) == best(array, LAMBDA x, result : F(x) < F(result))

partition(array, P(_)) ==
  each(array,
       LAMBDA halves, x : IF P(x) THEN <<Append(halves[1], x), halves[2]>> ELSE <<halves[1], Append(halves[2], x)>>,
       <<<<>>, <<>>>>)

toArray(obj) == values(obj)

(* shuffle: rands[i] is what random(0, i - 1) returned in the i-th round;  *)
(* the element is put there and the one it displaces moves to the end      *)
shuffle(set, rands) ==
  FoldLeft(LAMBDA shuffled, i :
             [k \in 1 .. i |-> CASE k = rands[i] + 1 -> set[i]
                                 [] k = i /\ rands[i] + 1 # i -> shuffled[rands[i] + 1]
                                 [] OTHER -> shuffled[k]],
           <<>>, [i \in DOMAIN set |-> i])

(* sample: the first n of a shuffle *)
sample(obj, n, rands) == SubSeq(shuffle(obj, rands), 1, Max({0, Min({n, Len(obj)})}))

(* The comparison of sortBy on the records it wraps the elements in. *)
sortByBefore(left, right) ==
  IF left.criteria # right.criteria THEN left.criteria < right.criteria
                                    ELSE left.index < right.index

sortBy(array, F(_)) ==
  LET wrapped == {[value |-> array[i], index |-> i - 1, criteria |-> F(array[i])] : i \in DOMAIN array}
  IN pluck(SetToSortSeq(wrapped, sortByBefore), "value")

(* group: an object with a key for each value of the iteratee, filled by   *)
(* Behavior, which gets the old entry (or undefined) and the element       *)
group(array, F(_), Behavior(_, _)) ==
  each(array,
       LAMBDA result, x :
         [k \in DOMAIN result \cup {toKey(F(x))} |->
            IF k # toKey(F(x)) THEN result[k]
                        ELSE Behavior(IF k \in DOMAIN result THEN result[k] ELSE Undef, x)],
       <<>>)

groupBy(array, F(_)) ==
  group(array, F, LAMBDA old, x : IF old = Undef THEN <<x>> ELSE Append(old, x))

indexBy(array, F(_)) == group(array, F, LAMBDA old, x : x)

countBy(array, F(_)) == group(array, F, LAMBDA old, x : IF old = Undef THEN 1 ELSE old + 1)

(***************************************************************************)
(* Arrays                                                                  *)
(***************************************************************************)

(* Array.prototype.slice: positions count from the end when negative *)
slice(array, from, to) ==
  LET pos(n) == IF n < 0 THEN Max({0, Len(array) + n}) ELSE Min({n, Len(array)})
  IN SubSeq(array, pos(from) + 1, pos(to))

first(array, n) == IF n < 0 THEN <<>> ELSE slice(array, 0, n)

initial(array, n) == slice(array, 0, Max({0, Len(array) - n}))

last(array, n) == slice(array, Max({Len(array) - n, 0}), Len(array))

rest(array, n) == slice(array, n, Len(array))

compact(array) == filter(array, LAMBDA x : x # 0 /\ x # Undef)

(* Variant: the search ends before the last position. *)
sortedIndexHigh(array, value) ==
  LET search[low \in 0 .. Len(array), high \in 0 .. Len(array)] ==
        LET mid == (low + high) \div 2
        IN IF low >= high THEN low
           ELSE IF array[mid + 1] < value THEN search[mid + 1, high] ELSE search[low, mid]
  IN search[0, Max({0, Len(array) - 1})]

(* sortedIndex: the halving loop on low and high *)
sortedIndex(array, value) ==
  LET search[low \in 0 .. Len(array), high \in 0 .. Len(array)] ==
        LET mid == (low + high) \div 2
        IN IF low >= high THEN low
           ELSE IF array[mid + 1] < value THEN search[mid + 1, high] ELSE search[low, mid]
  IN search[0, Len(array)]

(* indexOf from a position, which may count from the end *)
indexOf(array, item, from) ==
  LET start == IF from < 0 THEN Max({0, Len(array) + from}) ELSE from
      found == {i \in start .. Len(array) - 1 : array[i + 1] = item}
  IN IF found = {} THEN -1 ELSE Min(found)

(* indexOf when isSorted is true *)
indexOfSorted(array, item) ==
  LET i == sortedIndex(array, item)
  IN IF i < Len(array) /\ array[i + 1] = item THEN i ELSE -1

lastIndexOf(array, item, from) ==
  LET idx == IF from < 0 THEN Len(array) + from + 1 ELSE Min({Len(array), from + 1})
      found == {i \in 0 .. idx - 1 : array[i + 1] = item}
  IN IF found = {} THEN -1 ELSE Max(found)

contains(array, target) == indexOf(array, target, 0) >= 0

(* uniq with an iteratee: the first element of each value it computes *)
uniqBy(array, F(_)) ==
  each(array,
       LAMBDA all, x : IF contains(all.seen, F(x)) THEN all
                       ELSE [seen |-> Append(all.seen, F(x)), result |-> Append(all.result, x)],
       [seen |-> <<>>, result |-> <<>>]).result

uniq(array, isSorted) ==
  IF isSorted
  THEN LET keep(i) == i = 1 \/ array[i - 1] # array[i]
       IN FoldLeft(LAMBDA out, i : IF keep(i) THEN Append(out, array[i]) ELSE out, <<>>,
                   [i \in DOMAIN array |-> i])
  ELSE each(array, LAMBDA result, x : IF contains(result, x) THEN result ELSE Append(result, x), <<>>)

union(arrays) == uniq(FlattenSeq(arrays), FALSE)

intersection(array, others) ==
  each(array,
       LAMBDA result, item :
         IF ~contains(result, item) /\ every(others, LAMBDA o : contains(o, item))
         THEN Append(result, item) ELSE result,
       <<>>)

difference(array, others) == filter(array, LAMBDA x : ~contains(FlattenSeq(others), x))

without(array, items) == difference(array, <<items>>)

(* zip: as long as the longest, with undefined where an array is shorter *)
zip(arrays) ==
  [i \in 1 .. Max({Len(arrays[k]) : k \in DOMAIN arrays}) |->
     map(arrays, LAMBDA a : IF i <= Len(a) THEN a[i] ELSE Undef)]

(* Math.ceil of a quotient *)
ceilDiv(n, d) == IF d > 0 THEN -((-n) \div d) ELSE -(n \div (-d))

range(start, stop, step) ==
  [i \in 1 .. Max({ceilDiv(stop - start, step), 0}) |-> start + (i - 1) * step]

(* flatten: a nested array is a record with the field arr; strict drops    *)
(* what is not an array, shallow opens one level                           *)
RECURSIVE flatten(_, _, _)
flatten(input, shallow, strict) ==
  each(input,
       LAMBDA output, value :
         CASE "arr" \notin DOMAIN value /\ strict -> output
           [] "arr" \notin DOMAIN value /\ ~strict -> Append(output, value)
           [] "arr" \in DOMAIN value /\ shallow -> output \o value.arr
           [] OTHER -> output \o flatten(value.arr, shallow, strict),
       <<>>)

(***************************************************************************)
(* Functions and objects                                                   *)
(***************************************************************************)

(* partial: the arguments func gets, placeholders filled in order, what is *)
(* missing undefined and what is left over appended                        *)
partial(boundArgs, args) ==
  LET holes(i) == Cardinality({k \in 1 .. i : boundArgs[k] = "_"})
      argument(n) == IF n <= Len(args) THEN args[n] ELSE Undef
  IN [i \in DOMAIN boundArgs |-> IF boundArgs[i] = "_" THEN argument(holes(i)) ELSE boundArgs[i]]
       \o SubSeq(args, holes(Len(boundArgs)) + 1, Len(args))

pairs(obj) == map(keys(obj), LAMBDA k : <<k, obj[k]>>)

(* object: from a list of pairs, the last one of a key *)
object(list) == each(list, LAMBDA result, kv : [k \in DOMAIN result \cup {toKey(kv[1])} |->
                             IF k = toKey(kv[1]) THEN kv[2] ELSE result[k]], <<>>)

(* invert: the values become keys, so texts *)
invert(obj) == object(map(keys(obj), LAMBDA k : <<obj[k], k>>))

extend(obj, source) == [k \in DOMAIN obj \cup DOMAIN source |->
                          IF k \in DOMAIN source THEN source[k] ELSE obj[k]]

defaults(obj, source) ==
  [k \in DOMAIN obj \cup DOMAIN source |->
     IF k \in DOMAIN obj /\ obj[k] # Undef THEN obj[k]
     ELSE IF k \in DOMAIN source THEN source[k] ELSE obj[k]]

(* pick: by a predicate on value and key *)
pick(obj, P(_, _)) == [k \in {k \in DOMAIN obj : P(obj[k], k)} |-> obj[k]]

omit(obj, keySeq) == pick(obj, LAMBDA v, k : ~contains(map(keySeq, toKey), k))

(* matches: every pair of attrs is a pair of the object *)
matches(attrs, obj) == \A k \in DOMAIN attrs : k \in DOMAIN obj /\ attrs[k] = obj[k]

where(list, attrs) == filter(list, LAMBDA obj : matches(attrs, obj))

findWhere(list, attrs) == find(list, LAMBDA obj : matches(attrs, obj))

(* Whether two objects may be equal by their constructors: Object and the  *)
(* Object of another frame are instances of themselves, a class is not,    *)
(* and an object without prototype has none.                               *)
constructorsAgree(x, y) ==
  \/ x.ctor = y.ctor
  \/ "none" \in {x.ctor, y.ctor}
  \/ {x.ctor, y.ctor} \subseteq {"Object", "Object of a frame"}

(* The comparison behind isEqual.  heap[n] is a number [val |-> v] or an   *)
(* object or array [cls |-> class, ctor |-> constructor, props |-> function *)
(* from keys to nodes]; aStack and bStack are the pairs being compared.    *)
RECURSIVE eq(_, _, _, _, _)
eq(heap, a, b, aStack, bStack) ==
  \/ a = b
  \/ LET x == heap[a]  y == heap[b]
     IN IF "val" \in DOMAIN x \/ "val" \in DOMAIN y
        THEN "val" \in DOMAIN x /\ "val" \in DOMAIN y /\ x.val = y.val
        ELSE /\ x.cls = y.cls
             /\ \/ Contains(aStack, a) /\ bStack[SelectLastInSeq(aStack, LAMBDA n : n = a)] = b
                \/ /\ ~Contains(aStack, a)
                   /\ constructorsAgree(x, y)
                   /\ DOMAIN x.props = DOMAIN y.props
                   /\ \A k \in DOMAIN x.props :
                        eq(heap, x.props[k], y.props[k], Append(aStack, a), Append(bStack, b))

isEqual(heap, a, b) == eq(heap, a, b, <<>>, <<>>)

(* The text of the characters of a string, and of a sequence of strings. *)
chars(s) == [i \in 1 .. Len(s) |-> SubSeq(s, i, i)]

join(strings) == FoldLeft(LAMBDA t, s : t \o s, "", strings)

(* The table of entities; its entry for the backquote is left out. *)
escapeMap == [c \in {"&", "<", ">", "\"", "'"} |->
  CASE c = "&" -> "&amp;" [] c = "<" -> "&lt;" [] c = ">" -> "&gt;"
    [] c = "\"" -> "&quot;" [] OTHER -> "&#x27;"]

(* escape: createEscaper(escapeMap), every character that is a key *)
escape(string) ==
  join(map(chars(string), LAMBDA c : IF c \in DOMAIN escapeMap THEN escapeMap[c] ELSE c))

(* unescape: createEscaper of the inverted map, from left to right; no key *)
(* of it is a prefix of another, so one alternative matches at most        *)
RECURSIVE unescape(_)
unescape(string) ==
  LET matched == {c \in DOMAIN escapeMap : IsPrefix(chars(escapeMap[c]), chars(string))}
  IN CASE string = "" -> ""
       [] string # "" /\ matched = {} -> SubSeq(string, 1, 1) \o unescape(SubSeq(string, 2, Len(string)))
       [] OTHER -> LET c == CHOOSE c \in matched : TRUE
                   IN c \o unescape(SubSeq(string, Len(escapeMap[c]) + 1, Len(string)))

(***************************************************************************)
(* Calls                                                                   *)
(***************************************************************************)

Arrays == UNION {[1 .. n -> Vals] : n \in 0 .. MaxArray}

Objects == UNION {[K -> Vals] : K \in SUBSET {toKey(v) : v \in Vals}}

IsAscending(array) == IsSorted(array, <=)

CallSortedIndex ==
  \E array \in {a \in Arrays : IsAscending(a)}, item \in Vals :
    Call([fn |-> "sortedIndex", array |-> array, item |-> item])

CallIndexOf ==
  \E array \in Arrays, item \in Vals, from \in -MaxArray - 1 .. MaxArray + 1 :
    Call([fn |-> "indexOf", array |-> array, item |-> item, from |-> from])

CallShuffle ==
  \E n \in 0 .. MaxArray : Call([fn |-> "shuffle", array |-> [i \in 1 .. n |-> i]])

(* The elements are pairs, ordered by their first component. *)
CallSortBy ==
  \E array \in Arrays :
    Call([fn |-> "sortBy", array |-> [i \in DOMAIN array |-> <<array[i], i>>]])

CallSetOperations ==
  \E a \in Arrays, b \in {b \in Arrays : Len(b) <= 2} :
    Call([fn |-> "union", array |-> a, other |-> b])

CallRange ==
  \E start, stop \in -MaxArray .. MaxArray, step \in {-2, -1, 1, 2, 3} :
    Call([fn |-> "range", start |-> start, stop |-> stop, step |-> step])

CallPartial ==
  \E bound, more \in UNION {[1 .. n -> {"_", "x"}] : n \in 0 .. 3},
     args \in {<<>>, <<"p">>, <<"p", "q">>, <<"p", "q", "r">>} :
    Call([fn |-> "partial", bound |-> bound, more |-> more, args |-> args])

CallObject ==
  \E obj, other \in Objects : Call([fn |-> "object", obj |-> obj, other |-> other])

(* Heaps of three nodes: a number, or an object with one or two members.   *)
(* One of the objects may be made by another constructor than the others.  *)
CallIsEqual ==
  \E nodes \in [1 .. 3 -> {[val |-> 0]} \cup [props : UNION {[K -> 1 .. 3] : K \in {{0}, {0, 1}}}]],
     ctors \in {<<"Object", c, "Object">> : c \in {"Object", "Object of a frame", "Class", "none"}}
                 \cup {<<"Object", "none", "Class">>} :
    Call([fn |-> "isEqual",
          heap |-> [n \in 1 .. 3 |->
                      IF "val" \in DOMAIN nodes[n] THEN nodes[n]
                      ELSE [cls |-> "Object", ctor |-> ctors[n], props |-> nodes[n].props]]])

(* Arrays of numbers, of such arrays, and of arrays of these. *)
CallFlatten ==
  LET numbers == {[val |-> v] : v \in {1, 2}}
      nested(S) == {[arr |-> a] : a \in UNION {[1 .. n -> S] : n \in 0 .. 2}}
  IN \E input \in nested(numbers \cup nested(numbers \cup {[arr |-> <<[val |-> 3]>>]})) :
       Call([fn |-> "flatten", input |-> input.arr])

CallEscape ==
  \E text \in UNION {[1 .. n -> {"&", "<", "\"", "amp", ";", "lt"}] : n \in 0 .. MaxArray} :
    Call([fn |-> "escape", string |-> join(text)])

UnderscoreNext ==
  \/ CallSortedIndex \/ CallIndexOf \/ CallShuffle \/ CallSortBy \/ CallSetOperations
  \/ CallRange \/ CallPartial \/ CallObject \/ CallIsEqual \/ CallFlatten \/ CallEscape

UnderscoreSpec == call = Idle /\ [][UnderscoreNext]_call

(***************************************************************************)
(* Properties                                                              *)
(***************************************************************************)

(* On an ascending array the halving loop of sortedIndex finds the number  *)
(* of smaller elements, and indexOf with isSorted agrees with the linear   *)
(* search, also for missing and repeated items and for empty arrays.       *)
SortedSearch ==
  call.fn = "sortedIndex" =>
    /\ sortedIndex(call.array, call.item) = Cardinality({i \in DOMAIN call.array : call.array[i] < call.item})
    /\ indexOfSorted(call.array, call.item) = indexOf(call.array, call.item, 0)

(* lastIndexOf mirrors indexOf on the reversed array, whether the position *)
(* it starts from is counted from the front or from the end.               *)
PositionsMirror ==
  call.fn = "indexOf" =>
    LET n == Len(call.array)
        at == IF call.from < 0 THEN n + call.from ELSE Min({call.from, n - 1})
        mirrored == indexOf(Reverse(call.array), call.item, n - 1 - at)
    IN at \in 0 .. n - 1 =>
         lastIndexOf(call.array, call.item, call.from) = IF mirrored = -1 THEN -1 ELSE n - 1 - mirrored

(* first and rest, and initial and last, cut an array into two parts that  *)
(* put together are the array, for every length that may be asked for.     *)
SlicesCover ==
  call.fn = "indexOf" =>
    /\ call.from >= 0 => first(call.array, call.from) \o rest(call.array, call.from) = call.array
    /\ initial(call.array, call.from) \o last(call.array, call.from) = call.array

(* shuffle reaches every permutation, each by exactly one sequence of      *)
(* random numbers, so it is uniform when random is; and so is sample,      *)
(* which reaches every selection equally often.                            *)
ShuffleUniform ==
  call.fn = "shuffle" =>
    LET n == Len(call.array)
        rands == {r \in [1 .. n -> 0 .. n] : \A i \in 1 .. n : r[i] < i}
        results == {shuffle(call.array, r) : r \in rands}
    IN /\ Cardinality(results) = Cardinality(rands)
       /\ \A result \in results : ToSet(result) = ToSet(call.array) /\ Len(result) = n
       /\ \A k \in 0 .. n + 1, q, r \in rands :
            Cardinality({t \in rands : sample(call.array, k, t) = sample(call.array, k, q)}) =
            Cardinality({t \in rands : sample(call.array, k, t) = sample(call.array, k, r)})

(* sortBy is stable: elements with the same criterion keep their order.    *)
SortByStable ==
  call.fn = "sortBy" =>
    LET result == sortBy(call.array, LAMBDA p : p[1])
    IN /\ ToSet(result) = ToSet(call.array) /\ Len(result) = Len(call.array)
       /\ IsSorted(result, LAMBDA p, q : p[1] < q[1] \/ (p[1] = q[1] /\ p[2] <= q[2]))

(* groupBy splits an array into the subsequences of its keys, countBy has  *)
(* their lengths, indexBy their last elements and uniq with the same       *)
(* iteratee their first ones, in order; partition agrees with it.          *)
GroupsPartition ==
  call.fn = "sortBy" =>
    LET key(p) == p[1]
        groups == groupBy(call.array, key)
    IN /\ DOMAIN groups = {toKey(key(p)) : p \in ToSet(call.array)}
       /\ \A k \in DOMAIN groups :
            /\ groups[k] = SelectSeq(call.array, LAMBDA p : toKey(key(p)) = k)
            /\ countBy(call.array, key)[k] = Len(groups[k])
            /\ indexBy(call.array, key)[k] = Last(groups[k])
            /\ LET halves == partition(call.array, LAMBDA p : toKey(key(p)) = k)
               IN halves[1] = groups[k] /\ halves[2] = SelectSeq(call.array, LAMBDA p : toKey(key(p)) # k)
       /\ ToSet(uniqBy(call.array, key)) = {Head(groups[k]) : k \in DOMAIN groups}
       /\ IsSorted(uniqBy(call.array, key), LAMBDA p, q : p[2] < q[2])

(* min is the head of the sorted array and max the first of those that are *)
(* not less than any; reduceRight is reduce from the other end.            *)
FoldsAgree ==
  call.fn = "sortBy" /\ call.array # <<>> =>
    LET key(p) == p[1]
        combine(p, q) == <<3 * p[1] + q[1], q[2]>>
    IN /\ min(call.array, key) = Head(sortBy(call.array, key))
       /\ max(call.array, key) = Head(sortBy(call.array, LAMBDA p : -key(p)))
       /\ reduceRight(call.array, combine) = reduce(Reverse(call.array), combine)

(* flatten opens every level: as many as shallow calls do, one after the   *)
(* other, until no array is left; strict drops what is no array.           *)
FlattenExact ==
  call.fn = "flatten" =>
    LET shallow(input) == flatten(input, TRUE, FALSE)
        nested(value) == "arr" \in DOMAIN value
    IN /\ flatten(call.input, FALSE, FALSE) = shallow(shallow(call.input))
       /\ flatten(call.input, TRUE, TRUE) = shallow(SelectSeq(call.input, nested))

(* uniq, intersection, difference and union agree: what two arrays share   *)
(* and what only the first has make up its distinct elements, the faster   *)
(* uniq is right on sorted arrays, and no result repeats an element.  zip  *)
(* undoes itself, but for what it fills up.                                *)
SetOperations ==
  call.fn = "union" =>
    LET a == call.array  b == call.other
        both == intersection(a, <<b>>)
        only == uniq(difference(a, <<b>>), FALSE)
    IN /\ Len(both) + Len(only) = Len(uniq(a, FALSE))
       /\ ToSet(both) = ToSet(a) \cap ToSet(b) /\ ToSet(only) = ToSet(a) \ ToSet(b)
       /\ union(<<a, b>>) = uniq(a, FALSE) \o uniq(without(b, a), FALSE)
       /\ IsAscending(a) => uniq(a, TRUE) = uniq(a, FALSE)
       /\ compact(a) = without(a, <<0>>)
       /\ zip(<<a, b>>) # <<>> => zip(zip(<<a, b>>)) = map(<<a, b>>, LAMBDA x :
                                     [i \in 1 .. Max({Len(a), Len(b)}) |-> IF i <= Len(x) THEN x[i] ELSE Undef])

(* range lists exactly the numbers reached from start by steps before      *)
(* stop, for both directions and for steps that do not divide the distance.*)
RangeExact ==
  call.fn = "range" =>
    LET r == range(call.start, call.stop, call.step)
        before(n) == IF call.step > 0 THEN n < call.stop ELSE n > call.stop
    IN /\ \A i \in DOMAIN r : before(r[i]) /\ r[i] = call.start + (i - 1) * call.step
       /\ ~before(call.start + Len(r) * call.step)

(* partial of a partial is a partial of the combined arguments, as long as *)
(* the outer one fills every placeholder of the inner one.                 *)
PartialComposes ==
  call.fn = "partial" /\ Quantify(DOMAIN call.bound, LAMBDA i : call.bound[i] = "_") <= Len(call.more) =>
    partial(call.bound, partial(call.more, call.args)) = partial(partial(call.bound, call.more), call.args)

(* pairs and object give an object back.  invert keeps the last key of    *)
(* each value, and inverting twice an object whose values differ gives its *)
(* values back as texts, not as the numbers they were.  omit and pick      *)
(* split an object, also when the keys to omit are given as numbers, and   *)
(* defaults never replaces a member.                                       *)
ObjectsRoundTrip ==
  call.fn = "object" =>
    LET o == call.obj
        listed == values(call.other)
        chosen == pick(o, LAMBDA v, k : contains(map(listed, toKey), k))
    IN /\ object(pairs(o)) = o
       /\ \A k \in DOMAIN o :
            invert(o)[toKey(o[k])] = Last(SelectSeq(keys(o), LAMBDA l : o[l] = o[k]))
       /\ (\A k, l \in DOMAIN o : o[k] = o[l] => k = l) =>
            invert(invert(o)) = [k \in DOMAIN o |-> toKey(o[k])]
       /\ DOMAIN omit(o, listed) \cap DOMAIN chosen = {}
       /\ extend(omit(o, listed), chosen) = o
       /\ defaults(o, call.other) = extend(call.other, o)
       /\ object(zip(<<keys(o), toArray(o)>>)) = o
       /\ LET found == where(<<o, call.other, extend(o, call.other)>>, call.other)
          IN found # <<>> /\ Head(found) = findWhere(<<o, call.other>>, call.other) /\ matches(call.other, Last(found))

(* Bisimilarity: what two values must satisfy to look the same however far *)
(* their members are followed, constructors included, as the greatest      *)
(* relation closed under them.  It is symmetric and reflexive, so a round  *)
(* for each pair of nodes reaches it.                                      *)
Bisimilar(heap) ==
  LET N == DOMAIN heap
      ok(R, a, b) == \/ a = b
                     \/ "val" \in DOMAIN heap[a] /\ heap[b] = heap[a]
                     \/ /\ "val" \notin DOMAIN heap[a] /\ "val" \notin DOMAIN heap[b]
                        /\ constructorsAgree(heap[a], heap[b])
                        /\ DOMAIN heap[a].props = DOMAIN heap[b].props
                        /\ \A k \in DOMAIN heap[a].props : <<heap[a].props[k], heap[b].props[k]>> \in R
      shrink(R) == {p \in R : ok(R, p[1], p[2])}
      rounds == (Cardinality(N) * (Cardinality(N) - 1)) \div 2
  IN FoldLeft(LAMBDA R, i : shrink(R), N \X N, [i \in 1 .. rounds |-> i])

(* The nodes reached from a node in at least one step. *)
Reached(heap, n) ==
  LET below(S) == UNION {IF "val" \in DOMAIN heap[m] THEN {} ELSE {heap[m].props[k] : k \in DOMAIN heap[m].props} : m \in S}
      reach[i \in 1 .. Cardinality(DOMAIN heap)] == IF i = 1 THEN below({n}) ELSE reach[i - 1] \cup below(reach[i - 1])
  IN reach[Cardinality(DOMAIN heap)]

(* isEqual never calls values equal that can be told apart, cyclic ones    *)
(* included, although it cuts a cycle off at the first repetition.         *)
IsEqualSound ==
  call.fn = "isEqual" =>
    LET same == Bisimilar(call.heap)
    IN \A a, b \in DOMAIN call.heap : isEqual(call.heap, a, b) => <<a, b>> \in same

(* On values without cycles isEqual is exact, and so symmetric.  With      *)
(* cycles it is neither: a cycle of two nodes equals one of one node and   *)
(* not the other way round.                                                *)
IsEqualExact ==
  call.fn = "isEqual" =>
    LET same == Bisimilar(call.heap)
        cyclic == {n \in DOMAIN call.heap : n \in Reached(call.heap, n)}
    IN \A a, b \in DOMAIN call.heap :
         ({a} \cup Reached(call.heap, a)) \cap cyclic = {} =>
           (isEqual(call.heap, a, b) <=> <<a, b>> \in same)

(* Escaped text is read back by unescape, in one pass, whatever it looked  *)
(* like before, entities included, and keeps no character of markup.       *)
EscapeRoundTrip ==
  call.fn = "escape" =>
    /\ unescape(escape(call.string)) = call.string
    /\ ToSet(chars(escape(call.string))) \cap {"<", ">", "\"", "'"} = {}

(* Every function of underscore.js that is called returns what its         *)
(* reference definition says: searches and slices at every length, stable  *)
(* sorts, fair shuffles, groups and set operations that fit together,      *)
(* comparisons of cyclic values, and text that survives escaping.          *)
UnderscoreExact ==
  /\ SortedSearch
  /\ PositionsMirror
  /\ SlicesCover
  /\ ShuffleUniform
  /\ SortByStable
  /\ GroupsPartition
  /\ FoldsAgree
  /\ FlattenExact
  /\ SetOperations
  /\ RangeExact
  /\ PartialComposes
  /\ ObjectsRoundTrip
  /\ IsEqualSound
  /\ IsEqualExact
  /\ EscapeRoundTrip
=============================================================================
