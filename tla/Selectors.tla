----------------------------- MODULE Selectors -----------------------------
(***************************************************************************)
(* jquery.js: how jQuery finds elements.  Sizzle compiles a selector into  *)
(* a matcher that goes from the element back to the context, and keeps     *)
(* what it learned in caches on the nodes; the traversing methods collect  *)
(* the neighbours of a set of elements and sort them.                      *)
(*                                                                         *)
(* A document is its tree: node 0 is the document, node 1 its root element *)
(* and the nodes are numbered in document order.  The compiled matcher is  *)
(* its token list: the matcher of the first i tokens is Matcher(q, i, ..). *)
(***************************************************************************)
EXTENDS FunctionCalls, Integers, Sequences, SequencesExt

CONSTANT MaxNodes   \* bound: the nodes below the document

NoNode == -1
TextNode == "text"

RECURSIVE ancestors(_, _)
ancestors(parent, e) == IF e = 0 THEN {} ELSE {parent[e]} \cup ancestors(parent, parent[e])

(* The documents of n nodes: the next node hangs on the last one or on one *)
(* of its ancestors, and nothing hangs on a text.                          *)
Trees(n) ==
  {p \in [1 .. n -> 0 .. n - 1] :
     /\ p[1] = 0 /\ \A i \in 2 .. n : p[i] \in 1 .. i - 1
     /\ \A i \in 2 .. n : p[i] \in {i - 1} \cup ancestors(p, i - 1)}

Documents(n) ==
  UNION {{[parent |-> p, class |-> c] : c \in {c \in [1 .. n -> {"a", "b", TextNode}] :
           c[1] # TextNode /\ \A i \in 2 .. n : c[p[i]] # TextNode}} : p \in Trees(n)}

NodesOf(d) == DOMAIN d.parent
isElement(d, e) == e > 0 /\ d.class[e] # TextNode
childNodes(d, p) == SetToSortSeq({e \in NodesOf(d) : d.parent[e] = p}, <)

along(d, e, dir) ==
  LET siblings == {f \in NodesOf(d) : e > 0 /\ f # e /\ d.parent[f] = d.parent[e]}
      before == {f \in siblings : f < e}
      after == {f \in siblings : f > e}
  IN CASE dir = "parentNode" -> IF e = 0 THEN NoNode ELSE d.parent[e]
       [] dir = "previousSibling" -> IF before = {} THEN NoNode ELSE Max(before)
       [] dir = "nextSibling" -> IF after = {} THEN NoNode ELSE Min(after)

getElementsByTagName(d, c) == SetToSortSeq({e \in NodesOf(d) : isElement(d, e) /\ c \in ancestors(d.parent, e)}, <)
getElementsByClassName(d, c, name) == SelectSeq(getElementsByTagName(d, c), LAMBDA e : d.class[e] = name)

(***************************************************************************)
(* Matching                                                                *)
(***************************************************************************)

relative(type) ==
  CASE type = ">" -> [dir |-> "parentNode", first |-> TRUE]
    [] type = " " -> [dir |-> "parentNode", first |-> FALSE]
    [] type = "+" -> [dir |-> "previousSibling", first |-> TRUE]
    [] type = "~" -> [dir |-> "previousSibling", first |-> FALSE]

IsRelative(token) == token.type \in {">", " ", "+", "~"}
leadingRelative(tokens) == tokens # <<>> /\ IsRelative(tokens[1])

(* What is kept on the nodes and in the closure: the box a node points to  *)
(* in a direction (0 for none), the boxes, the index of nth-child, the     *)
(* position of nth-last-child, the run and the runs begun.                 *)
Expandos(n) ==
  [dirs |-> [x \in (0 .. n) \X {"parentNode", "previousSibling"} |-> 0], boxes |-> <<>>,
   nth |-> [x \in 0 .. n |-> [run |-> 0, nodeIndex |-> 0, diff |-> 0]],
   nthLast |-> [x \in 0 .. n |-> [run |-> 0, diff |-> 0]], dirruns |-> 0, begun |-> 0]

Yes(ok, s) == [ok |-> ok, s |-> s]

(* The next node in the direction that is an element, or any node for the  *)
(* parents of the outermost matcher.                                       *)
RECURSIVE nearest(_, _, _, _)
nearest(d, e, dir, base) ==
  LET n == along(d, e, dir)
      checkNonElements == base /\ dir = "parentNode"
  IN IF n = NoNode \/ isElement(d, n) \/ checkNonElements THEN n ELSE nearest(d, n, dir, base)

(* Whether a position is first n + last for some n. *)
inCycle(token, position) ==
  LET diff == position - token.last
      size == IF token.first < 0 THEN -token.first ELSE token.first
  IN diff = token.first \/ (size # 0 /\ diff % size = 0 /\ diff * token.first >= 0)

(* :nth-child counts on from the index cached on the parent when that one  *)
(* is before the element; :nth-last-child counts from the end and caches   *)
(* the position of every element it passes.                                *)
CHILD(d, token, e, s) ==
  LET p == d.parent[e]
      nodes == childNodes(d, p)
      at == IndexFirstSubSeq(<<e>>, nodes) - 1
      Counted(from, to) == Len(SelectSeq(SubSeq(nodes, from + 1, to + 1), LAMBDA f : isElement(d, f)))
      before == Counted(0, at - 1)
      after == Counted(at + 1, Len(nodes) - 1)
      cache == s.nth[p]
      useCache == cache.run = s.dirruns /\ cache.nodeIndex \in 1 .. at - 1
      found == IF useCache THEN cache.diff + Counted(cache.nodeIndex + 1, at) ELSE before + 1
      last == s.nthLast[e]
      passed == {f \in ToSet(nodes) : isElement(d, f) /\ f >= e}
      Position(f) == Cardinality({g \in passed : g >= f})
  IN CASE token.kind = "first" -> Yes(before = 0, s)
       [] token.kind = "last" -> Yes(after = 0, s)
       [] token.kind = "only" -> Yes(before = 0 /\ after = 0, s)
       [] token.kind \in {"nth", "nth-last"} /\ token.first = 1 /\ token.last = 0 -> Yes(TRUE, s)
       [] token.kind = "nth-last" /\ last.run = s.dirruns -> Yes(inCycle(token, last.diff), s)
       [] OTHER ->
            IF token.kind = "nth"
            THEN Yes(inCycle(token, found), [s EXCEPT !.nth[p] = [run |-> s.dirruns, nodeIndex |-> at, diff |-> found]])
            ELSE Yes(inCycle(token, Position(e)),
                     [s EXCEPT !.nthLast = [f \in passed |-> [run |-> s.dirruns, diff |-> Position(f)]] @@ @])

(* Every run of a compiled selector, a nested one too, has its own number.  *)
(* (The code adds a random fraction for a nested one.)                     *)
beginRun(s) == [s EXCEPT !.dirruns = s.begun + 1, !.begun = @ + 1]

RECURSIVE Matcher(_, _, _, _), Combined(_, _, _, _, _), superMatcher(_, _, _, _)

(* The name of a combinator: its place in what was compiled, the argument  *)
(* of a :not being compiled by itself.                                     *)
doneName(q, i) == <<q.context = NoNode, q.tokens, i>>

(* Variant: the cache does not tell the combinators of a selector apart.   *)
fromCacheAnyName(s, n, dir, name) ==
  LET old == s.dirs[n, dir] IN old # 0 /\ s.boxes[old].run = s.dirruns

(* Whether the node has the answer of this combinator in this run. *)
fromCache(s, n, dir, name) ==
  LET old == s.dirs[n, dir] IN old # 0 /\ s.boxes[old].run = s.dirruns /\ s.boxes[old].name = name

(* The combinator at token i, that of the context for 0; the outermost one *)
(* compares the node it comes to with the context, the others go on to the *)
(* matcher before them.                                                    *)
combinator(q, i) == relative(IF i = 0 THEN " " ELSE q.tokens[i].type)
isBase(q, i) == i = 0 \/ (i = 1 /\ leadingRelative(q.tokens))
Arrived(q, i, n, s) == IF isBase(q, i) THEN Yes(n = q.context, s) ELSE Matcher(q, i - 1, n, s)

(* The loop of a combinator that looks at all the nodes in its direction.  *)
(* The nodes share the array newCache, number s.boxes[box], so its last    *)
(* value is the answer of them all.                                        *)
Combined(q, i, e, s, box) ==
  LET Answer(ok, t) == [t EXCEPT !.boxes[box].ok = ok]
      After(n, r) == IF r.ok THEN Yes(TRUE, Answer(TRUE, r.s)) ELSE Combined(q, i, n, Answer(FALSE, r.s), box)
      Cached(ok) == Yes(ok, Answer(ok, s))
      At(n, dir) ==
        IF n = NoNode THEN Yes(FALSE, s)
        ELSE IF fromCache(s, n, dir, doneName(q, i)) THEN Cached(s.boxes[s.dirs[n, dir]].ok)
        ELSE After(n, Arrived(q, i, n, [s EXCEPT !.dirs[n, dir] = box]))
  IN At(nearest(q.d, e, combinator(q, i).dir, isBase(q, i)), combinator(q, i).dir)

addCombinator(q, i, e, s) ==
  LET First(n) == IF n = NoNode THEN Yes(FALSE, s) ELSE Arrived(q, i, n, s)
      newCache == [run |-> s.dirruns, name |-> doneName(q, i), ok |-> FALSE]
  IN IF combinator(q, i).first THEN First(nearest(q.d, e, combinator(q, i).dir, isBase(q, i)))
     ELSE Combined(q, i, e, [s EXCEPT !.boxes = Append(@, newCache)], Len(s.boxes) + 1)

(* The foundational matcher: the element is reachable from the context.    *)
matchContext(q, e, s) ==
  IF ~leadingRelative(q.tokens) /\ q.context # q.outermostContext THEN Yes(TRUE, s)
  ELSE addCombinator(q, IF leadingRelative(q.tokens) THEN 1 ELSE 0, e, s)

(* :not runs the matcher of its argument on the element, with no context.  *)
not(q, tokens, e, s) ==
  LET inner == [q EXCEPT !.tokens = tokens, !.context = NoNode]
      Inverted(r) == Yes(r.results = <<>>, r.s)
  IN Inverted(superMatcher(inner, <<tokens>>, <<e>>, beginRun(s)))

filterBy(q, token, e, s) ==
  CASE token.type = "CLASS" -> Yes(q.d.class[e] = token.name, s)
    [] token.type = "CHILD" -> CHILD(q.d, token, e, s)
    [] token.type = "NOT" -> not(q, token.tokens, e, s)

(* matcherFromTokens and elementMatcher: the matchers of a compound are    *)
(* asked from the last to the first, the one of the combinator before it   *)
(* at the end.                                                             *)
Matcher(q, i, e, s) ==
  IF isBase(q, i) THEN matchContext(q, e, s)
  ELSE IF IsRelative(q.tokens[i]) THEN addCombinator(q, i, e, s)
  ELSE LET Before(r) == IF r.ok THEN Matcher(q, i - 1, e, r.s) ELSE r IN Before(filterBy(q, q.tokens[i], e, s))

(* The loop over the elements: one is taken when a group matches it; the   *)
(* groups were compiled from the last to the first.                        *)
superMatcher(q, groups, elems, s) ==
  LET dirrunsUnique == s.dirruns
      Try(r, tokens) == IF r.ok THEN r ELSE Matcher([q EXCEPT !.tokens = tokens], Len(tokens), r.e, r.s) @@ [e |-> r.e]
      Tried(results, r) ==
        [results |-> IF r.ok THEN Append(results, r.e) ELSE results,
         s |-> IF q.context # NoNode THEN [r.s EXCEPT !.dirruns = dirrunsUnique] ELSE r.s]
      Step(acc, e) == Tried(acc.results, FoldLeft(Try, [ok |-> FALSE, s |-> acc.s, e |-> e], Reverse(groups)))
  IN FoldLeft(Step, [results |-> <<>>, s |-> s], elems)

(* A compiled selector called by select, with the elements to look at.     *)
run(d, groups, elems, context, s) ==
  superMatcher([d |-> d, tokens |-> <<>>, context |-> context, outermostContext |-> IF context = 0 THEN -2 ELSE context],
               groups, elems, beginRun(s))

(* The place of the last token, behind the last combinator, that the       *)
(* document can look up by itself; 0 for none.                             *)
seedToken(tokens) ==
  LET combinators == {0} \cup {i \in DOMAIN tokens : IsRelative(tokens[i])}
      classes == {i \in Max(combinators) + 1 .. Len(tokens) : tokens[i].type = "CLASS"}
  IN IF leadingRelative(tokens) \/ classes = {} THEN 0 ELSE Max(classes)

(* A + or ~ in the text of the selector: a combinator, or the sign of an+b *)
(* (2n+1 is written odd).                                                  *)
rsibling(token) ==
  \/ token.type \in {"+", "~"}
  \/ token.type = "CHILD" /\ token.first \notin {0, 2} /\ token.last > 0

select(d, groups, context, s) ==
  LET at == IF Len(groups) = 1 THEN seedToken(groups[1]) ELSE 0
      rest == RemoveAt(groups[1], at)
      sibling == \E g \in ToSet(groups) : \E i \in DOMAIN g : rsibling(g[i])
      outermost == IF sibling /\ context # 0 THEN d.parent[context] ELSE context
      seed == IF at = 0 THEN getElementsByTagName(d, outermost) ELSE getElementsByClassName(d, context, groups[1][at].name)
  IN IF at # 0 /\ (seed = <<>> \/ rest = <<>>) THEN [results |-> seed, s |-> s]
     ELSE run(d, IF at = 0 THEN groups ELSE <<rest>>, seed, context, s)

(* Sizzle where the browser has no usable querySelectorAll. *)
Sizzle(d, groups, context, s) ==
  IF Len(groups) = 1 /\ Len(groups[1]) = 1 /\ groups[1][1].type = "CLASS"
  THEN [results |-> getElementsByClassName(d, context, groups[1][1].name), s |-> s]
  ELSE select(d, groups, context, s)

(* Sizzle.matchesSelector and Sizzle.matches: the elements are the seed.   *)
matchesSelector(d, groups, elems, s) == run(d, groups, elems, 0, s)

(***************************************************************************)
(* Sets of elements                                                        *)
(***************************************************************************)

(* The order of two siblings. *)
siblingCheck(d, a, b) ==
  CASE a = NoNode -> -1
    [] b = NoNode -> 1
    [] OTHER -> IF b \in {f \in NodesOf(d) : f > a /\ d.parent[f] = d.parent[a]} THEN -1 ELSE 1

(* The nodes from the document to the element. *)
path(d, e) == SetToSortSeq({e} \cup ancestors(d.parent, e), <)

(* sortOrder where the browser has no compareDocumentPosition. *)
sortOrder(d, a, b) ==
  LET ap == path(d, a)
      bp == path(d, b)
      i == CHOOSE k \in 1 .. Len(ap) + 1 : /\ \A h \in 1 .. k - 1 : h <= Len(bp) /\ ap[h] = bp[h]
                                           /\ k > Len(ap) \/ k > Len(bp) \/ ap[k] # bp[k]
      At(p) == IF i <= Len(p) THEN p[i] ELSE NoNode
  IN CASE a = b -> 0
       [] a # b /\ (a = 0 \/ b = 0) -> IF a = 0 THEN -1 ELSE 1
       [] OTHER -> siblingCheck(d, At(ap), At(bp))

uniqueSort(d, results) ==
  LET sorted == SortSeq(results, LAMBDA a, b : sortOrder(d, a, b) < 0)
  IN FoldLeft(LAMBDA r, e : IF r # <<>> /\ Last(r) = e THEN r ELSE Append(r, e), <<>>, sorted)

findAll(d, groups, contexts, s) ==
  LET Joined(acc, r) == [r EXCEPT !.results = acc.results \o @]
      Pushed(all) == IF Len(contexts) > 1 THEN [all EXCEPT !.results = uniqueSort(d, @)] ELSE all
  IN Pushed(FoldLeft(LAMBDA acc, c : Joined(acc, Sizzle(d, groups, c, acc.s)), [results |-> <<>>, s |-> s], contexts))

(***************************************************************************)
(* Traversing                                                              *)
(***************************************************************************)

Nothing == <<>>   \* no selector

is(d, e, tokens) == matchesSelector(d, <<tokens>>, <<e>>, Expandos(Len(d.parent))).results # <<>>

RECURSIVE dirFrom(_, _, _, _)
dirFrom(d, cur, dir, until) ==
  IF cur \in {NoNode, 0} \/ (until # Nothing /\ isElement(d, cur) /\ is(d, cur, until)) THEN <<>>
  ELSE (IF isElement(d, cur) THEN <<cur>> ELSE <<>>) \o dirFrom(d, along(d, cur, dir), dir, until)

siblingsBut(d, p, elem) == SelectSeq(childNodes(d, p), LAMBDA e : isElement(d, e) /\ e # elem)

Given(e) == IF e = NoNode THEN <<>> ELSE <<e>>

(* The direction of the methods that go on to the end. *)
dirOf(name) ==
  CASE name \in {"parents", "parentsUntil"} -> "parentNode"
    [] name \in {"nextAll", "nextUntil"} -> "nextSibling"
    [] name \in {"prevAll", "prevUntil"} -> "previousSibling"

neighbours(d, name, e, until) ==
  CASE name = "parent" -> Given(d.parent[e])
    [] name = "next" -> Given(nearest(d, e, "nextSibling", FALSE))
    [] name = "prev" -> Given(nearest(d, e, "previousSibling", FALSE))
    [] name = "siblings" -> siblingsBut(d, d.parent[e], e)
    [] name = "children" -> siblingsBut(d, e, NoNode)
    [] name = "contents" -> childNodes(d, e)
    [] OTHER -> dirFrom(d, along(d, e, dirOf(name)), dirOf(name), until)

guaranteedUnique == {"children", "contents", "next", "prev"}
rparentsprev == {"parents", "parentsUntil", "prevUntil", "prevAll"}
Until == {"parentsUntil", "nextUntil", "prevUntil"}

traverse(d, name, elems, until, selector) ==
  LET Filtered(mapped) ==
        IF selector = Nothing THEN mapped
        ELSE matchesSelector(d, <<selector>>, SelectSeq(mapped, LAMBDA e : isElement(d, e)), Expandos(Len(d.parent))).results
      Unique(kept) == IF name \in guaranteedUnique THEN kept ELSE uniqueSort(d, kept)
      Ordered(kept) ==
        CASE Len(elems) <= 1 -> kept
          [] Len(elems) > 1 /\ name \in rparentsprev -> Reverse(Unique(kept))
          [] OTHER -> Unique(kept)
  IN Ordered(Filtered(FlattenSeq([i \in DOMAIN elems |-> neighbours(d, name, elems[i], until)])))

RECURSIVE closestOf(_, _, _)
closestOf(d, cur, tokens) ==
  IF cur = NoNode \/ (isElement(d, cur) /\ is(d, cur, tokens)) THEN Given(cur)
  ELSE closestOf(d, along(d, cur, "parentNode"), tokens)

closest(d, elems, tokens) ==
  LET Sorted(matched) == IF Len(matched) > 1 THEN uniqueSort(d, matched) ELSE matched
  IN Sorted(FlattenSeq([i \in DOMAIN elems |-> closestOf(d, elems[i], tokens)]))

add(d, elems, others) == uniqueSort(d, elems \o others)

(***************************************************************************)
(* The calls                                                               *)
(***************************************************************************)

Class(name) == [type |-> "CLASS", name |-> name]
Child(kind, first, last) == [type |-> "CHILD", kind |-> kind, first |-> first, last |-> last]
Simple(kind) == Child(kind, 0, 0)
Negated(tokens) == [type |-> "NOT", tokens |-> tokens]
Op(type) == [type |-> type]

Compounds ==
  {<<Class("a")>>, <<Class("b")>>, <<Child("nth", 2, 1)>>, <<Class("a"), Child("nth", 0, 2)>>,
   <<Child("nth", -1, 2), Class("b")>>, <<Child("nth-last", 2, 0)>>,
   <<Negated(<<Class("a"), Op(" "), Class("b")>>)>>}
Ops == {Op(">"), Op(" "), Op("+"), Op("~")}
Classes == {<<Class("a")>>, <<Class("b")>>}

Pairs == {c \o <<o>> \o e : c \in Compounds, o \in Ops, e \in Compounds}
Triples == {c \o <<o>> \o e \o <<p>> \o f : c \in Classes, o \in Ops, e \in Classes, p \in {Op(" "), Op("~")}, f \in Classes}
Ends ==
  {<<Simple(kind)>> : kind \in {"first", "last", "only"}}
    \cup {c \o <<Op(">"), Simple(kind)>> : c \in Classes, kind \in {"first", "last", "only"}}
    \cup {<<Child("nth-last", 1, 0)>>}
Groups ==
  {<<g>> : g \in Ends \cup Compounds \cup Pairs \cup Triples \cup {<<o>> \o c : o \in Ops \ {Op(" ")}, c \in Compounds}}
    \cup {<<g, c>> : g \in {c \o <<Op("~")>> \o e : c \in Classes, e \in Classes}, c \in Compounds}

(* A set of elements a page can hold: found in document order. *)
ElementSets(d) == {SetToSortSeq(S, <) : S \in SUBSET {e \in NodesOf(d) : isElement(d, e)}}

Methods == {"parent", "next", "prev", "siblings", "children", "contents", "parents", "nextAll", "prevAll"} \cup Until

FindCall(fn, d, contexts, groups) ==
  /\ \A i \in DOMAIN contexts : contexts[i] = 0 \/ isElement(d, contexts[i])
  /\ Call([fn |-> fn, d |-> d, contexts |-> contexts, groups |-> groups])

SelectorCalls ==
  /\ call = Idle
  /\ \/ \E d \in Documents(MaxNodes), others \in SeqOf(0 .. MaxNodes, 2) : \E elems \in ElementSets(d) :
          Call([fn |-> "add", d |-> d, elems |-> elems, others |-> others])
     \/ \E d \in Documents(MaxNodes), contexts \in {<<0>>, <<2>>, <<1, 2>>}, groups \in Groups :
          FindCall("find", d, contexts, groups)
     \/ \E d \in Documents(MaxNodes), contexts \in {<<0>>, <<2>>},
            groups \in {<<g>> : g \in Triples} \cup {<<c>> : c \in Compounds} :
          FindCall("findAgain", d, contexts, groups)
     \/ \E d \in Documents(MaxNodes) : \E elems \in ElementSets(d) :
          \/ \E name \in Methods, selector \in {Nothing, <<Class("a")>>} :
             \E until \in IF name \in Until THEN {Nothing, <<Class("b")>>} ELSE {Nothing} :
               Call([fn |-> "traverse", d |-> d, name |-> name, elems |-> elems, until |-> until, selector |-> selector])
          \/ \E tokens \in Compounds :
               Call([fn |-> "closest", d |-> d, elems |-> elems, tokens |-> tokens])

(***************************************************************************)
(* Properties                                                              *)
(***************************************************************************)

Elements(d) == {e \in NodesOf(d) : isElement(d, e)}
InOrder(S) == SetToSortSeq(S, <)

(* The elements that stand in a relation to an element of S. *)
Related(d, type, S) ==
  LET Before(e) == {f \in Elements(d) : f < e /\ d.parent[f] = d.parent[e]}
  IN {e \in Elements(d) :
        CASE type = ">" -> d.parent[e] \in S
          [] type = " " -> ancestors(d.parent, e) \cap S # {}
          [] type = "+" -> Before(e) # {} /\ Max(Before(e)) \in S
          [] type = "~" -> Before(e) \cap S # {}}

(* What a selector denotes, read from left to right. *)
RECURSIVE Denotes(_, _, _)
Denotes(d, c, tokens) ==
  LET Position(e) == Cardinality({f \in Elements(d) : f <= e /\ d.parent[f] = d.parent[e]})
      FromEnd(e) == Cardinality({f \in Elements(d) : f >= e /\ d.parent[f] = d.parent[e]})
      Cycle(t, position) == \E n \in 0 .. MaxNodes + 2 : position = t.first * n + t.last
      AtPlace(t, e) ==
        CASE t.kind = "first" -> Position(e) = 1
          [] t.kind = "last" -> FromEnd(e) = 1
          [] t.kind = "only" -> Position(e) = 1 /\ FromEnd(e) = 1
          [] t.kind = "nth" -> Cycle(t, Position(e))
          [] t.kind = "nth-last" -> Cycle(t, FromEnd(e))
      Step(S, t) ==
        IF IsRelative(t) THEN Related(d, t.type, S)
        ELSE {e \in S : CASE t.type = "CLASS" -> d.class[e] = t.name
                          [] t.type = "CHILD" -> AtPlace(t, e)
                          [] t.type = "NOT" -> e \notin Denotes(d, 0, t.tokens)}
  IN FoldLeft(Step, IF leadingRelative(tokens) THEN {c} ELSE Related(d, " ", {c}), tokens)

Found(d, groups, contexts) ==
  InOrder(UNION {Denotes(d, contexts[i], groups[j]) : i \in DOMAIN contexts, j \in DOMAIN groups})

(* find returns exactly the elements that the selector denotes below the   *)
(* contexts, each once and in document order, although it matches from     *)
(* right to left, answers from the caches on the nodes, and evaluates a    *)
(* :not in the middle of a match.                                          *)
FindExact ==
  call.fn = "find" =>
    findAll(call.d, call.groups, call.contexts, Expandos(MaxNodes)).results = Found(call.d, call.groups, call.contexts)

(* The caches that a query leaves on the nodes do not reach the next one:  *)
(* when the classes have changed in between it finds what it should.       *)
CacheNeverStale ==
  call.fn = "findAgain" =>
    LET Other(c) == CASE c = "a" -> "b" [] c = "b" -> "a" [] OTHER -> c
        changed == [call.d EXCEPT !.class = [e \in DOMAIN @ |-> Other(@[e])]]
        before == findAll(call.d, call.groups, call.contexts, Expandos(MaxNodes)).s
    IN findAll(changed, call.groups, call.contexts, before).results = Found(changed, call.groups, call.contexts)

(* A union of sets is in document order and has no element twice, also     *)
(* where jQuery has to find the order by itself.                           *)
UnionSorted ==
  call.fn = "add" => add(call.d, call.elems, call.others) = InOrder(ToSet(call.elems) \cup ToSet(call.others))

(* A traversing method returns the neighbours of all the elements without  *)
(* duplicates, those of parents and of what is before them from the last   *)
(* to the first; closest the nearest match of each.  (The methods that are *)
(* guaranteedUnique do not sort: theirs are as they come.)                 *)
TraversalExact ==
  LET d == call.d
      all == UNION {ToSet(neighbours(d, call.name, call.elems[i], call.until)) : i \in DOMAIN call.elems}
      Selected(S) == IF call.selector = Nothing THEN S ELSE {e \in S : isElement(d, e) /\ d.class[e] = "a"}
      Exactly(result, wanted) ==
        /\ ToSet(result) = wanted /\ Len(result) = Cardinality(wanted)
        /\ call.name \notin guaranteedUnique =>
             result = IF call.name \in rparentsprev THEN Reverse(InOrder(wanted)) ELSE InOrder(wanted)
  IN call.fn = "traverse" =>
       Exactly(traverse(d, call.name, call.elems, call.until, call.selector), Selected(all))

(* closest returns the innermost match on the path of each element. *)
ClosestExact ==
  call.fn = "closest" =>
    LET On(e) == ({e} \cup ancestors(call.d.parent, e)) \cap Denotes(call.d, 0, call.tokens)
    IN closest(call.d, call.elems, call.tokens) = InOrder({Max(On(e)) : e \in {f \in ToSet(call.elems) : On(f) # {}}})

(* Selections are exact: find, closest and the traversing methods return   *)
(* the elements that the selector denotes, each once and in order,         *)
(* whatever the caches on the nodes hold.                                  *)
SelectionExact ==
  /\ UnionSorted
  /\ FindExact
  /\ CacheNeverStale
  /\ TraversalExact
  /\ ClosestExact
=============================================================================
