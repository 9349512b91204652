------------------------------ MODULE DocTools ------------------------------
(***************************************************************************)
(* The functions of the documentation's scripts that keep no state:        *)
(* doctools.js (the parameters of an address, the page's address relative  *)
(* to the root, marking a word in a text), the tables of javadoc's         *)
(* script.js, and the comment trees of websupport.js.                      *)
(*                                                                         *)
(* An address is a sequence of characters and escapes; "%26" is one        *)
(* element.  The children of an element are a sequence of text nodes and   *)
(* of spans of the class highlighted.                                      *)
(***************************************************************************)
EXTENDS SearchIndex, Bitwise, TLC

LOCAL INSTANCE SequencesExt
LOCAL INSTANCE FiniteSetsExt
LOCAL INSTANCE Functions

(* String.split *)
split(s, separator) ==
  FoldLeft(LAMBDA parts, c : IF c = separator THEN Append(parts, <<>>)
                             ELSE [parts EXCEPT ![Len(parts)] = Append(@, c)],
           <<<<>>>>, s)

escapes == [plus |-> "%2B", amp |-> "%26", eq |-> "%3D"]

(* encodeURIComponent, on the characters that matter in an address *)
urlencode(x) ==
  map(x, LAMBDA c : CASE c = "+" -> escapes.plus [] c = "&" -> escapes.amp [] c = "=" -> escapes.eq [] OTHER -> c)

decodeURIComponent(x) ==
  map(x, LAMBDA c : CASE c = escapes.plus -> "+" [] c = escapes.amp -> "&" [] c = escapes.eq -> "=" [] OTHER -> c)

(* urldecode: the pluses are replaced after the escapes are decoded. *)
urldecode(x) == map(decodeURIComponent(x), LAMBDA c : IF c = "+" THEN " " ELSE c)

(* The keys every object inherits, one of them for all. *)
inherited == {<<"toString">>}

(* getQueryParameters: a part without "=" has the value undefined, which   *)
(* urldecode makes a text; a third piece of a part is dropped.  An         *)
(* inherited key is "in result", and pushing on it throws: nothing is      *)
(* returned.                                                               *)
getQueryParameters(s) ==
  LET mark == SelectInSeq(s, LAMBDA c : c = "?")
      parts == split(SubSeq(s, mark + 1, Len(s)), "&")
      add(result, part) ==
        LET tmp == split(part, "=")
            key == urldecode(tmp[1])
            value == IF Len(tmp) = 1 THEN <<"undefined">> ELSE urldecode(tmp[2])
        IN extend(result, key :> (IF key \in DOMAIN result THEN Append(result[key], value) ELSE <<value>>))
  IN IF some(parts, LAMBDA part : urldecode(split(part, "=")[1]) \in inherited) THEN Undef
     ELSE FoldLeft(add, <<>>, parts)

(* String.prototype.substring: positions from 0, in either order *)
substring(s, i, j) == SubSeq(s, Min({i, j}) + 1, Max({i, j}))

(* getCurrentURL, for a root that is up levels above the page: parts loses *)
(* a level for each "..", and the address is cut behind the last slash     *)
(* that is left, without its own last character.                           *)
getCurrentURL(path, up) ==
  LET parts == split(path, "/")
      url == FlattenSeq(map(SubSeq(parts, 2, Len(parts) - up), LAMBDA part : <<"/">> \o part))
      slash == Max({0} \cup {i \in DOMAIN url : url[i] = "/"})
  IN substring(path, slash, Len(path) - 1)

(* The first position of word in text, counted from 0; -1 when it is not there. *)
position(text, word) ==
  Min({Len(text) + 1} \cup {i \in 1 .. Len(text) - Len(word) + 1 : SubSeq(text, i, i + Len(word) - 1) = word})

Text(t) == [span |-> FALSE, text |-> t]

(* highlight on the child at i: a text node with the word becomes the text *)
(* before it, a span, and the text behind it.  A span of the class is left *)
(* as it is.                                                               *)
highlight(children, i, word) ==
  LET val == children[i].text
      pos == position(val, word)
  IN IF children[i].span \/ pos > Len(val) THEN children
     ELSE SubSeq(children, 1, i - 1)
          \o <<Text(SubSeq(val, 1, pos - 1)), [span |-> TRUE, text |-> word],
               Text(SubSeq(val, pos + Len(word), Len(val)))>>
          \o SubSeq(children, i + 1, Len(children))

(* highlightText: jQuery.each goes through the children as they are at     *)
(* each turn, as often as there were children at first.                    *)
highlightText(children, word) ==
  FoldLeft(LAMBDA now, i : highlight(now, i, word), children, [i \in DOMAIN children |-> i])

(* show of javadoc: a row is shown when its kind is of the type; count     *)
(* numbers the shown rows.  A hidden row keeps its class.                  *)
show(rows, type) ==
  LET shown(k) == (rows[k].method & type) # 0
      count(k) == Cardinality({j \in 1 .. k - 1 : shown(j)})
  IN [k \in DOMAIN rows |->
        IF shown(k)
        THEN [rows[k] EXCEPT !.display = TRUE,
                             !.className = IF count(k) % 2 = 1 THEN "rowColor" ELSE "altColor"]
        ELSE [rows[k] EXCEPT !.display = FALSE]]

(* updateTabs *)
updateTabs(tabs, type) == [value \in tabs |-> IF value = type THEN "activeTableTab" ELSE "tableTab"]

(***************************************************************************)
(* Comment trees.  A comment is [id, displayed, children]; comp sorts by   *)
(* id.  The element of a comment is [id, ul]; a comment that waits for a   *)
(* moderator is shown as a note without an id and without a list.          *)
(***************************************************************************)

RECURSIVE sortComments(_)
sortComments(comments) ==
  LET sorted == SortSeq(comments, LAMBDA a, b : a.id < b.id)
  IN [i \in DOMAIN sorted |-> [sorted[i] EXCEPT !.children = sortComments(@)]]

Note == [note |-> "Thank you!"]

RECURSIVE appendComments(_, _)
appendComments(comments, moderator) ==
  [i \in DOMAIN comments |->
     IF comments[i].displayed \/ moderator
     THEN [id |-> comments[i].id, displayed |-> comments[i].displayed,
           ul |-> appendComments(comments[i].children, moderator)]
     ELSE Note]

(* Variant: the replies to replies are not collected. *)
getChildrenFlat(ul) ==
  map(SelectSeq(ul, LAMBDA e : e # Note), LAMBDA e : [id |-> e.id, displayed |-> e.displayed, children |-> <<>>])

RECURSIVE getChildren(_)
getChildren(ul) ==
  LET divs == SelectSeq(ul, LAMBDA e : e # Note)
  IN [i \in DOMAIN divs |-> [id |-> divs[i].id, displayed |-> divs[i].displayed, children |-> getChildren(divs[i].ul)]]

(***************************************************************************)
(* Calls                                                                   *)
(***************************************************************************)

CallParameters ==
  \E ks, vs \in [1 .. 2 -> {<<"a">>, <<"+">>, <<"a", "=">>, <<"&", "=", "a">>, <<"toString">>}] :
    Call([fn |-> "getQueryParameters", keys |-> ks, values |-> vs])

CallCurrentURL ==
  \E path \in UNION {[1 .. n -> {"a", "/"}] : n \in 1 .. 5}, up \in 0 .. 3 :
    /\ path[1] = "/" /\ up < Cardinality({i \in DOMAIN path : path[i] = "/"})
    /\ Call([fn |-> "getCurrentURL", path |-> path, up |-> up])

CallHighlight ==
  \E texts \in UNION {[1 .. n -> UNION {[1 .. k -> {"a", "b"}] : k \in 0 .. 4}] : n \in 1 .. 2} :
    Call([fn |-> "highlightText", texts |-> texts, word |-> <<"a", "b">>])

(* Kinds as javadoc assigns them: bits for static, instance, abstract and concrete. *)
CallShow ==
  \E methods \in [1 .. 3 -> {1, 2, 6, 10}], before, type \in {1, 2, 4, 8, 31} :
    Call([fn |-> "show", methods |-> methods, before |-> before, type |-> type])

(* The trees of at most three comments, children in any order. *)
CallReSort ==
  \E ids \in {s \in [1 .. 3 -> 1 .. 3] : IsInjective(s)}, displayed \in [1 .. 3 -> BOOLEAN],
     shape \in 1 .. 4, moderator \in BOOLEAN :
    LET c(i, children) == [id |-> ids[i], displayed |-> displayed[i], children |-> children]
        tree == CASE shape = 1 -> <<c(1, <<>>), c(2, <<>>), c(3, <<>>)>>
                  [] shape = 2 -> <<c(1, <<c(2, <<>>)>>), c(3, <<>>)>>
                  [] shape = 3 -> <<c(1, <<c(2, <<c(3, <<>>)>>)>>)>>
                  [] OTHER -> <<c(1, <<c(2, <<>>), c(3, <<>>)>>)>>
    IN Call([fn |-> "handleReSort", tree |-> tree, moderator |-> moderator])

DocToolsNext == CallParameters \/ CallCurrentURL \/ CallHighlight \/ CallShow \/ CallReSort

(***************************************************************************)
(* Properties                                                              *)
(***************************************************************************)

(* Keys and values that were encoded into an address come back in order,   *)
(* the values of a key together, but a plus comes back as a space: the     *)
(* search for a word with a plus is not the one that was asked for.  The   *)
(* exception is a key that objects inherit, which makes the call throw.    *)
ParametersKept ==
  call.fn = "getQueryParameters" =>
    LET pair(i) == urlencode(call.keys[i]) \o <<"=">> \o urlencode(call.values[i])
        result == getQueryParameters(<<"/", "?">> \o pair(1) \o <<"&">> \o pair(2))
        spaced(x) == map(x, LAMBDA c : IF c = "+" THEN " " ELSE c)
        of(key) == map(SelectSeq(<<1, 2>>, LAMBDA i : spaced(call.keys[i]) = key), LAMBDA i : spaced(call.values[i]))
    IN IF \E i \in 1 .. 2 : call.keys[i] \in inherited THEN result = Undef
       ELSE /\ DOMAIN result = {spaced(call.keys[i]) : i \in 1 .. 2}
            /\ \A key \in DOMAIN result : result[key] = of(key)

(* The relative address is the last levels of the path, as many as the     *)
(* root is above the page and one more, without the last character.  Where *)
(* that leaves nothing, on the root page of a path that ends in a slash,   *)
(* substring swaps its positions and the address is that slash.            *)
CurrentURLBelowRoot ==
  call.fn = "getCurrentURL" =>
    LET slashes == {i \in DOMAIN call.path : call.path[i] = "/"}
        from == CHOOSE i \in slashes : Cardinality({j \in slashes : j > i}) = call.up
    IN getCurrentURL(call.path, call.up) =
         IF from = Len(call.path) THEN <<"/">> ELSE SubSeq(call.path, from + 1, Len(call.path) - 1)

(* Marking a word never changes the text of the page; every mark is the    *)
(* word; the first occurrence in each of the first children is marked, and *)
(* marking again only adds marks.                                          *)
HighlightKeepsText ==
  call.fn = "highlightText" =>
    LET children == map(call.texts, LAMBDA t : Text(t))
        once == highlightText(children, call.word)
        twice == highlightText(once, call.word)
        whole(cs) == FlattenSeq(map(cs, LAMBDA c : c.text))
        marks(cs) == Cardinality({i \in DOMAIN cs : cs[i].span})
    IN /\ whole(once) = whole(children) /\ whole(twice) = whole(children)
       /\ \A i \in DOMAIN twice : twice[i].span => twice[i].text = call.word
       /\ position(call.texts[1], call.word) <= Len(call.texts[1]) => marks(once) >= 1
       /\ marks(twice) >= marks(once)

(* Whatever was shown before, the rows of the type and no others are       *)
(* shown, their colours alternate from the first shown row on, and one tab *)
(* is active.                                                              *)
RowsAlternate ==
  call.fn = "show" =>
    LET rows == [k \in DOMAIN call.methods |-> [method |-> call.methods[k], display |-> TRUE, className |-> "altColor"]]
        now == show(show(rows, call.before), call.type)
        shown == SelectSeq(now, LAMBDA row : row.display)
    IN /\ \A k \in DOMAIN now : now[k].display <=> (call.methods[k] & call.type) # 0
       /\ \A k \in DOMAIN shown : shown[k].className = IF k % 2 = 1 THEN "altColor" ELSE "rowColor"
       /\ Cardinality({t \in {1, 2, 4, 8, 31} : updateTabs({1, 2, 4, 8, 31}, call.type)[t] = "activeTableTab"}) = 1

(* A re-sort keeps every comment that is displayed to the user, under its  *)
(* parent, with siblings in order; what waits for a moderator disappears   *)
(* with all replies to it, for everyone but a moderator.                   *)
ReSortKeepsComments ==
  call.fn = "handleReSort" =>
    LET loaded == appendComments(sortComments(call.tree), call.moderator)
        again == sortComments(getChildren(loaded))
        RECURSIVE places(_, _)
        places(cs, parent) ==
          UNION {{<<parent, i, cs[i].id>>} \cup places(cs[i].children, cs[i].id) : i \in DOMAIN cs}
        RECURSIVE visible(_)
        visible(cs) == map(SelectSeq(cs, LAMBDA c : c.displayed \/ call.moderator),
                           LAMBDA c : [c EXCEPT !.children = visible(@)])
    IN places(again, 0) = places(sortComments(visible(call.tree)), 0)

(* What the pages do to their own text and rows loses nothing: query       *)
(* parameters are read back, marking words keeps the text, the rows of a   *)
(* type alternate, and a re-sort of comments keeps those that may be seen. *)
PageToolsExact ==
  /\ ParametersKept
  /\ CurrentURLBelowRoot
  /\ HighlightKeepsText
  /\ RowsAlternate
  /\ ReSortKeepsComments
=============================================================================
