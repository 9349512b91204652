------------------------------ MODULE AjaxData ------------------------------
(***************************************************************************)
(* jquery.js: the functions of jQuery.ajax that choose: the prefilters and *)
(* the transport of a request, the type of its response and the chain of   *)
(* conversions to the type that was asked for.  Then the class names of an *)
(* element.                                                                *)
(*                                                                         *)
(* A prefilter is what it returns, a response is the type it really has: a *)
(* converter that is given another type makes Garbage of it.               *)
(***************************************************************************)
EXTENDS FunctionCalls, Integers, Sequences, SequencesExt

Absent == "undefined"
Auto == "*"

(***************************************************************************)
(* Prefilters and transports                                               *)
(***************************************************************************)

(* One registration: behind the others of the type, or before them where   *)
(* the type is given with a +.                                             *)
addToPrefiltersOrTransports(structure, r) ==
  [structure EXCEPT ![r.dataType] = IF r.plus THEN <<r.func>> \o @ ELSE Append(@, r.func)]

RECURSIVE inspect(_, _, _, _), eachFactory(_, _, _, _)

eachFactory(structure, seekingTransport, list, st) ==
  IF list = <<>> THEN st
  ELSE LET returned == Head(list) IN
       IF ~seekingTransport /\ returned \in DOMAIN structure \ st.inspected
       THEN inspect(structure, FALSE, returned, [st EXCEPT !.dataTypes = <<returned>> \o @])
       ELSE IF seekingTransport /\ returned # Absent THEN [st EXCEPT !.selected = returned]
       ELSE eachFactory(structure, seekingTransport, Tail(list), st)

inspect(structure, seekingTransport, dataType, st) ==
  eachFactory(structure, seekingTransport, structure[dataType],
              [st EXCEPT !.inspected = @ \cup {dataType}, !.order = Append(@, dataType)])

NotInspected(dataTypes) == [inspected |-> {}, order |-> <<>>, dataTypes |-> dataTypes, selected |-> Absent]

inspectPrefiltersOrTransports(structure, seekingTransport, dataTypes) ==
  LET st == inspect(structure, seekingTransport, dataTypes[1], NotInspected(dataTypes))
  IN IF st.selected # Absent \/ Auto \in st.inspected THEN st ELSE inspect(structure, seekingTransport, Auto, st)

(***************************************************************************)
(* Responses                                                               *)
(***************************************************************************)

Garbage == "garbage"

(* converters[ from + " " + to ]: TRUE for an equivalence, a function, or  *)
(* nothing.                                                                *)
converter(convs, from, to) == IF <<from, to>> \in DOMAIN convs THEN convs[<<from, to>>] ELSE Absent

(* The types a response passes for: those its type is declared equivalent  *)
(* to.                                                                     *)
RECURSIVE passes(_, _)
passes(convs, types) ==
  LET more == types \cup {c[2] : c \in {c \in DOMAIN convs : convs[c] = "true" /\ c[1] \in types \cup {Auto}}}
  IN IF more = types THEN types ELSE passes(convs, more)

(* What a converter makes of a response. *)
converted(convs, response, from, to) == IF from \in passes(convs, {response}) \cup {Auto} THEN to ELSE Garbage

ajaxHandleResponses(convs, dataTypes, ct, responses) ==
  LET auto == dataTypes[1] = Auto
      named == SelectInSeq(dataTypes, LAMBDA t : t # Auto)
      stripped == IF auto THEN IF named = 0 THEN <<>> ELSE SubSeq(dataTypes, named, Len(dataTypes)) ELSE dataTypes
      expected == IF auto /\ ct # Absent THEN <<ct>> \o stripped ELSE stripped
      wanted == IF expected = <<>> THEN Absent ELSE expected[1]
      usable == {i \in DOMAIN responses : wanted = Absent \/ converter(convs, responses[i], wanted) # Absent}
      finalDataType == CASE wanted \in ToSet(responses) -> wanted
                         [] wanted \notin ToSet(responses) /\ usable # {} -> responses[Min(usable)]
                         [] OTHER -> responses[1]
  IN [response |-> finalDataType, dataTypes |-> IF finalDataType = wanted THEN expected ELSE <<finalDataType>> \o expected]

(* The converter from prev to current: direct, or the first of a pair with *)
(* the type between; the pair is one step where one of the two is an       *)
(* equivalence.                                                            *)
seekConverter(convs, order, prev, current) ==
  LET Input(to) == IF converter(convs, prev, to) # Absent THEN prev ELSE Auto
      Has(to) == converter(convs, Input(to), to) # Absent
      pairs == {i \in DOMAIN order : order[i] \in DOMAIN convs /\ order[i][2] = current /\ Has(order[i][1])}
      mid == order[Min(pairs)][1]
  IN CASE Has(current) -> [how |-> convs[<<Input(current), current>>], from |-> Input(current), to |-> current, via |-> Absent]
       [] ~Has(current) /\ pairs = {} -> [how |-> Absent, from |-> prev, to |-> current, via |-> Absent]
       [] OTHER -> LET one == convs[<<Input(mid), mid>>]
                       two == convs[<<mid, current>>]
                   IN CASE one = "true" -> [how |-> two, from |-> mid, to |-> current, via |-> Absent]
                        [] one # "true" /\ two = "true" -> [how |-> one, from |-> Input(mid), to |-> mid, via |-> Absent]
                        [] OTHER -> [how |-> one, from |-> Input(mid), to |-> mid, via |-> mid]

(* Variant: the rest of a pair is forgotten. *)
restForgotten(conv, current, rest) == [current |-> IF conv.via = Absent THEN current ELSE conv.via, rest |-> rest]

(* What is converted to next, and what remains: the second half of a pair. *)
restOf(conv, current, rest) ==
  IF conv.via = Absent THEN [current |-> current, rest |-> rest]
  ELSE [current |-> conv.via, rest |-> <<current>> \o rest]

RECURSIVE convertFrom(_, _, _, _, _)
convertFrom(convs, order, prev, dataTypes, response) ==
  IF dataTypes = <<>> THEN [state |-> "success", data |-> response]
  ELSE LET current == dataTypes[1]
           conv == seekConverter(convs, order, prev, current)
           next == restOf(conv, current, Tail(dataTypes))
           nothingToDo == current = Auto \/ prev \in {Auto, current}
       IN CASE nothingToDo -> convertFrom(convs, order, IF current = Auto THEN prev ELSE current, Tail(dataTypes), response)
            [] ~nothingToDo /\ conv.how = Absent -> [state |-> "parsererror", data |-> response]
            [] OTHER -> convertFrom(convs, order, next.current, next.rest,
                                    IF conv.how = "true" THEN response ELSE converted(convs, response, conv.from, conv.to))

ajaxConvert(convs, order, dataTypes, response) == convertFrom(convs, order, dataTypes[1], Tail(dataTypes), response)

(***************************************************************************)
(* Class names                                                             *)
(***************************************************************************)

hasClass(className, c) == c \in ToSet(className)

addClass(className, classes) ==
  FoldLeft(LAMBDA cur, c : IF hasClass(cur, c) THEN cur ELSE Append(cur, c), className, classes)

removeClass(className, classes) == SelectSeq(className, LAMBDA c : c \notin ToSet(classes))

toggleClass(className, classes) ==
  FoldLeft(LAMBDA cur, c : IF hasClass(cur, c) THEN removeClass(cur, <<c>>) ELSE addClass(cur, <<c>>), className, classes)

(* toggleClass of the whole class name, which _data remembers. *)
toggleWhole(elem, value) ==
  LET saved == IF elem.className # <<>> THEN elem.className ELSE elem.saved
  IN [className |-> IF elem.className # <<>> \/ value = "false" THEN <<>> ELSE saved, saved |-> saved]

(***************************************************************************)
(* The calls                                                               *)
(***************************************************************************)

DataTypes == {Auto, "json", "script"}
Registrations == SeqOf([dataType : DataTypes, plus : BOOLEAN, func : {Absent, Auto, "json"}], 3)
Structure(registrations) == FoldLeft(addToPrefiltersOrTransports, [t \in DataTypes |-> <<>>], registrations)

(* The converters of ajaxSettings and of a page, in the order of the loop. *)
converterOrder ==
  <<<<Auto, "text">>, <<"text", "html">>, <<"text", "json">>, <<"json", "data">>, <<"html", "data">>, <<"xml", "text">>>>
Converters ==
  UNION {[S -> {"true", "fn"}] : S \in {S \in SUBSET ToSet(converterOrder) : <<"text", "html">> \in S}}

AjaxDataCalls ==
  /\ call = Idle
  /\ \/ \E registrations \in Registrations, dataType \in DataTypes, seekingTransport \in BOOLEAN :
          Call([fn |-> "inspect", registrations |-> registrations, dataType |-> dataType, seekingTransport |-> seekingTransport])
     \/ \E convs \in Converters, ct \in {Absent, "html", "json", "xml"}, responses \in {<<"text">>, <<"text", "xml">>, <<"xml">>},
            dataTypes \in SeqOf({Auto, "text", "json", "data"}, 2) \ {<<>>} :
          Call([fn |-> "respond", convs |-> convs, ct |-> ct, responses |-> responses, dataTypes |-> dataTypes])
     \/ \E className \in SeqOf({"a", "b"}, 3), classes \in SeqOf({"a", "b", "c"}, 2), saved \in SeqOf({"a"}, 1) :
          Call([fn |-> "classes", className |-> className, classes |-> classes, saved |-> saved])

(***************************************************************************)
(* Properties                                                              *)
(***************************************************************************)

(* However the prefilters send a request from one data type to another,    *)
(* the prefilters of a type run once at most, and those for all types run; *)
(* the transport is sought for the type of the request and then for all    *)
(* types, and found where one was registered.                              *)
PrefiltersOnce ==
  call.fn = "inspect" =>
    LET structure == Structure(call.registrations)
        st == inspectPrefiltersOrTransports(structure, call.seekingTransport, <<call.dataType>>)
        offered == {t \in {call.dataType, Auto} : ToSet(structure[t]) # {} /\ ToSet(structure[t]) # {Absent}}
    IN /\ IsInjective(st.order) /\ ToSet(st.order) = st.inspected
       /\ IF call.seekingTransport THEN (st.selected # Absent) = (offered # {}) /\ st.dataTypes = <<call.dataType>>
          ELSE Auto \in st.inspected /\ st.dataTypes[Len(st.dataTypes)] = call.dataType

(* A request that succeeds hands on data of the type that was asked for    *)
(* last, or of a type declared equivalent to it: no converter of the chain *)
(* is given a type it was not made for, also where two are chained.        *)
ResponseTyped ==
  call.fn = "respond" =>
    LET handled == ajaxHandleResponses(call.convs, call.dataTypes, call.ct, call.responses)
        result == ajaxConvert(call.convs, converterOrder, handled.dataTypes, handled.response)
        asked == SelectSeq(handled.dataTypes, LAMBDA t : t # Auto)
    IN result.state = "success" => Last(asked) \in passes(call.convs, {result.data})

(* The class names of an element as a set: add, remove and toggle do to    *)
(* each name what they say, a name given twice is toggled twice, and the   *)
(* names that stay keep their order.  The whole class name toggled off     *)
(* comes back.                                                             *)
ClassesAsSets ==
  call.fn = "classes" =>
    LET names == ToSet(call.className)
        given == ToSet(call.classes)
        Times(c) == Len(SelectSeq(call.classes, LAMBDA k : k = c))
        off == toggleWhole([className |-> call.className, saved |-> call.saved], Absent)
    IN /\ ToSet(addClass(call.className, call.classes)) = names \cup given
       /\ IsPrefix(call.className, addClass(call.className, call.classes))
       /\ ToSet(removeClass(call.className, call.classes)) = names \ given
       /\ ToSet(toggleClass(call.className, call.classes)) =
            {c \in names \cup given : (c \in names) = (Times(c) % 2 = 0)}
       /\ call.className # <<>> => off.className = <<>> /\ toggleWhole(off, Absent).className = call.className

(* Prefilters run once for a type, a response is converted to the type     *)
(* asked for through converters that fit, and class names are kept as a    *)
(* set.                                                                    *)
AjaxDataExact ==
  /\ PrefiltersOnce
  /\ ResponseTyped
  /\ ClassesAsSets
=============================================================================
