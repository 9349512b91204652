------------------------------ MODULE DataCache ------------------------------
(***************************************************************************)
(* jQuery.data: what jQuery keeps of the elements of the document.  An     *)
(* element carries a number under its property expando, and jQuery.cache   *)
(* has an entry under that number: the user's data in an object of their   *)
(* own, and beside it what jQuery keeps itself (events with handle,        *)
(* parsedAttrs).  Numbers of elements that were cleaned are used again.    *)
(* New ones are counted by jQuery.guid, as are those of handlers.          *)
(*                                                                         *)
(* A key has two names, a-b and its camel case aB, and both stand for the  *)
(* attribute data-a-b.                                                     *)
(***************************************************************************)
EXTENDS Integers, Sequences, FiniteSets, Functions

CONSTANTS
  Nodes,   \* the elements
  Values,     \* the values the user sets
  Texts,      \* the texts of the attribute data-a-b
  MaxGuid,    \* bound: up to where handlers take numbers
  Undefined   \* no value: of a key, or of the attribute

ASSUME DataAssumption == IsFiniteSet(Nodes)

VARIABLES
  store,      \* expando, cache, deletedIds and guid: a record
  attribute,  \* data-a-b of each element
  expected,   \* history: the value last set for the key of each element
  plain       \* history: the elements whose key was set under a-b as it is

dataVars == <<store, attribute, expected, plain>>

Names == {"a-b", "aB"}

camelCase(name) == "aB"

NoData == [n \in Names |-> Undefined]

NewEntry == [pvt |-> {}, hasData |-> FALSE, data |-> NoData]

DataInit ==
  /\ store = [expando |-> [e \in Nodes |-> 0], cache |-> <<>>, deletedIds |-> <<>>, guid |-> 1]
  /\ attribute = [e \in Nodes |-> Undefined]
  /\ expected = [e \in Nodes |-> Undefined]
  /\ plain = {}

HasEntry(s, e) == s.expando[e] \in DOMAIN s.cache

EntryOf(s, e) == s.cache[s.expando[e]]

(* deletedIds.pop(): what it returns, and what it leaves *)
Popped(ids) == ids[Len(ids)]

AfterPop(ids) == SubSeq(ids, 1, Len(ids) - 1)

(* internalData's first part: the number and the entry of an element. *)
withEntry(s, e) ==
  LET reuse == s.deletedIds # <<>>
      id == IF s.expando[e] # 0 THEN s.expando[e] ELSE IF reuse THEN Popped(s.deletedIds) ELSE s.guid
      numbered == IF s.expando[e] # 0 THEN s
                  ELSE [s EXCEPT !.expando[e] = id,
                                 !.deletedIds = IF reuse THEN AfterPop(@) ELSE @,
                                 !.guid = IF reuse THEN @ ELSE @ + 1]
  IN IF id \in DOMAIN s.cache THEN numbered
     ELSE [numbered EXCEPT !.cache = [i \in DOMAIN @ \cup {id} |-> IF i = id THEN NewEntry ELSE @[i]]]

SetEntry(s, e, entry) == [s EXCEPT !.cache[s.expando[e]] = entry]

(* An entry whose data has the value under the name *)
withValue(entry, name, value) ==
  [pvt |-> entry.pvt, hasData |-> TRUE, data |-> [entry.data EXCEPT ![name] = value]]

(* jQuery.data( elem, name, value ) *)
setData(s, e, name, value) ==
  LET with == withEntry(s, e) IN SetEntry(with, e, withValue(EntryOf(with, e), camelCase(name), value))

(* jQuery.data( elem, { name: value } ), a shallow copy *)
setObject(s, e, name, value) ==
  LET with == withEntry(s, e) IN SetEntry(with, e, withValue(EntryOf(with, e), name, value))

(* jQuery.data( elem, name ) *)
getData(s, e, name) ==
  IF ~HasEntry(s, e) THEN Undefined
  ELSE LET data == EntryOf(s, e).data IN IF data[name] # Undefined THEN data[name] ELSE data[camelCase(name)]

(* jQuery._data( elem, key, value ) *)
setPrivate(s, e, keys) ==
  LET with == withEntry(s, e) IN SetEntry(with, e, [EntryOf(with, e) EXCEPT !.pvt = @ \cup keys])

(* What dataAttr makes of the text of an attribute: true, false, null, and *)
(* a number that prints as the text, are converted, the rest (also what is *)
(* no JSON in braces) stays a string.                                      *)
fromText(text) ==
  CASE text = "true" -> <<"boolean", TRUE>>
    [] text = "null" -> <<"null">>
    [] text = "7" -> <<"number", 7>>
    [] text = "{}" -> <<"object">>
    [] OTHER -> <<"string", text>>

(* dataAttr, when the data of the name is Undefined *)
dataAttr(s, e, name) ==
  IF getData(s, e, name) = Undefined /\ attribute[e] # Undefined
  THEN setData(s, e, name, fromText(attribute[e]))
  ELSE s

isEmptyDataObject(entry) == entry.pvt = {} /\ entry.data = NoData

(* Variant: the element keeps its number. *)
cleanDataKeepsId(s, e) ==
  IF HasEntry(s, e)
  THEN [s EXCEPT !.cache = Restrict(@, DOMAIN @ \ {s.expando[e]}), !.deletedIds = Append(@, s.expando[e])]
  ELSE s

cleanData(s, e) ==
  IF HasEntry(s, e)
  THEN [s EXCEPT !.cache = Restrict(@, DOMAIN @ \ {s.expando[e]}), !.deletedIds = Append(@, s.expando[e]),
                 !.expando[e] = 0]
  ELSE s

(* The end of internalRemoveData for the user's data: they are removed,    *)
(* and the entry with them when there was nothing else in it.              *)
dropData(s, e) ==
  LET without == [pvt |-> EntryOf(s, e).pvt, hasData |-> FALSE, data |-> NoData]
      less == SetEntry(s, e, without)
  IN IF isEmptyDataObject(without) THEN cleanData(less, e) ELSE less

(* removeData: of a name that is there only that, of one that is not its   *)
(* camel case; of an array of names both.  Without a name, all.            *)
removeData(s, e, names) ==
  LET entry == EntryOf(s, e)
      left == [n \in Names |-> IF n \in names THEN Undefined ELSE entry.data[n]]
  IN IF ~HasEntry(s, e) THEN s
     ELSE IF entry.hasData /\ left # NoData THEN SetEntry(s, e, [entry EXCEPT !.data = left])
     ELSE dropData(s, e)

(* The names that removeData( name ) deletes *)
namesOf(s, e, name) ==
  IF HasEntry(s, e) /\ EntryOf(s, e).data[name] # Undefined THEN {name} ELSE {camelCase(name)}

(* jQuery._removeData( elem, "events" ), which destroys an empty entry *)
removePrivate(s, e, keys) ==
  LET without == [EntryOf(s, e) EXCEPT !.pvt = @ \ keys]
      less == SetEntry(s, e, without)
  IN IF ~HasEntry(s, e) THEN s ELSE IF isEmptyDataObject(without) THEN cleanData(less, e) ELSE less

(* jQuery.event.add gives a handler that has none a number. *)
handlerGuid(s, fresh) == IF fresh THEN [s EXCEPT !.guid = @ + 1] ELSE s

(***************************************************************************)
(* The calls                                                               *)
(***************************************************************************)

Becomes(s, e, value) ==
  /\ store' = s
  /\ expected' = [expected EXCEPT ![e] = value]

SetData(e) ==
  \E name \in Names, value \in Values :
    /\ Becomes(setData(store, e, name, value), e, value)
    /\ UNCHANGED <<attribute, plain>>

SetObject(e) ==
  \E name \in Names, value \in Values :
    /\ Becomes(setObject(store, e, name, value), e, value)
    /\ plain' = IF name = camelCase(name) THEN plain ELSE plain \cup {e}
    /\ UNCHANGED attribute

(* .data( name ) looks at the attribute when there is no data. *)
GetData(e) ==
  \E name \in Names :
    LET read == dataAttr(store, e, name)
    IN /\ Becomes(read, e, IF read = store THEN expected[e] ELSE getData(read, e, name))
       /\ UNCHANGED <<attribute, plain>>

(* .data() looks at the attributes once. *)
GetAll(e) ==
  LET with == withEntry(store, e)
      open == SetEntry(with, e, [EntryOf(with, e) EXCEPT !.hasData = TRUE])
      parsed == "parsedAttrs" \in EntryOf(open, e).pvt
      read == IF parsed THEN open ELSE setPrivate(dataAttr(open, e, "aB"), e, {"parsedAttrs"})
  IN /\ Becomes(read, e, IF getData(read, e, "aB") = getData(store, e, "aB") THEN expected[e] ELSE getData(read, e, "aB"))
     /\ UNCHANGED <<attribute, plain>>

SetAttribute(e) ==
  /\ attribute' \in {[attribute EXCEPT ![e] = text] : text \in Texts \cup {Undefined}}
  /\ UNCHANGED <<store, expected, plain>>

RemoveData(e) ==
  /\ \E name \in Names, array \in BOOLEAN :
       store' = removeData(store, e, IF array THEN {name, camelCase(name)} ELSE namesOf(store, e, name))
  /\ expected' = [expected EXCEPT ![e] = Undefined]
  /\ UNCHANGED <<attribute, plain>>

RemoveAllData(e) ==
  /\ Becomes(removeData(store, e, Names), e, Undefined)
  /\ plain' = plain \ {e}
  /\ UNCHANGED attribute

(* A handler is bound to an element, and the last one is removed. *)
BindEvents(e) ==
  /\ \E fresh \in BOOLEAN :
       /\ fresh => store.guid < MaxGuid
       /\ Becomes(setPrivate(handlerGuid(withEntry(store, e), fresh), e, {"events"}), e, expected[e])
  /\ UNCHANGED <<attribute, plain>>

UnbindEvents(e) ==
  /\ HasEntry(store, e) /\ "events" \in EntryOf(store, e).pvt
  /\ Becomes(removePrivate(store, e, {"events"}), e, expected[e])
  /\ UNCHANGED <<attribute, plain>>

(* .remove(), which cleans the element *)
RemoveNode(e) ==
  /\ Becomes(cleanData(store, e), e, Undefined)
  /\ plain' = plain \ {e}
  /\ UNCHANGED attribute

DataNext ==
  \E e \in Nodes :
    \/ SetData(e) \/ SetObject(e) \/ GetData(e) \/ GetAll(e) \/ SetAttribute(e) \/ RemoveData(e)
    \/ RemoveAllData(e) \/ BindEvents(e) \/ UnbindEvents(e) \/ RemoveNode(e)

DataSpec == DataInit /\ [][DataNext]_dataVars

(***************************************************************************)
(* Properties                                                              *)
(***************************************************************************)

(* Every entry of the cache belongs to one element, and a number that is   *)
(* kept to be used again to none: an element never gets to see what        *)
(* another one left.                                                       *)
OwnEntry ==
  /\ \A e, f \in Nodes : store.expando[e] # 0 /\ store.expando[e] = store.expando[f] => e = f
  /\ DOMAIN store.cache \subseteq Range(store.expando)
  /\ IsInjective(store.deletedIds) /\ Range(store.deletedIds) \cap Range(store.expando) = {}

(* Numbers are used again, so elements take no more than there are         *)
(* elements, however many numbers handlers take between them.              *)
IdsBounded ==
  Cardinality((Range(store.expando) \ {0}) \cup Range(store.deletedIds)) <= Cardinality(Nodes)

(* What was set last is read, under both names, and after it was removed   *)
(* nothing is: unless an object brought the name with the dash, which      *)
(* shadows the camel case.                                                 *)
ReadsLastWrite == \A e \in Nodes \ plain, name \in Names : getData(store, e, name) = expected[e]

(* The user's calls on their data leave jQuery's own beside them alone:    *)
(* the events of an element go when its last handler or itself is removed. *)
EventsKept ==
  [][\A e \in Nodes :
       HasEntry(store, e) /\ "events" \in EntryOf(store, e).pvt
         => (HasEntry(store', e) /\ "events" \in EntryOf(store', e).pvt) \/ UnbindEvents(e) \/ RemoveNode(e)]_dataVars

(* An element reads the data that was written for it last, and its own     *)
(* only, although numbers are used again; its events stay beside the data. *)
DataOfOwner ==
  /\ [](OwnEntry /\ IdsBounded /\ ReadsLastWrite)
  /\ EventsKept
=============================================================================
