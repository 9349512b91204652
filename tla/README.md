# Verification of the restaurant server and its documentation pages

TLA+ models of the program in this repository, the TLC runs that check them on
small instances, and TLAPS proofs of the main safety properties for every
instance.

## The system and its parts

The repository holds two programs.

**The server** (`src/src/main/java/com/server/springboot`, Spring Boot).  A
process has one `SessionUtil` bean with one field `cluster`, and one `Singleton`
with the Cassandra address, port and login.  All request threads share both
without locks.  Nearly every handler calls `setupPooling`, which builds a driver
`Cluster` from the configuration and overwrites the field, and then
`cluster.connect`, which reads the field again.  At startup, and in every
`testarguments` request, the server creates the keyspace `accounts` and then
creates and drops a scratch table `test`.  The product API is separate: JPA over
an in-memory H2 table with an optimistic lock (`@Version`).  The Diffie-Hellman
exchange uses two more unsynchronised fields of the controller.

**The documentation pages** (`src/apache-cassandra-3.11.1/doc/html/_static`, with
`javadoc/script.js`).  They run in a browser, one piece of code at a time, but
almost all of it is called back: by events, timers, answers of the server and
animations, and by other code that is in the middle of something.  `jquery.js`
and `underscore.js` are the libraries, `searchtools.js` searches, `doctools.js`
and `theme.js` work on the page, `websupport.js` shows and takes comments.

| Part | Source | Modules |
|---|---|---|
| Restaurant handlers, Cassandra access, configuration, startup | `controller/RestaurantController.java`, `cassandra/SessionUtil.java`, `controller/Singleton.java`, `SpringBootWebApplication.java` | `RestaurantServer` |
| Cassandra node, DataStax driver | external | `Cassandra`; `Connect`, `Execute` of `RestaurantServer` |
| Product API | `controller/ProductController.java`, `services/`, `domain/Product.java`, `jpabootstrap/` | `ProductStore`, abstract: `ProductTable` |
| Diffie-Hellman exchange | `encryption/DHKeyAgreement2.java`, `encryption/ClientMainApp.java`, three handlers | `KeyExchange` |
| Hex conversions | `encryption/DHKeyAgreement2.java`, `encryption/HMAC.java` | `HexEncoding` |
| Callback lists, deferreds | `jquery.js` | `CallbackLists`, `Callbacks`, `Deferred`, abstract: `Promise` |
| `when` and `then` | `jquery.js` | `WhenThen` |
| `ready` and `holdReady` | `jquery.js` | `Ready` |
| Ajax requests, JSONP, prefilters and converters, class names | `jquery.js` | `Ajax`, `Jsonp`, `AjaxData` |
| Data cache, animation queue | `jquery.js` | `DataCache`, `FxQueue` |
| Events | `jquery.js` | `Events` |
| Selectors and traversal | `jquery.js` | `Selectors` |
| Collections, `isEqual`, ... | `underscore.js` | `Underscore` |
| Search: what it computes, and the page | `searchtools.js` | `SearchIndex`, `SearchPage` |
| Page tools | `doctools.js`, `theme.js`, `script.js`, `websupport.js` | `DocTools`, `DocPage` |
| Comments | `websupport.js` | `CommentList`, `CommentWidgets` |

`PROJECT.json` maps every definition to the lines it stands for.  The modules
that begin with `MC` set up the instances for TLC; those that end in `Proofs`
hold the theorems.  `FunctionCalls` is the frame in which functions without
state are checked: one call with one choice of arguments.

## How the modules correspond to the code

`Cassandra` is a passive model of a node: `Accepts` says whether it executes a
statement, `After` what it then holds.

`RestaurantServer` gives each request thread a program counter `pc[t]`.  A
handler is a sequence of steps, one for every read or write of shared state and
every call of the driver.  One operator stands for each method and names the
labels it goes through (`CreateSchema`, `SetRestaurants`, ...), built from
`ReadIp`, `SetupPooling`, `Connect` and `Execute`; the label `reply` is the end
of the handler.  The parameters `ok` and `fail` of these are where the code goes
on after success and after an exception, so each `catch` of the source is
visible as a label.  The variables `made` and `seen` are history: the node whose
keyspace a request created, and the nodes configured while it ran.

`ProductStore` has one step for the read and one for the write of `update` and
`delete`.  `KeyExchange` models the runs of the client with the handlers they
call; a key is a symbolic record, and a shared secret the set of the two keys it
was computed from.

In the modules for the pages a step is what runs without being interrupted: from
one point where the code is called, or calls back, to the next.  A callback is
not modelled as code; at the point where it runs, any of the operations open to
it may happen (`Callbacks`, `Deferred`, `Ajax`, `Events`), and it returns or
throws.  The loops that are under way are a stack in the state (`frames`,
`stack`).  Answers may come late, in any order or not at all (`Jsonp`,
`CommentList`, `CommentWidgets`, `SearchPage`).

Functions that keep no state are operators, each checked against a reference
definition of what it should return: `Underscore`, `SearchIndex`, `DocTools`,
`Selectors`, `AjaxData`, `HexEncoding`.

Operators whose comment starts with "Variant" are deliberately wrong versions of
the definition that follows them; they are not part of the specification and
serve to show that a property can fail.

### Abstractions

* `connect` reads the field and acts on the `Cluster` in one step.  Login and
  password are one value, so the two writes of `setupLogin` are one step, and
  the two reads of the response's address and port are one step.
* `setupPooling` is two steps: reading the login for the builder, and assigning
  the field.
* A properties file is absent, complete, or lacks a property; one with an empty
  value behaves like an absent one.  The outcome of the argument parsing is the
  constant `Args`.
* Requests with a null address or login, and products with a negative version,
  are not among the inputs.
* Keys posted to `postBobPublicKey` are made with parameters from elsewhere, or
  are not keys, or are null.  A POST that cannot be parsed changes nothing and
  is left out.
* A Cassandra node is one copy of its data: replication between nodes of one
  Cassandra cluster is not modelled, and two `Hosts` are two separate databases.
* In the browser: contexts (`this`) and the text of templates are left out,
  white space is of one kind, a document is its tree.  A key of `DataCache` has
  two names (with a dash and in camel case), an event one type, an animation no
  values.  The browser, the page's own code and the user are external.

## Runs

| Run | Instance | Distinct states | Result |
|---|---|---|---|
| `Setup` | 1 server, 2 threads, 1 node, 2 faults, liveness | 62,321 | holds |
| `ReplicasAndComments` | 2 servers, 1 thread each, 1 node, 1 fault; the comment popup, and one comment | 1,311,950 | holds |
| `Sequential` | 1 server, 1 thread, 2 nodes, all handlers, 1 fault | 112,096 | holds |
| `Services` | products: 2 threads, ids 1..3, versions 0..2; keys: 3 exchanges, 1 poster, 1 crash, liveness | 506,828 | holds |
| `Algorithms` | all small inputs of the functions without state | 515,967 | holds |
| `JQuery` | callbacks, deferreds, when/then, JSONP, data, events | 756,436 | holds |
| `Pages` | search page, doc page, ready, ajax, queue, liveness | 131,301 | holds |
| `WrongNode` | 2 threads, 2 nodes | | `ConfiguredNodeUsed` violated |
| `LostRestaurant` | 1 thread | | `AddedIsStored` violated |
| `TwoClients` | 2 clients at once | | `SameSecret` violated |
| `SortCookie` | one comment, another cookie of the site | | `PreferenceUsed` violated |
| `SearchPages` | 2 pages, 2 words | | `RequirementsMatched` violated |

In `ReplicasAndComments`, `Services`, `JQuery` and `Pages` a behaviour is one of
the part that `Init` chooses; the parts do not share state.

What they show of the server:

* **The keyspace is a gate** (`KeyspaceGate`, `ScratchTableExclusive`,
  `ScratchTableDropped`).  `CREATE KEYSPACE` has no `IF NOT EXISTS`, so it
  succeeds once per node; only the request for which it did goes on to the
  scratch table.  This keeps threads, replicas and restarts from tripping over
  each other's `test` table.  Where every login is accepted only a fault leaves
  the table behind; a refused login, posted in between, closes the shared
  `Cluster` and leaves it too.
* **No data is destroyed** (`DataKept`), and no null cluster is used
  (`ClusterBeforeConnect`), even after a constructor that failed.
* **Requests one at a time work on the configured node** (`ConfiguredNodeUsed`,
  `ListIsTable`).  With two threads the first is false (`WrongNode`): a request
  that was slow in `setupPooling` overwrites the field with a `Cluster` for an
  address that is no longer configured, and another request uses it.  The
  configured port is never passed to the builder: 9042 is used.
* **`addRestaurant` answers `200/OK` for what was not stored**
  (`LostRestaurant`): it ignores the result of `setRestaurants`.
* **Setup converges and requests return** (`SetupConverges`, `RequestsReturn`):
  `createRestaurantTable` logs its exceptions and `createTablesTable` throws
  them; that order is what makes a half-done setup repeatable.
* **Products**: the optimistic lock prevents lost updates and resurrected rows
  (`NoLostUpdate`), because a version identifies a row's contents
  (`VersionIdentifiesRow`) and between two starts of the server no id is given
  to two products (`IdsFresh`, over the history `births`), whatever ids are
  posted.  A restart empties the table and counts from 1.  The two-step
  handlers implement an atomic table (`ImplementsTable`), whose rows are those
  of the store without the version column.
* **Key exchange**: with clients racing, a client may end with the two zero bytes
  that stand for a failed computation (`TwoClients`), but never with a plausible
  secret that differs from its handler's (`AgreementOrDummy`).  That depends on
  every client generating its own parameters.  The property is about what the
  client ends with; it does not say that the two fields always hold a pair made
  by one POST, which racing POSTs can tear.  Clients that come one at a time
  agree (`AloneAgrees`), and every run ends (`ExchangeEnds`).
* **Hexadecimal text** (`HexExact`): `toHexString` can be read back and agrees
  with `toHex` and HMAC's formatter, signs and leading zeros included; only for
  the empty array is `toHex` different ("0").

What they show of the pages.  Several properties except the cases in which the
code does not keep what they say; these are named here.

* **Callback lists** (`CallbacksKept`): a round calls each callback once,
  however they add and remove one another.  Not after `empty()` in a callback:
  `firingIndex` stays, and later callbacks are passed over.  A callback that
  throws leaves the list firing forever.
* **Deferreds** (`IsPromise`, `ToldInOrder`): a deferred implements `Promise`,
  in which it is settled once and its callbacks are called once and in order;
  whoever waits is told; notifications come in order and before the outcome.
* **when and then** (`OutcomesFollow`): the results follow from the arguments in
  whatever order these are settled.  What a fail handler returns stays a
  rejection, unless it is a promise; a promise returned by a progress handler is
  linked to the result.
* **JSONP** (`AnswersApart`): waiting requests share no made-up name and get
  their own data.  Excepted: a script of an aborted request that runs late finds
  its name used again, and requests with the same given name that overlap.
* **Data** (`DataOfOwner`): an element reads its own data, although numbers are
  used again, and elements take no more numbers than there are elements,
  although handlers take theirs from the same `jQuery.guid`.  An object that
  brings a key with a dash shadows the camel case.
* **Events** (`HandledOnce`): a handler is called once for an event, from the
  target upwards until it is stopped.  A handler bound by `one` runs again if an
  event is triggered between its queueing and its call, and an event triggered
  in a default action resets `jQuery.event.triggered`, so that the outer one is
  handled twice.
* **Ready** (`ReadyInTime`, `EventuallyReady`): the functions wait for the
  document and the holds, and run.  `holdReady(false)` without a hold runs them
  early.
* **Ajax** (`RequestsCounted`, `TimeoutSettles`): `jQuery.active` counts the
  requests under way and `done` runs once.  A callback that throws leaves the
  counter too high; an abort in a handler of `ajaxSend` is not noticed, and
  `done` runs twice.
* **Animation queue** (`QueueMoves`, `PromiseKept`): one item at a time, and
  what waits has something to wait for.  `animate({})` is not queued but
  dequeues, and `stop(true)` during a delay dequeues, too: both let the queue
  run over the item that runs; `stop(false, true)` or `finish()` during a delay can leave
  the queue to no one.
* **Search page** (`ResultsInOrder`, `SearchFinishes`): a query runs once,
  whenever the index comes, and shows its results best first.  Excepted is a
  query that throws.  The timer of the dots is never stopped.
* **Doc pages** (`PageConsistent`): images match the rows of the index,
  navigation and versions shift together (except that a click on a link while
  the navigation is not shifted toggles only the versions).
* **Comments** (`ThreadConsistent`, `CommentConsistent`): form, link and popup
  fit one another in every order of answers, and the list is the server's while
  nothing disturbs it; races duplicate comments, overwrite them with "No
  comments yet." or bring deleted ones back.  A failed vote is not taken back on
  the page.  A click on the sort option that is in use sets the option "l",
  which leaves every list in its order.  The order a user chose is forgotten
  when the page is loaded with another cookie behind `sortBy` (`SortCookie`):
  `initComparator` assigns `by` only when it is the last.
* **Algorithms**: each function equals its reference (`UnderscoreExact`,
  `SearchExact`, `PageToolsExact`, `SelectionExact`, `AjaxDataExact`).  Found on
  the way: a page with a required word in both text and title counts it twice,
  so that it is not found for this word, or found for two words although it has
  one (`SearchPages`; `SearchExact` excepts such pages).  A word with a leading
  hyphen is required, since `splitQuery` cuts the hyphen off before `query` looks
  for it; a word that is excluded by a caller is looked for with a text among
  numbers, so that it is not seen when it is in several pages.  Objects are
  listed once per word; `urldecode` turns `%2B` into a space; a parameter named
  like an inherited key makes `getQueryParameters` throw; `getCurrentURL` is "/"
  on a root page whose path ends in a slash, as `substring` swaps its positions;
  `invert` returns texts; `isEqual` is not symmetric on cycles; the results of
  `children`, `next` and `prev` are unique but not in document order.

### Bounds

`MaxFaults` bounds crashes, outages and lost answers together; one fault can
fall between any two steps, and two (in `Setup`) also hit the recovery from the
first.  `MaxCrashes` is the same for the key exchange: one crash between any two
steps of three runs.  Two threads suffice for the races, which are all between a
writer and a reader of one field.  Three ids are the two of the bootstrap and one that is
added; three versions allow two updates of one row, so that a loaded version can
be overtaken.  In `JQuery` two callbacks, three additions and three calls of
`resolve`, `reject` or `notify` are enough for a callback to be added, and the
deferred to be settled, while another is called; three JSONP requests for a name
to be used again while another waits; two elements for a number to be used
again, with handlers numbered up to `MaxGuid`; two events for one inside the other.  In `Pages` two requests overlap,
and three results, clicks and items make a first, a middle and a last.  Two
comments, two openings of the popup and two messages let each answer to it come
late.  `Algorithms` takes arrays of up to 4 of 3 values, words of up
to 5 of 5 letters, documents of 4 nodes and arrays of up to 3 of the bytes where
the sign, a leading zero or the number of digits changes.  What is proved holds
without these bounds.

Deadlock is checked where the system may not stop: the restaurant server and the
product store.  Exchanges, calls, pages and comments may end; in
`ReplicasAndComments` and `Services` these parts have a step that changes nothing,
so that the deadlocks of the servers are still found.

### Fairness

Server (`Fairness`): a running handler takes its next step (the JVM schedules
its threads and each driver call ends by a timeout at the latest), a stopped
server is started again (a restart policy) and an outage ends.  Clients are not
obliged to do anything, except in `Setup`, where `Operator` assumes someone who
keeps posting `testarguments` and `setupRestaurantDatabaseTables`, as
`testDockerApplication` does when it is run again; this is strong fairness
because an idle thread may be taken by another request.  `Fairness` of
`KeyExchange`: a run that has begun goes on.

Browser: it delivers the events, timers, answers (or errors) and ends of
animations it owes, and code that runs goes on; each has weak fairness on its
action.  Users and the page's own code are not obliged to do anything, but for
`EventuallyReady`, where who holds the page back releases it in the end.

## Proofs

The theorems hold for every value of the constants: any numbers of servers,
threads, nodes, requests, elements and faults.  Each proof has an inductive
invariant, one lemma for each action (or each shared step of the actions), and a
last step that combines them.  Where a module begins with `USE Zenon`, Zenon is
the prover of every leaf that names none.

| Module | Theorem | Property |
|---|---|---|
| `RestaurantServerProofs` | `TypeCorrect`, `GateHolds`, `NoNullCluster` | `TypeOK`, `KeyspaceGate`, `ClusterBeforeConnect` |
| | `DataIsKept`, `ScratchExclusive`, `ScratchDropped` | `DataKept`, `ScratchTableExclusive`, `ScratchTableDropped` |
| | `NodeUsedIsConfigured`, `ListIsOfTable` | `ConfiguredNodeUsed`, `ListIsTable` |
| `ProductStoreProofs` | `StoreTypes`, `FreshIds`, `VersionsIdentify`, `NoUpdateLost` | `StoreTypeOK`, `IdsFresh`, `VersionIdentifiesRow`, `NoLostUpdate` |
| | `StoreImplementsTable` | `ImplementsTable` (refinement) |
| `KeyExchangeProofs` | `ExchangeTypes`, `AgreementHolds`, `AloneAgreement` | `TypeOK`, `AgreementOrDummy`, `AloneAgrees` |
| `JQueryProofs` | `RunsInTime`, `DataIsOwners` | `ReadyInTime`, `DataOfOwner` |
| `DeferredProofs` | `DeferredTells` | `ToldInOrder` |
| | `DeferredIsPromise` | `IsPromise` (refinement) |
| `AjaxProofs` | `CountedRight` | `RequestsCounted` |
| `JsonpProofs` | `JsonpApart` | `AnswersApart` |
| `CommentProofs` | `CommentFits` | `CommentConsistent` |

The assumptions are those of the modules (`ServerAssumption`, `NoneAssumption`,
...): the constants have their types, sets that are counted are finite, and a
value that stands for "none" is none of the values it is compared with.  Two
theorems assume more: `NodeUsedIsConfigured` that each server has one thread, and
`ListIsOfTable` that there is one thread in all; without it the properties are
false (`WrongNode`).

**Restaurant server.**  `IInv` is `TypeOK`, `LabelOK(t)` for each thread and
`KeyspaceStays`.  `KeyspaceGate` is not inductive: that two requests have not
created the same keyspace follows only from the second finding it there, hence
`KeyspaceStays`, which says that the keyspace of `made[t]` exists (and that no
two threads made the same).  `LabelOK` says what holds at each label: at a build
label the address resolves, at a connect label the cluster is not null, at an
execute label there is a session, and in the scratch-table section a keyspace
was made.

**Its data.**  `StepForms` says what a step of a handler can be: reading the
address, pooling, connecting, executing a statement, configuring, listing or
returning.  `DataKept` only has to look at the statements.
`ScratchTableExclusive` needs `ScratchOf`: there is no table without the keyspace,
none while a request is about to create it, and one while a request is about to
drop it; it is inductive because at most one request is past the gate.
`ScratchTableDropped` needs `Unharmed` on top: while nothing has failed, the node
is up, every login on its way to a `Cluster` is let in, no `Cluster` is closed,
and the table is there only while a request is about to drop it.
`ConfiguredNodeUsed` needs `NodeSeen`, that the address read, the cluster and the
session are of nodes in `seen`; `ListIsTable` needs `Listed`, that while the list
is fetched these are of the configured node, and that afterwards the results are
its table.

**Products.**  `IInv` is `StoreTypeOK`, `Numbered` and, for each thread, `KeptOf`.
`IdsFresh` is not inductive: it needs `Numbered`, that the ids below `nextId` were
each given out once and the others never, and that these have no row.  `KeptOf`
is about a loaded row: while the row is there its version is at least the loaded
one, and if equal the row is the one loaded.  A deleted row does not come back,
since its id was given out and is not given out again.  The refinement maps the
rows to `ProductTable` without their version; a read is a stuttering step, a write that the version check lets through is the
atomic operation, because of `KeptOf`.

**Key exchange.**  The argument is the lemma `AliceAgrees`: of all keys the field
can hold, only the one generated for her own POST has Alice's parameters.
`AloneInv` says who may be at work while clients come one at a time, and that
the two fields are then of one POST or of none.

**Ready.**  `WaitCounts` is inductive with the types.  For `NotBeforeParsed` all
that can call `jQuery.ready` has to be tied to the document (`SignsOfParsed`): no
event comes and no timer is set before it is parsed, and `holdReady(false)` gets
past the counter only when the page was ready.

**Data.**  `DataInv` says of the store that an element has a number exactly when
it has an entry, that no two have the same, and that the numbers elements have or
had are all below `jQuery.guid`, and each in use or to be used again.  So a
number that is used again is nobody's, one that is new (for an element or a
handler) was nobody's, and an element gets a new one only when all of them are in
use by other elements, which bounds them.  `KeyOK` ties what an entry holds to what was last set.

**Deferreds.**  `DInv` speaks of one list at a time, so that what `add`, `fireWith`
or a step of the loop does to it is a lemma about one record.  `OnceOK`, of the
lists for done and fail: the callbacks that wait are those behind `firingIndex`,
in the order of adding, and a list that fired and rests is empty.  `NoteOK`, of
the list for progress: who is behind `firingIndex` has not been told the current
notification, and the stack holds later ones in order.  `FramesFit`: a list fires
in one loop, for the value it remembers, or its loop was left by an exception.
`SettledFit` is why only the first `resolve` or `reject` counts: until the state
is set, the other list is disabled and the third is locked, the innermost loop is
that of the outcome and no code of a user runs.  A settling call, an added
callback and a call of a callback for the outcome are the steps of `Promise`; all
other steps stutter.  That a callback for progress sees every notification at
most once also needs `ForItsList`: it was added to no other list.
`GoneAssumption` says that the value for an undefined list, stack or memory is
none of their values.

**Ajax.**  `AInv` says what each request can be in by itself (`RequestOK`), that
each call of `ajax` or `done` under way is at a point its request can be at and
that no request is twice in either (`StackOK`), and, while nothing irregular
happened, that `active` is the number of the requests that are `Counted`: while
code of the library runs, these include the requests whose `done` is under way.

**JSONP.**  `JInv`: not more names were made up than requests begun, and each is
free or used by one request (`NamesOwned`); until a late script or an overlap of
given names, the globals that are defined are the functions of the requests that
wait, and each has no data but its own (`Apart`).

**Comments.**  `VoteReachesServer` speaks of the moment when no vote is under way;
`WInv` says that until then the last one under way is the one that is shown
(`FinalVote`), and that only an author's own deletion marks a comment as deleted,
here and on the server a reload asks (`OwnDeletion`).

### Only model-checked

* Liveness (`SetupConverges`, `RequestsReturn`, `ExchangeEnds`,
  `SearchFinishes`, `EventuallyReady`, `TimeoutSettles`, `PromiseKept`, and the
  part of `PageConsistent` that says words are marked): fairness is outside what
  the proof system handles.
* `UnderscoreExact`, `SearchExact`, `PageToolsExact`, `SelectionExact`,
  `AjaxDataExact`, `HexExact`: that a recursive definition or a fold equals its
  reference for every input needs induction over the data, which the installed
  provers cannot do.
* `ThreadConsistent`, `ResultsInOrder`, `OutcomesFollow` and `CallbacksKept`
  rest on sorting, selecting from or folding over sequences; `HandledOnce` too.
  `QueueMoves` is about recursive operators.

## Not modelled

* Server: `addTable`, `getTables`, `reserveTable`, `leaveTable` (their bodies are
  commented out or change nothing) and handlers that only read or log; methods of
  `SessionUtil` that nothing calls; `ClusterFactory`, `SessionFactory`, the DAO
  interfaces and data classes; web, security and Swagger configuration.  Parsing
  of the command line is its outcome, `Args`.  Tokens (JWT, JWE) and AES are calls
  of libraries.  The resources of `Cluster` objects that are replaced and never
  closed.
* jQuery: manipulation of the document, CSS, animated values, attributes,
  offsets, serialisation and tests of the browser, which would restate the
  browser; Sizzle's tokenizer, set matchers, attribute and of-type selectors and
  the way around them through `querySelectorAll`; merging of ajax settings,
  headers and URLs; special events.
* underscore: `throttle`, `debounce`, `delay`, templates, chaining, type tests.
* doctools: tables of gettext, and key listeners that nothing calls.
* websupport: a comment's own list of replies; `CommentList` is the list of the
  popup and `CommentWidgets` one comment without those below it.
* searchtools: of `splitChars` only the ASCII characters; the stemmer is checked
  on the words of up to five of five letters and a few longer ones, which reach
  few of its suffixes.
* `searchindex.js` is generated: it is the input of `SearchIndex`.
* The vendored Cassandra distribution and the deployment scripts.
