# Formal models of sbt-Example

The repository is a collection of small actor, RPC and web programs: an RPC layer on Akka
cluster (`Simples/akka-rpc`), Akka examples in Java and Scala (`akka-scala-example`,
`akka-java-example`), Finagle examples (`finagle-*`), a Spray/websocket server and its test
client (`Simples/SpraySimple`, `Simples/WebSocketTestClient`), a Spring/Scala sample
(`Simples/SpringScala`), and copies of documentation (`akka_doc`, `finagle-example/doc`).
This directory holds TLA+ models of the programs that have behaviour worth arguing about, the
TLC runs that check them and the TLAPS proofs about them. `PROJECT.json` lists
components, runs, the code each definition stands for, hazards and theorems.

## Inventory

Paths are relative to `src/`.

| Component | State | Operations and interaction | Hard parts | What makes it correct |
|---|---|---|---|---|
| **akka-rpc, path of a call** (`RpcBeanProxy`, `RpcClientActor`, `RpcServerActor`) | mailboxes of one client actor and of one actor per server, two nested asks per call | proxy `invoke` blocks on an ask to the client actor, which blocks on an ask to the cluster router, which sends to a server actor | head-of-line blocking, equal timeouts inside each other, late and lost replies, restarts on exceptions | a method runs at most once per call, a caller gets its own result, every call ends |
| **akka-rpc, client singleton** (`AkkaRpcClientFactory`, `AkkaRpcClient`) | two unsynchronized references, the bound port, a Java monitor | `getClient`, `getInstance`, constructor, member-up callback | check-then-act, wait without a condition, callbacks before publication | one client, never replaced, and `getClient` returns |
| akka-rpc, server bootstrap (`AkkaRpcServer`, `ServerMain`, `ClientMain`) | an actor system | `start`, `close` | cluster formation | configuration only |
| **remote calculator, lookup** (`LookupActor`, `LookupApplication`, `CalculatorActor`) | behaviour (identifying/active), death watch, pending timers | Identify, watch, operations, Terminated, retry timers | stale answers, crash and restart, quarantine, timers that are never cancelled | never stuck, finds a calculator that stays, watches what it uses |
| **remote calculator, creation** (`CreationActor`) | one remote child per operation | create, result, stop | losses leak children, the worker crashes, results out of order | a child goes with its own result and with nothing else |
| **remoting benchmark** (`Sender`, `Receiver`) | behaviour, receive timeout, start time, the Continue in transit | bursts followed by an echo | losses, remainder bursts, stale search answers, shutdown | counts reported are counts sent; it ends |
| **word count** (`WcWithAkka`) | total, number of parts received | map, work, reduce, listen | slice boundaries, order of parts, stopping in time | each word counted once; it ends |
| **pi** (`Pi`, and its copy `MyPi`) | sum, number of results | calculate, work, result, listen | zero messages, Int overflow | sums each term once; ends |
| **finagle redis sample** (`FinagleRedisSampleApp`, `SampleCommands`) | a Redis list, the requests on one connection | set, get, poll loop, push loop, join | pipelining, a connection that breaks after Redis has served a request, other clients | values are printed in the order of their pushes, none is lost while the connection holds |
| **documentation: class animations** (`akka_doc/_static/effects.core.js`) | classes and style of an element, jQuery's fx queue, running animations | `addClass`, `removeClass`, `toggleClass`, `morph`, `switchClass` | overlapping calls, styles read early and written late, dequeues out of turn | every callback runs once; careful callers get what they ask for |
| **documentation: highlight effect** (`effects.highlight.js`) | visibility, style, one slot for the saved style, the fx queue | `effect`, `show`, `hide`, `toggle` | one slot, modes decided late | style restored, visible as asked |
| **documentation: colours and easing** (`effects.core.js`) | start and end colour of an animation | `fx.step`, the colour parser, the easings | parsing in a step, numbers read as text | ends with the given colour |
| **documentation: table of contents** (`toc.js`, `contentsFix.js`) | counters per level, the list built so far | visit a heading, number, give an id, link | levels left out | an entry lies in its section, its link leads to its heading |
| **documentation: search words and query** (`doctools.js`) | the page's nodes, the query parsed so far | `highlightText`, `getQueryParameters` | a list that changes under a walk, odd keys | text preserved; an answer has all of a query, forms come back |
| **documentation: translations and addresses** (`doctools.js`) | catalogs merged so far; the page's path | `addTranslations`, `gettext`, `ngettext`; `getCurrentURL` | a catalog refused half way; path ends | rule and locale agree |
| **documentation: page scripts** (all of the above, `highlightCode.js`, `scrollTo.js`) | which handlers have run, timers, scroll queue, index rows | ready handlers, timers, clicks | a handler that throws ends the rest; clicks before the handlers | every page whose query can be read gets its scripts; the last click wins |
| clock (`main/doc/ClockMain.scala`) | behaviour, scheduled ticks | Start, Stop, tick | tick of an old Start after a new one | not modelled: outside the compiled sources, and does not compile |
| hello examples | none to speak of | one or two messages | none | - |
| finagle java example (`Client`, `Server`) | 1001 futures, a thread pool | calls, listeners, polling for the end | failure leaves a null answer | ends with all answers |
| finagle examples (`Stress`, `HttpServer`, `RedisClient`, ...) | counters, filters | throttled requests | rounding, counting in callbacks | all requests counted |
| SpraySimple websocket server | map of reactors | `forResource`, socket callbacks | unsynchronized map, absent reactor | every message reaches its reactor or closes |
| SpraySimple `Draft.readLine` | a byte buffer | read a line | boundaries | the line, or the buffer unchanged |
| WebSocketTestClient, SpringScala, serverset, vendored libraries, stubs | - | - | - | see `PROJECT.json` |

Components in bold are modelled.

## Modules

### RpcService, RpcCall, MCRpcCall, RpcCallProofs - the path of a call

`RpcService` is what the proxy promises to code that calls a bean: `Submit`, `Run`, `Answer`,
`Fail`. A call ends with an answer or a failure; its method runs at most once; an answer
presupposes that it ran; a failed call may or may not have run, or may still run.

`RpcCall` is the path of the source. One action per step of the code:

| Action | Code |
|---|---|
| `Invoke`, `Return`, `GiveUp` | `RpcBeanProxy.invoke`: ask, `Await.result` ends or throws |
| `ClientTake`, `ClientReply`, `ClientTimeout` | `RpcClientActor.onReceive`: the ask to the router, the end of its `Await`, the exception that restarts the actor |
| `Serve` | `RpcServerActor.onReceive`, with its ends `Unresolved` (no bean or method), `InvokedInVain` (exception or null result), `Answered` |
| `Deliver`, `LoseRequest`, `LoseReply`, `ServerCrash` | router, remoting, and the end of a server process |
| `Tick` | the clock behind all waits |

A call is named by its thread and number; arguments and results are the call they belong to,
which is all the properties tell apart. Requests and replies in transit are sets: messages of
different calls may be reordered. A wait may end as soon as its ticks are used up, and any
time later, so no property depends on timers being punctual. `ClientTake` does not look whether
the caller still waits, because the code does not.

A message of one ask can be taken for another's only if the reply is not addressed to it;
`replies` therefore carry the ask they answer (`sender` of the request) next to the call whose
result they are.

### RpcClient, RpcClientProofs - the client singleton

`pc` walks each thread through `getClient` and, if need be, `getInstance` and the constructor,
one action per access to shared state. `MemberUp` is the callback, `ThreadExit` the end of the
client's own (empty) thread, on which the JVM does `notifyAll`, `SpuriousWakeup` what Java
allows of `wait`. `CreateSystem` fails when port 2552 is taken, by another client or by another
process. A block synchronized on a client is one step; `Woken` is a separate step, as
reacquiring the monitor is.

### LookupActor, LookupActorProofs - the remote calculator

The actor's two behaviours are `Identifying` (`target = NoRef`) and `Active`. Each case of the
code is an action on the head of the mailbox. An incarnation is one life of the calculator's
actor. `DeathWatch` sends Terminated at most once per watch, for a dead calculator or for a
living one that the failure detector suspects; remoting then quarantines it. `LookupApplication`
is `ScheduleOp` (operations) and `NodeStarts`/`ActorStarts` (the node answers Identify with
`None` in between).

### Benchmark, BenchmarkProofs - the remoting benchmark

Each case of `Sender` and `Receiver` is an action; `sendBatch` is `SendBatchThen`. The clock is
abstracted to the number of payloads sent when it was read, so that the n of a Continue can be
compared with its start time. The 500 ms test is a free choice. Losses are counted and bounded.
The Sender's messages are on the wire, in order, until `Deliver` puts the first into its mailbox.
`timer` is the receive timeout: it may fire as long as the Sender has not begun to handle a
message, so that a ReceiveTimeout may stand behind the ActorIdentity that ends the search and be
met by the active Sender (`Unhandled`); a message handled while the search goes on arms it again
when the mailbox is empty, and finding the Receiver ends it.

### WordCount - the word count

The Master's slices (`EndIndex`, `Slice`), the workers, the merge and the Listener. A text is any sequence over the
given words, and the number of workers varies; both are chosen in `Init`. The code cuts the last
slice at `sumSize - 1`, exclusive, so the last word of the text is in no slice: `Counted` is the
text without it, and the properties are about `Counted`. No document says which words are
counted. `WordsConserved` follows the parts, not the words: the merged parts are a set, each message
to the Master is one of the others, and every part is in one place.

### Creation - one remote calculator per operation

`Schedule` is the application's timer, `ReceiveOp`, `ReceiveResult` and `ReceiveTerminated` the
cases of `CreationActor` and what its children's ends do to it, `WorkerCreates`, `Calculates` and
`WorkerStops` the worker node, `Lose`, `Crash` and `AddressTerminated` the faults. An operation
names its child, its message and its result; the numbers are left out.

### Pi - the series

As `WordCount`: `Calculate` deals the ranges, `Work` answers one, `Result` adds and counts,
`Shutdown` is the Listener. A sum is the sequence of ranges that went into it, so that the order
of answers is kept and rounding is not the question; `Wrap` is Int arithmetic, with the Ints from
`-Half` to `Half - 1`.

### RedisSample - two loops over one connection

`line` holds the requests of the pipelined connection, `answers` what Redis sent back; `Serve`
carries out the first request, `Break` fails all that are outstanding, served or not. `SetDone`
and `GetDone` are the first sample, `Popped`/`PollAgain` and `Pushed`/`PushAgain` the loops with
their pauses, `OtherPush` another client on the list, `JoinFails` the end of the wait.

### ClassAnimation, ClassAnimationProofs - animateClass

One action per public method (`AddClass`, `RemoveClass`, `ToggleClass`, `Morph`; `switchClass` passes
its arguments to `animateClass` as `morph` does), each for the form with a speed and, but for `morph`,
for jQuery's own form. A call with a speed visits its elements one after the other
(`AnimateOne`): it measures the style under the new classes, takes them back, and calls
`animate`, whose queue is modelled as jQuery 1.7.1's: the mark "inprogress" (`busy`), the
animations that wait (`queue`) and those that tick (`running`). `Frame` writes a style between
two values, `Finish` is the completion callback of line 123 and the dequeue behind it.
An animation with nothing to change completes inside the call and dequeues although another one
holds the queue; `DequeueThen` is the dequeue. The object of a `toggleClass` or `morph` call is
shared by the elements of the selection (`value`): the first element's answer to "toggle"
overwrites it, which is why it is state.

`owed`, `want`, `own` and `hasty` are history variables: callbacks still to run, the classes and
style asked for, and the elements on which a call was made before the previous one was over.

### HighlightEffect, HighlightEffectProofs - the highlight

`CallEffect` queues a highlight (or starts it), `Complete` is the animation's end with the
restored style and the dequeue, `Plain` the forms without an effect, `ClassCall` an `animateClass`
call that dequeues out of turn. `stored` is the data of `$.effects.save`, one slot per element.

### Easing, ColorFx - colour animations

`Easing` holds the formulas as fractions over whole milliseconds; `ColorFx` one animation with
`Begin` and `Tick`: colours are parsed in each step whose state is 0, and each step reads its
numbers back from text (`parseInt`, of a number with an exponent too).

### Toc - table of contents

`Visit` and `Skip` are the loop of `toc.js` over the headings, with `checkContainer`, the numbers
and ids; `EmptyUl` and `ContentsFix` the end of the page. The nested lists are the sequence of
their `li`s with depths. Texts and ids are members of a small set with a given, not injective,
`generateId`.

### Strings, QueryParameters, HighlightText, Translations, CurrentUrl - the rest of doctools.js

Strings are sequences over a small alphabet; an escape such as `%26` is one character of it.
`Strings` joins and splits them, by functions of the position reached.
`QueryParameters` parses part by part, a query that was typed or one that `urlencode` wrote, with
the two ways it can throw. `HighlightText` is the
recursive walk with its stack of calls, each with the index and the length jQuery.each read once.
`Translations` merges catalogs in any order, a malformed one up to the line that throws.
`CurrentUrl` is one call; `makeURL` is what a browser makes of its answer, with the slash that the
code adds to a `URL_ROOT` which has one already.

### DocPage - a page as a whole

The stages of loading (`RunToc`, then the ready handlers in their order), the timers, and the
reader's clicks at any time. What the single modules above compute is an input here: whether the
query can be parsed, how many words are marked, the ids of the headings. The window is a scrollTop.
`doctools.js` replaces `jQuery.contains` (line 68), by which jQuery 1.7.1's `offset()` asks whether an
element is in the document; the answer is now always no, and `offset()` gives the place in the
window. `ClickLink` therefore queues the heading's place less the scrollTop at the click, wherever
the window is on its way then (`Seen`), and the same less 5; `Scrolled` is the end of one of these
animations, `Glowed` that of the highlight. Headings do not move: that index rows above them open
and close is left out. So is where the anchor timer jumps to (`AnchorTimer`): it is where the
browser already is, or an animation is under way whose end it does not change; it comes before
any animation of a click has ended.

### Scripts, ScriptsProofs, MCScripts, MCExamples, ExamplesProofs, MCClassAnimation, MCRpcCall

`Scripts` and `MCExamples` put programs that share nothing into one specification each. All
variables are declared; a behaviour starts one of the programs in an initial state of its own and the
others in a state after their end, and every step is a step of one program. The behaviours are
exactly those of the single programs, one after the other, and the state space is their sum,
not their product. Their properties are conjunctions of the properties of one program or of a
group (`ContentsFit == T!TypeOK /\ T!WellNested /\ ...`), each part stated and explained in
the program's module. `MCScripts` gives `Scripts` the pages, texts and colours of its run.
`ScriptsProofs` extends `Scripts` and `ExamplesProofs` extends `MCExamples`: what is proved is what
the runs check.

## Runs

All are small enough to finish in minutes; every bound is a CONSTANT in a `.cfg`.

| Run | Bounds | Shows |
|---|---|---|
| `rpc_call` | 2 callers x 2 calls, 2 servers, timeout 2, symmetric | `AtMostOnce`, `RightAnswer`, `OuterEndsFirst`, `NotForgotten` |
| `rpc_call_live` | 2 callers x 2 calls, 1 server, timeout 1 | `EveryCallEnds`, `ClientDrains`, and `ImplementsService`: `RpcService` with its fairness |
| `rpc_client` | 3 threads | `OneClient`, `PublishedOnce`, `UpWakesWaiter` |
| `rpc_client_wait` | 1 thread | violation of `GetClientEnds`, below |
| `lookup` | 2 incarnations, 1 equal message in transit, 2 operations | `NeverStuck`, `WatchesTarget`, `ChainsEnd` |
| `lookup_live` | 2 incarnations, no operations | `FindsCalculator`, `TimersDieOut` |
| `benchmark` | totals 0..5, bursts 0..3, 2 losses, 3 searches in transit | `OneToken`, `HonestCount`, `EchoMeansDelivered`, and `ShutsDown` when nothing is lost |
| `highlight_effect` | 2 elements, 5 calls | `StyleRestored`, `VisibleAsAsked`, `NobodyStuck`, `ComeToRest` |
| `class_animation` | 3 calls on one element or 2 calls on two, 2 classes over 2 properties | `CallbacksOwed`, `CarefulCallsAreRight`, `ComeToRest` |
| `scripts` | pages of up to 5 headings, texts of up to 3 nodes and 2 terms, queries of 3 characters and forms of 2 pairs, 2 catalogs, paths of 7 characters, all modelled easings, a page of 2 headings, 2 togglers, a code block and 2 clicks | `ContentsFit`, `WalkMarks`, `AddressesRead`, `IconFits`, `LastClickWins`, `PageEnhanced`, `TranslationsFit`, `ColorsArrive` |
| `query_arrays` | queries of 3 characters | violation of `AlwaysArrays`, below |
| `examples` | texts of 1..5 words, 1..3 workers; up to 4 messages of 4 elements with 6-bit Ints; 3 operations and a crash; 3 + 2 pushes and 2 breaks | `CountsRight`, `SeriesRight`, `ChildrenFit`, `QueueServed`, and `AllServed`: what each is for comes about |

`benchmark` also checks the type invariant; where a theorem states it for all values of the
constants, the other runs leave it to the proof.

Why the bounds are enough for the cases that matter:

- *Calls.* Two callers make a queue behind the blocked client actor; two calls each let a late
  reply or a queued request of the first meet the second; two servers let one call wait at a
  server while the next goes to another; a timeout of two separates "started earlier" from
  "started in the same tick". The proofs remove these bounds.
- *Singleton.* Three threads allow a builder, a thread that sees the instance unassigned and
  fails on the port, and one that sees it assigned. The proofs remove this bound.
- *Lookup.* Two incarnations give crash, restart, a stale ref and a suspected living actor, two
  operations one that waits while another is on its way. The proofs remove these bounds; the
  liveness run has no operations, which neither start a search nor touch the watch.
- *Benchmark.* Totals below, at and above the burst size, multiples and not, zero included, and
  a burst size of zero; three searches, so that an answer and a timeout stand behind the answer that
  ends the search. The proofs remove these bounds.
- *Highlights and class animations.* One that runs and two that wait, a second that runs because
  of a dequeue out of turn, and, for class animations, a selection of two elements that share one
  value object. Two classes that set the same property and one more decide every question of
  precedence. All but `ComeToRest` is proved without bounds.
- *Page.* All combinations of the options a page can have. Two clicks meet a page between and
  after its handlers, a window at rest, on its way and already scrolled; one heading lies further
  down than the window scrolls, so that a scroll ends early. The proofs remove these bounds.
- *Scripts.* Headings over two levels with two texts of one id and one with an id of its own, and
  longer pages over four levels, so that levels are left out on the way down and up; texts
  without the term, with it at either end and with it twice; queries with escapes, inherited names
  and keys without a value; colours in every notation, at the start and at the end. The
  proofs remove these bounds for all but the colours.
- *Examples.* Texts shorter than, equal to and longer than the number of workers, with
  remainders; no messages at all; products beyond the largest Int; three operations answered in
  any order; a break before and after Redis has served a request. The proofs remove these bounds for
all but `AllServed`.

## Fairness, and why the code justifies it

- `RpcCall`: time passes (`Tick`); a thread whose `Await` is over is run; the dispatcher runs
  the client actor while it has a message or its wait is over. Nothing is assumed of the
  network or of any server: they may stop for ever.
- `RpcClient`: the JVM runs threads and ends the thread whose `run()` is empty; a cluster member
  with reachable seeds does become Up and its callback runs. Spurious wakeups are not fair.
- `LookupActor`: the dispatcher runs the actor, timers fire, the failure detector finds a dead
  actor. Identify and its answers get strong fairness: when they are sent again and again to a
  node that stays reachable, some arrive. The scheduler of operations is not fair.
- `Benchmark`: both actors and timers run, the Receiver starts, death watch works; losses and
  crashes are never fair.
- `WordCount`, `Pi`: one JVM; the dispatcher runs every actor that has a message.
- `Creation`: both nodes work and what is not lost travels; no operation has to be scheduled.
- `RedisSample`: Redis answers while the connection holds, and the client's threads and timer
  run; nobody has to push and no connection has to break.
- `ClassAnimation`, `HighlightEffect`: the browser's one thread runs a call to its end, and the
  interval timer of jQuery ticks while an animation is left; nobody has to call.
- `Scripts` and `QueryParameters` are checked for safety only, without fairness.

`CHECK_DEADLOCK FALSE` stands only where the system does stop: all calls made, all threads
returned (or waiting), the benchmark, a script or an example over.

## The findings

`rpc_client_wait`: `AkkaRpcClient.getInstance` (lines 62-75) waits with no condition after the
constructor has registered the member-up callback. If the member comes up first, the callback
either finds the static `instance` still null and ends in a NullPointerException (line 54) or
notifies nobody (line 56). What usually hides this is that the client is itself a Thread whose
end also notifies; when that too comes before the wait, nothing is left to wake the thread.
`StringSupportTest.java:24` expects the call to return a client. Where the notification does
come while the thread waits it is enough (`UpWakesWaiter`), because only the builder waits
(`NotifySuffices`).

`query_arrays`: the comment of `getQueryParameters` says that "it will always return arrays of
strings for the value parts" (`doctools.js:44-45`). For `?toString`, or any name that objects
inherit, `key in result` is true at once, what it gives has no `push`, and the call throws a
TypeError. `AddressesRead` says when it throws and what it returns otherwise.

Other things the models show, which no text in the repository contradicts, or which it leaves
open:

- `AkkaRpcClient`: a second thread may get a client whose member is not Up yet.
- `WcWithAkka.scala:76`: the last word of the text is in no slice and is not counted.
- `Pi.scala:48`: with no messages the program never ends.
- `FinagleRedisSampleApp.scala:82`: the join ends with the first loop that fails; while the
  connection holds, neither does.
- `effects.core.js:84`: a second class animation called while one runs saves the style half way
  and writes that back at its end; `CarefulCallsAreRight` holds for callers that wait.
- `effects.core.js:193`: a value written with an exponent is read as its first digit.
- `effects.core.js:243`: `rgba(0, 0, 0, 0)` passes the search for a colour and is parsed as white.
- `toc.js:97`: where a level is left out, numbers of different depth coincide.
- `doctools.js:179`: where the query cannot be read, for such a key or for a malformed escape, the
  ready handlers behind the one that reads it never run (`PageEnhanced`).
- `doctools.js:34`: a `+` does not survive `urlencode` and `urldecode`, which replaces it after the
  escapes are decoded.
- `doctools.js:68`: with the new `jQuery.contains`, `offset()` gives places in the window, and a click
  on a link (`scrollTo.js:5`) in a window already scrolled does not lead to the heading: the
  window stops as far above it as it was scrolled, and 5 more.
- `doctools.js:96`: nodes that a split pushed beyond the cached length are not visited in that
  walk.
- `doctools.js:137`: `ngettext` of a known text calls `PLURALEXPR`, which does not exist.
- `doctools.js:224`: `makeURL` does not lead back to the page whose address `getCurrentURL` gives: it
  adds a second slash to a `URL_ROOT` of `'../'`, and what it calls absolute is relative to the page.
- `doctools.js:238`: the last character of a path that names a file is cut off.
- `scrollTo.js:5`: for an id that jQuery cannot look up, the link neither scrolls nor jumps.

## Theorems

Proved with TLAPS for all values of the constants, from the named assumptions only.

`RpcCallProofs` (from `RpcAssumption`: MaxCalls and Timeout are naturals, NoCall is no call):
`TypeCorrect`, `AtMostOnceHolds`, `RightAnswerHolds`, `OuterEndsFirstHolds`, `NotForgottenHolds`,
and `ImplementsServiceSafely`: the path of a call implements the safety part of `RpcService`.
`AtMostOnce` is not inductive: that a method has not run twice depends on where else the call
is. The inductive invariant `IInv` adds that a call that was not made is nowhere (`Unmade`), and
that a call which has not run is in one place only, once: in the client's mailbox (`Queued`),
on its way to one server (`OnTheWay`) or in one server's mailbox (`AtServer`); and that each
reply answers the ask of its own call, which has run (`Replied`). `OuterEndsFirst` and
`NotForgotten` are proved together: when the client actor gives up, `OuterEndsFirst` says that
the caller's time is up as well, and so it is not forgotten. There is one lemma per action,
above four lemmas on what `Append` and `Tail` do to the set of a mailbox's messages.

`RpcClientProofs` (from `NoneAssumption`: null is no thread): `TypeCorrect`, `SameClientHolds`,
`NotifySufficesHolds`, `PublishedOnceHolds`. The inductive invariant says what keeps the
singleton single: not `getInstance` but the port. A thread between binding the port and waiting
is the one that holds it; before the assignment nothing is published; everything read later is
the port's client.

`LookupActorProofs` (from `LookupAssumption`: the bounds are naturals): `TypeCorrect`,
`NeverStuckHolds`, `WatchesTargetHolds` and, of steps, `ChainsEndHolds`. The inductive invariant
says that the search goes on by a timer or by a timeout in the mailbox (`GoesOn`), and what the
mailbox knows of the death watch (`Deathwatch`): it holds one Terminated at most, that of the
target, and then nothing is watched; else exactly the target is. The type of the node and the
wire is a second invariant above the first (`OutsideTypes`).

`BenchmarkProofs` (from `BenchmarkAssumption`: totals and bursts are naturals): `TypeCorrect`,
`OneTokenHolds`, `HonestCountHolds`, `EchoMeansDeliveredHolds`. None of the last three is
inductive. The invariant says for each message that moves the benchmark on how much has been
sent while it is under way (`Fits`), so that the numbers of a Continue follow when it comes
back; that the messages of this kind in both mailboxes are one at most, and none before the
Receiver is found (`OneBurst`); and that what is sent is received, lost or still on its way, where
no payload stands behind an echo (`Delivery`). The Sender's mailbox and the wire are counted as one
(`inbox`). Counting is by cardinality; the lemmas in front say what `Append`, `Tail`, concatenation
and removal do to the count of a mailbox's messages, and five more what a handler takes and posts
(`Taken`, `Posted`, `TakenAndPosted`) and the network delivers or loses (`Delivered`, `WireLost`).

`HighlightEffectProofs` (any elements, any number of calls): `TypeCorrect`, `NobodyStuckHolds`,
`StyleRestoredHolds`, `VisibleAsAskedHolds`. The mark at the head of a queue belongs to a highlight
that runs (`Slots`), and on an element without class animations that highlight is the only one, and
what it has saved is the page's own style (`Alone`). `VisibleAsAsked` speaks of an element at rest;
its invariant speaks of every element: the highlights that wait, carried out in their order on what
the one that runs will leave, lead to what was asked (`Due`). `Leads` says so by the visibilities in
between, a function on positions, and two lemmas say what `Append` and `Tail` do to it.

`ClassAnimationProofs` (from `ClassAnimationAssumption`: pages are finite, bounds are naturals):
`CallbacksOwedHolds`, `CarefulCallsHold`. The invariant of the first adds to it that a call visits each of its elements once
(`Visiting`), that nothing waits without a mark nor is marked without an animation (`Slots`),
that the animations of an element, waiting or running, are of different calls (`Apart`), which is
what makes a set of them countable, and the count itself (`Owed`). For `CarefulCallsAreRight` an
element whose calls were all careful is in one of three states (`Right`): nothing happens to it
(`Rests`); the call has still to visit it, and would resolve there what was asked (`Awaits`); or its
only animation leaves what was asked (`Animates`), and no element visited later overwrites the value
object it shares, because the elements agree about the class.

`ExamplesProofs` (from `ExamplesAssumption`: bounds are naturals, the largest text and number of
workers not 0, the Ints not empty), each for the program and for its end, where it stays:

- `CountsRightHolds`. `WordsConserved` with the types is inductive. The lemmas before it are about
  cutting the text: the parts do not overlap and cover it (`PartsApart`, `PartsCover`), the tally of a
  slice is that of its positions (`TallySlice`), merging a part adds it to the tally of the parts
  merged before (`TallyMore`), and all parts together are the text but its last word (`TallyAll`).
- `SeriesRightHolds`. A message is named by its round and its worker (`Rounds`, as many as there are
  messages: `RoundsCount`). The invariant (`Dealt`) says how many rounds each worker is through,
  that the messages answered and added are exactly those of rounds gone by, each once, and that the
  mailbox of a worker holds the rounds to come, in order (`Left`). The sum is complete when as many
  are added as there are, since a one-to-one map between sets of one size leaves none out; the
  ranges of all messages are the numbers of the series (`Ranges`, by division).
- `ChildrenFitHolds`, a safety invariant and a property of steps. The invariant is the course of
  each operation (`Course`): no trace of a calculator before its operation is received, and from its
  creation on it is a child, of a worker that has not crashed, whose end nobody has been told.
- `QueueServedHolds`. The connection holds one request of each kind at most, sent or answered, as the
  states of the three clients say (`Pipeline`, `Phases`); values are numbered as they are pushed, so
  those in the list are the last ones, those printed or on the way come before (`Taken`), in order,
  and until the connection breaks they are all that were taken (`Kept`).

`ScriptsProofs` (from `ScriptsAssumption`, which puts the assumptions of the scripts together:
bounds are naturals, texts and terms sequences of letters, a form has no character that is itself an
escape, `generateId` gives an id), each theorem from the start of its script and from its end, where
it stays. What a script computes over its whole input follows step by step from functions defined on
positions: `Recursion` says that each such function has the value its equations give, by induction
over the set of positions reached, which is an induction about a set and not about an operator.

- `ContentsFitHolds` (`TInv`). The counters count the headings of their level since the last one
  above (`Counted`), the number of the latest heading of a level is what the counters spell
  (`Numbered`), and a visit carries both on (`NumberOfVisited`: the number of a heading is that of its
  section and the count of its sisters; `Legal`). Where no level is left out numbers differ
  (`Differ`) and every heading has its item at its rank, with all lists around it open
  (`Complete`, `ListsOpen`). `Chain` follows the turns of `appendToTOC` down from the table: at each
  level there is an open item, found or written (`Spine`), whatever levels are left out. Without
  numbers, or if no level is left out, no list stays empty (`NoneEmpty`), which is what the title
  asks about: the counters open a list only for a heading that goes into it (`SectionOpen`,
  `HeldNext`).
- `WalkMarksHolds` (`HInv`). A page is a forest in which each node stands in one place (`Once`) and
  has the form of its kind (`Shaped`). A cut puts two nodes behind a text and leaves the line of
  texts as it reads (`LineApart`, by `JoinedApart`). The loops of the walk, one inside the other, fit
  the lists as they are now (`LoopsFit`); the bound on the walk is inductive only with the number of
  turns a loop still has (`Growth`): a list grows by two where a turn is used up. `Found` says what
  is behind the walk.
- `AddressesReadHolds` (`QInv`, `UInv`). The object holds the values of the parts read so far, as many
  of each key as there are parts with it (`Holds`, with `CountNext` and `CountGrows` for one part
  more), and all of these parts could be read. What `urlencode` writes holds no separator, so that
  the form splits where it was joined (`FormParts`, `PairFields`), and decoding undoes it
  (`DecodeEncode`). For an address, leaving fewer directories than there are slashes leaves one, and
  the cut there gives the root and what is below it (`PoppedLastSlash`, `Rejoined`, `UrlHolds`).
- `TranslationsFitHolds`, of states and of steps, and `LastClickWinsHolds`, `PageEnhancedHolds` and
  `IconFitsHolds` (`DInv`): links have their handler before scrolls are queued (`Linked`); the scroll
  queued last, or the window, is where the last click leads (`Heads`); the handlers behind the first
  run only if the query can be read (`Readable`), and each has done its work when the next one's
  turn comes (`HandlersDone`).

Only model-checked: all liveness (`EveryCallEnds`, `ClientDrains`, the fairness of `RpcService`,
`UpWakesWaiter`, `FindsCalculator`, `TimersDieOut`, `ShutsDown`, `ComeToRest`, `AllServed`), which is out of the prover's reach, and `ColorsArrive`: it compares products of
fractions whose degree the easing gives, which the prover's arithmetic does not settle.

## Not modelled

Serialization, reflection and configuration of akka-rpc; the choice the adaptive router makes
(any server, or none); a crash of the client process, with which callers and client actor end
together; a living worker that the failure detector suspects, in `Creation`; negative arguments of the
benchmark; printed text. Of the documentation: the easings of
sines, square roots and Elastic, which need real numbers; `getBaseline`, `createWrapper`,
`removeWrapper`, `setTransition` and `cssUnit`, which serve effects that are not in the
repository; jQuery, underscore and prettify themselves (third-party, one line each), of which
jQuery's queue, `each` and `animate` are modelled as far as the scripts use them. The clock
example, which lies outside the compiled sources and does not compile. Components not in bold
above, for the reasons given in `PROJECT.json`.

## Plan

Done: the core (`RpcService`, `RpcCall`, `RpcClient`, `LookupActor`, `Benchmark`, `WordCount`), the
remaining Akka examples (`Creation`, `Pi`), `RedisSample`, and the scripts of the documentation.

Left, in this order:

1. `WSocketServer` with its test client: reactors in an unsynchronized map; and `ReadLine`
   (`Draft.readLine`) as an operator checked against a reference definition.
2. `Stress` and `JavaClient`: request counting, rounding, failed calls.
3. The Spring transaction sample, and the filters of `HttpServer`.
4. Proofs: that an animation ends with its colour and that the halves of the easings mirror each
   other (`ColorsArrive`), for durations and colours of any size.
