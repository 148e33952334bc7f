# Verification of almadar-runtime

TLA+ models of the parts of `@almadar/runtime` where the order of steps decides
whether the program is right, checked with TLC on small instances, and proofs
with TLAPS: of the event queue, registration, the tick clock and the browser host,
of every part that `MCServer` composes (event bus, residence, bridge, router, ticks,
reads, kernel engines and rows, pages, the http event transport) and every part of
`MCCalls` (calls in flight, transports, the http exchange, a child's output and exit,
the mounts of the server, the program host, the loaders), and of OAuth.
Source paths below are relative to `src/src/`; the exact lines each definition stands
for are in `PROJECT.json` under `map`.

## The system

The runtime executes resolved Almadar programs: orbitals with traits, which are
state machines. The interpreter is a compiled kernel outside the repository. The
runtime *hosts* it: it feeds it requests, answers the reads, writes, service calls
and other asks the kernel stops for, and carries the responses to clients. All of
it is single-threaded JavaScript, so the concurrency is that of promises, timers
and callbacks: every `await` is a point where anything else may run, and nothing
else is. The models follow that rule: what stands between two awaits is one
action.

| part | state it keeps | operations | talks to | modules |
|---|---|---|---|---|
| event queue (`server/OrbitalServerRuntime.ts` 1765-2004, `kernel/engine.ts`, `kernel/host.ts`) | a chain of promises, a hold per dispatch | process an event, acquire, release, run outside the queue | kernel, services, providers that dispatch back | `FifoLock`, `EventQueue` |
| registration (`OrbitalServerRuntime.ts` 636-1358) | orbitals, kernel handle, epoch promise, bracket depth, viewer | register, unregisterAll, swap, look up, set the viewer, read a program's files | hosts that swap apps, dispatches that look up | `Registration`, `ProgramRegistration` |
| router, ticks and clients (`OrbitalServerRuntime.ts` 1095-1240, 1427-1758, 2022-2168, `server/sse.ts`) | tick handles, mounts, relay buffer, streams | event, input, stream, read routes, fire, mount, release, relay | clients, event queue, registry | `ServerRouter`, `ServerReads`, `ServerSession` |
| kernel engine (`kernel/engine.ts`, `host.ts` rows) | what the kernel was told, flights | open, reset, fork, resume, abandon; read and write rows | kernel, adapter | `KernelHost` |
| tick clock (`time/TickScheduler.ts`, `time/cron.ts`) | ticks with accumulators, one loop, a pause flag | add, addCron, stop, stopAll, pause, resume, advance | frames or a timer, callbacks that call it again | `TickScheduler`, `Cron` |
| browser host (`evaluation/browser-store-transport.ts`) | a running turn, two lanes, a firing flag per tick | send, outcome, fire, watch report, dispatch through lent ports | kernel, services, tabs, tick clock | `BrowserHost` |
| in-flight calls (`effects/in-flight-calls.ts`, `host.ts` 125-199) | abort controllers by key | run, cancel, deliver a follow-on outcome | services, both queues | `InFlightCalls` |
| event bus (`events/*`) | listener sets, emits on the stack, identities | emit, on, once, off, clear, rename | every publisher | `EventBus` |
| transports (`server/EventTransport.ts`, `channel-transport.ts`, `ServerBridge.ts`, `evaluation/residence-transport.ts`) | channels, pending requests, subscribers, legs | send, register, subscribe, reopen, close | network, message ports | `PushChannel`, `HttpTransport`, `RequestReply`, `ChannelTransport`, `ServerBridge`, `Residence` |
| http exchange and secrets (`kernel/http-exchange.ts`) | one exchange; minted values over stored ones | ask, send, stream, cancel, time out; get, set, rotate, take | network, credentials | `HttpExchange`, `Secrets` |
| OAuth (`kernel/oauth-*.ts`) | an authorization, its pending grant, mock tokens | authorize, put, ask consent, take; put, refresh, check, revoke | secrets, providers | `OAuthPort` |
| credentials (`host/credentials/*`) | sealed rows, a cache, the scope of a tenant | set, remove, warm, rotate, hold, take, seed, resolve | adapter, cipher, environment | `CredentialStore`, `CredentialScope`, `OAuthPort` |
| operating-system port (`kernel/os-*.ts`) | handles, children, descriptors, sockets | spawn, wait, read, write, walk, send, receive | Node | `OsHost`, `OsNodeFs`, `OsNet` |
| chrome host (`host/chrome/*`, `effects/on-device-model.ts`) | watches, rows of a profile, model sessions | watch, attach, report; change rows; prompt | tabs, chrome.storage, the model | `PageWatch`, `ChromeRows`, `OnDevice` |
| program host (`host/program/*`, `kernel/workspace-node.ts`) | temporary files, saved and mounted versions, workspaces | stamp, validate, save, mount, compose | the `orb` binary, one kernel program | `ProgramHost`, `BehaviorGraph` |
| loaders (`entities/loader/*`) | three caches, registry roots | load, resolve, clear | disk, servers | `Loader`, `ImportPaths`, `ProgramRegistration` |
| trait facts (`traits/trait-index.ts`) | none | fold a trait's effects | residence | `TraitFacts` |

Also in the repository and not modelled: kernel wire and decoding, loader
configuration, ui, effect composition (see the end).

### What is hard, and what each part must guarantee

* **Event queue.** Two dispatches must never evaluate from the same held state; a
  service call must not hold the queue, because its provider may dispatch into the
  same app and wait; the re-acquisition must not overtake; nothing may keep the
  queue after its dispatch was answered.
* **Registration.** While an app is swapped, events for the next one already
  arrive. They must wait and then find the whole new app; two swaps must not mix;
  a swap that fails must not wedge the chain; the rows that are seeded meanwhile
  belong to the viewer named last.
* **Router and clients.** An answer is of one app although it is put together over
  several awaits; a stream tells its own turn; a client that left leaves no mount.
* **Tick clock.** Callbacks call the scheduler in the middle of a pass. There must
  be one loop exactly while there is something to tick, no firing during a pause,
  no burst after one, and every tick must keep firing.
* **Browser host.** One request at a time, a person's before background work; a
  dispatch made by a service while its turn runs belongs to that turn, any other
  queues; ticks are skipped, not piled up.
* **Calls and transports.** The late answer of a cancelled or replaced call counts
  for nothing; every request settles; frames are applied in sequence across breaks
  and restarts; a listener hears an event once whatever listeners do meanwhile.
* **What is kept.** A rotation survives a crash between two rows and hides behind
  no cache; a grant is taken once by whichever instance; a tenant's work never
  sees another's values; two changes of one value lose nothing.
* **What is let through.** An entry of the file tree changes only as granted, also
  through links; a name is granted before it is resolved.

The hazards are listed one by one in `PROJECT.json`, with the properties that
would catch them.

## How the project is laid out

One module per component; where a file of the source has two parts that share no
state (the emits and the identities of the event bus, the tree and the descriptors
of `os-node-fs.ts`, the grants and the mock tokens of OAuth, the flights and the
rows of the kernel's host, the seeds and the files of a registration) their module
has two machines. `EventQueue`, `Registration`, `TickScheduler` and `BrowserHost`
are checked as they stand, and `<Module>Proofs` holds the theorems about `<Module>`.
The other components are checked through three composing modules:

| module | parts, by the value of `scene` |
|---|---|
| `MCServer` | `bus` and `routing` EventBus, `residence` Residence, `bridge` ServerBridge, `persona` and `file` ProgramRegistration, `page` PageWatch, `router` ServerRouter, `reads` ServerReads, `kernel` and `rows` KernelHost, `http` HttpTransport |
| `MCStores` | `store` CredentialStore, `scope` CredentialScope, `grants` and `mock` OAuthPort, `secrets` Secrets, `chrome` ChromeRows, `tree` and `files` OsNodeFs, `net` OsNet, `imports` ImportPaths, `device` OnDevice, `facts` TraitFacts, `cron` Cron, `graph` BehaviorGraph |
| `MCCalls` | `push` PushChannel, `channel` ChannelTransport, `session` ServerSession, `flights` InFlightCalls, `http` HttpExchange, `program` ProgramHost, `os` OsHost, `loader` Loader |

The parts of a composing module share no state, as the components do not: they are
instances over variables of their own. A product of them would only multiply
states, so `Init` chooses a `scene`, and only that part takes steps. A property of
a composing module is one promise that several parts make, each in its own words:
`NothingLostBetweenAwaits`, for example, is `NoChangeLost` of `ChromeRows`,
`NothingStaleOfTheModel` of `OnDevice` and `TransfersAreConsecutive` of `OsNodeFs`.
The part's own property, with its comment, stands in its module; so does a mutant,
a plausible slip in one definition, for every part of a composed property.
`PROJECT.json` names one mutant per property of a run.

Components that do share state meet in one module: the queue, the kernel's rounds
and the dispatches of providers in `EventQueue`; the chain, the registry and the
dispatches that look up in `Registration`; a part that needs another only as an
order (the queue in `ServerSession` and `ServerRouter`, the chain in
`ServerReads`) has a sequence or a phase in its place, and says so.

Two modules are promises: `FifoLock`, which `EventQueue` implements
(`QueueIsFifoLock`, proved), and `RequestReply`, which `ChannelTransport`
implements (`AnswersItsOwn`, proved).

Where a component keeps a promise only under a condition its callers meet, the
condition is a constant, and the run takes the value the code's callers justify.
With the other value the property fails; these are facts about the code worth
knowing, and no comment or test of the repository claims otherwise:

| constant | otherwise |
|---|---|
| `EventBus.StaleHandles = FALSE` | an unsubscribe used twice, or after `clear()`, drops the set subscribed since (`EventBus.ts:152`) |
| `ServerSession.LateMounts = FALSE` | a client that disconnects with a request under way is mounted again by it, for good (1095-1240) |
| `PageWatch.Overlap = FALSE` | a watch placed again while its removal still goes from tab to tab is taken from pages it was just attached to (`port.ts` 113-126) |
| `OsHost.KeyReuse = FALSE` | a cancelled ask that is still out delivers under its key once the key is asked under again |
| `OsNodeFs.Shared = FALSE` | a deferred read and another ask on one descriptor move its position past each other (`os-node-fs.ts` 534-549, 562-574) |
| `ImportPaths.AbsoluteBase = TRUE` | with a relative base the HTTP loader names another file than the disk (`http-loader.ts` 427-460) |
| `Secrets.MintsMeanwhile = FALSE` | a value minted while a rotation awaits the store hides the rotated one (`http-exchange.ts` 251-252) |
| `CredentialScope.ServesMeanwhile = FALSE` | a credential written while the host seeds is overwritten by the environment's (`seed.ts` 38-45) |
| `KernelHost.Overlap = FALSE` | two asks of one batch that write one row: the later read-modify-write drops the other's fields (`host.ts` 524-530) |
| `ChromeRows.Context` of one | each context has its own queue, so two of them overwrite each other's change (`credentials.ts` 24, 60-66) |

Some properties stand in their modules and are no run's, because the code does not
keep them. TLC finds each violated, on one or two of everything, and what the runs
and theorems say instead has the condition under which the code does keep it:

| property | says who | what the code does |
|---|---|---|
| `BrowserHost.NoViewStalls` | `browser-store-transport.ts` 213-214: "a slow service never stalls a view's request" | a request that ran inside a turn which did not await it calls a service, and takes the slot again for a turn that is over: nobody releases it (217-239) |
| `PageWatch.OnePageFailsAlone` | `host-browser-tab-port.test.ts:184`: a watch "attaches to the matching open tabs now" | a page that answers with an error ends the loop over the tabs, `watches` keeps the id, and a retry returns at once (`tabs/port.ts` 38, 109-115) |
| `ServerReads.RosterOfTheApp` | `OrbitalServerRuntime.ts` 1571-1572: the roster of the registered app | in mid-swap the identity entity is the last app's and its rows are the next one's (1602-1607, 717) |
| `Secrets.RotatedDurably` | `http-exchange.ts:60`: rotated "durably" | a rotation of the master key that listed the row before writes its old value back (`store.ts` 331-373) |
| `CredentialScope.HeldIsKept` | `seed.ts` 28-29: "a held row is never overwritten" | what is held is asked of the warmed cache; over a store that was not warmed every declared name is written (`seed.ts` 39, `store.ts` 261-264, 295-305) |

Two more are violated, and nothing in the repository claims them:
`Loader.LocalFromDisk` (only the first `load` waits for the filesystem loader, the
ones beside it fall back to HTTP: `unified-loader.ts` 157-163) and
`CredentialStore.CacheAgreesWithRows` (two changes of one name may settle the cache
in the other order than the rows). A ticket that fails leaves a push channel that
never reopens; `PushChannel` has the case (`TicketsFail`) and `ChannelSettles`
excepts it.

## The core modules

### EventQueue

`eventQueue` is a promise to which every `acquireEventQueue` appends a link
(`previous.then(() => held)`). The model numbers the links: `issued` is the length
of the chain, `released` the links whose `release()` was called, and a ticket is
`Served` when every earlier link was released. A dispatch keeps `EventQueueHold`
as `held` and `mine`, and the ticket it waits for as `want`.

A dispatch arrives (`Arrive`, or `ArriveFrom` an ask whose provider waits for it),
is started (`Start`), and then the kernel asks for batches until it is done
(`Ask`, `Resume`, `Finish`). The kernel is external: a batch is any member of
`Batches`, and it may stop asking at any time. Asks differ only in what they do to
the queue: `row` is answered by the host; `os` too, but its port is supplied by the
host program and awaited without a catch, so it may reject (`Reject`: the flight is
abandoned and the dispatch fails); `call` stands for `call-service`, http, beacons,
the on-device model and tabs, which run `outsideEventQueue`; `agent` is an agent
port operator, which may dispatch but runs inside the queue.

The passing run `event_queue` takes three dispatches and batches of two asks of
which one is a `call` or an `os` and the other a row or nothing. Three are needed
for a nested dispatch with a bystander that overtakes the re-acquisition; a second
round of asks starts from the same queue states as the first (the run also passes
with two dispatches and two rounds). Batches outside this set are possible as far as the host's
code goes (it answers any batch with `Promise.all`), but nothing in this repository
shows the kernel sending one. What the host would do:

* two calls in one batch share a hold. The first gives it back; when it settles it
  takes the queue again while the second is still out, so a dispatch made by the
  second's provider waits for its own caller;
* a call beside an ask that rejects: the dispatch fails and its `finally` finds
  the hold given back, so it releases nothing; when the call settles,
  `outsideEventQueue` takes the queue again for a dispatch that has ended and no
  one gives it back. The comment on the queue (1954-1956) says that it never
  wedges on a failure.

Mutual exclusion and the FIFO refinement are proved for all batches, these
included.

### Registration

`registrationEpoch` is again a chain: `issued` links, and `gates` for those whose
own promise has resolved. A swap is `withRegistrationMutation` around
unregisterAll, resolving and register (`Publish`, `BeginSwap`, `RegisterInSwap`,
one `RegisterOrbital` per orbital, `OpenKernel`); it may fail at any of its awaits
(`Fail`). A nested bracket adds a link whose gate is open at once. Nothing obliges a
host to bracket: a plain `register()` (`Register`) is made at any moment and either
chains or, while anybody's bracket is open, runs at once on no link; a bare
`unregisterAll` (`UnregisterBare`) clears at any moment and stamps a marker on the
chain unless a bracket is open. A dispatch looks its orbital up (`Arrive`), awaits the epoch when it misses, looks again
(`LookAgain`) and evaluates on whatever kernel is open (`Evaluate`); the event
queue in between is `EventQueue`'s concern. `Turn` also states the order of promise
reactions: dispatches that await a link look again before the next mutation's first
change, because a mutation awaits at least one promise more.

`RegistryIsOneApp` ties the two halves of the state together: orbitals of two apps
are never registered at once, and an open kernel implies that its whole app is. Calls
outside a bracket do mix apps, which `registration-mutation-bracket.test.ts:174-193`
pins. The history variable `loose` says exactly when: a bare clear inside somebody's
mutation, a plain `register()` that starts on top of something registered, and one
beside an open bracket (which sees `registrationMutationDepth > 0` and runs
unserialized, although the comment at 662-664 takes for granted that it comes from the
bracket's callback). Until the first of these the property holds, and so does
`WaiterFindsWholeApp`; `MutationsSerialize` is about the chain and holds always, the
plain registers of the chain included; so does `NoMissDuringMutation`.

"Not found" is not final: a dispatch awaits the chain as it was when it missed. A swap
that joins behind it and has not begun when the dispatch looks again is not awaited,
and the dispatch is refused an orbital that swap registers. The test of the race
promises more: "it 404s only when no mutation could produce the orbital"
(`registration-swap-race.test.ts` 26-29). `NoMissDuringMutation` says what the code
does keep: nobody is refused between the first and the last change of a mutation of
the chain.

The run uses two apps that share an orbital name, a plain and a nested swap, a plain
register, a chain that bare clears lengthen up to three links, and one dispatch
(dispatches do not change what others see, so one suffices). What a call knew of its
app is forgotten when it ends, and a swap knows it from its `register()` on, which
keeps the run small enough for its temporal property.

Left out are the engine's own failures: `openKernel` disposes the old engine before the
new one opens, and `unregisterAll` disposes it under a dispatch that may be awaiting
an ask.

### TickScheduler

One action per method, and a pass in steps: `BeginPass`, a `Visit` per registered
tick in insertion order, `Return` of the callback, `EndPass`. Between `Visit` and
`Return` the callback is on the stack, and the methods of the interface may run
(`MayCall`, limited per run by `Animated` for frames and `Timed` for timers). `pending` are the frames or timers the
host will call, apart from `handle`, the one the scheduler remembers; this is what
makes a forgotten frame visible. Time is in abstract units; `lag` is the time since
a tick's last timestamp and is bounded by `MaxLag`, so a pass may be late by more
than an interval. `credit` is a history variable: unpaused time minus intervals
fired for. Cron ticks match a set of calendar minutes; a pass moves the calendar
only between passes.

The passing run lets callbacks add and stop ticks, but excludes the two calls the
violation runs are about: stopping the last tick from a callback on a frame, and
pausing from a callback. The bounds (two ticks, intervals of two and three, lags up
to three, three minutes) allow a skipped beat, a phase remainder, a pass later than
the longest interval, and a callback that changes the tick that comes after it.

A smaller disagreement has no run: the comment at `TickScheduler.ts:106` says a cron
tick is checked "on the first pass", but the first pass only stores the timestamp
(219-222), so the check is made on the second.

### BrowserHost

`foreground`, `background` and `running` are the variables of the same names; a turn
is identified by the dispatch it was made for. A turn is granted (`Grant`, the loop
of `pump`), evaluates, and may ask; an ask that leaves the host gives the slot back
(`Ask`) and queues the turn again in its own lane when it settles (`Settle`).
`lent` is `lentBy`: the turn that was running when the ports were made.
`ThroughPorts` decides, as `dispatchInput` does, between running inside that turn
(`RunInside`) and queueing in the background. Three kinds of requests come through
ports. A provider whose ask waits for it dispatches back (`DispatchBack`). A provider
that nothing awaits does too (`DispatchLate`): the one of a follow-on call, which
starts and is not awaited (`kernel/host.ts` 147-151, 164-199), one that was cancelled
or has settled and keeps the ports, or one that dispatches twice at once. And a watched
tab element reports (`Report`): `kernel/host.ts` makes its ports at that moment. The
last two come between kernel steps (`BetweenSteps`), at any moment and in any turn.

A request that runs inside a turn which does not await it runs beside that turn's own:
two requests at once (`browser_host_report`). Worse, when it calls a service it gives the
turn's slot back and takes it again, for a turn that may have ended meanwhile: nobody
releases it, and the host stops (`NoViewStalls`, which no run has). `Contained` says that this has
not happened: all requests that ran inside a turn were awaited by it.
`OneWhileContained`, `NoDispatchWaitsOnItsCaller` and `EveryRequestAnswered` hold until
then, with late dispatches and reports that queued; `TicksDoNotPileUp` and `PersonFirst`
hold always. Since the host may stop, the run does not check deadlock.

A batch with two asks that leave the host has the same consequences as on the
server and is left out for the same reason.

## The other modules

**Around the server's queue (`MCServer`).**
`EventBus`: an emit is a frame on a stack, and listeners call the bus from inside
it; a listener set is an object, so an old handle keeps the set it was made for.
Two listeners, emits nested twice, three calls. Its identities: emits stamped with ids
and names, listeners that hold either, renames that free a name and give it to
another node. `Residence` and `TraitFacts`: the facts of a trait's effects, and
what a batch does with them, leg after leg; `TraitFacts` runs every effect of
depth two and compares. `ServerBridge`: several forwards at once, disconnects in
between. `ProgramRegistration`: the viewer is named at any await of a registration that
resolves, seeds and opens the kernel. `PageWatch`: pages load, report and go while
the worker attaches its watch tab by tab, and may restart. A page that cannot watch
answers with its error, and what it had done by then stays done; the error ends the loop
over the tabs, and the watch counts as placed (`gaveUp`). The pages that run follow the
watch as long as no page ended the loop, but for those that could not when they were
told to; the others go without (`OnePageFailsAlone` would deny it). `ServerRouter`: two
apps, a tick of the same name in both, one whose cron does not parse, streams that
are open while their app is swapped. `ServerReads`: the registry, the resolved
schema, the kernel and the rows change at four moments of a swap, and a read looks
at two or three of them. A description, rows and a page are each of one app. The resolved
schema is replaced last, one step after the kernel, so two things may still be the last
app's: the owner a reference is looked up by, and the identity entity of the roster,
whose rows are then the next app's (`RosterOfTheApp` would deny it). A roster is of one app when no swap
is under way and the last one came to its end, and that is what `AnswersOfOneApp` says
of it. "Not found" is only said when no swap is under way. `KernelHost`: a reset tells the next kernel what the last one
knew; a flight goes on with the kernel it began on. Its rows: the three adapter
calls of a write. `HttpTransport`: posts that overtake each other. The files of
`ProgramRegistration`: program, catalogs and lazy pages are read while a resolver
writes.

**What is kept, read and let through (`MCStores`).**
`CredentialStore`: every await of set, remove, warm and rotate is a step; the host
may crash between two rows. `CredentialScope`: works of two tenants and of the host
itself, interleaved at their awaits; a host that uses its store alone seeds it from
its environment at every boot, which may break off after any row. A boot may come before
the store was warmed, when it resolves nothing of what it holds: it then writes the
environment's values over held rows (`HeldIsKept` would deny it); a boot that warmed first never
does (`boot.knew` in `SeedsWhatIsLacking`). `OAuthPort`:
authorize, keep the grant, ask for consent; callbacks come at any instance, with
and without an adapter whose delete is conditional; the mock tokens: operations in any
order. `Secrets`: one secret over the rows and the cache of the store that keeps it. Its
own operations are those of `http-exchange.ts`; beside them run the store's `warm()`,
which clears the cache at once and fills it across awaits, and its `rotate()` of the
master key, which writes back the values it listed. A rotation of the secret in between
is lost (`RotatedDurably` would deny it), and two calls of the store that overlap can leave a second
row for one name. `RotationIsSeen` is therefore stated while calls of the store did not
overlap and no warming broke off (`orderly`); a value found is then no older than the
last rotation that was over when the read began, and while the cache is being filled
nothing is found. `ChromeRows`: read-modify-write over awaits, the worker
stopped at any of them. `OsNodeFs`: paths through links, grants checked as written
and as resolved, operations over several entries, second names, globs. `os/mktemp` asks for
its base alone, not for the name it makes (`os-node-fs.ts` 745-763):
`EntriesChangeAsGranted` says of a temporary file that it is new and that the directory
it is made in, as resolved, was granted. An operation on the tree
is one step; the transfers of a descriptor go chunk by chunk. `OsNet`: names resolved after the grant,
several receivers of one inbox. `ImportPaths`: every specifier of three names at
most, against a reference resolution. The check that a file lies below the base compares
texts (`external-loader.ts:608`), so a sibling whose name begins with the base's is let
through (`Alike`; the run has one). `OnDevice`: a base session shared by prompts
that fail, time out or are cancelled. `Cron`: the expansion loop of a field against
the minutes that fire. `BehaviorGraph`: every import graph on three names.

**Where somebody waits (`MCCalls`).**
`PushChannel`: frames dropped, replayed and duplicated, a server that restarts and
numbers afresh. `ChannelTransport`: answers late, out of order, after unregister,
or before the host serves. `ServerSession`: mounts, swaps and relays. `InFlightCalls`:
calls that share a key, cancels at any moment, providers that never answer.
`HttpExchange`: the caller's cancel and the request's timeout at every await, and
inside the callback that takes an event. `ProgramHost`: runs of `orb` that fail in
each way the code tells apart, a kernel program that crashes. `OsHost`: reads of a
child's output and exit, deferred, held back and cancelled. `Loader`: two caches
under a third, edits and clears while loads are under way, a server that never
answers.

In each, what is outside the repository (the compiled kernel, adapters, servers,
`orb`, Node, Chrome) does anything its interface allows; what stands for it is
marked external in the map.

## Runs

| run | shows |
|---|---|
| `event_queue` | one evaluation at a time, no provider's dispatch waits on its caller, no hold outlives its dispatch, FIFO, all dispatches answered |
| `registration` | mutations of the chain serialize, one app in the registry and waiters find it whole until unbracketed calls mix, no miss during a mutation, no failed swap, nested bracket or unbracketed call wedges the chain |
| `ticks` | one loop exactly while needed, no backlog, never ahead of the clock, pause silences, every tick fires |
| `browser_host` | person first, ticks do not pile up; while turns await what runs inside them: one request at a time, all answered, no provider waits for its caller's slot |
| `server` | listeners and elements told once, events where they belong, rows kept, turns and answers whole, lazy pages that work |
| `stores` | rotations seen, things given once and to their own, nothing lost between awaits, what is written is found, nothing but what was granted |
| `calls` | bytes and frames in order, cancels that stick, nothing left behind, no late answer, every wait ends |
| `event_queue_agent` | violated: an agent port's `program/dispatch` waits for its own caller |
| `registration_mid_swap` | violated: a dispatch in the middle of a swap does not wait for it and meets no kernel |
| `ticks_loops` | violated: two loops after a callback stopped the last tick and one was added |
| `ticks_pause` | violated: a tick fires after `pause()` in the same pass |
| `browser_host_report` | violated: a watch report runs beside an unrelated request |

Every property of a passing run has a mutant in `PROJECT.json`: a plausible slip in
one definition that the run then catches. The type invariants of `Registration`,
`TickScheduler` and `BrowserHost` stand in their modules; they hold in the runs'
instances and are not among the runs' properties.

**Bounds.** They stand in the cfg files and in the `WITH` clauses of the composing
modules, and are the smallest at which the cases above happen: two of what may
race (clients, callbacks, tenants, forwards, loads), three where a bystander is
needed (dispatches of the queue, prompts that share a base, operations on a
secret), one link more than the swaps of `Registration` need, for the marker of a bare
clear, one crash or restart where a second one repeats the first from a state the
first could have left, two swaps where the second finds what the first left.
`LongestInterval` of `TickScheduler` bounds its accumulators and the history variable
`credit`, which is capped where more of it changes nothing.
Behaviours of the composing modules end when a part has used its bounds, so
`CHECK_DEADLOCK FALSE` stands in their cfgs; that nobody waits for ever is what
`EveryWaitEnds` says. The runs of a single part of them end likewise, and those of the
browser host may stop, as said above. The other runs check deadlock: behaviours that end do so in
an explicit `AllDone` stutter, enabled only when everything was answered, and a
tick clock never stops. In `CredentialScope` the works' tenants are taken up to
renaming.

**Fairness.** Weak fairness for what the JavaScript engine does by itself: a promise
whose predecessor settled continues, a scheduled frame or timer calls back, a
callback returns. In the queue modules, providers, seeding and the kernel are
assumed to settle; without that no queue drains. In `MCCalls` fairness is per part
and smaller: a message in a channel arrives and the host's transport answers
(`channel`); a frame is delivered and a channel opens (`push`); the relay's timer
fires (`session`); a call's work settles once it is aborted or its provider
answered, but providers need not answer (`flights`); the exchange goes on where it
does not wait for the network, and its timer fires (`http`); `orb` and the kernel
program end (`program`); the child's bytes and end come through the pipe, and the
asks' continuations run (`os`); the disk answers, a server need not, but its timer
fires (`loader`). Arrivals, swaps, cancels and failures are never fair: nothing
forces a client or an error. `Elapse` of the tick clock is strongly fair, since
passes disable it again and again while the wall clock does move between them.

## Proofs

`EventQueueProofs` proves for every set of dispatches, slots, batches and every
bound (assumption `QueueAssumption` only): `TypeCorrect`, `MutualExclusion`
(`Spec => []EvaluationExclusive`) and `ImplementsFifoLock` (`Spec => Lock!Spec`).

`EvaluationExclusive` is not inductive: it says nothing about who may become the next
holder. The strengthening `IInv` adds
* `Tickets`: a ticket that is waited for or held is unreleased and belongs to one
  dispatch; a holder's ticket has only released ones before it. Since a new holder's
  predecessors are all released, it cannot coexist with another holder;
* `Control`: between two kernel steps at most one ask of a dispatch gave the hold
  away, the hold is absent while that ask is out, and an evaluating dispatch holds.

`StepOnQueue` reduces every action to drawing a ticket, taking the hold, releasing it,
or leaving the queue alone; `TicketsStep` and the refinement reuse it. The
refinement maps the ticket set `{want[d]}` to `waiting` and `{mine[d] : held[d]}` to
`holder`.

`RegistrationProofs` proves, from `RegistrationAssumption` only, `Serialized`
(`MutationsSerialize`), `OneAppRegistered` (`RegistryIsOneApp`), `NoMiss`
(`NoMissDuringMutation`) and `WaiterFinds` (`WaiterFindsWholeApp`). None of these is
inductive alone. `IInv` adds
* `Chosen`: a mutation that registers knows its app, a plain register from its call on;
* `Chain`: a mutation that is not over owns a link of its own whose gate is closed,
  unless it is a plain register that began beside an open bracket; one of the chain that
  changes the registry has every earlier gate open, so of two such mutations one would
  have the other's closed gate among its open ones;
* `Progress`: while `loose` is false, a mutation under way is of the chain, and what it
  finds in the registry at each of its steps is nothing before it begins to register,
  then only its own app's orbitals, those before `next`, and no kernel;
* `OneApp`: besides `RegistryIsOneApp`, an open kernel leaves no room for orbitals of
  another app (needed when an app has no orbitals);
* `Waiting`: a dispatch awaits the link of the mutation under way or a later one,
  which is why none is under way when it looks again. This is where `Turn`, the order
  of promise reactions, is used.
Type correctness of `depth`, which counts the open brackets, is only checked.

`NoHoldOutlives` (`NoHoldOutlivesItsDispatch`) and `ProvidersDoNotWaitOnCallers`
(`NoDispatchWaitsOnItsCaller`) depend on what the kernel puts into one batch, so each
has the condition its argument needs, which `SingleCallBatches` of the run meets
(`SingleCallBatchesMeetBoth`). `NoRejectBesideCall`: with no call away when an ask
rejects, a dispatch that fails leaves nobody behind who takes the queue again
(`Leaves`). `LoneCalls`: the caller of a dispatch is away, has given its hold back and
has nobody else to take it (`ChildrenOfTheAway`). What the host does with other batches
is described above; with an agent port the property is violated
(`event_queue_agent`).

`TickSchedulerProofs` proves for every set of ticks, intervals and lags
(`TickAssumption` only) `TypeCorrect`, `FiresNoMoreThanItsTime` (`NeverAhead`) and
`NothingPilesUp` (`NoBacklog`). Neither is inductive: a firing pays for an interval, so
one must know that the interval was earned. `Credited` says that what an accumulator
holds and the lag that will be added to it are covered by the credit, except for a lag
that grew in a pause, which `resume` discards before a pass sees it; `Accumulated`, that
less than an interval is left over unless the tick's callback is running. The lemmas on
`%` are where `TickScheduler.ts:212` keeps the phase. `NeverTwoLoops` (`OneLoop`)
and `LoopLivesForTicks` (`LoopServesTicks`) follow from `LoopInv`, which places the next
pass (scheduled under the remembered handle, or under way) and is inductive under
`LoopIsLeftRunning`: a callback on an animation frame neither stops the last tick nor
pauses. `NothingFiresInAPause` (`PauseSilences`) asks that no callback pauses
(`PausedFromOutside`). The runs `ticks_loops` and `ticks_pause` violate the properties
without these conditions; they are constants of the callers, and the ones of the passing
run.

`BrowserHostProofs` proves, for reports and late dispatches at any moment, `TypeCorrect`,
`OneFiringAtATime` (`TicksDoNotPileUp`; `Firings` ties the flag of a tick to the one
firing that is not done) and `ViewsGoFirst` (`PersonFirst`). `OneOnTheKernel`
(`OneWhileContained`) and `ProvidersAreNotWaitedFor` (`NoDispatchWaitsOnItsCaller`) follow
from `SlotInvariant` (`Spec => [](Contained => Slot)`). `Slot`: a turn is a stack of
dispatches, each awaited by the provider of the one below it, of which only the top one
can move; the slot is the turn's when that one evaluates or asks; a turn is in a lane once
at most and only while it waits. A step keeps `Slot` as long as `Contained` holds after
it, and what is not contained never becomes so again (`ContainedBefore`), so no other
condition is needed. `browser_host_report` shows what becomes of the slot otherwise.

`OAuthPortProofs`: `TakenOnce` (`GrantTakenOnce`), `SentForAKeptGrant`
(`KeptBeforeConsent`), `LifeIsTold` (`ExpiryIsTold`) for any instances, callbacks, times
and restarts, and `OneLiveToken` (`OneTokenPerGrant`) for any tokens. `GrantTakenOnce`
counts answers; the strengthening `OneHolder` adds the callbacks whose delete landed,
and that whoever holds the grant left it in no row and no memory. `Places` says that a
grant is in the row or in its instance's memory but never in both, `Unheard` that nobody
asks for it before it is kept.

`MCCallsProofs` proves the safety properties of the composed run: `CancelsStick`
(`CancelSticks`), `NoneIsLate` (`NoLateAnswer`), `PiecesInOrder` (`InOrder`) and
`NothingIsLeft` (`NothingLeftBehind`), for all sizes of the parts (constants of
`MCCalls`, with their values in its cfg). A behaviour of `MCCalls` is to each part a
behaviour of that part or a rest, and each part has its invariant there:
* `ChannelInv`: the ids drawn are those below the counter and a pending request has no
  outcome yet; what the channels hold needs no invariant, since an answer settles only
  what is pending. `AnswersOnce` (`Spec => Channel!AnswersItsOwn`) is the refinement: the
  channel transport implements `RequestReply` under the mapping of `outcome` in which a
  forgotten request is one still waiting (`ChannelImplements`, one lemma per step);
* `FlightInv` (`FlightInvariant`): a key may have let go of several sets of controllers
  while calls still run in them; no set serves two keys (`FlightKeys`), the set of a
  running call that was not cancelled is the one its key finds (`FlightReachable`).
  `CancelReaches` and `CancelledIsTold` are the two properties of the part, `FlightTypes`
  its types;
* `HttpInv`: in which awaits a body is locked and a timeout runs, and that an exchange
  that ended left no driver behind;
* `PushInv`: only the channel in the registry is in use; what is on the way to it are the
  last frames of the boot, with none missing between them and the last one applied
  (`LatestFrames`), and whoever subscribes and heard anything heard that one
  (`AllHearTheLast`), so the next frame applied follows on what each subscriber has;
* `OsInv`: the reads that wait are the last that were asked, in that order
  (`ReadsInTurn`); as long as the port is open what the child wrote can be cut so that
  the i-th read has the i-th piece, and what is held and in the pipe follows the last
  (`Cuts`); whoever was answered with the exit took the process out of the table, which
  nobody puts back (`OneReaper`);
* `KernelKnowsMounts` of the server's clients is inductive as it stands;
* `ProgramInv`: requests, and the files a mount has admitted, are versions that passed the
  check (`ProgramChecked`), and a saved version that is not in the last commit of its
  workspace has a snapshot of its own to come (`ProgramSnapshots`); it uses that the
  project is no workspace (`ProjectAssumption`);
* `LoadInv`: no cache, and no lowered tree, holds a version older than the edits before
  the last clear (`CachesFresh`), and neither does what a load has in its hands
  (`LoadSound`).

`MCServerProofs` proves the safety properties of the other composed run for all
sizes of its parts (`ServerAssumption` on constants that `MCServer.cfg` gives values):
`EveryoneToldOnce` (`EveryoneIsToldOnce`), `EventsArrive` (`ArrivesWhereItBelongs`),
`RowsKept` (`RowsAreKept`), `TurnsWhole` (`TurnsAreWhole`) and `LazyPagesAlwaysWork`
(`LazyPagesWork`), and with these `TypesAreKept` (`TypeOK`). `OnePartRuns` says that a step of `MCServer` is a step of one part
while the others rest; `PartsAreKept` (`Spec => []ServerInv`) puts these together:
* `BusInv`: whoever an emit still owes a call waits for it in the copy the emit works
  through, in the set it copies next, or under the wildcard (`FramesInv`), and a
  subscription nobody ended is in the set its key holds (`SetsInv`, which is where
  `StaleHandles = FALSE` is used). When nothing is left to copy, nobody is owed;
* `RouteInv`: what a listener holds of ids is of the trait it was bound to, through
  any renames;
* `LegInv`: no trait is in two legs, each leg goes where its traits' data is, and a seed
  has run or is in a leg that is left;
* `BridgeInv`: an event has one forward at most, and what that forward sent and has left
  are all it is for, each once;
* `PersonaInv`: rows carry the owner the store stamps, and that is the viewer unless a
  naming still waits for the schema;
* `WatchInv` and `ReportInv`: while the watch is placed and no page ended its loop, a page
  that runs was reached by the loop over the tabs and is watched or could not, will be
  reached, or its hello is on its way; a page reports an element that its executor's
  memory did not have, whether its report comes to its end or breaks off;
* `RouterInv`: the handles that run are those the runtime can stop and are of one
  registration (`TickInv`); the frames of a stream are the one stretch of the bus that
  is of its request and end as its turn did, and a request is in one place of the queue
  (`StreamInv`);
* `RegistryInv`, `ReaderInv`: an open kernel has the whole of its app and nothing else is
  registered then, and once a swap came to its end the resolved schema is its app's and
  every row of the store too; what a read saw of the store is of the kernel it asked, as
  long as that kernel is open;
* `KernelInv`: what an engine remembers its kernel knows, and a dispatch runs on a kernel
  that was opened; `RowInv`: one ask is busy at a time (`Overlap = FALSE`) and what it saw
  of its row is so still;
* `HttpInv`: an event on its way is for the app it was meant for, or for none;
* `FileInv`: what was read of the lazy pages so far fits the version of the program that
  was read.
`TypesInv` adds the types of the parts to it, one lemma per part (`BusTypes` to
`ReadTypes`). They need the invariants: the frames of an emit and of a stream have their
types because of what `BusInv` and `StreamInv` say of the steps that make them.

`MCStoresProofs` proves four properties of `MCStores` for all sizes of its
parts (`StoresAssumption` on constants that `MCStores.cfg` gives values):
`RotationsAreSeen` (`RotationIsSeen`), `EachHasItsOwn` (`EachItsOwn`),
`AwaitsLoseNothing` (`NothingLostBetweenAwaits`) and the action property `AllAsGranted`
(`OnlyAsGranted`). `PartsStep` says that a step of `MCStores` is a step of each part or
leaves it, `StoresKept` (`Spec => []StoresInv`) puts the parts' invariants together:
* `CredInv`: of a rotation under way, each stored row is under the current key, or still
  in the list as it stands, or was counted as unreadable (`RotationInv`); once it is over
  with none counted, all rows are. It is kept since whatever is done to a row leaves it,
  takes it away or seals it under the current key (`CredRowsGo`), which is also why no
  readable row is sealed away (`CredReadable`); the first of a list exists by `MinNat`;
* `SecretInv`: types always, and `SecretSound` while `orderly` holds: what memory has
  minted, what the cache knows and what the rows hold is no older than the last rotation
  that was told to be over (`SecretValues`); one call is in the store at a time, and with
  none in it the cache knows the one row there is (`SecretPhases`), so a call begins on a
  cache that agrees with the rows, a rotation of the master key writes back what the rows
  still hold, and a warming ends with what it listed. It uses `MintsMeanwhile = FALSE`;
* `ScopeInv`: a tenant's store holds what that tenant wrote, nobody runs while the host
  copies its environment, a name that is no longer left to copy is held, and where the
  store was warmed before the boot a name that is left is one that it lacks;
* `ChromeInv`: a change that read rows has no change before it left in the queue
  (`OrderInv`), so the rows and the key it read are still those of the profile;
* `TreeInv`: every path holds an entry. What matters is a fact of the resolution, not of
  the tree: the walk over components and links never stands on a link that is to be
  followed, by induction over its steps (`EndsAtNoLink`; that there is a walk of every
  length is `WalkExists`). So a write replaces a file or makes one, never a link that was
  not granted. Each operation has its lemma (`TreeWrite` to `TreeRename`, `TreeLink` and `TreeMktemp` among them), `TreeGoes`;
* `FileInv`: a descriptor has one transfer at a time (`Shared = FALSE`), and stands
  where that transfer began plus what it did;
* `NetInv`: whoever tries addresses was granted the name, and the addresses are public or
  the name is one itself; `NetTold`: who is told that nothing came found nothing;
* `DeviceInv`: a base that is not ready is awaited by those who will be told of it.
The parts about OAuth are `OAuthPortProofs`' theorems: a behaviour of `MCStores` is one of
its specifications (`GrantRuns`, `MockRuns`).

The other theorems are about the components' own specifications. Assumptions on constants are
those named in the modules, the finiteness of a set that is counted (`Call`,
`Callback`), and that bounds are natural numbers. Where a proof needs a first position of
a sequence, or a first step, `MinNat` takes it from the well-foundedness of the naturals.

Only model-checked:
* liveness (`EveryDispatchAnswered`, `NothingWedges`, `EveryTickFires`,
  `EveryRequestAnswered`, `EveryWaitEnds`), which TLAPS cannot prove under fairness;
* `FoundAsWritten` of `MCStores`: globs of `OsNodeFs`, `TraitFacts`, `ImportPaths`, `Cron`
  and `BehaviorGraph` compute over data and are compared with reference definitions over
  bounded inputs; what they compute for every input is an induction over the data;
* `TypeOK` of `MCStores` and of `MCCalls`, of which the invariants above contain what
  their steps need;
* `ChannelTransport.TypeOK`: what a `SelectSeq` with a predicate leaves of a channel is
  an induction over the sequence.

## Not modelled

* What a dispatch does inside the kernel (trait transitions, rows, renders) and the
  client's side of it (`evaluation/client-kernel.ts`, `circuit-store.ts`,
  `traits/state-book.ts`): the driver that calls these is outside the repository,
  and without it their order of calls would be invented.
* Two asks that leave the host in one batch, on the server and in the browser:
  described above.
* In `Secrets`: a write of the same name through the credential admin port, rows that are
  not sealed as expected or that no key reads, and the order in which an adapter lists two
  rows of one name (the older first). A store that was never warmed is `CredentialScope`'s
  and `CredentialStore`'s.
* `kernel/wire.ts`, `kernel/decode.ts`, `kernel/load-node.ts`: shapes of words.
  The models use asks and answers as decoded.
* `entities/loader/schema-loader.ts`, `almadar-studio-config.ts`: guards of types and
  a search for configuration.
* `ui/*`, `effects/composition/*`, `traits/PayloadValidator.ts`,
  `traits/OrbitalTraitParsing.ts`, `traits/config-defaults.ts`: derivations of one
  value from another, without state or order.
* `kernel/os-node-sys.ts`, terminals and the launch options of a child: single calls
  of Node. What happens to the file tree between the check of an operation and its
  call is not modelled either.
* Ciphers, PKCE, tokens and signatures: a sealed row is its key, a token its name.
* Sign-in and page commands of the chrome host, the registry's listings and what
  `orb` prints: I/O of one call.
