# A TLA+ model of Hugo's development server, rebuilds and caches

The repository is a personal site (`content/`, `layouts/`, `static/`) together
with the generator that builds it, Hugo, under `tools/hugo/`. The site holds no
program state; everything here is about Hugo, and paths below are relative to
`src/tools/hugo/`.

The project models the parts of Hugo that keep state while `hugo server` runs, and
those that run concurrently: how a changed file reaches the server, what a rebuild
does about it, what it remembers between rebuilds, and what templates call while
they render. Pure text and data conversions (templates, Markdown, parsers,
minifiers, images) are outside it.

## Inventory

| Component | State | Operations | Who it talks to | What is hard | What makes it correct |
|---|---|---|---|---|---|
| Development server control (`commands/hugobuilder.go`, `server.go`, `commandeer.go`) | `conf`, `configVersionID`, the one-entry cache of HugoSites, `fullRebuildSem`, the build lock, `errState`, the debounce timer | event loop, `fullRebuild`, `rebuildSites`, `reloadConfig`, `buildSites`, `partialReRender` | watcher (events), builds (calls, signals back), browser (requests, live reload) | the loop holds the build lock while it waits for other things; the version and the configuration change in two steps; four goroutines write `errState` | one build at a time, one full rebuild at a time, never on a superseded HugoSites; the last edit gets served; errors are shown |
| Dynamic cache (`cache/dynacache`, `bep/lazycache`, `simplelru`) | entries with a wrapper that is pending or completed, recency, size, stale marks | `GetOrCreate`, `GetOrCreateWitTimeout`, `Get`, `ClearOnRebuild`, `ClearMatching`, resize by memory | pages, resources and templates (create functions, which nest), rebuilds (sweeps) | entries visible before their value; callbacks under the lock; timeouts that leave a goroutine | one creation per key, nobody waits in vain, nothing is lost unnoticed, stale values are dropped |
| Lazy initialisation (`lazy`) | per Init: lock word, mutex, done, value, error, children | `Do`, `Reset`, `Branch`, timeouts | templates of all pages, rebuilds | a spin wait that races `Reset`, callers that outlive their build | whoever asks in a build gets what was made in it |
| Live reload (`livereload`) | hub's set of connections, send buffers | register, unregister, broadcast, hello | event loop, browsers | a send on a channel that another goroutine closes; a full buffer | no send after close, broadcasts end |
| File cache (`cache/filecache`) | files with age, named locks, the seen set | `GetOrCreate`, `ReadOrCreate`, `WriteCloser`, `Prune` | resources, remote getters | failed creations leave files, pruning takes no lock | one creation per name; a part of a file is served only after a write that was cut short |
| WebAssembly dispatcher (`internal/warpc`) | calls in flight by ID, pipes, shutdown flag | `Execute`, the output loop, `Close` | markup and JS | answers after a shutdown | each answer reaches its call, where no two calls have one ID |
| Identity finder (`identity/finder.go`) | the answers of earlier searches, the search each goroutine is in | `Contains` | rebuilds, cache sweeps | cycles, depth limits, find-first providers, answers of cut searches that are kept | a "yes" is never made up; a "no" is right where nothing cuts a search |
| Content tree (`hugolib/content_map_page.go`, `page__meta.go`, `pages_capture.go`, `doctree`) | nodes, taxonomy entries, compiled cascades, what is due | collect, insert, assemble, aggregate, drop, render | files, the finder, templates | what a page got from above and below in earlier builds is still there; maps are shared | after a rebuild the tree and the pages are as after a restart |
| Build pipeline and deferred templates (`hugolib/hugo_sites_build.go`, `deps/deps.go`, `tpl/templates`) | render state of outputs, error collector, executions per rendering context, written files | `Build`, `process`, `assemble`, `render`, `DoDefer`, `executeDeferredTemplates`, `SendError` | everything | early returns, one error for many, lists that outlive their build | what a build without errors publishes is current and executed |
| JavaScript batcher (`internal/js/esbuild/batch.go`) | groups, scripts, options with counters, the last package | `Group`, `Script`, `SetOptions`, `Build`, change and build-end listeners | pages, deferred templates, ESBuild | a rebuild runs only some of those who set options; the last package is used again | the bundle has what the pages set, and nothing else |
| File watching (`watcher`) | two recordings of a directory, the events since the last batch, one batch ready | the poller's `watch` and `checkForChanges`, `Batcher.run` | event loop | a loop that is busy for long, changes between two polls | a change that is recorded reaches the site |
| Work groups (`common/para`, `rungroup`, `tasks`) | semaphores, task interval | `Run`, `Enqueue`, `RunEvery` | builds, caches | errors and panics in a worker | bounds hold and are given back |
| Concurrent collections (`common/collections/stack.go`, `common/types`) | stacks and queues under a mutex | push, drain, add, evict | caches, fast render | drains that race pushes | nothing is lost or doubled |
| Pages from data, deployment | sets of paths, configuration | | | | not modelled |
| Templates, markup, resources, publishing, parsers, modules, navigation | little or none between calls | conversions | | | not modelled |

`PROJECT.json` lists every component with its status and, under `hazards`, the
lines where each of these behaviours bites.

## Plan

All steps of the plan that led to modules are done; they were taken in the order
in which they decide what a browser gets to see:

1. `DevServer`: the server's control. It decides whether an edit is ever seen, and
   its goroutines interleave in ways no test reaches.
2. `Flight` and `LazyCache`: what a cache partition promises, and how it does it.
3. `LiveReload`: the hub, its connections, and the event loop's broadcasts under
   the build lock.
4. `Watcher`, `Finder`, `Assembler`, `Deferred`: how a change is noticed, which
   outputs it is found to reach, what the page tree makes of it, and what is
   written. `RebuildMC` puts them side by side for TLC.
5. `Warpc`, `FileCache`, `JSBatch`, `LazyInit`: what templates call while they
   render. `ServicesMC` puts them side by side.
6. Proofs: types and every invariant and action property that a run checks, and the
   refinement of `Flight`.

What could be added next: the rendering of `Deferred` driven by the answers of
`Finder` instead of by the dependencies themselves, which would join the two; the
Inits of a page and `AddWithTimeout` in `LazyInit`; several languages in
`Assembler`.

## Modules

| Module | What it is |
|---|---|
| `DevServer` | the server's goroutines and shared state, its properties |
| `DevServerMC` | symmetry for its runs |
| `DevServerProofs` | theorems about it |
| `Flight` | abstract specification of a cache partition: single-flight calls |
| `LazyCache` | a partition of the dynamic cache in detail, its properties, the mapping to `Flight` |
| `LazyCacheMC` | which keys a creation needs, symmetry |
| `LazyCachePartsMC` | two ways to use a partition, one at a time, for `CacheProgress` |
| `LazyCacheProofs` | theorems about it, the refinement among them |
| `LiveReload` | the live reload hub, its connections and those who broadcast |
| `LiveReloadMC` | names of browsers and rebuilds for its runs |
| `LiveReloadProofs` | theorems about it |
| `Watcher` | the poller of a directory, the batcher, and a loop that is busy |
| `Finder` | the dependency finder: searches of several goroutines that share answers |
| `Assembler` | rebuilds of the page tree: collecting, cascades, dates, terms, drafts, rendering |
| `Deferred` | the rendering contexts of a build, its errors, and the deferred templates |
| `Warpc` | the WebAssembly pool and `ToMath` |
| `FileCache` | the file caches and their named locks |
| `JSBatch` | the script batcher over a server session |
| `LazyInit` | `OnceMore` and `Init`, for values that each build makes anew |
| `Absent` | the constant `None` that these share |
| `WatcherMC`, `FinderMC`, `AssemblerMC`, `DeferredMC`, `WarpcMC`, `FileCacheMC`, `JSBatchMC`, `LazyInitMC` | instances of each |
| `RebuildMC`, `ServicesMC` | the instances side by side, each with its fairness |
| `FinderProofs`, `DeferredProofs`, `AssemblerProofs` | theorems about one module each |
| `RebuildProofs` | theorems about `Watcher`, and what the parts' theorems say of `RebuildMC` |
| `ServicesProofs` | theorems about `Warpc`, `FileCache`, `JSBatch` and `LazyInit`, and about `ServicesMC` |

In each module a definition whose comment says "fault" or "Mutant" is a version of
the one after it with a plausible bug. No behaviour uses it: put in the place of the
original, it makes the property that `PROJECT.json` names for it fail.

### DevServer

*Actors.* `Loop` is the goroutine of `newWatcher`; `Main` is the command itself,
whose first build runs beside the loop, because the watcher starts first;
`Rebuilders` are the goroutines `fullRebuild` starts; `Handlers` are HTTP
requests. The debounce timer is `armed` and `fired`.

*Files* are two counters: `disk` counts edits of the configuration, `src` edits
of the content. `pending` holds the kinds of events the watcher has not
delivered, so a batch is any non-empty subset of it: `config`, `gomod`, `chmod`
(of a configuration file), `static` (or ignored files), `content`, `mass` (more
than 50 files).

*HugoSites.* The cache of `commandeer.go:457` has one entry. It is keyed by the
version counter, so a HugoSites is named by the version (`slot`, `handle`), and
`sites` says from which configuration it was made and which content it has read.
A HugoSites that is made but not in `slot` is closed.

*Steps.* An action ends where another goroutine may see the difference: taking
or giving a lock, `errState`, the version counter, `c.conf`, the cache, and what
is published. So `reloadConfig` is `RebuildBump` (the counter) and `RebuildLoad`
(under `confmu`); a build reads when it starts and publishes when it is done;
the deferred `setBuildErr` of `buildSites` is a step after the lock is dropped
(`BuildReport`), but that of the loop's rebuild is part of `LoopBuildDone`, since
the loop keeps the lock. `errState`'s own mutex and `confmu` are held for one
step only and are not variables.

*Failures.* Any `NewHugoSites`, build or `onConfigLoaded` may fail, at most
`MaxFailures` times; a configuration edit may leave a file that does not load.

*Deadlock.* With two configuration edits the server can stop for good: the loop
has the build lock and waits for the semaphore (`acquire`), and the full rebuild
that has the semaphore waits for the build lock. `Deadlocked` is that state, and
`DeadlockStays` proves that nothing leads out of it. `LoopLetsGo`, `RebuildEnds` and
`RequestsAnswered` say that the lock, the semaphore and the answers come in every
behaviour that does not end there, that is, that there is no second way to get stuck.

*Published.* `published` is what a browser gets for the whole site and for the
page it has open; a partial re-render changes the second only.

*Left out*: redirects and headers, the list of recently visited pages (a request
may always re-render), the removal and re-adding of watched files, live reload
messages, and `GC`.

### LazyCache

*Wrappers* are the `valueWrapper`s in use; a wrapper nobody refers to is garbage
and its name is used again, the smallest first, so that the names are a bound on
wrappers alive at a time and not on the number of creations. `entry` is the map,
`newer` the recency order of the list as a set of pairs.

*Locking.* Almost every critical section is one action. The exception is the
eviction callback: `simplelru` calls it from inside `Add`, `Remove` and `Resize`,
and it waits for the evicted wrapper. So `mu` is a variable, held only from such
a removal to its last callback, with `victims` still to be evicted; `readers` are
sweeps that hold the read lock while they wait for values.

*Calls.* `get`, `find` (`Partition.Get`), `wait`, `create`, `undo` (the `Delete`
after a failure or a panic), `check` (the stale check), `purge` (the `Delete` of
a stale entry). `final` is the second question of `GetOrCreate`, whose answer is
not looked at. A creation may start calls of `Inner`; those are what it `need`s.
The caller of a call in `TimesOut` may stop waiting (`waits` becomes `None`) while
the call runs on.

*Outcomes* of a creation are `ok`, `err` and `panic`. Those who wait for one that
panics get the zero value, which is never stale. A failed entry is in the map until the call
that failed has deleted it (`FailuresUndone`); so a repeated call creates again,
where the comment of `GetOrCreate` says it gets the same error (`SameError`, run
`CacheErrors`).

*Left out*: the map of partitions, the statistics that choose a new size
(`Resize` takes any), the list of evicted identities, and the values.

### Flight

The promise: a call that asks for a key joins the creation that is current for
it or launches a new one, at most one creation of a key is under way, whatever is
forgotten meanwhile, and a call returns only what the creation it joined has
ended with, for the key it asked for. `LazyCache!ImplementsFlight` maps `wrap` to
`flight`, `wkey` to `subject` and `entry` to `current`. The pieces `Recycle` and
`Recycled` are the garbage collection of names.

### LiveReload

`main` is the command from the first build to `serving`; `Initialize` starts the
hub, and what the hub does needs `main = "serving"`. `sender` is what the event
loop (which holds `lock` meanwhile) and full rebuilds (which do not) are doing: the
broadcast channel is unbuffered, so a sender stays at `sending` until the hub's
`Receive`. `connections` is the hub's map; `left` are the connections its loop over
the map has still to come to, and the hub selects again when that is empty. A
connection has a buffered channel `send`, a `reader` (the HTTP handler's goroutine,
from `register` to `unregister`) and a `writer`. `closed` is the set of channels
`close(c.send)` was called on. A web socket is `online` until either side closes it.
`Stalled` browsers may stop reading without going away: `Written` has no fairness
for them. Reloads are numbered by the hub; `since` and `got` record what a page has
seen. The full rebuild semaphore is not in this module.

### Watcher

`left` is the poller's last recording of the directory; `Poll` records again,
compares and swaps, and its events wait in `outgoing` for the batcher, whose
channel is unbuffered. The batcher collects in `evs` until its ticker fires
(`Tick`), and then takes no more events until the batch has room in a channel of
one (`ready`). `handling` is the batch the loop works at, for any time; `view` is
what the site has read: here the loop reads every file that a batch names, and what
`handleEvents` may do with a batch instead is in `DevServer`. The watcher is added
before the first build (`command`).
A file is a number of changes and whether it is there.

`checkForChanges` goes over the larger of the two recordings, the earlier one if
both have as many entries: of a rename between two polls only the old name is
reported. A file made and removed between two polls is reported by nobody, though
a build may have read it. `passed` holds such files; `ChangesReachSite` speaks of
the others.

### Finder

A question is an identity that has changed and one to look in. `frame[s][m]` is
the search of goroutine `s` in manager `m`: what it has still to look at, in any
order, what it does with the identity in hand, and its best result. A search
through a manager that has been searched before is a repetition; `answers` keeps
each finished search's result for all later questions and all goroutines, and
`spotted` the find-first providers that have been found. `FindsOnlyDependents` is
about answers that reset an output. `NoFalseNegatives`, which the comment of
`FinderConfig` asks for, holds only in graphs and for questions that `PlainSearch`
describes: a search that was cut at a cycle, a depth limit or a find-first provider
keeps its "no", and so does one that starts at a find-first provider. The answer of a search more than 100 levels deep and the identities every
search answers at once are left out.

### Assembler

One site with one output format. A file holds what a property can tell: a cascade,
a parameter, a date, terms, whether it is a draft and whether it fails. `Load`
takes the files that `pagesCollector` would for the events; `ApplyAggregates` walks
the tree from above (`Walk`), with each page's cascade kept by reference (`of` says
whose map an entry is), and hands dates up; `Assemble` drops drafts and lists
terms; `Render` renders what is `due`. `retry` is the file that the last error
names, which `rebuildSites` adds to the next events. `EditFile` may come between
any two of these steps.

Three properties say by name where they stop. `PlainCascadeFromAbove`: cascades
below cascades keep old values (run `CascadeNested`), and so do sections whose key
begins with a sibling's (`/post` and `/posts`), and a section that stops cascading: a
page whose cascade has changed has no compiled one (`page__meta.go:74`, `:346`), so
that with nothing from above the hashes agree and what it once passed down stays. A
draft section whose cascade has changed is dropped and a blank one put in its place
(`content_map_page.go:1861`); the property speaks of pages that are no drafts. `EditsArriveUnlessCrowded`: of two
plain files of one directory that are saved together only one is read, and when a
file does not parse, what else was loaded in that build is not named again.
`DatesFromBelow`: a draft's date still counts in the build that drops it.

### Deferred

An output has one deferred block, in its template, its page's content or a cached
partial. `open` and `grouped` are the executions of the rendering context under way
and those of all contexts; a context's list is replaced when the context is
rendered again, and only then. `kept` are placeholders in content and partials that
later renderings reuse without calling `DoDefer`. Files on disk keep their
placeholders until `ExecuteDeferred` replaces them. `heard` says which dependency
managers know of the asset a block reads; with a shared key only the first output's
does. `errors` are the errors that were sent, `fatal` those of the fatal error handler:
either ends the rendering, but after an error that was sent the contexts that would
have followed keep their old lists, while after a fatal one alone each of them gets
an empty one (`hugo_sites_build.go:388`, `:416`).

`BlocksPublished` leaves out sessions in which a failed build has left a
placeholder (`lapsed`): no later build looks at those files. Its second half needs
`KeptForOne`: where kept content is used by two outputs the code's own assertion
fails (run `DeferredMissing`).

### Warpc

A call is one formula. It takes a number from its namespace, an instance by turn,
adds itself to that instance's table, waits for the encoder and writes, and waits
for the response, its time or the end of the pool. An instance may trap with the
request in hand; the pool may be closed at any time. What `ToMath` gets without an
error it keeps.

The numbers are counted per namespace, and the pool is shared by the sites
(`transform.go:238`, `warpc.go:48`). So two calls of two sites can be at one
instance under one number at the same time, and then one of them may be rendered as the
other, or the reader finds no call for a response and panics. `doubled` remembers the
calls to which that happened; `OwnAnswers` says that it happens to calls of two
namespaces only, and that every other call gets its own answer. The run has two
namespaces, of one call and of two, so that TLC goes through both. Of those who wait when a pool ends with an error only one sees it,
and the others keep an empty formula: that is the `Zero` of `EmptyOnlyAfterEnd`. An
instance that has trapped leaves the encoder waiting with its lock held, which no
timeout ends; `SentUnlessDead` leaves that case out, and the end of the program by the reader's panic.

### FileCache

A user asks for a file in one of four ways: `getOrCreate`, `readOrCreate`, or the
pair of metadata and content that a transformed resource is. A file is whole, a
part, expired or absent. `WriteCut` is a write that ends early: the error of the
copy is dropped (`filecache.go:245`), so the part is served later, and maybe at once:
what `GetOrCreate` returns is what was copied on the way. The metadata's writer keeps
its lock until it has the content's (`resource_cache.go:140`). When the write that is
cut is of the content of a pair, the writer is not closed and its lock is never given back
(`resources/transform.go:617`), which `LocksComeFree` calls `Unclosed`. `Crash` ends
the process; locks go and files stay. `Prune` takes no lock and runs when nobody
uses the cache.

### JSBatch

Setters are page contents and layouts; each sets options on scripts, instances and
runners of groups. `opts` is an item's `optsHolder`, with its options now and before
and the counters that `isStaleOpts` compares (the count saturates at 2, where the
code only asks whether it is 1). `Start` is the change listener and the
choice of what is rendered again; `Run` renders a setter; `Build` is the deferred
template: removal of what is not set, staleness, and a new package or the last one.

`BundleFits` needs groups that one setter alone fills (`OneSetter`: with several,
options that a setter that is not rendered again had set are lost or kept by the
order of calls) and builds that have all ended with a bundle (`lapse`), and leaves out
instances with an empty map: one that is new has as many options before as now, none,
and `isStaleOpts` (`batch.go:1394`) finds nothing stale, so the last bundle is taken
without it. A script cannot have an empty map (`batch.go:1342`). Its second
half also needs that no setter changed together with a script (`mixed`): the
listener returns at the first change that makes the bundle stale, before it has
touched what the others used.

### LazyInit

`OnceMore.Do` step by step: the swapped word (`locked`), the mutex (`mu`), the double
check, the function, the child, and the three deferred stores in their order. A
caller has a stack, because a child's `Do` runs inside its parent's. `BeginBuild`,
`Reset` and `Assembled` are the rebuild, which drops menus, taxonomies and the
previous and next pages always, and data when a data file has changed. `Lapse` is
the timeout of a page's plain content (`page__content.go:802`): the goroutine runs on
into the next build.

`AskersGetThisBuild` says that every question in a build is answered, and with what
was made in it. The exception is an Init that such a goroutine was in over its
reset, or began before the pages were assembled (`Crossed`): in the first case a
later `Do` finds itself second and waits for a first that does not come; in the
second the whole build uses what it made of the unfinished tree. Both parts of the
exception are needed: without either, TLC finds the behaviour.

### RebuildMC and ServicesMC

Each puts four modules side by side: `part` says which of them a behaviour is of,
and the other variables stay. This is a way to check them in one run, not a claim
that they interact; where components do interact, the module that uses the other
has the interaction in it (the loop's build lock in `LiveReload`, rendering contexts
and content caches in `Deferred`, deferred templates in `JSBatch`).

## Runs

All bounds are constants of the configurations. Passing runs:

| Run | Shows | Bounds |
|---|---|---|
| `ServerSafety` | type invariant, builds and full rebuilds exclude each other, full rebuilds are current | 2 rebuild goroutines, 1 request at a time; 1 configuration edit (maybe broken, maybe go.mod), 1 content or mass edit, 1 touch, 1 signal, 1 failure |
| `ServerContent` | content and mass edits are served in the end | 2 edits, either of them more than 50 files, also during the first build |
| `ServerProgress` | the loop gives the lock back, rebuilds end, requests are answered, unless `Deadlocked` | 2 edits, both of the configuration (maybe broken) or one of content or of more than 50 files; 1 failure, 1 rebuild goroutine, 1 request at a time |
| `CacheSafety` | types, creators, single creation, failures, size | 2 calls, 1 nested call with a timeout, 2 keys, sizes 1 and 2, 5 wrappers |
| `CacheProgress` | evictions, refinement of `Flight`, every call ends; one that asks for its own key by its timeout | size 1, stale marks, and one at a time: 2 calls and 1 sweep with 2 keys, one of which the second call asks for; 1 call and 1 nested, both with timeouts, with 2 keys |
| `ReloadHub` | the hub sends on open channels only and never blocks, reloads arrive in order or the page is cut off, goroutines end | 2 browsers, one of which may stall; channels of 1 message, 2 reloads by the loop and a rebuild, 2 hellos |
| `RebuildParts` | *watcher*: what a poll records reaches the site; *finder*: no "yes" is made up, and no "no" in a plain graph; *page tree*: terms, cascades, dates and published pages as after a restart, edits arrive; *deferred*: what a build without errors publishes is current | 2 files, 4 changes; 2 goroutines, every graph of `MCGraphs` over 4 managers, 2 questions; home, 2 nested sections, 2 pages, 1 term, 1 parameter, 4 edits; 3 outputs in 2 contexts, 2 blocks, one of them shared, 3 edits or failures |
| `BuildServices` | *pool*: each call gets its own answer or a reason, but for calls of two sites under one ID; nobody waits for the encoder; *file cache*: a file is torn only after a cut write, locks come free; *batcher*: the bundle fits; *lazy values*: whoever asks gets this build's value | 3 calls of 2 sites, 1 instance that may trap once; 3 users, 3 files, 1 crash; 2 pages and a layout, 3 edits or failures; 2 templates, one of which may outlive its build, 1 rebuild |

Runs in which the code does not do what the repository says, each with its
trace:

| Run | The code | The text |
|---|---|---|
| `ServerDeadlock` | the loop waits for the semaphore with the build lock that the semaphore's holder needs | the wait lasts as long as the sleep (`hugobuilder.go:610`) |
| `CacheErrors` | a failed entry is deleted, and a repeated call creates again | "repeated calls with the same key will receive the same error" (`lazycache.go:103`) |
| `CascadeNested` | a section that has a cascade keeps what it once took from above | "If this leads to a change compared to the previous value, we need to mark the page and its dependencies as changed" (`content_map_page.go:1427`) |
| `DeferredMissing` | a cached partial's placeholder is written in a context that has no execution of it | the assertion at `hugo_sites_build.go:485` |

The models show more that has no run of its own, because a premise of a property
names it or the module leaves it out on purpose:

- *Server.* A HugoSites made between the bump of the version and the swap of the
  configuration is cached under the new version with the old configuration
  (`hugobuilder.go:1129`), and a chmod of the configuration file drops the content
  edits of its batch (`:726`), although `server.go:523` promises the latest content.
  `ServerContent` therefore has no configuration edit. A
  signal from a build starts a rebuild while the server is paused (`:349`); the result
  of a build that ends late overwrites a newer build error (`:1093`); the loop may
  build a HugoSites that a full rebuild has evicted and closed
  (`commandeer.go:457`); a partial re-render may publish from one that is superseded;
  the parsed poll interval is assigned to a shadowing variable (`hugobuilder.go:295`).
- *Cache.* An eviction waits for a creation with the lock held, although
  `lazycache.go:101` says that a creation does not block others; after a stale value
  is deleted the second answer is not checked again, though it may be stale too
  (`dynacache.go:404`).
- *Live reload.* A static file that changes before the first build makes the loop wait
  for the hub, which starts after a build that waits for the loop's lock
  (`hugobuilder.go:877`; `StartupBlocked`). A reader that answers a hello on a channel
  the hub has just closed panics (`connection.go:48`; net/http recovers it), although
  `connection.go:30` calls the race protected; a reader may wait for room in a channel
  whose writer has gone until the next broadcast closes it (`Wedged`).
- *The other modules*: see their sections above.

*Why the bounds are enough.* The hazards are between two full rebuilds, or
between one rebuild and one other actor, and each failure needs one or two edits;
two rebuild goroutines are enough for one to wait for the other. `ServerProgress` has
one: a goroutine of `fullRebuild` takes the semaphore before anything else that can
be seen, those that wait for it are counted (`fired`, `armed`) or are the loop, and
`OneFullRebuild`, which is proved, says that no two run. In the cache one
key more than fits makes evictions happen, two calls make a creator and a waiter,
and with two sizes a resize evicts. A live reload channel is 256 messages long in
the code and 1 in the runs, so that a writer that stalls with one message leaves
room for one more: what matters is only whether it is full.

A rename between two polls takes two changes, and a batch behind a busy loop behind
another one a third. The finder's graphs have paths of three managers, a cycle
between two of them, a find-first provider beside the manager it stands for, and a
second question that meets the first one's answers. Cascades and dates go through
two levels of sections; what an earlier build leaves behind shows in the second,
and a failure between the two needs a third. Two contexts are enough for a list
that is older than the other, and two outputs of one context for a shared block.
One instance that serves three calls has them all in one table. A restart needs one
crash. A script's life in the batcher (set, kept, replaced, removed) takes three
edits. What a caller of `LazyInit` leaves over shows in the next build.

Symmetry is used in safety runs only, over requests, rebuild goroutines, callers
and the finder's goroutines, which differ in nothing but names.

*Deadlock* is not checked: edits and calls may stop, the server may exit when its
first build fails, and with all bounds used up a behaviour ends. That nobody is
stuck on the way is what the progress properties say.

## Fairness

`DevServer`: goroutines keep running (weak fairness of each goroutine's steps),
and a lock or semaphore that is free again and again is granted (strong fairness
of the step that takes it): Go's weighted semaphore is a queue, and the lock file's
waiters are retried by the operating system. The timer fires. Edits, signals and
requests have no fairness.

`LazyCache`: the same for calls, sweeps and eviction callbacks; `sync.RWMutex`
queues writers, so `TakesLock` is strongly fair. A create function that asks for
nothing returns, one that asks for a key does ask, and a timer that is set fires.
New calls, sweeps and resizes have no fairness.

`LiveReload`: goroutines keep running, and Go's `select` takes each of its ready
cases in time. Browsers that are not `Stalled` read what is written to them; none
needs to connect, speak or leave. A write to a socket that is gone returns an error.

`Warpc`: a call that can take a step does, an instance that is not dead answers
what it is at or ends once its pipes are closed, and the pool's run returns. No
instance has to trap, no call's time has to end before its answer, nobody has to
close the pool. `FileCache`: a user that can go on does; a mutex that is free is
taken by someone. `LazyInit`: goroutines keep running, and one that waits keeps
looking. `ServicesFairness` states the three for the part that runs.

`Watcher`, `Finder`, `Assembler`, `Deferred` and `JSBatch` have safety properties
only, and need none.

## Proofs

TLC checks the instances above; the theorems hold for every value of the
constants that satisfies the modules' assumptions. These say that the sets of actors
and kinds of values are disjoint, `None` is none of them, and the bounds natural
numbers; of `Assembler` also that the keys are finite and that every key's parents lead
to the home page (`LeadsHome`); of `JSBatch` that a script's options are not empty; of
`LazyInit` how Inits are put together (an Init that is asked has a function, or one child
with a function that nobody else can ask; what reads pages is always reset).

`DevServerProofs`. The invariant is
`IInv == FlagsOK /\ DataInv /\ LockInv /\ SemInv /\ FullRebuildOnCurrent`.
`BuildExclusion` is not inductive: it needs that the loop holds the lock in every
step of `handleEvents`, not only while it builds (`LockInv`), because its builds
do not take it. `OneFullRebuild` follows from `SemInv`: whoever runs is the
semaphore's holder. `FullRebuildOnCurrent` rests on `SemInv` alone: only a holder
of the semaphore bumps the version, so no second one can between a rebuild's
`c.hugo()` and its build, and any other goroutine's `c.hugo()` meets the entry it
finds. `DataInv` adds to the types that who builds has a HugoSites.

`LazyCacheProofs`. The invariant relates where each call is to the wrapper it
holds (`CallInv`), the lock to its holder and the victims (`LockInv`,
`VictimInv`), the map to the wrappers' own keys (`EntryInv`), unused wrappers to
nothing (`UnusedInv`), creations to their pending wrapper (`CreateInv`,
`PendingInv`), and adds `FailuresUndone` and `RemovalsNoticed`. `OneCreation` is
the delicate one: a creation of key `k` whose entry has been pushed out could meet
a second creation of `k`; it cannot, because a pending wrapper is either in the
map or a victim, and while there are victims the cache is locked, so nobody can
miss. `Implementation` shows that each step is a step of `Flight` or leaves its
variables alone; that `Launch` finds no creation of its key under way is the same
argument.

`LiveReloadProofs`. `TypeOK` is inductive: `Offer` and `AnswerHello` append only
where there is room. `HubSendsOnOpen` needs two more facts (`HubInv`): the hub's loop
only has connections that are in the map, and a connection that has not been
registered has not been closed, so that registering cannot bring back a closed
channel.

`NothingSkipped` is proved with `SkipInv`: what a page has got since it came is
consecutive, and while its writer works, what is in its writer's hand and in its
channel goes on from there without a gap, up to the last reload it was offered if
the hub still counts it as connected.

`SizeBound` of `LazyCache` needs that `newer` orders the cached keys totally
(`SizeInv`): different keys then have different numbers of keys before them
(`FewBefore`), so that what is left when all with `size` or more before them have gone
is no more than `size`.

`FinderProofs`. `FinderInv` says of every search under way that a result above
`Repetition` comes from an identity that it can reach (`StackInv`), and the same of
every kept answer (`AnswersInv`). An answer that another goroutine has kept, or
that a shorter search gave, is then as good as one's own; nothing is assumed of the
graph, the limits or the order.

`NothingOverlooked` is the other half. `NoInv` says of the frames of a search, of the
kept answers and of what was told that from an identity which was passed over nothing
leads to the change (`Clear`). What could spoil this is a repetition: a manager that is
taken to hold nothing because it has a frame already. The managers a search is in lead
into each other (`PathOK`), so one that it is still in would close a cycle, and the
whole path would be a set of managers of which each leads back into the set; where
there is none (`Acyclic`), the manager was left with nothing found, and is clear
(`SecondTime`).

`DeferredProofs`. An output's file is current unless it is pending: not rendered,
in the queue of its stage, or one of the files an error of this build is about
(`Pending`, `CurrentInv`); every file with a placeholder is in a list that is still
to be gone through, where its block has not been executed for another file
(`ListsInv`, `PlaceholdersInv`); under `KeptForOne` each file of a list has an
execution in it (`ExecutionsInv`). A build that ends without errors has rendered all
that was to be rendered (`OrderInv`) and has nothing pending.

`AssemblerProofs`. `Walk`, `DateUp` and what else goes over the tree are recursive
functions on keys. That such a function is what its body says is proved once
(`DownTheTree`): of all sets of keys that are left when the function is given for the
others take a smallest one; if it had a key, it would have one whose parent is outside
(`LeadsHome`), and that one could be given too. The facts about the walk come the same
way: a set of keys for which one fails would have a first key. On that rest four invariants, each between the
steps of a build: which files the tree has been told of (`FilesInv`, `ArriveInv`), what
the terms were made of (`EntriesInv`), what the walk has moved (`WalkedInv`), and what
is rendered or due (`DueInv`). They hold across builds that end halfway, which is where
each of them needs more than its property says: what a failed build has left is named
by `retry` or is still in the next build's events.

`CascadesComeFromAbove` needs the most. A page's cascade is a list of maps kept by
reference, some its own and some another page's, and a walk merges into the lists and
maps it meets. `ReadInv` says what each page has read from its file, `CascadeInv` that a
cascading page's list is its own part with what came from above merged in, and
`AppliedInv` that a page has applied the list it was last handed. The induction
(`WalkHands`) shows that a walk hands every page the list that a fresh tree would:
either its hash has changed, and it is built again, or it has not, and then it is the
same list (`PassedIs`). The restrictions of the property are what makes the second half
true.

`ServicesProofs`, part by part. *Warpc*: `WarpcTypes` needs nothing; `AnswersOwn`
needs that no two requests of one namespace have one number (`NumbersInv`), so that two
at one dispatcher under one number are of two namespaces; what an instance works at is
pending unless such a twin has come (`SentInv`), what is pending is unanswered (`OpenInv`),
and so a response that is handed over is its call's but for those twins (`OwnInv`). `EmptyAfterEnd` follows which instance a call has been sent to
(`ServedInv`). `AllAnswersFit` joins the two. *FileCache*: who reads, creates or writes
has the file's lock (`HolderInv`), and a file that is part of itself is being written
or was cut short (`PartInv`). *JSBatch*: the types need that a script has changed no
oftener than anything has (`VersionsBehind`). `BundleIsFitting` compares three times: a
holder's counters tell whether it is new in this build (`HoldersInv`), the last bundle
has what was held when the build began (`PackInv`, `Began`), and a setter that need not
run again is held as it sets, with nothing of its groups touched or all of it set
(`HeldInv`); so a bundle that does not look stale has what is set. A script's change is
on its way, or has made the bundle stale and lets its setter run again (`VersionInv`). That
nothing more is in the bundle follows from what pages have used (`Leaves`): what one no
longer sets was touched and goes, or nothing was changed but scripts. *LazyInit*: the
types say where each call of `Do` stands (`StacksOK`). `AnswersAreOfThisBuild` is about
values that have to be made again in every build. The word and the mutex let one caller
at a time past the double check (`LocksOf`); a child is done when its parent is, or is
just about to be (`ChildOf`), so that a parent's reset, which resets the child with it,
leaves nothing done below; and what an Init that no one has crossed has made or is making
is of this build (`ValueOf`). No template has an answer while the pages are assembled
(`RenderInv`), so nothing that was made of the unfinished tree is in use. Every action is
shown to keep each of these for the Inits it touches and to leave the others alone.
`PartsOfServices` says that a behaviour of `ServicesMC` is one of each part, so that all
these hold of it.

`RebuildProofs`. `PollsReachSite` is inductive with one more fact: a recording is
never newer than the directory (`LeftBehind`), so a rebuild that reads a file reads
at least what its event was about. `PartsOfRebuild` carries the theorems about the four
parts over to `RebuildMC`.

Only model-checked: all liveness (`ServesLatest`, the progress properties,
`SentUnlessDead`, `LocksComeFree`, and that every question is answered, `AsksEnd`), which
is out of the prover's reach, and the properties of the four runs whose code does not do
what the text says. The other half of `AskersGetThisBuild`, what the answers are
(`AnswersOfThisBuild`), is proved.

## Not modelled

- *Work groups and collections* (`common/para`, `rungroup`, `tasks`, `stack.go`,
  `evictingqueue.go`): each operation is one critical section or a thin wrapper of
  `errgroup`; their workers appear in the modules as steps in any order.
- *Pages from data*: content adapters add pages to the tree that `Assembler` has, by a
  template; the state they keep is the set of paths of the last build.
- *Several languages*: `Assembler` has one site. Shifting nodes between languages is a
  lookup in a radix tree.
- *The error collector's goroutine*: `Deferred` has the one error it gives back. An
  error sent after it has stopped, and a collector left running when the build
  statistics cannot be written, are not in the module.
- *Two processes on one cache directory*: the file locks are of one process; the code
  has no lock between processes.
- *fsnotify*: the operating system's notifications are taken as given; `DevServer` takes
  any batches, and only the poller, which is the repository's own, is modelled.
- *Template engine, Markdown, shortcodes, parsers, configuration decoding, minifiers,
  publishing, images, navigation, related content, command line, code generation*:
  functions from text or data to text or data, whose correctness is about characters
  and not about states.
- *Modules and mounts*: wrap the go command and compose file systems.
- *Deployment*: the repository holds only its configuration.
- *The site's own content and workflow*: no program state.

Within the modelled components, `PROJECT.json` says under each component what was
left out.
