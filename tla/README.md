# app-componts in TLA+

Specifications of the stateful parts of this repository: a Slint desktop
program (Rust) with an intercepting HTTP/HTTPS proxy, two log pipelines and a
tabbed window. The repository builds a library; no `main.rs` is part of it, so
`initialize_application` (`src/src/lib.rs`) and the callbacks the UI files
invoke are taken as its entry points. File names below are relative to
`src/src` for Rust and `src/ui` for Slint.

Every definition is translated from the code at the lines that
`PROJECT.json` ("map") names. Comments in the modules say what is abstracted.

## 1. The system

| part | state | operations | talks to |
|---|---|---|---|
| proxy lifecycle (`componts.rs` `handle_event`, `backend/proxy/http_proxy.rs`) | `PROXY_RUNNING`, `SHUTDOWN_SENDER`; per run: listener, broadcast receiver, `active_connections` | click, bind, load CA, subscribe, accept, receive the signal, drain, drop the runtime | UI (click), CA store, sessions (spawn, await), logs |
| session (`backend/proxy/session.rs`) | the client stream behind an async mutex, `initial_data`, request, response | first read and parse, CONNECT path (200, TLS to the target, TLS to the client, tunnel), plain path (forward, one read, one write) | CA store (reads `ca.crt`), tunnel, logs |
| tunnel (`backend/proxy/copy.rs`, `debug_stream.rs`) | per direction: buffer, `pos`, `cap`, `read_done`, `need_flush`, `amt`, and `TransferState` | `poll_fill_buf`, `poll_write_buf`, `poll_copy`, `transfer_one_direction`, `copy_bidirectional_impl` | the two streams of a session |
| CA store (`backend/proxy/ca_cert.rs`, `install_cert` of `componts.rs`) | the files `ca.crt` and `ca.key` | load or generate, export the certificate | every run at its start, the "install" button, sessions |
| log pipelines (`logs/*.rs`) | per system: bounded channel, storage of at most `max_logs`, the rows of the view | macro, send, receive and store, copy, post to the UI thread, apply, clear | every other part (senders), UI (event loop) |
| tabs (`componts.rs` `add_tab`, `remove_tab`; `componts/BaseCompont.slint`) | `visible_tabs`, `active_tab` | add, close, click | UI only |
| proxy page (`componts/Home.slint`) | the page shown, the button's private label flag `bt` | click by mouse or keyboard, change page | `handle_event` |
| parsing (`backend/proxy/prelude.rs`) | none | `Request::from_string`, `Response::from_string` | session, tunnel |
| window controls (`componts.rs` `move_window`, `maximize_windows`, ..., `ui/app.slint`) | `is_dragging`, `drag_start_position`, `last_cursor_position`; `App.fullscreen` | mouse events, maximise, minimise, open, close (`exit(0)`) | the window system, tabs (the same clicks), process |
| system certificate store (`ca_cert.rs`) | the machine's ROOT store | install, query, uninstall: public, called by nothing in the repository | CA store, `certutil` |
| application start (`lib.rs`) | none of its own | `initialize_application` | every other part, once |

What is hard here: the UI thread never waits for the proxy's thread, so a click
can land on any `await` of `entry`; each start makes a runtime of its own and
several may be alive at once; log tasks are spawned without an order and the
log handler posts copies that may be stale; `poll_copy` is resumed after any
pending read, write or flush; the CA is two files written one after the other
by calls nothing serialises, in a program whose window can be closed at any
time; one task drives both directions of a tunnel with one waker; a session
takes whatever its first read returned for the request; mouse events wait in a
queue while the window they speak of moves. `PROJECT.json` lists
each such hazard with its line and the properties that would catch it going
wrong; one that no property catches, because the premise of the nearest one
leaves it out, has a note that says so.

## 2. Modules

| module | models | abstract counterpart or base |
|---|---|---|
| `ProxyService` | what starting and stopping promises: a run is closed only when asked, then admits nobody and sees every client it admitted to the end | |
| `ProxyControl` | starting and stopping, for any number of runs | implements `ProxyService` (`ServiceSpec`) |
| `ProxyPage` | the page with the start/stop button, over `ProxyControl` | extends `ProxyControl` |
| `BytePipe` | what one direction of a tunnel promises: bytes in order, at most a buffer in flight, "ok" only when nothing is missing | |
| `CopyBuffer` | `CopyBuffer::poll_copy`, call by call | implements `BytePipe` (`Pipe == INSTANCE BytePipe WITH ...`) |
| `Transfer` | `transfer_one_direction`: copy, capture of the text, shutdown | extends `CopyBuffer` |
| `Relay` | `copy_bidirectional_impl`: one task, two `Transfer`s | implements two independent `Transfer`s (`TwoTransfers`), and so two `BytePipe`s |
| `HttpMessage` | the parsers and the destination of a request, as operators on sequences of lines | |
| `Session` | the session task from accept to its log line | extends `HttpMessage`; the tunnel as a flag per direction, see `Relay` |
| `LogView` | what a log view promises its reader: rows in the order of receipt, at most a storage of them, never back to before an entry it has shown | |
| `LogPipeline` | both log systems | implements two `LogView`s (`ViewsKeepOrder`) |
| `Tabs` | the tab bar | |
| `Drag` | `move_window`: mouse events, their queue, the window they move | |
| `Shell` | the main window: drags, clicks on tabs and the maximise button as one stream of mouse events | composes `Drag` and `Tabs`; implements both |
| `CaStore` | the CA files and the calls on them | |
| `CaTrust` | installing the CA into the system store and removing it | extends `CaStore`; implements it |
| `MC*` | the same modules as instantiated by the configurations | |
| `*Proofs` | theorems of `ProxyControl` and `ProxyPage`, `CopyBuffer`, `Transfer`, `Relay`, `Session` and `HttpMessage`, `LogPipeline`, `Shell` with `Drag` and `Tabs`, `CaStore` and `CaTrust` | |

Definitions whose comment starts with "Variant" are altered forms of an action
of the code (a guard dropped, an index off by one). No specification uses them;
put in the place of the original each makes a property fail, which is how the
properties were tried out.

How the state and the actions correspond to the code:

* **ProxyControl.** A run is a thread spawned by a start click. `pc[r]` is its
  position in `entry`: `spawned` (before `bind`), `bound` (before the CA is
  loaded and `subscribe()` called), `serving` (the `select!` loop), `draining`
  (awaiting `active_connections`), `returned`/`failed`, `exited` (runtime
  dropped). `Stop` and `Start` are the branches of `handle_event`; the send in
  `Stop` is refused when nobody subscribed, as `broadcast::Sender::send` is.
  `Accept` spawns a session and keeps its handle in one step, as the code does
  without an await. `DropRuntime` cuts tasks that are still alive. A session is
  abstracted to its end (`SessionEnds`), which a panic is too.
* **ProxyPage.** `bt` belongs to an element inside an `if`, which Slint creates
  anew each time its condition becomes true; hence `bt` falls back to false
  when the page is left. A click flips `bt` only if the button was `pressed`,
  which a keyboard click is not (`KeyButton`).
* **CopyBuffer.** One action per outcome of `poll_read`, `poll_write` and
  `poll_flush`, with `pos`, `cap`, `amt`, `read_done`, `need_flush` as in the
  struct. `buf` holds the index of the byte in the stream, so that order and
  identity can be stated. A read into a full buffer returns nothing, as at EOF,
  and `Fill` then sets `read_done`, as the code does: it is `WantsRead` that keeps
  this from happening. The cooperative budget of tokio only adds wakeups and
  is covered by `Poll`, which may happen at any time while parked.
* **Transfer.** `TakeOk` slices the first `count` bytes of the buffer, as
  `&buf.buf[..count]` does, and panics when there are fewer; the text may also
  fail to parse.
* **Relay.** `turn` is where the closure of `poll_fn` is: between polls, in the
  call for "up", in the call for "down", or over. `Begin` polls the task, each
  `...Runs` is a step inside a call, each `...Returns` a `Pending` or `Ready`,
  `Breaks` the `?` of either call. The peers act at any time. Every variable of
  a `Transfer` occurs twice, `u_` and `d_`, and its actions are used as they are.
* **HttpMessage.** A text is a sequence of lines, as `str::lines()` gives them; a
  line is a record of what the code looks at (first word, number of words, url
  and host split at colons, valid UTF-8 or not). Each `unwrap` and each index of
  the parsers is a conjunct of `ParsesRequest`, `ParsesResponse` or
  `HasDestination`. A read may end within a line: `Cuts` says what the rest of a
  line may look like then, broken characters included.
* **Session.** `ReadRequest` takes any front of what has arrived, panics where
  the parser does, and is never repeated, as in the code. A TLS handshake, a
  certificate or a connection is a step that may fail. `locked` is the guard of
  the client stream's mutex. Early returns end in the log line of the task,
  panics do not. The target may answer as soon as it is connected - before it was
  sent anything, to a part of a request, or to all of it - or never; the session
  forwards what its one read of the answer returns.
* **LogPipeline.** A macro's task is `sending` until the channel has room.
  `Receive` stores the entry and copies the storage under one lock; `Post` hands
  that copy to the event loop; `Apply` replaces the rows. `ClearStorage` and
  `ClearPost` are the two halves of a clear callback. `received`, `cleared`,
  `seen` and `fresh` are history: the entries received, how many of them when the
  storage was last cleared, how many when the last one ever shown was received,
  and whether an entry was stored after the last clear.
* **Tabs.** One action per callback. The menu of this repository opens one
  name; `add_tab` accepts any, and the model checks several. `Without` is the
  filter of `remove_tab`, written by positions so that it can be reasoned about;
  `MCShell` has TLC compare it with `SelectSeq`.
* **Drag.** The cells of the closure, and a window system: the row of the window
  and of the cursor, the left button, and a queue of events that are each stamped
  with the position over the window when they were made. `fresh` turns false when
  the window moves before the event is handled; `lost` is history, up from a
  release that another program got to the next press of a button. `Moved`, `Pressed` and `Released`
  are the arms of the handler; the last takes any other button as well, as the
  code does. One axis only: both have the same arithmetic.
* **Shell.** Slint sees an event after the handler does, so a click on a tab or on
  the maximise button is one step with the `Released` of its release.
  `SystemToggles` is the window system maximising by itself; a maximised window
  that is dragged is restored by it. In both cases `App.fullscreen` keeps its value
  and disagrees with the window until the button is clicked; no property speaks
  of it.
* **CaStore.** Every `exists`, `read` and the two halves of every `fs::write`
  (truncate, fill) are steps. A crash is the window being closed; files stay.
  `raced` is history: two calls once generated at the same time.
* **CaTrust.** The functions in their Windows form, the only one that compiles
  (`mod windows` is not conditional). `certutil` is external: it adds what
  `ca.crt` holds and finds certificates by a name that all CAs of the program
  share. `early` is history: what was installed had no key on disk.

## 3. Model checking

Twelve runs (`PROJECT.json`, "runs"). Eight must pass:

| run | bounds | what it shows |
|---|---|---|
| `ProxyControl` | 3 runs, 2 clients each, 2 ports of which one cannot be bound (130,283 states) | a stop never reaches a run the flag still speaks of (`NoUnaskedShutdown`); it does reach the latest run once that accepts (`StopReachesLatest`); no session is cut by the end of its runtime (`NoSessionCut`); the program is a `ProxyService` (`ServiceSpec`). With sessions that end, a signalled run exits and no client stays in a backlog (`SignalledRunExits`, `QueuedClientAnswered`) |
| `ProxyPage` | 2 runs, 1 client, 1 port | label and flag only disagree after the page was opened over a running proxy or after a keyboard click |
| `Transfer` | buffer of 2, streams up to 4 bytes | the window of the buffer holds exactly the bytes read and not written (in `CopyInv`), the output is the stream, `Ok` means complete and flushed, nothing waits for the reader on unflushed bytes, `poll_copy` implements `BytePipe`; every byte is flushed in time; a buffer that was not reused is captured exactly; a closed source ends its direction |
| `Relay` | two directions, each with a buffer and a stream of one byte (87,635 states) | each direction behaves as a `Transfer` by itself (`TwoTransfers`); a byte gets through although the other direction is silent, half-closed or blocked by a peer that takes nothing (`FlowsAlone`); `Ok` is said of two directions that are over and complete, with the texts of both (`OkMeansBoth`); the relay returns once both peers closed (`RelayEnds`) |
| `Session` | 8 messages of up to 7 lines, 2 answers, every place a read may end at (16,166 states) | wherever the one read ends, the request parsed, the way taken (tunnel or clear text) and the destination are those of the whole header (`SplitIndependent`); whenever the target answers, the client is handed a start of that answer, and by then the target was given the very text the logged request was parsed from (`ReplyIsToLogged`); what was parsed makes up what was read (`ReadIsParsed`); no task locks the client stream while holding it (`NoSelfDeadlock`); an abandoned session ends unless its target stays (`AbandonedEnds`); a plain exchange read whole ends by itself, with a target that answers what it has got whole (`WholeRequestEnds`) |
| `LogPipeline` | 4 entries (1 of a proxy run), storage 2, channel 1, a clear of either system | the storage is the tail of what was received since the clear (`StorageIsTail`); one later entry repairs any view (`ViewConverges`); each view is a `LogView` (`ViewsKeepOrder`); no sender starves (`EveryEntryLands`); the view catches up (`FreshIsShown`) |
| `Shell` | a window of 2 rows on a screen of 3 that moves by one row either way, 2 waiting events, the event log and 3 more tabs, which are symmetric (301,960 states) | the point of the title bar that was taken is under the cursor once the queue is empty, unless the last position was out of date (`GrabFollows`); nothing is dragged without a button held, but for a release that went elsewhere and until a button is next pressed (`NoStrayDrag`); the active tab is shown and no tab twice (`ActiveIsShown`, `NoDoubleTab`); whatever is closed, the other tabs stay in their order (`OthersKeepPlace`) |
| `CaTrust` | 2 calls, 3 key pairs, 2 crashes, failing writes, installs and removals at any step (501,711 states) | unless two calls generate at once, the certificate the user saved is the one on disk and the one that signs (`ImportedIsServed`), a complete CA is never touched (`CompleteStays`), and what is installed is the one that signs unless it was installed before its key was on disk (`InstalledIsServed`) |

Why the bounds are enough to be interesting: three runs let a run orphaned by a
lost signal live next to one that drains and one that starts, on the same port
or not; two clients let one be active while the other waits in the backlog of
the same listener. A stream of twice the buffer fills it, empties it, and
refills it partly, with top-ups of a half-written window in between. In `Relay`
one byte per direction is enough for each direction to be idle, blocked, half
closed, done or failed while the other is in any of these; what longer streams
do is checked in `Transfer`, and `TwoTransfers` carries it over. The messages of
`Session` have an empty line in the body, a header cut in the middle, a missing
`Host`, one with several colons, a `CONNECT` in lower case or without a port,
and bytes that are no text. Two waiting mouse events let one be overtaken by the
move of the other. A storage of two overflows on the third entry, a channel of
one makes the second sender wait. Three key pairs let a third generation follow
two that raced or crashed. `MaxRuns`, `MaxBytes` (`UpMax`, `DownMax`),
`MaxClears`, `MaxPairs`, `MaxCrashes`, `Screen`, `Reach`, `MaxQueue`, and the
sets of messages and names are the bounds the code does not have; the proofs
below hold for every value of them.

Deadlock is not checked: each of these models stops when its bounded inputs are
used up and its peers stay silent, as the program may.

Four runs each check one statement the source makes and the code does not keep:

| run | statement | what happens |
|---|---|---|
| `ProxyControlStop` | `componts.rs:212`: this branch stops the proxy | the signal is sent before `entry` subscribed and is gone; the run serves on while `PROXY_RUNNING` is down |
| `TransferLong` | `debug_stream.rs:106`: copies with buffers of the specified size | a transfer longer than its buffer ends in a panic of the slice at `debug_stream.rs:53` |
| `LogPipelineProxyClear` | `http_proxylogs.rs:198,202`: clear the logs, update the UI | a copy taken before the clear is posted after it: the rows come back, the storage is empty |
| `CaStoreCrash` | `ca_cert.rs:10`: an existing certificate is loaded | `ca.key` exists and is empty after an exit between truncation and write; loading it panics from then on |

Seen while modelling, and not given a run of their own: when `bind` or the CA
fails, `PROXY_RUNNING` stays up and the next click "stops" nothing; a draining
run waits for clients that never hang up; a transfer that refilled its buffer
captures the last bytes instead of the first, and one that met `UnexpectedEof`
captures slots nothing was read into; the client is told
"200 Connection established" before the target is tried; `clear_logs` of the
event system empties the rows of the proxy view (`event_log.rs:207`; no page
invokes it); of a response only what the first `read` returned is forwarded, and
of a request what came after the first read by nobody (`session.rs:68,169`); a
read that ends within a UTF-8 character panics (`session.rs:71`); a title bar
pressed before any cursor event is placed at (0, 0); a window dragged on a
position that is out of date overshoots until the next move; `is_cert_installed`
depends on the language of `certutil` and on a name every CA has; two calls that both find no CA leave one on disk and sign with the
other; `MAX_CONCURRENT_REQUESTS` is never read and `active_connections` never
shrinks while a run serves.

## 4. Fairness

Nothing a user, a client or a server does is assumed to happen, except where a
property says so.

* `ProxyControl!Scheduling`: weak fairness of each step of a run's own thread
  and of the accept branch. The operating system schedules the thread, and
  `select!` chooses at random among ready branches. `SessionsEnd` (part of
  `CooperativeSpec` only) adds that each session ends; `Session!AbandonedEnds`
  says when it does. `StopStops` is refuted under `FairSpec`, without it.
* `Transfer!TransferFairness`: the executor finishes a poll and repeats it when
  the waker was called; the peer at the writing end keeps taking bytes, so that
  a write or a flush is not pending forever (strong fairness, since each poll
  may find it pending). The source owes nothing.
* `Session!FairSpec`: the task moves on whenever it can, except at the points
  that wait for a peer whose side is open (`AwaitsPeer`). `WillingPeers` is a
  premise of `WholeRequestEnds` alone: the client sends all it has, and the target
  answers a message it has got whole. That a target answers early is possible at
  any time and assumed nowhere.
* `Relay!RelayScheduling`: the executor polls the task when a waker of its last
  poll is due, and a poll runs to its end (weak fairness). A task has one waker
  for both directions, so a poll for the one is a poll for the other, and no
  more than that is relied on. `TargetTakes` and `ClientTakes` - the peer at the
  writing end takes bytes in the end - are premises of the properties, each of
  the direction it speaks of: `FlowsAlone` for "up" holds although the client
  takes nothing.
* `LogPipeline!Fairness`: handler, event loop and callbacks go on; a sender that
  waits for a permit gets it (strong fairness: tokio's semaphore is first come,
  first served).

## 5. Proofs

Checked by TLAPS for all values of the constants that satisfy the named
assumptions (`ControlAssumption`, `BufferAssumption`, `RelayAssumption`,
`PipelineAssumption`, `CaAssumption`, `LineAssumption`, `SessionAssumption`,
`DragAssumption`, `TabsAssumption`: sizes are naturals, a channel and a buffer
have room for one, markers differ from data, a line cut short is not empty).

* **ProxyControlProofs.** `ControlInv` is inductive. `NoSessionCut` and
  `NoUnaskedShutdown` are not by themselves: that a returning run cuts nobody
  needs `SessionsHeld` (each active session has its handle in the run that
  accepted it, and that run is serving or draining); that a signal never
  reaches the run the flag speaks of needs `SenderIsLatest` and `FreshRuns` (the
  sender is always that of the last start, and unstarted runs carry no signal).
  `StopReachesLatest` and `NoLateSession` follow as action properties.
  `ControlIsService` is the refinement of `ProxyService`: it needs, beside
  `ControlInv`, that a run which does not accept yet has admitted nobody
  (`Untaken`), so that a run which fails to come up leaves no client behind. The page
  implements the protocol (`PageKeepsControl`), and `WrongLabelHasCause` follows
  from what a click does to the flag: it turns it over, and nothing else moves
  it. `LabelInv` is inductive only with the fact that the home view opens on
  another page; `PageTypes` follows.
* **CopyBufferProofs.** `CopyInv` adds to the four safety properties that
  flushes are accounted for (`FlushAccounted`), that `read_done` means EOF was
  seen with everything read (`EofSeen`), and that the buffer is empty whenever
  the code flushes (`EmptyAtFlush`, `EndAtFlush`). `CopyIsPipe` proves the
  refinement: `Init` maps to the initial states of `BytePipe` and each step to a
  read, a delivery, an end, or a stutter.
* **TransferProofs.** A transfer implements `poll_copy` (`TransferIsCopy`), so
  `CopyInv` and the pipe carry over. `OneFillCaptured` rests on `FilledOnce`: as
  long as the buffer was not reused, it holds the stream from its start, either
  up to `cap` with `pos = amt`, or, once emptied for good, up to `amt`. From the
  same invariant, only a buffer that was filled again lets the length of a stream
  panic the transfer (`OneFillFits`, the other side of the run `TransferLong`).
* **RelayProofs.** Every step of the relay is a step of one direction and leaves
  the other alone (`RelayIsTwoTransfers`): that the directions share a task, a
  waker and an end takes nothing from what a transfer promises. `OkMeansBoth`
  follows from `CopyInv` and `CaptureInv` of either, obtained from
  `TransferProofs` by INSTANCE, together with the account of what a direction has
  returned when it is not being polled: `BothHaveReturned` says that it is then
  `Pending` or over, so that no error, text or half done write of it waits for a
  poll that may never come. `RelayIsTwoPipes` and `BothVerbatim` carry over to
  either direction that it is a pipe and never waits on unflushed bytes.
* **SessionProofs.** `SplitIndependent` for any messages, whatever their lines:
  two texts that agree up to the first separator have the same header, and a
  read that ends in time is a front of the message, because what is left of a cut
  line is never empty. `ReadIsParsed` is a fact about the parser alone.
  `SessionInv` ties the request to the text and the text to the message, and
  holds the guard to the points where the code keeps it. Two more invariants rest
  on it: `OnItsPath` keeps the destination, the tunnel and the clear text to the
  paths that may set them, which `SplitIndependent` needs for what is connected;
  `ReplyInv` follows the bytes of a plain exchange in both directions - what was
  read is what the target is given, whole and before its answer is read, and is
  still what the request says - for `ReplyIsToLogged`, with no assumption on when
  the target answers. `SessionTypes` closes the types.
* **LogPipelineProofs.** `PipelineInv` = types and bounds, `StorageIsTail`,
  `ViewConverges`, and two facts about what is on its way. `ReceivedOnce` says
  that an entry is where its task says and there once, so that the place of a row
  in what was received is well defined; `PostsInOrder` says that no copy on its
  way to a view, whether still with the handler or queued in the event loop, ends
  before the one ahead of it or before what the view has shown. The second is
  what makes the refinement of `LogView` go through (`ViewsAreLogViews`):
  nothing else keeps the handler's copies, which no lock orders with the posts,
  from taking a view back. The step that stores an entry rests on an argument
  about tails of sequences, stated once as a lemma. `ClearsAlone` bounds the
  finding of `LogPipelineProxyClear`: a quiet view and its storage differ only
  between a clear and the next entry (`QuietUnlessCleared`).
* **ShellProofs.** `DragInv` says what the waiting events promise: while the
  button is up, an event that ends the drag is waiting and no press comes after
  it, or nothing is dragged and no press is waiting (`DragIsEnding`); while it
  is down, the newest event tells where the cursor is, or is known to be out of
  date (`NewestIsTrue`). `GrabFollows` and `NoStrayDrag` follow for queues of any
  length. `ShellDrags` carries both over to the whole window.
  `TabsInv` is inductive: that closing a tab leaves the active one shown and no
  tab twice rests on lemmas about `Without` - its positions are counted by
  cardinalities, so it keeps the tabs other than the closed one, each once and in
  their order. The same lemmas give the action property `OthersKeepPlace`
  (`TabsKeepOrder`), and `ShellTabs` carries both over.
* **CaStoreProofs.** `CaInv` holds whether or not calls raced; its second half
  says, for histories without a race, that one call generates, that the files
  are as far as its step says, and that the key is the last thing to appear. A
  crash at any point keeps all three. `CaTrust` implements `CaStore`
  (`TrustKeepsCa`), and `InstalledIsServed` follows from `CaInv` and
  `CompleteStays`: what was installed with its key on disk is never replaced.
  `CompleteIsLoaded` bounds the finding of `CaStoreCrash`: without a race only a
  key that is empty as it is read keeps a CA from being loaded (`OnlyTornKey`).

Every invariant and every action property that a passing run lists is stated by
a theorem, and so are the refinements. `BothReturned`, `NoLateSession`,
`QuietUnlessCleared` and `OnlyTornKey` are theorems that no run lists; TLC agreed
with each on the instances above.

Only model-checked: the ten liveness properties (liveness under fairness and
`ENABLED` are outside what the prover handles), and that `Without` is the filter
of the sequence module, whose definition is an induction over the sequence. No
module with theorems reaches a recursive operator of this project, and nothing is
proved by induction over data.

## 6. Not modelled

* `initialize_application` runs once, in sequence, before the event loop; its
  result is the initial state of `LogPipeline`, `Tabs` and `ProxyPage`.
* `minimize_windows`, `open_windows` and the hiding of the Setting window: single
  calls to the window system that leave nothing behind in the program.
* Layout, theme and widgets, the splitter of `ResizablePane` included, whose
  lengths nothing outside the layout reads.
* `generate_signed_cert` keeps no state; it is a step of `Session` that may fail.
  The bytes of certificates and of TLS are left out.
* `Request::to_bytes` and `Response::to_bytes` serialise for a length in the log.
  The parsed response is only logged.
* Wording of log lines; the conversions in `logs_struct.rs`, which copy fields;
  `batch_size` and `update_interval`, read by nothing.

## 7. Plan

Done: `ProxyControl`, `CopyBuffer`/`BytePipe`, `Transfer`, `LogPipeline` and
`CaStore` in that order of importance, then `Session`, `ProxyPage`, `Tabs`; then
`Relay`, `HttpMessage` with a `Session` over real texts, `Drag` and `Shell`,
`CaTrust`; the abstract `LogView` and `ProxyService`; and the proofs of section 5.

Next, in this order:

1. `ProxyControl` with `LogPipeline`: the runtime that is dropped is the one
   that carries the log tasks of that run. `LogPipeline` has this as a step that
   drops the unsent entries of one run.
2. `Session` over `CaStore`: the read of `ca.crt` at `session.rs:97` while
   another call rewrites the file. Today it is a step that may fail, and
   `ImportedIsServed` says what the file then holds.
3. `Session` over `Relay`: the two flags of the tunnel replaced by its result.
4. The safety parts of the liveness properties as theorems: that the action a
   property waits for is possible whenever it is waited for (its guard, since
   `ENABLED` itself is out of reach), for the drain of a run and for a copy whose
   source has closed.
