# A formal model of android-wayland-apps

android-wayland-apps runs Linux desktop applications on Android. An Arch Linux
rootfs is executed with proot, a Wayland compositor inside the Android app
receives the windows of the applications, and each window is shown by an Android
Activity of its own. This directory holds TLA+ modules that model the parts of
the program in which several parties interact (threads, processes, callbacks of
Android, clients, files that outlive a process), TLC configurations that check
them on small instances, and proofs, checked with TLAPS, that every safety
property these configurations find to hold does so for every number of windows,
frames, buffers, samples, requests, characters, faults and so on, among them that
the window lifecycle and the audio ring implement their abstract specifications.
What must eventually happen is model-checked only.

Paths below are relative to the repository. `rs/` stands for `src/android/`,
`kt/` for `android/src/main/java/io/github/phiresky/wayland_android/`.

    tlasany M.tla                       parse a module
    tlc -workers 2 -config X.cfg M      model-check a run (see "Runs")
    tlapm M.tla                         check the proofs of a module

`PROJECT.json` lists the components, the runs, for every property a plausible
bug that it detects, the source lines behind every definition, the hazards of
the code and the theorems.

---

## 1. Inventory

### The parts and how they interact

    Linux app --wayland--> compositor thread --startActivity/finish--> Android UI thread
        |                    ^      |  ^                                    |
        |                    |      |  +---- WindowEvent channel + eventfd -+
        |                    |      +--> SurfaceFlinger (transactions, completion callback)
        |                    +-- portal handler threads (one per request)
        +--D-Bus--> portal daemon (in the rootfs) --unix socket--> portal handler threads
        +--PipeWire--> PipeWire thread --ring buffer--> AAudio callback thread
    MainActivity --nativeInit--> setup thread --files--> rootfs <--- compositor thread (socket)

| Component | State | Operations | What is hard | What makes it correct |
|---|---|---|---|---|
| **Window lifecycle** `rs/window_manager.rs`, `rs/backend/event_handler.rs`, `rs/compositor/mod.rs`, `kt/WaylandWindowActivity.kt` | `WindowManager.windows`, `next_id`, the pending and destroyed lists, the event channel, the static `instances`, `closingByCompositor`, Android's own record of each Activity | adopt, launch, finish, handle an event, relaunch; the callbacks of the Activity | Three threads of control. Android destroys and recreates Activities as it likes, and a close may be refused. The same event means different things depending on what came before it | One Activity per window, none for a dead window, no client forgotten; what the user closes is asked to close; the compositor draws to the surface that exists |
| **Frame pacing** `rs/backend/render.rs`, `surface_transaction.rs`, `rs/app.rs` | `committed_surfaces`, `needs_redraw`, `frame_pending`, the EGL or AHB surface, the eventfd, the frame callbacks in the send buffer | commit, poll, tick, blit and present, completion | Completions arrive on another thread and late; surfaces and sizes change under a frame in flight; answers depend on the next wake-up | One frame in flight for each buffer; one producer for each native window; the newest frame is shown; every callback is answered |
| **Audio ring** `pipewire-audio/src/ring_buffer.rs`, `stream.rs` | `buf`, `head`, `tail` | `write`, `read` | Lock-free, two real-time threads, positions that wrap | A FIFO; on overrun only the oldest samples are lost |
| **Portal bridge** `rs/portal.rs`, `rs/proot/scripts/portal_daemon.py`, `kt/FileChooserActivity.kt` | request objects, the PENDING map, a channel for each request, the chooser | open, close, connect, time out, launch, choose, answer | Four parties, a timeout on one side only, identifiers chosen by the client, Activities that are recreated | The files come from the request's own chooser; each request ends; no handler waits for nothing |
| **Start and setup** `rs/main.rs`, `rs/proot/setup.rs`, `process.rs`, `services.rs`, `app_compat.rs` | archive, unpacked directory, rootfs, stages done, links, socket; `INITIALIZED`, `setup_done`, the mode of proot | repairs of each start, stages of the setup, bind, wait, services | The process may die anywhere and the next one finds the disk as it is; two threads use the same directory | A torn rootfs is never used, a whole one never replaced; the setup ends and the next start agrees that it is complete |
| **Text input** `rs/compositor/text_input.rs`, `rs/backend/ime.rs`, `kt/WaylandWindowActivity.kt` | the Editable with its cursor and composing region, `composingText`; `active`, `composing_text`, `soft_keyboard_request`; the client's text | the calls of the IME, events, commits of the client | Two copies of a text kept alike by differences; sessions begin and end in the middle of a composition; units, bytes and characters | The client's text is that of the Editable; the keyboard is shown exactly during a session |
| **Graphics memory** `rs/backend/vulkan_renderer/`, `gbm_server.rs`, `ahb_allocator.rs` | imports by file descriptor, staging image, one command buffer; the tracker of buffers by inode | allocate, import, commit, blit, present directly, resize, clear | Descriptors and inodes are given out again; the GPU lags behind; clients go at any time | A buffer found in the tracker is the one allocated; no import outlives its window; nothing is destroyed under the GPU |
| **Camera** `rs/camera.rs`, `pipewire-cam/` | the PipeWire stream | connect | The daemon comes up minutes later, or never | It finds the daemon |
| **Pointer, touch, keys** `rs/backend/input.rs`, `keymap.rs` | modifiers of the seat | translate an event | lost key-up events | not modelled, except the keys the IME types |
| **Launcher, debug screens, JNI glue, native shims, scripts, build** | preferences and files | - | - | sequential, or driver interfaces: not modelled |

### The behaviours that are hard to test

`hazards` in PROJECT.json lists them at their lines, with the properties that
would notice. The main ones:

* **Orders of events.** The close of a window, the destruction of its Activity
  and the 500 ms relaunch of a refused close come in any order
  (`event_handler.rs:235-261`). A completion of an old AHB surface arrives when a
  new one is in use (`surface_transaction.rs:128`).
* **State used after it may have changed.** `onDestroy` removes whatever is
  registered under its window id (`WaylandWindowActivity.kt:221`); `read` stores a
  `tail` it loaded before (`ring_buffer.rs:75-86`).
* **Crashes.** A process dies in the middle of a download, an extraction or a
  stage (`setup.rs`); window ids start at 1 again (`window_manager.rs:200`).
* **Wake-ups.** The compositor sleeps in `poll`; each answer it buffers depends on
  a later wake-up (`render.rs:376`, `surface_transaction.rs:129`).
* **Timeouts.** The portal daemon gives up after 300 s while the handler and the
  chooser go on (`portal_daemon.py:32`).
* **Numbers that are given out again.** Imports are cached by file descriptor
  (`dmabuf_import.rs:20`), buffers are recognised by inode
  (`ahb_allocator.rs:421`).
* **Two copies of one text** (`ime.rs`, `text_input.rs:309-333`).

---

## 2. The modules

| Module | What it is |
|---|---|
| `WindowSession` | what the compositor promises about windows: abstract specification |
| `WindowLifecycle` | the detailed one: compositor thread, UI thread, clients |
| `WindowRestart` | `WindowLifecycle` composed with the death of the process |
| `WindowLifecycleProofs` | theorems about `WindowLifecycle` |
| `ManagedProofs` | more of them, and theorems about `WindowRestart` |
| `FramePacing` | the frames of one window |
| `FramePacingProofs` | theorems about it |
| `GraphicsBuffers` | the memory of the clients' buffers: descriptors, inodes, imports, the GPU |
| `MCGraphicsBuffers` | its symmetries, for TLC |
| `GraphicsBuffersProofs` | theorems about it |
| `SampleFifo` | what the audio ring promises: abstract specification |
| `AudioRing` | the ring, one step per access to shared memory |
| `AudioRingProofs` | theorems about it |
| `PortalBridge` | the file chooser portal, from the D-Bus call to the chooser and back |
| `PortalBridgeProofs` | theorems about it |
| `Startup` | start, setup, services and death of the process |
| `StartupProofs` | theorems about it |
| `ImeEditing` | text from the Android keyboard to a client's field |
| `ImeEditingProofs` | theorems about it, and about the texts and edits it is built from |

Actions and variables keep the names of the functions and fields they model;
`map` in PROJECT.json gives the lines. Definitions named `X_Something` and marked
`mutant` are plausible bugs in `X`. They take no part in the specification: they
show that the properties can fail.

### WindowLifecycle

`dispatch_wayland` (`event_handler.rs:27-134`) is a cycle of five phases: *adopt*
(drain the pending surfaces into `windows`), *launch*
(`launch_pending_activities`), *finish* (drain the destroyed surfaces), *events*
(collect the channel once, handle the batch), *dispatch* (requests of clients).
The UI thread and the clocks run between any two steps. Each drained surface,
handled event and callback is one action.

The two 500 ms timeouts are the booleans `old` and the values `recent` and
`elapsed` of `close_pending`; they may expire at any time, which is all the code
can rely on. An Activity record (`act`) outlives its Activity object: `dormant` is
a record whose object Android destroyed and may create again. A finish posted by
`finishByWindowId` to an object that is gone meanwhile is `stale`: it still
finishes the record, but the flag `closingByCompositor` it sets is that of the
old object.

`MaxUserActions` bounds what the user and the system do (stop, destroy, back
button, remove a task). Android is modelled by what the Activity can observe:
`surfaceCreated` only while it is not finishing, `onDestroy` only without a
surface. An Activity that finishes loses its surface without counting against
the bound.

A launch may fail (`LaunchMayFail`): the code logs it and leaves
`activity_launched` set, so the record is used up and the window stays without
an Activity.

Simplified: the order within one pending list only decides ids and is left open;
toplevels and layer surfaces share one set of pending and one of destroyed
surfaces, each drained completely in its phase as in the code; whether the
protocol library forgets the geometry of a destroyed role is left open.

### WindowRestart

`ProcessDeath` throws away everything the process holds and keeps Android's
records with the `window_id` of their intents, as Android does.

### FramePacing

The poll loop of `run_compositor_loop` with its eventfd, one action per stage of
`compositor_tick`. A dmabuf commit goes the way of
`try_render_vulkan_dmabuf`, an shm commit that of `render_gles_window`, with the
early returns of both. A buffer of the GBM server (`ahb`) that has the size of
the last frame is presented directly while zero-copy is on (`DirectPath`);
otherwise, or when its SurfaceControl cannot be made (`render.rs:245`), it is blitted. An AHB surface that zero-copy has made has no target
(size 0), and the blit path makes none where there is an AHB surface: such a window
is `Frozen` until it gets another surface. This takes a window that loses its
surface and then a buffer of another size or of another allocator. `in_flight` is the set of AHB surfaces whose atomic flag is
set, so that a late completion clears the flag of its own generation.
`callback` follows the one outstanding frame callback of the client: in the
socket, requested, in the send buffer, answered by the flush of the *next*
iteration. The completion callback and `send_event` take two steps each, since
another thread may run between the store and the write of the eventfd. A
failing driver (EGL, AHB allocation, import, blit) is counted by `MaxFailures`.

### GraphicsBuffers

The same rendering, seen from the memory. A buffer of a client lives as long as
the client, a descriptor of the compositor, the tracker or an import holds it
(`Exists`); its inode and the descriptor it came with are free for others
afterwards. A destroyed `wl_buffer` keeps its descriptor while it is attached, as
smithay keeps it. The compositor's tick has the phases finish, events, dispatch and
render; `jobs` are the blits the GPU has not executed, each with the buffer the
client committed and the one whose import the commands read. What
destroys something waits for the GPU first (`device_wait_idle`) or not, as in the
code: clearing the cache does not, and the command buffer is recorded again
without asking. Both are left out of `GpuWorkIntact` for frames of different
windows; the module says so. The abstract promise would be that each frame reads
the committed buffer. The code does not keep it, and `StaleImportIsRecycled`
says exactly when it does not: the frame is read from a destroyed buffer of the same
size whose descriptor the new one has got.

### AudioRing

`write` and `read`, split at every load and store of `head`, `tail` and `buf`.
The sample at stream position *p* is the number *p*, so a lost, repeated or
misplaced sample shows. Positions are words modulo `Word`. The atomics are
acquire/release and each position has one writer, except for `tail` in an
overrun, so the interleaving of these steps is what the code can show; the plain
accesses to `buf` that race in an overrun are modelled as accesses to whole
samples, which is what the hardware does with aligned floats.

### PortalBridge

Per request: the exported D-Bus object, the daemon's thread, the handler thread
of the bridge, the receiver (`inbox`), the event that carries a sender to the
compositor thread, and the chooser. `PENDING` maps ids to requests; ids are
chosen by the app (`handle_token`) and may be used again when the object is
gone, while the older request still lives in the bridge. `HasSender` says whether
a sender of a channel exists; without one, the blocking receive fails. Faults are
choosers that are killed, recreated or cannot start, and calls that fail. When a
chooser is recreated, the result that its first picker may still return is left out.

### Startup

What is on the disk (`archive`, `extracted`, `root`, `applied`, `xkb`, `socket`)
survives `ProcessDeath`; the rest does not. Each stage of `run_setup` is an
action; the first, the rootfs, is split at each file operation between which a
death leaves a different disk. `stub` is a rootfs directory that contains only
what `nativeInit` and `prepare_socket_path` create. A death in the
middle of a stage that writes several files leaves some of them, or a torn one, and what a
later run looks for may be among them (`setup.rs:22`, `:279`); the model has no contents
of files and makes each such stage one step. `Replace` may also fail, as its error is ignored.

`device` says which mode of proot passes the probe and whether commands run in that mode: the
probe is `libproot.so -V` (`process.rs:42`), which runs no command, so there are
devices in the model that pass it and run none. `proot_works` also asks for the mode
of this process, which is only probed by a setup.

`fix_xkb_symlink` replaces the absolute link to the keymaps in two calls
(`setup.rs:492`). Between them `xkb` is `removed`; a death or a failed call there
makes it `lost`, in the stage of the setup as well as at a later start. No start
repairs that: `fix_xkb_symlink` returns where it finds no link (`setup.rs:461`), and
`is_setup_complete` does not look. Only an upgrade of the package in a setup that
calls pacman again brings the link back (`MaybeLinked`). `ServicesReady`
has this loss as its exception and no other: the code does not prevent it.

`SetupConverges` is about the four marks of `is_setup_complete` only. A process that
dies after the last of the marks was made leaves a rootfs whose later stages never run,
except those that every start repeats, and no property asks for more.

The PipeWire daemon is started at the end of the compositor's wait and takes its
socket; `sinks` are the threads of the camera and the audio, which start with
the process and try to connect every two seconds. A daemon whose configuration no
setup has patched keeps its clients hanging (`services.rs:17`). That happens on
every device on which the PipeWire toggle is turned on after the setup: the patch
is a stage of the setup, depends on the toggle (`setup.rs:99`), is none of the repairs of
every start and not asked for by `is_setup_complete`, so the restart that
`DebugActivity.kt:107` offers "so PipeWire toggle takes effect" starts a daemon
nobody can use.
`MaxFaults` bounds deaths, failing calls and toggles of the PipeWire preference;
`trouble` says that a stage of this process's setup has given up.

### ImeEditing

Each call of the IME edits the Editable as `BaseInputConnection` does and appends
the events its override sends. `process_window_events` handles one event: in a
session it sends preedit, commit, delete or recompose, otherwise it types the keys that
lead from the text composed before to the new one. `field` is the client's text
field with caret and preedit, following the protocol. Positions are in
characters; the counts in events are UTF-16 units and those of the protocol UTF-8
bytes, so the instance has a character that takes one of each and one (`Wide`,
think of an emoji) that takes two units and four bytes. `WithKeys` drops the characters `send_ime_key_events` has no
key for; it is a recursive function, which the proofs can unfold.

The code does not follow the Editable in every situation. After one of the
following, `astray` is set, the run stops, and `FieldAgrees` and
`ComposingTracked` say nothing more:

* delete, replace, select or a new composing region **while composing** (the
  client's caret is in the preedit, Android's region is spared by its delete;
  `WaylandWindowActivity.kt:305-409`);
* `setComposingRegion` whose end is not the cursor, followed by
  `finishComposingText` or a restart of the input (the keys moved the client's
  caret, Android's cursor stayed; `:345`), or an empty region elsewhere;
* arrows or backspaces **across wide characters**, one press for each UTF-16 unit
  (`:350`, `:382`), and a wide character after the cursor being deleted;
* outside a session, composing, committing or deleting characters **without a
  key**, which are counted and were not typed (`ime.rs:38`, `:73`);
* a commit that enables, or disables, while a composition typed by keys is open
  (`text_input.rs:317-324`).

Comments in the code promise more for some of these: that the counts of a deletion
are bytes (`text_input.rs:111`; the one after the cursor is in UTF-16 units), that
the keys delete with one backspace for each character (`ime.rs:73`; there is one for each
UTF-16 unit), and that moving the cursor lets the operations that follow "target the
right text" (`WaylandWindowActivity.kt:341`). No run shows these disagreements, since
the model stops there. Of the counts, `FieldAgrees` covers only the one before the
cursor in a session. All of them are listed as hazards.

---

## 3. Runs

Bounds are chosen so that each interesting case is reached: in every passing run
all actions and all alternatives of the next-state relation fire (the few that
a single configuration cannot reach fire in another run of the same module), and
each property is violated when the listed bug is put into the definition.

### Passing

| Run | Instance | What it shows |
|---|---|---|
| `lifecycle_windows` | one window, three Activity records, two actions of the user or the system, launches may fail | types; one Activity per window through every close, refusal and relaunch; the registry names exactly the created Activities; an Activity is told to finish only when its window is removed; no live surface is forgotten and no dead one kept; the native window agrees with the surface once the events are handled; a posted finish ends the Activity; a user's close reaches the client; a refused close brings the window back; `WindowLifecycle` implements `WindowSession` |
| `ring_keeps_up` | capacity 4, words of 8 values, up to 3 samples a callback, 9 samples | `AudioRing` implements `SampleFifo` when there is room and when overruns do not overlap a read; every sample is played when there is room |
| `frame_pacing` | buffers of two sizes and every kind, zero-copy on, two frames, two surfaces or resizes, one driver failure | no buffer is overwritten in flight, one producer, the newest frame is shown, every frame callback is answered, the last two unless the window is frozen |
| `graphics_buffers` | two clients, two buffers, two descriptors, two inodes, two sizes | the tracker never mistakes one buffer for another; no import outlives its window, and a frame is read from the wrong memory only by a recycled descriptor; frames of one window do not disturb each other on the GPU |
| `portal_bridge` | two requests, with one id or two, one fault | files come from the request's own chooser; one answer per channel; the map holds only requests that are awaited; a waiting handler has a sender; every request ends |
| `startup` | two installation attempts, three faults | a torn rootfs is never taken, a whole one never removed; when the services start there is a keyboard, unless the link to the keymaps was lost while it was replaced, and commands run where the dependencies are installed; an undisturbed setup leaves what the next start calls complete; the wait ends; camera and audio find a configured daemon |
| `ime_editing` | a narrow and a wide character, texts of two, three calls of the IME, two commits of the client and the end of its text_input, two input types | the client's text and caret are those of the Editable; the compositor knows what the client shows of a composition; the keyboard follows the session |

Why these bounds are enough: one window suffices since windows share nothing but the
counter of ids and the event queue, and the safety properties and the refinement are
proved for every set of surfaces (section 4); three Activity records are needed for one to be replaced and its successor
replaced again; two user actions for one to interfere with the consequences of
the other. The ring wraps both its buffer and its positions within nine samples.
Two frames are needed for one to wait for another. Two buffers suffice for one to
get the descriptor or the inode of the other, and two surfaces for these to belong to
different clients. Two requests suffice for one
id to be used twice. Three faults allow two deaths and a failure in one history.
Three IME calls give a composition, a change of it and its end, with a session
beginning and ending between them; two-character texts have a prefix, a
difference and a caret in the middle. The bounds `MaxUserActions`, `MaxFrames`,
`MaxViewChanges`, `MaxFailures`, `MaxSamples`, `MaxFaults`, `MaxText`, `MaxCalls`
and `MaxCommits` limit the environment only, never the program.

`CHECK_DEADLOCK FALSE` appears where a history may end: the client has no more
frames, requests or commits, or everything is installed and nobody does anything.
In the window lifecycle and the ring something can always happen, and deadlock
is checked.

### Violations

Each run checks one statement of the repository about itself and finds a history
in which the code does not keep it.

| Run | Statement | What happens |
|---|---|---|
| `lifecycle_stranded` | `PLAN.md:76`: destroying the toplevel finishes the Activity | a client destroys its toplevel between `startActivity` and `onCreate`: `finishByWindowId` finds nobody, and the Activity comes up for a window that is gone |
| `lifecycle_restart` | `DESIGN.md:100`: each toplevel has its own Activity | after a death of the process an Activity restored by Android and a new window have the same id |
| `ring_overrun` | `ring_buffer.rs:49`: the oldest samples are dropped | an overrun during a read: both sides store `tail`, and samples are played twice or out of order |
| `frame_switch` | `render.rs:22-24`: frame callbacks must be answered | a client that goes from dmabuf to shm buffers is neither drawn nor answered while its AHB surface exists |
| `startup_socket` | `PLAN.md:34`: the socket in the rootfs is reachable | on the first start the setup replaces the directory in which the compositor has already bound its socket |

One more disagreement has no run: `DESIGN.md:116` says closing a window in the
recents closes the app, but a task whose Activity Android had already destroyed is
removed without any callback. `RemoveTask` models it; `UserCloseReachesClient`
is therefore about Activities that exist.

### Fairness

Safety properties assume nothing. For liveness:

* *Windows* (`FairSpec`): the compositor loop runs (its `poll` has a timeout), the
  clocks run, and Android completes what it began (creates a started Activity,
  takes the surface of one it finishes, runs posted requests, destroys). Users,
  clients and the restoring of dormant records owe nothing.
* *Ring*: both callbacks finish what they began, the device keeps calling.
  Nothing makes the producer start.
* *Frames*: the loop runs when it is woken; SurfaceFlinger completes transactions;
  Android follows a created surface with its size. The timeout of `poll` is relied
  on only after a driver failure, which wakes nobody, and in
  `FrameCallbackAnswered` and `AnsweredUnlessFrozen` for a window that has just lost its surface. So
  `NewestFrameShown` shows that the wake-ups suffice.
* *Portal*: the daemon's and the handlers' threads run, which includes the
  daemon's timeout; the compositor takes events. The user need not choose.
* *Start*: the threads of a live process run. Since faults are bounded, a call
  that fails is repeated until it works or its stage gives up. A daemon that can
  start does, and the threads of the camera and the audio go on trying.
* *Graphics memory* and *text*: only safety is checked.

---

## 4. Proofs

Each theorem is about the specification of its module, for every value of the
constants that satisfies the module's assumptions, and rests on nothing else. The
sets of surfaces, records, buffers, descriptors, requests and ids may be infinite. The
assumptions say that a bound is a number and a switch a Boolean, and:
`Layers \subseteq Surfaces` (`WindowLifecycle`); 0 is no size (`FramePacing`,
`GraphicsBuffers`), no descriptor, inode or buffer (`GraphicsBuffers`), since it
stands for none; pacman is attempted at least once (`Startup`); the ring has two or
more samples, and the number of values of a position is a multiple of that
(`AudioRing`; the code makes the capacity a power of two, so its mask is the
remainder); the wide characters are characters and the default input type is an input
type (`ImeEditing`). `FifoImplemented` assumes two things more. `"any" \notin Loads`: no
overrun overlaps a read; without it the claim is false, as `ring_overrun`
shows. `MaxWrite <= Capacity`: a process callback brings no more than the buffer
holds. The code does not check the latter and relies on PipeWire to bring
no more than its 4096 frames at a time (`stream.rs:13`).

| Theorem | Module | States |
|---|---|---|
| `Typing` | `WindowLifecycleProofs` | `TypeOK` always |
| `ClosingIsSafe` | `WindowLifecycleProofs` | `ClosingMeansRemoved` always |
| `OneActivity` | `WindowLifecycleProofs` | `OneActivityPerWindow` always |
| `NativeFollows` | `WindowLifecycleProofs` | `NativeWindowFollowsSurface` always |
| `RegistryIsExact` | `WindowLifecycleProofs` | `RegisteredIsCreated` always |
| `SurfacesStayManaged` | `ManagedProofs` | `LiveSurfaceManaged` always |
| `RestartsKeepSurfaces` | `ManagedProofs` | `LiveSurfaceManaged` always, under `RestartSpec` |
| `ToldOnlyIfRemoved` | `ManagedProofs` | `ToldIsRemoved` always, under `RestartSpec` |
| `RestartTyping` | `ManagedProofs` | `TypeOK` always, under `RestartSpec` |
| `SessionImplemented` | `ManagedProofs` | `ImplementsSession` |
| `FrameTypes` | `FramePacingProofs` | `TypeOK` always |
| `ProducerIsUnique` | `FramePacingProofs` | `OneProducer` always |
| `FramesInFlightAreUnique` | `FramePacingProofs` | `OneFrameInFlight` always |
| `BufferTypes` | `GraphicsBuffersProofs` | `TypeOK` always |
| `TrackerIsRight` | `GraphicsBuffersProofs` | `TrackedIsItsBuffer` always |
| `ImportsAreRecycled` | `GraphicsBuffersProofs` | `StaleImportIsRecycled` always |
| `GpuWorkStaysIntact` | `GraphicsBuffersProofs` | `GpuWorkIntact` always |
| `RingTypes` | `AudioRingProofs` | `TypeOK` always |
| `FifoImplemented` | `AudioRingProofs` | `ImplementsFifo` |
| `KeyboardFollows` | `ImeEditingProofs` | `KeyboardFollowsSession` always |
| `EditingTypes` | `ImeEditingProofs` | `TypeOK` always |
| `FieldStaysAlike` | `ImeEditingProofs` | `FieldAgrees` always |
| `CompositionIsTracked` | `ImeEditingProofs` | `ComposingTracked` always |
| `StartupTypes` | `StartupProofs` | `TypeOK` always |
| `RootfsWhole` | `StartupProofs` | `RootfsIsWhole` always |
| `RootfsStays` | `StartupProofs` | `RootfsKept` |
| `ServicesFindAll` | `StartupProofs` | `ServicesReady` always |
| `SetupIsComplete` | `StartupProofs` | `SetupConverges` always |
| `PortalTypes` | `PortalBridgeProofs` | `TypeOK` always |
| `FilesAreOwn` | `PortalBridgeProofs` | `FilesComeFromOwnChooser` always |
| `ChannelIsOneShot` | `PortalBridgeProofs` | `OneShot` always |
| `PendingHasHandler` | `PortalBridgeProofs` | `PendingIsAwaited` always |
| `SenderStays` | `PortalBridgeProofs` | `WaitingCanBeAnswered` always |
| `HandlersEnd` | `PortalBridgeProofs` | `NoHandlerLeftBehind` always |

Few of the properties are inductive as they stand. The strengthenings were
checked with TLC before they were proved.

### WindowLifecycle

1. `TypeInv` is `TypeOK` and: an Activity in use has a window id. Without the
   latter the events it sends need not be well-typed.
2. `IdInv` adds that ids in use are below `next_id`, that the registry names created
   Activities under their own ids, and that unused records are blank. Ids are
   never reused, so what is posted to the Activity of a removed window can never
   concern a later one: `ClosingMeansRemoved`.
3. `OneInv` is about the events under way, `batch \o channel`. Its heart is
   `CloseIsLastWord`: a close request that will find no native window when it
   is handled is the last event of its window, and no Activity of the window is left. So
   the relaunch it prepares cannot make a second Activity. Its counterpart,
   `LaunchIsClean`, says that a window that may be launched has no Activity, no
   native window and no event under way. `NativeWindowFollowsSurface` is part of
   the induction, since it ties the flag the compositor will see to the surface the
   Activity has. Lemmas about appending to and taking from the queue
   (`NativeAppend`, `NativeAppendLast`, `NativeTail`) carry it; each step of the
   program is then quiet, sends, handles, adopts or launches.
4. `ManagedInv` says that the pending lists are empty after *adopt*, which is why a
   surface created and destroyed within one dispatch is adopted before it is
   finished, and that `WindowClosed(is_finishing)` is only under way for removed
   windows. It rests on `RemovalInv` (below) instead of 2 and 3, so that it also holds
   after a death of the process.

5. The refinement maps a surface with a window to `managed`, one not created or
   still pending to `absent`, any other to `retired`; it is shown by the
   Activities of its window. `ManagedInv` keeps these cases apart and
   says that an adopted surface had no window and a finished one is not pending;
   `IdInv` that no Activity has the fresh id of an adopted one; `OneInv` that the
   window of a launch has no Activity. So `new_window` is `Adopt`,
   `launch_activity` is `Launch` unless Android refuses it, `finish_destroyed` is `Retire`
   or nothing, and a callback is `End` or nothing. Everything else, including each
   event the compositor handles, is a stutter: an event removes a window
   only if it says that the Activity of a removed one has finished.

### WindowRestart

After a death most of the above is lost: an Activity that Android restores may carry an id
that the new process has not given out yet, or gives to another window, so neither "ids in
use are below `next_id`" nor "one Activity per window" holds, and the registry may lose the entry of a
newer Activity to `onDestroy` of an older one. What survives is about what *this* process has
done (`RemovalInv`): it posts a finish only to the Activity registered under the id of a window it
removes, and an id it has removed does not come back while it lives (`Removed`).
So `WindowClosed(is_finishing)`, which only an Activity that was told to finish reports, never
meets a window in use, and no restored Activity can make the compositor forget a
client. A death itself leaves no window, no event and no finish under way. An
Activity that had been told to finish does not come back: Android was finishing it already
(`ClosingIsFinishing`). These theorems have no run among the above; the
invariants were checked with TLC on two surfaces and two records before they were proved.

### FramePacing

The renderer is a composition of operators on one window, so the invariant is one
about what each of them leaves behind. `Sound(w, g)`: the window has one producer,
and its AHB surface is among the `g` that were made. `Orderly(flags, queue, g)`: no
AHB surface has two transactions under way, and each that has one has its
flag set. The flag belongs to a generation, so a late completion of an old AHB
surface clears the old flag only; with one flag for each window this would fail.

### GraphicsBuffers

Whatever the compositor can reach by a number holds its memory, so the number is not given
out again: descriptors in use differ, the tracker names a buffer by its
own inode, and a cached import is filed under the descriptor of its buffer unless the
buffer is gone (`CachedByFd`). The last is what makes a stale import one of a *destroyed*
buffer. For the GPU, `JobIsInFlight`: a frame that is not executed belongs to a
window that has gone or has `frame_in_flight` set and its target in place. A second
frame of the window waits for the flag, and a resize waits for the device.

### AudioRing

Each word stands for a stream position: `head` for the number of samples
published, `tail` for that number less those in the queue (`Positions`), which are at
most `Capacity`. Since `Word` is a multiple of `Capacity` the slot of a position
does not depend on the wraps (`ModMod`), differences of words are differences of
positions (`Distance`), and positions less than `Capacity` apart have different
slots (`SlotsDiffer`). `Holds` says that the slots from the first position of the
queue on hold their samples. `Writing` and `Reading` say that what each
callback has loaded is still true when it uses it: the producer copies only into
slots outside the queue, and the consumer's `tail` is the one it stores over. `ReadPublish`
is then the queue's `Read`, `WritePublish` its `Write`, `WriteDrop` its `Drop`, and each
other step a stutter. `Reading` is what an overrun during a read breaks.
`RingTypes` needs none of this and holds under every load.

### ImeEditing

*The text.* A *stage* of an edit is the text to the left and to the right of a composition
and the composition (`Stage`). The Editable is at one (`EditorStage`), and so is the
client's field (`Rep`): what the compositor tracks of the composition is in the preedit during a
session and in the text outside one. `Effect` says which stage an event makes of which,
and does not mention sessions. `Agree` is the invariant: there is a stage the field
represents from which the events under way lead, one after another, to that of the
Editable (`Leads`). Each call of the IME appends events that
lead from the old stage of the Editable to the new one
(`SetComposingLeads` to `DeleteLeads`). Each event handled takes the field one stage
on, by whichever of the two ways the code takes (`ComposingHandled` to `KeyHandled`). A
session that begins or ends resets the preedit and leaves the stage alone (`ResetKeeps`).
`EditorInv`, that `composingText` is the text of the region, is needed because
`finishComposingText` sends the former and Android keeps the latter. With nothing under way
both are at the same stage, which is `FieldAgrees`; `ComposingTracked` is a part of `Rep`.
All of this speaks of states in which `astray` is not set; `TypeOK` holds in the others too.

The steps rest on lemmas about texts: what the edits make of a text put together from
three (`SpliceIs`, `InsertedIs`, `BackspacedIs` and so on), how many characters a
number of bytes is (`BytesBeforeIs`, `BytesAfterIs`), what keys type for a text
(`KeysTyped`) and that the longest common prefix is what `LongestCommonPrefix` chooses
(`CommonIs`). They hold for texts of every length and need induction. The library's
induction theorems take operators, so the module uses sets instead: a non-empty
set of naturals has a least element (`LeastElement`, from the well-foundedness of `<`), and
one that holds 0 and each successor holds every natural (`SetInduction`).

*The keyboard.* What it will do in the end is decided by the latest request (`Latest`): the one
the compositor still holds, or else the last one posted, or else what the
Activity shows. `LatestFollows` says that it agrees with the session. A commit of
the client replaces the request that is held, posting it and carrying out all but the
last posted one do not change which is the latest, and carrying out the last makes the
keyboard what it said. A text_input that is destroyed ends its session without a
request, which is why the property asks for a live one.

### Startup

There is one process at a time, so each claim about the disk is a claim about where its
threads are. `InOrder` says that neither thread runs before `nativeInit` has ended and
the services only after the setup. `Unpacked` says that the steps that remove or
replace the rootfs are reached only when it is not a whole one, with a whole one at hand.
`Linked` follows the link to the keymaps through the places that make, remove and repair it,
and says that it is `removed` only while one of them is about to make it again.
`Probed` says that a setup past its first stage has found a mode of proot that passes the
probe, and that dependencies were only installed where commands run.
`Progress` says that each finished stage has left its mark, unless one
gave up. A death resets the threads and touches none of the claims about the
disk alone.

### PortalBridge

A sender of a request's channel is in one of two places, the event under way and the entry
of `PENDING`. `EventOnce` and `EventFirst` say that the event is sent once and
consumed before there is a chooser; `Answers` and `Waiting` that the entry of a
request whose id nobody shares stays until the response is taken through it, after
which no sender is left that a chooser could reach. `Files` carries, from the chooser through
channel, socket and daemon to the app, that the files are those of choosers opened under the
request's id.

### Only model-checked

Liveness and fairness, which the prover does not cover: in `WindowLifecycle`
`PostedFinishEndsActivity`, `UserCloseReachesClient` and `RefusedCloseRelaunches`; in
`FramePacing` `NewestFrameShown` and `AnsweredUnlessFrozen`; in `PortalBridge`
`EveryRequestAnswered`; in `Startup` `SetupEnds` and `SinksConnect`; and
`EverySamplePlayed` of the ring. Every invariant and every action property of a passing
run has a theorem. (`OwnActivity` of `WindowRestart` is a claim the code breaks.)

---

## 5. What is not modelled

* **GPU work**: the commands of EGL and Vulkan, the layout of images, the geometry of
  blits. `FramePacing` has their control flow and failures, `GraphicsBuffers` what
  they use and when it is destroyed. The shm path of the blit is called by nobody.
* **Reference counts** of native windows. **A window whose launch failed** is in
  the model; that it is never shown is what the code does.
* **Focus between windows and clients**, popups, and a second text_input object.
* **The Settings portal**, the death of the daemon, malformed requests.
* **The contents of files** the setup writes, and with them a death in the middle of a
  stage (section 2), the overlay of the log, WirePlumber,
  the start of an app from its desktop entry.
* **Camera frames**: conversion of pixels, and one shared frame behind a mutex.
* **Pointer, touch and keys**: a translation whose state is smithay's.
* **Launcher, debug screens, shims, scripts, build, vendored code**, for the reasons
  given under `components`. Nine tenths of the source lines are the generated
  bindings of `patches/ndk-sys` (82 000 lines of constants and declarations, with
  nothing that runs), so the lines mapped in PROJECT.json are a small part of all and
  a large part of the files that keep state.

---

## 6. Plan

In this order, the behaviour that matters most first.

Models:

1. *Focus of text input*: several windows and clients in `ImeEditing`:
   `focus_changed`, `GetTextInput`, `ensure_ime_focus`, popups, a session that stays active when
   the focus leaves its client (`text_input.rs:53`, `:323`, `ime.rs:12`).
2. *Native windows*: the reference taken in `jni_exports.rs` and released in
   `remove_window` only, as part of `WindowLifecycle`.
3. *Modifiers*: `handle_activity_key` releases modifiers that Android no longer
   reports (`input.rs:248-274`).
4. *The command buffer of several windows* in `GraphicsBuffers`: what the GPU may
   show when it is recorded again under a frame of another window.

Theorems: what the models above will need; of the present ones every invariant and action
property is proved.
