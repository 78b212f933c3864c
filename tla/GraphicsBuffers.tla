--------------------------- MODULE GraphicsBuffers ---------------------------
(***************************************************************************)
(* The graphics memory of the clients on its way to the screen, and what   *)
(* the compositor remembers about it: the tracker of the buffers its GBM   *)
(* server allocated, the Vulkan imports it caches by file descriptor, and  *)
(* the objects its one command buffer uses until the GPU is done.          *)
(*                                                                         *)
(* Clients, the GPU, SurfaceFlinger and the threads of the GBM server run  *)
(* concurrently with the compositor thread, whose tick is the phases       *)
(* finish, events, dispatch, render.  File descriptors and inodes are      *)
(* numbers the kernel gives out again as soon as nothing holds them.       *)
(*                                                                         *)
(* Every client has one surface and buffers of its own.  The windows are   *)
(* those of clients already shown; FramePacing has the wake-ups and frame  *)
(* callbacks.  Left out: what the GPU shows when the command buffer is     *)
(* recorded again under the frame of another window, shm buffers, the      *)
(* geometry.                                                               *)
(***************************************************************************)
EXTENDS Naturals, Sequences, Functions

CONSTANTS
  Surfaces,  \* the surfaces, each of another client
  Buffers,   \* the buffers the clients may ever allocate
  Fds,       \* file descriptors of the compositor for the clients' buffers
  Inodes,    \* inode numbers of dmabufs
  Sizes      \* sizes of buffers

ASSUME SizesAssumption  == Sizes \subseteq Nat \ {0}
ASSUME NumbersAssumption == 0 \notin Fds \cup Inodes \cup Buffers

VARIABLES
  \* The clients
  buffer,    \* their buffers, for each of Buffers
  surface,   \* live or gone
  \* The compositor thread
  phase,     \* where it is in compositor_tick
  todo,      \* windows still to be rendered in this tick
  destroyed, \* State.destroyed_toplevels
  current,   \* the buffer each surface has committed, or 0
  windows,   \* WindowManager.windows: surface -> the render part of WindowState
  cache,     \* VulkanRenderer.dmabuf_cache: fd -> ImportedDmabuf
  leaked,    \* buffers whose import was replaced in the cache and never freed
  staging,   \* size of VulkanRenderer.staging_cache, or 0
  \* The GBM server, shared under its mutex
  tracker,   \* AhbBufferTracker.buffers: inode -> buffer
  \* The GPU
  jobs       \* blits submitted and not executed yet

clientVars == <<buffer, surface>>
windowVars == <<todo, destroyed, current, windows>>
vulkanVars == <<cache, leaked, staging, jobs>>
vars == <<clientVars, phase, windowVars, vulkanVars, tracker>>

-----------------------------------------------------------------------------
(* owner, size, inode and fd are 0 while there is none.                    *)
ClientBuffer ==
  [state : {"none", "allocated", "live", "gone"}, owner : Surfaces \cup {0},
   size  : Sizes \cup {0}, inode : Inodes \cup {0}, fd : Fds \cup {0}]

(* The AHB surface has a target of the given size, or 0: none.             *)
WindowState ==
  [native_window : BOOLEAN, ahb_surface : BOOLEAN, ahb_target : Sizes \cup {0},
   frame_in_flight : BOOLEAN, needs_redraw : BOOLEAN,
   last_buffer_size : Sizes \cup {0}]

(* buffer is what the window has committed, source the memory that the     *)
(* recorded commands read.  intact: nothing they use has been destroyed.   *)
Job == [surface : Surfaces, buffer : Buffers, source : Buffers, intact : BOOLEAN]

IsMap(f, K, V) == DOMAIN f \subseteq K /\ f \in [DOMAIN f -> V]

TypeOK ==
  /\ buffer \in [Buffers -> ClientBuffer]
  /\ surface \in [Surfaces -> {"live", "gone"}]
  /\ phase \in {"finish", "events", "dispatch", "render"}
  /\ todo \subseteq DOMAIN windows
  /\ destroyed \subseteq Surfaces
  /\ current \in [Surfaces -> Buffers \cup {0}]
  /\ IsMap(windows, Surfaces, WindowState)
  /\ IsMap(cache, Fds, [buffer : Buffers, surface : Surfaces])
  /\ leaked \subseteq Buffers
  /\ staging \in Sizes \cup {0}
  /\ IsMap(tracker, Inodes, Buffers)
  /\ jobs \in Seq(Job)

Init ==
  /\ buffer = [b \in Buffers |->
       [state |-> "none", owner |-> 0, size |-> 0, inode |-> 0, fd |-> 0]]
  /\ surface = [s \in Surfaces |-> "live"]
  /\ phase = "finish"
  /\ todo = {}
  /\ destroyed = {}
  /\ current = [s \in Surfaces |-> 0]
  /\ windows = [s \in Surfaces |->
       [native_window |-> TRUE, ahb_surface |-> FALSE, ahb_target |-> 0,
        frame_in_flight |-> FALSE, needs_redraw |-> TRUE, last_buffer_size |-> 0]]
  /\ cache = << >>
  /\ leaked = {}
  /\ staging = 0
  /\ tracker = << >>
  /\ jobs = << >>

-----------------------------------------------------------------------------
Put(f, k, v) == [x \in DOMAIN f \cup {k} |-> IF x = k THEN v ELSE f[x]]
Drop(f, k)   == [x \in DOMAIN f \ {k} |-> f[x]]

(* What keeps the memory of a buffer: the client, the descriptor of a      *)
(* wl_buffer (also of a destroyed one that is still attached), the dmabuf  *)
(* and the AHB in the tracker, an import.                                  *)
HeldByTracker_Nothing == {}   \* mutant
HeldByTracker == Range(tracker)
HeldByImport  == {cache[fd].buffer : fd \in DOMAIN cache} \cup leaked

Exists(b) ==
  \/ buffer[b].state \in {"allocated", "live"}
  \/ buffer[b].fd # 0
  \/ b \in HeldByTracker \cup HeldByImport

FreeInodes == Inodes \ {buffer[b].inode : b \in {c \in Buffers : Exists(c)}}
FreeFds    == Fds \ {buffer[b].fd : b \in Buffers}

-----------------------------------------------------------------------------
(* The GBM server tracks the AHB it allocates by the inode of its dmabuf.  *)
(* If the response cannot be sent the buffer stays tracked.  MSG_DESTROY   *)
(* does nothing, so it is no action here.                                  *)
NewBuffer(b, s, z, i, fd, state) ==
  /\ buffer[b].state = "none"
  /\ i \in FreeInodes
  /\ buffer' = [buffer EXCEPT ![b] = [state |-> state, owner |-> s, size |-> z,
                                      inode |-> i, fd |-> fd]]

handle_alloc(b, s, z, i) ==
  /\ \/ surface[s] = "live" /\ NewBuffer(b, s, z, i, 0, "allocated")
     \/ NewBuffer(b, s, z, i, 0, "gone")
  /\ tracker' = Put(tracker, i, b)
  /\ UNCHANGED <<surface, phase, windowVars, vulkanVars>>

-----------------------------------------------------------------------------
(* Requests of the clients, handled in dispatch_clients.                   *)
Dispatched == phase = "dispatch" /\ UNCHANGED <<phase, todo, vulkanVars, tracker>>

(* zwp_linux_buffer_params_v1.create: the descriptor of a buffer arrives   *)
(* in the compositor.  It is one of the server's, or memory that the       *)
(* driver of the client has allocated.                                     *)
dmabuf_imported(b, fd) ==
  /\ Dispatched
  /\ fd \in FreeFds
  /\ \/ /\ buffer[b].state = "allocated"
        /\ surface[buffer[b].owner] = "live"
        /\ buffer' = [buffer EXCEPT ![b].state = "live", ![b].fd = fd]
     \/ \E s \in Surfaces, z \in Sizes, i \in Inodes :
          surface[s] = "live" /\ NewBuffer(b, s, z, i, fd, "live")
  /\ UNCHANGED <<surface, destroyed, current, windows>>

(* A destroyed wl_buffer keeps its descriptor while it is attached.        *)
Detached(bs, s) ==
  [b \in Buffers |->
    IF b = current[s] /\ bs[b].state = "gone" THEN [bs[b] EXCEPT !.fd = 0] ELSE bs[b]]

commit(b) ==
  LET s == buffer[b].owner
  IN  /\ Dispatched
      /\ buffer[b].state = "live"
      /\ surface[s] = "live"
      /\ current' = [current EXCEPT ![s] = b]
      /\ buffer' = Detached(buffer, s)
      /\ windows' = [windows EXCEPT ![s].needs_redraw = TRUE]
      /\ UNCHANGED <<surface, destroyed>>

buffer_destroyed_Closes(b) ==   \* mutant
  /\ Dispatched
  /\ buffer[b].state \in {"allocated", "live"}
  /\ buffer' = [buffer EXCEPT ![b].state = "gone", ![b].fd = 0]
  /\ UNCHANGED <<surface, destroyed, current, windows>>
buffer_destroyed(b) ==
  /\ Dispatched
  /\ buffer[b].state \in {"allocated", "live"}
  /\ buffer' = [buffer EXCEPT ![b].state = "gone",
                  ![b].fd = IF \E s \in Surfaces : current[s] = b THEN @ ELSE 0]
  /\ UNCHANGED <<surface, destroyed, current, windows>>

(* The client destroys its toplevel and the wl_surface with it.            *)
toplevel_destroyed(s) ==
  /\ Dispatched
  /\ surface[s] = "live"
  /\ surface' = [surface EXCEPT ![s] = "gone"]
  /\ destroyed' = destroyed \cup {s}
  /\ current' = [current EXCEPT ![s] = 0]
  /\ buffer' = Detached(buffer, s)
  /\ UNCHANGED windows

-----------------------------------------------------------------------------
(* device_wait_idle: all submitted work has been executed.                 *)
device_wait_idle_Missing(js) == js   \* mutant
device_wait_idle(js) == << >>

(* What is left of the work on the GPU when something it uses, in the jobs *)
(* of the surfaces in S, is destroyed.                                     *)
Torn(js, S) ==
  [i \in DOMAIN js |->
    IF js[i].surface \in S THEN [js[i] EXCEPT !.intact = FALSE] ELSE js[i]]

destroy_ahb_target(s) == Torn(device_wait_idle(jobs), {s})

WithoutAhb(w) ==
  [w EXCEPT !.ahb_surface = FALSE, !.ahb_target = 0, !.frame_in_flight = FALSE]

-----------------------------------------------------------------------------
(* The compositor thread.                                                  *)
Goto(from, to) == phase = from /\ phase' = to

(* A window of a destroyed surface is removed and its AHB target is never  *)
(* freed.  All imports are, without waiting for the GPU, which may read    *)
(* one of them for a frame of any window: intact leaves that out.          *)
clear_dmabuf_cache_Missing == UNCHANGED cache   \* mutant
clear_dmabuf_cache == cache' = << >>

finish_destroyed(s) ==
  /\ phase = "finish"
  /\ s \in destroyed
  /\ destroyed' = destroyed \ {s}
  /\ windows' = Drop(windows, s)
  /\ clear_dmabuf_cache
  /\ UNCHANGED <<clientVars, phase, todo, current, leaked, staging, jobs, tracker>>

FinishDone ==
  /\ Goto("finish", "events")
  /\ destroyed = {}
  /\ UNCHANGED <<clientVars, windowVars, vulkanVars, tracker>>

HandleSurfaceCreated(s) ==
  /\ phase = "events"
  /\ ~windows[s].native_window
  /\ windows' = [windows EXCEPT ![s].native_window = TRUE]
  /\ UNCHANGED <<clientVars, phase, todo, destroyed, current, vulkanVars, tracker>>

HandleSurfaceChanged(s) ==
  /\ phase = "events"
  /\ windows[s].native_window
  /\ ~windows[s].ahb_surface
  /\ windows' = [windows EXCEPT ![s].needs_redraw = TRUE]
  /\ UNCHANGED <<clientVars, phase, todo, destroyed, current, vulkanVars, tracker>>

HandleSurfaceDestroyed(s) ==
  /\ phase = "events"
  /\ windows[s].native_window
  /\ jobs' = IF windows[s].ahb_target # 0 THEN destroy_ahb_target(s) ELSE jobs
  /\ windows' = [windows EXCEPT ![s] = [WithoutAhb(@) EXCEPT !.native_window = FALSE]]
  /\ UNCHANGED <<clientVars, phase, todo, destroyed, current, cache, leaked, staging, tracker>>

EventsDone ==
  /\ Goto("events", "dispatch")
  /\ UNCHANGED <<clientVars, windowVars, vulkanVars, tracker>>

DispatchDone ==
  /\ Goto("dispatch", "render")
  /\ todo' = {s \in DOMAIN windows : windows[s].native_window}
  /\ UNCHANGED <<clientVars, destroyed, current, windows, vulkanVars, tracker>>

RenderDone ==
  /\ Goto("render", "finish")
  /\ todo = {}
  /\ UNCHANGED <<clientVars, windowVars, vulkanVars, tracker>>

-----------------------------------------------------------------------------
(* try_render_vulkan_dmabuf.                                               *)
Rendering(s) ==
  /\ phase = "render"
  /\ s \in todo
  /\ todo' = todo \ {s}
  /\ UNCHANGED <<clientVars, phase, destroyed, current, tracker>>

MayPresent(w) == w.needs_redraw /\ ~w.frame_in_flight

Presented(w, z) ==
  [w EXCEPT !.frame_in_flight = TRUE, !.needs_redraw = FALSE, !.last_buffer_size = z]

(* Zero-copy: a tracked buffer of the size of the last frame, while the    *)
(* switch of the debug screen, which may be turned at any time, is on.     *)
lookup(b) == buffer[b].inode \in DOMAIN tracker
ZeroCopy(s) ==
  LET b == current[s]
  IN  b # 0 /\ lookup(b) /\ windows[s].last_buffer_size = buffer[b].size

WithDirect(w) ==
  IF w.ahb_surface THEN w ELSE [w EXCEPT !.ahb_surface = TRUE, !.needs_redraw = TRUE]

PresentDirectly(s) ==
  /\ Rendering(s)
  /\ ZeroCopy(s)
  /\ LET w == WithDirect(windows[s])
     IN  /\ ~w.needs_redraw \/ MayPresent(w)
         /\ windows' = [windows EXCEPT ![s] =
              IF w.needs_redraw THEN Presented(w, buffer[current[s]].size) ELSE w]
  /\ UNCHANGED vulkanVars

(* The blit path.  A missing target is created, one of another size is     *)
(* replaced, which waits for the GPU; creating it may fail.                *)
WithTarget(w, z) ==
  [w EXCEPT !.ahb_surface = TRUE, !.ahb_target = z, !.frame_in_flight = FALSE,
            !.needs_redraw = TRUE]

NeedsResize(w, z) == w.ahb_target \notin {0, z}

AfterTarget(w, z) ==
  IF ~w.ahb_surface THEN {WithTarget(w, z), w}
  ELSE IF NeedsResize(w, z) THEN {WithTarget(w, z), WithoutAhb(w)}
  ELSE {w}

JobsAfterTarget(s, z) ==
  IF NeedsResize(windows[s], z) THEN destroy_ahb_target(s) ELSE jobs

(* get_or_import_dmabuf: a hit needs the size of the cached import, and a  *)
(* miss replaces what is cached under the descriptor without freeing it.   *)
CacheHit_AnySize(b) == buffer[b].fd \in DOMAIN cache   \* mutant
CacheHit(b) ==
  /\ buffer[b].fd \in DOMAIN cache
  /\ buffer[cache[buffer[b].fd].buffer].size = buffer[b].size

Evicted(b) ==
  IF ~CacheHit(b) /\ buffer[b].fd \in DOMAIN cache
  THEN {cache[buffer[b].fd].buffer}
  ELSE {}

get_or_import_dmabuf(b) ==
  /\ cache' = IF CacheHit(b) THEN cache
              ELSE Put(cache, buffer[b].fd, [buffer |-> b, surface |-> buffer[b].owner])
  /\ leaked' = leaked \cup Evicted(b)

(* blit_dmabuf_to_ahb: the command buffer is recorded, with the staging    *)
(* image made anew for another size, and submitted.                        *)
get_or_create_staging(z, js) ==
  IF staging \in {0, z} THEN js ELSE Torn(device_wait_idle(js), Surfaces)

BlitAndPresent(s, w, js) ==
  LET b == current[s]  z == buffer[b].size
  IN  /\ w.ahb_target # 0 /\ MayPresent(w)
      /\ get_or_import_dmabuf(b)
      /\ \/ /\ staging' = z
            /\ jobs' = Append(get_or_create_staging(z, js),
                 [surface |-> s, buffer |-> b, source |-> cache'[buffer[b].fd].buffer,
                  intact |-> TRUE])
            /\ windows' = [windows EXCEPT ![s] = Presented(w, z)]
         \/ /\ \/ UNCHANGED staging /\ jobs' = js   \* the blit fails, or its new image
               \/ /\ staging # z
                  /\ staging' \in {0, z}
                  /\ jobs' = get_or_create_staging(z, js)
            /\ windows' = [windows EXCEPT ![s] = w]

RenderBlit(s) ==
  /\ Rendering(s)
  /\ current[s] # 0
  /\ LET z  == buffer[current[s]].size
         js == JobsAfterTarget(s, z)
     IN  \E w \in AfterTarget(windows[s], z) :
           \/ BlitAndPresent(s, w, js)
           \/ /\ windows' = [windows EXCEPT ![s] = w]   \* nothing to do, or a failure
              /\ jobs' = js
              /\ UNCHANGED <<cache, leaked, staging>>

RenderNothing(s) ==
  /\ Rendering(s)
  /\ current[s] = 0
  /\ UNCHANGED <<windows, vulkanVars>>

-----------------------------------------------------------------------------
(* The GPU executes what was submitted, in order.  SurfaceFlinger          *)
(* completes a frame after the fence of its blit.                          *)
GpuDone ==
  /\ jobs # << >>
  /\ jobs' = Tail(jobs)
  /\ UNCHANGED <<clientVars, phase, windowVars, cache, leaked, staging, tracker>>

OnComplete(s) ==
  /\ windows[s].frame_in_flight
  /\ \A i \in DOMAIN jobs : jobs[i].surface # s
  /\ windows' = [windows EXCEPT ![s].frame_in_flight = FALSE]
  /\ UNCHANGED <<clientVars, phase, todo, destroyed, current, vulkanVars, tracker>>

-----------------------------------------------------------------------------
Client ==
  \/ \E s \in Surfaces : toplevel_destroyed(s)
  \/ \E b \in Buffers :
       \/ \E s \in Surfaces, z \in Sizes, i \in Inodes : handle_alloc(b, s, z, i)
       \/ \E fd \in Fds : dmabuf_imported(b, fd)
       \/ commit(b) \/ buffer_destroyed(b)

Compositor ==
  \/ FinishDone \/ EventsDone \/ DispatchDone \/ RenderDone
  \/ \E s \in Surfaces : finish_destroyed(s)
  \/ \E s \in DOMAIN windows :
       HandleSurfaceCreated(s) \/ HandleSurfaceChanged(s) \/ HandleSurfaceDestroyed(s)
  \/ \E s \in Surfaces : PresentDirectly(s) \/ RenderBlit(s) \/ RenderNothing(s)

Next == Client \/ Compositor \/ GpuDone \/ \E s \in DOMAIN windows : OnComplete(s)

Spec == Init /\ [][Next]_vars

-----------------------------------------------------------------------------
(* A buffer found in the tracker is the one that was allocated there: its  *)
(* inode cannot become that of other memory while the tracker has it.      *)
TrackedIsItsBuffer ==
  \A b \in Buffers :
    Exists(b) /\ buffer[b].inode \in DOMAIN tracker => tracker[buffer[b].inode] = b

(* No import outlives the window it was made for, so a new client whose    *)
(* descriptor is that of an earlier one does not find its memory.  And     *)
(* where a frame is not read from the committed buffer, the descriptor of  *)
(* a destroyed buffer has become that of another of the same size.         *)
StaleImportIsRecycled ==
  /\ \A fd \in DOMAIN cache : cache[fd].surface \in DOMAIN windows
  /\ \A i \in DOMAIN jobs :
       LET j == jobs[i]
       IN  j.source # j.buffer =>
             /\ buffer[j.source].state = "gone"
             /\ buffer[j.source].size = buffer[j.buffer].size

(* The command buffer is not recorded again under a frame of the same      *)
(* window, and no target and no staging image is destroyed under a frame   *)
(* that uses it: frame_in_flight and the waits of the resizes see to that. *)
GpuWorkIntact ==
  \A i \in DOMAIN jobs :
    /\ jobs[i].intact
    /\ \A k \in DOMAIN jobs : jobs[k].surface = jobs[i].surface => k = i
=============================================================================
