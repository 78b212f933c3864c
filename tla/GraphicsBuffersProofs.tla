------------------------- MODULE GraphicsBuffersProofs -------------------------
(***************************************************************************)
(* The tracker, the import cache and the command buffer are right about    *)
(* the memory they name, for every number of clients, buffers, descriptors *)
(* and inodes.                                                             *)
(*                                                                         *)
(* Two facts carry the argument.  Whatever the compositor can reach holds  *)
(* its memory, so the number it is known by is not given out again; and a  *)
(* job of a window that is still there has that window's frame in flight.  *)
(***************************************************************************)
EXTENDS GraphicsBuffers, TLAPS, SequenceTheorems

-----------------------------------------------------------------------------
(* The inductive invariant: the buffers.                                   *)

LiveHasFd ==
  \A b \in Buffers :
    /\ buffer[b].state = "live" => buffer[b].fd # 0
    /\ buffer[b].state = "allocated" => buffer[b].fd = 0

(* What a surface shows is its own and still has its descriptor. *)
CurrentIsOwn ==
  \A s \in Surfaces : current[s] # 0 =>
    /\ buffer[current[s]].owner = s
    /\ buffer[current[s]].fd # 0

FdsDiffer ==
  \A b, c \in Buffers : buffer[b].fd # 0 /\ buffer[b].fd = buffer[c].fd => b = c

(* Only a buffer that was made is known anywhere. *)
Made(b) == buffer[b].state # "none"

OnlyMadeIsKnown ==
  /\ \A b \in Buffers : buffer[b].fd # 0 => Made(b)
  /\ \A i \in DOMAIN tracker : Made(tracker[i])
  /\ \A fd \in DOMAIN cache : Made(cache[fd].buffer)
  /\ \A b \in leaked : Made(b)
  /\ \A i \in DOMAIN jobs : Made(jobs[i].buffer) /\ Made(jobs[i].source)

MadeIsWhole ==
  \A b \in Buffers : Made(b) => buffer[b].owner \in Surfaces /\ buffer[b].size \in Sizes

TrackerHasInodes == \A i \in DOMAIN tracker : buffer[tracker[i]].inode = i

(* The inductive invariant: the imports.                                   *)

CachedByFd ==
  \A fd \in DOMAIN cache :
    LET c == cache[fd].buffer
    IN  buffer[c].state = "gone" \/ buffer[c].fd = fd

(* The inductive invariant: the GPU.                                       *)

TargetOfSurface ==
  \A s \in DOMAIN windows : windows[s].ahb_target # 0 => windows[s].ahb_surface

JobIsInFlight ==
  \A i \in DOMAIN jobs : jobs[i].surface \in DOMAIN windows =>
    /\ windows[jobs[i].surface].frame_in_flight
    /\ windows[jobs[i].surface].ahb_target # 0

BufferInv ==
  /\ LiveHasFd /\ CurrentIsOwn /\ FdsDiffer /\ OnlyMadeIsKnown /\ MadeIsWhole
  /\ TrackerHasInodes /\ TrackedIsItsBuffer

ImportInv == CachedByFd /\ StaleImportIsRecycled

GpuInv == TargetOfSurface /\ JobIsInFlight /\ GpuWorkIntact

(* Outside the rendering no window is left to be rendered. *)
TodoInRender == phase # "render" => todo = {}

Inv == TypeOK /\ TodoInRender /\ BufferInv /\ ImportInv /\ GpuInv

-----------------------------------------------------------------------------
(* Maps.                                                                   *)

LEMMA PutType ==
  ASSUME NEW K, NEW V, NEW f, IsMap(f, K, V), NEW k \in K, NEW v \in V
  PROVE  IsMap(Put(f, k, v), K, V)
  BY DEF IsMap, Put

LEMMA DropType ==
  ASSUME NEW K, NEW V, NEW f, IsMap(f, K, V), NEW k
  PROVE  IsMap(Drop(f, k), K, V)
  BY DEF IsMap, Drop

LEMMA AssignType ==
  ASSUME NEW K, NEW V, NEW f, IsMap(f, K, V), NEW k, NEW v, k \in DOMAIN f => v \in V
  PROVE  IsMap([f EXCEPT ![k] = v], K, V)
  BY DEF IsMap

-----------------------------------------------------------------------------
(* What a request does to the buffers of the clients.                      *)

Same(b, c) == c.owner = b.owner /\ c.size = b.size /\ c.inode = b.inode

(* A buffer once made keeps what it is, and does not come back.            *)
Lasts ==
  \A b \in Buffers : Made(b) =>
    /\ Same(buffer[b], buffer'[b])
    /\ buffer'[b].state # "none"
    /\ buffer[b].state = "gone" => buffer'[b].state = "gone"
    /\ buffer'[b].fd # buffer[b].fd => buffer[b].fd = 0 \/ buffer'[b].state = "gone"

LEMMA NewBufferEffect ==
  ASSUME Inv, NEW b \in Buffers, NEW s \in Surfaces, NEW z \in Sizes, NEW i \in Inodes,
         NEW fd \in Fds \cup {0}, NEW state \in {"allocated", "live", "gone"},
         NewBuffer(b, s, z, i, fd, state)
  PROVE  /\ buffer' \in [Buffers -> ClientBuffer]
         /\ ~Made(b) /\ i \in FreeInodes
         /\ buffer'[b].state = state /\ buffer'[b].fd = fd /\ buffer'[b].inode = i
         /\ buffer'[b].owner = s /\ buffer'[b].size = z
         /\ \A c \in Buffers \ {b} : buffer'[c] = buffer[c]
<1> DEFINE r == [state |-> state, owner |-> s, size |-> z, inode |-> i, fd |-> fd]
<1>1. r \in ClientBuffer
  BY DEF ClientBuffer
<1>2. /\ r.state = state /\ r.fd = fd /\ r.inode = i
      /\ buffer' = [buffer EXCEPT ![b] = r]
  BY DEF NewBuffer
<1> HIDE DEF r
<1> QED  BY <1>1, <1>2 DEF Inv, TypeOK, NewBuffer, Made

LEMMA DetachedEffect ==
  ASSUME TypeOK, NEW s \in Surfaces
  PROVE  /\ Detached(buffer, s) \in [Buffers -> ClientBuffer]
         /\ \A b \in Buffers :
              /\ Same(buffer[b], Detached(buffer, s)[b])
              /\ Detached(buffer, s)[b].state = buffer[b].state
              /\ Detached(buffer, s)[b].fd =
                   IF b = current[s] /\ buffer[b].state = "gone" THEN 0 ELSE buffer[b].fd
<1> SUFFICES ASSUME NEW b \in Buffers
             PROVE  LET d == Detached(buffer, s)[b]
                    IN  /\ d \in ClientBuffer
                        /\ Same(buffer[b], d) /\ d.state = buffer[b].state
                        /\ d.fd = IF b = current[s] /\ buffer[b].state = "gone"
                                  THEN 0 ELSE buffer[b].fd
  BY DEF Detached
<1>1. buffer[b] \in ClientBuffer
  BY DEF TypeOK
<1>2. CASE b = current[s] /\ buffer[b].state = "gone"
  <2>1. Detached(buffer, s)[b] = [buffer[b] EXCEPT !.fd = 0]
    BY <1>2 DEF Detached
  <2> QED  BY <1>1, <1>2, <2>1 DEF ClientBuffer, Same
<1>3. CASE ~(b = current[s] /\ buffer[b].state = "gone")
  <2>1. Detached(buffer, s)[b] = buffer[b]
    BY <1>3 DEF Detached
  <2> QED  BY <1>1, <1>3, <2>1 DEF Same
<1> QED  BY <1>2, <1>3

LEMMA KnownAreBuffers ==
  ASSUME TypeOK
  PROVE  /\ \A fd \in DOMAIN cache : cache[fd].buffer \in Buffers /\ fd # 0
         /\ \A i \in DOMAIN jobs :
              jobs[i].buffer \in Buffers /\ jobs[i].source \in Buffers
<1>1. \A fd \in DOMAIN cache : cache[fd] \in [buffer : Buffers, surface : Surfaces] /\ fd # 0
  BY NumbersAssumption DEF TypeOK, IsMap
<1>2. \A i \in DOMAIN jobs : jobs[i] \in Job
  <2>1. jobs \in Seq(Job)
    BY DEF TypeOK
  <2> QED  BY <2>1, ElementOfSeq
<1> QED  BY <1>1, <1>2 DEF Job

(* The imports and the jobs survive whatever a request does to buffers.    *)
LEMMA RequestKeepsImports ==
  ASSUME Inv, Lasts, UNCHANGED <<cache, jobs>>, DOMAIN windows' = DOMAIN windows
  PROVE  ImportInv'
<1>1. \A fd \in DOMAIN cache : cache[fd].buffer \in Buffers /\ fd # 0
  BY KnownAreBuffers DEF Inv
<1>2. \A i \in DOMAIN jobs : jobs[i].buffer \in Buffers /\ jobs[i].source \in Buffers
  BY KnownAreBuffers DEF Inv
<1>3. CachedByFd'
  <2> SUFFICES ASSUME NEW fd \in DOMAIN cache
               PROVE  LET c == cache[fd].buffer
                      IN  buffer'[c].state = "gone" \/ buffer'[c].fd = fd
    BY DEF CachedByFd
  <2> QED  BY <1>1 DEF Inv, ImportInv, CachedByFd, BufferInv, OnlyMadeIsKnown, Lasts
<1>4. \A fd \in DOMAIN cache' : cache'[fd].surface \in DOMAIN windows'
  BY DEF Inv, ImportInv, StaleImportIsRecycled
<1>5. ASSUME NEW i \in DOMAIN jobs, jobs[i].source # jobs[i].buffer
      PROVE  /\ buffer'[jobs[i].source].state = "gone"
             /\ buffer'[jobs[i].source].size = buffer'[jobs[i].buffer].size
  <2>1. Made(jobs[i].buffer) /\ Made(jobs[i].source)
    BY DEF Inv, BufferInv, OnlyMadeIsKnown
  <2>2. /\ buffer[jobs[i].source].state = "gone"
        /\ buffer[jobs[i].source].size = buffer[jobs[i].buffer].size
    BY <1>5 DEF Inv, ImportInv, StaleImportIsRecycled
  <2> QED  BY <1>2, <2>1, <2>2 DEF Lasts, Same
<1> QED  BY <1>3, <1>4, <1>5 DEF ImportInv, StaleImportIsRecycled

LEMMA RequestKeepsKnown ==
  ASSUME Inv, Lasts, UNCHANGED <<cache, leaked, jobs>>,
         \A b \in Buffers : buffer'[b].fd # 0 => buffer'[b].state # "none",
         \A i \in DOMAIN tracker' : buffer'[tracker'[i]].state # "none"
  PROVE  OnlyMadeIsKnown'
<1>1. \A fd \in DOMAIN cache : cache[fd].buffer \in Buffers
  BY KnownAreBuffers DEF Inv
<1>2. \A i \in DOMAIN jobs : jobs[i].buffer \in Buffers /\ jobs[i].source \in Buffers
  BY KnownAreBuffers DEF Inv
<1>3. leaked \subseteq Buffers
  BY DEF Inv, TypeOK
<1> QED  BY <1>1, <1>2, <1>3 DEF Inv, BufferInv, OnlyMadeIsKnown, Made, Lasts

(* What exists is made, and the tracker knows what it tracks. *)
LEMMA Existing ==
  ASSUME Inv
  PROVE  /\ \A b \in Buffers : Exists(b) => Made(b)
         /\ \A i \in DOMAIN tracker : tracker[i] \in Buffers /\ Exists(tracker[i])
         /\ \A i \in FreeInodes : i \notin DOMAIN tracker
<1>1. \A b \in Buffers : Exists(b) => Made(b)
  BY DEF Inv, BufferInv, OnlyMadeIsKnown, Exists, HeldByTracker, HeldByImport, Made, Range
<1>2. \A i \in DOMAIN tracker : tracker[i] \in Buffers /\ Exists(tracker[i])
  BY DEF Inv, TypeOK, IsMap, Exists, HeldByTracker, Range
<1>3. \A i \in FreeInodes : i \notin DOMAIN tracker
  BY <1>2 DEF Inv, BufferInv, TrackerHasInodes, FreeInodes
<1> QED  BY <1>1, <1>2, <1>3

LEMMA HandleAllocInv ==
  ASSUME Inv, NEW b \in Buffers, NEW s \in Surfaces, NEW z \in Sizes, NEW i \in Inodes,
         handle_alloc(b, s, z, i)
  PROVE  Inv'
<1>1. PICK state \in {"allocated", "gone"} : NewBuffer(b, s, z, i, 0, state)
  BY DEF handle_alloc
<1>2. /\ buffer' \in [Buffers -> ClientBuffer]
      /\ ~Made(b) /\ i \in FreeInodes
      /\ buffer'[b].state = state /\ buffer'[b].fd = 0 /\ buffer'[b].inode = i
      /\ buffer'[b].owner = s /\ buffer'[b].size = z
      /\ \A c \in Buffers \ {b} : buffer'[c] = buffer[c]
  BY <1>1, NewBufferEffect
<1>3. /\ tracker' = Put(tracker, i, b)
      /\ UNCHANGED <<surface, phase, windowVars, vulkanVars>>
  BY DEF handle_alloc
<1>4. IsMap(tracker', Inodes, Buffers)
  BY <1>3, PutType DEF Inv, TypeOK
<1>5. i \notin DOMAIN tracker /\ ~Exists(b)
  BY <1>2, Existing
<1>6. /\ DOMAIN tracker' = DOMAIN tracker \cup {i}
      /\ tracker'[i] = b
      /\ \A k \in DOMAIN tracker : tracker'[k] = tracker[k] /\ tracker[k] # b
  BY <1>2, <1>3, <1>5 DEF Put, Inv, BufferInv, OnlyMadeIsKnown
<1>7. Lasts
  BY <1>2 DEF Lasts, Same, Made
<1>8. ImportInv'
  BY <1>3, <1>7, RequestKeepsImports DEF windowVars, vulkanVars
<1>9. OnlyMadeIsKnown'
  <2>1. \A c \in Buffers : buffer'[c].fd # 0 => buffer'[c].state # "none"
    BY <1>2 DEF Inv, BufferInv, OnlyMadeIsKnown, Made
  <2>2. \A k \in DOMAIN tracker' : buffer'[tracker'[k]].state # "none"
    BY <1>2, <1>6, Existing DEF Inv, BufferInv, OnlyMadeIsKnown, Made
  <2> QED  BY <1>3, <1>7, <2>1, <2>2, RequestKeepsKnown DEF vulkanVars
<1>10. LiveHasFd' /\ FdsDiffer' /\ MadeIsWhole'
  BY <1>2 DEF Inv, BufferInv, LiveHasFd, FdsDiffer, MadeIsWhole, Made
<1>11. CurrentIsOwn'
  <2> SUFFICES ASSUME NEW t \in Surfaces, current[t] # 0
               PROVE  buffer'[current[t]].owner = t /\ buffer'[current[t]].fd # 0
    BY <1>3 DEF CurrentIsOwn, windowVars
  <2>1. current[t] \in Buffers /\ buffer[current[t]].owner = t /\ buffer[current[t]].fd # 0
    BY DEF Inv, TypeOK, BufferInv, CurrentIsOwn
  <2>2. current[t] # b
    BY <1>2, <2>1 DEF Inv, BufferInv, OnlyMadeIsKnown
  <2> QED  BY <1>2, <2>1, <2>2
<1>12. TrackerHasInodes'
  BY <1>2, <1>6, Existing DEF Inv, BufferInv, TrackerHasInodes
<1>13. TrackedIsItsBuffer'
  <2> SUFFICES ASSUME NEW c \in Buffers, Exists(c)', buffer'[c].inode \in DOMAIN tracker'
               PROVE  tracker'[buffer'[c].inode] = c
    BY DEF TrackedIsItsBuffer
  <2>1. CASE c = b
    BY <1>2, <1>6, <2>1
  <2>2. CASE c # b
    <3>1. buffer'[c] = buffer[c]
      BY <1>2, <2>2
    <3>2. Exists(c)
      BY <1>3, <1>6, <2>2, <3>1 DEF Exists, HeldByTracker, HeldByImport, Range, vulkanVars
    <3>3. buffer[c].inode # i
      BY <1>2, <3>2 DEF FreeInodes
    <3> QED  BY <1>6, <3>1, <3>2, <3>3 DEF Inv, BufferInv, TrackedIsItsBuffer
  <2> QED  BY <2>1, <2>2
<1>14. TypeOK'
  BY <1>2, <1>3, <1>4 DEF Inv, TypeOK, windowVars, vulkanVars
<1>15. TodoInRender' /\ GpuInv'
  BY <1>3 DEF Inv, TodoInRender, GpuInv, TargetOfSurface, JobIsInFlight, GpuWorkIntact,
              windowVars, vulkanVars
<1> QED
  BY <1>8, <1>9, <1>10, <1>11, <1>12, <1>13, <1>14, <1>15 DEF Inv, BufferInv

(* The other requests leave the tracker, the imports and the GPU alone.  A *)
(* buffer that exists after one existed before, or has a new inode.        *)
LEMMA RequestInv ==
  ASSUME Inv, Lasts, Dispatched,
         buffer' \in [Buffers -> ClientBuffer],
         surface' \in [Surfaces -> {"live", "gone"}],
         destroyed' \subseteq Surfaces,
         current' \in [Surfaces -> Buffers \cup {0}],
         IsMap(windows', Surfaces, WindowState),
         DOMAIN windows' = DOMAIN windows,
         \A s \in DOMAIN windows :
           /\ windows'[s].ahb_surface = windows[s].ahb_surface
           /\ windows'[s].ahb_target = windows[s].ahb_target
           /\ windows'[s].frame_in_flight = windows[s].frame_in_flight,
         LiveHasFd', CurrentIsOwn', FdsDiffer', MadeIsWhole',
         \A b \in Buffers : buffer'[b].fd # 0 => buffer'[b].state # "none",
         \A b \in Buffers :
           buffer'[b].state \in {"allocated", "live"} \/ buffer'[b].fd # 0 =>
             Exists(b) \/ buffer'[b].inode \notin DOMAIN tracker
  PROVE  Inv'
<1>1. UNCHANGED <<phase, todo, cache, leaked, staging, jobs, tracker>>
  BY DEF Dispatched, vulkanVars
<1>2. TypeOK' /\ TodoInRender'
  BY <1>1 DEF Inv, TypeOK, TodoInRender
<1>3. ImportInv'
  BY <1>1, RequestKeepsImports
<1>4. \A i \in DOMAIN tracker :
        tracker[i] \in Buffers /\ Made(tracker[i]) /\ buffer[tracker[i]].inode = i
  BY Existing DEF Inv, BufferInv, OnlyMadeIsKnown, TrackerHasInodes
<1>5. OnlyMadeIsKnown'
  <2>1. \A i \in DOMAIN tracker' : buffer'[tracker'[i]].state # "none"
    BY <1>1, <1>4 DEF Lasts
  <2> QED  BY <1>1, <2>1, RequestKeepsKnown
<1>6. TrackerHasInodes'
  BY <1>1, <1>4 DEF TrackerHasInodes, Lasts, Same
<1>7. TrackedIsItsBuffer'
  <2> SUFFICES ASSUME NEW b \in Buffers, Exists(b)', buffer'[b].inode \in DOMAIN tracker
               PROVE  tracker[buffer'[b].inode] = b
    BY <1>1 DEF TrackedIsItsBuffer
  <2>1. Exists(b)
    BY <1>1 DEF Exists, HeldByTracker, HeldByImport, Range
  <2>2. Made(b)
    BY <2>1, Existing
  <2>3. buffer'[b].inode = buffer[b].inode
    BY <2>2 DEF Lasts, Same
  <2> QED  BY <2>1, <2>3 DEF Inv, BufferInv, TrackedIsItsBuffer
<1>8. GpuInv'
  <2>1. TargetOfSurface' /\ GpuWorkIntact'
    BY <1>1 DEF Inv, GpuInv, TargetOfSurface, GpuWorkIntact
  <2>2. JobIsInFlight'
    BY <1>1 DEF Inv, GpuInv, JobIsInFlight
  <2> QED  BY <2>1, <2>2 DEF GpuInv
<1> QED  BY <1>2, <1>3, <1>5, <1>6, <1>7, <1>8 DEF Inv, BufferInv

LEMMA DmabufImportedInv ==
  ASSUME Inv, NEW b \in Buffers, NEW fd \in Fds, dmabuf_imported(b, fd)
  PROVE  Inv'
<1>1. /\ Dispatched /\ fd \in FreeFds /\ fd # 0
      /\ UNCHANGED <<surface, destroyed, current, windows>>
  BY NumbersAssumption DEF dmabuf_imported
<1>2. /\ buffer' \in [Buffers -> ClientBuffer]
      /\ buffer'[b].fd = fd /\ buffer'[b].state = "live"
      /\ buffer'[b].owner \in Surfaces /\ buffer'[b].size \in Sizes
      /\ \A c \in Buffers \ {b} : buffer'[c] = buffer[c]
      /\ buffer[b].fd = 0
      /\ Made(b) => Exists(b) /\ Same(buffer[b], buffer'[b]) /\ buffer[b].state # "gone"
      /\ ~Made(b) => buffer'[b].inode \notin DOMAIN tracker
  <2>1. CASE /\ buffer[b].state = "allocated"
             /\ buffer' = [buffer EXCEPT ![b].state = "live", ![b].fd = fd]
    <3>1. buffer[b] \in ClientBuffer /\ Made(b) /\ Exists(b)
      BY <2>1 DEF Inv, TypeOK, Made, Exists
    <3>2. buffer' = [buffer EXCEPT ![b] = [[@ EXCEPT !.state = "live"] EXCEPT !.fd = fd]]
      BY <2>1, <3>1 DEF Inv, TypeOK
    <3> DEFINE r == [[buffer[b] EXCEPT !.state = "live"] EXCEPT !.fd = fd]
    <3>3. /\ r \in ClientBuffer /\ r.state = "live" /\ r.fd = fd
          /\ r.owner = buffer[b].owner /\ r.size = buffer[b].size
          /\ r.inode = buffer[b].inode
      BY <3>1 DEF ClientBuffer
    <3>4. buffer' = [buffer EXCEPT ![b] = r]
      BY <3>2
    <3> HIDE DEF r
    <3>5. /\ buffer[b].owner \in Surfaces /\ buffer[b].size \in Sizes
          /\ buffer[b].fd = 0
      BY <2>1, <3>1 DEF Inv, BufferInv, MadeIsWhole, LiveHasFd
    <3> QED  BY <2>1, <3>1, <3>3, <3>4, <3>5 DEF Inv, TypeOK, Same
  <2>2. CASE \E s \in Surfaces, z \in Sizes, i \in Inodes : NewBuffer(b, s, z, i, fd, "live")
    <3>1. PICK s \in Surfaces, z \in Sizes, i \in Inodes : NewBuffer(b, s, z, i, fd, "live")
      BY <2>2
    <3>2. /\ buffer' \in [Buffers -> ClientBuffer]
          /\ ~Made(b) /\ i \in FreeInodes
          /\ buffer'[b].state = "live" /\ buffer'[b].fd = fd /\ buffer'[b].inode = i
          /\ buffer'[b].owner = s /\ buffer'[b].size = z
          /\ \A c \in Buffers \ {b} : buffer'[c] = buffer[c]
      BY <3>1, NewBufferEffect
    <3>3. buffer[b].fd = 0
      BY <3>2 DEF Inv, BufferInv, OnlyMadeIsKnown
    <3> QED  BY <3>2, <3>3, Existing
  <2> QED  BY <2>1, <2>2 DEF dmabuf_imported
<1>3. Lasts
  <2> SUFFICES ASSUME NEW c \in Buffers, Made(c)
               PROVE  /\ Same(buffer[c], buffer'[c])
                      /\ buffer'[c].state # "none"
                      /\ buffer[c].state = "gone" => buffer'[c].state = "gone"
                      /\ buffer'[c].fd # buffer[c].fd =>
                           buffer[c].fd = 0 \/ buffer'[c].state = "gone"
    BY DEF Lasts
  <2>1. CASE c # b
    BY <1>2, <2>1 DEF Same, Made
  <2>2. CASE c = b
    BY <1>2, <2>2
  <2> QED  BY <2>1, <2>2
<1>4. \A c \in Buffers \ {b} : buffer[c].fd # fd
  BY <1>1 DEF FreeFds
<1>5. LiveHasFd' /\ FdsDiffer' /\ MadeIsWhole'
  BY <1>1, <1>2, <1>4 DEF Inv, BufferInv, LiveHasFd, FdsDiffer, MadeIsWhole, Made
<1>6. CurrentIsOwn'
  <2> SUFFICES ASSUME NEW t \in Surfaces, current[t] # 0
               PROVE  buffer'[current[t]].owner = t /\ buffer'[current[t]].fd # 0
    BY <1>1 DEF CurrentIsOwn
  <2>1. current[t] \in Buffers /\ buffer[current[t]].owner = t /\ buffer[current[t]].fd # 0
    BY DEF Inv, TypeOK, BufferInv, CurrentIsOwn
  <2> QED  BY <1>2, <2>1
<1>7. \A c \in Buffers : buffer'[c].fd # 0 => buffer'[c].state # "none"
  BY <1>2 DEF Inv, BufferInv, OnlyMadeIsKnown, Made
<1>8. \A c \in Buffers :
        buffer'[c].state \in {"allocated", "live"} \/ buffer'[c].fd # 0 =>
          Exists(c) \/ buffer'[c].inode \notin DOMAIN tracker
  BY <1>2 DEF Exists
<1>9. /\ surface' \in [Surfaces -> {"live", "gone"}] /\ destroyed' \subseteq Surfaces
      /\ current' \in [Surfaces -> Buffers \cup {0}] /\ IsMap(windows', Surfaces, WindowState)
  BY <1>1 DEF Inv, TypeOK
<1> QED  BY <1>1, <1>2, <1>3, <1>5, <1>6, <1>7, <1>8, <1>9, RequestInv

LEMMA RedrawKeeps ==
  ASSUME IsMap(windows, Surfaces, WindowState), NEW s,
         windows' = [windows EXCEPT ![s].needs_redraw = TRUE]
  PROVE  /\ IsMap(windows', Surfaces, WindowState)
         /\ DOMAIN windows' = DOMAIN windows
         /\ \A t \in DOMAIN windows :
              /\ windows'[t].ahb_surface = windows[t].ahb_surface
              /\ windows'[t].ahb_target = windows[t].ahb_target
              /\ windows'[t].frame_in_flight = windows[t].frame_in_flight
              /\ windows'[t].native_window = windows[t].native_window
<1> DEFINE r == [windows[s] EXCEPT !.needs_redraw = TRUE]
<1>1. s \in DOMAIN windows => windows[s] \in WindowState
  BY DEF IsMap
<1>2. s \in DOMAIN windows =>
        /\ r \in WindowState
        /\ r.ahb_surface = windows[s].ahb_surface /\ r.ahb_target = windows[s].ahb_target
        /\ r.frame_in_flight = windows[s].frame_in_flight
        /\ r.native_window = windows[s].native_window
  BY <1>1 DEF WindowState
<1>3. windows' = [windows EXCEPT ![s] = r]
  OBVIOUS
<1> HIDE DEF r
<1>4. /\ DOMAIN windows' = DOMAIN windows
      /\ \A t \in DOMAIN windows : windows'[t] = IF t = s THEN r ELSE windows[t]
  BY <1>3 DEF IsMap
<1>5. IsMap(windows', Surfaces, WindowState)
  BY <1>2, <1>3, <1>4 DEF IsMap
<1> QED  BY <1>2, <1>4, <1>5

LEMMA CommitInv ==
  ASSUME Inv, NEW b \in Buffers, commit(b)
  PROVE  Inv'
<1> DEFINE s == buffer[b].owner
<1>1. /\ Dispatched /\ buffer[b].state = "live"
      /\ current' = [current EXCEPT ![s] = b]
      /\ buffer' = Detached(buffer, s)
      /\ windows' = [windows EXCEPT ![s].needs_redraw = TRUE]
      /\ UNCHANGED <<surface, destroyed>>
  BY DEF commit
<1>2. Made(b) /\ s \in Surfaces /\ buffer[b].fd # 0
  BY <1>1 DEF Inv, BufferInv, MadeIsWhole, LiveHasFd, Made
<1>3. /\ buffer' \in [Buffers -> ClientBuffer]
      /\ \A c \in Buffers :
           /\ Same(buffer[c], buffer'[c]) /\ buffer'[c].state = buffer[c].state
           /\ buffer'[c].fd = IF c = current[s] /\ buffer[c].state = "gone"
                              THEN 0 ELSE buffer[c].fd
  BY <1>1, <1>2, DetachedEffect DEF Inv
<1> HIDE DEF s
<1>4. Lasts
  BY <1>3 DEF Lasts, Made
<1>5. /\ current' \in [Surfaces -> Buffers \cup {0}]
      /\ current'[s] = b /\ \A t \in Surfaces \ {s} : current'[t] = current[t]
  BY <1>1, <1>2 DEF Inv, TypeOK
<1>6. LiveHasFd' /\ FdsDiffer' /\ MadeIsWhole'
  BY <1>3 DEF Inv, BufferInv, LiveHasFd, FdsDiffer, MadeIsWhole, Made, Same
<1>7. CurrentIsOwn'
  <2> SUFFICES ASSUME NEW t \in Surfaces, current'[t] # 0
               PROVE  buffer'[current'[t]].owner = t /\ buffer'[current'[t]].fd # 0
    BY DEF CurrentIsOwn
  <2>1. CASE t = s
    BY <1>1, <1>2, <1>3, <1>5, <2>1 DEF s, Same
  <2>2. CASE t # s
    <3>1. /\ current'[t] = current[t] /\ current[t] \in Buffers
          /\ buffer[current[t]].owner = t /\ buffer[current[t]].fd # 0
      BY <1>5, <2>2 DEF Inv, TypeOK, BufferInv, CurrentIsOwn
    <3>2. current[s] # 0 => buffer[current[s]].owner = s
      BY <1>2 DEF Inv, BufferInv, CurrentIsOwn
    <3>3. current[t] # current[s]
      BY <2>2, <3>1, <3>2, NumbersAssumption
    <3> QED  BY <1>3, <3>1, <3>3 DEF Same
  <2> QED  BY <2>1, <2>2
<1>8. \A c \in Buffers : buffer'[c].fd # 0 => buffer'[c].state # "none"
  BY <1>3 DEF Inv, BufferInv, OnlyMadeIsKnown, Made
<1>9. \A c \in Buffers :
        buffer'[c].state \in {"allocated", "live"} \/ buffer'[c].fd # 0 =>
          Exists(c) \/ buffer'[c].inode \notin DOMAIN tracker
  BY <1>3 DEF Exists
<1>10. /\ IsMap(windows', Surfaces, WindowState)
       /\ DOMAIN windows' = DOMAIN windows
       /\ \A t \in DOMAIN windows :
            /\ windows'[t].ahb_surface = windows[t].ahb_surface
            /\ windows'[t].ahb_target = windows[t].ahb_target
            /\ windows'[t].frame_in_flight = windows[t].frame_in_flight
  BY <1>1, RedrawKeeps DEF Inv, TypeOK
<1>11. surface' \in [Surfaces -> {"live", "gone"}] /\ destroyed' \subseteq Surfaces
  BY <1>1 DEF Inv, TypeOK
<1> QED
  BY <1>1, <1>3, <1>4, <1>5, <1>6, <1>7, <1>8, <1>9, <1>10, <1>11, RequestInv

LEMMA BufferDestroyedInv ==
  ASSUME Inv, NEW b \in Buffers, buffer_destroyed(b)
  PROVE  Inv'
<1>1. /\ Dispatched /\ buffer[b].state \in {"allocated", "live"}
      /\ UNCHANGED <<surface, destroyed, current, windows>>
  BY DEF buffer_destroyed
<1>2. PICK fd \in {0, buffer[b].fd} :
        /\ buffer' = [buffer EXCEPT ![b].state = "gone", ![b].fd = fd]
        /\ (\E s \in Surfaces : current[s] = b) => fd = buffer[b].fd
  BY DEF buffer_destroyed, Inv, TypeOK
<1>3. /\ buffer' \in [Buffers -> ClientBuffer]
      /\ Same(buffer[b], buffer'[b]) /\ buffer'[b].state = "gone" /\ buffer'[b].fd = fd
      /\ \A c \in Buffers \ {b} : buffer'[c] = buffer[c]
  <2> DEFINE r == [[buffer[b] EXCEPT !.state = "gone"] EXCEPT !.fd = fd]
  <2>1. buffer[b] \in ClientBuffer
    BY DEF Inv, TypeOK
  <2>2. r \in ClientBuffer /\ Same(buffer[b], r) /\ r.state = "gone" /\ r.fd = fd
    BY <2>1 DEF ClientBuffer, Same
  <2>3. buffer' = [buffer EXCEPT ![b] = r]
    BY <1>2 DEF Inv, TypeOK
  <2> HIDE DEF r
  <2> QED  BY <2>2, <2>3 DEF Inv, TypeOK
<1>4. Lasts
  BY <1>3 DEF Lasts, Same, Made
<1>5. LiveHasFd' /\ FdsDiffer' /\ MadeIsWhole'
  BY <1>1, <1>3 DEF Inv, BufferInv, LiveHasFd, FdsDiffer, MadeIsWhole, Made, Same
<1>6. CurrentIsOwn'
  <2> SUFFICES ASSUME NEW t \in Surfaces, current[t] # 0
               PROVE  buffer'[current[t]].owner = t /\ buffer'[current[t]].fd # 0
    BY <1>1 DEF CurrentIsOwn
  <2>1. current[t] \in Buffers /\ buffer[current[t]].owner = t /\ buffer[current[t]].fd # 0
    BY DEF Inv, TypeOK, BufferInv, CurrentIsOwn
  <2>2. CASE current[t] = b
    BY <1>2, <1>3, <2>1, <2>2 DEF Same
  <2>3. CASE current[t] # b
    BY <1>3, <2>1, <2>3
  <2> QED  BY <2>2, <2>3
<1>7. \A c \in Buffers : buffer'[c].fd # 0 => buffer'[c].state # "none"
  BY <1>3 DEF Inv, BufferInv, OnlyMadeIsKnown, Made
<1>8. \A c \in Buffers :
        buffer'[c].state \in {"allocated", "live"} \/ buffer'[c].fd # 0 =>
          Exists(c) \/ buffer'[c].inode \notin DOMAIN tracker
  BY <1>1, <1>3 DEF Exists
<1>9. /\ surface' \in [Surfaces -> {"live", "gone"}] /\ destroyed' \subseteq Surfaces
      /\ current' \in [Surfaces -> Buffers \cup {0}] /\ IsMap(windows', Surfaces, WindowState)
  BY <1>1 DEF Inv, TypeOK
<1> QED  BY <1>1, <1>3, <1>4, <1>5, <1>6, <1>7, <1>8, <1>9, RequestInv

LEMMA ToplevelDestroyedInv ==
  ASSUME Inv, NEW s \in Surfaces, toplevel_destroyed(s)
  PROVE  Inv'
<1>1. /\ Dispatched
      /\ surface' = [surface EXCEPT ![s] = "gone"]
      /\ destroyed' = destroyed \cup {s}
      /\ current' = [current EXCEPT ![s] = 0]
      /\ buffer' = Detached(buffer, s)
      /\ UNCHANGED windows
  BY DEF toplevel_destroyed
<1>2. /\ buffer' \in [Buffers -> ClientBuffer]
      /\ \A c \in Buffers :
           /\ Same(buffer[c], buffer'[c]) /\ buffer'[c].state = buffer[c].state
           /\ buffer'[c].fd = IF c = current[s] /\ buffer[c].state = "gone"
                              THEN 0 ELSE buffer[c].fd
  BY <1>1, DetachedEffect DEF Inv
<1>3. Lasts
  BY <1>2 DEF Lasts, Made
<1>4. /\ current' \in [Surfaces -> Buffers \cup {0}]
      /\ current'[s] = 0 /\ \A t \in Surfaces \ {s} : current'[t] = current[t]
  BY <1>1 DEF Inv, TypeOK
<1>5. LiveHasFd' /\ FdsDiffer' /\ MadeIsWhole'
  BY <1>2 DEF Inv, BufferInv, LiveHasFd, FdsDiffer, MadeIsWhole, Made, Same
<1>6. CurrentIsOwn'
  <2> SUFFICES ASSUME NEW t \in Surfaces, current'[t] # 0
               PROVE  buffer'[current'[t]].owner = t /\ buffer'[current'[t]].fd # 0
    BY DEF CurrentIsOwn
  <2>1. /\ t # s /\ current'[t] = current[t] /\ current[t] \in Buffers
        /\ buffer[current[t]].owner = t /\ buffer[current[t]].fd # 0
    BY <1>4 DEF Inv, TypeOK, BufferInv, CurrentIsOwn
  <2>2. current[s] # 0 => buffer[current[s]].owner = s
    BY DEF Inv, BufferInv, CurrentIsOwn
  <2>3. current[t] # current[s]
    BY <2>1, <2>2, NumbersAssumption
  <2> QED  BY <1>2, <2>1, <2>3 DEF Same
<1>7. \A c \in Buffers : buffer'[c].fd # 0 => buffer'[c].state # "none"
  BY <1>2 DEF Inv, BufferInv, OnlyMadeIsKnown, Made
<1>8. \A c \in Buffers :
        buffer'[c].state \in {"allocated", "live"} \/ buffer'[c].fd # 0 =>
          Exists(c) \/ buffer'[c].inode \notin DOMAIN tracker
  BY <1>2 DEF Exists
<1>9. /\ surface' \in [Surfaces -> {"live", "gone"}] /\ destroyed' \subseteq Surfaces
      /\ IsMap(windows', Surfaces, WindowState)
  BY <1>1 DEF Inv, TypeOK
<1> QED  BY <1>1, <1>2, <1>3, <1>4, <1>5, <1>6, <1>7, <1>8, <1>9, RequestInv

-----------------------------------------------------------------------------
(* What the compositor's own steps have to show, for they leave the        *)
(* buffers of the clients alone.                                           *)
LEMMA BuffersKept ==
  ASSUME Inv, UNCHANGED <<buffer, current, tracker>>,
         \A b \in HeldByImport' : b \in HeldByImport \/ buffer[b].fd # 0,
         HeldByImport' \subseteq Buffers,
         \A i \in DOMAIN jobs' : Made(jobs'[i].buffer) /\ Made(jobs'[i].source)
  PROVE  BufferInv'
<1>1. \A b \in Buffers : Exists(b)' => Exists(b)
  BY DEF Exists, HeldByTracker
<1>2. \A b \in HeldByImport' : Made(b)
  BY <1>1, Existing DEF Exists
<1>3. OnlyMadeIsKnown'
  BY <1>2 DEF HeldByImport, Inv, BufferInv, OnlyMadeIsKnown, Made
<1>4. TrackedIsItsBuffer'
  BY <1>1 DEF Inv, BufferInv, TrackedIsItsBuffer
<1>5. LiveHasFd' /\ CurrentIsOwn' /\ FdsDiffer' /\ MadeIsWhole' /\ TrackerHasInodes'
  BY DEF Inv, BufferInv, LiveHasFd, CurrentIsOwn, FdsDiffer, MadeIsWhole, Made,
         TrackerHasInodes
<1> QED  BY <1>3, <1>4, <1>5 DEF BufferInv

(* A wait for the GPU leaves no job, a new one apart: nothing is torn.     *)
LEMMA NothingTorn ==
  ASSUME NEW S
  PROVE  Torn(<< >>, S) = << >>
  BY DEF Torn

(* Steps that only take jobs away, or none, and change no window a job of  *)
(* which is left.                                                          *)
LEMMA WindowStepInv ==
  ASSUME Inv, UNCHANGED <<buffer, surface, current, cache, leaked, staging, tracker>>,
         phase' \in {"finish", "events", "dispatch", "render"},
         destroyed' \subseteq Surfaces,
         TodoInRender', todo' \subseteq DOMAIN windows',
         DOMAIN windows' = DOMAIN windows,
         IsMap(windows', Surfaces, WindowState),
         jobs' = jobs \/ jobs' = << >>,
         TargetOfSurface', JobIsInFlight'
  PROVE  Inv'
<1>1. jobs' \in Seq(Job) /\ \A i \in DOMAIN jobs' : i \in DOMAIN jobs /\ jobs'[i] = jobs[i]
  <2>1. CASE jobs' = << >>
    BY <2>1
  <2>2. CASE jobs' = jobs
    BY <2>2 DEF Inv, TypeOK
  <2> QED  BY <2>1, <2>2
<1>2. TypeOK'
  BY <1>1 DEF Inv, TypeOK
<1>3. BufferInv'
  <2>1. HeldByImport' = HeldByImport
    BY DEF HeldByImport
  <2>2. HeldByImport \subseteq Buffers
    BY KnownAreBuffers DEF HeldByImport, Inv, TypeOK
  <2>3. \A i \in DOMAIN jobs' : Made(jobs'[i].buffer) /\ Made(jobs'[i].source)
    BY <1>1 DEF Inv, BufferInv, OnlyMadeIsKnown
  <2> QED  BY <2>1, <2>2, <2>3, BuffersKept
<1>4. ImportInv'
  <2>1. CachedByFd'
    BY DEF Inv, ImportInv, CachedByFd
  <2>2. StaleImportIsRecycled'
    BY <1>1 DEF Inv, ImportInv, StaleImportIsRecycled
  <2> QED  BY <2>1, <2>2 DEF ImportInv
<1>5. GpuWorkIntact'
  BY <1>1 DEF Inv, GpuInv, GpuWorkIntact
<1> QED  BY <1>2, <1>3, <1>4, <1>5 DEF Inv, GpuInv

LEMMA EventInv ==
  ASSUME Inv, NEW s \in DOMAIN windows,
         HandleSurfaceCreated(s) \/ HandleSurfaceChanged(s) \/ HandleSurfaceDestroyed(s)
  PROVE  Inv'
<1>1. /\ UNCHANGED <<buffer, surface, phase, todo, destroyed, current, cache, leaked, staging,
                     tracker>>
      /\ phase = "events"
  BY DEF HandleSurfaceCreated, HandleSurfaceChanged, HandleSurfaceDestroyed, clientVars,
         vulkanVars
<1>2. /\ TodoInRender' /\ todo' \subseteq DOMAIN windows
      /\ phase' \in {"finish", "events", "dispatch", "render"} /\ destroyed' \subseteq Surfaces
  BY <1>1 DEF Inv, TypeOK, TodoInRender
<1>3. IsMap(windows, Surfaces, WindowState) /\ windows[s] \in WindowState
  BY DEF Inv, TypeOK, IsMap
<1>4. ASSUME NEW w \in WindowState, windows' = [windows EXCEPT ![s] = w],
             w.ahb_target # 0 => w.ahb_surface,
             \/ /\ jobs' = jobs
                /\ w.frame_in_flight = windows[s].frame_in_flight
                /\ w.ahb_target = windows[s].ahb_target
             \/ jobs' = << >>
             \/ jobs' = jobs /\ windows[s].ahb_target = 0
      PROVE  Inv'
  <2>1. IsMap(windows', Surfaces, WindowState)
    BY <1>3, <1>4, AssignType
  <2>2. /\ DOMAIN windows' = DOMAIN windows
        /\ \A t \in DOMAIN windows : windows'[t] = IF t = s THEN w ELSE windows[t]
    BY <1>3, <1>4 DEF IsMap
  <2>3. TargetOfSurface'
    BY <1>4, <2>2 DEF TargetOfSurface, Inv, GpuInv
  <2>4. JobIsInFlight'
    <3>1. CASE jobs' = << >>
      BY <3>1 DEF JobIsInFlight
    <3>2. CASE jobs' = jobs
      BY <1>4, <2>2, <3>2 DEF JobIsInFlight, Inv, GpuInv
    <3> QED  BY <1>4, <3>1, <3>2
  <2> QED  BY <1>1, <1>2, <1>4, <2>1, <2>2, <2>3, <2>4, WindowStepInv
<1>5. windows[s].ahb_target # 0 => windows[s].ahb_surface
  BY DEF Inv, GpuInv, TargetOfSurface
<1>6. CASE HandleSurfaceCreated(s)
  <2> DEFINE w == [windows[s] EXCEPT !.native_window = TRUE]
  <2>1. /\ w \in WindowState /\ w.ahb_target = windows[s].ahb_target
        /\ w.ahb_surface = windows[s].ahb_surface
        /\ w.frame_in_flight = windows[s].frame_in_flight
    BY <1>3 DEF WindowState
  <2>2. windows' = [windows EXCEPT ![s] = w] /\ jobs' = jobs
    BY <1>6 DEF HandleSurfaceCreated, vulkanVars
  <2> HIDE DEF w
  <2> QED  BY <1>4, <1>5, <2>1, <2>2
<1>7. CASE HandleSurfaceChanged(s)
  <2> DEFINE w == [windows[s] EXCEPT !.needs_redraw = TRUE]
  <2>1. /\ w \in WindowState /\ w.ahb_target = windows[s].ahb_target
        /\ w.ahb_surface = windows[s].ahb_surface
        /\ w.frame_in_flight = windows[s].frame_in_flight
    BY <1>3 DEF WindowState
  <2>2. windows' = [windows EXCEPT ![s] = w] /\ jobs' = jobs
    BY <1>7 DEF HandleSurfaceChanged, vulkanVars
  <2> HIDE DEF w
  <2> QED  BY <1>4, <1>5, <2>1, <2>2
<1>8. CASE HandleSurfaceDestroyed(s)
  <2> DEFINE w == [WithoutAhb(windows[s]) EXCEPT !.native_window = FALSE]
  <2>1. w \in WindowState /\ w.ahb_target = 0
    BY <1>3 DEF WindowState, WithoutAhb
  <2>2. windows' = [windows EXCEPT ![s] = w]
    BY <1>8 DEF HandleSurfaceDestroyed
  <2>3. jobs' = << >> \/ (jobs' = jobs /\ windows[s].ahb_target = 0)
    BY <1>8, NothingTorn DEF HandleSurfaceDestroyed, destroy_ahb_target, device_wait_idle
  <2> HIDE DEF w
  <2> QED  BY <1>4, <2>1, <2>2, <2>3
<1> QED  BY <1>6, <1>7, <1>8

LEMMA PhaseInv ==
  ASSUME Inv, FinishDone \/ EventsDone \/ DispatchDone \/ RenderDone
  PROVE  Inv'
<1>1. /\ UNCHANGED <<buffer, surface, destroyed, current, windows, cache, leaked, staging,
                     tracker, jobs>>
      /\ phase' \in {"finish", "events", "dispatch", "render"}
      /\ TodoInRender' /\ todo' \subseteq DOMAIN windows
  BY DEF FinishDone, EventsDone, DispatchDone, RenderDone, Goto, clientVars, windowVars,
         vulkanVars, Inv, TypeOK, TodoInRender
<1>2. TargetOfSurface' /\ JobIsInFlight'
  BY <1>1 DEF Inv, GpuInv, TargetOfSurface, JobIsInFlight
<1>3. destroyed' \subseteq Surfaces /\ IsMap(windows', Surfaces, WindowState)
  BY <1>1 DEF Inv, TypeOK
<1> QED  BY <1>1, <1>2, <1>3, WindowStepInv

LEMMA OnCompleteInv ==
  ASSUME Inv, NEW s \in DOMAIN windows, OnComplete(s)
  PROVE  Inv'
<1> DEFINE w == [windows[s] EXCEPT !.frame_in_flight = FALSE]
<1>1. /\ UNCHANGED <<buffer, surface, phase, todo, destroyed, current, cache, leaked, staging,
                     tracker, jobs>>
      /\ windows' = [windows EXCEPT ![s] = w]
      /\ \A i \in DOMAIN jobs : jobs[i].surface # s
  BY DEF OnComplete, clientVars, vulkanVars
<1>2. IsMap(windows, Surfaces, WindowState) /\ windows[s] \in WindowState
  BY DEF Inv, TypeOK, IsMap
<1>3. /\ w \in WindowState /\ w.ahb_target = windows[s].ahb_target
      /\ w.ahb_surface = windows[s].ahb_surface
  BY <1>2 DEF WindowState
<1> HIDE DEF w
<1>4. IsMap(windows', Surfaces, WindowState)
  BY <1>1, <1>2, <1>3, AssignType
<1>5. /\ DOMAIN windows' = DOMAIN windows
      /\ \A t \in DOMAIN windows : windows'[t] = IF t = s THEN w ELSE windows[t]
  BY <1>1, <1>2 DEF IsMap
<1>6. TargetOfSurface' /\ JobIsInFlight'
  BY <1>1, <1>3, <1>5 DEF Inv, GpuInv, TargetOfSurface, JobIsInFlight
<1>7. TodoInRender' /\ todo' \subseteq DOMAIN windows /\ destroyed' \subseteq Surfaces
      /\ phase' \in {"finish", "events", "dispatch", "render"}
  BY <1>1 DEF Inv, TypeOK, TodoInRender
<1> QED  BY <1>1, <1>4, <1>5, <1>6, <1>7, WindowStepInv

LEMMA FinishInv ==
  ASSUME Inv, NEW s \in Surfaces, finish_destroyed(s)
  PROVE  Inv'
<1>1. /\ UNCHANGED <<buffer, surface, phase, todo, current, leaked, staging, jobs, tracker>>
      /\ phase = "finish" /\ destroyed' \subseteq destroyed
      /\ windows' = Drop(windows, s) /\ cache' = << >>
  BY DEF finish_destroyed, clear_dmabuf_cache, clientVars
<1>2. /\ IsMap(windows', Surfaces, WindowState)
      /\ DOMAIN windows' = DOMAIN windows \ {s}
      /\ \A t \in DOMAIN windows' : windows'[t] = windows[t]
  BY <1>1, DropType DEF Inv, TypeOK, Drop
<1>3. todo = {}
  BY <1>1 DEF Inv, TodoInRender
<1>4. DOMAIN cache' = {} /\ IsMap(cache', Fds, [buffer : Buffers, surface : Surfaces])
  BY <1>1 DEF IsMap
<1>5. TypeOK'
  BY <1>1, <1>2, <1>3, <1>4 DEF Inv, TypeOK
<1>6. BufferInv'
  <2>1. HeldByImport' \subseteq HeldByImport /\ HeldByImport' \subseteq Buffers
    BY <1>1, <1>4 DEF HeldByImport, Inv, TypeOK
  <2>2. \A i \in DOMAIN jobs' : Made(jobs'[i].buffer) /\ Made(jobs'[i].source)
    BY <1>1 DEF Inv, BufferInv, OnlyMadeIsKnown
  <2> QED  BY <1>1, <2>1, <2>2, BuffersKept
<1>7. ImportInv'
  BY <1>1, <1>4 DEF Inv, ImportInv, CachedByFd, StaleImportIsRecycled
<1>8. GpuInv' /\ TodoInRender'
  BY <1>1, <1>2, <1>3
  DEF Inv, GpuInv, TargetOfSurface, JobIsInFlight, GpuWorkIntact, TodoInRender
<1> QED  BY <1>5, <1>6, <1>7, <1>8 DEF Inv

LEMMA GpuDoneInv ==
  ASSUME Inv, GpuDone
  PROVE  Inv'
<1>1. /\ UNCHANGED <<buffer, surface, phase, todo, destroyed, current, windows, cache, leaked,
                     staging, tracker>>
      /\ jobs # << >> /\ jobs' = Tail(jobs) /\ jobs \in Seq(Job)
  BY DEF GpuDone, clientVars, windowVars, Inv, TypeOK
<1>2. /\ jobs' \in Seq(Job)
      /\ \A i \in DOMAIN jobs' : i + 1 \in DOMAIN jobs /\ jobs'[i] = jobs[i + 1] /\ i \in Int
  BY <1>1
<1>3. TypeOK' /\ TodoInRender'
  BY <1>1, <1>2 DEF Inv, TypeOK, TodoInRender
<1>4. BufferInv'
  <2>1. HeldByImport' = HeldByImport
    BY <1>1 DEF HeldByImport
  <2>2. HeldByImport \subseteq Buffers
    BY KnownAreBuffers DEF HeldByImport, Inv, TypeOK
  <2>3. \A i \in DOMAIN jobs' : Made(jobs'[i].buffer) /\ Made(jobs'[i].source)
    BY <1>2 DEF Inv, BufferInv, OnlyMadeIsKnown
  <2> QED  BY <1>1, <2>1, <2>2, <2>3, BuffersKept
<1>5. ImportInv'
  <2>1. CachedByFd' /\ \A fd \in DOMAIN cache' : cache'[fd].surface \in DOMAIN windows'
    BY <1>1 DEF Inv, ImportInv, CachedByFd, StaleImportIsRecycled
  <2>2. ASSUME NEW i \in DOMAIN jobs', jobs'[i].source # jobs'[i].buffer
        PROVE  /\ buffer'[jobs'[i].source].state = "gone"
               /\ buffer'[jobs'[i].source].size = buffer'[jobs'[i].buffer].size
    BY <1>1, <1>2, <2>2 DEF Inv, ImportInv, StaleImportIsRecycled
  <2> QED  BY <2>1, <2>2 DEF ImportInv, StaleImportIsRecycled
<1>6. TargetOfSurface' /\ JobIsInFlight'
  BY <1>1, <1>2 DEF Inv, GpuInv, TargetOfSurface, JobIsInFlight
<1>7. GpuWorkIntact'
  <2> SUFFICES ASSUME NEW i \in DOMAIN jobs'
               PROVE  /\ jobs'[i].intact
                      /\ \A k \in DOMAIN jobs' : jobs'[k].surface = jobs'[i].surface => k = i
    BY DEF GpuWorkIntact
  <2>1. jobs'[i].intact
    BY <1>2 DEF Inv, GpuInv, GpuWorkIntact
  <2>2. ASSUME NEW k \in DOMAIN jobs', jobs'[k].surface = jobs'[i].surface PROVE k = i
    <3>1. k + 1 = i + 1
      BY <1>2, <2>2 DEF Inv, GpuInv, GpuWorkIntact
    <3> QED  BY <1>2, <3>1
  <2> QED  BY <2>1, <2>2
<1> QED  BY <1>3, <1>4, <1>5, <1>6, <1>7 DEF Inv, GpuInv

-----------------------------------------------------------------------------
(* The rendering.                                                          *)

(* The buffer a window shows is whole and its descriptor its own. *)
LEMMA ShownBuffer ==
  ASSUME Inv, NEW s \in Surfaces, current[s] # 0
  PROVE  /\ current[s] \in Buffers /\ Made(current[s])
         /\ buffer[current[s]].owner = s
         /\ buffer[current[s]].size \in Sizes
         /\ buffer[current[s]].fd \in Fds /\ buffer[current[s]].fd # 0
<1>1. /\ current[s] \in Buffers
      /\ buffer[current[s]].owner = s /\ buffer[current[s]].fd # 0
  BY DEF Inv, TypeOK, BufferInv, CurrentIsOwn
<1>2. Made(current[s])
  BY <1>1 DEF Inv, BufferInv, OnlyMadeIsKnown
<1>3. buffer[current[s]].size \in Sizes
  BY <1>1, <1>2 DEF Inv, BufferInv, MadeIsWhole
<1>4. buffer[current[s]].fd \in Fds
  <2>1. buffer[current[s]] \in ClientBuffer
    BY <1>1 DEF Inv, TypeOK
  <2> QED  BY <1>1, <2>1 DEF ClientBuffer
<1> QED  BY <1>1, <1>2, <1>3, <1>4

(* A hit of the cache under another buffer's name is a buffer that is gone *)
(* and whose descriptor has been given out again.                          *)
LEMMA ImportEffect ==
  ASSUME Inv, NEW s \in DOMAIN windows, current[s] # 0, NEW b, b = current[s],
         get_or_import_dmabuf(b), UNCHANGED buffer
  PROVE  /\ IsMap(cache', Fds, [buffer : Buffers, surface : Surfaces])
         /\ leaked' \subseteq Buffers
         /\ \A c \in HeldByImport' : c \in HeldByImport \/ c = b
         /\ HeldByImport' \subseteq Buffers
         /\ CachedByFd'
         /\ \A fd \in DOMAIN cache' : cache'[fd].surface \in DOMAIN windows
         /\ LET source == cache'[buffer[b].fd].buffer
            IN  /\ source \in Buffers /\ Made(source)
                /\ source # b => /\ buffer[source].state = "gone"
                                 /\ buffer[source].size = buffer[b].size
<1> DEFINE fd == buffer[b].fd
           e  == [buffer |-> b, surface |-> buffer[b].owner]
<1>1. s \in Surfaces /\ IsMap(cache, Fds, [buffer : Buffers, surface : Surfaces])
      /\ leaked \subseteq Buffers
  BY DEF Inv, TypeOK, IsMap
<1>2. /\ b \in Buffers /\ Made(b) /\ buffer[b].owner = s /\ fd \in Fds /\ fd # 0
  BY <1>1, ShownBuffer
<1>3. \A k \in DOMAIN cache :
        /\ cache[k].buffer \in Buffers /\ Made(cache[k].buffer)
        /\ buffer[cache[k].buffer].state = "gone" \/ buffer[cache[k].buffer].fd = k
        /\ cache[k].surface \in DOMAIN windows
  BY KnownAreBuffers
  DEF Inv, BufferInv, OnlyMadeIsKnown, ImportInv, CachedByFd, StaleImportIsRecycled
<1>4. /\ e \in [buffer : Buffers, surface : Surfaces]
      /\ e.buffer = b /\ e.surface = s
  BY <1>1, <1>2
<1>5. /\ cache' = IF CacheHit(b) THEN cache ELSE Put(cache, fd, e)
      /\ leaked' = leaked \cup Evicted(b)
  BY DEF get_or_import_dmabuf
<1> HIDE DEF e
<1>6. CASE CacheHit(b)
  <2>1. cache' = cache /\ leaked' = leaked
    BY <1>5, <1>6 DEF Evicted
  <2>2. HeldByImport' = HeldByImport /\ HeldByImport \subseteq Buffers
    BY <1>1, <1>3, <2>1 DEF HeldByImport
  <2>3. fd \in DOMAIN cache /\ buffer[cache[fd].buffer].size = buffer[b].size
    BY <1>6 DEF CacheHit
  <2>4. cache[fd].buffer # b => buffer[cache[fd].buffer].state = "gone"
    BY <1>2, <1>3, <2>3 DEF Inv, BufferInv, FdsDiffer
  <2> QED  BY <1>1, <1>3, <2>1, <2>2, <2>3, <2>4 DEF CachedByFd
<1>7. CASE ~CacheHit(b)
  <2>1. /\ IsMap(cache', Fds, [buffer : Buffers, surface : Surfaces])
        /\ DOMAIN cache' = DOMAIN cache \cup {fd}
        /\ cache'[fd] = e
        /\ \A k \in DOMAIN cache \ {fd} : cache'[k] = cache[k]
    <3>1. cache' = Put(cache, fd, e) /\ fd \in Fds
      BY <1>2, <1>5, <1>7
    <3>2. IsMap(cache', Fds, [buffer : Buffers, surface : Surfaces])
      BY <1>1, <1>4, <3>1, PutType
    <3> QED  BY <3>1, <3>2 DEF Put
  <2>2. Evicted(b) = IF fd \in DOMAIN cache THEN {cache[fd].buffer} ELSE {}
    BY <1>7 DEF Evicted
  <2>3. leaked' \subseteq Buffers /\ leaked' \subseteq HeldByImport
    BY <1>1, <1>3, <1>5, <2>2 DEF HeldByImport
  <2>4. \A k \in DOMAIN cache' : cache'[k].buffer \in HeldByImport \cup {b}
    BY <1>4, <2>1 DEF HeldByImport
  <2>5. HeldByImport \subseteq Buffers
    BY <1>1, <1>3 DEF HeldByImport
  <2>6. \A c \in HeldByImport' : c \in HeldByImport \/ c = b
    BY <2>3, <2>4 DEF HeldByImport
  <2>7. CachedByFd'
    BY <1>2, <1>3, <1>4, <2>1 DEF CachedByFd
  <2>8. \A k \in DOMAIN cache' : cache'[k].surface \in DOMAIN windows
    BY <1>3, <1>4, <2>1
  <2> QED  BY <1>2, <1>4, <2>1, <2>3, <2>5, <2>6, <2>7, <2>8
<1> QED  BY <1>6, <1>7

LEMMA PresentDirectlyInv ==
  ASSUME Inv, NEW s \in Surfaces, PresentDirectly(s)
  PROVE  Inv'
<1> DEFINE w == WithDirect(windows[s])
           v == IF w.needs_redraw THEN Presented(w, buffer[current[s]].size) ELSE w
<1>1. /\ UNCHANGED <<buffer, surface, phase, destroyed, current, cache, leaked, staging,
                     tracker, jobs>>
      /\ phase = "render" /\ s \in todo /\ todo' \subseteq todo
      /\ current[s] # 0
      /\ windows' = [windows EXCEPT ![s] = v]
  BY DEF PresentDirectly, Rendering, ZeroCopy, vulkanVars, clientVars
<1>2. IsMap(windows, Surfaces, WindowState) /\ s \in DOMAIN windows /\ windows[s] \in WindowState
  BY <1>1 DEF Inv, TypeOK, IsMap
<1>3. /\ w \in WindowState /\ w.ahb_surface /\ w.ahb_target = windows[s].ahb_target
      /\ w.frame_in_flight = windows[s].frame_in_flight
  BY <1>2 DEF WithDirect, WindowState
<1> HIDE DEF w
<1>4. /\ v \in WindowState /\ v.ahb_surface /\ v.ahb_target = w.ahb_target
      /\ w.frame_in_flight => v.frame_in_flight
  <2>1. CASE w.needs_redraw
    <3>1. v = Presented(w, buffer[current[s]].size) /\ buffer[current[s]].size \in Sizes
      BY <1>1, <2>1, ShownBuffer
    <3>2. /\ v \in WindowState /\ v.ahb_surface = w.ahb_surface
          /\ v.ahb_target = w.ahb_target /\ v.frame_in_flight
      BY <1>3, <3>1 DEF Presented, WindowState
    <3> QED  BY <1>3, <3>2
  <2>2. CASE ~w.needs_redraw
    BY <1>3, <2>2
  <2> QED  BY <2>1, <2>2
<1> HIDE DEF v
<1>5. /\ IsMap(windows', Surfaces, WindowState)
      /\ DOMAIN windows' = DOMAIN windows
      /\ \A t \in DOMAIN windows : windows'[t] = IF t = s THEN v ELSE windows[t]
  BY <1>1, <1>2, <1>4, AssignType DEF IsMap
<1>6. TargetOfSurface' /\ JobIsInFlight'
  BY <1>1, <1>3, <1>4, <1>5 DEF Inv, GpuInv, TargetOfSurface, JobIsInFlight
<1>7. TodoInRender' /\ todo' \subseteq DOMAIN windows /\ destroyed' \subseteq Surfaces
      /\ phase' \in {"finish", "events", "dispatch", "render"}
  BY <1>1 DEF Inv, TypeOK, TodoInRender
<1> QED  BY <1>1, <1>5, <1>6, <1>7, WindowStepInv

LEMMA RenderNothingInv ==
  ASSUME Inv, NEW s \in Surfaces, RenderNothing(s)
  PROVE  Inv'
<1>1. /\ UNCHANGED <<buffer, surface, phase, destroyed, current, windows, cache, leaked, staging,
                     tracker, jobs>>
      /\ phase = "render" /\ todo' \subseteq todo
  BY DEF RenderNothing, Rendering, vulkanVars, clientVars
<1>2. TargetOfSurface' /\ JobIsInFlight'
  BY <1>1 DEF Inv, GpuInv, TargetOfSurface, JobIsInFlight
<1>3. /\ TodoInRender' /\ todo' \subseteq DOMAIN windows /\ destroyed' \subseteq Surfaces
      /\ phase' \in {"finish", "events", "dispatch", "render"}
      /\ IsMap(windows', Surfaces, WindowState)
  BY <1>1 DEF Inv, TypeOK, TodoInRender
<1> QED  BY <1>1, <1>2, <1>3, WindowStepInv

(* The target that the blit finds or makes: if it is another one, the GPU  *)
(* has been waited for, or the window had none and so no job.              *)
LEMMA TargetEffect ==
  ASSUME Inv, NEW s \in DOMAIN windows, NEW z \in Sizes, NEW w \in AfterTarget(windows[s], z),
         NEW js, js = JobsAfterTarget(s, z)
  PROVE  /\ w \in WindowState
         /\ w.ahb_target # 0 => w.ahb_surface
         /\ js = jobs \/ js = << >>
         /\ \A i \in DOMAIN js : js[i].surface = s => w.frame_in_flight /\ w.ahb_target # 0
<1> DEFINE x == windows[s]
<1>1. x \in WindowState /\ (x.ahb_target # 0 => x.ahb_surface)
  BY DEF Inv, TypeOK, IsMap, GpuInv, TargetOfSurface
<1>2. \A i \in DOMAIN jobs : jobs[i].surface = s => x.frame_in_flight /\ x.ahb_target # 0
  BY DEF Inv, GpuInv, JobIsInFlight
<1>3. js = IF NeedsResize(x, z) THEN << >> ELSE jobs
  BY NothingTorn DEF JobsAfterTarget, destroy_ahb_target, device_wait_idle
<1> HIDE DEF x
<1>4. WithTarget(x, z) \in WindowState /\ WithTarget(x, z).ahb_surface
  BY <1>1 DEF WithTarget, WindowState
<1>5. WithoutAhb(x) \in WindowState /\ WithoutAhb(x).ahb_target = 0
  BY <1>1 DEF WithoutAhb, WindowState
<1>6. CASE ~x.ahb_surface
  <2>1. w \in {WithTarget(x, z), x}
    BY <1>6 DEF AfterTarget, x
  <2>2. x.ahb_target = 0 /\ \A i \in DOMAIN js : js[i].surface # s
    BY <1>1, <1>2, <1>3, <1>6
  <2>3. js = jobs \/ js = << >>
    BY <1>3
  <2> QED  BY <1>1, <1>4, <2>1, <2>2, <2>3
<1>7. CASE x.ahb_surface /\ NeedsResize(x, z)
  <2>1. w \in {WithTarget(x, z), WithoutAhb(x)}
    BY <1>7 DEF AfterTarget, x
  <2>2. js = << >>
    BY <1>3, <1>7
  <2> QED  BY <1>4, <1>5, <2>1, <2>2
<1>8. CASE x.ahb_surface /\ ~NeedsResize(x, z)
  <2>1. w = x /\ js = jobs
    BY <1>3, <1>8 DEF AfterTarget, x
  <2> QED  BY <1>1, <1>2, <1>8, <2>1
<1> QED  BY <1>6, <1>7, <1>8

LEMMA RenderBlitInv ==
  ASSUME Inv, NEW s \in Surfaces, RenderBlit(s)
  PROVE  Inv'
<1> DEFINE b == current[s]
           z == buffer[b].size
<1>1. /\ UNCHANGED <<buffer, surface, phase, destroyed, current, tracker>>
      /\ phase = "render" /\ s \in todo /\ todo' \subseteq todo
      /\ b # 0
  BY DEF RenderBlit, Rendering, clientVars
<1>2. PICK w \in AfterTarget(windows[s], z) :
        \/ BlitAndPresent(s, w, JobsAfterTarget(s, z))
        \/ /\ windows' = [windows EXCEPT ![s] = w]
           /\ jobs' = JobsAfterTarget(s, z)
           /\ UNCHANGED <<cache, leaked, staging>>
  BY DEF RenderBlit
<1> DEFINE js == JobsAfterTarget(s, z)
<1>3. IsMap(windows, Surfaces, WindowState) /\ s \in DOMAIN windows
  BY <1>1 DEF Inv, TypeOK
<1>4. b \in Buffers /\ Made(b) /\ z \in Sizes
  BY <1>1, ShownBuffer
<1>5. /\ w \in WindowState
      /\ w.ahb_target # 0 => w.ahb_surface
      /\ js = jobs \/ js = << >>
      /\ \A i \in DOMAIN js : js[i].surface = s => w.frame_in_flight /\ w.ahb_target # 0
  BY <1>2, <1>3, <1>4, TargetEffect
<1>6. /\ js \in Seq(Job)
      /\ \A i \in DOMAIN js : i \in DOMAIN jobs /\ js[i] = jobs[i]
  <2>1. CASE js = << >>
    BY <2>1
  <2>2. CASE js = jobs
    BY <2>2 DEF Inv, TypeOK
  <2> QED  BY <1>5, <2>1, <2>2
<1>7. TodoInRender' /\ todo' \subseteq DOMAIN windows /\ destroyed' \subseteq Surfaces
      /\ phase' \in {"finish", "events", "dispatch", "render"}
  BY <1>1 DEF Inv, TypeOK, TodoInRender
<1>8. ASSUME NEW v \in WindowState, windows' = [windows EXCEPT ![s] = v]
      PROVE  /\ IsMap(windows', Surfaces, WindowState)
             /\ DOMAIN windows' = DOMAIN windows
             /\ \A t \in DOMAIN windows : windows'[t] = IF t = s THEN v ELSE windows[t]
  BY <1>3, <1>8, AssignType DEF IsMap
<1>9. CASE /\ windows' = [windows EXCEPT ![s] = w]
           /\ jobs' = js
           /\ UNCHANGED <<cache, leaked, staging>>
  <2>1. TargetOfSurface'
    BY <1>5, <1>8, <1>9 DEF Inv, GpuInv, TargetOfSurface
  <2>2. JobIsInFlight'
    BY <1>5, <1>6, <1>8, <1>9 DEF Inv, GpuInv, JobIsInFlight
  <2> QED  BY <1>1, <1>5, <1>7, <1>8, <1>9, <2>1, <2>2, WindowStepInv
<1>10. CASE BlitAndPresent(s, w, js)
  <2> DEFINE source == cache'[buffer[b].fd].buffer
             j  == [surface |-> s, buffer |-> b, source |-> source, intact |-> TRUE]
  <2>1. PICK ks \in {js, get_or_create_staging(z, js)} :
          /\ w.ahb_target # 0 /\ ~w.frame_in_flight
          /\ get_or_import_dmabuf(b)
          /\ \/ /\ staging' = z /\ jobs' = Append(ks, j)
                /\ windows' = [windows EXCEPT ![s] = Presented(w, z)]
             \/ /\ staging' \in {staging, 0, z} /\ jobs' = ks
                /\ windows' = [windows EXCEPT ![s] = w]
    BY <1>10 DEF BlitAndPresent, MayPresent
  <2>2. /\ IsMap(cache', Fds, [buffer : Buffers, surface : Surfaces])
        /\ leaked' \subseteq Buffers
        /\ \A c \in HeldByImport' : c \in HeldByImport \/ c = b
        /\ HeldByImport' \subseteq Buffers
        /\ CachedByFd'
        /\ \A fd \in DOMAIN cache' : cache'[fd].surface \in DOMAIN windows
        /\ source \in Buffers /\ Made(source)
        /\ source # b => buffer[source].state = "gone" /\ buffer[source].size = buffer[b].size
    BY <1>1, <1>3, <2>1, ImportEffect
  <2>3. ks = js \/ ks = << >>
    BY <2>1, NothingTorn DEF get_or_create_staging, device_wait_idle
  <2>4. j \in Job /\ j.surface = s /\ j.buffer = b /\ j.source = source /\ j.intact
    BY <1>4, <2>2 DEF Job
  <2> HIDE DEF j, source
  <2>5. /\ ks \in Seq(Job)
        /\ \A i \in DOMAIN ks : i \in DOMAIN jobs /\ ks[i] = jobs[i] /\ ks[i].surface # s
    <3>1. \A i \in DOMAIN js : js[i].surface # s
      BY <1>5, <2>1
    <3>2. CASE ks = << >>
      BY <3>2
    <3>3. CASE ks = js
      BY <1>6, <3>1, <3>3
    <3> QED  BY <2>3, <3>2, <3>3
  <2>6. PICK v \in {w, Presented(w, z)} :
          /\ windows' = [windows EXCEPT ![s] = v]
          /\ \/ jobs' = ks
             \/ jobs' = Append(ks, j) /\ v = Presented(w, z)
    BY <2>1
  <2>7. /\ v \in WindowState /\ v.ahb_target = w.ahb_target
        /\ v.ahb_surface = w.ahb_surface
        /\ v = Presented(w, z) => v.frame_in_flight
    BY <1>4, <1>5, <2>6 DEF Presented, WindowState
  <2>8. /\ jobs' \in Seq(Job)
        /\ \A i \in DOMAIN jobs' :
             \/ i \in DOMAIN jobs /\ jobs'[i] = jobs[i] /\ jobs'[i].surface # s
             \/ jobs'[i] = j /\ v = Presented(w, z) /\ i = Len(ks) + 1
    <3>1. CASE jobs' = ks
      BY <2>5, <3>1
    <3>2. CASE jobs' = Append(ks, j) /\ v = Presented(w, z)
      <4>1. /\ jobs' \in Seq(Job) /\ DOMAIN jobs' = DOMAIN ks \cup {Len(ks) + 1}
            /\ jobs'[Len(ks) + 1] = j /\ \A i \in DOMAIN ks : jobs'[i] = ks[i]
        BY <2>4, <2>5, <3>2
      <4> QED  BY <2>5, <3>2, <4>1
    <3> QED  BY <2>6, <3>1, <3>2
  <2>9. staging' \in Sizes \cup {0}
    BY <1>4, <2>1 DEF Inv, TypeOK
  <2>10. /\ IsMap(windows', Surfaces, WindowState)
         /\ DOMAIN windows' = DOMAIN windows
         /\ \A t \in DOMAIN windows : windows'[t] = IF t = s THEN v ELSE windows[t]
    BY <1>8, <2>6, <2>7
  <2>11. TypeOK'
    BY <1>1, <1>7, <2>2, <2>8, <2>9, <2>10 DEF Inv, TypeOK
  <2>12. BufferInv'
    <3>1. \A c \in HeldByImport' : c \in HeldByImport \/ buffer[c].fd # 0
      BY <1>1, <2>2, ShownBuffer
    <3>2. \A i \in DOMAIN jobs' : Made(jobs'[i].buffer) /\ Made(jobs'[i].source)
      BY <1>4, <2>2, <2>4, <2>8 DEF Inv, BufferInv, OnlyMadeIsKnown
    <3> QED  BY <1>1, <2>2, <3>1, <3>2, BuffersKept
  <2>13. StaleImportIsRecycled'
    <3>1. ASSUME NEW i \in DOMAIN jobs', jobs'[i].source # jobs'[i].buffer
          PROVE  /\ buffer[jobs'[i].source].state = "gone"
                 /\ buffer[jobs'[i].source].size = buffer[jobs'[i].buffer].size
      BY <2>2, <2>4, <2>8, <3>1 DEF Inv, ImportInv, StaleImportIsRecycled
    <3> QED  BY <1>1, <2>2, <2>10, <3>1 DEF StaleImportIsRecycled
  <2>14. TargetOfSurface'
    BY <1>5, <2>7, <2>10 DEF Inv, GpuInv, TargetOfSurface
  <2>15. JobIsInFlight'
    BY <2>1, <2>4, <2>7, <2>8, <2>10 DEF Inv, GpuInv, JobIsInFlight
  <2>16. GpuWorkIntact'
    BY <2>4, <2>8 DEF Inv, GpuInv, GpuWorkIntact
  <2> QED
    BY <1>7, <2>2, <2>11, <2>12, <2>13, <2>14, <2>15, <2>16 DEF Inv, ImportInv, GpuInv
<1> QED  BY <1>2, <1>9, <1>10

-----------------------------------------------------------------------------
LEMMA InitInv == Init => Inv
<1> SUFFICES ASSUME Init PROVE Inv
  OBVIOUS
<1>1. /\ DOMAIN cache = {} /\ DOMAIN tracker = {} /\ DOMAIN jobs = {}
      /\ jobs = << >> /\ leaked = {}
  BY DEF Init
<1>2. \A b \in Buffers :
        /\ buffer[b] \in ClientBuffer
        /\ buffer[b].state = "none" /\ buffer[b].fd = 0
  BY DEF Init, ClientBuffer
<1>3. \A s \in Surfaces : windows[s] \in WindowState /\ windows[s].ahb_target = 0
  BY DEF Init, WindowState
<1>4. TypeOK
  <2>1. buffer \in [Buffers -> ClientBuffer]
    BY <1>2 DEF Init
  <2>2. IsMap(windows, Surfaces, WindowState)
    BY <1>3 DEF Init, IsMap
  <2>3. /\ IsMap(cache, Fds, [buffer : Buffers, surface : Surfaces])
        /\ IsMap(tracker, Inodes, Buffers)
    BY DEF Init, IsMap
  <2>4. jobs \in Seq(Job)
    BY <1>1
  <2> QED  BY <2>1, <2>2, <2>3, <2>4 DEF Init, TypeOK
<1>5. \A b \in Buffers : ~Exists(b)
  BY <1>1, <1>2 DEF Exists, HeldByTracker, HeldByImport, Range
<1>6. BufferInv
  BY <1>1, <1>2, <1>5
  DEF Init, BufferInv, LiveHasFd, CurrentIsOwn, FdsDiffer, OnlyMadeIsKnown, MadeIsWhole, Made,
      TrackerHasInodes, TrackedIsItsBuffer
<1>7. ImportInv
  BY <1>1 DEF ImportInv, CachedByFd, StaleImportIsRecycled
<1>8. GpuInv /\ TodoInRender
  <2>1. DOMAIN windows = Surfaces /\ todo = {}
    BY DEF Init
  <2> QED  BY <1>1, <1>3, <2>1
           DEF GpuInv, TargetOfSurface, JobIsInFlight, GpuWorkIntact, TodoInRender
<1> QED  BY <1>4, <1>6, <1>7, <1>8 DEF Inv

LEMMA NextInv ==
  ASSUME Inv, [Next]_vars
  PROVE  Inv'
<1>1. CASE Client
  BY <1>1, HandleAllocInv, DmabufImportedInv, CommitInv, BufferDestroyedInv,
     ToplevelDestroyedInv
  DEF Client
<1>2. CASE Compositor
  BY <1>2, PhaseInv, FinishInv, EventInv, PresentDirectlyInv, RenderBlitInv, RenderNothingInv
  DEF Compositor
<1>3. CASE GpuDone
  BY <1>3, GpuDoneInv
<1>4. CASE \E s \in DOMAIN windows : OnComplete(s)
  BY <1>4, OnCompleteInv
<1>5. CASE UNCHANGED vars
  <2>1. UNCHANGED <<buffer, surface, phase, todo, destroyed, current, windows, cache, leaked,
                    staging, tracker, jobs>>
    BY <1>5 DEF vars, clientVars, windowVars, vulkanVars
  <2>2. /\ TargetOfSurface' /\ JobIsInFlight' /\ TodoInRender'
        /\ destroyed' \subseteq Surfaces /\ todo' \subseteq DOMAIN windows'
        /\ phase' \in {"finish", "events", "dispatch", "render"}
        /\ IsMap(windows', Surfaces, WindowState)
    BY <2>1 DEF Inv, TypeOK, GpuInv, TargetOfSurface, JobIsInFlight, TodoInRender
  <2> QED  BY <2>1, <2>2, WindowStepInv
<1> QED  BY <1>1, <1>2, <1>3, <1>4, <1>5 DEF Next

LEMMA SpecInv == Spec => []Inv
<1> QED  BY InitInv, NextInv, PTL DEF Spec

(* Every variable keeps its type: in particular a surface shows only       *)
(* buffers that were made, and the renderer visits only windows there are. *)
THEOREM BufferTypes == Spec => []TypeOK
<1>1. Inv => TypeOK
  BY DEF Inv
<1> QED  BY <1>1, SpecInv, PTL

(* A buffer that AhbBufferTracker.lookup finds is the one allocated there: *)
(* the tracker holds what it names, so the inode is not given out again.   *)
THEOREM TrackerIsRight == Spec => []TrackedIsItsBuffer
<1>1. Inv => TrackedIsItsBuffer
  BY DEF Inv, BufferInv
<1> QED  BY <1>1, SpecInv, PTL

(* get_or_import_dmabuf, which looks up by descriptor and size, returns    *)
(* either the buffer's own import or that of a destroyed buffer of the     *)
(* same size whose descriptor it has got, and none of a window removed.    *)
THEOREM ImportsAreRecycled == Spec => []StaleImportIsRecycled
<1>1. Inv => StaleImportIsRecycled
  BY DEF Inv, ImportInv
<1> QED  BY <1>1, SpecInv, PTL

(* No target and no staging image is destroyed under a frame that uses it, *)
(* and a window has one frame on the GPU (destroy_ahb_target,              *)
(* get_or_create_staging, frame_in_flight).                                *)
THEOREM GpuWorkStaysIntact == Spec => []GpuWorkIntact
<1>1. Inv => GpuWorkIntact
  BY DEF Inv, GpuInv
<1> QED  BY <1>1, SpecInv, PTL

=============================================================================
