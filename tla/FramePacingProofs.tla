--------------------------- MODULE FramePacingProofs ---------------------------
(***************************************************************************)
(* The native window of a client has one producer, and an AHB surface has  *)
(* one frame in flight, for every set of sizes, every number of frames,    *)
(* surfaces and driver failures, with and without zero-copy.               *)
(*                                                                         *)
(* The argument is local to the steps that render: every path through the  *)
(* renderer leaves a window that is Sound and a queue of transactions that *)
(* is Orderly.                                                             *)
(***************************************************************************)
EXTENDS FramePacing, TLAPS, SequenceTheorems

-----------------------------------------------------------------------------
(* The inductive invariant.                                                *)

(* A window as the renderer leaves it, when it has made g AHB surfaces.    *)
OneProducerOf(w) ==
  /\ ~(w.egl_surface /\ w.ahb_surface # NoAhb)
  /\ w.egl_surface \/ w.ahb_surface # NoAhb => w.native_window

Sound(w, g) == w \in WindowState /\ OneProducerOf(w) /\ w.ahb_surface.generation <= g

(* The flags and the transactions, when it has made g AHB surfaces. *)
Orderly(flags, queue, g) ==
  /\ flags \subseteq 1 .. g
  /\ queue \in Seq(1 .. g)
  /\ \A i, j \in DOMAIN queue : queue[i] = queue[j] => i = j
  /\ \A i \in DOMAIN queue : queue[i] \in flags

Inv == TypeOK /\ Sound(window, generation) /\ Orderly(in_flight, flying, generation)

-----------------------------------------------------------------------------
(* The updates of a window.                                                *)

LEMMA AhbType ==
  ASSUME NEW w \in WindowState
  PROVE  /\ w.ahb_surface = NoAhb => w.ahb_surface.generation = 0
         /\ w.ahb_surface # NoAhb =>
              w.ahb_surface \in AhbWindowSurface /\ w.ahb_surface.generation \in Nat \ {0}
  BY DEF WindowState, AhbWindowSurface, NoAhb

LEMMA NewAhbIsSound ==
  ASSUME NEW g \in Nat, g = generation, NEW w, Sound(w, g), w.native_window,
         NEW size \in Sizes \cup {0}
  PROVE  /\ Sound(WithNewAhb(w, size), g + 1)
         /\ WithNewAhb(w, size).ahb_surface # NoAhb
         /\ WithNewAhb(w, size).native_window
<1> DEFINE a == [generation |-> g + 1, size |-> size]
           n == [w EXCEPT !.egl_surface = FALSE, !.needs_redraw = TRUE, !.ahb_surface = a]
<1>1. WithNewAhb(w, size) = n
  BY DEF WithNewAhb
<1>2. a \in AhbWindowSurface /\ a.generation = g + 1 /\ a # NoAhb
  BY DEF AhbWindowSurface, NoAhb
<1> HIDE DEF a
<1>3. /\ n \in WindowState /\ ~n.egl_surface /\ n.ahb_surface = a
      /\ n.native_window = w.native_window
  BY <1>2 DEF WindowState, Sound
<1> HIDE DEF n
<1> QED  BY <1>1, <1>2, <1>3 DEF Sound, OneProducerOf

LEMMA WithoutAhbIsSound ==
  ASSUME NEW g \in Nat, NEW w, Sound(w, g)
  PROVE  Sound(WithoutAhb(w), g)
<1>1. /\ WithoutAhb(w) \in WindowState
      /\ ~WithoutAhb(w).egl_surface /\ WithoutAhb(w).ahb_surface = NoAhb
  BY DEF Sound, WithoutAhb, WindowState
<1> QED  BY <1>1 DEF Sound, OneProducerOf, NoAhb

LEMMA MarkedIsSound ==
  ASSUME Inv
  PROVE  Sound(Marked, generation) /\ (Renderable(Marked) => Marked.native_window)
<1>1. /\ Marked \in WindowState
      /\ Marked.egl_surface = window.egl_surface
      /\ Marked.ahb_surface = window.ahb_surface
      /\ Marked.native_window = window.native_window
  BY DEF Inv, TypeOK, Marked, WindowState
<1> QED  BY <1>1 DEF Inv, Sound, OneProducerOf, Renderable

LEMMA NewEglIsSound ==
  ASSUME NEW g \in Nat, NEW w, Sound(w, g), w.egl_surface \/ WantsEgl(w)
  PROVE  Sound([w EXCEPT !.egl_surface = TRUE], g)
<1> DEFINE n == [w EXCEPT !.egl_surface = TRUE]
<1>1. /\ n \in WindowState
      /\ n.ahb_surface = w.ahb_surface /\ n.native_window = w.native_window
  BY DEF Sound, WindowState
<1>2. w.ahb_surface = NoAhb /\ w.native_window
  BY DEF Sound, OneProducerOf, WantsEgl
<1>3. Sound(n, g)
  <2> HIDE DEF n
  <2> QED  BY <1>1, <1>2 DEF Sound, OneProducerOf
<1> QED  BY <1>3

-----------------------------------------------------------------------------
(* The paths of the renderer.                                              *)

Answers == {"none", "sent", "requested", "buffered"}

(* What every path establishes, when g AHB surfaces have been made.        *)
Rendered(g) ==
  /\ Sound(window', g)
  /\ Orderly(in_flight', flying', g)
  /\ shown' \in 0 .. MaxFrames
  /\ callback' \in Answers

LEMMA GlesRenders ==
  ASSUME TypeOK, NEW g \in Nat, NEW w, Sound(w, g), Orderly(in_flight, flying, g), render_gles_window(w)
  PROVE  Rendered(g)
<1>1. Orderly(in_flight', flying', g)
  BY DEF render_gles_window, Orderly
<1>2. Sound(window', g)
  BY NewEglIsSound DEF render_gles_window
<1>3. shown' \in 0 .. MaxFrames
  BY DEF render_gles_window, TypeOK, Buffer
<1>4. callback' \in Answers
  BY DEF render_gles_window, send_frames, TypeOK, Answers
<1> QED  BY <1>1, <1>2, <1>3, <1>4 DEF Rendered

LEMMA GlesFailureRenders ==
  ASSUME TypeOK, NEW g \in Nat, NEW w, Sound(w, g), Orderly(in_flight, flying, g), render_gles_fails(w)
  PROVE  Rendered(g)
<1>1. Orderly(in_flight', flying', g)
  BY DEF render_gles_fails, Orderly
<1>2. Sound(window', g)
  BY NewEglIsSound DEF render_gles_fails
<1>3. shown' \in 0 .. MaxFrames /\ callback' \in Answers
  BY DEF render_gles_fails, send_frames, TypeOK, Answers
<1> QED  BY <1>1, <1>2, <1>3 DEF Rendered

LEMMA NothingNewRenders ==
  ASSUME TypeOK, NEW g \in Nat, NEW w, Sound(w, g), Orderly(in_flight, flying, g), NothingNew(w)
  PROVE  Rendered(g)
<1>1. Orderly(in_flight', flying', g)
  BY DEF NothingNew, Orderly
<1>2. shown' \in 0 .. MaxFrames /\ callback' \in Answers
  BY DEF NothingNew, send_frames, TypeOK, Answers
<1> QED  BY <1>1, <1>2 DEF Rendered, NothingNew

(* The flag that MayPresent reads is that of the surface presented on, so  *)
(* none of its transactions is under way.                                  *)
LEMMA PresentRenders ==
  ASSUME TypeOK, NEW g \in Nat, NEW w, Sound(w, g), Orderly(in_flight, flying, g), w.ahb_surface # NoAhb,
         MayPresent(w), present_buffer(w)
  PROVE  Rendered(g)
<1> DEFINE a == w.ahb_surface.generation
<1>1. a \in 1 .. g /\ a \notin in_flight
  BY AhbType DEF Sound, MayPresent
<1>2. Orderly(in_flight', flying', g)
  <2>1. in_flight' = in_flight \cup {a} /\ flying' = Append(flying, a)
    BY DEF present_buffer
  <2> HIDE DEF a
  <2>2. flying \in Seq(1 .. g) /\ in_flight \subseteq 1 .. g
    BY DEF Orderly
  <2>3. /\ flying' \in Seq(1 .. g) /\ Len(flying') = Len(flying) + 1
        /\ flying'[Len(flying) + 1] = a
        /\ \A i \in 1 .. Len(flying) : flying'[i] = flying[i]
        /\ DOMAIN flying = 1 .. Len(flying) /\ DOMAIN flying' = 1 .. (Len(flying) + 1)
    BY <1>1, <2>1, <2>2
  <2>4. \A i \in 1 .. Len(flying) : flying[i] # a /\ flying[i] \in in_flight
    BY <1>1, <2>3 DEF Orderly
  <2>5. \A i, j \in DOMAIN flying' : flying'[i] = flying'[j] => i = j
    <3>1. \A i, j \in DOMAIN flying : flying[i] = flying[j] => i = j
      BY DEF Orderly
    <3>2. SUFFICES ASSUME NEW i \in 1 .. (Len(flying) + 1), NEW j \in 1 .. (Len(flying) + 1),
                          flying'[i] = flying'[j]
                   PROVE  i = j
      BY <2>3
    <3>3. Len(flying) \in Nat
      BY <2>2
    <3>4. CASE i \in 1 .. Len(flying) /\ j \in 1 .. Len(flying)
      BY <2>3, <3>1, <3>2, <3>4
    <3>5. CASE i = Len(flying) + 1 /\ j \in 1 .. Len(flying)
      BY <2>3, <2>4, <3>2, <3>5
    <3>6. CASE j = Len(flying) + 1 /\ i \in 1 .. Len(flying)
      BY <2>3, <2>4, <3>2, <3>6
    <3> QED  BY <3>3, <3>4, <3>5, <3>6
  <2>6. \A i \in DOMAIN flying' : flying'[i] \in in_flight'
    BY <2>1, <2>3, <2>4
  <2> QED  BY <1>1, <2>1, <2>2, <2>3, <2>5, <2>6 DEF Orderly
<1>3. Sound(window', g)
  <2>1. content.size \in Sizes
    BY DEF TypeOK, Buffer
  <2>2. /\ window' \in WindowState
        /\ window'.egl_surface = w.egl_surface /\ window'.ahb_surface = w.ahb_surface
        /\ window'.native_window = w.native_window
    BY <2>1 DEF Sound, present_buffer, WindowState
  <2> QED  BY <2>2 DEF Sound, OneProducerOf
<1>4. shown' \in 0 .. MaxFrames
  BY DEF present_buffer, TypeOK, Buffer
<1>5. callback' \in Answers
  BY DEF present_buffer, send_frames, TypeOK, Answers
<1> QED  BY <1>2, <1>3, <1>4, <1>5 DEF Rendered

LEMMA BlitAndPresentRenders ==
  ASSUME TypeOK, NEW g \in Nat, NEW w, Sound(w, g), Orderly(in_flight, flying, g), w.ahb_surface # NoAhb,
         BlitAndPresent(w)
  PROVE  Rendered(g) /\ failures' \in 0 .. MaxFailures
<1>1. Rendered(g)
  BY NothingNewRenders, PresentRenders, GlesRenders DEF BlitAndPresent
<1>2. failures' \in 0 .. MaxFailures
  BY BoundsAssumption DEF BlitAndPresent, DriverWorks, DriverFails, TypeOK
<1> QED  BY <1>1, <1>2

(* A bound on the AHB surfaces made holds for more of them.                *)
LEMMA OrderlyGrows ==
  ASSUME NEW g \in Nat, Orderly(in_flight, flying, g)
  PROVE  Orderly(in_flight, flying, g + 1)
<1>1. 1 .. g \subseteq 1 .. (g + 1)
  OBVIOUS
<1>2. Seq(1 .. g) \subseteq Seq(1 .. (g + 1))
  BY <1>1, SeqMonotonic
<1> QED  BY <1>1, <1>2 DEF Orderly

LEMMA BlitPathRenders ==
  ASSUME Inv, NEW w, Sound(w, generation), w.native_window, BlitPath(w)
  PROVE  /\ generation' \in Nat
         /\ Rendered(generation')
         /\ failures' \in 0 .. MaxFailures
<1>1. generation \in Nat /\ TypeOK /\ content.size \in Sizes /\ MaxFailures \in Nat
  BY BoundsAssumption DEF Inv, TypeOK, Buffer
<1>2. CASE /\ FittingAhb(w)
           /\ BlitAndPresent(w)
           /\ UNCHANGED generation
  BY <1>1, <1>2, BlitAndPresentRenders DEF Inv, FittingAhb
<1>3. CASE /\ generation' = generation + 1
           /\ BlitAndPresent(WithNewAhb(w, content.size))
  <2>1. /\ Sound(WithNewAhb(w, content.size), generation + 1)
        /\ WithNewAhb(w, content.size).ahb_surface # NoAhb
    BY <1>1, NewAhbIsSound
  <2>2. Orderly(in_flight, flying, generation + 1)
    BY <1>1, OrderlyGrows DEF Inv
  <2>3. generation + 1 \in Nat
    BY <1>1
  <2> QED  BY <1>1, <1>3, <2>1, <2>2, <2>3, BlitAndPresentRenders
<1>4. CASE /\ DriverFails
           /\ render_gles_window(WithoutAhb(w))
           /\ UNCHANGED generation
  <2>1. Sound(WithoutAhb(w), generation)
    BY <1>1, WithoutAhbIsSound
  <2>2. failures' \in 0 .. MaxFailures
    BY <1>1, <1>4 DEF DriverFails, TypeOK
  <2> QED  BY <1>1, <1>4, <2>1, <2>2, GlesRenders DEF Inv
<1> QED  BY <1>2, <1>3, <1>4 DEF BlitPath

LEMMA DirectPathRenders ==
  ASSUME Inv, NEW w, Sound(w, generation), w.native_window, DirectPath(w)
  PROVE  /\ generation' \in Nat
         /\ Rendered(generation')
         /\ failures' \in 0 .. MaxFailures
<1>1. generation \in Nat /\ TypeOK /\ MaxFailures \in Nat
  BY BoundsAssumption DEF Inv, TypeOK
<1>2. CASE /\ generation' = IF w.ahb_surface = NoAhb THEN generation + 1 ELSE generation
           /\ DriverWorks
           /\ NothingNew(WithDirectAhb(w)) \/
                (MayPresent(WithDirectAhb(w)) /\ present_buffer(WithDirectAhb(w)))
  <2>1. failures' \in 0 .. MaxFailures
    BY <1>1, <1>2 DEF DriverWorks, TypeOK
  <2>2. /\ generation' \in Nat
        /\ Sound(WithDirectAhb(w), generation')
        /\ WithDirectAhb(w).ahb_surface # NoAhb
        /\ Orderly(in_flight, flying, generation')
    <3>1. CASE w.ahb_surface = NoAhb
      BY <1>1, <1>2, <3>1, NewAhbIsSound, OrderlyGrows DEF WithDirectAhb, Inv
    <3>2. CASE w.ahb_surface # NoAhb
      BY <1>1, <1>2, <3>2 DEF WithDirectAhb, Inv
    <3> QED  BY <3>1, <3>2
  <2> QED  BY <1>1, <1>2, <2>1, <2>2, NothingNewRenders, PresentRenders
<1>3. CASE BlitPath(w)
  BY <1>3, BlitPathRenders
<1> QED  BY <1>2, <1>3 DEF DirectPath

-----------------------------------------------------------------------------
(* One step per action.                                                    *)

LEMMA InitInv == Init => Inv
<1> SUFFICES ASSUME Init PROVE Inv
  OBVIOUS
<1>1. (CHOOSE s \in Sizes : TRUE) \in Sizes
  BY SizesAssumption
<1>2. window \in WindowState /\ content \in Buffer
  BY <1>1, BoundsAssumption DEF Init, WindowState, Buffer
<1>3. Sound(window, generation)
  BY <1>2 DEF Init, Sound, OneProducerOf, NoAhb
<1>4. Orderly(in_flight, flying, generation)
  BY DEF Init, Orderly
<1>5. TypeOK
  <2>1. MaxFrames \in Nat /\ MaxViewChanges \in Nat /\ MaxFailures \in Nat
    BY BoundsAssumption
  <2>2. /\ socket = << >> /\ channel = << >> /\ flying = << >>
        /\ frames = 0 /\ shown = 0 /\ failures = 0 /\ view_changes = 0
    BY DEF Init
  <2>3. /\ socket \in Seq(Commit) /\ flying \in Seq(1 .. generation)
        /\ channel \in Seq({"SurfaceCreated", "SurfaceChanged", "SurfaceDestroyed"})
    BY <2>2
  <2>4. /\ frames \in 0 .. MaxFrames /\ shown \in 0 .. MaxFrames
        /\ failures \in 0 .. MaxFailures /\ view_changes \in 0 .. MaxViewChanges
    BY <2>1, <2>2
  <2> QED  BY <1>2, <2>3, <2>4 DEF Init, TypeOK
<1> QED  BY <1>3, <1>4, <1>5 DEF Inv

LEMMA RenderInv ==
  ASSUME Inv, render_activity_windows
  PROVE  Inv'
<1>1. Sound(Marked, generation) /\ (Renderable(Marked) => Marked.native_window)
  BY MarkedIsSound
<1>2. generation \in Nat /\ TypeOK /\ MaxFailures \in Nat
  BY BoundsAssumption DEF Inv, TypeOK
<1>3. generation' \in Nat /\ Rendered(generation') /\ failures' \in 0 .. MaxFailures
  <2>1. CASE SkipWindow
    <3>1. callback' \in Answers /\ shown' \in 0 .. MaxFrames /\ failures' \in 0 .. MaxFailures
      BY <1>2, <2>1 DEF SkipWindow, send_frames, TypeOK, Answers
    <3> QED  BY <1>1, <1>2, <2>1, <3>1 DEF SkipWindow, Rendered, Inv
  <2>2. CASE RenderWindow /\ try_render_vulkan_dmabuf(Marked)
    BY <1>1, <2>2, BlitPathRenders, DirectPathRenders
    DEF RenderWindow, try_render_vulkan_dmabuf
  <2>3. CASE /\ (render_gles_window(Marked) /\ DriverWorks) \/ render_gles_fails(Marked)
             /\ UNCHANGED generation
    <3>1. failures' \in 0 .. MaxFailures
      BY <1>2, <2>3 DEF DriverWorks, DriverFails, render_gles_fails, TypeOK
    <3> QED  BY <1>1, <1>2, <2>3, <3>1, GlesRenders, GlesFailureRenders DEF Inv
  <2> QED  BY <2>1, <2>2, <2>3 DEF render_activity_windows, RenderWindow
<1>4. pc' = "poll" /\ committed' = FALSE /\ RenderFrame
  BY DEF render_activity_windows
<1> QED  BY <1>2, <1>3, <1>4
         DEF Inv, TypeOK, Rendered, Sound, Orderly, Answers, RenderFrame, uiVars

LEMMA HandleEventInv ==
  ASSUME Inv, HandleEvent
  PROVE  Inv'
<1>1. channel' \in Seq({"SurfaceCreated", "SurfaceChanged", "SurfaceDestroyed"})
  BY DEF Inv, TypeOK, HandleEvent
<1>2. window \in WindowState /\ OneProducerOf(window)
  BY DEF Inv, Sound
<1>3. Sound(window', generation) /\ window' \in WindowState
  <2>1. CASE window' = [window EXCEPT !.native_window = TRUE]
    BY <1>2, <2>1 DEF Inv, Sound, OneProducerOf, WindowState
  <2>2. CASE window' = [window EXCEPT !.sized = TRUE,
                          !.needs_redraw = @ \/ window.ahb_surface = NoAhb]
    BY <1>2, <2>2 DEF Inv, Sound, OneProducerOf, WindowState
  <2>3. CASE window' = AfterDestroyed(window)
    <3>1. window' \in WindowState /\ ~window'.egl_surface /\ window'.ahb_surface = NoAhb
      BY <1>2, <2>3 DEF AfterDestroyed, WindowState
    <3> QED  BY <3>1 DEF Inv, TypeOK, Sound, OneProducerOf, NoAhb
  <2> QED  BY <2>1, <2>2, <2>3 DEF HandleEvent
<1>4. shown' \in 0 .. MaxFrames
  BY BoundsAssumption DEF HandleEvent, Inv, TypeOK
<1> QED  BY <1>1, <1>3, <1>4
         DEF HandleEvent, Inv, TypeOK, clientVars, uiVars, flingerVars

(* A transaction that completes clears the flag of the AHB surface it was  *)
(* for and of no other.                                                    *)
LEMMA OnCompleteInv ==
  ASSUME Inv, OnComplete
  PROVE  Inv'
<1> DEFINE h == Head(flying)
<1>1. /\ flying \in Seq(1 .. generation) /\ flying # << >>
      /\ in_flight' = in_flight \ {h} /\ flying' = Tail(flying)
  BY DEF OnComplete, ClearedFlag, Inv, Orderly
<1>2. /\ h = flying[1] /\ flying' \in Seq(1 .. generation)
      /\ DOMAIN flying = 1 .. Len(flying) /\ DOMAIN flying' = 1 .. (Len(flying) - 1)
      /\ Len(flying) \in Nat
      /\ \A i \in 1 .. (Len(flying) - 1) : flying'[i] = flying[i + 1]
  BY <1>1
<1> HIDE DEF h
<1>3. Orderly(in_flight', flying', generation)
  <2>1. \A i, j \in DOMAIN flying' : flying'[i] = flying'[j] => i = j
    <3> TAKE i, j \in DOMAIN flying'
    <3>1. i + 1 \in DOMAIN flying /\ j + 1 \in DOMAIN flying /\ i \in Int /\ j \in Int
      BY <1>2
    <3>2. flying'[i] = flying'[j] => i + 1 = j + 1
      BY <1>2, <3>1 DEF Inv, Orderly
    <3> QED  BY <3>1, <3>2
  <2>2. ASSUME NEW i \in DOMAIN flying' PROVE flying'[i] \in in_flight'
    <3>1. i + 1 \in DOMAIN flying /\ 1 \in DOMAIN flying /\ i + 1 # 1
      BY <1>2
    <3>2. flying[i + 1] # flying[1] /\ flying[i + 1] \in in_flight
      BY <3>1 DEF Inv, Orderly
    <3> QED  BY <1>1, <1>2, <3>2
  <2> QED  BY <1>1, <1>2, <2>1, <2>2 DEF Inv, Orderly
<1> QED  BY <1>1, <1>2, <1>3
         DEF OnComplete, Inv, TypeOK, Orderly, clientVars, compositorVars, uiVars

LEMMA ClientInv ==
  ASSUME Inv, Client
  PROVE  Inv'
<1>1. PICK kind \in {"dmabuf", "ahb", "shm"}, size \in Sizes, wants \in BOOLEAN :
        ClientCommit(kind, size, wants)
  BY DEF Client
<1>2. frames' \in 0 .. MaxFrames
  BY <1>1, BoundsAssumption DEF ClientCommit, Inv, TypeOK
<1>3. [buffer |-> [kind |-> kind, size |-> size, frame |-> frames'], callback |-> wants] \in Commit
  BY <1>2 DEF Commit, Buffer
<1>4. socket' \in Seq(Commit)
  BY <1>1, <1>3 DEF ClientCommit, Inv, TypeOK
<1> QED  BY <1>1, <1>2, <1>4
         DEF ClientCommit, Inv, TypeOK, compositorVars, uiVars, flingerVars

LEMMA CommitInv ==
  ASSUME Inv, commit
  PROVE  Inv'
<1>1. socket \in Seq(Commit) /\ socket # << >>
  BY DEF Inv, TypeOK, commit
<1>2. Head(socket) \in Commit /\ Tail(socket) \in Seq(Commit)
  BY <1>1
<1>3. content' \in Buffer
  BY <1>2 DEF commit, Commit
<1> QED  BY <1>2, <1>3 DEF commit, Inv, TypeOK, uiVars, flingerVars

LEMMA NextInv ==
  ASSUME Inv, [Next]_vars
  PROVE  Inv'
<1>1. CASE Client
  BY <1>1, ClientInv
<1>2. CASE Poll \/ PollTimeout \/ drain_wake \/ EventsDone \/ DispatchDone \/ flush_clients
  BY <1>2 DEF Poll, PollTimeout, drain_wake, EventsDone, DispatchDone, flush_clients,
              Inv, TypeOK, clientVars, uiVars, flingerVars
<1>3. CASE HandleEvent
  BY <1>3, HandleEventInv
<1>4. CASE commit
  BY <1>4, CommitInv
<1>5. CASE render_activity_windows
  BY <1>5, RenderInv
<1>6. CASE UiThread
  <2>1. channel' \in Seq({"SurfaceCreated", "SurfaceChanged", "SurfaceDestroyed"})
    <3> DEFINE Events == {"SurfaceCreated", "SurfaceChanged", "SurfaceDestroyed"}
    <3>1. channel \in Seq(Events)
      BY DEF Inv, TypeOK
    <3>2. UNCHANGED channel \/ \E event \in Events : channel' = Append(channel, event)
      BY <1>6 DEF UiThread, surfaceCreated, surfaceChanged, surfaceDestroyed, WakeAfterSend,
                  SendEvent
    <3> HIDE DEF Events
    <3>3. channel' \in Seq(Events)
      BY <3>1, <3>2
    <3> QED  BY <3>3 DEF Events
  <2>2. view_changes' \in 0 .. MaxViewChanges
    BY <1>6, BoundsAssumption
    DEF UiThread, surfaceCreated, surfaceChanged, surfaceDestroyed, WakeAfterSend, Inv, TypeOK
  <2> QED
    BY <1>6, <2>1, <2>2
    DEF UiThread, surfaceCreated, surfaceChanged, surfaceDestroyed, WakeAfterSend, SendEvent,
        Inv, TypeOK, clientVars, compositorVars, flingerVars
<1>7. CASE OnComplete
  BY <1>7, OnCompleteInv
<1>8. CASE WakeAfterComplete
  BY <1>8 DEF WakeAfterComplete, Inv, TypeOK, clientVars, compositorVars, uiVars
<1>9. CASE UNCHANGED vars
  BY <1>9 DEF vars, Inv, TypeOK, clientVars, compositorVars, uiVars, flingerVars
<1> QED
  BY <1>1, <1>2, <1>3, <1>4, <1>5, <1>6, <1>7, <1>8, <1>9 DEF Next, Tick, SurfaceFlinger

LEMMA SpecInv == Spec => []Inv
<1> QED  BY InitInv, NextInv, PTL DEF Spec

-----------------------------------------------------------------------------
(* Every variable keeps its type: no path through the renderer loses a     *)
(* field of the window or presents on an AHB surface that was never made.  *)
THEOREM FrameTypes == Spec => []TypeOK
<1>1. Inv => TypeOK
  BY DEF Inv
<1> QED  BY <1>1, SpecInv, PTL

(* EGL and a SurfaceControl never draw to the native window together, and  *)
(* neither outlives it (render_activity_windows, SurfaceDestroyed).        *)
THEOREM ProducerIsUnique == Spec => []OneProducer
<1>1. Inv => OneProducer
  BY DEF Inv, Sound, OneProducerOf, OneProducer
<1> QED  BY <1>1, SpecInv, PTL

(* The buffer of an AHB surface is not blitted to while SurfaceFlinger may *)
(* still read it, also when completions of earlier AHB surfaces come late  *)
(* (on_complete_callback, MayPresent).                                     *)
THEOREM FramesInFlightAreUnique == Spec => []OneFrameInFlight
<1>1. Inv => OneFrameInFlight
  BY DEF Inv, Orderly, OneFrameInFlight
<1> QED  BY <1>1, SpecInv, PTL

=============================================================================
