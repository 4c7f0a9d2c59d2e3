---------------------------- MODULE OutputSurface ----------------------------
(***************************************************************************)
(* What the host is shown of an output: the toplevel surface of a          *)
(* WaylandOutput, the subsurface of its primary WaylandLayer, and the two  *)
(* ways to fill them (wayland_output.cpp, wayland_layer.cpp).  Nested in an *)
(* ordinary compositor the toplevel is a black pixel and the desktop is in *)
(* the subsurface; under WSLg's weston-rdprail ("RAIL") the primary layer  *)
(* is attached to the toplevel itself, and a full-size black buffer stands *)
(* in for it until its first frame.                                        *)
(*                                                                         *)
(* A Wayland surface keeps what is attached to it pending until its commit; *)
(* the commit of a synchronized subsurface is cached until its parent's.   *)
(* A buffer is its size and the number of the paint it holds, 0 for black. *)
(*                                                                         *)
(* External, as this code uses it: KWin's compositor.  Within one pass, on *)
(* the main thread, it paints the primary layer if it must (setBuffer),    *)
(* then calls present() with the layers that changed.  Once the primary    *)
(* layer has content it is painted again before the first present() of a   *)
(* new mode and of a layer enabled again.                                  *)
(***************************************************************************)
EXTENDS Naturals

CONSTANTS
  Sizes,      \* sizes the host gives the output
  OnePixel,   \* the size of the single-pixel background
  MaxPaints   \* how often the primary layer is painted (bounds the model)

ASSUME SizesAssumption ==
  /\ Sizes # {} /\ OnePixel \notin Sizes
  /\ {"no size", "keep"} \cap (Sizes \cup {OnePixel}) = {}
ASSUME MaxPaintsAssumption == MaxPaints \in Nat

VARIABLES
  rail,                    \* hasRdpRailShell()
  singlePixel,             \* the host has wp_single_pixel_buffer_manager_v1
  memoryOk,                \* a shm buffer can be created at the moment
  modeSize,                \* the size of the current mode
  m_mapped,
  m_mainSurfaceHasContent,
  m_backgroundBufferSize,
  m_hasPointerLock,
  cursorShown,             \* m_cursor's m_enabled
  enabled,                 \* isEnabled() of the primary and the cursor layer
  toplevel,                \* m_surface of the output
  layer,                   \* m_surface of the primary layer, a subsurface
  painted,                 \* external: how often the primary was painted
  mustPaint,               \* external: the next pass paints the primary
  painting                 \* external: setBuffer() done, present() to come

hostVars    == <<rail, singlePixel>>
outputVars  == <<m_mapped, m_mainSurfaceHasContent, m_backgroundBufferSize, cursorShown>>
surfaceVars == <<toplevel, layer>>
passVars    == <<painted, mustPaint, painting>>
vars == <<rail, singlePixel, memoryOk, modeSize, m_mapped, m_mainSurfaceHasContent,
          m_backgroundBufferSize, m_hasPointerLock, cursorShown, enabled,
          toplevel, layer, painted, mustPaint, painting>>

NoSize   == "no size"
Layers   == {"primary", "cursor"}
Buffers  == [paint : Nat, size : Sizes \cup {OnePixel}]
NoBuffer == [paint |-> 0, size |-> NoSize]
Keep     == [paint |-> 0, size |-> "keep"]   \* nothing attached since the commit

Black(size)   == [paint |-> 0, size |-> size]
Content(n, size) == [paint |-> n, size |-> size]

\* What a commit makes of an attachment.
Attached(pending, buffer) == IF pending = Keep THEN buffer ELSE pending

Init ==
  /\ rail \in BOOLEAN /\ singlePixel \in BOOLEAN /\ memoryOk \in BOOLEAN
  /\ modeSize \in Sizes
  /\ m_mapped = FALSE
  /\ m_mainSurfaceHasContent = FALSE
  /\ m_backgroundBufferSize = NoSize
  /\ m_hasPointerLock = FALSE
  /\ cursorShown = TRUE
  /\ enabled = [l \in Layers |-> TRUE]
  /\ toplevel = [pending |-> Keep, buffer |-> NoBuffer, dest |-> NoSize]
  /\ layer = [pending |-> Keep, cached |-> Keep, buffer |-> NoBuffer]
  /\ painted = 0 /\ mustPaint = FALSE /\ painting = FALSE
-----------------------------------------------------------------------------
(***************************************************************************)
(* WaylandLayer::setBuffer(), with attachContentBuffer() for RAIL.         *)
(***************************************************************************)
AttachContentBuffer(buffer) ==
  /\ toplevel' = [toplevel EXCEPT !.pending = buffer]
  /\ m_mainSurfaceHasContent' = TRUE
  /\ UNCHANGED layer

SetBuffer ==
  /\ ~painting /\ enabled["primary"] /\ painted < MaxPaints
  /\ painted' = painted + 1
  /\ painting' = TRUE /\ mustPaint' = FALSE
  /\ LET buffer == Content(painted', modeSize) IN
     IF rail THEN AttachContentBuffer(buffer)
     ELSE /\ layer' = [layer EXCEPT !.pending = buffer]
          /\ UNCHANGED <<toplevel, m_mainSurfaceHasContent>>
  /\ UNCHANGED <<hostVars, memoryOk, modeSize, m_mapped, m_backgroundBufferSize,
                 m_hasPointerLock, cursorShown, enabled>>
-----------------------------------------------------------------------------
(***************************************************************************)
(* present().                                                              *)
(***************************************************************************)

\* The layers the compositor may hand to present(): the primary one if it was
\* painted in this pass, or to have it hidden.
CanPresent(layers) ==
  IF painting THEN "primary" \in layers
  ELSE /\ ~(mustPaint /\ enabled["primary"])
       /\ "primary" \in layers => ~enabled["primary"]

\* The host's cursor cannot be shown while the pointer is locked.
CursorRefused(layers) ==
  "cursor" \in layers /\ m_hasPointerLock /\ enabled["cursor"]

\* present() returns false before it touches a surface.
PresentRefused(layers) ==
  /\ CanPresent(layers) /\ CursorRefused(layers)
  /\ painting' = FALSE
  /\ UNCHANGED <<hostVars, memoryOk, modeSize, outputVars, m_hasPointerLock, enabled,
                 surfaceVars, painted, mustPaint>>

CommitToplevel(pending, dest) ==
  toplevel' = [pending |-> Keep, buffer |-> Attached(pending, toplevel.buffer), dest |-> dest]

\* The black buffer is due: no content yet, and none of this size attached.
NeedsBlack ==
  ~m_mainSurfaceHasContent /\ (~m_mapped \/ m_backgroundBufferSize # modeSize)

\* Mutant: the result of createFallbackBlackBuffer() is not tested.
RailBackgroundUntested ==
  /\ m_backgroundBufferSize' = IF NeedsBlack THEN modeSize ELSE m_backgroundBufferSize
  /\ CommitToplevel(IF ~NeedsBlack THEN toplevel.pending
                    ELSE IF memoryOk THEN Black(modeSize) ELSE NoBuffer, modeSize)

\* Mutant: the viewport is set only along with the background.
RailBackgroundOnce ==
  /\ m_backgroundBufferSize' = IF NeedsBlack THEN modeSize ELSE m_backgroundBufferSize
  /\ CommitToplevel(IF NeedsBlack /\ memoryOk THEN Black(modeSize) ELSE toplevel.pending,
                    IF m_mapped THEN toplevel.dest ELSE modeSize)

\* Mutant: the size is forgotten at each pass that needs no black background.
RailBackgroundForgets ==
  /\ m_backgroundBufferSize' = IF NeedsBlack THEN OnePixel ELSE m_backgroundBufferSize
  /\ CommitToplevel(IF NeedsBlack /\ memoryOk THEN Black(modeSize) ELSE toplevel.pending,
                    modeSize)

\* Under RAIL.  The size is recorded whether or not the buffer was created.
RailBackground ==
  /\ m_backgroundBufferSize' = IF NeedsBlack THEN modeSize ELSE m_backgroundBufferSize
  /\ CommitToplevel(IF NeedsBlack /\ memoryOk THEN Black(modeSize) ELSE toplevel.pending,
                    modeSize)

\* Otherwise: one black pixel, attached at the first present() or never.  (The
\* viewport's destination is the mode's size over the scale, here at scale 1.)
NestedBackground ==
  /\ CommitToplevel(IF ~m_mapped /\ (singlePixel \/ memoryOk) THEN Black(OnePixel)
                    ELSE toplevel.pending, modeSize)
  /\ UNCHANGED m_backgroundBufferSize

\* WaylandLayer::commit() of the primary layer, if it is updated: nothing when
\* the toplevel shows it, a null buffer when it is disabled.
LayerCommit(l, updated) ==
  IF ~updated \/ rail THEN l
  ELSE [l EXCEPT !.pending = Keep,
                 !.cached = IF enabled["primary"] THEN Attached(l.pending, l.cached)
                            ELSE NoBuffer]

\* The parent's commit applies what the subsurface has cached.
ParentCommit(l) ==
  [l EXCEPT !.cached = Keep, !.buffer = Attached(l.cached, l.buffer)]

\* Mutant: the main surface is committed before the subsurfaces.
CommitSurfacesParentFirst(layers) ==
  /\ IF rail THEN RailBackground ELSE NestedBackground
  /\ layer' = LayerCommit(ParentCommit(layer), "primary" \in layers)

\* The background, then the subsurfaces, then the main surface.
CommitSurfaces(layers) ==
  /\ IF rail THEN RailBackground ELSE NestedBackground
  /\ layer' = ParentCommit(LayerCommit(layer, "primary" \in layers))

\* present() returns true.
PresentDone(layers) ==
  /\ CanPresent(layers) /\ ~CursorRefused(layers)
  /\ cursorShown' = IF "cursor" \in layers THEN enabled["cursor"] ELSE cursorShown
  /\ CommitSurfaces(layers)
  /\ m_mapped' = TRUE
  /\ painting' = FALSE
  /\ UNCHANGED <<hostVars, memoryOk, modeSize, m_mainSurfaceHasContent, m_hasPointerLock,
                 enabled, painted, mustPaint>>
-----------------------------------------------------------------------------
(***************************************************************************)
(* What happens between two passes.                                        *)
(***************************************************************************)

\* applyConfigure() with a size: the mode changes.
ModeChanges(size) ==
  /\ ~painting
  /\ modeSize' = size
  /\ mustPaint' = (painted > 0)
  /\ UNCHANGED <<hostVars, memoryOk, outputVars, m_hasPointerLock, enabled, surfaceVars,
                 painted, painting>>

\* External: the compositor enables or disables a layer.
SetEnabled(l) ==
  /\ ~painting
  /\ enabled' = [enabled EXCEPT ![l] = ~@]
  /\ mustPaint' = (mustPaint \/ (l = "primary" /\ painted > 0))
  /\ UNCHANGED <<hostVars, memoryOk, modeSize, outputVars, m_hasPointerLock, surfaceVars,
                 painted, painting>>

\* The locked and unlocked handlers of lockPointer(), as far as present() sees.
PointerLockChanges ==
  /\ ~painting
  /\ m_hasPointerLock' = ~m_hasPointerLock
  /\ UNCHANGED <<hostVars, memoryOk, modeSize, outputVars, enabled, surfaceVars, passVars>>

\* External: shared memory runs out, or is available again.
MemoryChanges ==
  /\ memoryOk' = ~memoryOk
  /\ UNCHANGED <<hostVars, modeSize, outputVars, m_hasPointerLock, enabled, surfaceVars,
                 passVars>>

Next ==
  \/ SetBuffer
  \/ \E layers \in SUBSET Layers : PresentRefused(layers)
  \/ \E layers \in SUBSET Layers : PresentDone(layers)
  \/ \E size \in Sizes : ModeChanges(size)
  \/ \E l \in Layers : SetEnabled(l)
  \/ PointerLockChanges
  \/ MemoryChanges

Spec == Init /\ [][Next]_vars
-----------------------------------------------------------------------------
(***************************************************************************)
(* Properties.                                                             *)
(***************************************************************************)

Presented == \E layers \in SUBSET Layers : PresentDone(layers)

\* Every variable holds a value its field can hold; a background is recorded
\* only of an output that was presented, and only under RAIL.
TypeOK ==
  /\ rail \in BOOLEAN /\ singlePixel \in BOOLEAN /\ memoryOk \in BOOLEAN
  /\ modeSize \in Sizes
  /\ m_mapped \in BOOLEAN /\ m_mainSurfaceHasContent \in BOOLEAN
  /\ m_backgroundBufferSize \in IF rail /\ m_mapped THEN Sizes \cup {NoSize} ELSE {NoSize}
  /\ m_hasPointerLock \in BOOLEAN /\ cursorShown \in BOOLEAN
  /\ enabled \in [Layers -> BOOLEAN]
  /\ toplevel \in [pending : Buffers \cup {Keep}, buffer : Buffers \cup {NoBuffer},
                   dest : Sizes \cup {NoSize}]
  /\ layer \in [pending : Buffers \cup {Keep}, cached : {Keep},
                buffer : Buffers \cup {NoBuffer}]
  /\ painted \in Nat /\ mustPaint \in BOOLEAN /\ painting \in BOOLEAN

\* The surface the desktop is painted on.
Desktop == IF rail THEN toplevel.buffer ELSE layer.buffer

\* Presentation is atomic: the desktop the host shows after a present() of the
\* primary layer is the paint of this very pass, not the one before.
PresentsThisPaint ==
  [][painting /\ Presented => Desktop'.paint = painted]_vars

\* A toplevel that has a buffer never loses it: the RAIL window stays mapped.
StaysMapped ==
  [][toplevel.buffer # NoBuffer => toplevel'.buffer # NoBuffer]_vars

\* Under RAIL the viewport is 1:1 with the desktop painted on the toplevel,
\* through resizes, refused presents and presents of the cursor alone.
ViewportFitsContent ==
  [][rail /\ Presented /\ enabled["primary"] /\ toplevel'.buffer.paint > 0
       => toplevel'.dest = toplevel'.buffer.size]_vars

\* Under RAIL every present() that can create a buffer leaves a full-size one
\* attached to the toplevel, so that the window is mapped.
RailWindowMapped ==
  [][rail /\ Presented /\ memoryOk /\ enabled["primary"]
       => toplevel'.buffer.size = modeSize]_vars
=============================================================================
