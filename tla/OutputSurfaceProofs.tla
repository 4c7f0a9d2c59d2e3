------------------------- MODULE OutputSurfaceProofs -------------------------
(***************************************************************************)
(* Why the host shows each pass its own paint, keeps the toplevel mapped   *)
(* and never scales the desktop, for any sizes and any number of paints.   *)
(* Between setBuffer() and present() the paint is attached, perhaps still  *)
(* from a pass whose present() was refused; and unless the next pass must  *)
(* paint, what would be shown has the size of the mode.                    *)
(***************************************************************************)
EXTENDS OutputSurface, TLAPS

\* What the toplevel shows after its next commit, as things stand.
Upcoming == Attached(toplevel.pending, toplevel.buffer)

\* A pass between setBuffer() and present().
PassInv ==
  painting =>
    /\ enabled["primary"] /\ painted > 0
    /\ IF rail THEN toplevel.pending = Content(painted, modeSize)
       ELSE layer.pending = Content(painted, modeSize)

\* Under RAIL the toplevel has content from the first paint on, and not before.
ContentInv ==
  rail =>
    /\ m_mainSurfaceHasContent <=> painted > 0
    /\ painted = 0 => Upcoming.paint = 0

\* The desktop that would be shown fits, or is to be painted first.
FitInv ==
  rail /\ ~mustPaint /\ enabled["primary"] /\ Upcoming.paint > 0 => Upcoming.size = modeSize

IInv == TypeOK /\ PassInv /\ ContentInv /\ FitInv

Toplevels == [pending : Buffers \cup {Keep}, buffer : Buffers \cup {NoBuffer},
              dest : Sizes \cup {NoSize}]
LayerSurfaces == [pending : Buffers \cup {Keep}, cached : {Keep}, buffer : Buffers \cup {NoBuffer}]
-----------------------------------------------------------------------------
\* Buffers, nothing attached and no buffer are three different things.
LEMMA BufferFacts ==
  /\ Keep \notin Buffers /\ NoBuffer \notin Buffers /\ Keep # NoBuffer
  /\ Keep.paint = 0 /\ NoBuffer.paint = 0
  /\ \A size \in Sizes \cup {OnePixel} :
       Black(size) \in Buffers /\ Black(size).paint = 0 /\ Black(size).size = size
  /\ \A n \in Nat, size \in Sizes :
       /\ Content(n, size) \in Buffers
       /\ Content(n, size).paint = n /\ Content(n, size).size = size
<1>1. Keep.size = "keep" /\ NoBuffer.size = "no size" /\ Keep.paint = 0 /\ NoBuffer.paint = 0
  BY DEF Keep, NoBuffer, NoSize
<1>2. \A b \in Buffers : b.size \in Sizes \cup {OnePixel}
  BY DEF Buffers
<1>3. "keep" \notin Sizes \cup {OnePixel} /\ "no size" \notin Sizes \cup {OnePixel}
  BY SizesAssumption
<1>4. Keep \notin Buffers /\ NoBuffer \notin Buffers
  BY <1>1, <1>2, <1>3
<1>5. Keep # NoBuffer
  BY <1>1
<1>6. \A size \in Sizes \cup {OnePixel} :
        Black(size) \in Buffers /\ Black(size).paint = 0 /\ Black(size).size = size
  BY DEF Black, Buffers
<1>7. \A n \in Nat, size \in Sizes :
        /\ Content(n, size) \in Buffers
        /\ Content(n, size).paint = n /\ Content(n, size).size = size
  BY DEF Content, Buffers
<1> QED
  BY <1>1, <1>4, <1>5, <1>6, <1>7

\* The toplevel is what its type says.
LEMMA ToplevelFacts ==
  ASSUME TypeOK
  PROVE  /\ toplevel \in Toplevels /\ layer \in LayerSurfaces
         /\ toplevel.pending \in Buffers \cup {Keep} /\ toplevel.buffer \in Buffers \cup {NoBuffer}
         /\ layer.pending \in Buffers \cup {Keep} /\ layer.buffer \in Buffers \cup {NoBuffer}
         /\ layer.cached = Keep
BY DEF TypeOK, Toplevels, LayerSurfaces

\* The invariant holds at first.
LEMMA InvInit == Init => IInv
<1> SUFFICES ASSUME Init PROVE IInv
  OBVIOUS
<1>1. toplevel \in Toplevels /\ layer \in LayerSurfaces
  BY DEF Init, Toplevels, LayerSurfaces
<1>2. TypeOK
  BY <1>1 DEF Init, TypeOK, Toplevels, LayerSurfaces
<1>3. Upcoming.paint = 0
  BY BufferFacts DEF Init, Upcoming, Attached
<1> QED
  BY <1>2, <1>3 DEF Init, IInv, PassInv, ContentInv, FitInv

\* setBuffer().
LEMMA SetBufferStep ==
  ASSUME IInv, SetBuffer
  PROVE  IInv' /\ toplevel'.buffer = toplevel.buffer
<1> DEFINE n == painted + 1
           buffer == Content(n, modeSize)
<1>1. /\ enabled["primary"] /\ painted' = n /\ painting' = TRUE /\ mustPaint' = FALSE
      /\ UNCHANGED <<rail, singlePixel, memoryOk, modeSize, m_mapped, m_backgroundBufferSize,
                     m_hasPointerLock, cursorShown, enabled>>
      /\ rail => /\ toplevel' = [toplevel EXCEPT !.pending = buffer]
                 /\ m_mainSurfaceHasContent' = TRUE /\ layer' = layer
      /\ ~rail => /\ layer' = [layer EXCEPT !.pending = buffer]
                  /\ UNCHANGED <<toplevel, m_mainSurfaceHasContent>>
  BY DEF SetBuffer, AttachContentBuffer, hostVars
<1>2. n \in Nat /\ n > 0 /\ modeSize \in Sizes /\ rail \in BOOLEAN
  BY DEF IInv, TypeOK
<1>3. buffer \in Buffers /\ buffer # Keep /\ buffer.paint = n /\ buffer.size = modeSize
  BY <1>2, BufferFacts
<1>4. toplevel \in Toplevels /\ layer \in LayerSurfaces
  BY ToplevelFacts DEF IInv
<1>5. /\ toplevel' \in Toplevels /\ layer' \in LayerSurfaces
      /\ toplevel'.buffer = toplevel.buffer
      /\ rail => toplevel'.pending = buffer
      /\ ~rail => layer'.pending = buffer
  <2> HIDE DEF buffer
  <2> QED
    BY <1>1, <1>2, <1>3, <1>4 DEF Toplevels, LayerSurfaces
<1>6. TypeOK'
  BY <1>1, <1>2, <1>5 DEF IInv, TypeOK, Toplevels, LayerSurfaces
<1>7. PassInv'
  BY <1>1, <1>2, <1>5 DEF PassInv
<1>8. rail => Upcoming' = buffer
  BY <1>3, <1>5 DEF Upcoming, Attached
<1>9. ContentInv'
  BY <1>1, <1>2 DEF ContentInv
<1>10. FitInv'
  BY <1>1, <1>3, <1>8 DEF FitInv
<1> QED
  BY <1>5, <1>6, <1>7, <1>9, <1>10 DEF IInv

\* What the commit of the toplevel leaves, with or without RAIL.
LEMMA ToplevelCommitted ==
  ASSUME IInv, NEW layers \in SUBSET Layers, PresentDone(layers)
  PROVE  /\ toplevel' \in Toplevels /\ toplevel'.pending = Keep /\ toplevel'.dest = modeSize
         /\ toplevel.buffer # NoBuffer => toplevel'.buffer # NoBuffer
         /\ m_backgroundBufferSize' \in IF rail THEN Sizes \cup {NoSize} ELSE {NoSize}
         /\ rail /\ m_mainSurfaceHasContent => toplevel'.buffer = Upcoming
         /\ rail /\ ~m_mainSurfaceHasContent => toplevel'.buffer.paint = 0
<1>1. /\ toplevel.pending \in Buffers \cup {Keep} /\ toplevel.buffer \in Buffers \cup {NoBuffer}
      /\ modeSize \in Sizes /\ rail \in BOOLEAN /\ m_mainSurfaceHasContent \in BOOLEAN
  BY ToplevelFacts DEF IInv, TypeOK
<1>2. /\ Black(modeSize) \in Buffers /\ Black(OnePixel) \in Buffers
      /\ Black(modeSize).paint = 0 /\ Keep \notin Buffers /\ NoBuffer \notin Buffers
      /\ Keep # NoBuffer
  BY <1>1, BufferFacts
<1>3. ASSUME NEW pending \in Buffers \cup {Keep}, CommitToplevel(pending, modeSize)
      PROVE  /\ toplevel' \in Toplevels /\ toplevel'.pending = Keep /\ toplevel'.dest = modeSize
             /\ toplevel'.buffer = Attached(pending, toplevel.buffer)
             /\ toplevel.buffer # NoBuffer => toplevel'.buffer # NoBuffer
  <2>1. Attached(pending, toplevel.buffer) \in Buffers \cup {NoBuffer}
    BY <1>1, <1>3 DEF Attached
  <2>2. toplevel.buffer # NoBuffer => Attached(pending, toplevel.buffer) # NoBuffer
    BY <1>2, <1>3 DEF Attached
  <2> QED
    BY <1>1, <1>3, <2>1, <2>2 DEF CommitToplevel, Toplevels
<1>4. CASE rail
  <2> DEFINE pending == IF NeedsBlack /\ memoryOk THEN Black(modeSize) ELSE toplevel.pending
  <2>1. /\ CommitToplevel(pending, modeSize)
        /\ m_backgroundBufferSize' = IF NeedsBlack THEN modeSize ELSE m_backgroundBufferSize
    BY <1>4 DEF PresentDone, CommitSurfaces, RailBackground
  <2>2. pending \in Buffers \cup {Keep}
    BY <1>1, <1>2
  <2>3. /\ toplevel' \in Toplevels /\ toplevel'.pending = Keep /\ toplevel'.dest = modeSize
        /\ toplevel'.buffer = Attached(pending, toplevel.buffer)
        /\ toplevel.buffer # NoBuffer => toplevel'.buffer # NoBuffer
    <3> HIDE DEF pending
    <3> QED
      BY <1>3, <2>1, <2>2
  <2>4. m_backgroundBufferSize' \in Sizes \cup {NoSize}
    <3>1. m_backgroundBufferSize \in Sizes \cup {NoSize}
      BY DEF IInv, TypeOK
    <3> QED
      BY <1>1, <2>1, <3>1
  <2>5. m_mainSurfaceHasContent => toplevel'.buffer = Upcoming
    BY <2>3 DEF NeedsBlack, Upcoming
  <2>6. ~m_mainSurfaceHasContent => toplevel'.buffer.paint = 0
    <3> SUFFICES ASSUME ~m_mainSurfaceHasContent PROVE toplevel'.buffer.paint = 0
      OBVIOUS
    <3>1. painted \in Nat
      BY DEF IInv, TypeOK
    <3>2. Upcoming.paint = 0
      BY <1>4, <3>1 DEF IInv, ContentInv
    <3>3. pending = Black(modeSize) \/ pending = toplevel.pending
      OBVIOUS
    <3>4. Attached(Black(modeSize), toplevel.buffer) = Black(modeSize)
      BY <1>2 DEF Attached
    <3> HIDE DEF pending
    <3> QED
      BY <1>2, <2>3, <3>2, <3>3, <3>4 DEF Upcoming
  <2> QED
    BY <1>4, <2>3, <2>4, <2>5, <2>6
<1>5. CASE ~rail
  <2> DEFINE pending == IF ~m_mapped /\ (singlePixel \/ memoryOk) THEN Black(OnePixel)
                        ELSE toplevel.pending
  <2>1. CommitToplevel(pending, modeSize) /\ UNCHANGED m_backgroundBufferSize
    BY <1>5 DEF PresentDone, CommitSurfaces, NestedBackground
  <2>2. pending \in Buffers \cup {Keep}
    BY <1>1, <1>2
  <2>3. m_backgroundBufferSize = NoSize
    BY <1>5 DEF IInv, TypeOK
  <2> HIDE DEF pending
  <2> QED
    BY <1>3, <1>5, <2>1, <2>2, <2>3
<1> QED
  BY <1>1, <1>4, <1>5

\* What the two commits leave of the layer's subsurface.
LEMMA LayerCommitted ==
  ASSUME IInv, NEW layers \in SUBSET Layers, PresentDone(layers)
  PROVE  /\ layer' \in LayerSurfaces
         /\ painting /\ ~rail => layer'.buffer = layer.pending
<1> DEFINE l == LayerCommit(layer, "primary" \in layers)
<1>1. layer' = ParentCommit(l) /\ CanPresent(layers)
  BY DEF PresentDone, CommitSurfaces
<1>2. /\ layer \in LayerSurfaces /\ layer.pending \in Buffers \cup {Keep}
      /\ layer.cached = Keep /\ Keep \notin Buffers
  BY ToplevelFacts, BufferFacts DEF IInv
<1>3. CASE "primary" \notin layers \/ rail
  <2>1. l = layer
    BY <1>3 DEF LayerCommit
  <2>2. layer' \in LayerSurfaces
    BY <1>1, <1>2, <2>1 DEF ParentCommit, Attached, LayerSurfaces
  <2> QED
    BY <1>1, <1>3, <2>2 DEF CanPresent
<1>4. CASE "primary" \in layers /\ ~rail
  <2> DEFINE cached == IF enabled["primary"] THEN Attached(layer.pending, layer.cached)
                       ELSE NoBuffer
  <2>1. l = [pending |-> Keep, cached |-> cached, buffer |-> layer.buffer]
    BY <1>2, <1>4 DEF LayerCommit, LayerSurfaces
  <2>2. cached \in Buffers \cup {NoBuffer, Keep}
    BY <1>2 DEF Attached
  <2>3. painting => cached = layer.pending /\ layer.pending # Keep
    <3> SUFFICES ASSUME painting PROVE cached = layer.pending /\ layer.pending # Keep
      OBVIOUS
    <3>1. enabled["primary"] /\ layer.pending = Content(painted, modeSize)
      BY <1>4 DEF IInv, PassInv
    <3>2. Content(painted, modeSize) \in Buffers
      BY BufferFacts DEF IInv, TypeOK
    <3> QED
      BY <1>2, <3>1, <3>2 DEF Attached
  <2> HIDE DEF cached
  <2>4. layer' = [pending |-> Keep, cached |-> Keep, buffer |-> Attached(cached, layer.buffer)]
    <3> HIDE DEF l
    <3> QED
      BY <1>1, <2>1 DEF ParentCommit
  <2>5. Attached(cached, layer.buffer) \in Buffers \cup {NoBuffer}
    BY <1>2, <2>2 DEF Attached, LayerSurfaces
  <2> QED
    BY <2>3, <2>4, <2>5 DEF LayerSurfaces, Attached
<1> QED
  BY <1>3, <1>4

\* present() shows this pass's paint at its own size.
LEMMA PresentDoneStep ==
  ASSUME IInv, NEW layers \in SUBSET Layers, PresentDone(layers)
  PROVE  /\ IInv'
         /\ painting => Desktop'.paint = painted
         /\ toplevel.buffer # NoBuffer => toplevel'.buffer # NoBuffer
         /\ rail /\ enabled["primary"] /\ toplevel'.buffer.paint > 0
              => toplevel'.dest = toplevel'.buffer.size
<1>1. /\ CanPresent(layers) /\ m_mapped' = TRUE /\ painting' = FALSE
      /\ cursorShown' = IF "cursor" \in layers THEN enabled["cursor"] ELSE cursorShown
      /\ UNCHANGED <<rail, singlePixel, memoryOk, modeSize, m_mainSurfaceHasContent,
                     m_hasPointerLock, enabled, painted, mustPaint>>
  BY DEF PresentDone, hostVars
<1>2. /\ toplevel' \in Toplevels /\ toplevel'.pending = Keep /\ toplevel'.dest = modeSize
      /\ toplevel.buffer # NoBuffer => toplevel'.buffer # NoBuffer
      /\ m_backgroundBufferSize' \in IF rail THEN Sizes \cup {NoSize} ELSE {NoSize}
      /\ rail /\ m_mainSurfaceHasContent => toplevel'.buffer = Upcoming
      /\ rail /\ ~m_mainSurfaceHasContent => toplevel'.buffer.paint = 0
  BY ToplevelCommitted
<1>3. layer' \in LayerSurfaces /\ (painting /\ ~rail => layer'.buffer = layer.pending)
  BY LayerCommitted
<1>4. Upcoming' = toplevel'.buffer
  BY <1>2 DEF Upcoming, Attached
<1>5. painted \in Nat /\ enabled \in [Layers -> BOOLEAN] /\ modeSize \in Sizes /\ rail \in BOOLEAN
  BY DEF IInv, TypeOK
<1>6. TypeOK'
  <2>1. cursorShown' \in BOOLEAN
    BY <1>1, <1>5 DEF IInv, TypeOK, Layers
  <2> QED
    BY <1>1, <1>2, <1>3, <2>1 DEF IInv, TypeOK, Toplevels, LayerSurfaces
<1>7. PassInv'
  BY <1>1 DEF PassInv
<1>8. ContentInv'
  BY <1>1, <1>2, <1>4, <1>5 DEF IInv, ContentInv
<1>9. rail /\ painting => Upcoming = Content(painted, modeSize) /\ m_mainSurfaceHasContent
  <2> SUFFICES ASSUME rail, painting
               PROVE  Upcoming = Content(painted, modeSize) /\ m_mainSurfaceHasContent
    OBVIOUS
  <2>1. toplevel.pending = Content(painted, modeSize)
    BY DEF IInv, PassInv
  <2>2. Content(painted, modeSize) \in Buffers /\ Keep \notin Buffers
        /\ Content(painted, modeSize).paint = painted
    BY <1>5, BufferFacts
  <2>3. Upcoming = Content(painted, modeSize)
    BY <2>1, <2>2 DEF Upcoming, Attached
  <2>4. painted > 0
    BY DEF IInv, PassInv
  <2> QED
    BY <2>3, <2>4 DEF IInv, ContentInv
<1>10. rail /\ enabled["primary"] /\ toplevel'.buffer.paint > 0 => toplevel'.buffer.size = modeSize
  <2> SUFFICES ASSUME rail, enabled["primary"], toplevel'.buffer.paint > 0
               PROVE  toplevel'.buffer.size = modeSize
    OBVIOUS
  <2>1. toplevel'.buffer = Upcoming
    BY <1>2
  <2>2. CASE painting
    BY <1>5, <1>9, <2>1, <2>2, BufferFacts
  <2>3. CASE ~painting
    BY <1>1, <2>1, <2>3 DEF IInv, FitInv, CanPresent
  <2> QED
    BY <2>2, <2>3
<1>11. FitInv'
  BY <1>1, <1>4, <1>10 DEF FitInv
<1>12. painting => Desktop'.paint = painted
  <2>1. Content(painted, modeSize).paint = painted
    BY <1>5, BufferFacts
  <2>2. CASE rail
    BY <1>1, <1>2, <1>9, <2>1, <2>2 DEF Desktop
  <2>3. CASE ~rail
    BY <1>1, <1>3, <2>1, <2>3 DEF Desktop, IInv, PassInv
  <2> QED
    BY <1>5, <2>2, <2>3
<1> QED
  BY <1>2, <1>6, <1>7, <1>8, <1>10, <1>11, <1>12 DEF IInv

\* Between the passes: modes, layers, pointer and memory change.
LEMMA BetweenPasses ==
  ASSUME IInv,
         \/ \E size \in Sizes : ModeChanges(size)
         \/ \E l \in Layers : SetEnabled(l)
         \/ PointerLockChanges \/ MemoryChanges \/ UNCHANGED vars
         \/ \E layers \in SUBSET Layers : PresentRefused(layers)
  PROVE  IInv' /\ UNCHANGED <<toplevel, layer>>
<1>1. UNCHANGED <<toplevel, layer>> => Upcoming' = Upcoming
  BY DEF Upcoming
<1>2. ASSUME NEW size \in Sizes, ModeChanges(size)
      PROVE  IInv' /\ UNCHANGED <<toplevel, layer>>
  <2>1. /\ ~painting /\ painting' = painting /\ modeSize' = size /\ mustPaint' = (painted > 0)
        /\ UNCHANGED <<rail, singlePixel, memoryOk, m_mapped, m_mainSurfaceHasContent,
                       m_backgroundBufferSize, m_hasPointerLock, cursorShown, enabled, toplevel,
                       layer, painted>>
    BY <1>2 DEF ModeChanges, hostVars, outputVars, surfaceVars
  <2>2. painted \in Nat
    BY DEF IInv, TypeOK
  <2>3. TypeOK'
    BY <2>1 DEF IInv, TypeOK
  <2>4. PassInv' /\ ContentInv'
    BY <1>1, <2>1 DEF IInv, PassInv, ContentInv
  <2>5. FitInv'
    <3> SUFFICES ASSUME rail, ~mustPaint' PROVE Upcoming'.paint = 0
      BY <2>1 DEF FitInv
    <3>1. ~(painted > 0)
      BY <2>1
    <3>2. painted = 0
      BY <2>2, <3>1
    <3> QED
      BY <1>1, <2>1, <3>2 DEF IInv, ContentInv
  <2> QED
    BY <2>1, <2>3, <2>4, <2>5 DEF IInv
<1>3. ASSUME NEW l \in Layers, SetEnabled(l)
      PROVE  IInv' /\ UNCHANGED <<toplevel, layer>>
  <2>1. /\ ~painting /\ painting' = painting
        /\ enabled' = [enabled EXCEPT ![l] = ~enabled[l]]
        /\ mustPaint' = (mustPaint \/ (l = "primary" /\ painted > 0))
        /\ UNCHANGED <<rail, singlePixel, memoryOk, modeSize, m_mapped, m_mainSurfaceHasContent,
                       m_backgroundBufferSize, m_hasPointerLock, cursorShown, toplevel, layer,
                       painted>>
    BY <1>3 DEF SetEnabled, hostVars, outputVars, surfaceVars
  <2>2. painted \in Nat /\ enabled \in [Layers -> BOOLEAN] /\ "primary" \in Layers
    BY DEF IInv, TypeOK, Layers
  <2>3. enabled' \in [Layers -> BOOLEAN] /\ (l # "primary" => enabled'["primary"] = enabled["primary"])
    BY <2>1, <2>2
  <2>4. TypeOK'
    BY <2>1, <2>3 DEF IInv, TypeOK
  <2>5. PassInv' /\ ContentInv'
    BY <1>1, <2>1 DEF IInv, PassInv, ContentInv
  <2>6. FitInv'
    <3>1. CASE l # "primary"
      BY <1>1, <2>1, <2>3, <3>1 DEF IInv, FitInv
    <3>2. CASE l = "primary"
      <4> SUFFICES ASSUME rail, ~mustPaint' PROVE Upcoming'.paint = 0
        BY <2>1 DEF FitInv
      <4>1. ~(painted > 0)
        BY <2>1, <3>2
      <4>2. painted = 0
        BY <2>2, <4>1
      <4> QED
        BY <1>1, <2>1, <4>2 DEF IInv, ContentInv
    <3> QED
      BY <3>1, <3>2
  <2> QED
    BY <2>1, <2>4, <2>5, <2>6 DEF IInv
<1>4. ASSUME UNCHANGED <<rail, singlePixel, modeSize, m_mapped, m_mainSurfaceHasContent,
                          m_backgroundBufferSize, cursorShown, enabled, toplevel, layer, painted,
                          mustPaint>>,
             memoryOk' \in BOOLEAN, m_hasPointerLock' \in BOOLEAN,
             painting' \in BOOLEAN, painting' => painting
      PROVE  IInv' /\ UNCHANGED <<toplevel, layer>>
  <2>1. TypeOK'
    BY <1>4 DEF IInv, TypeOK
  <2>2. PassInv' /\ ContentInv' /\ FitInv'
    BY <1>1, <1>4 DEF IInv, PassInv, ContentInv, FitInv
  <2> QED
    BY <1>4, <2>1, <2>2 DEF IInv
<1>5. memoryOk \in BOOLEAN /\ m_hasPointerLock \in BOOLEAN /\ painting \in BOOLEAN
  BY DEF IInv, TypeOK
<1>6. CASE PointerLockChanges
  BY <1>4, <1>5, <1>6 DEF PointerLockChanges, hostVars, outputVars, surfaceVars, passVars
<1>7. CASE MemoryChanges
  BY <1>4, <1>5, <1>7 DEF MemoryChanges, hostVars, outputVars, surfaceVars, passVars
<1>8. CASE UNCHANGED vars
  BY <1>4, <1>5, <1>8 DEF vars
<1>9. CASE \E layers \in SUBSET Layers : PresentRefused(layers)
  BY <1>4, <1>5, <1>9 DEF PresentRefused, hostVars, outputVars, surfaceVars
<1> QED
  BY <1>2, <1>3, <1>6, <1>7, <1>8, <1>9

\* What each action property says of a step.
ThisPaint == painting /\ Presented => Desktop'.paint = painted
Mapped    == toplevel.buffer # NoBuffer => toplevel'.buffer # NoBuffer
Fits      ==
  rail /\ Presented /\ enabled["primary"] /\ toplevel'.buffer.paint > 0
    => toplevel'.dest = toplevel'.buffer.size

\* Every step keeps the invariant and does what the properties say.
LEMMA InvStep ==
  ASSUME IInv, [Next]_vars
  PROVE  IInv' /\ (ThisPaint \/ UNCHANGED vars) /\ Mapped /\ (Fits \/ UNCHANGED vars)
<1>1. CASE Presented
  <2>1. PICK layers \in SUBSET Layers : PresentDone(layers)
    BY <1>1 DEF Presented
  <2> QED
    BY <2>1, PresentDoneStep DEF ThisPaint, Mapped, Fits
<1>2. CASE ~Presented
  <2>1. ThisPaint /\ Fits
    BY <1>2 DEF ThisPaint, Fits
  <2>2. CASE SetBuffer
    BY <2>1, <2>2, SetBufferStep DEF Mapped
  <2>3. CASE ~SetBuffer
    <3>1. \/ \E size \in Sizes : ModeChanges(size)
          \/ \E l \in Layers : SetEnabled(l)
          \/ PointerLockChanges \/ MemoryChanges \/ UNCHANGED vars
          \/ \E layers \in SUBSET Layers : PresentRefused(layers)
      BY <1>2, <2>3 DEF Next, Presented
    <3> QED
      BY <2>1, <3>1, BetweenPasses DEF Mapped
  <2> QED
    BY <2>2, <2>3
<1> QED
  BY <1>1, <1>2

\* The invariant holds of every behaviour.
LEMMA Invariance == Spec => []IInv
<1>1. IInv /\ [Next]_vars => IInv'
  BY InvStep
<1> QED
  BY InvInit, <1>1, PTL DEF Spec

\* Every field keeps its type; no commit of the subsurface stays cached.
THEOREM TypeCorrect == Spec => []TypeOK
<1>1. IInv => TypeOK
  BY DEF IInv
<1> QED
  BY Invariance, <1>1, PTL

\* Each present() of the primary layer shows the paint of its own pass, with
\* and without RAIL, whatever was refused, resized or disabled before.
THEOREM ShowsItsOwnPaint == Spec => PresentsThisPaint
<1>1. IInv /\ [Next]_vars => [painting /\ Presented => Desktop'.paint = painted]_vars
  BY InvStep DEF ThisPaint
<1> QED
  BY Invariance, <1>1, PTL DEF Spec, PresentsThisPaint

\* A toplevel with a buffer keeps one.
THEOREM NeverUnmapped == Spec => StaysMapped
<1>1. IInv /\ [Next]_vars => [toplevel.buffer # NoBuffer => toplevel'.buffer # NoBuffer]_vars
  BY InvStep DEF Mapped
<1> QED
  BY Invariance, <1>1, PTL DEF Spec, StaysMapped

\* The host never scales the desktop under RAIL, for any sequence of sizes.
THEOREM ViewportIsOneToOne == Spec => ViewportFitsContent
<1>1. IInv /\ [Next]_vars =>
        [rail /\ Presented /\ enabled["primary"] /\ toplevel'.buffer.paint > 0
           => toplevel'.dest = toplevel'.buffer.size]_vars
  BY InvStep DEF Fits
<1> QED
  BY Invariance, <1>1, PTL DEF Spec, ViewportFitsContent
=============================================================================
