--------------------------- MODULE OutputConfigure ---------------------------
(***************************************************************************)
(* How a WaylandOutput follows the host's xdg_toplevel configure events    *)
(* (wayland_output.cpp: init, handleConfigure, applyConfigure, the         *)
(* throttle timer, the fractional scale, and the mode a presented frame    *)
(* replaces when the refresh rate changes).                                *)
(*                                                                         *)
(* A size is a pair <<width, height>>; Unset is the empty size with which  *)
(* the host leaves the choice to the client.  A configure event is its     *)
(* serial, a number, and its size; the host sends them in order and the    *)
(* connection keeps the order.  A mode is the host's size, the scale it    *)
(* was multiplied with, and a refresh rate.                                *)
(***************************************************************************)
EXTENDS Naturals, Sequences

CONSTANTS
  Sizes,          \* non-empty sizes the host asks for
  InitialSize,    \* the size init() is called with
  Scales,         \* preferred scales of the host, in 120ths as the protocol has them
  InitialScale,   \* the scale init() is called with
  RefreshRates,   \* what presentation feedback reports
  InitialRate,    \* m_refreshRate of a new output
  MaxConfigures   \* how many configure events the host sends (bounds the model)

ASSUME SizesAssumption == Sizes \subseteq Nat \X Nat /\ InitialSize \in Nat \X Nat
ASSUME ScalesAssumption == {120, InitialScale} \subseteq Scales
ASSUME RatesAssumption == InitialRate \in RefreshRates
ASSUME MaxConfiguresAssumption == MaxConfigures \in Nat

VARIABLES
  m_ready,
  pending,          \* m_pendingConfigureSerial and m_pendingConfigureSize
  timerActive,      \* m_configureThrottleTimer
  m_pendingScale,
  mode,             \* m_state.currentMode
  scale,            \* m_state.scale
  rotated,          \* m_state.transform swaps width and height
  m_refreshRate,
  configures,       \* host: sizes of the configures sent, by serial
  received,         \* the serial of the newest configure handled
  acked             \* the serial of the newest ack_configure

stateVars == <<mode, scale>>
hostVars  == <<configures>>
vars == <<m_ready, pending, timerActive, m_pendingScale, mode, scale, rotated,
          m_refreshRate, configures, received, acked>>

Unset == <<0, 0>>

Mode(size, factor, rate) == [size |-> size, factor |-> factor, rate |-> rate]

\* init(): the host has configured nothing yet.  The scale is the one asked for,
\* but m_pendingScale is the header's 1.0.
Init ==
  /\ m_ready = FALSE
  /\ pending = [serial |-> 0, size |-> Unset]
  /\ timerActive = FALSE
  /\ m_pendingScale = 120
  /\ mode = Mode(InitialSize, InitialScale, InitialRate)
  /\ scale = InitialScale
  /\ rotated = FALSE
  /\ m_refreshRate = InitialRate
  /\ configures = <<>>
  /\ received = 0 /\ acked = 0
-----------------------------------------------------------------------------
\* Mutant: the empty size is taken for a size.
ApplyEvenUnset(serial, size) ==
  /\ acked' = serial
  /\ mode' = Mode(size, m_pendingScale, m_refreshRate)
  /\ scale' = m_pendingScale

\* Mutant: the state keeps its scale.
ApplyWithoutScale(serial, size) ==
  /\ acked' = serial
  /\ IF size # Unset
     THEN mode' = Mode(size, m_pendingScale, m_refreshRate) /\ UNCHANGED scale
     ELSE UNCHANGED stateVars

\* applyConfigure(): acknowledge, and take over a size at the preferred scale.
ApplyConfigure(serial, size) ==
  /\ acked' = serial
  /\ IF size # Unset
     THEN /\ mode' = Mode(size, m_pendingScale, m_refreshRate)
          /\ scale' = m_pendingScale
     ELSE UNCHANGED stateVars

\* Mutant: the first of several throttled configures is kept.
KeepFirstPending(serial, size) ==
  pending' = IF timerActive THEN pending ELSE [serial |-> serial, size |-> size]

\* A throttled configure replaces the one that was waiting.
Postpone(serial, size) == pending' = [serial |-> serial, size |-> size]

\* Mutant: the timer is started for the first throttled configure only.
HandleConfigureOnce ==
  /\ received < Len(configures)
  /\ received' = received + 1
  /\ m_ready' = TRUE
  /\ LET size == configures[received + 1] IN
     IF ~m_ready
     THEN /\ ApplyConfigure(received + 1, size)
          /\ UNCHANGED <<pending, timerActive>>
     ELSE /\ Postpone(received + 1, size)
          /\ timerActive' = (timerActive \/ pending.serial = 0)
          /\ UNCHANGED <<stateVars, acked>>
  /\ UNCHANGED <<m_pendingScale, rotated, m_refreshRate, hostVars>>

\* handleConfigure(): the first is applied at once, later ones are throttled.
HandleConfigure ==
  /\ received < Len(configures)
  /\ received' = received + 1
  /\ m_ready' = TRUE
  /\ LET size == configures[received + 1] IN
     IF ~m_ready
     THEN /\ ApplyConfigure(received + 1, size)
          /\ UNCHANGED <<pending, timerActive>>
     ELSE /\ Postpone(received + 1, size)
          /\ timerActive' = TRUE
          /\ UNCHANGED <<stateVars, acked>>
  /\ UNCHANGED <<m_pendingScale, rotated, m_refreshRate, hostVars>>

\* The throttle timer (single-shot): what is pending by now is applied.
ThrottleTimeout ==
  /\ timerActive
  /\ timerActive' = FALSE
  /\ ApplyConfigure(pending.serial, pending.size)
  /\ UNCHANGED <<m_ready, pending, m_pendingScale, rotated, m_refreshRate, hostVars, received>>

\* handleFractionalScaleChanged(): remembered until the next applyConfigure().
FractionalScaleChanged(preferred) ==
  /\ m_pendingScale' = preferred
  /\ UNCHANGED <<m_ready, pending, timerActive, stateVars, rotated, m_refreshRate, hostVars,
                 received, acked>>

\* applyChanges() with a transform (its DPMS part is in OutputFrames).
TransformChanges ==
  /\ rotated' = ~rotated
  /\ UNCHANGED <<m_ready, pending, timerActive, m_pendingScale, stateVars, m_refreshRate,
                 hostVars, received, acked>>

\* pixelSize(), external: the mode's size as the transform shows it.
PixelSize == IF rotated THEN <<mode.size[2], mode.size[1]>> ELSE mode.size

\* framePresented() with another refresh rate: a mode of pixelSize() replaces
\* the current one.
RefreshRateChanges(rate) ==
  /\ rate # mode.rate
  /\ m_refreshRate' = rate
  /\ mode' = Mode(PixelSize, mode.factor, rate)
  /\ UNCHANGED <<m_ready, pending, timerActive, m_pendingScale, scale, rotated, hostVars,
                 received, acked>>

\* External: the host configures the toplevel.
HostConfigures(size) ==
  /\ Len(configures) < MaxConfigures
  /\ configures' = Append(configures, size)
  /\ UNCHANGED <<m_ready, pending, timerActive, m_pendingScale, stateVars, rotated,
                 m_refreshRate, received, acked>>

Next ==
  \/ HandleConfigure
  \/ ThrottleTimeout
  \/ \E preferred \in Scales : FractionalScaleChanged(preferred)
  \/ TransformChanges
  \/ \E rate \in RefreshRates : RefreshRateChanges(rate)
  \/ \E size \in Sizes \cup {Unset} : HostConfigures(size)

Spec == Init /\ [][Next]_vars

\* Events are dispatched (EventThread) and timers fire.
FairSpec == Spec /\ WF_vars(HandleConfigure) /\ WF_vars(ThrottleTimeout)
-----------------------------------------------------------------------------
(***************************************************************************)
(* Properties.                                                             *)
(***************************************************************************)

Turned(size) == <<size[2], size[1]>>
HostSizes == Sizes \cup {InitialSize}

\* Every variable holds a value its field can hold: in particular no mode is
\* ever empty, whatever the host asks for.
TypeOK ==
  /\ m_ready \in BOOLEAN /\ timerActive \in BOOLEAN /\ rotated \in BOOLEAN
  /\ pending \in [serial : Nat, size : Sizes \cup {Unset}]
  /\ m_pendingScale \in Scales /\ scale \in Scales
  /\ mode \in [size : HostSizes \cup {Turned(s) : s \in HostSizes},
               factor : Scales, rate : RefreshRates]
  /\ m_refreshRate \in RefreshRates
  /\ configures \in Seq(Sizes \cup {Unset})
  /\ received \in Nat /\ acked \in Nat

\* An acknowledgement is always of the newest configure that has arrived: the
\* host never sees an older serial after a newer one, nor a serial it did not
\* send.
AcksNewest ==
  [][acked' # acked => acked' > acked /\ acked' = received']_vars

\* With the throttle timer at rest nothing is left to be applied: the host's
\* newest size that arrived is in the mode (perhaps turned by a rotated
\* refresh-rate change), or left the size open.
SettledIsCurrent ==
  m_ready /\ ~timerActive =>
    /\ acked = received
    /\ configures[received] # Unset =>
         mode.size \in {configures[received], Turned(configures[received])}

\* A mode and the scale the scene is drawn at belong together: the scale the
\* mode's size was multiplied with is the scale in the state, even when the
\* preferred scale moves on while a configure is throttled.
ModeMatchesScale == mode.factor = scale

\* Every configure event, or a newer one in its place, is acknowledged.
EveryConfigureAcked ==
  \A n \in 1 .. MaxConfigures : Len(configures) >= n ~> acked >= n
=============================================================================
