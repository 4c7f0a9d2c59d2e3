------------------------- MODULE OutputConfigureProofs -------------------------
(***************************************************************************)
(* Why a WaylandOutput ends up at the size the host asked for last, and    *)
(* acknowledges in order, for any number of configure events, any sizes,   *)
(* scales and refresh rates.  The invariant says what the throttle holds:  *)
(* while the timer runs, the newest configure that has arrived, not yet    *)
(* acknowledged; while it rests, nothing.                                  *)
(***************************************************************************)
EXTENDS OutputConfigure, TLAPS

\* Serials count the configure events, and the first one makes the output ready.
ArrivalInv ==
  /\ received <= Len(configures) /\ acked <= received
  /\ m_ready <=> received # 0

\* What the running timer waits to apply.
ThrottleInv ==
  timerActive =>
    /\ m_ready /\ acked < received
    /\ pending = [serial |-> received, size |-> configures[received]]

IInv == TypeOK /\ ArrivalInv /\ ThrottleInv /\ SettledIsCurrent /\ ModeMatchesScale
-----------------------------------------------------------------------------
\* Turning twice is not turning.
LEMMA TurnedTwice ==
  /\ \A s \in HostSizes : Turned(Turned(s)) = s
  /\ \A s \in Sizes : Turned(Turned(s)) = s
<1>1. HostSizes \subseteq Nat \X Nat /\ Sizes \subseteq Nat \X Nat
  BY SizesAssumption DEF HostSizes
<1>2. \A s \in Nat \X Nat : <<s[1], s[2]>> = s
  OBVIOUS
<1>3. \A s : Turned(Turned(s)) = <<s[1], s[2]>>
  BY DEF Turned
<1> QED
  BY <1>1, <1>2, <1>3

\* The configure event that arrives next, and those that have arrived.
LEMMA Arrived ==
  ASSUME TypeOK, ArrivalInv
  PROVE  /\ received \in Nat /\ Len(configures) \in Nat /\ acked \in Nat
         /\ m_ready => received \in 1 .. Len(configures)
         /\ \A n \in 1 .. Len(configures) : configures[n] \in Sizes \cup {Unset}
<1>1. received \in Nat /\ acked \in Nat /\ configures \in Seq(Sizes \cup {Unset})
  BY DEF TypeOK
<1>2. Len(configures) \in Nat
  BY <1>1
<1>3. \A n \in 1 .. Len(configures) : configures[n] \in Sizes \cup {Unset}
  BY <1>1
<1>4. m_ready => received \in 1 .. Len(configures)
  BY <1>1, <1>2 DEF ArrivalInv
<1> QED
  BY <1>1, <1>2, <1>3, <1>4

\* applyConfigure() with a size of the host, or none, leaves the state well formed.
LEMMA ApplyTypes ==
  ASSUME TypeOK, ModeMatchesScale, NEW serial, NEW size \in Sizes \cup {Unset},
         ApplyConfigure(serial, size)
  PROVE  /\ acked' = serial
         /\ mode' \in [size : HostSizes \cup {Turned(s) : s \in HostSizes},
                       factor : Scales, rate : RefreshRates]
         /\ scale' \in Scales
         /\ mode'.factor = scale'
         /\ size # Unset => mode'.size = size
<1>1. CASE size # Unset
  <2>1. size \in HostSizes /\ m_pendingScale \in Scales /\ m_refreshRate \in RefreshRates
    BY <1>1 DEF TypeOK, HostSizes
  <2>2. acked' = serial /\ mode' = Mode(size, m_pendingScale, m_refreshRate) /\ scale' = m_pendingScale
    BY <1>1 DEF ApplyConfigure
  <2> QED
    BY <2>1, <2>2 DEF Mode
<1>2. CASE size = Unset
  BY <1>2 DEF ApplyConfigure, stateVars, TypeOK, ModeMatchesScale
<1> QED
  BY <1>1, <1>2

\* The invariant holds at first.
LEMMA InvInit == Init => IInv
<1> SUFFICES ASSUME Init PROVE IInv
  OBVIOUS
<1>1. TypeOK
  <2>1. mode \in [size : HostSizes \cup {Turned(s) : s \in HostSizes},
                  factor : Scales, rate : RefreshRates]
    BY ScalesAssumption, RatesAssumption DEF Init, Mode, HostSizes
  <2>2. configures \in Seq(Sizes \cup {Unset})
    BY DEF Init
  <2> QED
    BY <2>1, <2>2, ScalesAssumption, RatesAssumption DEF Init, TypeOK
<1>2. ArrivalInv /\ ThrottleInv /\ SettledIsCurrent
  BY DEF Init, ArrivalInv, ThrottleInv, SettledIsCurrent
<1>3. ModeMatchesScale
  BY DEF Init, ModeMatchesScale, Mode
<1> QED
  BY <1>1, <1>2, <1>3 DEF IInv

\* handleConfigure().
LEMMA HandleConfigureStep ==
  ASSUME IInv, HandleConfigure
  PROVE  IInv' /\ (acked' # acked => acked' > acked /\ acked' = received')
<1> DEFINE n == received + 1
           size == configures[n]
<1>1. /\ received \in Nat /\ acked \in Nat /\ Len(configures) \in Nat /\ acked <= received
      /\ n \in 1 .. Len(configures) /\ size \in Sizes \cup {Unset}
      /\ received' = n /\ m_ready' = TRUE
      /\ UNCHANGED <<m_pendingScale, rotated, m_refreshRate, configures>>
  <2>1. received < Len(configures) /\ received' = n /\ m_ready' = TRUE
        /\ UNCHANGED <<m_pendingScale, rotated, m_refreshRate, configures>>
    BY DEF HandleConfigure, hostVars
  <2>2. /\ received \in Nat /\ Len(configures) \in Nat /\ acked \in Nat /\ acked <= received
        /\ \A k \in 1 .. Len(configures) : configures[k] \in Sizes \cup {Unset}
    BY Arrived DEF IInv, ArrivalInv
  <2>3. n \in 1 .. Len(configures)
    BY <2>1, <2>2
  <2> QED
    BY <2>1, <2>2, <2>3
<1>2. CASE ~m_ready
  <2>1. ApplyConfigure(n, size) /\ UNCHANGED <<pending, timerActive>>
    BY <1>2 DEF HandleConfigure
  <2>2. /\ acked' = n
        /\ mode' \in [size : HostSizes \cup {Turned(s) : s \in HostSizes},
                      factor : Scales, rate : RefreshRates]
        /\ scale' \in Scales /\ mode'.factor = scale'
        /\ size # Unset => mode'.size = size
    <3> HIDE DEF n, size
    <3> QED
      BY <1>1, <2>1, ApplyTypes DEF IInv
  <2>3. ~timerActive
    BY <1>2 DEF IInv, ThrottleInv
  <2> HIDE DEF size
  <2>4. TypeOK'
    BY <1>1, <2>1, <2>2 DEF IInv, TypeOK
  <2>5. ArrivalInv'
    BY <1>1, <2>2 DEF ArrivalInv
  <2>6. ThrottleInv'
    BY <2>1, <2>3 DEF ThrottleInv
  <2>7. SettledIsCurrent'
    BY <1>1, <2>2 DEF SettledIsCurrent, size
  <2>8. ModeMatchesScale'
    BY <2>2 DEF ModeMatchesScale
  <2>9. acked' > acked /\ acked' = received'
    BY <1>1, <2>2
  <2> QED
    BY <2>4, <2>5, <2>6, <2>7, <2>8, <2>9 DEF IInv
<1>3. CASE m_ready
  <2>1. /\ pending' = [serial |-> n, size |-> size] /\ timerActive' = TRUE
        /\ UNCHANGED <<mode, scale, acked>>
    BY <1>3 DEF HandleConfigure, Postpone, stateVars
  <2> HIDE DEF size
  <2>2. TypeOK'
    BY <1>1, <2>1 DEF IInv, TypeOK
  <2>3. ArrivalInv'
    BY <1>1, <2>1 DEF ArrivalInv
  <2>4. ThrottleInv'
    BY <1>1, <2>1 DEF ThrottleInv, size
  <2>5. SettledIsCurrent'
    BY <2>1 DEF SettledIsCurrent
  <2>6. ModeMatchesScale'
    BY <2>1 DEF IInv, ModeMatchesScale
  <2> QED
    BY <2>1, <2>2, <2>3, <2>4, <2>5, <2>6 DEF IInv
<1> QED
  BY <1>2, <1>3

\* The throttle timer.
LEMMA ThrottleTimeoutStep ==
  ASSUME IInv, ThrottleTimeout
  PROVE  IInv' /\ (acked' # acked => acked' > acked /\ acked' = received')
<1> DEFINE size == configures[received]
<1>1. /\ timerActive /\ timerActive' = FALSE
      /\ ApplyConfigure(pending.serial, pending.size)
      /\ UNCHANGED <<m_ready, pending, m_pendingScale, rotated, m_refreshRate, configures, received>>
  BY DEF ThrottleTimeout, hostVars
<1>2. m_ready /\ acked < received /\ pending.serial = received /\ pending.size = size
  BY <1>1 DEF IInv, ThrottleInv
<1>3. received \in Nat /\ acked \in Nat /\ size \in Sizes \cup {Unset}
  BY <1>2, Arrived DEF IInv
<1>4. /\ acked' = received
      /\ mode' \in [size : HostSizes \cup {Turned(s) : s \in HostSizes},
                    factor : Scales, rate : RefreshRates]
      /\ scale' \in Scales /\ mode'.factor = scale'
      /\ size # Unset => mode'.size = size
  <2> HIDE DEF size
  <2> QED
    BY <1>1, <1>2, <1>3, ApplyTypes DEF IInv
<1>5. TypeOK'
  BY <1>1, <1>3, <1>4 DEF IInv, TypeOK
<1>6. ArrivalInv'
  BY <1>1, <1>3, <1>4 DEF IInv, ArrivalInv
<1>7. ThrottleInv'
  BY <1>1 DEF ThrottleInv
<1>8. SettledIsCurrent'
  BY <1>1, <1>4 DEF SettledIsCurrent
<1>9. ModeMatchesScale'
  BY <1>4 DEF ModeMatchesScale
<1>10. acked' > acked /\ acked' = received'
  BY <1>1, <1>2, <1>3, <1>4
<1> QED
  BY <1>5, <1>6, <1>7, <1>8, <1>9, <1>10 DEF IInv

\* A mode of pixelSize() is turned at most.
LEMMA RefreshRateStep ==
  ASSUME IInv, NEW rate \in RefreshRates, RefreshRateChanges(rate)
  PROVE  IInv' /\ acked' = acked
<1> DEFINE size == configures[received]
<1>1. /\ m_refreshRate' = rate /\ mode' = [size |-> PixelSize, factor |-> mode.factor, rate |-> rate]
      /\ UNCHANGED <<m_ready, pending, timerActive, m_pendingScale, scale, rotated, configures,
                     received, acked>>
  BY DEF RefreshRateChanges, Mode, hostVars
<1>2. PixelSize \in {mode.size, Turned(mode.size)}
  BY DEF PixelSize, Turned
<1>3. mode.size \in HostSizes \cup {Turned(s) : s \in HostSizes} /\ mode.factor \in Scales
  BY DEF IInv, TypeOK
<1>4. PixelSize \in HostSizes \cup {Turned(s) : s \in HostSizes}
  BY <1>2, <1>3, TurnedTwice
<1>5. mode'.size = PixelSize /\ mode'.factor = mode.factor
  BY <1>1
<1>6. TypeOK'
  BY <1>1, <1>3, <1>4 DEF IInv, TypeOK
<1>7. ArrivalInv' /\ ThrottleInv'
  BY <1>1 DEF IInv, ArrivalInv, ThrottleInv
<1>8. SettledIsCurrent'
  <2> SUFFICES ASSUME m_ready, ~timerActive, size # Unset
               PROVE  PixelSize \in {size, Turned(size)}
    BY <1>1, <1>5 DEF IInv, SettledIsCurrent
  <2>1. mode.size \in {size, Turned(size)}
    BY DEF IInv, SettledIsCurrent
  <2>2. size \in Sizes
    BY Arrived DEF IInv
  <2> QED
    BY <1>2, <2>1, <2>2, TurnedTwice
<1>9. ModeMatchesScale'
  BY <1>1, <1>5 DEF IInv, ModeMatchesScale
<1> QED
  BY <1>1, <1>6, <1>7, <1>8, <1>9 DEF IInv

\* The host's configure events wait behind those that have arrived.
LEMMA HostConfiguresStep ==
  ASSUME IInv, NEW size \in Sizes \cup {Unset}, HostConfigures(size)
  PROVE  IInv' /\ acked' = acked
<1>1. /\ configures' = Append(configures, size)
      /\ UNCHANGED <<m_ready, pending, timerActive, m_pendingScale, mode, scale, rotated,
                     m_refreshRate, received, acked>>
  BY DEF HostConfigures, stateVars
<1>2. configures \in Seq(Sizes \cup {Unset})
  BY DEF IInv, TypeOK
<1>3. /\ configures' \in Seq(Sizes \cup {Unset}) /\ Len(configures') = Len(configures) + 1
      /\ \A n \in 1 .. Len(configures) : configures'[n] = configures[n]
  BY <1>1, <1>2
<1>4. /\ received \in Nat /\ Len(configures) \in Nat
      /\ m_ready => configures'[received] = configures[received]
  BY <1>3, Arrived DEF IInv
<1>5. TypeOK'
  BY <1>1, <1>3 DEF IInv, TypeOK
<1>6. ArrivalInv'
  BY <1>1, <1>3, <1>4 DEF IInv, ArrivalInv
<1>7. ThrottleInv'
  BY <1>1, <1>4 DEF IInv, ThrottleInv
<1>8. SettledIsCurrent'
  BY <1>1, <1>4 DEF IInv, SettledIsCurrent
<1>9. ModeMatchesScale'
  BY <1>1 DEF IInv, ModeMatchesScale
<1> QED
  BY <1>1, <1>5, <1>6, <1>7, <1>8, <1>9 DEF IInv

\* Every step keeps the invariant and acknowledges the newest configure only.
LEMMA InvStep ==
  ASSUME IInv, [Next]_vars
  PROVE  IInv' /\ (acked' # acked => acked' > acked /\ acked' = received')
<1>1. CASE HandleConfigure
  BY <1>1, HandleConfigureStep
<1>2. CASE ThrottleTimeout
  BY <1>2, ThrottleTimeoutStep
<1>3. CASE \E preferred \in Scales : FractionalScaleChanged(preferred)
  BY <1>3 DEF FractionalScaleChanged, stateVars, hostVars, IInv, TypeOK, ArrivalInv, ThrottleInv,
              SettledIsCurrent, ModeMatchesScale
<1>4. CASE TransformChanges
  BY <1>4 DEF TransformChanges, stateVars, hostVars, IInv, TypeOK, ArrivalInv, ThrottleInv,
              SettledIsCurrent, ModeMatchesScale
<1>5. CASE \E rate \in RefreshRates : RefreshRateChanges(rate)
  BY <1>5, RefreshRateStep
<1>6. CASE \E size \in Sizes \cup {Unset} : HostConfigures(size)
  BY <1>6, HostConfiguresStep
<1>7. CASE UNCHANGED vars
  BY <1>7 DEF vars, IInv, TypeOK, ArrivalInv, ThrottleInv, SettledIsCurrent, ModeMatchesScale
<1> QED
  BY <1>1, <1>2, <1>3, <1>4, <1>5, <1>6, <1>7 DEF Next

\* The invariant holds of every behaviour.
LEMMA Invariance == Spec => []IInv
<1>1. IInv /\ [Next]_vars => IInv'
  BY InvStep
<1> QED
  BY InvInit, <1>1, PTL DEF Spec

\* No mode of an output is ever empty, and every field keeps its type.
THEOREM TypeCorrect == Spec => []TypeOK
<1>1. IInv => TypeOK
  BY DEF IInv
<1> QED
  BY Invariance, <1>1, PTL

\* With the throttle timer at rest the newest size that arrived is applied.
THEOREM SettlesOnTheNewest == Spec => []SettledIsCurrent
<1>1. IInv => SettledIsCurrent
  BY DEF IInv
<1> QED
  BY Invariance, <1>1, PTL

\* The scale that a mode was made with is the scale in the state.
THEOREM ModeFollowsScale == Spec => []ModeMatchesScale
<1>1. IInv => ModeMatchesScale
  BY DEF IInv
<1> QED
  BY Invariance, <1>1, PTL

\* Acknowledgements are of the newest configure that has arrived, in order.
THEOREM AcknowledgesInOrder == Spec => AcksNewest
<1>1. IInv /\ [Next]_vars => [acked' # acked => acked' > acked /\ acked' = received']_vars
  BY InvStep
<1> QED
  BY Invariance, <1>1, PTL DEF Spec, AcksNewest
=============================================================================
