---------------------------- MODULE OutputFrames ----------------------------
(***************************************************************************)
(* The frames a WaylandOutput has in flight (wayland_output.cpp): the end  *)
(* of present() commits the toplevel surface and appends a FrameData to    *)
(* m_frames; a wp_presentation_feedback event removes the FRONT of         *)
(* m_frames, whichever frame it is about; the wl_surface.frame callback    *)
(* stamps its own frame; the RAIL heartbeat keeps asking for repaints; and *)
(* DPMS changes inhibit the render loop.                                   *)
(*                                                                         *)
(* Frames are numbered in commit order.  m_frames only ever grows at the   *)
(* back and shrinks at the front, so it is the interval of numbers         *)
(* popped + 1 .. committed.  FrameData owns its two proxies: an event for  *)
(* a frame that has left m_frames finds its proxy destroyed, and libwayland *)
(* drops it.                                                               *)
(*                                                                         *)
(* External, as this code uses them: KWin's RenderLoop (one pending repaint *)
(* request, a counter of inhibitors, a limit on frames in flight) and the  *)
(* host, which applies commits in order, answers a content update with     *)
(* "discarded" when the next commit replaces it before the host's output   *)
(* has latched it, and with "presented" once the latched one is shown.     *)
(***************************************************************************)
EXTENDS Naturals, Sequences

CONSTANTS
  MaxFrames,     \* how many frames are committed (bounds the model)
  MaxInhibitors, \* how often the render loop is inhibited (bounds the model)
  OffModes       \* the DPMS modes other than "On" that are requested

ASSUME MaxFramesAssumption == MaxFrames \in Nat
ASSUME MaxInhibitorsAssumption == MaxInhibitors \in Nat
ASSUME OffModesAssumption == "On" \notin OffModes

VARIABLES
  rail,          \* hasRdpRailShell(): the heartbeat timer runs
  alive,         \* the output has not been destroyed
  committed,     \* number of the newest frame, the back of m_frames
  popped,        \* how many frames have left m_frames
  callbackTime,  \* frameCallbackTime of the frames that have one: the frame
                 \* whose done event it was taken at
  safetyMargin,  \* the frames whose timestamp and callback the margin is from
  dpmsMode,      \* m_state.dpmsMode
  inhibitCount,  \* external: inhibitors of the render loop
  repaint,       \* external: the render loop owes a repaint
  applied,       \* host: commits taken from the connection
  hostSurface,   \* host: content update waiting for the output's next repaint
  hostLatched,   \* host: content update being shown, not answered yet
  answers,       \* host: its feedback events, oldest first
  delivered      \* how many of them the main thread has dispatched

frameVars == <<alive, committed, popped, callbackTime, safetyMargin, delivered>>
loopVars  == <<dpmsMode, inhibitCount, repaint>>
hostVars  == <<applied, hostSurface, hostLatched, answers>>
vars == <<rail, alive, committed, popped, callbackTime, safetyMargin, dpmsMode,
          inhibitCount, repaint, applied, hostSurface, hostLatched, answers, delivered>>

None == 0   \* no frame: frames are numbered from 1

Frames == (popped + 1) .. committed   \* m_frames

Init ==
  /\ rail \in BOOLEAN
  /\ alive = TRUE
  /\ committed = 0 /\ popped = 0
  /\ callbackTime = <<>>
  /\ safetyMargin = [timestamp |-> None, callback |-> None]
  /\ dpmsMode = "On"
  /\ inhibitCount = 0
  /\ repaint = FALSE
  /\ applied = 0
  /\ hostSurface = None /\ hostLatched = None
  /\ answers = <<>>
  /\ delivered = 0
-----------------------------------------------------------------------------
(***************************************************************************)
(* The render loop and what drives it.                                     *)
(***************************************************************************)

\* Mutant: triple buffering.
ThreePendingFrames == 3

\* m_renderLoop->setMaxPendingFrameCount(2).
MaxPendingFrames == 2

\* The render loop starts a frame: a repaint is owed, nobody inhibits it and
\* fewer frames than the limit are in flight.
FrameRequested ==
  /\ repaint
  /\ inhibitCount = 0
  /\ committed - popped < MaxPendingFrames

\* The end of present(): feedback and frame callback are requested, the
\* toplevel is committed and the frame joins m_frames.
CommitFrame ==
  /\ alive
  /\ FrameRequested
  /\ committed < MaxFrames
  /\ committed' = committed + 1
  /\ repaint' = FALSE
  /\ UNCHANGED <<rail, alive, popped, callbackTime, safetyMargin, dpmsMode, inhibitCount, delivered, hostVars>>

\* Mutant: the heartbeat marks the layers but does not ask for a repaint.
HeartbeatMarksOnly ==
  /\ alive /\ rail
  /\ UNCHANGED vars

\* The heartbeat timer marks the primary layers and schedules a repaint.
Heartbeat ==
  /\ alive /\ rail
  /\ repaint' = TRUE
  /\ UNCHANGED <<rail, dpmsMode, inhibitCount, frameVars, hostVars>>

\* External: input or an animation schedules a repaint.
SceneRepaint ==
  /\ alive
  /\ repaint' = TRUE
  /\ UNCHANGED <<rail, dpmsMode, inhibitCount, frameVars, hostVars>>

\* Mutant: a request for the mode the output already has is applied again.
ApplyDpmsAgain(mode) ==
  /\ alive
  /\ mode = "On" \/ inhibitCount < MaxInhibitors
  /\ dpmsMode' = mode
  /\ inhibitCount' = IF mode = "On" THEN inhibitCount - 1 ELSE inhibitCount + 1
  /\ UNCHANGED <<rail, repaint, frameVars, hostVars>>

\* applyChanges() with a changed dpmsMode: every mode other than On inhibits
\* the render loop once more, On lifts one inhibition.
ApplyDpms(mode) ==
  /\ alive
  /\ mode # dpmsMode
  /\ mode = "On" \/ inhibitCount < MaxInhibitors
  /\ dpmsMode' = mode
  /\ inhibitCount' = IF mode = "On" THEN inhibitCount - 1 ELSE inhibitCount + 1
  /\ UNCHANGED <<rail, repaint, frameVars, hostVars>>
-----------------------------------------------------------------------------
(***************************************************************************)
(* Events from the host, dispatched on the main thread.                    *)
(***************************************************************************)

\* presented and discarded events of wp_presentation_feedback.
FeedbackEvents == [frame : Nat, presented : BOOLEAN]

\* The next feedback event; it reaches a listener only if its proxy lives.
HasFeedback == delivered < Len(answers)
Feedback == answers[delivered + 1]

\* m_frames.pop_front(), which also destroys the front's two proxies.
PopFront ==
  /\ popped' = popped + 1
  /\ callbackTime' = [f \in DOMAIN callbackTime \ {popped + 1} |-> callbackTime[f]]

\* framePresented(): the front frame's callback time, if it has one, and the
\* event's timestamp give the render loop its safety margin.
FramePresented ==
  /\ HasFeedback /\ Feedback.presented
  /\ Feedback.frame \in Frames
  /\ safetyMargin' = IF popped + 1 \in DOMAIN callbackTime
                     THEN [timestamp |-> Feedback.frame,
                           callback |-> callbackTime[popped + 1]]
                     ELSE safetyMargin
  /\ PopFront
  /\ delivered' = delivered + 1
  /\ UNCHANGED <<rail, alive, committed, loopVars, hostVars>>

\* Mutant: nothing happens when the host discards a frame.
DiscardIgnored ==
  /\ HasFeedback /\ ~Feedback.presented
  /\ Feedback.frame \in Frames
  /\ delivered' = delivered + 1
  /\ UNCHANGED <<rail, alive, committed, popped, callbackTime, safetyMargin, loopVars, hostVars>>

\* frameDiscarded().
FrameDiscarded ==
  /\ HasFeedback /\ ~Feedback.presented
  /\ Feedback.frame \in Frames
  /\ PopFront
  /\ delivered' = delivered + 1
  /\ UNCHANGED <<rail, alive, committed, safetyMargin, loopVars, hostVars>>

\* The proxy was destroyed with its frame: libwayland drops the event.
FeedbackDropped ==
  /\ HasFeedback
  /\ Feedback.frame \notin Frames
  /\ delivered' = delivered + 1
  /\ UNCHANGED <<rail, alive, committed, popped, callbackTime, safetyMargin, loopVars, hostVars>>

\* The callback time of frame f is set to the time of the done event of frame g.
Stamp(f, g) ==
  callbackTime' = [x \in DOMAIN callbackTime \cup {f} |-> IF x = f THEN g ELSE callbackTime[x]]

\* Mutant: stamp the oldest frame instead of the callback's own.
FrameDoneStampsFront(f) ==
  /\ f \in Frames \ DOMAIN callbackTime
  /\ f <= applied
  /\ Stamp(popped + 1, f)
  /\ UNCHANGED <<rail, alive, committed, popped, safetyMargin, delivered, loopVars, hostVars>>

\* handleFrame(): the done event of a frame still in m_frames stamps it.  The
\* host may send it, once, at any time after it applied the commit.
FrameDone(f) ==
  /\ f \in Frames \ DOMAIN callbackTime
  /\ f <= applied
  /\ Stamp(f, f)
  /\ UNCHANGED <<rail, alive, committed, popped, safetyMargin, delivered, loopVars, hostVars>>

\* ~WaylandOutput(): m_frames.clear() destroys every proxy.
Destroy ==
  /\ alive
  /\ alive' = FALSE
  /\ popped' = committed
  /\ callbackTime' = <<>>
  /\ UNCHANGED <<rail, committed, safetyMargin, delivered, loopVars, hostVars>>
-----------------------------------------------------------------------------
(***************************************************************************)
(* External: the host compositor.                                          *)
(***************************************************************************)

Answer(f, shown) == Append(answers, [frame |-> f, presented |-> shown])

\* The next commit arrives and replaces a content update not latched yet.
HostApplies ==
  /\ applied < committed
  /\ applied' = applied + 1
  /\ answers' = IF hostSurface = None THEN answers ELSE Answer(hostSurface, FALSE)
  /\ hostSurface' = applied + 1
  /\ UNCHANGED <<rail, hostLatched, frameVars, loopVars>>

\* The host's output repaints with the newest content update.
HostLatches ==
  /\ hostSurface # None /\ hostLatched = None
  /\ hostLatched' = hostSurface
  /\ hostSurface' = None
  /\ UNCHANGED <<rail, applied, answers, frameVars, loopVars>>

\* The repaint has been shown.
HostShows ==
  /\ hostLatched # None
  /\ answers' = Answer(hostLatched, TRUE)
  /\ hostLatched' = None
  /\ UNCHANGED <<rail, applied, hostSurface, frameVars, loopVars>>
-----------------------------------------------------------------------------
FeedbackEvent == FramePresented \/ FrameDiscarded \/ FeedbackDropped

HostStep == HostApplies \/ HostLatches \/ HostShows

Next ==
  \/ CommitFrame
  \/ Heartbeat
  \/ SceneRepaint
  \/ \E mode \in OffModes \cup {"On"} : ApplyDpms(mode)
  \/ FeedbackEvent
  \/ \E f \in Frames : FrameDone(f)
  \/ Destroy
  \/ HostStep

Spec == Init /\ [][Next]_vars

(***************************************************************************)
(* The timer ticks, the render loop composites, the host keeps repainting  *)
(* and the event thread delivers (EventThread).  Nothing else repaints:    *)
(* the desktop may be static.                                              *)
(***************************************************************************)
Fairness ==
  /\ WF_vars(Heartbeat)
  /\ WF_vars(CommitFrame)
  /\ WF_vars(FeedbackEvent)
  /\ WF_vars(HostApplies) /\ WF_vars(HostLatches) /\ WF_vars(HostShows)

FairSpec == Spec /\ Fairness
-----------------------------------------------------------------------------
(***************************************************************************)
(* Properties.                                                             *)
(***************************************************************************)

\* Every variable holds a value its field can hold; the inhibitor count never
\* drops below zero.
TypeOK ==
  /\ rail \in BOOLEAN /\ alive \in BOOLEAN
  /\ committed \in Nat /\ popped \in Nat
  /\ DOMAIN callbackTime \subseteq Frames
  /\ callbackTime \in [DOMAIN callbackTime -> Nat]
  /\ safetyMargin \in [timestamp : Nat, callback : Nat]
  /\ dpmsMode \in OffModes \cup {"On"}
  /\ inhibitCount \in Nat
  /\ repaint \in BOOLEAN
  /\ applied \in Nat /\ hostSurface \in Nat /\ hostLatched \in Nat
  /\ answers \in Seq(FeedbackEvents)
  /\ delivered \in Nat

\* A feedback event completes the frame it is about: the code never compares
\* the proxies, so this rests on the order of the host's answers and on the
\* limit of two frames in flight.  An event that was under way when the output
\* was destroyed completes nothing.
OwnFeedback ==
  [][delivered' # delivered =>
       popped' = IF alive THEN Feedback.frame ELSE popped]_vars

\* The safety margin never mixes the times of two frames.
MarginOfOneFrame == safetyMargin.timestamp = safetyMargin.callback

\* No slot of m_frames is lost: the host still owes an answer for every frame
\* in it, or the answer is on its way.
NoSlotLost ==
  \A f \in Frames :
    \/ f > applied
    \/ f \in {hostSurface, hostLatched}
    \/ \E i \in (delivered + 1) .. Len(answers) : answers[i].frame = f

\* The render loop is inhibited exactly while the output is not On, as long as
\* there is one DPMS mode besides On.
InhibitedWhileOff == inhibitCount > 0 <=> dpmsMode # "On"

\* Every frame leaves m_frames.
FramesComplete ==
  \A f \in 1 .. MaxFrames : committed >= f ~> popped >= f

\* Under RAIL the output never goes idle: while it is On, however static the
\* desktop, another frame is committed.
KeepsStreaming ==
  \A n \in 0 .. (MaxFrames - 1) :
    rail /\ committed = n ~> committed > n \/ dpmsMode # "On" \/ ~alive
=============================================================================
