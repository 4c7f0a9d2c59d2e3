------------------------- MODULE OutputFramesProofs -------------------------
(***************************************************************************)
(* Why popping the front of m_frames is right although the code ignores    *)
(* which feedback object an event came from: with two frames in flight the *)
(* host's answers stay in commit order.  The invariant says where each     *)
(* frame is on its way from the commit to the dispatched answer.           *)
(***************************************************************************)
EXTENDS OutputFrames, TLAPS

\* The number of frames the host has answered.
Answered == Len(answers)

\* The k-th answer is about the k-th frame.
AnswersInOrder == \A i \in 1 .. Answered : answers[i].frame = i

\* The frames applied but not answered yet are, in order, the latched one and
\* the one on the host's surface.
StageInv ==
  /\ applied = Answered + (IF hostLatched = None THEN 0 ELSE 1)
                        + (IF hostSurface = None THEN 0 ELSE 1)
  /\ hostLatched # None => hostLatched = Answered + 1
  /\ hostSurface # None => hostSurface = applied

\* The client's end: each dispatched answer has popped its frame, and at most
\* two committed frames are not dispatched.
QueueInv ==
  /\ alive => delivered = popped
  /\ ~alive => popped = committed
  /\ delivered <= Answered
  /\ applied <= committed
  /\ committed <= delivered + MaxPendingFrames
  /\ popped <= committed

StampInv ==
  /\ \A f \in DOMAIN callbackTime : callbackTime[f] = f
  /\ MarginOfOneFrame

DpmsInv == dpmsMode # "On" => inhibitCount >= 1

IInv == TypeOK /\ AnswersInOrder /\ StageInv /\ QueueInv /\ StampInv /\ DpmsInv
-----------------------------------------------------------------------------
\* The counters are natural numbers.
LEMMA Counters ==
  ASSUME TypeOK
  PROVE  /\ committed \in Nat /\ popped \in Nat /\ delivered \in Nat
         /\ applied \in Nat /\ hostSurface \in Nat /\ hostLatched \in Nat
         /\ Answered \in Nat
<1>1. answers \in Seq(FeedbackEvents)
  BY DEF TypeOK
<1>2. Answered \in Nat
  BY <1>1 DEF Answered
<1> QED
  BY <1>2 DEF TypeOK

\* What Append does to the host's answers.
LEMMA AppendAnswer ==
  ASSUME TypeOK, NEW f \in Nat, NEW b \in BOOLEAN, answers' = Answer(f, b)
  PROVE  /\ answers' \in Seq(FeedbackEvents)
         /\ Answered' = Answered + 1
         /\ answers'[Answered + 1].frame = f
         /\ \A i \in 1 .. Answered : answers'[i] = answers[i]
<1> DEFINE e == [frame |-> f, presented |-> b]
<1>1. e \in FeedbackEvents /\ e.frame = f
  BY DEF FeedbackEvents
<1>2. answers \in Seq(FeedbackEvents)
  BY DEF TypeOK
<1> HIDE DEF e
<1>3. answers' = Append(answers, e)
  BY DEF Answer, e
<1>4. answers' \in Seq(FeedbackEvents) /\ Len(answers') = Len(answers) + 1
  BY <1>1, <1>2, <1>3
<1>5. answers'[Len(answers) + 1] = e
  BY <1>1, <1>2, <1>3
<1>6. \A i \in 1 .. Len(answers) : answers'[i] = answers[i]
  BY <1>1, <1>2, <1>3
<1> QED
  BY <1>1, <1>4, <1>5, <1>6 DEF Answered

\* An answer to the next unanswered frame keeps the answers in order.
LEMMA AppendInOrder ==
  ASSUME TypeOK, AnswersInOrder, NEW b \in BOOLEAN, answers' = Answer(Answered + 1, b)
  PROVE  AnswersInOrder'
<1>1. Answered \in Nat
  BY Counters
<1>a. Answered + 1 \in Nat
  BY <1>1
<1>2. /\ Answered' = Answered + 1
      /\ answers'[Answered + 1].frame = Answered + 1
      /\ \A i \in 1 .. Answered : answers'[i] = answers[i]
  BY <1>a, AppendAnswer
<1> QED
  BY <1>1, <1>2 DEF AnswersInOrder

\* Nothing is answered, popped, stamped or inhibited at the start.
LEMMA InitIInv == Init => IInv
<1> SUFFICES ASSUME Init PROVE IInv
  OBVIOUS
<1> USE DEF Init, None
<1>1. TypeOK
  <2>1. answers \in Seq(FeedbackEvents)
    OBVIOUS
  <2>2. DOMAIN callbackTime = {} /\ callbackTime \in [DOMAIN callbackTime -> Nat]
    OBVIOUS
  <2> QED
    BY <2>1, <2>2 DEF TypeOK, Frames
<1>2. AnswersInOrder /\ StageInv /\ QueueInv
  BY DEF AnswersInOrder, StageInv, QueueInv, Answered, MaxPendingFrames
<1>3. StampInv /\ DpmsInv
  BY DEF StampInv, MarginOfOneFrame, DpmsInv
<1> QED
  BY <1>1, <1>2, <1>3 DEF IInv

\* The next feedback event, of a live output, is about the front of m_frames.
LEMMA FeedbackIsFront ==
  ASSUME IInv, alive, HasFeedback
  PROVE  Feedback.frame = popped + 1 /\ Feedback.frame \in Frames
<1>1. TypeOK /\ AnswersInOrder /\ StageInv /\ QueueInv
  BY DEF IInv
<1>2. delivered = popped /\ delivered + 1 \in 1 .. Answered
  BY <1>1, Counters DEF QueueInv, HasFeedback, Answered
<1>3. Feedback.frame = popped + 1
  BY <1>1, <1>2 DEF AnswersInOrder, Feedback
<1>4. Answered <= applied
  BY <1>1, Counters DEF StageInv, None
<1>5. popped + 1 <= committed
  BY <1>1, <1>2, <1>4, Counters DEF QueueInv
<1> QED
  BY <1>1, <1>3, <1>5, Counters DEF Frames
-----------------------------------------------------------------------------
\* The client's steps leave the host's part of the invariant alone.
LEMMA HostPartKept ==
  ASSUME AnswersInOrder, StageInv, UNCHANGED hostVars
  PROVE  AnswersInOrder' /\ StageInv' /\ Answered' = Answered
<1>1. UNCHANGED <<applied, hostSurface, hostLatched, answers>>
  BY DEF hostVars
<1>2. Answered' = Answered
  BY <1>1 DEF Answered
<1> QED
  BY <1>1, <1>2 DEF AnswersInOrder, StageInv

\* The host's steps leave the client's part alone, except what bounds it.
LEMMA ClientPartKept ==
  ASSUME TypeOK, StampInv, DpmsInv, rail' = rail, UNCHANGED frameVars, UNCHANGED loopVars,
         answers' \in Seq(FeedbackEvents), applied' \in Nat,
         hostSurface' \in Nat, hostLatched' \in Nat
  PROVE  TypeOK' /\ StampInv' /\ DpmsInv'
<1>1. UNCHANGED <<rail, alive, committed, popped, callbackTime, safetyMargin, delivered,
                  dpmsMode, inhibitCount, repaint>>
  BY DEF frameVars, loopVars
<1>2. TypeOK'
  BY <1>1 DEF TypeOK, Frames
<1> QED
  BY <1>1, <1>2 DEF StampInv, MarginOfOneFrame, DpmsInv

\* A commit: the limit of the render loop bounds the frames in flight.
LEMMA CommitStep == IInv /\ CommitFrame => IInv'
<1> SUFFICES ASSUME IInv, CommitFrame PROVE IInv'
  OBVIOUS
<1>1. TypeOK /\ AnswersInOrder /\ StageInv /\ QueueInv /\ StampInv /\ DpmsInv
  BY DEF IInv
<1>2. AnswersInOrder' /\ StageInv' /\ Answered' = Answered
  BY <1>1, HostPartKept DEF CommitFrame
<1>3. UNCHANGED <<rail, alive, popped, callbackTime, safetyMargin, dpmsMode, inhibitCount,
                  delivered, applied, hostSurface, hostLatched, answers>>
  BY DEF CommitFrame, hostVars
<1>4. alive /\ committed' = committed + 1 /\ committed - popped < MaxPendingFrames
      /\ repaint' = FALSE
  BY DEF CommitFrame, FrameRequested
<1>5. Frames \subseteq Frames'
  BY <1>1, <1>3, <1>4, Counters DEF Frames
<1>6. TypeOK'
  <2>1. committed' \in Nat /\ DOMAIN callbackTime' \subseteq Frames'
    BY <1>1, <1>3, <1>4, <1>5 DEF TypeOK
  <2> QED
    BY <1>1, <1>3, <1>4, <2>1 DEF TypeOK
<1>7. QueueInv'
  BY <1>1, <1>2, <1>3, <1>4, Counters DEF QueueInv, MaxPendingFrames
<1>8. StampInv' /\ DpmsInv'
  BY <1>1, <1>3 DEF StampInv, MarginOfOneFrame, DpmsInv
<1> QED
  BY <1>2, <1>6, <1>7, <1>8 DEF IInv

\* The timer, the scene and DPMS touch the render loop only.
LEMMA LoopStep ==
  IInv /\ (Heartbeat \/ SceneRepaint \/ \E mode \in OffModes \cup {"On"} : ApplyDpms(mode))
    => IInv'
<1> SUFFICES ASSUME IInv,
                    \/ Heartbeat \/ SceneRepaint
                    \/ \E mode \in OffModes \cup {"On"} : ApplyDpms(mode)
             PROVE  IInv'
  OBVIOUS
<1>1. TypeOK /\ AnswersInOrder /\ StageInv /\ QueueInv /\ StampInv /\ DpmsInv
  BY DEF IInv
<1>2. rail' = rail /\ UNCHANGED frameVars /\ UNCHANGED hostVars
  BY DEF Heartbeat, SceneRepaint, ApplyDpms
<1>3. AnswersInOrder' /\ StageInv' /\ Answered' = Answered
  BY <1>1, <1>2, HostPartKept
<1>4. UNCHANGED <<rail, alive, committed, popped, callbackTime, safetyMargin, delivered,
                  applied, hostSurface, hostLatched, answers>>
  BY <1>2 DEF frameVars, hostVars
<1>5. /\ dpmsMode' \in OffModes \cup {"On"}
      /\ inhibitCount' \in Nat
      /\ repaint' \in BOOLEAN
      /\ DpmsInv'
  <2>1. CASE Heartbeat \/ SceneRepaint
    BY <1>1, <2>1 DEF Heartbeat, SceneRepaint, TypeOK, DpmsInv
  <2>2. ASSUME NEW mode \in OffModes \cup {"On"}, ApplyDpms(mode)
        PROVE  /\ dpmsMode' \in OffModes \cup {"On"}
               /\ inhibitCount' \in Nat
               /\ repaint' \in BOOLEAN
               /\ DpmsInv'
    <3>1. dpmsMode' = mode /\ mode # dpmsMode /\ repaint' = repaint
      BY <2>2 DEF ApplyDpms
    <3>2. inhibitCount' = IF mode = "On" THEN inhibitCount - 1 ELSE inhibitCount + 1
      BY <2>2 DEF ApplyDpms
    <3>3. inhibitCount \in Nat /\ repaint \in BOOLEAN
      BY <1>1 DEF TypeOK
    <3> QED
      BY <1>1, <3>1, <3>2, <3>3 DEF DpmsInv
  <2> QED
    BY <2>1, <2>2
<1>6. TypeOK'
  BY <1>1, <1>4, <1>5 DEF TypeOK, Frames
<1>7. QueueInv' /\ StampInv'
  BY <1>1, <1>3, <1>4 DEF QueueInv, StampInv, MarginOfOneFrame
<1> QED
  BY <1>3, <1>5, <1>6, <1>7 DEF IInv
\* Popping the front keeps the stamps of the frames behind it.
LEMMA PopFrontStamps ==
  ASSUME TypeOK, StampInv, PopFront, committed' = committed
  PROVE  /\ DOMAIN callbackTime' \subseteq Frames'
         /\ callbackTime' \in [DOMAIN callbackTime' -> Nat]
         /\ \A f \in DOMAIN callbackTime' : callbackTime'[f] = f
<1>1. popped' = popped + 1 /\ DOMAIN callbackTime' = DOMAIN callbackTime \ {popped + 1}
      /\ \A f \in DOMAIN callbackTime' : callbackTime'[f] = callbackTime[f]
  BY DEF PopFront
<1>2. callbackTime' = [f \in DOMAIN callbackTime' |-> callbackTime'[f]]
  BY DEF PopFront
<1>3. DOMAIN callbackTime \subseteq Frames
  BY DEF TypeOK
<1>4. DOMAIN callbackTime' \subseteq Frames'
  BY <1>1, <1>3, Counters DEF Frames
<1>5. \A f \in DOMAIN callbackTime' : callbackTime'[f] = f
  BY <1>1 DEF StampInv
<1>6. Frames' \subseteq Nat
  BY <1>1, Counters DEF Frames
<1> QED
  BY <1>2, <1>4, <1>5, <1>6

\* An answer is dispatched: it is about the front, which is popped.
LEMMA FeedbackStep == IInv /\ FeedbackEvent => IInv'
<1> SUFFICES ASSUME IInv, FeedbackEvent PROVE IInv'
  OBVIOUS
<1>1. TypeOK /\ AnswersInOrder /\ StageInv /\ QueueInv /\ StampInv /\ DpmsInv
  BY DEF IInv
<1>2. /\ UNCHANGED <<rail, alive, committed>> /\ UNCHANGED loopVars /\ UNCHANGED hostVars
      /\ delivered' = delivered + 1 /\ HasFeedback
  BY DEF FeedbackEvent, FramePresented, FrameDiscarded, FeedbackDropped
<1>3. AnswersInOrder' /\ StageInv' /\ Answered' = Answered
  BY <1>1, <1>2, HostPartKept
<1>4. UNCHANGED <<rail, alive, committed, dpmsMode, inhibitCount, repaint,
                  applied, hostSurface, hostLatched, answers>>
  BY <1>2 DEF loopVars, hostVars
<1>5. delivered' <= Answered'
  BY <1>1, <1>2, <1>3, Counters DEF HasFeedback, Answered
<1>6. CASE FramePresented \/ FrameDiscarded
  <2>1. Feedback.frame \in Frames /\ PopFront
    BY <1>6 DEF FramePresented, FrameDiscarded
  <2>2. popped + 1 <= committed
    BY <2>1, Counters, <1>1 DEF Frames
  <2>3. alive
    BY <1>1, <2>2, Counters DEF QueueInv, TypeOK
  <2>4. Feedback.frame = popped + 1
    BY <1>2, <2>3, FeedbackIsFront
  <2>5. popped' = popped + 1
    BY <2>1 DEF PopFront
  <2>6. /\ DOMAIN callbackTime' \subseteq Frames'
        /\ callbackTime' \in [DOMAIN callbackTime' -> Nat]
        /\ \A f \in DOMAIN callbackTime' : callbackTime'[f] = f
    BY <1>1, <1>2, <2>1, PopFrontStamps
  <2>7. safetyMargin' \in [timestamp : Nat, callback : Nat] /\ MarginOfOneFrame'
    <3>1. safetyMargin \in [timestamp : Nat, callback : Nat] /\ MarginOfOneFrame
      BY <1>1 DEF TypeOK, StampInv
    <3>2. CASE safetyMargin' = safetyMargin
      BY <3>1, <3>2 DEF MarginOfOneFrame
    <3>3. CASE popped + 1 \in DOMAIN callbackTime
               /\ safetyMargin' = [timestamp |-> Feedback.frame,
                                   callback |-> callbackTime[popped + 1]]
      <4>1. callbackTime[popped + 1] = popped + 1
        BY <1>1, <3>3 DEF StampInv
      <4>2. popped + 1 \in Nat
        BY <1>1, Counters
      <4> QED
        BY <2>4, <3>3, <4>1, <4>2 DEF MarginOfOneFrame
    <3> QED
      BY <1>6, <3>2, <3>3 DEF FramePresented, FrameDiscarded
  <2>8. TypeOK'
    <3>1. popped' \in Nat /\ delivered' \in Nat
      BY <1>1, <1>2, <2>5, Counters
    <3> QED
      BY <1>1, <1>4, <2>6, <2>7, <3>1 DEF TypeOK
  <2>9. QueueInv'
    BY <1>1, <1>2, <1>3, <1>4, <1>5, <2>2, <2>3, <2>5, Counters DEF QueueInv, MaxPendingFrames
  <2> QED
    BY <1>1, <1>3, <1>4, <2>6, <2>7, <2>8, <2>9 DEF IInv, StampInv, DpmsInv
<1>7. CASE FeedbackDropped
  <2>1. UNCHANGED <<popped, callbackTime, safetyMargin>> /\ Feedback.frame \notin Frames
    BY <1>7 DEF FeedbackDropped
  <2>2. ~alive
    BY <1>2, <2>1, FeedbackIsFront
  <2>3. TypeOK'
    <3>1. delivered' \in Nat
      BY <1>1, <1>2, Counters
    <3> QED
      BY <1>1, <1>4, <2>1, <3>1 DEF TypeOK, Frames
  <2>4. QueueInv'
    BY <1>1, <1>2, <1>3, <1>4, <1>5, <2>1, <2>2, Counters DEF QueueInv, MaxPendingFrames
  <2> QED
    BY <1>1, <1>3, <1>4, <2>1, <2>3, <2>4 DEF IInv, StampInv, MarginOfOneFrame, DpmsInv
<1> QED
  BY <1>6, <1>7 DEF FeedbackEvent

\* A done event stamps its own frame.
LEMMA DoneStep == IInv /\ (\E f \in Frames : FrameDone(f)) => IInv'
<1> SUFFICES ASSUME IInv, NEW f \in Frames, FrameDone(f) PROVE IInv'
  OBVIOUS
<1>1. TypeOK /\ AnswersInOrder /\ StageInv /\ QueueInv /\ StampInv /\ DpmsInv
  BY DEF IInv
<1>2. /\ UNCHANGED <<rail, alive, committed, popped, safetyMargin, delivered>>
      /\ UNCHANGED loopVars /\ UNCHANGED hostVars
  BY DEF FrameDone
<1>3. AnswersInOrder' /\ StageInv' /\ Answered' = Answered
  BY <1>1, <1>2, HostPartKept
<1>4. UNCHANGED <<rail, alive, committed, popped, safetyMargin, delivered, dpmsMode,
                  inhibitCount, repaint, applied, hostSurface, hostLatched, answers>>
  BY <1>2 DEF loopVars, hostVars
<1>5. f \in Nat
  BY <1>1, Counters DEF Frames
<1>6. /\ DOMAIN callbackTime' = DOMAIN callbackTime \cup {f}
      /\ callbackTime' \in [DOMAIN callbackTime' -> Nat]
      /\ \A x \in DOMAIN callbackTime' : callbackTime'[x] = x
  BY <1>1, <1>5 DEF FrameDone, Stamp, TypeOK, StampInv
<1>7. DOMAIN callbackTime' \subseteq Frames'
  BY <1>1, <1>4, <1>6 DEF TypeOK, Frames
<1>8. TypeOK'
  BY <1>1, <1>4, <1>6, <1>7 DEF TypeOK
<1>9. QueueInv' /\ StampInv' /\ DpmsInv'
  BY <1>1, <1>3, <1>4, <1>6 DEF QueueInv, StampInv, MarginOfOneFrame, DpmsInv
<1> QED
  BY <1>3, <1>8, <1>9 DEF IInv

\* The destructor empties m_frames; the answers still on their way are dropped.
LEMMA DestroyStep == IInv /\ Destroy => IInv'
<1> SUFFICES ASSUME IInv, Destroy PROVE IInv'
  OBVIOUS
<1>1. TypeOK /\ AnswersInOrder /\ StageInv /\ QueueInv /\ StampInv /\ DpmsInv
  BY DEF IInv
<1>2. AnswersInOrder' /\ StageInv' /\ Answered' = Answered
  BY <1>1, HostPartKept DEF Destroy
<1>3. /\ UNCHANGED <<rail, committed, safetyMargin, delivered, dpmsMode, inhibitCount,
                     repaint, applied, hostSurface, hostLatched, answers>>
      /\ alive' = FALSE /\ popped' = committed /\ callbackTime' = <<>>
  BY DEF Destroy, loopVars, hostVars
<1>4. DOMAIN callbackTime' = {} /\ callbackTime' \in [DOMAIN callbackTime' -> Nat]
  BY <1>3
<1>5. TypeOK'
  BY <1>1, <1>3, <1>4 DEF TypeOK
<1>6. QueueInv'
  BY <1>1, <1>2, <1>3, Counters DEF QueueInv
<1> QED
  BY <1>1, <1>2, <1>3, <1>4, <1>5, <1>6 DEF IInv, StampInv, MarginOfOneFrame, DpmsInv
\* A commit is applied.  With a latched frame waiting and a second one on the
\* surface there is no third to replace it before the latched one is answered.
LEMMA HostAppliesStep == IInv /\ HostApplies => IInv'
<1> SUFFICES ASSUME IInv, HostApplies PROVE IInv'
  OBVIOUS
<1>1. TypeOK /\ AnswersInOrder /\ StageInv /\ QueueInv /\ StampInv /\ DpmsInv
  BY DEF IInv
<1>2. /\ rail' = rail /\ hostLatched' = hostLatched
      /\ applied < committed /\ applied' = applied + 1 /\ hostSurface' = applied + 1
      /\ UNCHANGED frameVars /\ UNCHANGED loopVars
  BY DEF HostApplies
<1>3. UNCHANGED <<alive, committed, popped, delivered>>
  BY <1>2 DEF frameVars
<1>4. applied' \in Nat /\ hostSurface' \in Nat /\ hostLatched' \in Nat /\ hostSurface' # None
  BY <1>1, <1>2, Counters DEF None
<1>5. CASE hostSurface = None
  <2>1. answers' = answers
    BY <1>5 DEF HostApplies
  <2>2. Answered' = Answered /\ answers' \in Seq(FeedbackEvents)
    BY <1>1, <2>1 DEF Answered, TypeOK
  <2>3. AnswersInOrder'
    BY <1>1, <2>1, <2>2 DEF AnswersInOrder
  <2>4. StageInv' /\ QueueInv'
    BY <1>1, <1>2, <1>3, <1>4, <1>5, <2>2, Counters DEF StageInv, QueueInv, MaxPendingFrames
  <2> QED
    BY <1>1, <1>2, <1>4, <2>2, <2>3, <2>4, ClientPartKept DEF IInv
<1>6. CASE hostSurface # None
  <2>1. hostLatched = None
    BY <1>1, <1>2, <1>6, Counters DEF StageInv, QueueInv, MaxPendingFrames, None
  <2>2. hostSurface = Answered + 1
    BY <1>1, <1>6, <2>1, Counters DEF StageInv
  <2>3. answers' = Answer(Answered + 1, FALSE)
    BY <1>6, <2>2 DEF HostApplies
  <2>4. AnswersInOrder'
    BY <1>1, <2>3, AppendInOrder
  <2>5. answers' \in Seq(FeedbackEvents) /\ Answered' = Answered + 1
    BY <1>1, <2>2, <2>3, Counters, AppendAnswer
  <2>6. StageInv' /\ QueueInv'
    BY <1>1, <1>2, <1>3, <1>4, <1>6, <2>1, <2>5, Counters
    DEF StageInv, QueueInv, MaxPendingFrames
  <2> QED
    BY <1>1, <1>2, <1>4, <2>4, <2>5, <2>6, ClientPartKept DEF IInv
<1> QED
  BY <1>5, <1>6

\* Latching moves a frame from the surface to the output.
LEMMA HostLatchesStep == IInv /\ HostLatches => IInv'
<1> SUFFICES ASSUME IInv, HostLatches PROVE IInv'
  OBVIOUS
<1>1. TypeOK /\ AnswersInOrder /\ StageInv /\ QueueInv /\ StampInv /\ DpmsInv
  BY DEF IInv
<1>2. /\ UNCHANGED <<rail, applied, answers>> /\ UNCHANGED frameVars /\ UNCHANGED loopVars
      /\ hostSurface # None /\ hostLatched = None
      /\ hostLatched' = hostSurface /\ hostSurface' = None
  BY DEF HostLatches
<1>3. UNCHANGED <<alive, committed, popped, delivered>> /\ Answered' = Answered
  BY <1>2 DEF frameVars, Answered
<1>4. applied' \in Nat /\ hostSurface' \in Nat /\ hostLatched' \in Nat
      /\ answers' \in Seq(FeedbackEvents)
  BY <1>1, <1>2 DEF TypeOK, None
<1>5. AnswersInOrder' /\ QueueInv'
  BY <1>1, <1>2, <1>3 DEF AnswersInOrder, QueueInv
<1>6. StageInv'
  BY <1>1, <1>2, <1>3, Counters DEF StageInv
<1> QED
  BY <1>1, <1>2, <1>4, <1>5, <1>6, ClientPartKept DEF IInv

\* The latched frame is the next one to be answered.
LEMMA HostShowsStep == IInv /\ HostShows => IInv'
<1> SUFFICES ASSUME IInv, HostShows PROVE IInv'
  OBVIOUS
<1>1. TypeOK /\ AnswersInOrder /\ StageInv /\ QueueInv /\ StampInv /\ DpmsInv
  BY DEF IInv
<1>2. /\ UNCHANGED <<rail, applied, hostSurface>> /\ UNCHANGED frameVars /\ UNCHANGED loopVars
      /\ hostLatched # None /\ hostLatched' = None
  BY DEF HostShows
<1>3. UNCHANGED <<alive, committed, popped, delivered>>
  BY <1>2 DEF frameVars
<1>4. answers' = Answer(Answered + 1, TRUE)
  BY <1>1, <1>2 DEF HostShows, StageInv
<1>5. AnswersInOrder'
  BY <1>1, <1>4, AppendInOrder
<1>6. Answered + 1 \in Nat
  BY <1>1, Counters
<1>7. answers' \in Seq(FeedbackEvents) /\ Answered' = Answered + 1
  BY <1>1, <1>4, <1>6, AppendAnswer
<1>8. StageInv' /\ QueueInv'
  BY <1>1, <1>2, <1>3, <1>7, Counters DEF StageInv, QueueInv, MaxPendingFrames
<1>9. applied' \in Nat /\ hostSurface' \in Nat /\ hostLatched' \in Nat
  BY <1>1, <1>2, Counters DEF None
<1> QED
  BY <1>1, <1>2, <1>5, <1>7, <1>8, <1>9, ClientPartKept DEF IInv

\* Every step keeps the inductive invariant.
LEMMA StepIInv == IInv /\ [Next]_vars => IInv'
<1> SUFFICES ASSUME IInv, [Next]_vars PROVE IInv'
  OBVIOUS
<1>1. CASE UNCHANGED vars
  BY <1>1 DEF vars, IInv, TypeOK, AnswersInOrder, StageInv, QueueInv, StampInv,
              MarginOfOneFrame, DpmsInv, Answered, Frames
<1> QED
  BY <1>1, CommitStep, LoopStep, FeedbackStep, DoneStep, DestroyStep, HostAppliesStep,
     HostLatchesStep, HostShowsStep
  DEF Next, HostStep
-----------------------------------------------------------------------------
\* The inductive invariant holds in every reachable state.
LEMMA Invariance == Spec => []IInv
BY InitIInv, StepIInv, PTL DEF Spec

\* TypeOK for every bound and every set of DPMS modes: in particular no
\* sequence of DPMS requests lifts more inhibitions than it made.
THEOREM TypeCorrect == Spec => []TypeOK
<1>1. IInv => TypeOK
  BY DEF IInv
<1> QED
  BY Invariance, <1>1, PTL

\* With at most two frames in flight, popping the front of m_frames completes
\* the frame the event is about.
THEOREM FeedbackCompletesItsFrame == Spec => OwnFeedback
<1>1. IInv /\ [Next]_vars =>
        [delivered' # delivered => popped' = IF alive THEN Feedback.frame ELSE popped]_vars
  <2> SUFFICES ASSUME IInv, Next, delivered' # delivered
               PROVE  popped' = IF alive THEN Feedback.frame ELSE popped
    OBVIOUS
  <2>1. FeedbackEvent
    BY DEF Next, HostStep, CommitFrame, Heartbeat, SceneRepaint, ApplyDpms, FrameDone,
           Destroy, HostApplies, HostLatches, HostShows, frameVars
  <2>2. HasFeedback
    BY <2>1 DEF FeedbackEvent, FramePresented, FrameDiscarded, FeedbackDropped
  <2>3. CASE alive
    <3>1. Feedback.frame = popped + 1 /\ Feedback.frame \in Frames
      BY <2>2, <2>3, FeedbackIsFront
    <3> QED
      BY <2>1, <2>3, <3>1
         DEF FeedbackEvent, FramePresented, FrameDiscarded, FeedbackDropped, PopFront
  <2>4. CASE ~alive
    <3>1. Frames = {}
      BY <2>4, Counters DEF IInv, QueueInv, Frames
    <3> QED
      BY <2>1, <2>4, <3>1 DEF FeedbackEvent, FramePresented, FrameDiscarded, FeedbackDropped
  <2> QED
    BY <2>3, <2>4
<1> QED
  BY Invariance, <1>1, PTL DEF Spec, OwnFeedback

\* The safety margin is computed from two times of one and the same frame.
THEOREM MarginNeverMixed == Spec => []MarginOfOneFrame
<1>1. IInv => MarginOfOneFrame
  BY DEF IInv, StampInv
<1> QED
  BY Invariance, <1>1, PTL

\* No frame stays in m_frames without an answer to come.
THEOREM NoSlotIsLost == Spec => []NoSlotLost
<1>1. IInv => NoSlotLost
  <2> SUFFICES ASSUME IInv, NEW f \in Frames, ~(f > applied), f \notin {hostSurface, hostLatched}
               PROVE  \E i \in (delivered + 1) .. Len(answers) : answers[i].frame = f
    BY DEF NoSlotLost
  <2>1. TypeOK /\ AnswersInOrder /\ StageInv /\ QueueInv
    BY DEF IInv
  <2>2. f \in Nat /\ popped < f /\ f <= committed /\ f <= applied
    BY <2>1, Counters DEF Frames
  <2>3. delivered = popped
    BY <2>1, <2>2, Counters DEF QueueInv, TypeOK
  <2>4. f <= Answered
    BY <2>1, <2>2, Counters DEF StageInv, None
  <2>5. f \in (delivered + 1) .. Answered /\ f \in 1 .. Answered
    BY <2>1, <2>2, <2>3, <2>4, Counters
  <2> QED
    BY <2>1, <2>5 DEF AnswersInOrder, Answered
<1> QED
  BY Invariance, <1>1, PTL
-----------------------------------------------------------------------------
\* With a single mode besides On the counter is a flag.
OneInhibition ==
  \/ dpmsMode = "On" /\ inhibitCount = 0
  \/ dpmsMode # "On" /\ inhibitCount = 1

\* When "On" and one other mode are the only ones ever requested, the render
\* loop is inhibited exactly while the output is not On; with a second mode it
\* need not be, as the run OutputFramesDpms shows.
THEOREM InhibitionFollowsDpms ==
  ASSUME NEW m, OffModes = {m}
  PROVE  Spec => []InhibitedWhileOff
<1>1. Init => OneInhibition
  BY DEF Init, OneInhibition
<1>2. TypeOK /\ OneInhibition /\ [Next]_vars => OneInhibition'
  <2> SUFFICES ASSUME TypeOK, OneInhibition, [Next]_vars PROVE OneInhibition'
    OBVIOUS
  <2>1. ASSUME NEW mode \in OffModes \cup {"On"}, ApplyDpms(mode)
        PROVE  OneInhibition'
    <3>1. /\ mode # dpmsMode /\ dpmsMode' = mode
          /\ inhibitCount' = IF mode = "On" THEN inhibitCount - 1 ELSE inhibitCount + 1
      BY <2>1 DEF ApplyDpms
    <3>2. dpmsMode \in {m, "On"} /\ mode \in {m, "On"}
      BY <2>1 DEF TypeOK
    <3> QED
      BY <3>1, <3>2 DEF OneInhibition
  <2>2. CASE UNCHANGED <<dpmsMode, inhibitCount>>
    BY <2>2 DEF OneInhibition
  <2>3. \/ \E mode \in OffModes \cup {"On"} : ApplyDpms(mode)
        \/ UNCHANGED <<dpmsMode, inhibitCount>>
    BY DEF Next, HostStep, FeedbackEvent, CommitFrame, Heartbeat, SceneRepaint,
           FramePresented, FrameDiscarded, FeedbackDropped, FrameDone, Destroy,
           HostApplies, HostLatches, HostShows, loopVars, vars
  <2> QED
    BY <2>1, <2>2, <2>3
<1>3. TypeOK /\ OneInhibition => InhibitedWhileOff
  BY DEF OneInhibition, InhibitedWhileOff
<1> QED
  BY TypeCorrect, <1>1, <1>2, <1>3, PTL DEF Spec
=============================================================================
