------------------------- MODULE EventThreadProofs -------------------------
(***************************************************************************)
(* The inductive invariant of EventThread and what follows from it: the    *)
(* read protocol of libwayland is respected, no wake-up is lost, nothing   *)
(* that was read is stranded, and every step is a step of EventPipe.       *)
(***************************************************************************)
EXTENDS EventThread, TLAPS

MainHoldsRead == mainPc \in {"lockReading", "setReading"}

\* m_mutex is held by whoever's program counter says so.
MutexInv ==
  /\ mutex = "thread" <=> threadPc \in {"check", "wait"}
  /\ mutex = "main" <=> mainPc \in {"setReading", "quitSet"}

\* What the two flags say of both program counters.
FlagInv ==
  /\ m_quitting => mainPc \in {"join", "gone"}
  /\ quitByte => Stopping /\ mainPc # "quitPipe"
  /\ ~m_reading =>
       \/ threadPc \in {"emit", "lock", "check", "wait", "waiting"}
       \/ m_quitting /\ threadPc \in {"quitTest", "done"}
  /\ mainPc \in {"prepare", "lockReading", "setReading"} => ~m_reading
  /\ threadPc \in {"wait", "waiting"} => MustWait
  /\ mainPc = "initialize" => ~m_reading \/ threadPc = "clear"
  /\ threadPc = "cancelQuit" => quitByte
  /\ threadPc = "done" => m_quitting \/ quitByte

\* Who is registered with libwayland as a reader.
ReaderInv ==
  /\ threadPc = "clear" => readers = 0
  /\ ThreadHoldsRead => readers = 1
  /\ threadPc \in {"emit", "lock", "check", "wait", "waiting", "quitTest"} =>
       readers = IF m_reading \/ MainHoldsRead THEN 1 ELSE 0
  /\ threadPc = "done" => readers \in {0, 1}

\* Who is going to dispatch what was read, and to hand over the next read.
DutyInv ==
  /\ ~m_reading /\ threadPc # "emit" => MainWillWake
  /\ dispatched < read => MainWillWake \/ threadPc \in {"clear", "emit"}
  /\ mainPc \in {"initialize", "lockReading", "setReading"} => dispatched = read
  /\ mainPc = "checkReading" /\ m_reading /\ dispatched < read => threadPc = "clear"

EventInv ==
  /\ dispatched <= read /\ read <= sent
  /\ threadPc = "read" => read < sent

IInv == TypeOK /\ MutexInv /\ FlagInv /\ ReaderInv /\ DutyInv /\ EventInv

-----------------------------------------------------------------------------
\* The inductive invariant holds in the initial states: the thread has not
\* cleared m_reading yet, and nobody holds a read.
LEMMA InitIInv == Init => IInv
<1> SUFFICES ASSUME Init PROVE IInv
  OBVIOUS
<1> USE DEF Init
<1>1. TypeOK
  BY DEF TypeOK, ThreadPcs, MainPcs
<1>2. MutexInv
  BY DEF MutexInv
<1>3. FlagInv
  BY DEF FlagInv
<1>4. ReaderInv
  BY DEF ReaderInv, ThreadHoldsRead
<1>5. DutyInv /\ EventInv
  BY DEF DutyInv, EventInv
<1> QED
  BY <1>1, <1>2, <1>3, <1>4, <1>5 DEF IInv

\* Every step of either thread, of the host, of a signal and of the callers of
\* flush() and stop() keeps the inductive invariant.
LEMMA StepIInv == IInv /\ [Next]_vars => IInv'
<1> SUFFICES ASSUME IInv, [Next]_vars PROVE IInv'
  OBVIOUS
<1>0. \/ ClearReading \/ EmitAvailable \/ LockMutex \/ EnterWait \/ Wait
      \/ LeaveWaitLoop \/ TestQuitting \/ PollReady \/ ReadEvents \/ CancelRead
      \/ SpuriousWakeup \/ PollInterrupted \/ TakeAvailable \/ DispatchPending \/ CheckReading
      \/ PrepareReadFails \/ PrepareRead \/ MainLocks \/ SetReading \/ WriteQuitPipe
      \/ SetQuitting \/ Join \/ Roundtrip \/ InitializeDone \/ FlushCalled
      \/ StopCalled \/ HostSends \/ UNCHANGED vars
  BY DEF Next, ThreadStep, MainStep, Terminated
<1> USE DEF IInv, TypeOK, MutexInv, FlagInv, ReaderInv, DutyInv, EventInv,
            ThreadPcs, MainPcs, ThreadHoldsRead, MainHoldsRead, MainWillWake,
            MustWait, Stopping, threadVars, eventVars
<1>1. CASE ClearReading
  BY <1>1 DEF ClearReading, Thread
<1>2. CASE EmitAvailable
  BY <1>2 DEF EmitAvailable, Thread
<1>3. CASE LockMutex
  BY <1>3 DEF LockMutex, Thread
<1>4. CASE EnterWait
  BY <1>4 DEF EnterWait, Thread
<1>5. CASE Wait
  BY <1>5 DEF Wait, Thread
<1>6. CASE LeaveWaitLoop
  BY <1>6 DEF LeaveWaitLoop, Thread
<1>7. CASE TestQuitting
  BY <1>7 DEF TestQuitting, Thread
<1>8. CASE PollReady
  BY <1>8 DEF PollReady, Thread, SocketReadable
<1>9. CASE ReadEvents
  BY <1>9 DEF ReadEvents, Thread
<1>10. CASE CancelRead
  BY <1>10 DEF CancelRead, Thread
<1>11. CASE SpuriousWakeup
  BY <1>11 DEF SpuriousWakeup, Thread
<1>12. CASE PollInterrupted
  BY <1>12 DEF PollInterrupted, Thread, SocketReadable
<1>13. CASE TakeAvailable
  BY <1>13 DEF TakeAvailable, Main
<1>14. CASE DispatchPending
  BY <1>14 DEF DispatchPending, Main
<1>15. CASE CheckReading
  BY <1>15 DEF CheckReading, Main
<1>16. CASE PrepareReadFails
  BY <1>16 DEF PrepareReadFails, Main
<1>17. CASE PrepareRead
  BY <1>17 DEF PrepareRead, Main
<1>18. CASE MainLocks
  BY <1>18 DEF MainLocks, Main
<1>19. CASE SetReading
  BY <1>19 DEF SetReading, Main, WakeOne
<1>20. CASE WriteQuitPipe
  BY <1>20 DEF WriteQuitPipe, Main
<1>21. CASE SetQuitting
  BY <1>21 DEF SetQuitting, Main, WakeOne
<1>22. CASE Join
  BY <1>22 DEF Join, Main
<1>23. CASE Roundtrip
  BY <1>23 DEF Roundtrip
<1>24. CASE InitializeDone
  BY <1>24 DEF InitializeDone, Main
<1>25. CASE FlushCalled
  BY <1>25 DEF FlushCalled, Main
<1>26. CASE StopCalled
  BY <1>26 DEF StopCalled, Main
<1>27. CASE HostSends
  BY <1>27 DEF HostSends
<1>28. CASE UNCHANGED vars
  BY <1>28 DEF vars
<1> QED
  BY <1>0, <1>1, <1>2, <1>3, <1>4, <1>5, <1>6, <1>7, <1>8, <1>9,
     <1>10, <1>11, <1>12, <1>13, <1>14, <1>15, <1>16, <1>17, <1>18, <1>19,
     <1>20, <1>21, <1>22, <1>23, <1>24, <1>25, <1>26, <1>27, <1>28
-----------------------------------------------------------------------------
\* Both threads' states stay within their types and the inductive invariant
\* holds in every reachable state.
LEMMA Invariance == Spec => []IInv
BY InitIInv, StepIInv, PTL DEF Spec

\* TypeOK for every number of events and of spontaneous flushes.
THEOREM TypeCorrect == Spec => []TypeOK
<1>1. IInv => TypeOK
  BY DEF IInv
<1> QED
  BY Invariance, <1>1, PTL

\* Reads are finished or cancelled only when prepared, by one reader at a time.
THEOREM ReadProtocolRespected == Spec => []OneReader
<1>1. IInv => OneReader
  BY DEF IInv, TypeOK, ThreadPcs, ReaderInv, OneReader, ThreadHoldsRead, MainHoldsRead
<1> QED
  BY Invariance, <1>1, PTL

\* The started thread never holds a read while initialize() does roundtrips.
THEOREM RoundtripsUndisturbed == Spec => []RoundtripUndisturbed
<1>1. IInv => RoundtripUndisturbed
  BY DEF IInv, TypeOK, ThreadPcs, FlagInv, ReaderInv, RoundtripUndisturbed,
         ThreadHoldsRead, MainHoldsRead
<1> QED
  BY Invariance, <1>1, PTL

\* The event thread sleeps only while somebody is bound to wake it.
THEOREM WakeupsNotLost == Spec => []NoLostWakeup
<1>1. IInv => NoLostWakeup
  BY DEF IInv, FlagInv, DutyInv, NoLostWakeup, MustWait
<1> QED
  BY Invariance, <1>1, PTL

\* What was read is on its way to its listeners without further host events.
THEOREM EventsNotStranded == Spec => []NothingStranded
<1>1. IInv => NothingStranded
  BY DEF IInv, DutyInv, NothingStranded
<1> QED
  BY Invariance, <1>1, PTL

\* After m_quitting is set, no step enters poll() or the sleep.
THEOREM QuittingIsFinal == Spec => QuitIsFinal
<1>1. IInv /\ [Next]_vars
        => [m_quitting /\ threadPc' \in {"poll", "waiting"} => threadPc' = threadPc]_vars
  <2> SUFFICES ASSUME IInv, Next, m_quitting, threadPc' \in {"poll", "waiting"},
                      threadPc' # threadPc
               PROVE  FALSE
    OBVIOUS
  <2>1. ~(ClearReading \/ EmitAvailable \/ LockMutex \/ EnterWait \/ LeaveWaitLoop
          \/ PollReady \/ ReadEvents \/ CancelRead \/ SpuriousWakeup \/ PollInterrupted)
    BY DEF ClearReading, EmitAvailable, LockMutex, EnterWait, LeaveWaitLoop, PollReady,
           ReadEvents, CancelRead, SpuriousWakeup, PollInterrupted, Thread
  <2>2. ~Wait
    BY DEF IInv, FlagInv, MustWait, Wait, Thread
  <2>3. ~TestQuitting
    BY DEF TestQuitting, Thread
  <2>4. ~(SetReading \/ SetQuitting)
    BY DEF SetReading, SetQuitting, WakeOne
  <2>5. ~(MainStep \/ Roundtrip \/ InitializeDone \/ FlushCalled \/ StopCalled
          \/ HostSends \/ Terminated)
    BY <2>4 DEF MainStep, TakeAvailable, DispatchPending, CheckReading, PrepareReadFails,
           PrepareRead, MainLocks, WriteQuitPipe, Join, Roundtrip, InitializeDone,
           FlushCalled, StopCalled, HostSends, Terminated, threadVars, vars
  <2> QED
    BY <2>1, <2>2, <2>3, <2>5 DEF Next, ThreadStep
<1> QED
  BY Invariance, <1>1, PTL DEF Spec, QuitIsFinal
-----------------------------------------------------------------------------
(***************************************************************************)
(* Refinement: the safety part of EventPipe.                               *)
(***************************************************************************)

\* A step that leaves the events alone and does not begin stop() is a stutter.
LEMMA PipeStutter ==
  ASSUME UNCHANGED eventVars, Stopping' = Stopping
  PROVE  UNCHANGED Pipe!vars
BY DEF eventVars, Pipe!vars

\* Every step delivers read events in order, sends one, closes, or stutters.
LEMMA StepRefines == IInv /\ [Next]_vars => [Pipe!Next]_(Pipe!vars)
<1> SUFFICES ASSUME IInv, [Next]_vars PROVE [Pipe!Next]_(Pipe!vars)
  OBVIOUS
<1>1. CASE HostSends
  <2>1. sent' = sent + 1 /\ dispatched' = dispatched /\ Stopping' = Stopping
    BY <1>1 DEF HostSends, Stopping
  <2> QED
    BY <2>1 DEF Pipe!Next, Pipe!Send
<1>2. CASE StopCalled
  <2>1. UNCHANGED <<sent, dispatched>> /\ ~Stopping /\ Stopping'
    BY <1>2 DEF StopCalled, Main, Stopping, eventVars
  <2> QED
    BY <2>1 DEF Pipe!Next, Pipe!Close
<1>3. CASE DispatchPending \/ Roundtrip
  <2>1. ~Stopping /\ ~Stopping' /\ sent' = sent
    BY <1>3 DEF DispatchPending, Roundtrip, Main, Stopping
  <2>2. dispatched' \in dispatched .. sent
    BY <1>3 DEF DispatchPending, Roundtrip, Main, IInv, TypeOK, EventInv, DutyInv
  <2>3. dispatched' = dispatched \/ dispatched' \in (dispatched + 1) .. sent
    BY <2>2 DEF IInv, TypeOK
  <2> QED
    BY <2>1, <2>3 DEF Pipe!Next, Pipe!Deliver, Pipe!vars
<1>4. CASE \/ TakeAvailable \/ CheckReading \/ PrepareReadFails \/ PrepareRead
           \/ MainLocks \/ SetReading \/ WriteQuitPipe \/ SetQuitting \/ Join
           \/ InitializeDone \/ FlushCalled
  <2>1. UNCHANGED eventVars
    BY <1>4 DEF TakeAvailable, CheckReading, PrepareReadFails, PrepareRead, MainLocks,
                SetReading, WriteQuitPipe, SetQuitting, Join, InitializeDone, FlushCalled
  <2>2. Stopping' = Stopping
    BY <1>4 DEF TakeAvailable, CheckReading, PrepareReadFails, PrepareRead, MainLocks,
                SetReading, WriteQuitPipe, SetQuitting, Join, InitializeDone, FlushCalled,
                Main, Stopping
  <2> QED
    BY <2>1, <2>2, PipeStutter
<1>5. CASE ThreadStep \/ SpuriousWakeup \/ PollInterrupted \/ Terminated \/ UNCHANGED vars
  <2>1. UNCHANGED <<mainPc, sent, dispatched>>
    BY <1>5 DEF ThreadStep, ClearReading, EmitAvailable, LockMutex, EnterWait, Wait,
                LeaveWaitLoop, TestQuitting, PollReady, ReadEvents, CancelRead,
                SpuriousWakeup, PollInterrupted, Terminated, eventVars, vars
  <2> QED
    BY <2>1 DEF Pipe!vars, Stopping
<1> QED
  BY <1>1, <1>2, <1>3, <1>4, <1>5 DEF Next, MainStep

\* The two threads together implement the promise of EventPipe, liveness aside.
THEOREM ImplementsPipeSafely == Spec => Pipe!SafeSpec
<1>1. Init => Pipe!Init
  BY DEF Init, Pipe!Init, Stopping
<1> QED
  BY Invariance, <1>1, StepRefines, PTL DEF Spec, Pipe!SafeSpec
=============================================================================
