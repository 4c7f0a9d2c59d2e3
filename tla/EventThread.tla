---------------------------- MODULE EventThread ----------------------------
(***************************************************************************)
(* The two threads that share the Wayland connection to the host           *)
(* (packaging/kwin/src/wayland_display.cpp): the WaylandEventThread, which *)
(* polls the socket and reads it, and the main thread, which dispatches    *)
(* what was read, prepares the next read and hands it over through         *)
(* m_reading, a mutex and a condition variable.                            *)
(*                                                                         *)
(* Every access to a shared field is a step of its own; code between two   *)
(* such accesses runs with the first of them.  libwayland's read protocol  *)
(* is external: prepare_read registers a reader and fails when the queue   *)
(* is not empty, read_events and cancel_read unregister it, read_events    *)
(* blocks until every other reader has let go.                             *)
(***************************************************************************)
EXTENDS Naturals

CONSTANTS
  MaxEvents,   \* how many events the host sends (bounds the model)
  MaxPosted    \* no spontaneous flush() while this many signals are queued

ASSUME MaxEventsAssumption == MaxEvents \in Nat
ASSUME MaxPostedAssumption == MaxPosted \in Nat \ {0}

VARIABLES
  threadPc,    \* where the event thread is in run()
  mainPc,      \* where the main thread is: its loop, dispatch() or stop()
  m_reading,   \* the thread owns a prepared read
  m_quitting,  \* stop() has asked the thread to leave
  mutex,       \* holder of m_mutex
  pipeOk,      \* pipe2() succeeded in the constructor
  quitByte,    \* a byte is in the quit pipe
  posted,      \* available() signals queued for the main thread
  readers,     \* libwayland's count of registered readers
  sent,        \* events the host has written to the socket
  read,        \* of these, events moved to the client's queue
  dispatched   \* of these, events handed to their listeners

threadVars == <<threadPc, m_quitting, pipeOk, quitByte>>
eventVars  == <<sent, read, dispatched>>
vars == <<threadPc, mainPc, m_reading, m_quitting, mutex, pipeOk, quitByte,
          posted, readers, sent, read, dispatched>>

ThreadPcs == {"clear", "emit", "lock", "check", "wait", "waiting", "quitTest",
              "poll", "read", "cancel", "cancelQuit", "done"}
MainPcs == {"initialize", "loop", "dispatch", "checkReading", "prepare",
            "lockReading", "setReading",
            "quitPipe", "quitLock", "quitSet", "join", "gone"}

\* The main thread is in, or has returned from, stop().
Stopping == mainPc \in {"quitPipe", "quitLock", "quitSet", "join", "gone"}

\* Bytes the host has written that nobody has read: poll() reports POLLIN.
SocketReadable == read < sent

Init ==
  /\ threadPc = "clear"
  /\ mainPc = "initialize"
  /\ m_reading = TRUE
  /\ m_quitting = FALSE
  /\ mutex = "free"
  /\ pipeOk \in BOOLEAN
  /\ quitByte = FALSE
  /\ posted = 0
  /\ readers = 0
  /\ sent = 0 /\ read = 0 /\ dispatched = 0
-----------------------------------------------------------------------------
(***************************************************************************)
(* The event thread: WaylandEventThread::run().                            *)
(***************************************************************************)

Thread(from, to) == threadPc = from /\ threadPc' = to

\* m_reading.storeRelease(false), without the mutex.
ClearReading ==
  /\ Thread("clear", "emit")
  /\ m_reading' = FALSE
  /\ UNCHANGED <<mainPc, m_quitting, mutex, pipeOk, quitByte, posted, readers, eventVars>>

\* Mutant: a direct connection, which would run dispatch() in this thread.
EmitDirectly ==
  /\ Thread("emit", "lock")
  /\ m_reading' = TRUE
  /\ readers' = readers + 1
  /\ UNCHANGED <<mainPc, m_quitting, mutex, pipeOk, quitByte, posted, eventVars>>

\* Q_EMIT available(): a queued connection, so a call posted to the main loop.
EmitAvailable ==
  /\ Thread("emit", "lock")
  /\ posted' = posted + 1
  /\ UNCHANGED <<mainPc, m_reading, m_quitting, mutex, pipeOk, quitByte, readers, eventVars>>

\* m_mutex.lock(), also when wait() takes the mutex again before it returns.
LockMutex ==
  /\ Thread("lock", "check")
  /\ mutex = "free"
  /\ mutex' = "thread"
  /\ UNCHANGED <<mainPc, m_reading, m_quitting, pipeOk, quitByte, posted, readers, eventVars>>

MustWait == ~m_reading /\ ~m_quitting

\* The loop condition holds, read under the mutex: on to m_cond.wait().
EnterWait ==
  /\ MustWait
  /\ Thread("check", "wait")
  /\ UNCHANGED <<mainPc, m_reading, m_quitting, mutex, pipeOk, quitByte, posted, readers, eventVars>>

\* m_cond.wait() releases the mutex and sleeps in one step.
Wait ==
  /\ Thread("wait", "waiting")
  /\ mutex' = "free"
  /\ UNCHANGED <<mainPc, m_reading, m_quitting, pipeOk, quitByte, posted, readers, eventVars>>

\* The loop condition is false: unlock.
LeaveWaitLoop ==
  /\ ~MustWait
  /\ Thread("check", "quitTest")
  /\ mutex' = "free"
  /\ UNCHANGED <<mainPc, m_reading, m_quitting, pipeOk, quitByte, posted, readers, eventVars>>

\* A condition variable may wake without a wakeOne().
SpuriousWakeup ==
  /\ Thread("waiting", "lock")
  /\ UNCHANGED <<mainPc, m_reading, m_quitting, mutex, pipeOk, quitByte, posted, readers, eventVars>>

\* Mutant: poll without looking at m_quitting again.
PollUntested ==
  /\ Thread("quitTest", "poll")
  /\ UNCHANGED <<mainPc, m_reading, m_quitting, mutex, pipeOk, quitByte, posted, readers, eventVars>>

\* if (m_quitting) break, read after the mutex was released.
TestQuitting ==
  /\ Thread("quitTest", IF m_quitting THEN "done" ELSE "poll")
  /\ UNCHANGED <<mainPc, m_reading, m_quitting, mutex, pipeOk, quitByte, posted, readers, eventVars>>

\* poll() returns with a descriptor ready.  The quit pipe is looked at first.
PollReady ==
  /\ quitByte \/ SocketReadable
  /\ Thread("poll", IF quitByte THEN "cancelQuit" ELSE "read")
  /\ UNCHANGED <<mainPc, m_reading, m_quitting, mutex, pipeOk, quitByte, posted, readers, eventVars>>

\* A signal ends poll() with neither descriptor ready (EINTR).
PollInterrupted ==
  /\ ~quitByte /\ ~SocketReadable
  /\ Thread("poll", "cancel")
  /\ UNCHANGED <<mainPc, m_reading, m_quitting, mutex, pipeOk, quitByte, posted, readers, eventVars>>

\* Mutant: round an inner loop after a read, without the signal.
ReadWithoutSignal ==
  /\ Thread("read", "lock")
  /\ readers = 1
  /\ readers' = 0
  /\ m_reading' = FALSE
  /\ read' \in (read + 1) .. sent
  /\ UNCHANGED <<mainPc, m_quitting, mutex, pipeOk, quitByte, posted, sent, dispatched>>

\* wl_display_read_events(): blocks while another reader is registered, then
\* moves some or all of what is on the socket to the client's queue.
ReadEvents ==
  /\ Thread("read", "clear")
  /\ readers = 1
  /\ readers' = 0
  /\ read' \in (read + 1) .. sent
  /\ UNCHANGED <<mainPc, m_reading, m_quitting, mutex, pipeOk, quitByte, posted, sent, dispatched>>

\* wl_display_cancel_read(), then round the loop again or out of it.
CancelRead ==
  /\ \/ Thread("cancel", "clear")
     \/ Thread("cancelQuit", "done")
  /\ readers' = readers - 1
  /\ UNCHANGED <<mainPc, m_reading, m_quitting, mutex, pipeOk, quitByte, posted, eventVars>>

ThreadStep ==
  \/ ClearReading \/ EmitAvailable \/ LockMutex \/ EnterWait \/ Wait
  \/ LeaveWaitLoop \/ TestQuitting \/ PollReady \/ ReadEvents \/ CancelRead
-----------------------------------------------------------------------------
(***************************************************************************)
(* The main thread.                                                        *)
(***************************************************************************)

Main(from, to) == mainPc = from /\ mainPc' = to

\* One wl_display_roundtrip() of initialize(): the main thread registers as a
\* reader itself, reads and dispatches.  It blocks while the event thread
\* holds a read.
Roundtrip ==
  /\ mainPc = "initialize"
  /\ readers = 0
  /\ read' \in read .. sent
  /\ dispatched' = read'
  /\ UNCHANGED <<mainPc, m_reading, mutex, posted, readers, sent, threadVars>>

\* initialize() returned true and the event loop starts.
InitializeDone ==
  /\ Main("initialize", "loop")
  /\ UNCHANGED <<m_reading, mutex, posted, readers, threadVars, eventVars>>

\* The event loop delivers a queued available(): flush() calls dispatch().
TakeAvailable ==
  /\ Main("loop", "dispatch")
  /\ posted > 0
  /\ posted' = posted - 1
  /\ UNCHANGED <<m_reading, mutex, readers, threadVars, eventVars>>

\* flush() is a public slot: the backend may call it whenever it likes.
FlushCalled ==
  /\ Main("loop", "dispatch")
  /\ posted < MaxPosted
  /\ UNCHANGED <<m_reading, mutex, posted, readers, threadVars, eventVars>>

\* wl_display_dispatch_pending() empties the client's queue; the flush that
\* follows writes requests and does not touch this state.  (Where it fails the
\* code ends the process, and nothing is left to be said.)
DispatchPending ==
  /\ Main("dispatch", "checkReading")
  /\ dispatched' = read
  /\ UNCHANGED <<m_reading, mutex, posted, readers, sent, read, threadVars>>

\* Mutant: prepare a read without asking whether one is already handed over.
PrepareRegardless ==
  /\ Main("checkReading", "prepare")
  /\ UNCHANGED <<m_reading, mutex, posted, readers, threadVars, eventVars>>

\* if (m_reading) break.
CheckReading ==
  /\ Main("checkReading", IF m_reading THEN "loop" ELSE "prepare")
  /\ UNCHANGED <<m_reading, mutex, posted, readers, threadVars, eventVars>>

\* wl_display_prepare_read() fails while the queue is not empty.
PrepareReadFails ==
  /\ Main("prepare", "dispatch")
  /\ dispatched < read
  /\ UNCHANGED <<m_reading, mutex, posted, readers, threadVars, eventVars>>

\* Mutant: hand over a read that was never prepared.
HandOverUnprepared ==
  /\ Main("prepare", "lockReading")
  /\ dispatched = read
  /\ UNCHANGED <<m_reading, mutex, posted, readers, threadVars, eventVars>>

PrepareRead ==
  /\ Main("prepare", "lockReading")
  /\ dispatched = read
  /\ readers' = readers + 1
  /\ UNCHANGED <<m_reading, mutex, posted, threadVars, eventVars>>

\* Mutant: set the flags without the mutex.
MainSkipsMutex ==
  /\ \/ Main("lockReading", "setReading")
     \/ Main("quitLock", "quitSet")
  /\ UNCHANGED <<m_reading, mutex, posted, readers, threadVars, eventVars>>

MainLocks ==
  /\ \/ Main("lockReading", "setReading")
     \/ Main("quitLock", "quitSet")
  /\ mutex = "free"
  /\ mutex' = "main"
  /\ UNCHANGED <<m_reading, posted, readers, threadVars, eventVars>>

\* m_cond.wakeOne(): a sleeping thread goes on to take the mutex again; with
\* nobody asleep the call is lost.
WakeOne == threadPc' = IF threadPc = "waiting" THEN "lock" ELSE threadPc

\* Mutant: no wakeOne() after the store.
SetReadingSilently ==
  /\ Main("setReading", "loop")
  /\ m_reading' = TRUE
  /\ mutex' = "free"
  /\ UNCHANGED <<posted, readers, threadVars, eventVars>>

\* m_reading.storeRelease(true), wakeOne(), unlock: dispatch() returns.
SetReading ==
  /\ Main("setReading", "loop")
  /\ m_reading' = TRUE
  /\ WakeOne
  /\ mutex' = "free"
  /\ UNCHANGED <<m_quitting, pipeOk, quitByte, posted, readers, eventVars>>

\* The destructor calls stop(), after a failed initialize() or from the loop.
StopCalled ==
  /\ \/ Main("initialize", "quitPipe")
     \/ Main("loop", "quitPipe")
  /\ UNCHANGED <<m_reading, mutex, posted, readers, threadVars, eventVars>>

\* Mutant: stop() relies on the flag and the condition variable alone.
SkipQuitPipe ==
  /\ Main("quitPipe", "quitLock")
  /\ UNCHANGED <<m_reading, mutex, posted, readers, threadVars, eventVars>>

\* write() to the quit pipe, if there is one.
WriteQuitPipe ==
  /\ Main("quitPipe", "quitLock")
  /\ quitByte' = pipeOk
  /\ UNCHANGED <<threadPc, m_reading, m_quitting, mutex, pipeOk, posted, readers, eventVars>>

SetQuitting ==
  /\ Main("quitSet", "join")
  /\ m_quitting' = TRUE
  /\ WakeOne
  /\ mutex' = "free"
  /\ UNCHANGED <<m_reading, pipeOk, quitByte, posted, readers, eventVars>>

\* QThread::wait() returns when run() has.
Join ==
  /\ Main("join", "gone")
  /\ threadPc = "done"
  /\ UNCHANGED <<m_reading, mutex, posted, readers, threadVars, eventVars>>

\* What the main thread does without being asked again once it has begun.
MainStep ==
  \/ TakeAvailable \/ DispatchPending \/ CheckReading \/ PrepareReadFails
  \/ PrepareRead \/ MainLocks \/ SetReading
  \/ WriteQuitPipe \/ SetQuitting \/ Join
-----------------------------------------------------------------------------
\* External: the host writes an event to the socket.
HostSends ==
  /\ sent < MaxEvents
  /\ sent' = sent + 1
  /\ UNCHANGED <<mainPc, m_reading, mutex, posted, readers, read, dispatched, threadVars>>

\* Nothing is left to do once stop() has returned.
Terminated == mainPc = "gone" /\ UNCHANGED vars

Next ==
  \/ ThreadStep
  \/ SpuriousWakeup
  \/ PollInterrupted
  \/ MainStep
  \/ Roundtrip
  \/ InitializeDone
  \/ FlushCalled
  \/ StopCalled
  \/ HostSends
  \/ Terminated

Spec == Init /\ [][Next]_vars

(***************************************************************************)
(* Both threads are scheduled, initialize() returns (the host answers a    *)
(* roundtrip) and the event loop delivers queued signals.  Nothing obliges *)
(* the host to send, a signal to interrupt poll(), or anybody to call      *)
(* flush() or stop().  The main thread gets the mutex in the end although  *)
(* the event thread may, by spurious wake-ups, take it again and again.    *)
(***************************************************************************)
Fairness ==
  /\ WF_vars(ThreadStep)
  /\ WF_vars(MainStep)
  /\ SF_vars(MainLocks)
  /\ WF_vars(InitializeDone)

FairSpec == Spec /\ Fairness
-----------------------------------------------------------------------------
(***************************************************************************)
(* Properties.                                                             *)
(***************************************************************************)

\* Every variable holds a value its field can hold.
TypeOK ==
  /\ threadPc \in ThreadPcs
  /\ mainPc \in MainPcs
  /\ m_reading \in BOOLEAN
  /\ m_quitting \in BOOLEAN
  /\ mutex \in {"free", "thread", "main"}
  /\ pipeOk \in BOOLEAN
  /\ quitByte \in BOOLEAN
  /\ posted \in Nat
  /\ readers \in Nat
  /\ sent \in Nat /\ read \in Nat /\ dispatched \in Nat

\* The event thread believes that a read is prepared for it to finish.
ThreadHoldsRead == threadPc \in {"poll", "read", "cancel", "cancelQuit"}

\* libwayland's protocol: a read is finished or cancelled only by somebody who
\* prepared it, and no second reader is ever registered (read_events would
\* wait for it, and it for the event thread).
OneReader ==
  /\ readers <= 1
  /\ ThreadHoldsRead => readers = 1

\* The roundtrips of initialize() run while the thread is already started, yet
\* never find it holding a read, so they cannot block on it.
RoundtripUndisturbed == mainPc = "initialize" => readers = 0

\* The main thread has taken on the duty to hand over a read, or to quit.
MainWillWake ==
  \/ posted > 0
  \/ mainPc \in {"dispatch", "checkReading", "prepare", "lockReading", "setReading"}
  \/ Stopping

\* The two threads never wait for each other: a sleeping event thread has
\* missed neither flag, and the main thread still has the work pending that
\* ends with waking it.
NoLostWakeup ==
  threadPc = "waiting" => MustWait /\ MainWillWake

\* Everything the event thread has read will be dispatched without a further
\* event from the host: no event sits in the queue of an idle connection.
NothingStranded ==
  dispatched < read =>
    \/ MainWillWake
    \/ threadPc \in {"clear", "emit"}

\* Once m_quitting is set the event thread starts no new poll, although it
\* tests the flag after it released the mutex, and never goes back to sleep.
QuitIsFinal ==
  [][m_quitting /\ threadPc' \in {"poll", "waiting"} => threadPc' = threadPc]_vars

\* The events reach their listeners once each and in order, and none is left
\* over while the display stays open.
Pipe == INSTANCE EventPipe WITH open <- ~Stopping
ImplementsEventPipe == Pipe!Spec

\* stop() returns, even when the host is silent; the one exception is a
\* constructor whose pipe2() failed, where stop() may find the thread in a
\* poll() that only the host can end.
StopReturns ==
  Stopping ~> \/ mainPc = "gone"
              \/ [](~pipeOk /\ threadPc = "poll" /\ ~SocketReadable)
=============================================================================
