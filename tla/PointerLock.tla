----------------------------- MODULE PointerLock -----------------------------
(***************************************************************************)
(* The pointer grab of a WaylandOutput (wayland_output.cpp: lockPointer    *)
(* and the slots for locked and unlocked, inhibitShortcuts,                *)
(* updateWindowTitle, and applyChanges as far as the title shows it).      *)
(*                                                                         *)
(* A lock is a one-shot wl object with a number; 0 is the null pointer.    *)
(* Requests and events travel in two queues between the client and the     *)
(* host, each in order, so that an event can be on its way to an object    *)
(* the client has destroyed in the meantime: the connection drops it.      *)
(* The backend, outside this source, is the least caller that can keep the *)
(* assertion !m_pointerLock of lockPointer: it asks for a lock and for its *)
(* release by turns, and starts over when pointerLockChanged(false) tells  *)
(* it that the host has taken the lock away.                               *)
(***************************************************************************)
EXTENDS Naturals, Sequences

CONSTANTS
  HasInhibitManager,  \* the host offers keyboard_shortcuts_inhibit
  DpmsModes,          \* the DPMS modes an output is put into
  MaxLocks            \* how many locks are asked for (bounds the model)

ASSUME ManagerAssumption == HasInhibitManager \in BOOLEAN
ASSUME DpmsAssumption == "On" \in DpmsModes
ASSUME MaxLocksAssumption == MaxLocks \in Nat

VARIABLES
  m_pointerLock,         \* the lock object, or 0
  m_hasPointerLock,
  m_shortcutInhibition,  \* the inhibitor object exists
  enabled, dpmsMode,     \* of m_state
  title,                 \* what setTitle was last called with
  locksMade,             \* lock objects created so far
  toggled,               \* backend: it holds that a lock is asked for
  toHost,                \* requests on their way
  toClient,              \* events on their way
  hostLock,              \* host: the lock object that is waiting or active, or 0
  hostActive             \* host: that lock holds the pointer

outputVars  == <<enabled, dpmsMode>>
hostVars    == <<hostLock, hostActive>>
vars == <<m_pointerLock, m_hasPointerLock, m_shortcutInhibition, outputVars, title,
          locksMade, toggled, toHost, toClient, hostVars>>

Message(kind, lock) == [kind |-> kind, lock |-> lock]

\* The lines updateWindowTitle() tells apart.
TitleFor(on, mode, grabbed) ==
  CASE ~on -> "disabled"
    [] on /\ mode # "On" -> "dimmed"
    [] on /\ mode = "On" /\ grabbed -> "press to ungrab"
    [] OTHER -> "press to grab"

\* updateWindowTitle(), called with the state reached so far.
UpdateWindowTitle(on, mode, grabbed) == title' = TitleFor(on, mode, grabbed)

\* inhibitShortcuts(): without a manager nothing is inhibited.
InhibitShortcuts(inhibit) == m_shortcutInhibition' = (inhibit /\ HasInhibitManager)

Init ==
  /\ m_pointerLock = 0 /\ m_hasPointerLock = FALSE /\ m_shortcutInhibition = FALSE
  /\ enabled = TRUE /\ dpmsMode = "On"
  /\ title = TitleFor(TRUE, "On", FALSE)
  /\ locksMade = 0 /\ toggled = FALSE
  /\ toHost = <<>> /\ toClient = <<>>
  /\ hostLock = 0 /\ hostActive = FALSE
-----------------------------------------------------------------------------
\* lockPointer(true).
LockPointer ==
  /\ ~toggled
  /\ locksMade < MaxLocks
  /\ toggled' = TRUE
  /\ locksMade' = locksMade + 1
  /\ m_pointerLock' = locksMade + 1
  /\ toHost' = Append(toHost, Message("lock", locksMade + 1))
  /\ UNCHANGED <<m_hasPointerLock, m_shortcutInhibition, outputVars, title, toClient, hostVars>>

\* lockPointer(true), and the lock object is not valid: it is given up.
LockPointerFails ==
  /\ ~toggled
  /\ toggled' = TRUE
  /\ m_pointerLock' = 0
  /\ UNCHANGED <<m_hasPointerLock, m_shortcutInhibition, outputVars, title, locksMade, toHost,
                 toClient, hostVars>>

\* Mutant: a null lock object is destroyed too.
DestroyLockUntested ==
  /\ m_pointerLock' = 0
  /\ toHost' = Append(toHost, Message("destroy", m_pointerLock))

\* Destroying a lock object tells the host.
DestroyLock ==
  /\ m_pointerLock' = 0
  /\ toHost' = IF m_pointerLock = 0 THEN toHost
               ELSE Append(toHost, Message("destroy", m_pointerLock))

\* Mutant: whether the surface was locked is asked after the lock is gone.
UnlockPointerAskedLate ==
  /\ toggled
  /\ DestroyLock
  /\ m_hasPointerLock' = FALSE
  /\ toggled' = FALSE
  /\ UNCHANGED <<m_shortcutInhibition, title, outputVars, locksMade, toClient, hostVars>>

\* Mutant: the lock object is kept, and with it the grab.
UnlockPointerKeeps ==
  /\ toggled
  /\ m_hasPointerLock' = FALSE
  /\ toggled' = FALSE
  /\ InhibitShortcuts(FALSE)
  /\ UpdateWindowTitle(enabled, dpmsMode, FALSE)
  /\ UNCHANGED <<m_pointerLock, toHost, outputVars, locksMade, toClient, hostVars>>

\* lockPointer(false): inhibitor, title and signal only if the lock was held.
UnlockPointer ==
  /\ toggled
  /\ DestroyLock
  /\ m_hasPointerLock' = FALSE
  /\ toggled' = FALSE
  /\ IF m_pointerLock # 0 /\ m_hasPointerLock
     THEN InhibitShortcuts(FALSE) /\ UpdateWindowTitle(enabled, dpmsMode, FALSE)
     ELSE UNCHANGED <<m_shortcutInhibition, title>>
  /\ UNCHANGED <<outputVars, locksMade, toClient, hostVars>>

\* The next event, if it is for the lock object of this output.
Receive(kind) ==
  /\ toClient # <<>>
  /\ Head(toClient) = Message(kind, m_pointerLock)
  /\ toClient' = Tail(toClient)

\* The slot for LockedPointer::locked.
Locked ==
  /\ Receive("locked")
  /\ m_hasPointerLock' = TRUE
  /\ InhibitShortcuts(TRUE)
  /\ UpdateWindowTitle(enabled, dpmsMode, TRUE)
  /\ UNCHANGED <<m_pointerLock, outputVars, locksMade, toggled, toHost, hostVars>>

\* Mutant: the used-up one-shot lock object stays.
UnlockedKeeps ==
  /\ Receive("unlocked")
  /\ m_hasPointerLock' = FALSE
  /\ InhibitShortcuts(FALSE)
  /\ UpdateWindowTitle(enabled, dpmsMode, FALSE)
  /\ toggled' = FALSE
  /\ UNCHANGED <<m_pointerLock, toHost, outputVars, locksMade, hostVars>>

\* The slot for LockedPointer::unlocked, and the backend that hears of it.
Unlocked ==
  /\ Receive("unlocked")
  /\ DestroyLock
  /\ InhibitShortcuts(FALSE)
  /\ m_hasPointerLock' = FALSE
  /\ UpdateWindowTitle(enabled, dpmsMode, FALSE)
  /\ toggled' = FALSE
  /\ UNCHANGED <<outputVars, locksMade, hostVars>>

\* External: an event for a destroyed object is dropped.
DropEvent ==
  /\ toClient # <<>>
  /\ Head(toClient).lock # m_pointerLock
  /\ toClient' = Tail(toClient)
  /\ UNCHANGED <<m_pointerLock, m_hasPointerLock, m_shortcutInhibition, outputVars, title,
                 locksMade, toggled, toHost, hostVars>>

\* applyChanges(): enabledChanged and dpmsModeChanged both update the title.
StateChanges ==
  /\ enabled' \in BOOLEAN /\ dpmsMode' \in DpmsModes
  /\ outputVars' # outputVars
  /\ UpdateWindowTitle(enabled', dpmsMode', m_hasPointerLock)
  /\ UNCHANGED <<m_pointerLock, m_hasPointerLock, m_shortcutInhibition, locksMade, toggled,
                 toHost, toClient, hostVars>>
-----------------------------------------------------------------------------
(***************************************************************************)
(* The host (external): one lock object per surface, activated and         *)
(* deactivated at its will, and defunct once deactivated.                  *)
(***************************************************************************)

HostHandles ==
  /\ toHost # <<>>
  /\ toHost' = Tail(toHost)
  /\ LET request == Head(toHost) IN
     IF request.kind = "lock"
     THEN hostLock' = request.lock /\ hostActive' = FALSE
     ELSE IF request.lock = hostLock
     THEN hostLock' = 0 /\ hostActive' = FALSE
     ELSE UNCHANGED hostVars
  /\ UNCHANGED <<m_pointerLock, m_hasPointerLock, m_shortcutInhibition, outputVars, title,
                 locksMade, toggled, toClient>>

HostActivates ==
  /\ hostLock # 0 /\ ~hostActive
  /\ hostActive' = TRUE
  /\ toClient' = Append(toClient, Message("locked", hostLock))
  /\ UNCHANGED <<m_pointerLock, m_hasPointerLock, m_shortcutInhibition, outputVars, title,
                 locksMade, toggled, toHost, hostLock>>

HostDeactivates ==
  /\ hostActive
  /\ hostLock' = 0 /\ hostActive' = FALSE
  /\ toClient' = Append(toClient, Message("unlocked", hostLock))
  /\ UNCHANGED <<m_pointerLock, m_hasPointerLock, m_shortcutInhibition, outputVars, title,
                 locksMade, toggled, toHost>>

Next ==
  \/ LockPointer \/ LockPointerFails \/ UnlockPointer
  \/ Locked \/ Unlocked \/ DropEvent
  \/ StateChanges
  \/ HostHandles \/ HostActivates \/ HostDeactivates

Spec == Init /\ [][Next]_vars
-----------------------------------------------------------------------------
(***************************************************************************)
(* Properties.                                                             *)
(***************************************************************************)

Locks == 1 .. MaxLocks

\* Every variable holds a value its field can hold.
TypeOK ==
  /\ m_pointerLock \in {0} \cup Locks
  /\ m_hasPointerLock \in BOOLEAN /\ m_shortcutInhibition \in BOOLEAN
  /\ enabled \in BOOLEAN /\ dpmsMode \in DpmsModes
  /\ title \in {"disabled", "dimmed", "press to ungrab", "press to grab"}
  /\ locksMade \in 0 .. MaxLocks /\ toggled \in BOOLEAN
  /\ toHost \in Seq([kind : {"lock", "destroy"}, lock : Locks])
  /\ toClient \in Seq([kind : {"locked", "unlocked"}, lock : Locks])
  /\ hostLock \in {0} \cup Locks /\ hostActive \in BOOLEAN

\* Q_ASSERT(!m_pointerLock) in lockPointer() and Q_ASSERT(!m_shortcutInhibition)
\* in inhibitShortcuts(): whenever the backend may ask for a lock there is no
\* lock object, and whenever a locked event is about to be handled no
\* inhibitor, whatever crossed on the wire before.
AssertionsHold ==
  /\ ~toggled => m_pointerLock = 0
  /\ toClient # <<>> /\ Head(toClient) = Message("locked", m_pointerLock) => ~m_shortcutInhibition

\* The user's shortcuts are taken from the host exactly while the pointer is
\* grabbed, a grabbed pointer has a lock object through which to release it,
\* and the window title is the one for this state, which tells how unless the
\* output is disabled or dimmed: an inhibitor left behind would take the
\* keyboard for good.
GrabReflected ==
  /\ m_shortcutInhibition <=> (m_hasPointerLock /\ HasInhibitManager)
  /\ m_hasPointerLock => m_pointerLock # 0
  /\ title = TitleFor(enabled, dpmsMode, m_hasPointerLock)

\* With nothing on the wire the output and the host agree whether the pointer
\* is grabbed, and by which lock, and the host keeps no lock object that the
\* output has let go of.
AgreesWithHost ==
  toHost = <<>> /\ toClient = <<>> =>
    m_pointerLock = hostLock /\ m_hasPointerLock = hostActive
=============================================================================
