------------------------- MODULE OutputPointerProofs -------------------------
(***************************************************************************)
(* Proofs about the pointer of an output: its grab, its cursor, and both   *)
(* composed.  A step of the composition is a step of the grab and one of the*)
(* cursor, or leaves either alone, so that what is proved of each by itself*)
(* holds of both together.                                                 *)
(***************************************************************************)
EXTENDS OutputPointer, SequenceTheorems, TLAPS
-----------------------------------------------------------------------------
(***************************************************************************)
(* The grab.  Why it, the inhibitor, the title and the host stay together  *)
(* whatever crosses on the wire, for any number of locks.  The invariant says,*)
(* for the lock object the output has now, where it is on its way to the host*)
(* and back, and of every other one that its release is under way.         *)
(***************************************************************************)

\* What is in a queue, and in which order.
Has(queue, x) == \E i \in 1 .. Len(queue) : queue[i] = x
Once(queue, x) ==
  \A i, j \in 1 .. Len(queue) : queue[i] = x /\ queue[j] = x => i = j
Follows(queue, x, y) ==
  \A i \in 1 .. Len(queue) : queue[i] = x => \E j \in 1 .. Len(queue) : i < j /\ queue[j] = y
NoneAfter(queue, x, T) ==
  \A i, j \in 1 .. Len(queue) : i < j /\ queue[i] = x => queue[j] \notin T

Requests == [kind : {"lock", "destroy"}, lock : Locks]
Events   == [kind : {"locked", "unlocked"}, lock : Locks]
LockRequests == {Message("lock", l) : l \in Locks}

\* The first assertion, and that numbers yet to be given out are nowhere.
FreshInv ==
  /\ ~toggled => m_pointerLock = 0
  /\ m_pointerLock # 0 => m_pointerLock = locksMade
  /\ hostLock <= locksMade
  /\ \A l \in Locks : l > locksMade =>
       /\ ~Has(toHost, Message("lock", l)) /\ ~Has(toHost, Message("destroy", l))
       /\ ~Has(toClient, Message("locked", l)) /\ ~Has(toClient, Message("unlocked", l))

\* Other locks than the present one are released by a request under way.
OthersInv ==
  /\ \A l \in Locks : l # m_pointerLock =>
       Follows(toHost, Message("lock", l), Message("destroy", l))
  /\ hostLock # 0 /\ hostLock # m_pointerLock => Has(toHost, Message("destroy", hostLock))
  /\ hostActive => hostLock # 0

\* The present lock: asked for, then at the host, then taken away, and it is
\* the last that was asked for.
RequestedInv ==
  m_pointerLock # 0 =>
    /\ ~Has(toHost, Message("destroy", m_pointerLock))
    /\ NoneAfter(toHost, Message("lock", m_pointerLock), LockRequests)
    /\ hostLock = m_pointerLock => \A l \in Locks : ~Has(toHost, Message("lock", l))
    /\ \/ hostLock = m_pointerLock
       \/ Has(toHost, Message("lock", m_pointerLock))
       \/ Has(toClient, Message("unlocked", m_pointerLock))

\* It is activated once, after the host has it; the grab lies between the
\* handling of the two events.
GrabInv ==
  m_pointerLock # 0 =>
    /\ Has(toHost, Message("lock", m_pointerLock)) =>
         ~Has(toClient, Message("locked", m_pointerLock)) /\ ~m_hasPointerLock
    /\ hostLock = m_pointerLock /\ ~hostActive =>
         ~Has(toClient, Message("locked", m_pointerLock)) /\ ~m_hasPointerLock
    /\ hostLock = m_pointerLock /\ hostActive =>
         m_hasPointerLock \/ Has(toClient, Message("locked", m_pointerLock))
    /\ Once(toClient, Message("locked", m_pointerLock))
    /\ Has(toClient, Message("locked", m_pointerLock)) => ~m_hasPointerLock
    /\ m_hasPointerLock =>
         \/ hostLock = m_pointerLock /\ hostActive
         \/ Has(toClient, Message("unlocked", m_pointerLock))
    /\ ~(hostLock = m_pointerLock /\ hostActive) =>
         Follows(toClient, Message("locked", m_pointerLock), Message("unlocked", m_pointerLock))

IInv == TypeOK /\ GrabReflected /\ FreshInv /\ OthersInv /\ RequestedInv /\ GrabInv
-----------------------------------------------------------------------------
(***************************************************************************)
(* Queues.                                                                 *)
(***************************************************************************)

\* What Append does to a queue.
LEMMA AppendFacts ==
  ASSUME NEW S, NEW q \in Seq(S), NEW e \in S
  PROVE  /\ Append(q, e) \in Seq(S)
         /\ \A x : Has(Append(q, e), x) <=> Has(q, x) \/ x = e
         /\ \A x : Once(q, x) /\ (x = e => ~Has(q, x)) => Once(Append(q, e), x)
         /\ \A x, y : Follows(q, x, y) /\ x # e => Follows(Append(q, e), x, y)
         /\ \A x : x # e => Follows(Append(q, e), x, e)
         /\ \A x, T : NoneAfter(q, x, T) /\ ~Has(q, x) => NoneAfter(Append(q, e), x, T)
         /\ \A x, T : NoneAfter(q, x, T) /\ e \notin T => NoneAfter(Append(q, e), x, T)
<1> DEFINE a == Append(q, e)
<1>1. /\ a \in Seq(S) /\ Len(q) \in Nat /\ Len(a) = Len(q) + 1
      /\ \A i \in 1 .. Len(q) : a[i] = q[i]
      /\ a[Len(q) + 1] = e
  OBVIOUS
<1> HIDE DEF a
<1>2. \A x : Has(a, x) <=> Has(q, x) \/ x = e
  BY <1>1 DEF Has
<1>3. \A x : Once(q, x) /\ (x = e => ~Has(q, x)) => Once(a, x)
  BY <1>1 DEF Has, Once
<1>4. \A x, y : Follows(q, x, y) /\ x # e => Follows(a, x, y)
  BY <1>1 DEF Follows
<1>5. \A x : x # e => Follows(a, x, e)
  BY <1>1 DEF Follows
<1>6. \A x, T : NoneAfter(q, x, T) /\ ~Has(q, x) => NoneAfter(a, x, T)
  BY <1>1 DEF Has, NoneAfter
<1>7. \A x, T : NoneAfter(q, x, T) /\ e \notin T => NoneAfter(a, x, T)
  BY <1>1 DEF NoneAfter
<1> QED
  BY <1>1, <1>2, <1>3, <1>4, <1>5, <1>6, <1>7 DEF a

\* What taking the head off does to a queue.
LEMMA TailFacts ==
  ASSUME NEW S, NEW q \in Seq(S), q # <<>>
  PROVE  /\ Tail(q) \in Seq(S) /\ Head(q) \in S
         /\ \A x : Has(q, x) <=> Has(Tail(q), x) \/ x = Head(q)
         /\ \A x : Once(q, x) => Once(Tail(q), x)
         /\ Once(q, Head(q)) => ~Has(Tail(q), Head(q))
         /\ \A x, y : Follows(q, x, y) => Follows(Tail(q), x, y)
         /\ \A y : Follows(q, Head(q), y) => Has(Tail(q), y)
         /\ \A x, T : NoneAfter(q, x, T) => NoneAfter(Tail(q), x, T)
         /\ \A T : NoneAfter(q, Head(q), T) => \A y \in T : ~Has(Tail(q), y)
<1> DEFINE t == Tail(q)
           h == Head(q)
<1>1. /\ t \in Seq(S) /\ h \in S /\ Len(q) \in Nat \ {0} /\ Len(t) = Len(q) - 1
      /\ \A i \in 1 .. Len(t) : t[i] = q[i + 1]
      /\ h = q[1]
  OBVIOUS
<1>2. \A i \in 2 .. Len(q) : i - 1 \in 1 .. Len(t) /\ q[i] = t[i - 1]
  BY <1>1
<1> HIDE DEF t, h
<1>3. \A x : Has(q, x) <=> Has(t, x) \/ x = h
  <2> TAKE x
  <2>1. Has(q, x) => Has(t, x) \/ x = h
    <3> SUFFICES ASSUME NEW i \in 1 .. Len(q), q[i] = x, x # h
                 PROVE  Has(t, x)
      BY DEF Has
    <3>1. i \in 2 .. Len(q)
      BY <1>1
    <3> QED
      BY <3>1, <1>2 DEF Has
  <2>2. Has(t, x) => Has(q, x)
    <3> SUFFICES ASSUME NEW i \in 1 .. Len(t), t[i] = x
                 PROVE  Has(q, x)
      BY DEF Has
    <3>1. i + 1 \in 1 .. Len(q) /\ q[i + 1] = x
      BY <1>1
    <3> QED
      BY <3>1 DEF Has
  <2>3. 1 \in 1 .. Len(q) /\ q[1] = h
    BY <1>1
  <2>4. x = h => Has(q, x)
    BY <2>3 DEF Has
  <2> QED
    BY <2>1, <2>2, <2>4
<1>4. \A x : Once(q, x) => Once(t, x)
  BY <1>1 DEF Once
<1>5. Once(q, h) => ~Has(t, h)
  BY <1>1 DEF Once, Has
<1>6. \A x, y : Follows(q, x, y) => Follows(t, x, y)
  <2> SUFFICES ASSUME NEW x, NEW y, Follows(q, x, y), NEW i \in 1 .. Len(t), t[i] = x
               PROVE  \E j \in 1 .. Len(t) : i < j /\ t[j] = y
    BY DEF Follows
  <2>1. i + 1 \in 1 .. Len(q) /\ q[i + 1] = x
    BY <1>1
  <2>2. PICK j \in 1 .. Len(q) : i + 1 < j /\ q[j] = y
    BY <2>1 DEF Follows
  <2>3. j - 1 \in 1 .. Len(t) /\ i < j - 1 /\ t[j - 1] = y
    BY <1>1, <1>2, <2>2
  <2> QED
    BY <2>3
<1>7. \A y : Follows(q, h, y) => Has(t, y)
  BY <1>1, <1>2 DEF Follows, Has
<1>8. \A x, T : NoneAfter(q, x, T) => NoneAfter(t, x, T)
  BY <1>1 DEF NoneAfter
<1>9. \A T : NoneAfter(q, h, T) => \A y \in T : ~Has(t, y)
  BY <1>1 DEF NoneAfter, Has
<1> QED
  BY <1>1, <1>3, <1>4, <1>5, <1>6, <1>7, <1>8, <1>9 DEF t, h

\* What is not in a queue is in any order there.
LEMMA AbsentFacts ==
  ASSUME NEW q, NEW x, ~Has(q, x)
  PROVE  Once(q, x) /\ (\A y : Follows(q, x, y)) /\ (\A T : NoneAfter(q, x, T))
<1>1. Once(q, x)
  BY DEF Has, Once
<1>2. \A y : Follows(q, x, y)
  BY DEF Has, Follows
<1>3. \A T : NoneAfter(q, x, T)
  <2> SUFFICES ASSUME NEW T, NEW i \in 1 .. Len(q), NEW j \in 1 .. Len(q), q[i] = x
               PROVE  FALSE
    BY DEF NoneAfter
  <2> QED
    BY DEF Has
<1> QED
  BY <1>1, <1>2, <1>3

\* Nothing is in the empty queue.
LEMMA EmptyFacts == \A x : ~Has(<<>>, x)
BY DEF Has

\* Messages are told apart by kind and by lock.
LEMMA MessageFacts ==
  /\ \A k, l, j, n : Message(k, l) = Message(j, n) <=> k = j /\ l = n
  /\ \A k, l : Message(k, l).kind = k /\ Message(k, l).lock = l
  /\ \A k, l : Message(k, l) \in LockRequests <=> k = "lock" /\ l \in Locks
  /\ \A r \in Requests : r = Message(r.kind, r.lock) /\ r.kind \in {"lock", "destroy"}
  /\ \A e \in Events : e = Message(e.kind, e.lock) /\ e.kind \in {"locked", "unlocked"}
<1>1. \A k, l : Message(k, l).kind = k /\ Message(k, l).lock = l
  BY DEF Message
<1>2. \A k, l, j, n : Message(k, l) = Message(j, n) <=> k = j /\ l = n
  BY <1>1
<1>3. \A k, l : Message(k, l) \in LockRequests <=> k = "lock" /\ l \in Locks
  BY <1>2 DEF LockRequests
<1>4. \A r \in Requests : r = Message(r.kind, r.lock) /\ r.kind \in {"lock", "destroy"}
  BY DEF Requests, Message
<1>5. \A e \in Events : e = Message(e.kind, e.lock) /\ e.kind \in {"locked", "unlocked"}
  BY DEF Events, Message
<1> QED
  BY <1>1, <1>2, <1>3, <1>4, <1>5
-----------------------------------------------------------------------------
(***************************************************************************)
(* Types, and what the output shows of the grab.                           *)
(***************************************************************************)

\* Lock numbers are natural, and 0 is none of them.
LEMMA LockNumbers == MaxLocks \in Nat /\ Locks \subseteq Nat /\ 0 \notin Locks
BY MaxLocksAssumption DEF Locks

\* The numbers the state holds are natural.
LEMMA NumbersHeld ==
  ASSUME TypeOK
  PROVE  locksMade \in Nat /\ hostLock \in Nat /\ m_pointerLock \in Nat
<1>1. locksMade \in 0 .. MaxLocks /\ hostLock \in {0} \cup Locks /\ m_pointerLock \in {0} \cup Locks
  BY DEF TypeOK
<1>2. locksMade \in Nat
  BY <1>1
<1>3. hostLock \in Nat /\ m_pointerLock \in Nat
  BY <1>1, LockNumbers
<1> QED
  BY <1>2, <1>3

\* The queues, by name.
LEMMA Queues ==
  ASSUME TypeOK
  PROVE  toHost \in Seq(Requests) /\ toClient \in Seq(Events)
BY DEF TypeOK, Requests, Events

\* Releasing the lock, as far as types go.
LEMMA DestroyTypes ==
  ASSUME TypeOK, DestroyLock
  PROVE  m_pointerLock' = 0 /\ toHost' \in Seq(Requests)
<1>1. m_pointerLock # 0 => Message("destroy", m_pointerLock) \in Requests
  BY DEF TypeOK, Message, Requests
<1> QED
  BY <1>1, Queues, AppendFacts DEF DestroyLock

\* The event about to be handled is for a lock object.
LEMMA ReceiveFacts ==
  ASSUME TypeOK, NEW kind, Receive(kind)
  PROVE  /\ m_pointerLock \in Locks /\ m_pointerLock # 0
         /\ toClient # <<>> /\ Head(toClient) = Message(kind, m_pointerLock)
         /\ toClient' = Tail(toClient) /\ toClient' \in Seq(Events)
<1>1. /\ toClient # <<>> /\ Head(toClient) = Message(kind, m_pointerLock)
      /\ toClient' = Tail(toClient)
  BY DEF Receive
<1>2. Head(toClient) \in Events /\ Tail(toClient) \in Seq(Events)
  BY <1>1, Queues, TailFacts
<1>3. m_pointerLock \in Locks
  BY <1>1, <1>2 DEF Events, Message
<1> QED
  BY <1>1, <1>2, <1>3, LockNumbers

\* Every title is one of the four.
LEMMA Titles ==
  \A on, mode, grabbed :
    TitleFor(on, mode, grabbed) \in {"disabled", "dimmed", "press to ungrab", "press to grab"}
BY DEF TitleFor

\* Types are right at first.
LEMMA InitTypes == Init => TypeOK
<1> SUFFICES ASSUME Init PROVE TypeOK
  OBVIOUS
<1>1. title \in {"disabled", "dimmed", "press to ungrab", "press to grab"}
  BY Titles DEF Init
<1>2. toHost \in Seq(Requests) /\ toClient \in Seq(Events)
  BY DEF Init
<1>3. locksMade \in 0 .. MaxLocks
  BY MaxLocksAssumption DEF Init
<1> QED
  BY <1>1, <1>2, <1>3, DpmsAssumption DEF Init, TypeOK, Requests, Events

\* Every step keeps the types, if the host is active with some lock only.
LEMMA TypeStep ==
  ASSUME TypeOK, hostActive => hostLock # 0, [Next]_vars
  PROVE  TypeOK'
<1> USE LockNumbers
<1>1. CASE LockPointer
  <2>1. locksMade \in 0 .. MaxLocks /\ locksMade < MaxLocks
    BY <1>1 DEF LockPointer, TypeOK
  <2>2. locksMade + 1 \in Locks /\ locksMade + 1 \in 0 .. MaxLocks
    BY <2>1, MaxLocksAssumption DEF Locks
  <2>3. Message("lock", locksMade + 1) \in Requests
    BY <2>2 DEF Message, Requests
  <2>4. toHost' \in Seq(Requests)
    BY <1>1, <2>3, Queues, AppendFacts DEF LockPointer
  <2> QED
    BY <1>1, <2>2, <2>4 DEF LockPointer, TypeOK, outputVars, hostVars, Requests
<1>2. CASE LockPointerFails
  BY <1>2 DEF LockPointerFails, TypeOK, outputVars, hostVars
<1>3. CASE UnlockPointer
  <2>1. m_shortcutInhibition' \in BOOLEAN
    BY <1>3, ManagerAssumption DEF UnlockPointer, InhibitShortcuts, TypeOK
  <2>2. title' \in {"disabled", "dimmed", "press to ungrab", "press to grab"}
    BY <1>3, Titles DEF UnlockPointer, UpdateWindowTitle, TypeOK
  <2>3. toHost' \in Seq(Requests) /\ m_pointerLock' = 0
    BY <1>3, DestroyTypes DEF UnlockPointer
  <2> QED
    BY <1>3, <2>1, <2>2, <2>3 DEF UnlockPointer, TypeOK, outputVars, hostVars, Requests
<1>4. CASE Locked
  <2>1. m_shortcutInhibition' \in BOOLEAN
    BY <1>4, ManagerAssumption DEF Locked, InhibitShortcuts
  <2>2. title' \in {"disabled", "dimmed", "press to ungrab", "press to grab"}
    BY <1>4, Titles DEF Locked, UpdateWindowTitle
  <2>3. toClient' \in Seq(Events)
    BY <1>4, ReceiveFacts DEF Locked
  <2> QED
    BY <1>4, <2>1, <2>2, <2>3 DEF Locked, TypeOK, outputVars, hostVars, Events
<1>5. CASE Unlocked
  <2>1. m_shortcutInhibition' \in BOOLEAN
    BY <1>5, ManagerAssumption DEF Unlocked, InhibitShortcuts
  <2>2. title' \in {"disabled", "dimmed", "press to ungrab", "press to grab"}
    BY <1>5, Titles DEF Unlocked, UpdateWindowTitle
  <2>3. toClient' \in Seq(Events)
    BY <1>5, ReceiveFacts DEF Unlocked
  <2>4. toHost' \in Seq(Requests) /\ m_pointerLock' = 0
    BY <1>5, DestroyTypes DEF Unlocked
  <2> QED
    BY <1>5, <2>1, <2>2, <2>3, <2>4 DEF Unlocked, TypeOK, outputVars, hostVars, Events, Requests
<1>6. CASE DropEvent
  <2>1. toClient' \in Seq(Events)
    BY <1>6, Queues, TailFacts DEF DropEvent
  <2> QED
    BY <1>6, <2>1 DEF DropEvent, TypeOK, outputVars, hostVars, Events
<1>7. CASE StateChanges
  <2>1. title' \in {"disabled", "dimmed", "press to ungrab", "press to grab"}
    BY <1>7, Titles DEF StateChanges, UpdateWindowTitle
  <2> QED
    BY <1>7, <2>1 DEF StateChanges, TypeOK, hostVars
<1>8. CASE HostHandles
  <2>1. toHost' \in Seq(Requests) /\ Head(toHost) \in Requests
    BY <1>8, Queues, TailFacts DEF HostHandles
  <2>2. hostLock' \in {0} \cup Locks /\ hostActive' \in BOOLEAN
    BY <1>8, <2>1 DEF HostHandles, TypeOK, hostVars, Requests
  <2> QED
    BY <1>8, <2>1, <2>2 DEF HostHandles, TypeOK, outputVars, Requests
<1>9. CASE HostActivates
  <2>1. hostLock \in Locks
    BY <1>9 DEF HostActivates, TypeOK
  <2>2. Message("locked", hostLock) \in Events
    BY <2>1 DEF Message, Events
  <2>3. toClient' \in Seq(Events)
    BY <1>9, <2>2, Queues, AppendFacts DEF HostActivates
  <2> QED
    BY <1>9, <2>3 DEF HostActivates, TypeOK, outputVars, Events
<1>10. CASE HostDeactivates
  <2>1. hostLock \in Locks
    BY <1>10 DEF HostDeactivates, TypeOK
  <2>2. Message("unlocked", hostLock) \in Events
    BY <2>1 DEF Message, Events
  <2>3. toClient' \in Seq(Events)
    BY <1>10, <2>2, Queues, AppendFacts DEF HostDeactivates
  <2> QED
    BY <1>10, <2>3 DEF HostDeactivates, TypeOK, outputVars, Events
<1>11. CASE UNCHANGED vars
  BY <1>11 DEF vars, outputVars, hostVars, TypeOK
<1> QED
  BY <1>1, <1>2, <1>3, <1>4, <1>5, <1>6, <1>7, <1>8, <1>9, <1>10, <1>11 DEF Next

\* Every step keeps inhibitor, lock object and title with the grab.
LEMMA GrabReflectedStep ==
  ASSUME TypeOK, GrabReflected, ~toggled => m_pointerLock = 0, [Next]_vars
  PROVE  GrabReflected'
<1> USE DEF GrabReflected, outputVars
<1>1. CASE LockPointer
  <2>1. locksMade + 1 # 0
    BY NumbersHeld
  <2> QED
    BY <1>1, <2>1 DEF LockPointer
<1>2. CASE LockPointerFails
  BY <1>2 DEF LockPointerFails
<1>3. CASE UnlockPointer
  <2>1. ~m_hasPointerLock'
    BY <1>3 DEF UnlockPointer
  <2>2. CASE m_pointerLock # 0 /\ m_hasPointerLock
    BY <1>3, <2>1, <2>2 DEF UnlockPointer, InhibitShortcuts, UpdateWindowTitle
  <2>3. CASE ~(m_pointerLock # 0 /\ m_hasPointerLock)
    <3>1. m_hasPointerLock = FALSE
      BY <2>3 DEF TypeOK
    <3> QED
      BY <1>3, <2>3, <3>1 DEF UnlockPointer
  <2> QED
    BY <2>2, <2>3
<1>4. CASE Locked
  <2>1. m_pointerLock # 0
    BY <1>4, ReceiveFacts DEF Locked
  <2> QED
    BY <1>4, <2>1 DEF Locked, InhibitShortcuts, UpdateWindowTitle
<1>5. CASE Unlocked
  BY <1>5 DEF Unlocked, InhibitShortcuts, UpdateWindowTitle
<1>6. CASE DropEvent
  BY <1>6 DEF DropEvent
<1>7. CASE StateChanges
  BY <1>7 DEF StateChanges, UpdateWindowTitle
<1>8. CASE HostHandles
  BY <1>8 DEF HostHandles
<1>9. CASE HostActivates
  BY <1>9 DEF HostActivates
<1>10. CASE HostDeactivates
  BY <1>10 DEF HostDeactivates
<1>11. CASE UNCHANGED vars
  BY <1>11 DEF vars
<1> QED
  BY <1>1, <1>2, <1>3, <1>4, <1>5, <1>6, <1>7, <1>8, <1>9, <1>10, <1>11 DEF Next
-----------------------------------------------------------------------------
(***************************************************************************)
(* The wire.                                                               *)
(***************************************************************************)

WireInv == FreshInv /\ OthersInv /\ RequestedInv /\ GrabInv

\* Asking for a lock: its number is nowhere yet.
LEMMA WireLockPointer ==
  ASSUME IInv, LockPointer
  PROVE  WireInv'
<1> DEFINE n == locksMade + 1
<1>1. /\ m_pointerLock = 0 /\ m_hasPointerLock = FALSE
      /\ m_pointerLock' = n /\ locksMade' = n /\ toggled'
      /\ toHost' = Append(toHost, Message("lock", n)) /\ toClient' = toClient
      /\ m_hasPointerLock' = FALSE /\ hostLock' = hostLock /\ hostActive' = hostActive
  BY DEF IInv, FreshInv, GrabReflected, LockPointer, TypeOK, hostVars
<1>2. n \in Locks /\ locksMade \in Nat /\ n > locksMade
  <2>1. locksMade \in 0 .. MaxLocks /\ locksMade < MaxLocks
    BY DEF IInv, LockPointer, TypeOK
  <2> QED
    BY <2>1, MaxLocksAssumption DEF Locks
<1>3. hostLock \in Nat /\ hostLock <= locksMade /\ n # hostLock /\ n # 0
  BY <1>2, NumbersHeld DEF IInv, FreshInv
<1>4. Message("lock", n) \in Requests /\ toHost \in Seq(Requests)
  BY <1>2, Queues DEF IInv, Message, Requests
<1>5. /\ ~Has(toHost, Message("lock", n)) /\ ~Has(toHost, Message("destroy", n))
      /\ ~Has(toClient, Message("locked", n)) /\ ~Has(toClient, Message("unlocked", n))
  BY <1>2 DEF IInv, FreshInv
<1>6. /\ \A x : Has(toHost', x) <=> Has(toHost, x) \/ x = Message("lock", n)
      /\ \A x, y : Follows(toHost, x, y) /\ x # Message("lock", n) => Follows(toHost', x, y)
      /\ \A x, T : NoneAfter(toHost, x, T) /\ ~Has(toHost, x) => NoneAfter(toHost', x, T)
  BY <1>1, <1>4, AppendFacts
<1> HIDE DEF n
<1>7. FreshInv'
  BY <1>1, <1>2, <1>3, <1>6, MessageFacts, LockNumbers DEF IInv, FreshInv
<1>8. OthersInv'
  BY <1>1, <1>3, <1>6, MessageFacts, LockNumbers DEF IInv, OthersInv
<1>9. RequestedInv'
  BY <1>1, <1>3, <1>5, <1>6, AbsentFacts, MessageFacts DEF RequestedInv
<1>10. GrabInv'
  BY <1>1, <1>3, <1>5, AbsentFacts DEF GrabInv
<1> QED
  BY <1>7, <1>8, <1>9, <1>10 DEF WireInv

\* Releasing a lock: the request is under way, and no lock is the present one.
LEMMA WireDestroyLock ==
  ASSUME IInv, DestroyLock, locksMade' = locksMade,
         hostLock' = hostLock, hostActive' = hostActive,
         \A x : Has(toClient', x) => Has(toClient, x)
  PROVE  WireInv'
<1>1. m_pointerLock' = 0 /\ toHost \in Seq(Requests)
  BY Queues DEF IInv, DestroyLock
<1>2. CASE m_pointerLock = 0
  <2>1. toHost' = toHost
    BY <1>2 DEF DestroyLock
  <2> QED
    BY <1>1, <1>2, <2>1 DEF IInv, WireInv, FreshInv, OthersInv, RequestedInv, GrabInv
<1>3. CASE m_pointerLock # 0
  <2>1. m_pointerLock \in Locks /\ m_pointerLock = locksMade
    BY <1>3 DEF IInv, TypeOK, FreshInv
  <2>2. toHost' = Append(toHost, Message("destroy", m_pointerLock))
    BY <1>3 DEF DestroyLock
  <2>3. Message("destroy", m_pointerLock) \in Requests
    BY <2>1 DEF Message, Requests
  <2>4. /\ \A x : Has(toHost', x) <=> Has(toHost, x) \/ x = Message("destroy", m_pointerLock)
        /\ \A x, y : /\ Follows(toHost, x, y) /\ x # Message("destroy", m_pointerLock)
                     => Follows(toHost', x, y)
        /\ \A x : x # Message("destroy", m_pointerLock)
                     => Follows(toHost', x, Message("destroy", m_pointerLock))
    BY <1>1, <2>2, <2>3, AppendFacts
  <2>5. FreshInv'
    BY <1>1, <2>1, <2>4, MessageFacts, LockNumbers DEF IInv, FreshInv
  <2>6. OthersInv'
    BY <1>1, <2>1, <2>4, MessageFacts DEF IInv, OthersInv
  <2>7. RequestedInv' /\ GrabInv'
    BY <1>1 DEF RequestedInv, GrabInv
  <2> QED
    BY <2>5, <2>6, <2>7 DEF WireInv
<1> QED
  BY <1>2, <1>3

\* Handling the locked event: there was one, and if the host has taken the lock
\* away by now the unlocked event follows.
LEMMA WireLocked ==
  ASSUME IInv, Locked
  PROVE  WireInv'
<1> DEFINE m == m_pointerLock
<1>1. /\ m \in Locks /\ m # 0 /\ toClient # <<>>
      /\ Head(toClient) = Message("locked", m) /\ toClient' = Tail(toClient)
  BY ReceiveFacts DEF IInv, Locked
<1>2. /\ m_pointerLock' = m /\ m_hasPointerLock' = TRUE /\ toHost' = toHost
      /\ hostLock' = hostLock /\ hostActive' = hostActive
      /\ locksMade' = locksMade /\ toggled' = toggled
  BY DEF Locked, hostVars
<1>3. /\ \A x : Has(toClient, x) <=> Has(toClient', x) \/ x = Message("locked", m)
      /\ \A x : Once(toClient, x) => Once(toClient', x)
      /\ Once(toClient, Message("locked", m)) => ~Has(toClient', Message("locked", m))
      /\ \A x, y : Follows(toClient, x, y) => Follows(toClient', x, y)
      /\ \A y : Follows(toClient, Message("locked", m), y) => Has(toClient', y)
  BY <1>1, Queues, TailFacts DEF IInv
<1> HIDE DEF m
<1>4. Has(toClient, Message("locked", m))
  BY <1>3
<1>5. FreshInv'
  BY <1>2, <1>3 DEF IInv, FreshInv, m
<1>6. OthersInv'
  BY <1>2 DEF IInv, OthersInv, m
<1>7. RequestedInv'
  BY <1>1, <1>2, <1>3, MessageFacts DEF IInv, RequestedInv, m
<1>8. GrabInv'
  BY <1>1, <1>2, <1>3, <1>4 DEF IInv, GrabInv, m
<1> QED
  BY <1>5, <1>6, <1>7, <1>8 DEF WireInv

\* Dropping an event: it is for another lock than the present one.
LEMMA WireDropEvent ==
  ASSUME IInv, DropEvent
  PROVE  WireInv'
<1> DEFINE m == m_pointerLock
<1>1. /\ toClient # <<>> /\ toClient' = Tail(toClient) /\ Head(toClient).lock # m
      /\ m_pointerLock' = m /\ m_hasPointerLock' = m_hasPointerLock /\ toHost' = toHost
      /\ hostLock' = hostLock /\ hostActive' = hostActive
      /\ locksMade' = locksMade /\ toggled' = toggled
  BY DEF DropEvent, hostVars
<1>2. /\ \A x : Has(toClient, x) <=> Has(toClient', x) \/ x = Head(toClient)
      /\ \A x : Once(toClient, x) => Once(toClient', x)
      /\ \A x, y : Follows(toClient, x, y) => Follows(toClient', x, y)
  BY <1>1, Queues, TailFacts DEF IInv
<1>3. Message("locked", m) # Head(toClient) /\ Message("unlocked", m) # Head(toClient)
  BY <1>1, MessageFacts
<1> HIDE DEF m
<1>4. FreshInv'
  BY <1>1, <1>2 DEF IInv, FreshInv, m
<1>5. OthersInv'
  BY <1>1 DEF IInv, OthersInv, m
<1>6. RequestedInv'
  BY <1>1, <1>2, <1>3 DEF IInv, RequestedInv, m
<1>7. GrabInv'
  BY <1>1, <1>2, <1>3 DEF IInv, GrabInv, m
<1> QED
  BY <1>4, <1>5, <1>6, <1>7 DEF WireInv

\* The host takes a request: it comes to have the present lock, or one whose
\* release is next in the queue, or none.
LEMMA WireHostHandles ==
  ASSUME IInv, HostHandles
  PROVE  WireInv'
<1> DEFINE m == m_pointerLock
           r == Head(toHost)
<1>1. /\ toHost # <<>> /\ toHost' = Tail(toHost) /\ toClient' = toClient
      /\ m_pointerLock' = m /\ m_hasPointerLock' = m_hasPointerLock
      /\ locksMade' = locksMade /\ toggled' = toggled
  BY DEF HostHandles
<1>2. /\ r.kind = "lock" => hostLock' = r.lock /\ hostActive' = FALSE
      /\ r.kind # "lock" /\ r.lock = hostLock => hostLock' = 0 /\ hostActive' = FALSE
      /\ r.kind # "lock" /\ r.lock # hostLock => hostLock' = hostLock /\ hostActive' = hostActive
  BY DEF HostHandles, hostVars
<1>3. /\ r \in Requests
      /\ \A x : Has(toHost, x) <=> Has(toHost', x) \/ x = r
      /\ \A x, y : Follows(toHost, x, y) => Follows(toHost', x, y)
      /\ \A y : Follows(toHost, r, y) => Has(toHost', y)
      /\ \A x, T : NoneAfter(toHost, x, T) => NoneAfter(toHost', x, T)
      /\ \A T : NoneAfter(toHost, r, T) => \A y \in T : ~Has(toHost', y)
  BY <1>1, Queues, TailFacts DEF IInv
<1> HIDE DEF r
<1>4. r = Message(r.kind, r.lock) /\ r.kind \in {"lock", "destroy"} /\ r.lock \in Locks
  BY <1>3, MessageFacts DEF Requests
<1>5. r.lock \in Nat /\ r.lock # 0 /\ locksMade \in Nat /\ hostLock \in Nat
  BY <1>4, LockNumbers, NumbersHeld DEF IInv
<1>6. r.lock <= locksMade
  <2>1. Has(toHost, Message(r.kind, r.lock))
    BY <1>3, <1>4
  <2>2. ~(r.lock > locksMade)
    BY <2>1, <1>4 DEF IInv, FreshInv
  <2> QED
    BY <1>5, <2>2
<1>7. FreshInv'
  BY <1>1, <1>2, <1>3, <1>5, <1>6 DEF IInv, FreshInv, m
<1>8. CASE r.kind = "lock" /\ r.lock = m
  <2>1. m # 0 /\ hostLock' = m /\ hostActive' = FALSE
    BY <1>2, <1>5, <1>8
  <2>2. r = Message("lock", m) /\ Has(toHost, Message("lock", m))
    BY <1>3, <1>4, <1>8
  <2>3. \A l \in Locks : ~Has(toHost', Message("lock", l))
    <3>1. NoneAfter(toHost, r, LockRequests)
      BY <2>1, <2>2 DEF IInv, RequestedInv, m
    <3> QED
      BY <1>3, <3>1, MessageFacts
  <2>4. OthersInv'
    BY <1>1, <1>3, <2>1 DEF IInv, OthersInv, m
  <2>5. RequestedInv'
    BY <1>1, <1>3, <2>1, <2>3 DEF IInv, RequestedInv, m
  <2>6. hostLock # m
    BY <1>4, <1>8, <2>1, <2>2 DEF IInv, RequestedInv, m
  <2>7. GrabInv'
    BY <1>1, <1>3, <2>1, <2>2, <2>6 DEF IInv, GrabInv, m
  <2> QED
    BY <1>7, <2>4, <2>5, <2>7 DEF WireInv
<1>9. CASE r.kind = "lock" /\ r.lock # m
  <2>1. hostLock' = r.lock /\ hostActive' = FALSE
    BY <1>2, <1>9
  <2>2. r = Message("lock", r.lock) /\ Has(toHost, Message("lock", r.lock))
    BY <1>3, <1>4, <1>9
  <2>3. Has(toHost', Message("destroy", r.lock))
    <3>1. Follows(toHost, r, Message("destroy", r.lock))
      BY <1>4, <1>9, <2>2 DEF IInv, OthersInv, m
    <3> QED
      BY <1>3, <3>1
  <2>4. OthersInv'
    BY <1>1, <1>3, <2>1, <2>3 DEF IInv, OthersInv, m
  <2>5. m # 0 => hostLock # m
    BY <1>4, <2>2 DEF IInv, RequestedInv, m
  <2>6. r # Message("lock", m)
    BY <1>4, <1>9, MessageFacts
  <2>7. RequestedInv'
    BY <1>1, <1>3, <1>9, <2>1, <2>5, <2>6 DEF IInv, RequestedInv, m
  <2>8. GrabInv'
    BY <1>1, <1>3, <1>9, <2>1, <2>5 DEF IInv, GrabInv, m
  <2> QED
    BY <1>7, <2>4, <2>7, <2>8 DEF WireInv
<1>10. CASE r.kind = "destroy"
  <2>1. r = Message("destroy", r.lock) /\ Has(toHost, Message("destroy", r.lock))
    BY <1>3, <1>4, <1>10
  <2>2. m # 0 => r.lock # m
    BY <2>1 DEF IInv, RequestedInv, m
  <2>3. \A l : r # Message("lock", l)
    BY <2>1, MessageFacts
  <2>4. \A l : l # r.lock => r # Message("destroy", l)
    BY <2>1, MessageFacts
  <2>5. \/ hostLock = r.lock /\ hostLock' = 0 /\ hostActive' = FALSE
        \/ hostLock # r.lock /\ hostLock' = hostLock /\ hostActive' = hostActive
    BY <1>2, <1>10
  <2>6. OthersInv'
    BY <1>1, <1>3, <2>4, <2>5 DEF IInv, OthersInv, m
  <2>7. RequestedInv'
    BY <1>1, <1>3, <2>2, <2>3, <2>5 DEF IInv, RequestedInv, m
  <2>8. GrabInv'
    BY <1>1, <1>3, <2>2, <2>5 DEF IInv, GrabInv, m
  <2> QED
    BY <1>7, <2>6, <2>7, <2>8 DEF WireInv
<1> QED
  BY <1>4, <1>8, <1>9, <1>10

\* The host activates its lock, which is no longer asked for and was not active.
LEMMA WireHostActivates ==
  ASSUME IInv, HostActivates
  PROVE  WireInv'
<1> DEFINE m == m_pointerLock
           e == Message("locked", hostLock)
<1>1. /\ hostLock # 0 /\ ~hostActive /\ hostActive' = TRUE /\ hostLock' = hostLock
      /\ toClient' = Append(toClient, e) /\ toHost' = toHost
      /\ m_pointerLock' = m /\ m_hasPointerLock' = m_hasPointerLock
      /\ locksMade' = locksMade /\ toggled' = toggled
  BY DEF HostActivates
<1>2. hostLock \in Locks /\ e \in Events
  BY <1>1 DEF IInv, TypeOK, Message, Events
<1>3. /\ \A x : Has(toClient', x) <=> Has(toClient, x) \/ x = e
      /\ \A x : Once(toClient, x) /\ (x = e => ~Has(toClient, x)) => Once(toClient', x)
      /\ \A x, y : Follows(toClient, x, y) /\ x # e => Follows(toClient', x, y)
  BY <1>1, <1>2, Queues, AppendFacts DEF IInv
<1>4. /\ \A l : e = Message("locked", l) <=> hostLock = l
      /\ \A l : e # Message("unlocked", l)
  BY MessageFacts
<1> HIDE DEF m, e
<1>5. locksMade \in Nat /\ hostLock \in Nat /\ hostLock <= locksMade
  BY NumbersHeld DEF IInv, FreshInv
<1>6. FreshInv'
  BY <1>1, <1>3, <1>4, <1>5, LockNumbers DEF IInv, FreshInv, m
<1>7. OthersInv'
  BY <1>1 DEF IInv, OthersInv, m
<1>8. RequestedInv'
  BY <1>1, <1>3 DEF IInv, RequestedInv, m
<1>9. CASE m # 0 /\ hostLock = m
  <2>1. ~Has(toHost, Message("lock", m))
    BY <1>2, <1>9 DEF IInv, RequestedInv, m
  <2>2. ~Has(toClient, Message("locked", m)) /\ ~m_hasPointerLock
    BY <1>1, <1>9 DEF IInv, GrabInv, m
  <2>3. Once(toClient', Message("locked", m)) /\ Has(toClient', Message("locked", m))
    BY <1>3, <1>4, <1>9, <2>2 DEF IInv, GrabInv, m
  <2>4. GrabInv'
    BY <1>1, <1>9, <2>1, <2>2, <2>3 DEF GrabInv, m
  <2> QED
    BY <1>6, <1>7, <1>8, <2>4 DEF WireInv
<1>10. CASE ~(m # 0 /\ hostLock = m)
  <2>1. m # 0 => e # Message("locked", m)
    BY <1>4, <1>10
  <2>2. GrabInv'
    BY <1>1, <1>3, <1>4, <1>10, <2>1 DEF IInv, GrabInv, m
  <2> QED
    BY <1>6, <1>7, <1>8, <2>2 DEF WireInv
<1> QED
  BY <1>9, <1>10

\* The host takes its lock away and says so.
LEMMA WireHostDeactivates ==
  ASSUME IInv, HostDeactivates
  PROVE  WireInv'
<1> DEFINE m == m_pointerLock
           e == Message("unlocked", hostLock)
<1>1. /\ hostActive /\ hostActive' = FALSE /\ hostLock' = 0
      /\ toClient' = Append(toClient, e) /\ toHost' = toHost
      /\ m_pointerLock' = m /\ m_hasPointerLock' = m_hasPointerLock
      /\ locksMade' = locksMade /\ toggled' = toggled
  BY DEF HostDeactivates
<1>2. hostLock \in Locks /\ e \in Events
  BY <1>1 DEF IInv, TypeOK, OthersInv, Message, Events
<1>3. /\ \A x : Has(toClient', x) <=> Has(toClient, x) \/ x = e
      /\ \A x : Once(toClient, x) /\ (x = e => ~Has(toClient, x)) => Once(toClient', x)
      /\ \A x, y : Follows(toClient, x, y) /\ x # e => Follows(toClient', x, y)
      /\ \A x : x # e => Follows(toClient', x, e)
  BY <1>1, <1>2, Queues, AppendFacts DEF IInv
<1>4. /\ \A l : e = Message("unlocked", l) <=> hostLock = l
      /\ \A l : e # Message("locked", l)
  BY MessageFacts
<1> HIDE DEF m, e
<1>5. locksMade \in Nat /\ hostLock \in Nat /\ hostLock <= locksMade
  BY NumbersHeld DEF IInv, FreshInv
<1>6. FreshInv'
  BY <1>1, <1>3, <1>4, <1>5, LockNumbers DEF IInv, FreshInv, m
<1>7. OthersInv'
  BY <1>1 DEF IInv, OthersInv, m
<1>8. RequestedInv'
  BY <1>1, <1>3, <1>4 DEF IInv, RequestedInv, m
<1>9. m # 0 => Follows(toClient', Message("locked", m), Message("unlocked", m))
  <2>1. CASE hostLock = m
    <3>1. e = Message("unlocked", m)
      BY <1>4, <2>1
    <3> QED
      BY <1>3, <1>4, <3>1
  <2>2. CASE hostLock # m
    BY <1>3, <1>4, <2>2 DEF IInv, GrabInv, m
  <2> QED
    BY <2>1, <2>2
<1>10. GrabInv'
  BY <1>1, <1>3, <1>4, <1>9 DEF IInv, GrabInv, m
<1> QED
  BY <1>6, <1>7, <1>8, <1>10 DEF WireInv

\* Steps that leave the locks and the queues alone.
LEMMA WireUnchanged ==
  ASSUME IInv,
         UNCHANGED <<m_pointerLock, m_hasPointerLock, locksMade, toHost, toClient, hostVars>>,
         ~toggled' => m_pointerLock = 0
  PROVE  WireInv'
BY DEF IInv, WireInv, FreshInv, OthersInv, RequestedInv, GrabInv, hostVars
-----------------------------------------------------------------------------
(***************************************************************************)
(* The theorems.                                                           *)
(***************************************************************************)

\* The invariant holds at first.
LEMMA InvInit == Init => IInv
<1> SUFFICES ASSUME Init PROVE IInv
  OBVIOUS
<1>1. TypeOK
  BY InitTypes
<1>2. GrabReflected
  BY DEF Init, GrabReflected
<1>3. \A x : ~Has(toHost, x) /\ ~Has(toClient, x)
  BY EmptyFacts DEF Init
<1>4. FreshInv
  BY <1>3 DEF Init, FreshInv
<1>5. OthersInv
  BY <1>3, AbsentFacts DEF Init, OthersInv
<1>6. RequestedInv /\ GrabInv
  BY DEF Init, RequestedInv, GrabInv
<1> QED
  BY <1>1, <1>2, <1>4, <1>5, <1>6 DEF IInv

\* Every step keeps the invariant.
LEMMA InvStep ==
  ASSUME IInv, [Next]_vars
  PROVE  IInv'
<1>1. TypeOK'
  BY TypeStep DEF IInv, OthersInv
<1>2. GrabReflected'
  BY GrabReflectedStep DEF IInv, FreshInv
<1>3. WireInv'
  <2>1. CASE LockPointer
    BY <2>1, WireLockPointer
  <2>2. CASE LockPointerFails
    BY <2>2, WireUnchanged DEF IInv, FreshInv, LockPointerFails
  <2>3. CASE UnlockPointer
    BY <2>3, WireDestroyLock DEF UnlockPointer, hostVars
  <2>4. CASE Locked
    BY <2>4, WireLocked
  <2>5. CASE Unlocked
    <3>1. \A x : Has(toClient', x) => Has(toClient, x)
      <4>1. toClient # <<>> /\ toClient' = Tail(toClient)
        BY <2>5, ReceiveFacts DEF IInv, Unlocked
      <4> QED
        BY <4>1, Queues, TailFacts DEF IInv
    <3> QED
      BY <2>5, <3>1, WireDestroyLock DEF Unlocked, hostVars
  <2>6. CASE DropEvent
    BY <2>6, WireDropEvent
  <2>7. CASE StateChanges
    BY <2>7, WireUnchanged DEF IInv, FreshInv, StateChanges
  <2>8. CASE HostHandles
    BY <2>8, WireHostHandles
  <2>9. CASE HostActivates
    BY <2>9, WireHostActivates
  <2>10. CASE HostDeactivates
    BY <2>10, WireHostDeactivates
  <2>11. CASE UNCHANGED vars
    BY <2>11, WireUnchanged DEF IInv, FreshInv, vars
  <2> QED
    BY <2>1, <2>2, <2>3, <2>4, <2>5, <2>6, <2>7, <2>8, <2>9, <2>10, <2>11 DEF Next
<1> QED
  BY <1>1, <1>2, <1>3 DEF IInv, WireInv

\* The invariant holds of every behaviour.
LEMMA Invariance == Spec => []IInv
<1>1. IInv /\ [Next]_vars => IInv'
  BY InvStep
<1> QED
  BY InvInit, <1>1, PTL DEF Spec

\* lockPointer()'s fields, the queues and the host keep their types.
THEOREM TypeCorrect == Spec => []TypeOK
<1>1. IInv => TypeOK
  BY DEF IInv
<1> QED
  BY Invariance, <1>1, PTL

\* For any number of locks: shortcuts are inhibited exactly during a grab, a
\* grab has a lock object, and the title tells the state.
THEOREM GrabIsReflected == Spec => []GrabReflected
<1>1. IInv => GrabReflected
  BY DEF IInv
<1> QED
  BY Invariance, <1>1, PTL

\* Neither Q_ASSERT can fail, whatever crosses on the wire.
THEOREM AssertionsNeverFail == Spec => []AssertionsHold
<1>1. IInv => AssertionsHold
  <2> SUFFICES ASSUME IInv PROVE AssertionsHold
    OBVIOUS
  <2>1. ~toggled => m_pointerLock = 0
    BY DEF IInv, FreshInv
  <2>2. ASSUME toClient # <<>>, Head(toClient) = Message("locked", m_pointerLock)
        PROVE  ~m_shortcutInhibition
    <3>1. Head(toClient) \in Events /\ Has(toClient, Head(toClient))
      BY <2>2, Queues, TailFacts DEF IInv
    <3>2. m_pointerLock \in Locks
      BY <2>2, <3>1 DEF Events, Message
    <3>3. ~m_hasPointerLock
      BY <2>2, <3>1, <3>2, LockNumbers DEF IInv, GrabInv
    <3> QED
      BY <3>3 DEF IInv, GrabReflected
  <2> QED
    BY <2>1, <2>2 DEF AssertionsHold
<1> QED
  BY Invariance, <1>1, PTL

\* With nothing on the wire the output and the host agree about the lock.
THEOREM HostAgrees == Spec => []AgreesWithHost
<1>1. IInv => AgreesWithHost
  <2> SUFFICES ASSUME IInv, toHost = <<>>, toClient = <<>>
               PROVE  m_pointerLock = hostLock /\ m_hasPointerLock = hostActive
    BY DEF AgreesWithHost
  <2>1. \A x : ~Has(toHost, x) /\ ~Has(toClient, x)
    BY EmptyFacts
  <2>2. m_pointerLock = hostLock
    BY <2>1 DEF IInv, OthersInv, RequestedInv
  <2>3. m_hasPointerLock \in BOOLEAN /\ hostActive \in BOOLEAN
    BY DEF IInv, TypeOK
  <2>4. CASE m_pointerLock = 0
    BY <2>2, <2>3, <2>4 DEF IInv, GrabReflected, OthersInv
  <2>5. CASE m_pointerLock # 0
    BY <2>1, <2>2, <2>3, <2>5 DEF IInv, GrabInv
  <2> QED
    BY <2>2, <2>4, <2>5
<1> QED
  BY Invariance, <1>1, PTL
-----------------------------------------------------------------------------
(***************************************************************************)
(* The cursor.  Why the host comes to show the cursor that was painted last,*)
(* for any looks and however often the pointer enters: the last commit under*)
(* way, or else the host, has the image; the last set_cursor with the serial*)
(* of the latest enter, or else the host, has the hotspot; and enters and  *)
(* leaves, which alternate, arrive in order.                               *)
(***************************************************************************)

\* The last element of a queue that is in T is x; none is in T.
LastIn(queue, T, x) ==
  \E i \in 1 .. Len(queue) :
    queue[i] = x /\ \A j \in 1 .. Len(queue) : j > i => queue[j] \notin T
NoneIn(queue, T) == \A i \in 1 .. Len(queue) : queue[i] \notin T

AllLooks == Looks \cup {NoLook}
Commits  == {CommitRequest(look, enable) : look \in AllLooks, enable \in BOOLEAN}
Settings == {CursorRequest(serial, look) : serial \in Nat, look \in AllLooks}
SettingsFor(serial) == {CursorRequest(serial, look) : look \in AllLooks}

ShapeInv ==
  /\ m_pointer \in BOOLEAN /\ m_enabled \in BOOLEAN
  /\ m_look \in AllLooks /\ asked = m_look
  /\ enteredSerial \in Nat /\ enters \in Nat /\ hostSerial \in Nat
  /\ cursorRequests \in Seq(Commits \cup Settings)
  /\ pointerEvents \in Seq(Nat)

\* Enters and leaves: they alternate, the first one changes what the cursor
\* has, and the last one made the host what it is.
EventsInv ==
  /\ \A i \in 1 .. Len(pointerEvents) :
       i + 1 \in 1 .. Len(pointerEvents) => (pointerEvents[i] = 0 <=> pointerEvents[i + 1] # 0)
  /\ pointerEvents # <<>> =>
       /\ m_pointer <=> pointerEvents[1] = 0
       /\ pointerEvents[Len(pointerEvents)] = hostSerial
  /\ pointerEvents = <<>> =>
       /\ m_pointer <=> hostSerial # 0
       /\ m_pointer => enteredSerial = hostSerial

ImageInv ==
  \/ LastIn(cursorRequests, Commits, CommitRequest(m_look, m_enabled))
  \/ /\ NoneIn(cursorRequests, Commits)
     /\ hostImage = CommitRequest(m_look, m_enabled).image

HotspotInv ==
  hostSerial # 0 /\ pointerEvents = <<>> =>
    \/ LastIn(cursorRequests, SettingsFor(hostSerial), CursorRequest(hostSerial, m_look))
    \/ /\ NoneIn(cursorRequests, SettingsFor(hostSerial))
       /\ hostHotspot = m_look.hotspot

CursorInv == ShapeInv /\ EventsInv /\ ImageInv /\ HotspotInv
-----------------------------------------------------------------------------
(***************************************************************************)
(* Queues and requests.                                                    *)
(***************************************************************************)

\* What Append does to the last of a kind.
LEMMA AppendLast ==
  ASSUME NEW S, NEW q \in Seq(S), NEW e \in S
  PROVE  /\ Append(q, e) \in Seq(S)
         /\ \A T, x : LastIn(q, T, x) /\ e \notin T => LastIn(Append(q, e), T, x)
         /\ \A T : NoneIn(q, T) /\ e \notin T => NoneIn(Append(q, e), T)
         /\ \A T : LastIn(Append(q, e), T, e)
<1> DEFINE a == Append(q, e)
<1>1. /\ a \in Seq(S) /\ Len(q) \in Nat /\ Len(a) = Len(q) + 1
      /\ \A i \in 1 .. Len(q) : a[i] = q[i]
      /\ a[Len(q) + 1] = e
  OBVIOUS
<1> HIDE DEF a
<1>2. \A T, x : LastIn(q, T, x) /\ e \notin T => LastIn(a, T, x)
  BY <1>1 DEF LastIn
<1>3. \A T : NoneIn(q, T) /\ e \notin T => NoneIn(a, T)
  BY <1>1 DEF NoneIn
<1>4. \A T : LastIn(a, T, e)
  BY <1>1 DEF LastIn
<1> QED
  BY <1>1, <1>2, <1>3, <1>4 DEF a

\* What taking the head off does to the last of a kind.
LEMMA TailLast ==
  ASSUME NEW S, NEW q \in Seq(S), q # <<>>
  PROVE  /\ Tail(q) \in Seq(S) /\ Head(q) \in S
         /\ \A T, x : LastIn(q, T, x) =>
              LastIn(Tail(q), T, x) \/ (Head(q) = x /\ NoneIn(Tail(q), T))
         /\ \A T : NoneIn(q, T) => NoneIn(Tail(q), T) /\ Head(q) \notin T
<1> DEFINE t == Tail(q)
           h == Head(q)
<1>1. /\ t \in Seq(S) /\ h \in S /\ Len(q) \in Nat \ {0} /\ Len(t) = Len(q) - 1
      /\ \A i \in 1 .. Len(t) : t[i] = q[i + 1]
      /\ h = q[1]
  OBVIOUS
<1> HIDE DEF t, h
<1>2. \A i \in 1 .. Len(t) : i + 1 \in 1 .. Len(q) /\ t[i] = q[i + 1]
  BY <1>1
<1>3. ASSUME NEW T, NEW x, LastIn(q, T, x)
      PROVE  LastIn(t, T, x) \/ (h = x /\ NoneIn(t, T))
  <2>1. PICK i \in 1 .. Len(q) :
          q[i] = x /\ \A j \in 1 .. Len(q) : j > i => q[j] \notin T
    BY <1>3 DEF LastIn
  <2>2. CASE i = 1
    <3>1. \A j \in 1 .. Len(t) : t[j] \notin T
      BY <1>1, <1>2, <2>1, <2>2
    <3> QED
      BY <1>1, <2>1, <2>2, <3>1 DEF NoneIn
  <2>3. CASE i # 1
    <3>1. i - 1 \in 1 .. Len(t) /\ t[i - 1] = x
      BY <1>1, <2>1, <2>3
    <3>2. \A j \in 1 .. Len(t) : j > i - 1 => t[j] \notin T
      BY <1>1, <1>2, <2>1
    <3> QED
      BY <3>1, <3>2 DEF LastIn
  <2> QED
    BY <2>2, <2>3
<1>4. \A T : NoneIn(q, T) => NoneIn(t, T) /\ h \notin T
  BY <1>1, <1>2 DEF NoneIn
<1> QED
  BY <1>1, <1>3, <1>4 DEF t, h

\* Commits and set_cursor requests are told apart, and the latter by serial.
LEMMA RequestFacts ==
  /\ \A s \in Nat, look \in AllLooks :
       /\ CursorRequest(s, look) \notin Commits
       /\ CursorRequest(s, look) \in SettingsFor(s)
       /\ CursorRequest(s, look).kind = "set_cursor"
       /\ CursorRequest(s, look).serial = s
       /\ CursorRequest(s, look).hotspot = look.hotspot
  /\ \A look \in AllLooks, enable \in BOOLEAN :
       /\ CommitRequest(look, enable) \in Commits
       /\ CommitRequest(look, enable).kind = "commit"
       /\ \A s : CommitRequest(look, enable) \notin SettingsFor(s)
  /\ \A r \in Commits \cup Settings :
       \/ r.kind = "commit" /\ r \in Commits /\ \A s : r \notin SettingsFor(s)
       \/ /\ r.kind = "set_cursor" /\ r \notin Commits
          /\ \A s \in Nat : r \in SettingsFor(s) <=> r.serial = s
  /\ \A s \in Nat : SettingsFor(s) \subseteq Settings
<1>1. \A look, enable : CommitRequest(look, enable).kind = "commit"
  BY DEF CommitRequest
<1>2. \A s, look : /\ CursorRequest(s, look).kind = "set_cursor"
                   /\ CursorRequest(s, look).serial = s
                   /\ CursorRequest(s, look).hotspot = look.hotspot
  BY DEF CursorRequest
<1>3. \A r \in Commits : r.kind = "commit"
  BY <1>1 DEF Commits
<1>4. \A s : \A r \in SettingsFor(s) : r.kind = "set_cursor" /\ r.serial = s
  BY <1>2 DEF SettingsFor
<1>5. \A r \in Settings : r.kind = "set_cursor" /\ r \in SettingsFor(r.serial)
  BY <1>2 DEF Settings, SettingsFor
<1>6. \A s \in Nat : SettingsFor(s) \subseteq Settings
  BY DEF Settings, SettingsFor
<1>7. \A look \in AllLooks, enable \in BOOLEAN : CommitRequest(look, enable) \in Commits
  BY DEF Commits
<1>8. \A s \in Nat, look \in AllLooks : CursorRequest(s, look) \in SettingsFor(s)
  BY DEF SettingsFor
<1> QED
  BY <1>1, <1>2, <1>3, <1>4, <1>5, <1>6, <1>7, <1>8

\* After sync() the last commit under way has the image, and the last
\* set_cursor with the pointer's serial, if there is a pointer, the hotspot.
LEMMA SyncFacts ==
  ASSUME ShapeInv, NEW look \in AllLooks, NEW enable \in BOOLEAN, Sync(look, enable)
  PROVE  /\ cursorRequests' \in Seq(Commits \cup Settings)
         /\ LastIn(cursorRequests', Commits, CommitRequest(look, enable))
         /\ m_pointer => LastIn(cursorRequests', SettingsFor(enteredSerial),
                                CursorRequest(enteredSerial, look))
<1> DEFINE c == CommitRequest(look, enable)
           s == CursorRequest(enteredSerial, look)
           q == Append(cursorRequests, c)
<1>1. enteredSerial \in Nat /\ cursorRequests \in Seq(Commits \cup Settings)
  BY DEF ShapeInv
<1>2. c \in Commits \cup Settings
  BY RequestFacts
<1>3. s \in Commits \cup Settings /\ s \notin Commits
  BY <1>1, RequestFacts
<1>4. q \in Seq(Commits \cup Settings) /\ LastIn(q, Commits, c)
  BY <1>1, <1>2, AppendLast
<1>5. CASE m_pointer
  <2>1. cursorRequests' = Append(q, s)
    <3>1. cursorRequests' = q \o <<s>>
      BY <1>5 DEF Sync
    <3> HIDE DEF q, s
    <3> QED
      BY <3>1, <1>3, <1>4, AppendIsConcat
  <2> HIDE DEF q, s, c
  <2> QED
    BY <2>1, <1>3, <1>4, AppendLast DEF s, c
<1>6. CASE ~m_pointer
  <2>1. cursorRequests' = q \o << >>
    BY <1>6 DEF Sync
  <2> HIDE DEF q
  <2>2. cursorRequests' = q
    BY <2>1, <1>4, ConcatEmptySeq
  <2> QED
    BY <2>2, <1>4, <1>6
<1> QED
  BY <1>5, <1>6
-----------------------------------------------------------------------------
(***************************************************************************)
(* Each action keeps the invariant.                                        *)
(***************************************************************************)

\* Whatever sync() was called with is what the cursor shows now.
LEMMA SyncStep ==
  ASSUME CursorInv, m_look' \in AllLooks, m_enabled' \in BOOLEAN, asked' = m_look',
         Sync(m_look', m_enabled'),
         UNCHANGED <<m_pointer, enteredSerial, pointerEvents, enters, hostSerial, shownVars>>
  PROVE  CursorInv'
<1>1. /\ cursorRequests' \in Seq(Commits \cup Settings)
      /\ LastIn(cursorRequests', Commits, CommitRequest(m_look', m_enabled'))
      /\ m_pointer => LastIn(cursorRequests', SettingsFor(enteredSerial),
                             CursorRequest(enteredSerial, m_look'))
  BY SyncFacts DEF CursorInv
<1>2. ShapeInv'
  BY <1>1 DEF CursorInv, ShapeInv, shownVars
<1>3. EventsInv'
  BY DEF CursorInv, EventsInv
<1>4. ImageInv'
  BY <1>1 DEF ImageInv
<1>5. HotspotInv'
  BY <1>1 DEF CursorInv, EventsInv, HotspotInv
<1> QED
  BY <1>2, <1>3, <1>4, <1>5 DEF CursorInv

\* setEnabled().
LEMMA SetEnabledStep ==
  ASSUME CursorInv, NEW enable \in BOOLEAN, SetEnabled(enable)
  PROVE  CursorInv'
<1>1. /\ m_enabled' = enable /\ asked' = m_look' /\ m_look' = m_look /\ m_look \in AllLooks
      /\ UNCHANGED <<m_pointer, enteredSerial, pointerEvents, enters, hostSerial, shownVars>>
  BY DEF CursorInv, ShapeInv, SetEnabled, shownVars
<1>2. CASE m_enabled # enable
  <2>1. Sync(m_look', m_enabled')
    BY <1>1, <1>2 DEF SetEnabled
  <2> QED
    BY <1>1, <2>1, SyncStep
<1>3. CASE m_enabled = enable
  <2>1. UNCHANGED cursorRequests
    BY <1>3 DEF SetEnabled
  <2> QED
    BY <1>1, <1>3, <2>1 DEF CursorInv, ShapeInv, EventsInv, ImageInv, HotspotInv, shownVars
<1> QED
  BY <1>2, <1>3

\* update().
LEMMA UpdateStep ==
  ASSUME CursorInv, NEW look \in Looks, Update(look)
  PROVE  CursorInv'
<1>1. /\ m_look' = look /\ asked' = look /\ look \in AllLooks
      /\ m_enabled' = m_enabled /\ m_enabled \in BOOLEAN
      /\ UNCHANGED <<m_pointer, enteredSerial, pointerEvents, enters, hostSerial, shownVars>>
  BY DEF CursorInv, ShapeInv, Update, shownVars, AllLooks
<1>2. CASE m_look # look
  <2>1. Sync(m_look', m_enabled')
    BY <1>1, <1>2 DEF Update
  <2> QED
    BY <1>1, <2>1, SyncStep
<1>3. CASE m_look = look
  <2>1. UNCHANGED cursorRequests
    BY <1>3 DEF Update
  <2> QED
    BY <1>1, <1>3, <2>1 DEF CursorInv, ShapeInv, EventsInv, ImageInv, HotspotInv, shownVars
<1> QED
  BY <1>2, <1>3

\* What the handling of the next event leaves to come.
LEMMA EventFacts ==
  ASSUME ShapeInv, EventsInv, pointerEvents # <<>>, pointerEvents' = Tail(pointerEvents)
  PROVE  /\ Head(pointerEvents) \in Nat /\ pointerEvents' \in Seq(Nat)
         /\ m_pointer <=> Head(pointerEvents) = 0
         /\ \A i \in 1 .. Len(pointerEvents') : i + 1 \in 1 .. Len(pointerEvents') =>
              (pointerEvents'[i] = 0 <=> pointerEvents'[i + 1] # 0)
         /\ pointerEvents' = <<>> => Head(pointerEvents) = hostSerial
         /\ pointerEvents' # <<>> =>
              /\ pointerEvents'[1] = 0 <=> Head(pointerEvents) # 0
              /\ pointerEvents'[Len(pointerEvents')] = hostSerial
<1> DEFINE q == pointerEvents
           t == Tail(q)
<1>1. /\ q \in Seq(Nat) /\ t \in Seq(Nat) /\ Head(q) \in Nat
      /\ Len(q) \in Nat \ {0} /\ Len(t) = Len(q) - 1 /\ Head(q) = q[1]
      /\ \A i \in 1 .. Len(t) : t[i] = q[i + 1]
      /\ t = <<>> <=> Len(t) = 0
  <2>1. q \in Seq(Nat) /\ q # <<>>
    BY DEF ShapeInv
  <2> HIDE DEF q
  <2>2. t \in Seq(Nat) /\ Head(q) \in Nat /\ Head(q) = q[1]
    BY <2>1
  <2>3. Len(q) \in Nat \ {0} /\ Len(t) = Len(q) - 1
    BY <2>1
  <2>4. \A i \in 1 .. Len(t) : t[i] = q[i + 1]
    BY <2>1
  <2>5. t = <<>> <=> Len(t) = 0
    BY <2>2, EmptySeq
  <2> QED
    BY <2>1, <2>2, <2>3, <2>4, <2>5
<1>2. /\ \A i \in 1 .. Len(q) : i + 1 \in 1 .. Len(q) => (q[i] = 0 <=> q[i + 1] # 0)
      /\ m_pointer <=> q[1] = 0
      /\ q[Len(q)] = hostSerial
  BY DEF EventsInv
<1> HIDE DEF q, t
<1>3. \A i \in 1 .. Len(t) : i + 1 \in 1 .. Len(t) => (t[i] = 0 <=> t[i + 1] # 0)
  <2> SUFFICES ASSUME NEW i \in 1 .. Len(t), i + 1 \in 1 .. Len(t)
               PROVE  t[i] = 0 <=> t[i + 1] # 0
    OBVIOUS
  <2>1. i + 1 \in 1 .. Len(q) /\ (i + 1) + 1 \in 1 .. Len(q)
    BY <1>1
  <2>2. t[i] = q[i + 1] /\ t[i + 1] = q[(i + 1) + 1]
    BY <1>1
  <2> QED
    BY <1>2, <2>1, <2>2
<1>4. t = <<>> => q[1] = hostSerial
  <2>1. t = <<>> => Len(q) = 1
    BY <1>1
  <2> QED
    BY <1>2, <2>1
<1>5. ASSUME t # <<>> PROVE (t[1] = 0 <=> q[1] # 0) /\ t[Len(t)] = hostSerial
  <2>1. Len(t) \in Nat \ {0}
    BY <1>1, <1>5
  <2>2. 1 \in 1 .. Len(q) /\ 1 + 1 \in 1 .. Len(q) /\ t[1] = q[1 + 1]
    BY <1>1, <2>1
  <2>3. Len(t) \in 1 .. Len(t) /\ Len(t) + 1 = Len(q)
    BY <1>1, <2>1
  <2>4. t[Len(t)] = q[Len(q)]
    BY <1>1, <2>3
  <2> QED
    BY <1>2, <2>2, <2>4
<1>6. pointerEvents' = t /\ pointerEvents = q
  BY DEF q, t
<1> QED
  BY <1>1, <1>2, <1>3, <1>4, <1>5, <1>6

\* The entered signal.
LEMMA EnteredStep ==
  ASSUME CursorInv, Entered
  PROVE  CursorInv'
<1> DEFINE s == Head(pointerEvents)
           r == CursorRequest(s, m_look)
<1>1. /\ pointerEvents # <<>> /\ pointerEvents' = Tail(pointerEvents)
      /\ s # 0 /\ enteredSerial' = s /\ m_pointer' = TRUE
      /\ UNCHANGED <<m_look, m_enabled, asked, enters, hostSerial, shownVars>>
  BY DEF Entered
<1>2. ShapeInv /\ EventsInv
  BY DEF CursorInv
<1>3. /\ s \in Nat /\ pointerEvents' \in Seq(Nat) /\ ~m_pointer
      /\ \A i \in 1 .. Len(pointerEvents') : i + 1 \in 1 .. Len(pointerEvents') =>
           (pointerEvents'[i] = 0 <=> pointerEvents'[i + 1] # 0)
      /\ pointerEvents' = <<>> => s = hostSerial
      /\ pointerEvents' # <<>> =>
           pointerEvents'[1] = 0 /\ pointerEvents'[Len(pointerEvents')] = hostSerial
  BY <1>1, <1>2, EventFacts
<1>4. cursorRequests' = Append(cursorRequests, r)
  BY <1>1, <1>3 DEF Entered
<1>5. /\ r \in Commits \cup Settings /\ r \notin Commits
      /\ cursorRequests \in Seq(Commits \cup Settings)
  BY <1>2, <1>3, RequestFacts DEF ShapeInv
<1>6. /\ cursorRequests' \in Seq(Commits \cup Settings)
      /\ \A x : LastIn(cursorRequests, Commits, x) => LastIn(cursorRequests', Commits, x)
      /\ NoneIn(cursorRequests, Commits) => NoneIn(cursorRequests', Commits)
      /\ LastIn(cursorRequests', SettingsFor(s), r)
  <2> HIDE DEF r, s
  <2> QED
    BY <1>4, <1>5, AppendLast
<1> HIDE DEF s
<1>7. ShapeInv'
  BY <1>1, <1>2, <1>3, <1>6 DEF ShapeInv, shownVars
<1>8. EventsInv'
  BY <1>1, <1>3 DEF EventsInv
<1>9. ImageInv'
  BY <1>1, <1>6 DEF CursorInv, ImageInv, shownVars
<1>10. HotspotInv'
  BY <1>1, <1>3, <1>6 DEF HotspotInv
<1> QED
  BY <1>7, <1>8, <1>9, <1>10 DEF CursorInv

\* The left signal.
LEMMA LeftStep ==
  ASSUME CursorInv, Left
  PROVE  CursorInv'
<1>1. /\ pointerEvents # <<>> /\ pointerEvents' = Tail(pointerEvents)
      /\ Head(pointerEvents) = 0 /\ m_pointer' = FALSE
      /\ UNCHANGED <<m_look, m_enabled, asked, enteredSerial, cursorRequests, enters, hostSerial,
                     shownVars>>
  BY DEF Left
<1>2. ShapeInv /\ EventsInv
  BY DEF CursorInv
<1>3. /\ pointerEvents' \in Seq(Nat)
      /\ \A i \in 1 .. Len(pointerEvents') : i + 1 \in 1 .. Len(pointerEvents') =>
           (pointerEvents'[i] = 0 <=> pointerEvents'[i + 1] # 0)
      /\ pointerEvents' = <<>> => hostSerial = 0
      /\ pointerEvents' # <<>> =>
           pointerEvents'[1] # 0 /\ pointerEvents'[Len(pointerEvents')] = hostSerial
  BY <1>1, <1>2, EventFacts
<1>4. ShapeInv'
  BY <1>1, <1>2, <1>3 DEF ShapeInv, shownVars
<1>5. EventsInv'
  BY <1>1, <1>3 DEF EventsInv
<1>6. ImageInv'
  BY <1>1 DEF CursorInv, ImageInv, shownVars
<1>7. HotspotInv'
  BY <1>1, <1>3 DEF HotspotInv
<1> QED
  BY <1>4, <1>5, <1>6, <1>7 DEF CursorInv

\* The host announces where its pointer is now.
LEMMA HostMovesStep ==
  ASSUME CursorInv, hostSerial' \in Nat, enters' \in Nat,
         hostSerial = 0 <=> hostSerial' # 0,
         pointerEvents' = Append(pointerEvents, hostSerial'),
         UNCHANGED <<m_pointer, m_look, m_enabled, asked, enteredSerial, cursorRequests, hostImage>>
  PROVE  CursorInv'
<1> DEFINE q == pointerEvents
           a == pointerEvents'
<1>1. /\ q \in Seq(Nat) /\ a \in Seq(Nat) /\ Len(q) \in Nat /\ Len(a) = Len(q) + 1
      /\ \A i \in 1 .. Len(q) : a[i] = q[i]
      /\ a[Len(a)] = hostSerial'
      /\ a # <<>>
      /\ q = <<>> <=> Len(q) = 0
  BY DEF CursorInv, ShapeInv
<1>2. /\ \A i \in 1 .. Len(q) : i + 1 \in 1 .. Len(q) => (q[i] = 0 <=> q[i + 1] # 0)
      /\ q # <<>> => (m_pointer <=> q[1] = 0) /\ q[Len(q)] = hostSerial
      /\ q = <<>> => (m_pointer <=> hostSerial # 0)
  BY DEF CursorInv, EventsInv
<1> HIDE DEF q, a
<1>3. \A i \in 1 .. Len(a) : i + 1 \in 1 .. Len(a) => (a[i] = 0 <=> a[i + 1] # 0)
  <2> SUFFICES ASSUME NEW i \in 1 .. Len(a), i + 1 \in 1 .. Len(a)
               PROVE  a[i] = 0 <=> a[i + 1] # 0
    OBVIOUS
  <2>1. i \in 1 .. Len(q) /\ a[i] = q[i] /\ q # <<>>
    BY <1>1
  <2>2. CASE i = Len(q)
    BY <1>1, <1>2, <2>1, <2>2
  <2>3. CASE i # Len(q)
    <3>1. i + 1 \in 1 .. Len(q)
      BY <1>1, <2>1, <2>3
    <3>2. a[i + 1] = q[i + 1]
      BY <1>1, <3>1
    <3> QED
      BY <1>2, <2>1, <3>1, <3>2
  <2> QED
    BY <2>2, <2>3
<1>4. m_pointer <=> a[1] = 0
  <2>1. CASE q = <<>>
    BY <1>1, <1>2, <2>1
  <2>2. CASE q # <<>>
    <3>1. a[1] = q[1]
      BY <1>1, <2>2
    <3> QED
      BY <1>2, <2>2, <3>1
  <2> QED
    BY <2>1, <2>2
<1>5. ShapeInv'
  BY <1>1 DEF CursorInv, ShapeInv, a
<1>6. EventsInv'
  BY <1>1, <1>3, <1>4 DEF EventsInv, a
<1>7. ImageInv'
  BY DEF CursorInv, ImageInv
<1>8. HotspotInv'
  BY <1>1 DEF HotspotInv, a
<1> QED
  BY <1>5, <1>6, <1>7, <1>8 DEF CursorInv

\* The host carries out a request.
LEMMA HostHandlesCursorStep ==
  ASSUME CursorInv, HostHandlesCursor
  PROVE  CursorInv'
<1> DEFINE h == Head(cursorRequests)
           t == Tail(cursorRequests)
           c == CommitRequest(m_look, m_enabled)
           s == CursorRequest(hostSerial, m_look)
<1>1. /\ cursorRequests # <<>> /\ cursorRequests' = t
      /\ UNCHANGED <<m_pointer, m_look, m_enabled, asked, enteredSerial, pointerEvents, enters,
                     hostSerial>>
      /\ h.kind = "commit" => hostImage' = h.image /\ hostHotspot' = hostHotspot
      /\ h.kind # "commit" =>
           /\ hostImage' = hostImage
           /\ h.serial = hostSerial => hostHotspot' = h.hotspot
           /\ h.serial # hostSerial => hostHotspot' = hostHotspot
  BY DEF HostHandlesCursor, fieldVars
<1>2. /\ cursorRequests \in Seq(Commits \cup Settings)
      /\ hostSerial \in Nat /\ m_look \in AllLooks /\ m_enabled \in BOOLEAN
  BY DEF CursorInv, ShapeInv
<1>3. /\ t \in Seq(Commits \cup Settings) /\ h \in Commits \cup Settings
      /\ \A T, x : LastIn(cursorRequests, T, x) => LastIn(t, T, x) \/ (h = x /\ NoneIn(t, T))
      /\ \A T : NoneIn(cursorRequests, T) => NoneIn(t, T) /\ h \notin T
  BY <1>1, <1>2, TailLast
<1>4. \/ h.kind = "commit" /\ h \in Commits /\ h \notin SettingsFor(hostSerial)
      \/ /\ h.kind = "set_cursor" /\ h \notin Commits
         /\ h \in SettingsFor(hostSerial) <=> h.serial = hostSerial
  BY <1>2, <1>3, RequestFacts
<1>5. /\ c.kind = "commit"
      /\ s.kind = "set_cursor" /\ s.serial = hostSerial /\ s.hotspot = m_look.hotspot
  BY <1>2, RequestFacts
<1> HIDE DEF h, t, c, s
<1>6. ShapeInv'
  BY <1>1, <1>3 DEF CursorInv, ShapeInv
<1>7. EventsInv'
  BY <1>1 DEF CursorInv, EventsInv
<1>8. ImageInv'
  <2>1. LastIn(cursorRequests, Commits, c) \/ (NoneIn(cursorRequests, Commits) /\ hostImage = c.image)
    BY DEF CursorInv, ImageInv, c
  <2>2. LastIn(t, Commits, c) \/ (NoneIn(t, Commits) /\ hostImage' = c.image)
    BY <1>1, <1>3, <1>4, <1>5, <2>1
  <2> QED
    BY <1>1, <2>2 DEF ImageInv, c
<1>9. HotspotInv'
  <2> DEFINE T == SettingsFor(hostSerial)
  <2> SUFFICES ASSUME hostSerial # 0, pointerEvents = <<>>
               PROVE  LastIn(t, T, s) \/ (NoneIn(t, T) /\ hostHotspot' = m_look.hotspot)
    BY <1>1 DEF HotspotInv, s
  <2>1. LastIn(cursorRequests, T, s) \/ (NoneIn(cursorRequests, T) /\ hostHotspot = m_look.hotspot)
    BY DEF CursorInv, HotspotInv, s
  <2> QED
    BY <1>1, <1>3, <1>4, <1>5, <2>1
<1> QED
  BY <1>6, <1>7, <1>8, <1>9 DEF CursorInv
-----------------------------------------------------------------------------
(***************************************************************************)
(* The invariant, and what follows.                                        *)
(***************************************************************************)

\* The invariant holds at first: no request under way, nothing to show.
LEMMA CursorInvInit == CursorInit => CursorInv
<1> SUFFICES ASSUME CursorInit PROVE CursorInv
  OBVIOUS
<1>1. ShapeInv
  <2>1. cursorRequests \in Seq(Commits \cup Settings) /\ pointerEvents \in Seq(Nat)
    BY DEF CursorInit
  <2>2. m_look \in AllLooks /\ asked = m_look
    BY DEF CursorInit, AllLooks
  <2> QED
    BY <2>1, <2>2 DEF CursorInit, ShapeInv
<1>2. EventsInv
  BY DEF CursorInit, EventsInv
<1>3. ImageInv
  BY DEF CursorInit, ImageInv, NoneIn, CommitRequest
<1>4. HotspotInv
  BY DEF CursorInit, HotspotInv
<1> QED
  BY <1>1, <1>2, <1>3, <1>4 DEF CursorInv

\* Every step keeps the invariant.
LEMMA CursorInvStep ==
  ASSUME CursorInv, [CursorNext \/ \E enable \in BOOLEAN : SetEnabled(enable)]_cursorVars
  PROVE  CursorInv'
<1>1. CASE \E enable \in BOOLEAN : SetEnabled(enable)
  BY <1>1, SetEnabledStep
<1>2. CASE \E look \in Looks : Update(look)
  BY <1>2, UpdateStep
<1>3. CASE Entered
  BY <1>3, EnteredStep
<1>4. CASE Left
  BY <1>4, LeftStep
<1>5. CASE HostEnters
  <2>1. enters \in Nat
    BY DEF CursorInv, ShapeInv
  <2>2. /\ enters' = enters + 1 /\ hostSerial' = enters' /\ hostSerial = 0
        /\ pointerEvents' = Append(pointerEvents, hostSerial')
        /\ UNCHANGED <<m_pointer, m_look, m_enabled, asked, enteredSerial, cursorRequests,
                       hostImage>>
    BY <1>5 DEF HostEnters, fieldVars
  <2>3. hostSerial' \in Nat /\ enters' \in Nat /\ hostSerial' # 0
    BY <2>1, <2>2
  <2> QED
    BY <2>2, <2>3, HostMovesStep
<1>6. CASE HostLeaves
  <2>1. enters \in Nat
    BY DEF CursorInv, ShapeInv
  <2>2. /\ enters' = enters /\ hostSerial' = 0 /\ hostSerial # 0
        /\ pointerEvents' = Append(pointerEvents, hostSerial')
        /\ UNCHANGED <<m_pointer, m_look, m_enabled, asked, enteredSerial, cursorRequests,
                       hostImage>>
    BY <1>6 DEF HostLeaves, fieldVars, shownVars
  <2>3. hostSerial' \in Nat /\ enters' \in Nat
    BY <2>1, <2>2
  <2> QED
    BY <2>2, <2>3, HostMovesStep
<1>7. CASE HostHandlesCursor
  BY <1>7, HostHandlesCursorStep
<1>8. CASE UNCHANGED cursorVars
  BY <1>8 DEF CursorInv, ShapeInv, EventsInv, ImageInv, HotspotInv, cursorVars, fieldVars, shownVars
<1> QED
  BY <1>1, <1>2, <1>3, <1>4, <1>5, <1>6, <1>7, <1>8 DEF CursorNext

\* The invariant holds of every behaviour.
LEMMA CursorInvariance == CursorSpec => []CursorInv
<1>1. CursorInv /\ [CursorNext \/ \E enable \in BOOLEAN : SetEnabled(enable)]_cursorVars => CursorInv'
  BY CursorInvStep
<1> QED
  BY CursorInvInit, <1>1, PTL DEF CursorSpec

CursorRequests ==
  [kind : {"commit"}, image : Images] \cup
  [kind : {"set_cursor"}, serial : 1 .. MaxEnters, hotspot : Hotspots]

\* The types, and that a pointer has been entered.
CursorTypeInv == CursorTypeOK /\ (m_pointer => enteredSerial # 0)

\* The requests of sync() and setPointer() are requests.
LEMMA RequestTypes ==
  /\ \A look \in AllLooks, enable \in BOOLEAN : CommitRequest(look, enable) \in CursorRequests
  /\ \A serial \in 1 .. MaxEnters, look \in AllLooks :
       CursorRequest(serial, look) \in CursorRequests
<1>1. \A look \in AllLooks : look.image \in Images /\ look.hotspot \in Hotspots
  BY DEF AllLooks, Images, Hotspots
<1>2. NoLook.image \in Images
  BY DEF Images
<1> QED
  BY <1>1, <1>2 DEF CommitRequest, CursorRequest, CursorRequests

\* sync() sends requests, as long as a pointer it has was entered.
LEMMA SyncTypes ==
  ASSUME CursorTypeInv, NEW look \in AllLooks, NEW enable \in BOOLEAN, Sync(look, enable)
  PROVE  cursorRequests' \in Seq(CursorRequests)
<1> DEFINE q == Append(cursorRequests, CommitRequest(look, enable))
           s == CursorRequest(enteredSerial, look)
<1>1. q \in Seq(CursorRequests)
  BY RequestTypes DEF CursorTypeInv, CursorTypeOK, CursorRequests
<1>2. CASE m_pointer
  <2>1. enteredSerial \in 1 .. MaxEnters
    BY <1>2, MaxEntersAssumption DEF CursorTypeInv, CursorTypeOK
  <2>2. s \in CursorRequests
    BY <2>1, RequestTypes
  <2>3. cursorRequests' = q \o <<s>>
    BY <1>2 DEF Sync
  <2> HIDE DEF q, s
  <2> QED
    BY <1>1, <2>2, <2>3
<1>3. CASE ~m_pointer
  <2>1. cursorRequests' = q \o << >>
    BY <1>3 DEF Sync
  <2> HIDE DEF q
  <2> QED
    BY <1>1, <2>1
<1> QED
  BY <1>2, <1>3

\* Every step keeps the types.
LEMMA CursorTypeStep ==
  ASSUME CursorTypeInv, [CursorNext \/ \E enable \in BOOLEAN : SetEnabled(enable)]_cursorVars
  PROVE  CursorTypeInv'
<1> USE MaxEntersAssumption
<1>0. cursorRequests \in Seq(CursorRequests)
  BY DEF CursorTypeInv, CursorTypeOK, CursorRequests
<1>1. ASSUME NEW enable \in BOOLEAN, SetEnabled(enable)
      PROVE  CursorTypeInv'
  <2>1. cursorRequests' \in Seq(CursorRequests)
    <3>1. m_look \in AllLooks
      BY DEF CursorTypeInv, CursorTypeOK, AllLooks
    <3> QED
      BY <1>0, <1>1, <3>1, SyncTypes DEF SetEnabled
  <2> QED
    BY <1>1, <2>1 DEF SetEnabled, CursorTypeInv, CursorTypeOK, CursorRequests, shownVars
<1>2. ASSUME NEW look \in Looks, Update(look)
      PROVE  CursorTypeInv'
  <2>1. cursorRequests' \in Seq(CursorRequests)
    <3>1. look \in AllLooks /\ m_enabled \in BOOLEAN
      BY DEF CursorTypeInv, CursorTypeOK, AllLooks
    <3> QED
      BY <1>0, <1>2, <3>1, SyncTypes DEF Update
  <2> QED
    BY <1>2, <2>1 DEF Update, CursorTypeInv, CursorTypeOK, CursorRequests, shownVars
<1>3. CASE Entered
  <2>1. enteredSerial' \in 1 .. MaxEnters /\ pointerEvents' \in Seq(0 .. MaxEnters)
    BY <1>3 DEF Entered, CursorTypeInv, CursorTypeOK
  <2>2. cursorRequests' \in Seq(CursorRequests)
    <3>1. CursorRequest(enteredSerial', m_look) \in CursorRequests
      BY <2>1, RequestTypes DEF CursorTypeInv, CursorTypeOK, AllLooks
    <3> QED
      BY <1>0, <1>3, <3>1 DEF Entered
  <2> QED
    BY <1>3, <2>1, <2>2 DEF Entered, CursorTypeInv, CursorTypeOK, CursorRequests, shownVars
<1>4. CASE Left
  <2>1. pointerEvents' \in Seq(0 .. MaxEnters)
    BY <1>4 DEF Left, CursorTypeInv, CursorTypeOK
  <2> QED
    BY <1>0, <1>4, <2>1 DEF Left, CursorTypeInv, CursorTypeOK, CursorRequests, shownVars
<1>5. CASE HostEnters
  BY <1>5 DEF HostEnters, CursorTypeInv, CursorTypeOK, fieldVars
<1>6. CASE HostLeaves
  BY <1>6 DEF HostLeaves, CursorTypeInv, CursorTypeOK, fieldVars, shownVars
<1>7. CASE HostHandlesCursor
  <2>1. Head(cursorRequests) \in CursorRequests /\ cursorRequests' \in Seq(CursorRequests)
    BY <1>0, <1>7 DEF HostHandlesCursor
  <2>2. /\ Head(cursorRequests).kind = "commit" => Head(cursorRequests).image \in Images
        /\ Head(cursorRequests).kind # "commit" => Head(cursorRequests).hotspot \in Hotspots
    BY <2>1 DEF CursorRequests
  <2>3. hostImage' \in Images /\ hostHotspot' \in Hotspots \cup {NotSet}
    BY <1>7, <2>2 DEF HostHandlesCursor, CursorTypeInv, CursorTypeOK
  <2> QED
    BY <1>7, <2>1, <2>3 DEF HostHandlesCursor, CursorTypeInv, CursorTypeOK, CursorRequests,
                            fieldVars
<1>8. CASE UNCHANGED cursorVars
  BY <1>8 DEF CursorTypeInv, CursorTypeOK, cursorVars, fieldVars, shownVars
<1> QED
  BY <1>1, <1>2, <1>3, <1>4, <1>5, <1>6, <1>7, <1>8 DEF CursorNext

\* The cursor's fields, the queues and the host keep their types; no request
\* is sent with the serial of no enter.
THEOREM CursorTypeCorrect == CursorSpec => []CursorTypeOK
<1>1. ASSUME CursorInit PROVE CursorTypeInv
  <2>1. cursorRequests \in Seq(CursorRequests) /\ pointerEvents \in Seq(0 .. MaxEnters)
    BY <1>1 DEF CursorInit
  <2>2. NoLook.image \in Images
    BY DEF Images
  <2>3. /\ m_pointer = FALSE /\ m_look = NoLook /\ m_enabled = TRUE /\ asked = NoLook
        /\ enteredSerial = 0 /\ enters = 0 /\ hostSerial = 0
        /\ hostImage = NoLook.image /\ hostHotspot = NotSet
    BY <1>1 DEF CursorInit
  <2>4. /\ m_look \in Looks \cup {NoLook} /\ asked \in Looks \cup {NoLook}
        /\ hostImage \in Images /\ hostHotspot \in Hotspots \cup {NotSet}
    BY <2>2, <2>3
  <2>5. enteredSerial \in 0 .. MaxEnters /\ enters \in 0 .. MaxEnters
        /\ hostSerial \in 0 .. MaxEnters
    BY <2>3, MaxEntersAssumption
  <2>6. m_pointer \in BOOLEAN /\ m_enabled \in BOOLEAN /\ (m_pointer => enteredSerial # 0)
    BY <2>3
  <2> QED
    BY <2>1, <2>4, <2>5, <2>6 DEF CursorTypeInv, CursorTypeOK, CursorRequests
<1>2. CursorTypeInv /\ [CursorNext \/ \E enable \in BOOLEAN : SetEnabled(enable)]_cursorVars
        => CursorTypeInv'
  BY CursorTypeStep
<1>3. CursorTypeInv => CursorTypeOK
  BY DEF CursorTypeInv
<1> QED
  BY <1>1, <1>2, <1>3, PTL DEF CursorSpec

\* Whatever crosses on the wire, and however often the pointer comes and goes:
\* once all has arrived the host shows the cursor of the latest update().
THEOREM HostShowsTheCursor == CursorSpec => []CursorCurrent
<1>1. CursorInv => CursorCurrent
  <2> SUFFICES ASSUME CursorInv, hostSerial # 0, cursorRequests = <<>>, pointerEvents = <<>>
               PROVE  /\ hostImage = IF m_enabled THEN asked.image ELSE NoLook.image
                      /\ hostHotspot = asked.hotspot
    BY DEF CursorCurrent
  <2>1. \A T, x : ~LastIn(cursorRequests, T, x)
    BY DEF LastIn
  <2>2. hostImage = CommitRequest(m_look, m_enabled).image
    BY <2>1 DEF CursorInv, ImageInv
  <2>3. hostHotspot = m_look.hotspot
    BY <2>1 DEF CursorInv, HotspotInv
  <2>4. asked = m_look
    BY DEF CursorInv, ShapeInv
  <2> QED
    BY <2>2, <2>3, <2>4 DEF CommitRequest
<1> QED
  BY CursorInvariance, <1>1, PTL
-----------------------------------------------------------------------------
(***************************************************************************)
(* Grab and cursor composed; and a grab takes the host's cursor away at the*)
(* next pass.                                                              *)
(***************************************************************************)

\* The composition does with the grab what PointerLock allows.
THEOREM RefinesPointerLock == PointerSpec => Spec
<1>1. PointerInit => Init
  BY DEF PointerInit
<1>2. [PointerNext]_pointerVars => [Next]_vars
  BY DEF PointerNext, Pass, pointerVars
<1> QED
  BY <1>1, <1>2, PTL DEF PointerSpec, Spec

\* The composition does with the cursor what OutputCursor allows.
THEOREM RefinesOutputCursor == PointerSpec => CursorSpec
<1>1. PointerInit => CursorInit
  BY DEF PointerInit
<1>2. [PointerNext]_pointerVars =>
        [CursorNext \/ \E enable \in BOOLEAN : SetEnabled(enable)]_cursorVars
  <2> SUFFICES ASSUME [PointerNext]_pointerVars
               PROVE  [CursorNext \/ \E enable \in BOOLEAN : SetEnabled(enable)]_cursorVars
    OBVIOUS
  <2>2. CASE UNCHANGED pointerVars
    BY <2>2 DEF pointerVars
  <2>3. CASE Next /\ UNCHANGED <<cursorVars, presentedAs>>
    BY <2>3
  <2>4. CASE CursorNext /\ UNCHANGED <<vars, presentedAs>>
    BY <2>4
  <2>5. ASSUME NEW wanted \in BOOLEAN, NEW updated \in BOOLEAN, Pass(wanted, updated)
        PROVE  [CursorNext \/ \E enable \in BOOLEAN : SetEnabled(enable)]_cursorVars
    <3> DEFINE on == wanted /\ TestPresentation(wanted)
    <3>1. on \in BOOLEAN
      BY DEF TestPresentation
    <3> HIDE DEF on
    <3>2. UNCHANGED cursorVars \/ SetEnabled(on)
      BY <2>5 DEF Pass, PresentCursor, on
    <3> QED
      BY <3>1, <3>2
  <2> QED
    BY <2>2, <2>3, <2>4, <2>5 DEF PointerNext
<1> QED
  BY <1>1, <1>2, PTL DEF PointerSpec, CursorSpec

\* Shortcuts, title and lock object follow the grab in the composition too.
THEOREM GrabIsReflectedThere == PointerSpec => []GrabReflected
BY RefinesPointerLock, GrabIsReflected, PTL

\* The host shows the cursor of the latest update() in the composition too,
\* grabs and passes included.
THEOREM HostShowsTheCursorThere == PointerSpec => []CursorCurrent
BY RefinesOutputCursor, HostShowsTheCursor, PTL

\* Neither Q_ASSERT can fail in the composition, whatever passes do between.
THEOREM AssertionsNeverFailThere == PointerSpec => []AssertionsHold
BY RefinesPointerLock, AssertionsNeverFail, PTL

\* With nothing on the wire output and host agree about the lock there, too.
THEOREM HostAgreesThere == PointerSpec => []AgreesWithHost
BY RefinesPointerLock, HostAgrees, PTL

\* Every variable of the grab, the cursor and the pass holds a value of its kind.
THEOREM PointerTypeCorrect == PointerSpec => []PointerTypeOK
<1> DEFINE PassTypeOK == presentedAs \in {"never", "on", "off", "refused"}
<1>1. PointerInit => PassTypeOK
  BY DEF PointerInit
<1>2. PassTypeOK /\ [PointerNext]_pointerVars => PassTypeOK'
  BY DEF PointerNext, Pass, PresentCursor, LayerState, pointerVars
<1>3. TypeOK /\ CursorTypeOK /\ PassTypeOK => PointerTypeOK
  BY DEF PointerTypeOK
<1> HIDE DEF PassTypeOK
<1> QED
  BY <1>1, <1>2, <1>3, RefinesPointerLock, RefinesOutputCursor, TypeCorrect, CursorTypeCorrect,
     PTL DEF PointerSpec

\* A cursor layer presented as off has the cursor disabled.
OffIsDisabled == presentedAs = "off" => m_enabled = FALSE

\* A pass during a grab leaves the host's cursor disabled, whatever came before.
THEOREM GrabHidesTheCursor == PointerSpec => HiddenWhileGrabbed
<1>1. PointerInit => OffIsDisabled
  BY DEF PointerInit, OffIsDisabled
<1>2. OffIsDisabled /\ [PointerNext]_pointerVars => OffIsDisabled'
  <2> SUFFICES ASSUME OffIsDisabled, [PointerNext]_pointerVars
               PROVE  OffIsDisabled'
    OBVIOUS
  <2>1. CASE UNCHANGED <<cursorVars, presentedAs>>
    BY <2>1 DEF OffIsDisabled, cursorVars, fieldVars
  <2>2. CASE CursorNext /\ UNCHANGED <<vars, presentedAs>>
    <3>1. m_enabled' = m_enabled
      BY <2>2 DEF CursorNext, Update, Entered, Left, HostEnters,
                  HostLeaves, HostHandlesCursor, fieldVars
    <3> QED
      BY <2>2, <3>1 DEF OffIsDisabled
  <2>3. ASSUME NEW wanted \in BOOLEAN, NEW updated \in BOOLEAN, Pass(wanted, updated)
        PROVE  OffIsDisabled'
    <3> DEFINE on == wanted /\ TestPresentation(wanted)
    <3>1. on \in BOOLEAN
      BY DEF TestPresentation
    <3> HIDE DEF on
    <3>2. CASE ~updated
      BY <2>3, <3>2 DEF Pass, OffIsDisabled, cursorVars, fieldVars
    <3>3. CASE updated /\ presentedAs' = "refused"
      BY <3>3 DEF OffIsDisabled
    <3>4. CASE updated /\ SetEnabled(on) /\ presentedAs' = LayerState(on)
      BY <3>1, <3>4 DEF OffIsDisabled, LayerState, SetEnabled
    <3> QED
      BY <2>3, <3>2, <3>3, <3>4 DEF Pass, PresentCursor, on
  <2> QED
    BY <2>1, <2>2, <2>3 DEF PointerNext, pointerVars
<1>3. OffIsDisabled /\ [PointerNext]_pointerVars =>
        [(\E wanted, updated \in BOOLEAN : Pass(wanted, updated)) /\ m_hasPointerLock
           => ~m_enabled']_pointerVars
  <2> SUFFICES ASSUME OffIsDisabled, NEW wanted \in BOOLEAN, NEW updated \in BOOLEAN,
                      Pass(wanted, updated), m_hasPointerLock
               PROVE  m_enabled' = FALSE
    OBVIOUS
  <2> DEFINE on == wanted /\ TestPresentation(wanted)
  <2>1. on = FALSE
    BY DEF TestPresentation
  <2> HIDE DEF on
  <2>2. CASE updated
    <3>1. PresentCursor(on)
      BY <2>2 DEF Pass, on
    <3> QED
      BY <2>1, <3>1 DEF PresentCursor, SetEnabled
  <2>3. CASE ~updated
    <3>1. presentedAs = LayerState(on) /\ UNCHANGED cursorVars
      BY <2>3 DEF Pass, on
    <3> QED
      BY <2>1, <3>1 DEF OffIsDisabled, LayerState, cursorVars, fieldVars
  <2> QED
    BY <2>2, <2>3
<1> QED
  BY <1>1, <1>2, <1>3, PTL DEF PointerSpec, HiddenWhileGrabbed
=============================================================================
