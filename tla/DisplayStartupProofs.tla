------------------------ MODULE DisplayStartupProofs ------------------------
(***************************************************************************)
(* Why no null global is used, why decisions agree and why every proxy is  *)
(* released, whatever the host lacks, whenever it hangs up and however     *)
(* many seats it announces.  The invariant says, for each stage of         *)
(* initialize(), what can be under way: the globals are handled once, in   *)
(* the first round trip, and what describes them before the second ends,   *)
(* unless the host hung up, after which nothing arrives any more.          *)
(***************************************************************************)
EXTENDS DisplayStartup, SequenceTheorems, TLAPS

OfferInv == outdated \subseteq {"wl_compositor", "linux_dmabuf"}

\* The thread runs from connect() to the destructor; no proxy outlives it.
ThreadInv ==
  /\ m_eventThread = FALSE => proxies = {}
  /\ pc \in RoundTrips \cup {"checks", "ready", "aborted"} => m_eventThread = TRUE
  /\ pc \in {"constructed", "crashed", "gone"} => m_eventThread = FALSE

\* The globals are still to be handled.
Unheard ==
  /\ \A i \in Interfaces : field[i] = 0
  /\ m_hasRdpRailShell = FALSE

\* They have been handled, all but the seat once.
Heard ==
  /\ \A i \in Interfaces \ {"wl_seat"} : field[i] = IF i \in offered \ outdated THEN 1 ELSE 0
  /\ m_hasRdpRailShell = offersRail

GlobalsInv ==
  /\ pc # "gone" => Unheard \/ Heard
  /\ pc = "constructed" => Unheard
  /\ pc = "gone" => \A i \in Interfaces : field[i] = 0

\* The host hung up and nothing it sent is left.
Silent == hostUp = FALSE /\ toClient = <<>>

FirstTrip ==
  \/ /\ Unheard
     /\ \/ toClient = <<>> /\ toHost = <<"get_registry", "sync">>
        \/ toClient = <<"globals">> /\ toHost = <<"sync">>
        \/ toClient = <<"globals", "done">> /\ toHost = <<>>
  \/ /\ Heard
     /\ \/ toClient = <<>> /\ toHost = <<"sync", "bind">>
        \/ toClient = <<"done">> /\ toHost = <<"bind">>
        \/ toClient = <<"done", "answers">> /\ toHost = <<>>

SecondTrip ==
  \/ /\ Heard
     /\ \/ toClient = <<>> /\ toHost = <<"bind", "sync">>
        \/ toClient = <<"answers">> /\ toHost = <<"sync">>
        \/ toClient = <<"answers", "done">> /\ toHost = <<>>
  \/ /\ Heard /\ answered = TRUE
     /\ \/ toClient = <<>> /\ toHost = <<"sync">>
        \/ toClient = <<"done">> /\ toHost = <<>>

\* At most one seat is under way, or what describes it.
Serving ==
  /\ answered = TRUE
  /\ \/ toClient = <<>> /\ toHost = <<>>
     \/ toClient = <<"seat">> /\ toHost = <<>> /\ field["wl_seat"] < MaxSeats
     \/ toClient = <<>> /\ toHost = <<"bind">>
     \/ toClient = <<"answers">> /\ toHost = <<>>

WireInv ==
  /\ pc = "constructed" => toClient = <<>> /\ toHost = <<>>
  /\ pc = "first round trip" => FirstTrip
  /\ pc = "second round trip" => SecondTrip \/ Silent
  /\ pc = "checks" => (answered = TRUE /\ toClient = <<>> /\ toHost = <<>>) \/ Silent
  /\ pc = "ready" => Serving \/ Silent

\* A display that initialize() accepted has what it insists on.
ReadyInv == pc = "ready" => Heard /\ \A i \in Required : Bound(i)

\* Decisions are made on a ready display, and would be made again.
DecisionInv ==
  /\ pc \notin {"ready", "gone"} => output = Absent /\ layer = Absent
  /\ pc = "ready" => output \in {Absent, Decision} /\ layer \in {Absent, Decision}
  /\ DecisionsInformed

IInv ==
  /\ TypeOK /\ OfferInv /\ ThreadInv /\ GlobalsInv /\ WireInv /\ ReadyInv
  /\ ProxiesOwned /\ DecisionInv
-----------------------------------------------------------------------------
(***************************************************************************)
(* Queues and proxies.                                                     *)
(***************************************************************************)

\* Taking from and adding to the short queues of a start.
LEMMA QueueFacts ==
  /\ \A a : Head(<<a>>) = a /\ Tail(<<a>>) = <<>> /\ <<a>> # <<>>
  /\ \A a, b : Head(<<a, b>>) = a /\ Tail(<<a, b>>) = <<b>> /\ <<a, b>> # <<>>
  /\ \A a : Append(<<>>, a) = <<a>>
  /\ \A a, b : Append(<<a>>, b) = <<a, b>>
<1>1. \A a : Head(<<a>>) = a /\ <<a>> # <<>>
  OBVIOUS
<1>2. \A a : Tail(<<a>>) = <<>>
  OBVIOUS
<1>3. \A a, b : Head(<<a, b>>) = a /\ <<a, b>> # <<>>
  OBVIOUS
<1>4. \A a, b : Tail(<<a, b>>) = <<b>>
  OBVIOUS
<1>5. \A a : Append(<<>>, a) = <<a>>
  OBVIOUS
<1>6. ASSUME NEW a, NEW b PROVE Append(<<a>>, b) = <<a, b>>
  <2> DEFINE s == Append(<<a>>, b)
             t == <<a, b>>
  <2>1. s \in Seq({a, b}) /\ t \in Seq({a, b})
    OBVIOUS
  <2>2. Len(s) = 2 /\ Len(t) = 2 /\ s[1] = t[1] /\ s[2] = t[2]
    OBVIOUS
  <2> HIDE DEF s, t
  <2>3. \A i \in 1 .. Len(s) : s[i] = t[i]
    BY <2>2
  <2> QED
    BY <2>1, <2>2, <2>3, SeqEqual DEF s, t
<1> QED
  BY <1>1, <1>2, <1>3, <1>4, <1>5, <1>6

Requests == {"get_registry", "bind", "sync"}
Events   == {"globals", "answers", "done", "seat"}

\* Short queues of requests and of events.
LEMMA QueueTypes ==
  /\ <<>> \in Seq(Requests) /\ <<>> \in Seq(Events)
  /\ \A a \in Requests : <<a>> \in Seq(Requests)
  /\ \A a, b \in Requests : <<a, b>> \in Seq(Requests)
  /\ \A a \in Events : <<a>> \in Seq(Events)
  /\ \A a, b \in Events : <<a, b>> \in Seq(Events)
<1>1. <<>> \in Seq(Requests) /\ <<>> \in Seq(Events)
  OBVIOUS
<1>2. \A a \in Requests : <<a>> \in Seq(Requests)
  OBVIOUS
<1>3. \A a, b \in Requests : <<a, b>> \in Seq(Requests)
  OBVIOUS
<1>4. \A a \in Events : <<a>> \in Seq(Events)
  OBVIOUS
<1>5. \A a, b \in Events : <<a, b>> \in Seq(Events)
  OBVIOUS
<1> QED
  BY <1>1, <1>2, <1>3, <1>4, <1>5

\* Binding the next proxy of some interfaces, of which those with a plain
\* member have none yet: one proxy more of each, and each held by its member.
LEMMA BindFacts ==
  ASSUME TypeOK, ProxiesOwned, NEW bound \in SUBSET Interfaces, Bind(bound),
         \A i \in bound : field[i] < MaxSeats,
         \A i \in bound \ {"wl_seat"} : field[i] = 0
  PROVE  /\ field' \in [Interfaces -> 0 .. MaxSeats]
         /\ \A i \in bound : field'[i] = field[i] + 1
         /\ \A i \in Interfaces \ bound : field'[i] = field[i]
         /\ proxies' \subseteq (Interfaces \cup {"registry"}) \X (1 .. MaxSeats)
         /\ \A p \in proxies' : p[1] # "registry" => field'[p[1]] = p[2]
<1>1. MaxSeats \in Nat \ {0} /\ field \in [Interfaces -> 0 .. MaxSeats]
  BY MaxSeatsAssumption DEF TypeOK
<1>2. field' = [i \in Interfaces |-> IF i \in bound THEN field[i] + 1 ELSE field[i]]
  BY DEF Bind
<1>3. \A i \in Interfaces : field'[i] \in 0 .. MaxSeats
  BY <1>1, <1>2
<1>4. field' \in [Interfaces -> 0 .. MaxSeats]
  BY <1>2, <1>3
<1>5. /\ \A i \in bound : field'[i] = field[i] + 1 /\ field'[i] \in 1 .. MaxSeats
      /\ \A i \in Interfaces \ bound : field'[i] = field[i]
  BY <1>1, <1>2
<1>6. ASSUME NEW p \in proxies'
      PROVE  /\ p \in (Interfaces \cup {"registry"}) \X (1 .. MaxSeats)
             /\ p[1] # "registry" => field'[p[1]] = p[2]
  <2>1. CASE \E i \in bound : p = <<i, field'[i]>>
    BY <1>5, <2>1
  <2>2. CASE p \in proxies /\ \A i \in bound \cap Owned : p # <<i, field[i]>>
    <3>1. p \in (Interfaces \cup {"registry"}) \X (1 .. MaxSeats)
      BY <2>2 DEF TypeOK
    <3>2. ASSUME p[1] # "registry" PROVE field'[p[1]] = p[2]
      <4>1. p[1] \in Interfaces /\ p = <<p[1], p[2]>> /\ p[2] # 0
        BY <3>1, <3>2
      <4>2. field[p[1]] = p[2]
        BY <2>2, <3>2 DEF ProxiesOwned
      <4>3. p[1] \notin bound \cap Owned
        BY <2>2, <4>1, <4>2
      <4>4. p[1] \notin bound \ {"wl_seat"}
        BY <4>1, <4>2
      <4>5. "wl_seat" \in Owned
        BY DEF Owned
      <4> QED
        BY <1>5, <4>1, <4>2, <4>3, <4>4, <4>5
    <3> QED
      BY <3>1, <3>2
  <2> QED
    BY <2>1, <2>2 DEF Bind
<1> QED
  BY <1>4, <1>5, <1>6

-----------------------------------------------------------------------------
(***************************************************************************)
(* Each action keeps the invariant.                                        *)
(***************************************************************************)

\* The invariant holds at first.
LEMMA InvInit == Init => IInv
<1> SUFFICES ASSUME Init PROVE IInv
  OBVIOUS
<1> USE MaxSeatsAssumption
<1>1. TypeOK
  <2>1. toHost \in Seq({"get_registry", "bind", "sync"})
        /\ toClient \in Seq({"globals", "answers", "done", "seat"})
    BY DEF Init
  <2>2. offered \subseteq Interfaces /\ outdated \subseteq offered
    BY DEF Init
  <2>3. field \in [Interfaces -> 0 .. MaxSeats] /\ \A i \in Interfaces : field[i] <= 1
    BY DEF Init
  <2>4. output \in Decisions /\ layer \in Decisions
    BY DEF Init, Decisions
  <2> QED
    BY <2>1, <2>2, <2>3, <2>4 DEF Init, TypeOK
<1>2. Unheard
  BY DEF Init, Unheard
<1>3. OfferInv /\ ThreadInv /\ WireInv /\ ReadyInv /\ ProxiesOwned
  BY DEF Init, OfferInv, ThreadInv, WireInv, ReadyInv, ProxiesOwned, RoundTrips
<1>4. GlobalsInv /\ DecisionInv
  BY <1>2 DEF Init, GlobalsInv, DecisionInv, DecisionsInformed
<1> QED
  BY <1>1, <1>3, <1>4 DEF IInv

\* The connection fails.
LEMMA ConnectFailsStep == IInv /\ ConnectFails => IInv'
<1> SUFFICES ASSUME IInv, ConnectFails PROVE IInv'
  OBVIOUS
<1>1. TypeOK' /\ OfferInv' /\ ProxiesOwned'
  BY DEF IInv, ConnectFails, TypeOK, OfferInv, ProxiesOwned, hostVars, globals, wire, screen
<1>2. ThreadInv' /\ WireInv' /\ ReadyInv'
  BY DEF IInv, ConnectFails, ThreadInv, WireInv, ReadyInv, hostVars, globals, RoundTrips
<1>3. GlobalsInv' /\ DecisionInv'
  BY DEF IInv, ConnectFails, GlobalsInv, Unheard, DecisionInv, DecisionsInformed, hostVars,
         globals, screen
<1> QED
  BY <1>1, <1>2, <1>3 DEF IInv

\* The connection is made: the thread starts, and the first round trip.
LEMMA ConnectStep == IInv /\ Connect => IInv'
<1> SUFFICES ASSUME IInv, Connect PROVE IInv'
  OBVIOUS
<1>1. TypeOK'
  <2>1. <<"registry", 1>> \in (Interfaces \cup {"registry"}) \X (1 .. MaxSeats)
    BY MaxSeatsAssumption
  <2>2. toHost' \in Seq({"get_registry", "bind", "sync"})
    <3>1. <<"get_registry", "sync">> \in Seq({"get_registry", "bind", "sync"})
      OBVIOUS
    <3> QED
      BY <3>1 DEF Connect
  <2> QED
    BY <2>1, <2>2 DEF IInv, Connect, TypeOK, RoundTrips, hostVars, screen
<1>2. OfferInv' /\ ThreadInv' /\ ReadyInv' /\ ProxiesOwned'
  <2>1. OfferInv' /\ ReadyInv'
    BY DEF IInv, Connect, OfferInv, ReadyInv, hostVars
  <2>2. ThreadInv'
    BY DEF Connect, ThreadInv
  <2>3. ProxiesOwned'
    <3>1. \A p : p = <<"registry", 1>> => p[1] = "registry"
      OBVIOUS
    <3>2. pc' # "gone" /\ \A p \in proxies' : p = <<"registry", 1>>
      BY DEF Connect
    <3> QED
      BY <3>1, <3>2 DEF ProxiesOwned
  <2> QED
    BY <2>1, <2>2, <2>3
<1>3. Unheard'
  BY DEF IInv, Connect, GlobalsInv, Unheard
<1>4. WireInv'
  <2>1. toClient' = <<>> /\ toHost' = <<"get_registry", "sync">>
    BY DEF Connect, IInv, WireInv
  <2> QED
    BY <1>3, <2>1 DEF Connect, WireInv, FirstTrip
<1>5. GlobalsInv' /\ DecisionInv'
  BY <1>3 DEF IInv, Connect, GlobalsInv, DecisionInv, DecisionsInformed, hostVars, screen
<1> QED
  BY <1>1, <1>2, <1>4, <1>5 DEF IInv

\* The kinds of event that are dispatched.
Dispatching ==
  /\ pc \in RoundTrips \cup {"ready"}
  /\ toClient # <<>>
  /\ UNCHANGED <<hostVars, hostUp, m_eventThread, screen>>
DispatchGlobals   == Dispatching /\ HandleGlobals
DispatchSeat      == Dispatching /\ HandleSeat
DispatchAnswers   == Dispatching /\ HandleAnswers
DispatchRoundTrip == Dispatching /\ RoundTripDone

\* What an event finds: in each stage it is the first of what can be under way.
LEMMA HeadFacts ==
  ASSUME IInv, Dispatching
  PROVE  \/ /\ pc = "first round trip" /\ Unheard /\ Head(toClient) = "globals"
            /\ \/ Tail(toClient) = <<>> /\ toHost = <<"sync">>
               \/ Tail(toClient) = <<"done">> /\ toHost = <<>>
         \/ /\ pc = "first round trip" /\ Heard /\ Head(toClient) = "done"
            /\ \/ Tail(toClient) = <<>> /\ toHost = <<"bind">>
               \/ Tail(toClient) = <<"answers">> /\ toHost = <<>>
         \/ /\ pc = "second round trip" /\ Heard /\ Head(toClient) = "answers"
            /\ \/ Tail(toClient) = <<>> /\ toHost = <<"sync">>
               \/ Tail(toClient) = <<"done">> /\ toHost = <<>>
         \/ /\ pc = "second round trip" /\ Heard /\ answered = TRUE /\ Head(toClient) = "done"
            /\ Tail(toClient) = <<>> /\ toHost = <<>>
         \/ /\ pc = "ready" /\ Heard /\ answered = TRUE /\ Head(toClient) = "seat"
            /\ Tail(toClient) = <<>> /\ toHost = <<>> /\ field["wl_seat"] < MaxSeats
         \/ /\ pc = "ready" /\ Heard /\ answered = TRUE /\ Head(toClient) = "answers"
            /\ Tail(toClient) = <<>> /\ toHost = <<>>
<1>1. toClient # <<>> /\ pc \in {"first round trip", "second round trip", "ready"}
  BY DEF Dispatching, RoundTrips
<1>2. CASE pc = "first round trip"
  <2>1. FirstTrip
    BY <1>2 DEF IInv, WireInv
  <2>2. /\ toClient = <<"globals">> => Head(toClient) = "globals" /\ Tail(toClient) = <<>>
        /\ toClient = <<"done">> => Head(toClient) = "done" /\ Tail(toClient) = <<>>
    BY QueueFacts
  <2>3. /\ toClient = <<"globals", "done">> =>
             Head(toClient) = "globals" /\ Tail(toClient) = <<"done">>
        /\ toClient = <<"done", "answers">> =>
             Head(toClient) = "done" /\ Tail(toClient) = <<"answers">>
    BY QueueFacts
  <2> QED
    BY <1>1, <1>2, <2>1, <2>2, <2>3 DEF FirstTrip
<1>3. CASE pc = "second round trip"
  <2>1. SecondTrip
    BY <1>1, <1>3 DEF IInv, WireInv, Silent
  <2> QED
    BY <1>1, <1>3, <2>1, QueueFacts DEF SecondTrip
<1>4. CASE pc = "ready"
  <2>1. Serving /\ Heard
    BY <1>1, <1>4 DEF IInv, WireInv, ReadyInv, Silent
  <2> QED
    BY <1>1, <1>4, <2>1, QueueFacts DEF Serving
<1> QED
  BY <1>1, <1>2, <1>3, <1>4

\* registry_global() for the first globals: the process ends, or they are bound.
LEMMA DispatchGlobalsStep ==
  ASSUME IInv, DispatchGlobals
  PROVE  IInv'
<1>0. /\ toClient' = Tail(toClient) /\ Head(toClient) = "globals"
      /\ UNCHANGED <<hostVars, hostUp, m_eventThread, screen>>
  BY DEF DispatchGlobals, Dispatching, HandleGlobals
<1>1. /\ pc = "first round trip" /\ Unheard
      /\ \/ toClient' = <<>> /\ toHost = <<"sync">>
         \/ toClient' = <<"done">> /\ toHost = <<>>
  <2>1. Dispatching
    BY DEF DispatchGlobals
  <2> QED
    BY <1>0, <2>1, HeadFacts
<1>3. CASE "wl_compositor" \in outdated
  <2>1. pc' = "aborted" /\ UNCHANGED <<globals, toHost, answered, hostVars, hostUp, m_eventThread, screen>>
    BY <1>0, <1>3 DEF DispatchGlobals, HandleGlobals
  <2>2. TypeOK'
    <3>1. toClient' \in Seq(Events)
      BY <1>1, QueueTypes DEF Events
    <3> QED
      BY <2>1, <3>1 DEF IInv, TypeOK, Events, hostVars, globals, screen
  <2>3. OfferInv' /\ ThreadInv' /\ WireInv' /\ ReadyInv' /\ ProxiesOwned'
    <3>1. OfferInv' /\ ThreadInv'
      BY <1>1, <2>1 DEF IInv, OfferInv, ThreadInv, hostVars, globals, RoundTrips
    <3>2. WireInv' /\ ReadyInv'
      BY <2>1 DEF WireInv, ReadyInv
    <3>3. ProxiesOwned'
      BY <2>1 DEF IInv, ProxiesOwned, globals
    <3> QED
      BY <3>1, <3>2, <3>3
  <2>4. GlobalsInv' /\ DecisionInv'
    BY <1>1, <2>1 DEF IInv, GlobalsInv, Unheard, DecisionInv, DecisionsInformed, hostVars,
                      globals, screen
  <2> QED
    BY <2>2, <2>3, <2>4 DEF IInv
<1>4. CASE "wl_compositor" \notin outdated
  <2> DEFINE bound == offered \ outdated
  <2>1. /\ Bind(bound) /\ m_hasRdpRailShell' = offersRail
        /\ UNCHANGED <<pc, answered, hostVars, hostUp, m_eventThread, screen>>
    BY <1>0, <1>4 DEF DispatchGlobals, HandleGlobals
  <2>2. /\ field' \in [Interfaces -> 0 .. MaxSeats]
        /\ \A i \in bound : field'[i] = 1
        /\ \A i \in Interfaces \ bound : field'[i] = 0
        /\ proxies' \subseteq (Interfaces \cup {"registry"}) \X (1 .. MaxSeats)
        /\ \A p \in proxies' : p[1] # "registry" => field'[p[1]] = p[2]
    <3>1. bound \in SUBSET Interfaces
      BY DEF IInv, TypeOK
    <3>2. \A i \in Interfaces : field[i] = 0 /\ field[i] < MaxSeats
      <4>1. \A i \in Interfaces : field[i] = 0
        BY <1>1 DEF Unheard
      <4> QED
        BY <4>1, MaxSeatsAssumption
    <3>3. TypeOK /\ ProxiesOwned
      BY DEF IInv
    <3> HIDE DEF bound
    <3>4. /\ \A i \in bound : field[i] < MaxSeats
          /\ \A i \in bound \ {"wl_seat"} : field[i] = 0
      BY <3>1, <3>2
    <3>5. /\ field' \in [Interfaces -> 0 .. MaxSeats]
          /\ \A i \in bound : field'[i] = field[i] + 1
          /\ \A i \in Interfaces \ bound : field'[i] = field[i]
          /\ proxies' \subseteq (Interfaces \cup {"registry"}) \X (1 .. MaxSeats)
          /\ \A p \in proxies' : p[1] # "registry" => field'[p[1]] = p[2]
      BY <2>1, <3>1, <3>3, <3>4, BindFacts
    <3> QED
      BY <3>1, <3>2, <3>5
  <2>3. Heard'
    <3>1. \A i \in Interfaces \ {"wl_seat"} :
            field'[i] = IF i \in offered' \ outdated' THEN 1 ELSE 0
      BY <2>1, <2>2 DEF hostVars
    <3> QED
      BY <2>1, <3>1 DEF Heard, hostVars
  <2>4. \/ toClient' = <<>> /\ toHost' = <<"sync", "bind">>
        \/ toClient' = <<"done">> /\ toHost' = <<"bind">>
    BY <1>1, <2>1, QueueFacts DEF Bind
  <2>5. TypeOK'
    <3>1. toClient' \in Seq(Events) /\ toHost' \in Seq(Requests)
      BY <2>4, QueueTypes DEF Events, Requests
    <3>2. \A i \in Interfaces \ {"wl_seat"} : field'[i] <= 1
      <4> HIDE DEF bound
      <4> QED
        BY <2>2
    <3>3. m_hasRdpRailShell' \in BOOLEAN
      BY <2>1 DEF IInv, TypeOK
    <3> QED
      BY <2>1, <2>2, <3>1, <3>2, <3>3 DEF IInv, TypeOK, Events, Requests, hostVars, screen
  <2>6. OfferInv' /\ ThreadInv' /\ WireInv' /\ ReadyInv'
    <3>1. OfferInv' /\ ThreadInv'
      BY <1>1, <2>1 DEF IInv, OfferInv, ThreadInv, hostVars, RoundTrips
    <3>2. FirstTrip'
      BY <2>3, <2>4 DEF FirstTrip
    <3> QED
      BY <1>1, <2>1, <3>1, <3>2 DEF WireInv, ReadyInv
  <2>7. GlobalsInv' /\ DecisionInv' /\ ProxiesOwned'
    <3>1. GlobalsInv' /\ ProxiesOwned'
      BY <1>1, <2>1, <2>2, <2>3 DEF GlobalsInv, ProxiesOwned
    <3>2. DecisionInv'
      BY <1>1, <2>1 DEF IInv, DecisionInv, DecisionsInformed, hostVars, screen
    <3> QED
      BY <3>1, <3>2
  <2> QED
    BY <2>5, <2>6, <2>7 DEF IInv
<1> QED
  BY <1>3, <1>4

\* registry_global() for a further seat.
LEMMA DispatchSeatStep ==
  ASSUME IInv, DispatchSeat
  PROVE  IInv'
<1>0. /\ toClient' = Tail(toClient) /\ Head(toClient) = "seat" /\ Bind({"wl_seat"})
      /\ UNCHANGED <<hostVars, hostUp, m_eventThread, screen, pc, m_hasRdpRailShell, answered>>
  BY DEF DispatchSeat, Dispatching, HandleSeat
<1>1. /\ pc = "ready" /\ Heard /\ answered = TRUE
      /\ toClient' = <<>> /\ toHost = <<>> /\ field["wl_seat"] < MaxSeats
  <2>1. Dispatching
    BY DEF DispatchSeat
  <2> QED
    BY <1>0, <2>1, HeadFacts
<1>2. /\ field' \in [Interfaces -> 0 .. MaxSeats]
      /\ field'["wl_seat"] = field["wl_seat"] + 1
      /\ \A i \in Interfaces \ {"wl_seat"} : field'[i] = field[i]
      /\ proxies' \subseteq (Interfaces \cup {"registry"}) \X (1 .. MaxSeats)
      /\ \A p \in proxies' : p[1] # "registry" => field'[p[1]] = p[2]
  <2> DEFINE bound == {"wl_seat"}
  <2>1. bound \in SUBSET Interfaces
    BY DEF Interfaces, Owned
  <2>2. /\ \A i \in bound : field[i] < MaxSeats
        /\ \A i \in bound \ {"wl_seat"} : field[i] = 0
    BY <1>1
  <2>3. TypeOK /\ ProxiesOwned
    BY DEF IInv
  <2>4. /\ field' \in [Interfaces -> 0 .. MaxSeats]
        /\ \A i \in bound : field'[i] = field[i] + 1
        /\ \A i \in Interfaces \ bound : field'[i] = field[i]
        /\ proxies' \subseteq (Interfaces \cup {"registry"}) \X (1 .. MaxSeats)
        /\ \A p \in proxies' : p[1] # "registry" => field'[p[1]] = p[2]
    BY <1>0, <2>1, <2>2, <2>3, BindFacts
  <2> QED
    BY <2>4
<1>3. toHost' = <<"bind">>
  BY <1>0, <1>1, QueueFacts DEF Bind
<1>4. TypeOK'
  <2>1. toClient' \in Seq(Events) /\ toHost' \in Seq(Requests)
    BY <1>1, <1>3, QueueTypes DEF Events, Requests
  <2>2. \A i \in Interfaces \ {"wl_seat"} : field'[i] <= 1
    BY <1>2 DEF IInv, TypeOK
  <2> QED
    BY <1>0, <1>2, <2>1, <2>2 DEF IInv, TypeOK, Events, Requests, hostVars, screen
<1>5. Heard'
  BY <1>0, <1>1, <1>2 DEF Heard, hostVars
<1>6. OfferInv' /\ ThreadInv'
  BY <1>0, <1>1 DEF IInv, OfferInv, ThreadInv, hostVars
<1>7. WireInv'
  BY <1>0, <1>1, <1>3 DEF WireInv, Serving
<1>8. ReadyInv'
  <2>1. \A i \in Required : field'[i] # 0
    <3>1. \A i \in Required : i \in Interfaces /\ field[i] # 0
      BY <1>1 DEF IInv, ReadyInv, Bound, Required, Interfaces, Owned, Plain
    <3>2. field["wl_seat"] \in Nat
      BY DEF IInv, TypeOK, Interfaces, Owned
    <3> QED
      BY <1>2, <3>1, <3>2
  <2> QED
    BY <1>5, <2>1 DEF ReadyInv, Bound
<1>9. GlobalsInv' /\ ProxiesOwned'
  BY <1>0, <1>1, <1>2, <1>5 DEF GlobalsInv, ProxiesOwned
<1>10. DecisionInv'
  <2>1. Decision' = Decision
    BY <1>0, <1>2 DEF Decision, SupportsMinFeatures, Bound, Interfaces, Owned
  <2> QED
    BY <1>0, <2>1 DEF IInv, DecisionInv, DecisionsInformed, hostVars, screen
<1> QED
  BY <1>4, <1>6, <1>7, <1>8, <1>9, <1>10 DEF IInv

\* The host describes the globals, or the seat that came later.
LEMMA DispatchAnswersStep ==
  ASSUME IInv, DispatchAnswers
  PROVE  IInv'
<1>0. /\ toClient' = Tail(toClient) /\ Head(toClient) = "answers" /\ answered' = TRUE
      /\ UNCHANGED <<hostVars, hostUp, m_eventThread, screen, pc, globals, toHost>>
  BY DEF DispatchAnswers, Dispatching, HandleAnswers
<1>1. \/ /\ pc = "second round trip" /\ Heard
         /\ \/ toClient' = <<>> /\ toHost = <<"sync">>
            \/ toClient' = <<"done">> /\ toHost = <<>>
      \/ pc = "ready" /\ Heard /\ answered = TRUE /\ toClient' = <<>> /\ toHost = <<>>
  <2>1. Dispatching
    BY DEF DispatchAnswers
  <2> QED
    BY <1>0, <2>1, HeadFacts
<1>2. TypeOK'
  <2>1. toClient' \in Seq(Events)
    BY <1>1, QueueTypes DEF Events
  <2> QED
    BY <1>0, <2>1 DEF IInv, TypeOK, Events, hostVars, screen, globals
<1>3. Heard'
  BY <1>0, <1>1 DEF Heard, hostVars, globals
<1>4. OfferInv' /\ ThreadInv'
  BY <1>0, <1>1 DEF IInv, OfferInv, ThreadInv, hostVars, globals
<1>5. WireInv'
  <2>1. CASE pc = "second round trip"
    BY <1>0, <1>1, <1>3, <2>1 DEF WireInv, SecondTrip
  <2>2. CASE pc = "ready"
    BY <1>0, <1>1, <2>2 DEF WireInv, Serving
  <2> QED
    BY <1>1, <2>1, <2>2
<1>6. ReadyInv' /\ GlobalsInv' /\ ProxiesOwned'
  BY <1>0, <1>1, <1>3 DEF IInv, ReadyInv, Bound, GlobalsInv, ProxiesOwned, globals
<1>7. DecisionInv'
  <2>1. CASE pc = "second round trip"
    BY <1>0, <2>1 DEF IInv, DecisionInv, DecisionsInformed, hostVars, screen
  <2>2. CASE pc = "ready"
    <3>1. Decision' = Decision
      BY <1>0, <1>1, <2>2 DEF Decision, SupportsMinFeatures, Bound, globals
    <3> QED
      BY <1>0, <3>1 DEF IInv, DecisionInv, DecisionsInformed, hostVars, screen
  <2> QED
    BY <1>1, <2>1, <2>2
<1> QED
  BY <1>2, <1>4, <1>5, <1>6, <1>7 DEF IInv

\* A round trip ends and the next stage begins.
LEMMA DispatchRoundTripStep ==
  ASSUME IInv, DispatchRoundTrip
  PROVE  IInv'
<1>0. /\ toClient' = Tail(toClient) /\ Head(toClient) = "done" /\ NextStage
      /\ UNCHANGED <<hostVars, hostUp, m_eventThread, screen, globals, answered>>
  BY DEF DispatchRoundTrip, Dispatching, RoundTripDone
<1>1. \/ /\ pc = "first round trip" /\ Heard
         /\ \/ toClient' = <<>> /\ toHost = <<"bind">>
            \/ toClient' = <<"answers">> /\ toHost = <<>>
      \/ /\ pc = "second round trip" /\ Heard /\ answered = TRUE
         /\ toClient' = <<>> /\ toHost = <<>>
  <2>1. Dispatching
    BY DEF DispatchRoundTrip
  <2> QED
    BY <1>0, <2>1, HeadFacts
<1>2. Heard'
  BY <1>0, <1>1 DEF Heard, hostVars, globals
<1>3. \/ /\ pc' = "second round trip" /\ Heard'
         /\ \/ toClient' = <<>> /\ toHost' = <<"bind", "sync">>
            \/ toClient' = <<"answers">> /\ toHost' = <<"sync">>
      \/ pc' = "checks" /\ answered' = TRUE /\ toClient' = <<>> /\ toHost' = <<>>
  <2>1. CASE pc = "first round trip"
    <3>1. pc' = "second round trip" /\ toHost' = Append(toHost, "sync")
      BY <1>0, <2>1 DEF NextStage
    <3>2. /\ toHost = <<"bind">> => toHost' = <<"bind", "sync">>
          /\ toHost = <<>> => toHost' = <<"sync">>
      BY <3>1, QueueFacts
    <3> QED
      BY <1>1, <1>2, <2>1, <3>1, <3>2
  <2>2. CASE pc = "second round trip"
    BY <1>0, <1>1, <2>2 DEF NextStage
  <2> QED
    BY <1>1, <2>1, <2>2
<1>4. TypeOK'
  <2>1. toClient' \in Seq(Events) /\ toHost' \in Seq(Requests)
    BY <1>3, QueueTypes DEF Events, Requests
  <2>2. pc' \in RoundTrips \cup {"checks"}
    BY <1>3 DEF RoundTrips
  <2> QED
    BY <1>0, <2>1, <2>2 DEF IInv, TypeOK, Events, Requests, hostVars, screen, globals
<1>5. OfferInv' /\ ThreadInv'
  BY <1>0, <1>1, <1>3 DEF IInv, OfferInv, ThreadInv, hostVars, globals, RoundTrips
<1>6. WireInv'
  <2>1. pc' = "second round trip" => SecondTrip'
    BY <1>3 DEF SecondTrip
  <2> QED
    BY <1>3, <2>1 DEF WireInv
<1>7. ReadyInv' /\ GlobalsInv' /\ ProxiesOwned'
  BY <1>0, <1>2, <1>3 DEF IInv, ReadyInv, GlobalsInv, ProxiesOwned, globals
<1>8. DecisionInv'
  BY <1>0, <1>1, <1>3 DEF IInv, DecisionInv, DecisionsInformed, hostVars, screen
<1> QED
  BY <1>4, <1>5, <1>6, <1>7, <1>8 DEF IInv

\* The host is gone: nothing will come, and the next stage begins all the same.
LEMMA RoundTripFailsStep ==
  ASSUME IInv, RoundTripFails
  PROVE  IInv'
<1>0. /\ pc \in RoundTrips /\ hostUp = FALSE /\ toClient = <<>> /\ NextStage
      /\ UNCHANGED <<hostVars, hostUp, m_eventThread, globals, answered, toClient, screen>>
  BY DEF RoundTripFails, IInv, TypeOK
<1>1. pc' \in {"second round trip", "checks"}
  BY <1>0 DEF NextStage
<1>2. Silent'
  BY <1>0 DEF Silent
<1>3. TypeOK'
  <2>1. toHost' \in Seq(Requests)
    <3>1. toHost \in Seq(Requests) /\ "sync" \in Requests
      BY DEF IInv, TypeOK, Requests
    <3>2. Append(toHost, "sync") \in Seq(Requests)
      BY <3>1
    <3>3. toHost' \in {toHost, Append(toHost, "sync")}
      BY <1>0 DEF NextStage
    <3> QED
      BY <3>1, <3>2, <3>3
  <2> QED
    BY <1>0, <1>1, <2>1 DEF IInv, TypeOK, Requests, RoundTrips, hostVars, globals, screen
<1>4. OfferInv' /\ ThreadInv'
  BY <1>0, <1>1 DEF IInv, OfferInv, ThreadInv, hostVars, globals
<1>5. WireInv' /\ ReadyInv'
  BY <1>1, <1>2 DEF WireInv, ReadyInv
<1>6. GlobalsInv' /\ ProxiesOwned'
  BY <1>0, <1>1 DEF IInv, GlobalsInv, Unheard, Heard, ProxiesOwned, hostVars, globals, RoundTrips
<1>7. DecisionInv'
  BY <1>0, <1>1 DEF IInv, DecisionInv, DecisionsInformed, hostVars, screen, RoundTrips
<1> QED
  BY <1>3, <1>4, <1>5, <1>6, <1>7 DEF IInv

\* What initialize() insists on is there only once the globals were handled.
LEMMA CheckStep ==
  ASSUME IInv, Check
  PROVE  IInv'
<1>0. /\ pc = "checks" /\ pc' \in {"ready", "refused"}
      /\ pc' = "ready" => \A i \in Required : Bound(i)
      /\ UNCHANGED <<hostVars, hostUp, m_eventThread, globals, answered, wire, screen>>
  BY DEF Check
<1>1. TypeOK' /\ OfferInv' /\ ThreadInv'
  BY <1>0 DEF IInv, TypeOK, OfferInv, ThreadInv, hostVars, globals, wire, screen
<1>2. GlobalsInv' /\ ProxiesOwned'
  BY <1>0 DEF IInv, GlobalsInv, Unheard, Heard, ProxiesOwned, hostVars, globals
<1>3. ReadyInv'
  <2> SUFFICES ASSUME pc' = "ready"
               PROVE  Heard' /\ \A i \in Required : Bound(i)'
    BY DEF ReadyInv
  <2>1. \A i \in Required : Bound(i)
    BY <1>0
  <2>2. "wl_compositor" \in Interfaces /\ field["wl_compositor"] # 0
    BY <2>1 DEF Required, Bound, Interfaces, Owned
  <2>3. Heard
    BY <1>0, <2>2 DEF IInv, GlobalsInv, Unheard
  <2> QED
    BY <1>0, <2>1, <2>3 DEF Heard, Bound, hostVars, globals
<1>4. WireInv'
  <2>1. (answered = TRUE /\ toClient = <<>> /\ toHost = <<>>) \/ Silent
    BY <1>0 DEF IInv, WireInv
  <2>2. Serving' \/ Silent'
    BY <1>0, <2>1 DEF Serving, Silent, wire
  <2> QED
    BY <1>0, <2>2 DEF WireInv
<1>5. DecisionInv'
  BY <1>0 DEF IInv, DecisionInv, DecisionsInformed, hostVars, screen
<1> QED
  BY <1>1, <1>2, <1>3, <1>4, <1>5 DEF IInv

\* A ready display knows whether the host is RAIL, and, as long as the host is
\* there, whether it manages colours.
LEMMA ReadyIsInformed ==
  ASSUME IInv, pc = "ready"
  PROVE  /\ ("rail" \in Decision) = offersRail
         /\ hostUp => ("color" \in Decision) = ("color_manager" \in offered)
         /\ Decision \in Decisions
<1>1. Heard /\ offersRail \in BOOLEAN
  BY DEF IInv, ReadyInv, TypeOK
<1>2. ("rail" \in Decision) = offersRail
  BY <1>1 DEF Decision, Heard
<1>3. ASSUME hostUp
      PROVE  ("color" \in Decision) = ("color_manager" \in offered)
  <2>1. answered = TRUE
    BY <1>3 DEF IInv, WireInv, Silent, Serving
  <2>2. Bound("color_manager") <=> "color_manager" \in offered
    BY <1>1 DEF IInv, OfferInv, Heard, Bound, Interfaces, Owned
  <2> QED
    BY <2>1, <2>2 DEF Decision, SupportsMinFeatures
<1>4. Decision \in Decisions
  BY DEF Decision, Decisions
<1> QED
  BY <1>2, <1>3, <1>4

\* Output and layer decide.
LEMMA CreateStep ==
  ASSUME IInv, CreateOutput \/ CreateLayer
  PROVE  IInv'
<1>0. /\ pc = "ready"
      /\ UNCHANGED <<hostVars, hostUp, pc, m_eventThread, globals, answered, wire>>
      /\ output' \in {output, Decision} /\ layer' \in {layer, Decision}
  BY DEF CreateOutput, CreateLayer
<1>1. TypeOK'
  BY <1>0, ReadyIsInformed DEF IInv, TypeOK, hostVars, globals, wire
<1>2. OfferInv' /\ ThreadInv' /\ GlobalsInv' /\ ReadyInv' /\ ProxiesOwned'
  BY <1>0 DEF IInv, OfferInv, ThreadInv, GlobalsInv, Unheard, Heard, ReadyInv, Bound,
              ProxiesOwned, hostVars, globals
<1>3. WireInv'
  BY <1>0 DEF IInv, WireInv, Serving, Silent, globals, wire
<1>4. DecisionInv'
  <2>1. Decision' = Decision
    BY <1>0 DEF Decision, SupportsMinFeatures, Bound, globals
  <2>2. output' \in {Absent, Decision} /\ layer' \in {Absent, Decision}
    BY <1>0 DEF IInv, DecisionInv
  <2> QED
    BY <1>0, <2>1, <2>2, ReadyIsInformed DEF DecisionInv, DecisionsInformed, hostVars
<1> QED
  BY <1>1, <1>2, <1>3, <1>4 DEF IInv

\* Every member is released: no proxy is left.
LEMMA DestroyStep ==
  ASSUME IInv, Destroy
  PROVE  IInv'
<1>0. /\ pc \in {"ready", "refused"}
      /\ UNCHANGED <<hostVars, hostUp, m_hasRdpRailShell, answered, wire, screen>>
  BY DEF Destroy
<1>1. CASE m_eventThread
  <2>1. /\ pc' = "gone" /\ m_eventThread' = FALSE
        /\ proxies' = {p \in proxies : /\ p[1] # "registry"
                                       /\ \A i \in Released : p # <<i, field[i]>>}
        /\ field' = [i \in Interfaces |-> IF i \in Released THEN 0 ELSE field[i]]
    BY <1>1 DEF Destroy
  <2>2. proxies' = {}
    <3>1. ASSUME NEW p \in proxies, p[1] # "registry"
          PROVE  \E i \in Released : p = <<i, field[i]>>
      <4>1. p \in (Interfaces \cup {"registry"}) \X (1 .. MaxSeats)
        BY DEF IInv, TypeOK
      <4>2. p[1] \in Interfaces /\ p = <<p[1], p[2]>>
        BY <3>1, <4>1
      <4>3. field[p[1]] = p[2]
        BY <3>1 DEF IInv, ProxiesOwned
      <4> QED
        BY <4>2, <4>3 DEF Released, Interfaces
    <3> QED
      BY <2>1, <3>1
  <2>3. \A i \in Interfaces : field'[i] = 0
    BY <2>1 DEF Released, Interfaces
  <2>4. field' \in [Interfaces -> 0 .. MaxSeats]
    <3>1. \A i \in Interfaces : field'[i] \in 0 .. MaxSeats
      BY <2>3, MaxSeatsAssumption
    <3> QED
      BY <2>1, <3>1
  <2>5. TypeOK'
    <3>1. proxies' \subseteq (Interfaces \cup {"registry"}) \X (1 .. MaxSeats)
      BY <2>2
    <3>2. \A i \in Interfaces \ {"wl_seat"} : field'[i] <= 1
      BY <2>3
    <3> QED
      BY <1>0, <2>1, <2>4, <3>1, <3>2 DEF IInv, TypeOK, hostVars, wire, screen
  <2>6. OfferInv' /\ ThreadInv' /\ GlobalsInv' /\ WireInv' /\ ReadyInv' /\ ProxiesOwned'
    BY <1>0, <2>1, <2>2, <2>3 DEF IInv, OfferInv, ThreadInv, GlobalsInv, WireInv, ReadyInv,
                                  ProxiesOwned, hostVars, RoundTrips
  <2>7. DecisionInv'
    BY <1>0, <2>1 DEF IInv, DecisionInv, DecisionsInformed, hostVars, screen
  <2> QED
    BY <2>5, <2>6, <2>7 DEF IInv
<1>2. CASE ~m_eventThread
  <2>1. pc' = "crashed" /\ UNCHANGED <<m_eventThread, proxies, field>>
    BY <1>2 DEF Destroy
  <2>2. pc = "refused" /\ proxies = {} /\ m_eventThread = FALSE
    BY <1>0, <1>2 DEF IInv, TypeOK, ThreadInv
  <2>3. TypeOK' /\ OfferInv' /\ ThreadInv' /\ ReadyInv' /\ ProxiesOwned'
    BY <1>0, <2>1, <2>2 DEF IInv, TypeOK, OfferInv, ThreadInv, ReadyInv, ProxiesOwned, hostVars,
                            wire, screen, RoundTrips
  <2>4. GlobalsInv' /\ WireInv'
    BY <1>0, <2>1, <2>2 DEF IInv, GlobalsInv, Unheard, Heard, WireInv, hostVars
  <2>5. DecisionInv'
    BY <1>0, <2>1, <2>2 DEF IInv, DecisionInv, DecisionsInformed, hostVars, screen
  <2> QED
    BY <2>3, <2>4, <2>5 DEF IInv
<1> QED
  BY <1>1, <1>2

\* The host answers a request.
LEMMA HostAnswersStep ==
  ASSUME IInv, HostAnswers
  PROVE  IInv'
<1>0. /\ hostUp = TRUE /\ toHost # <<>>
      /\ toHost' = Tail(toHost) /\ toClient' = Append(toClient, Answer(Head(toHost)))
      /\ UNCHANGED <<hostVars, hostUp, pc, m_eventThread, globals, answered, screen>>
  BY DEF HostAnswers, IInv, TypeOK
<1>1. TypeOK'
  <2>1. toHost \in Seq(Requests) /\ toClient \in Seq(Events)
    BY DEF IInv, TypeOK, Requests, Events
  <2>2. Head(toHost) \in Requests /\ toHost' \in Seq(Requests)
    BY <1>0, <2>1
  <2>3. Answer(Head(toHost)) \in Events
    BY <2>2 DEF Answer, Requests, Events
  <2>4. toClient' \in Seq(Events)
    BY <1>0, <2>1, <2>3
  <2> QED
    BY <1>0, <2>2, <2>4 DEF IInv, TypeOK, Requests, Events, hostVars, globals, screen
<1>2. OfferInv' /\ ThreadInv' /\ GlobalsInv' /\ ReadyInv' /\ ProxiesOwned'
  BY <1>0 DEF IInv, OfferInv, ThreadInv, GlobalsInv, Unheard, Heard, ReadyInv, Bound,
              ProxiesOwned, hostVars, globals
<1>3. ~Silent
  BY <1>0 DEF Silent
<1>4. /\ Answer("get_registry") = "globals" /\ Answer("bind") = "answers"
      /\ Answer("sync") = "done"
  BY DEF Answer
<1>5. /\ \A a : toHost = <<a>> => toHost' = <<>> /\ toClient' = Append(toClient, Answer(a))
      /\ \A a, b : toHost = <<a, b>> =>
           toHost' = <<b>> /\ toClient' = Append(toClient, Answer(a))
  BY <1>0, QueueFacts
<1>6. Unheard' = Unheard /\ Heard' = Heard
  BY <1>0 DEF Unheard, Heard, hostVars, globals
<1>7. WireInv'
  <2>1. CASE pc = "constructed"
    BY <1>0, <2>1 DEF IInv, WireInv
  <2>2. CASE pc = "first round trip"
    <3>1. FirstTrip
      BY <2>2 DEF IInv, WireInv
    <3>2. FirstTrip'
      <4>1. CASE /\ Unheard
                 /\ \/ toClient = <<>> /\ toHost = <<"get_registry", "sync">>
                    \/ toClient = <<"globals">> /\ toHost = <<"sync">>
        <5>1. ASSUME toClient = <<>>, toHost = <<"get_registry", "sync">>
              PROVE  toClient' = <<"globals">> /\ toHost' = <<"sync">>
          BY <1>4, <1>5, <5>1, QueueFacts
        <5>2. ASSUME toClient = <<"globals">>, toHost = <<"sync">>
              PROVE  toClient' = <<"globals", "done">> /\ toHost' = <<>>
          BY <1>4, <1>5, <5>2, QueueFacts
        <5> QED
          BY <1>6, <4>1, <5>1, <5>2 DEF FirstTrip
      <4>2. CASE /\ Heard
                 /\ \/ toClient = <<>> /\ toHost = <<"sync", "bind">>
                    \/ toClient = <<"done">> /\ toHost = <<"bind">>
        <5>1. ASSUME toClient = <<>>, toHost = <<"sync", "bind">>
              PROVE  toClient' = <<"done">> /\ toHost' = <<"bind">>
          BY <1>4, <1>5, <5>1, QueueFacts
        <5>2. ASSUME toClient = <<"done">>, toHost = <<"bind">>
              PROVE  toClient' = <<"done", "answers">> /\ toHost' = <<>>
          BY <1>4, <1>5, <5>2, QueueFacts
        <5> QED
          BY <1>6, <4>2, <5>1, <5>2 DEF FirstTrip
      <4> QED
        BY <1>0, <3>1, <4>1, <4>2 DEF FirstTrip
    <3> QED
      BY <1>0, <2>2, <3>2 DEF WireInv
  <2>3. CASE pc = "second round trip"
    <3>1. SecondTrip
      BY <1>3, <2>3 DEF IInv, WireInv
    <3>2. SecondTrip'
      <4>1. CASE /\ Heard
                 /\ \/ toClient = <<>> /\ toHost = <<"bind", "sync">>
                    \/ toClient = <<"answers">> /\ toHost = <<"sync">>
        <5>1. ASSUME toClient = <<>>, toHost = <<"bind", "sync">>
              PROVE  toClient' = <<"answers">> /\ toHost' = <<"sync">>
          BY <1>4, <1>5, <5>1, QueueFacts
        <5>2. ASSUME toClient = <<"answers">>, toHost = <<"sync">>
              PROVE  toClient' = <<"answers", "done">> /\ toHost' = <<>>
          BY <1>4, <1>5, <5>2, QueueFacts
        <5> QED
          BY <1>6, <4>1, <5>1, <5>2 DEF SecondTrip
      <4>2. CASE Heard /\ answered = TRUE /\ toClient = <<>> /\ toHost = <<"sync">>
        <5>1. toClient' = <<"done">> /\ toHost' = <<>>
          BY <1>0, <1>4, <4>2, QueueFacts
        <5> QED
          BY <1>0, <1>6, <4>2, <5>1 DEF SecondTrip
      <4> QED
        BY <1>0, <3>1, <4>1, <4>2 DEF SecondTrip
    <3> QED
      BY <1>0, <2>3, <3>2 DEF WireInv
  <2>4. CASE pc = "checks"
    BY <1>0, <1>3, <2>4 DEF IInv, WireInv
  <2>5. CASE pc = "ready"
    <3>1. answered = TRUE /\ toClient = <<>> /\ toHost = <<"bind">>
      BY <1>0, <1>3, <2>5 DEF IInv, WireInv, Serving
    <3>2. toClient' = <<"answers">> /\ toHost' = <<>>
      BY <1>0, <1>4, <3>1, QueueFacts
    <3> QED
      BY <1>0, <2>5, <3>1, <3>2 DEF WireInv, Serving
  <2>6. CASE pc \notin RoundTrips \cup {"constructed", "checks", "ready"}
    BY <1>0, <2>6 DEF WireInv, RoundTrips
  <2> QED
    BY <2>1, <2>2, <2>3, <2>4, <2>5, <2>6 DEF RoundTrips
<1>8. DecisionInv'
  <2>1. Decision' = Decision
    BY <1>0 DEF Decision, SupportsMinFeatures, Bound, globals
  <2> QED
    BY <1>0, <2>1 DEF IInv, DecisionInv, DecisionsInformed, hostVars, screen
<1> QED
  BY <1>1, <1>2, <1>7, <1>8 DEF IInv

\* The host announces another seat.
LEMMA HostAddsSeatStep ==
  ASSUME IInv, HostAddsSeat
  PROVE  IInv'
<1>0. /\ hostUp = TRUE /\ pc = "ready" /\ toHost = <<>> /\ toClient' = <<"seat">>
      /\ field["wl_seat"] < MaxSeats
      /\ UNCHANGED <<hostVars, hostUp, pc, m_eventThread, globals, answered, toHost, screen>>
  BY DEF HostAddsSeat, IInv, TypeOK
<1>1. TypeOK'
  <2>1. toClient' \in Seq(Events)
    BY <1>0, QueueTypes DEF Events
  <2> QED
    BY <1>0, <2>1 DEF IInv, TypeOK, Events, hostVars, globals, screen
<1>2. OfferInv' /\ ThreadInv' /\ GlobalsInv' /\ ReadyInv' /\ ProxiesOwned'
  BY <1>0 DEF IInv, OfferInv, ThreadInv, GlobalsInv, Unheard, Heard, ReadyInv, Bound,
              ProxiesOwned, hostVars, globals
<1>3. WireInv'
  <2>1. answered = TRUE
    BY <1>0 DEF IInv, WireInv, Silent, Serving
  <2>2. Serving'
    BY <1>0, <2>1 DEF Serving, globals
  <2> QED
    BY <1>0, <2>2 DEF WireInv
<1>4. DecisionInv'
  <2>1. Decision' = Decision
    BY <1>0 DEF Decision, SupportsMinFeatures, Bound, globals
  <2> QED
    BY <1>0, <2>1 DEF IInv, DecisionInv, DecisionsInformed, hostVars, screen
<1> QED
  BY <1>1, <1>2, <1>3, <1>4 DEF IInv

\* Nothing but the host changes, or nothing at all.
LEMMA HangUpStep ==
  ASSUME IInv, hostUp' \in {hostUp, FALSE},
         UNCHANGED <<hostVars, pc, m_eventThread, globals, answered, wire, screen>>
  PROVE  IInv'
<1>1. TypeOK' /\ OfferInv' /\ ThreadInv' /\ ReadyInv' /\ ProxiesOwned'
  BY DEF IInv, TypeOK, OfferInv, ThreadInv, Heard, ReadyInv, Bound, ProxiesOwned, hostVars,
         globals, wire, screen
<1>2. GlobalsInv'
  BY DEF IInv, GlobalsInv, Unheard, Heard, hostVars, globals
<1>3. WireInv'
  <2>1. /\ FirstTrip => FirstTrip'
        /\ SecondTrip => SecondTrip'
    BY DEF FirstTrip, SecondTrip, Unheard, Heard, hostVars, globals, wire
  <2>2. (Serving => Serving') /\ (Silent => Silent')
    BY DEF Serving, Silent, globals, wire
  <2> QED
    BY <2>1, <2>2 DEF IInv, WireInv, wire
<1>4. DecisionInv'
  <2>1. Decision' = Decision
    BY DEF Decision, SupportsMinFeatures, Bound, globals
  <2>2. hostUp' => hostUp
    BY DEF IInv, TypeOK
  <2>3. DecisionsInformed'
    BY <2>2 DEF IInv, DecisionInv, DecisionsInformed, hostVars, screen
  <2> QED
    BY <2>1, <2>3 DEF IInv, DecisionInv, screen
<1> QED
  BY <1>1, <1>2, <1>3, <1>4 DEF IInv

\* Every step keeps the invariant.
LEMMA InvStep == IInv /\ [Next]_vars => IInv'
<1> SUFFICES ASSUME IInv, [Next]_vars PROVE IInv'
  OBVIOUS
<1>1. CASE ConnectFails
  BY <1>1, ConnectFailsStep
<1>2. CASE Connect
  BY <1>2, ConnectStep
<1>3. CASE Dispatch
  <2>1. \/ DispatchGlobals \/ DispatchSeat \/ DispatchAnswers \/ DispatchRoundTrip
    BY <1>3 DEF Dispatch, Dispatching, DispatchGlobals, DispatchSeat, DispatchAnswers,
                DispatchRoundTrip
  <2> QED
    BY <2>1, DispatchGlobalsStep, DispatchSeatStep, DispatchAnswersStep, DispatchRoundTripStep
<1>4. CASE RoundTripFails
  BY <1>4, RoundTripFailsStep
<1>5. CASE Check
  BY <1>5, CheckStep
<1>6. CASE CreateOutput \/ CreateLayer
  BY <1>6, CreateStep
<1>7. CASE Destroy
  BY <1>7, DestroyStep
<1>8. CASE HostAnswers
  BY <1>8, HostAnswersStep
<1>9. CASE HostAddsSeat
  BY <1>9, HostAddsSeatStep
<1>10. CASE HostHangsUp
  BY <1>10, HangUpStep DEF HostHangsUp
<1>11. CASE UNCHANGED vars
  BY <1>11, HangUpStep DEF vars
<1> QED
  BY <1>1, <1>2, <1>3, <1>4, <1>5, <1>6, <1>7, <1>8, <1>9, <1>10, <1>11 DEF Next, Ended

\* The invariant holds of every behaviour.
LEMMA Invariance == Spec => []IInv
BY InvInit, InvStep, PTL DEF Spec
-----------------------------------------------------------------------------
(***************************************************************************)
(* The theorems.                                                           *)
(***************************************************************************)

\* The members, the queues and the decisions keep their types; no global but
\* the seat is bound twice.
THEOREM TypeCorrect == Spec => []TypeOK
<1>1. IInv => TypeOK
  BY DEF IInv
<1> QED
  BY Invariance, <1>1, PTL

\* A display that initialize() accepted has every global that is used without
\* a test, whatever the host lacks and whenever it hangs up; the event thread
\* is null in a destructor only if nothing was ever bound.
THEOREM NoNullGlobalUsed == Spec => []NullOnlyUnconnected
<1>1. IInv => NullOnlyUnconnected
  <2> SUFFICES ASSUME IInv PROVE NullOnlyUnconnected
    OBVIOUS
  <2>1. pc = "ready" => \A i \in Dereferenced : Bound(i)
    <3>1. Dereferenced \subseteq Required
      BY DEF Dereferenced, Required
    <3> QED
      BY <3>1 DEF IInv, ReadyInv
  <2>2. pc = "crashed" => proxies = {}
    BY DEF IInv, ThreadInv
  <2> QED
    BY <2>1, <2>2 DEF NullOnlyUnconnected
<1> QED
  BY Invariance, <1>1, PTL

\* Output and layer decide alike, as the host is.
THEOREM DecisionsAgree == Spec => []DecisionsInformed
<1>1. IInv => DecisionsInformed
  BY DEF IInv, DecisionInv
<1> QED
  BY Invariance, <1>1, PTL

\* However many seats come, every proxy is held by its member, and none is
\* left when the display disconnects.
THEOREM EveryProxyReleased == Spec => []ProxiesOwned
<1>1. IInv => ProxiesOwned
  BY DEF IInv
<1> QED
  BY Invariance, <1>1, PTL
=============================================================================
