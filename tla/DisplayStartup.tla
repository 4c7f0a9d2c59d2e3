--------------------------- MODULE DisplayStartup ---------------------------
(***************************************************************************)
(* A WaylandDisplay from initialize() to its destructor: the globals the   *)
(* host offers, what registry_global() makes of them, the two round trips, *)
(* what initialize() insists on, and what outputs and layers then decide   *)
(* from the globals once and for all (wayland_display.cpp; constructors in *)
(* wayland_output.cpp and wayland_layer.cpp).                              *)
(*                                                                         *)
(* A proxy is an interface and a number: the first, second, ... global of  *)
(* that interface that was bound.  field[i] is the number of the one the   *)
(* member for interface i holds, 0 for a null pointer.  All the globals    *)
(* the host announces at first are one message, because their handlers     *)
(* set different members.                                                  *)
(***************************************************************************)
EXTENDS Naturals, Sequences, FiniteSets

CONSTANTS
  MaxMissing,  \* how many interfaces the host may lack (bounds the model)
  MaxSeats     \* how many seats it announces (bounds the model)

ASSUME MaxMissingAssumption == MaxMissing \in Nat
ASSUME MaxSeatsAssumption == MaxSeats \in Nat \ {0}

\* Members that are std::unique_ptr, and members that are plain pointers.
Owned ==
  {"wl_compositor", "wl_subcompositor", "pointer_constraints", "pointer_gestures",
   "relative_pointer", "wl_seat", "xdg_decoration", "xdg_wm_base", "linux_dmabuf",
   "color_manager", "viewporter"}
Plain ==
  {"wl_shm", "presentation", "tearing_control", "fractional_scale", "single_pixel",
   "toplevel_icon", "shortcuts_inhibit"}
Interfaces == Owned \cup Plain

VARIABLES
  offered,            \* host: the interfaces it offers
  outdated,           \* host: those it offers in a version below 4
  offersRail,         \* host: it offers weston_rdprail_shell
  hostUp,             \* host: the connection is open
  pc,                 \* where the owner of the display is
  m_eventThread,      \* the event thread exists
  field,              \* the members
  m_hasRdpRailShell,
  proxies,            \* proxies bound and not destroyed
  answered,           \* events that describe the bound globals have been handled
  toHost, toClient,   \* requests and events on their way
  output, layer       \* what the constructors decided to do, or Absent

hostVars == <<offered, outdated, offersRail>>
wire     == <<toHost, toClient>>
globals  == <<field, m_hasRdpRailShell, proxies>>
screen   == <<output, layer>>
vars == <<hostVars, hostUp, pc, m_eventThread, globals, answered, wire, screen>>

Absent == {"absent"}
RoundTrips == {"first round trip", "second round trip"}

Init ==
  /\ offered \in {s \in SUBSET Interfaces : Cardinality(Interfaces \ s) <= MaxMissing}
  /\ outdated \in SUBSET (offered \cap {"wl_compositor", "linux_dmabuf"})
  /\ offersRail \in BOOLEAN
  /\ hostUp = TRUE
  /\ pc = "constructed" /\ m_eventThread = FALSE
  /\ field = [i \in Interfaces |-> 0] /\ m_hasRdpRailShell = FALSE
  /\ proxies = {} /\ answered = FALSE
  /\ toHost = <<>> /\ toClient = <<>>
  /\ output = Absent /\ layer = Absent

Bound(i) == field[i] # 0
-----------------------------------------------------------------------------
(***************************************************************************)
(* initialize().                                                           *)
(***************************************************************************)

ConnectFails ==
  /\ pc = "constructed"
  /\ pc' = "refused"
  /\ UNCHANGED <<hostVars, hostUp, m_eventThread, globals, answered, wire, screen>>

\* Mutant: a second registry is asked for.
ConnectTwice ==
  /\ pc = "constructed"
  /\ m_eventThread' = TRUE
  /\ proxies' = {<<"registry", 1>>}
  /\ toHost' = <<"get_registry", "get_registry", "sync">>
  /\ pc' = "first round trip"
  /\ UNCHANGED <<hostVars, hostUp, field, m_hasRdpRailShell, answered, toClient, screen>>

\* Connect, start the thread, get the registry, begin the first round trip.
Connect ==
  /\ pc = "constructed"
  /\ m_eventThread' = TRUE
  /\ proxies' = {<<"registry", 1>>}
  /\ toHost' = <<"get_registry", "sync">>
  /\ pc' = "first round trip"
  /\ UNCHANGED <<hostVars, hostUp, field, m_hasRdpRailShell, answered, toClient, screen>>

\* Binding the next proxy of an interface: a unique_ptr destroys the one before.
Bind(bound) ==
  /\ field' = [i \in Interfaces |-> IF i \in bound THEN field[i] + 1 ELSE field[i]]
  /\ proxies' = (proxies \ {<<i, field[i]>> : i \in bound \cap Owned})
                  \cup {<<i, field'[i]>> : i \in bound}
  /\ toHost' = Append(toHost, "bind")

\* registry_global() for everything the host announces at first.  An outdated
\* wl_compositor ends the process, an outdated dmabuf is not bound, and the
\* RAIL shell is only noted.
HandleGlobals ==
  /\ Head(toClient) = "globals"
  /\ toClient' = Tail(toClient)
  /\ IF "wl_compositor" \in outdated
     THEN pc' = "aborted" /\ UNCHANGED <<globals, toHost>>
     ELSE /\ Bind(offered \ outdated)
          /\ m_hasRdpRailShell' = offersRail
          /\ UNCHANGED pc
  /\ UNCHANGED answered

\* registry_global() for a seat the host announces later.
HandleSeat ==
  /\ Head(toClient) = "seat"
  /\ toClient' = Tail(toClient)
  /\ Bind({"wl_seat"})
  /\ UNCHANGED <<pc, m_hasRdpRailShell, answered>>

\* dmabuf formats, colour features and the like arrive.
HandleAnswers ==
  /\ Head(toClient) = "answers"
  /\ toClient' = Tail(toClient)
  /\ answered' = TRUE
  /\ UNCHANGED <<pc, globals, toHost>>

\* Mutant: one round trip is enough.
NextStageOnce ==
  /\ pc' = "checks"
  /\ UNCHANGED toHost

\* What follows a round trip.
NextStage ==
  IF pc = "first round trip"
  THEN pc' = "second round trip" /\ toHost' = Append(toHost, "sync")
  ELSE pc' = "checks" /\ UNCHANGED toHost

RoundTripDone ==
  /\ pc \in RoundTrips
  /\ Head(toClient) = "done"
  /\ toClient' = Tail(toClient)
  /\ NextStage
  /\ UNCHANGED <<globals, answered>>

\* The main thread handles the next event, in a round trip or later.  (A ready
\* display whose host hung up hears nothing more here; the code ends the process.)
Dispatch ==
  /\ pc \in RoundTrips \cup {"ready"}
  /\ toClient # <<>>
  /\ HandleGlobals \/ HandleSeat \/ HandleAnswers \/ RoundTripDone
  /\ UNCHANGED <<hostVars, hostUp, m_eventThread, screen>>

\* Mutant: a round trip that failed is tried again.
RoundTripRetried ==
  /\ pc \in RoundTrips /\ ~hostUp /\ toClient = <<>>
  /\ toHost' = <<"sync">>
  /\ UNCHANGED <<hostVars, hostUp, pc, m_eventThread, globals, answered, toClient, screen>>

\* wl_display_roundtrip() returns -1, which nobody looks at.
RoundTripFails ==
  /\ pc \in RoundTrips /\ ~hostUp /\ toClient = <<>>
  /\ NextStage
  /\ UNCHANGED <<hostVars, hostUp, m_eventThread, globals, answered, toClient, screen>>

\* Mutant: a host without wp_presentation is accepted.
RequiredLess ==
  {"wl_compositor", "wl_subcompositor", "xdg_wm_base", "viewporter", "wl_seat",
   "pointer_constraints"}

\* The globals without which initialize() returns false.
Required ==
  {"wl_compositor", "wl_subcompositor", "xdg_wm_base", "viewporter", "wl_seat",
   "pointer_constraints", "presentation"}

Check ==
  /\ pc = "checks"
  /\ pc' = IF \A i \in Required : Bound(i) THEN "ready" ELSE "refused"
  /\ UNCHANGED <<hostVars, hostUp, m_eventThread, globals, answered, wire, screen>>
-----------------------------------------------------------------------------
(***************************************************************************)
(* What outputs and layers make of the globals.                            *)
(***************************************************************************)

\* Colour features are known only once the host has described its manager; it
\* supports the least that the constructors ask for.
SupportsMinFeatures == Bound("color_manager") /\ answered

\* The two decisions: to do as RAIL needs, and to manage colours.
Decision ==
  (IF m_hasRdpRailShell THEN {"rail"} ELSE {}) \cup
  (IF SupportsMinFeatures THEN {"color"} ELSE {})

\* WaylandOutput's constructor: heartbeat under RAIL, colour feedback.
CreateOutput ==
  /\ pc = "ready" /\ output = Absent
  /\ output' = Decision
  /\ UNCHANGED <<hostVars, hostUp, pc, m_eventThread, globals, answered, wire, layer>>

\* WaylandLayer's constructor, for a primary layer: m_directToOutput and
\* m_colorSurface.
CreateLayer ==
  /\ pc = "ready" /\ output # Absent /\ layer = Absent
  /\ layer' = Decision
  /\ UNCHANGED <<hostVars, hostUp, pc, m_eventThread, globals, answered, wire, output>>

\* Globals used without a test: by the three constructors, by present(), by
\* lockPointer(), and by inhibitShortcuts() where it has a manager.
\* createFallbackBlackBuffer() tests the shm it is given.
Dereferenced ==
  {"wl_compositor", "xdg_wm_base", "viewporter", "wl_subcompositor", "presentation",
   "pointer_constraints"} \cup (IF Bound("shortcuts_inhibit") THEN {"wl_seat"} ELSE {})

\* Mutant: a new global is bound and its release forgotten.
ReleasedLess == (Owned \cup Plain) \ {"toplevel_icon"}

\* The members that the destructor releases before it disconnects.
Released == Owned \cup Plain

\* The destructor.  Where initialize() did not connect there is no thread to stop.
Destroy ==
  /\ pc \in {"ready", "refused"}
  /\ IF m_eventThread
     THEN /\ pc' = "gone"
          /\ m_eventThread' = FALSE
          /\ proxies' = {p \in proxies : /\ p[1] # "registry"
                                         /\ \A i \in Released : p # <<i, field[i]>>}
          /\ field' = [i \in Interfaces |-> IF i \in Released THEN 0 ELSE field[i]]
     ELSE pc' = "crashed" /\ UNCHANGED <<m_eventThread, proxies, field>>
  /\ UNCHANGED <<hostVars, hostUp, m_hasRdpRailShell, answered, wire, screen>>
-----------------------------------------------------------------------------
(***************************************************************************)
(* The host (external).                                                    *)
(***************************************************************************)

Answer(request) ==
  CASE request = "get_registry" -> "globals"
    [] request = "bind"         -> "answers"
    [] request = "sync"         -> "done"

HostAnswers ==
  /\ hostUp /\ toHost # <<>>
  /\ toHost' = Tail(toHost)
  /\ toClient' = Append(toClient, Answer(Head(toHost)))
  /\ UNCHANGED <<hostVars, hostUp, pc, m_eventThread, globals, answered, screen>>

\* Another seat appears, as it does for another RDP client of the host.
HostAddsSeat ==
  /\ hostUp /\ pc = "ready"
  /\ toHost = <<>> /\ toClient = <<>>
  /\ field["wl_seat"] < MaxSeats
  /\ toClient' = <<"seat">>
  /\ UNCHANGED <<hostVars, hostUp, pc, m_eventThread, globals, answered, toHost, screen>>

\* The connection breaks; what was sent can still be read.
HostHangsUp ==
  /\ hostUp /\ m_eventThread
  /\ hostUp' = FALSE
  /\ UNCHANGED <<hostVars, pc, m_eventThread, globals, answered, wire, screen>>

Ended ==
  /\ pc \in {"gone", "crashed", "aborted"}
  /\ UNCHANGED vars

Next ==
  \/ ConnectFails \/ Connect \/ Dispatch \/ RoundTripFails \/ Check
  \/ CreateOutput \/ CreateLayer \/ Destroy
  \/ HostAnswers \/ HostAddsSeat \/ HostHangsUp
  \/ Ended

Spec == Init /\ [][Next]_vars

\* The main thread runs, and the host answers as long as it is there.
FairSpec ==
  /\ Spec
  /\ WF_vars(Dispatch) /\ WF_vars(RoundTripFails) /\ WF_vars(Check)
  /\ WF_vars(HostAnswers)
-----------------------------------------------------------------------------
(***************************************************************************)
(* Properties.                                                             *)
(***************************************************************************)

Decisions == (SUBSET {"rail", "color"}) \cup {Absent}

\* Every variable holds a value its field can hold, and only seats are bound
\* more than once.
TypeOK ==
  /\ offered \subseteq Interfaces /\ outdated \subseteq offered
  /\ offersRail \in BOOLEAN /\ hostUp \in BOOLEAN
  /\ pc \in RoundTrips \cup {"constructed", "checks", "ready", "refused", "gone", "crashed",
                             "aborted"}
  /\ m_eventThread \in BOOLEAN /\ m_hasRdpRailShell \in BOOLEAN /\ answered \in BOOLEAN
  /\ field \in [Interfaces -> 0 .. MaxSeats]
  /\ \A i \in Interfaces \ {"wl_seat"} : field[i] <= 1
  /\ proxies \subseteq (Interfaces \cup {"registry"}) \X (1 .. MaxSeats)
  /\ toHost \in Seq({"get_registry", "bind", "sync"})
  /\ toClient \in Seq({"globals", "answers", "done", "seat"})
  /\ output \in Decisions /\ layer \in Decisions

\* initialize() returned true: every global that an output, a layer or a
\* cursor uses without a test is there, whatever the host lacks and at
\* whatever moment it hung up.  The one null pointer this code can follow is
\* the event thread of a display that never connected.
NullOnlyUnconnected ==
  /\ pc = "ready" => \A i \in Dereferenced : Bound(i)
  /\ pc = "crashed" => proxies = {}

\* What an output and its layer decide once, at two different moments, is
\* decided on full information: the heartbeat, painting on the toplevel, and
\* present(), which asks each time, agree with each other and with the host,
\* and colours are managed exactly if the host can, unless it hung up.
DecisionsInformed ==
  /\ output # Absent /\ layer # Absent => output = layer
  /\ \A d \in {output, layer} \ {Absent} :
       /\ ("rail" \in d) = offersRail
       /\ hostUp => ("color" \in d) = ("color_manager" \in offered)

\* No proxy is lost: each one alive is held by its member, also after a second
\* seat replaced the first, and none is left when the display disconnects.
ProxiesOwned ==
  /\ \A p \in proxies : p[1] # "registry" => field[p[1]] = p[2]
  /\ pc = "gone" => proxies = {}

\* initialize() returns or the process ends, though the host may hang up at
\* any point of a round trip.
InitializeReturns ==
  pc \in RoundTrips ~> pc \in {"ready", "refused", "aborted"}
=============================================================================
