----------------------------- MODULE OutputCursor -----------------------------
(***************************************************************************)
(* The cursor of an output as the host shows it: WaylandCursor             *)
(* (wayland_output.cpp), whose surface is committed with an image and made *)
(* the cursor of a pointer, and the host, which knows only what arrives.   *)
(*                                                                         *)
(* An image stands for a buffer shown at a size; the renderer, outside     *)
(* this source, never paints again into the buffer it handed over last.    *)
(* A pointer enters the output under a serial, and the host ignores a      *)
(* set_cursor request with another serial than that of the latest enter.   *)
(* The backend, also outside, calls setPointer() with the pointer when it  *)
(* enters and with a null pointer when it leaves.                          *)
(***************************************************************************)
EXTENDS Naturals, Sequences

CONSTANTS
  Looks,        \* what the cursor may look like: images with a hotspot
  NoLook,       \* before the first update(): no image, hotspot 0
  MaxEnters,    \* how often the pointer enters (bounds the model)
  MaxRequests   \* requests on their way (bounds the model)

ASSUME MaxEntersAssumption == MaxEnters \in Nat
ASSUME MaxRequestsAssumption == MaxRequests \in Nat

VARIABLES
  m_pointer,        \* the cursor has a pointer
  m_look,           \* m_buffer with m_size, and m_hotspot
  m_enabled,
  asked,            \* history: the look of the latest update()
  enteredSerial,    \* of the pointer object
  cursorRequests,   \* requests on their way
  pointerEvents,    \* events on their way
  enters,           \* serials handed out by the host
  hostSerial,       \* host: serial of the latest enter, 0 after a leave
  hostImage,        \* host: what the cursor's surface shows
  hostHotspot       \* host: the hotspot set since the enter, or NotSet

fieldVars == <<m_pointer, m_look, m_enabled>>
shownVars == <<hostImage, hostHotspot>>
cursorVars == <<fieldVars, asked, enteredSerial, cursorRequests, pointerEvents, enters,
                hostSerial, shownVars>>

NotSet == "not set"

CommitRequest(look, enable) ==
  [kind |-> "commit", image |-> IF enable THEN look.image ELSE NoLook.image]
CursorRequest(serial, look) ==
  [kind |-> "set_cursor", serial |-> serial, hotspot |-> look.hotspot]

CursorInit ==
  /\ m_pointer = FALSE /\ m_look = NoLook /\ m_enabled = TRUE
  /\ asked = NoLook
  /\ enteredSerial = 0 /\ enters = 0
  /\ cursorRequests = <<>> /\ pointerEvents = <<>>
  /\ hostSerial = 0 /\ hostImage = NoLook.image /\ hostHotspot = NotSet
-----------------------------------------------------------------------------
\* Mutant: the hotspot is sent only when the pointer is set.
SyncCommitsOnly(look, enable) ==
  cursorRequests' = Append(cursorRequests, CommitRequest(look, enable))

\* sync(), with the fields as they have just been set: the image or a null
\* buffer, then the hotspot.
Sync(look, enable) ==
  cursorRequests' = Append(cursorRequests, CommitRequest(look, enable)) \o
    (IF m_pointer THEN <<CursorRequest(enteredSerial, look)>> ELSE <<>>)

RoomForSync == Len(cursorRequests) + 2 <= MaxRequests

\* setEnabled().
SetEnabled(enable) ==
  /\ m_enabled' = enable
  /\ IF m_enabled # enable THEN RoomForSync /\ Sync(m_look, enable)
     ELSE UNCHANGED cursorRequests
  /\ UNCHANGED <<m_pointer, m_look, asked, enteredSerial, pointerEvents, enters, hostSerial,
                 shownVars>>

\* update(), called by the cursor layer when it has painted.
Update(look) ==
  /\ RoomForSync
  /\ asked' = look
  /\ m_look' = look
  /\ IF m_look # look THEN Sync(look, m_enabled) ELSE UNCHANGED cursorRequests
  /\ UNCHANGED <<m_pointer, m_enabled, enteredSerial, pointerEvents, enters, hostSerial,
                 shownVars>>

\* setPointer() by the pointer's entered signal.
Entered ==
  /\ pointerEvents # <<>> /\ Head(pointerEvents) # 0
  /\ pointerEvents' = Tail(pointerEvents)
  /\ enteredSerial' = Head(pointerEvents)
  /\ m_pointer' = TRUE
  /\ cursorRequests' = IF m_pointer THEN cursorRequests
                       ELSE Append(cursorRequests, CursorRequest(enteredSerial', m_look))
  /\ UNCHANGED <<m_look, m_enabled, asked, enters, hostSerial, shownVars>>

\* setPointer(nullptr) by its left signal.
Left ==
  /\ pointerEvents # <<>> /\ Head(pointerEvents) = 0
  /\ pointerEvents' = Tail(pointerEvents)
  /\ m_pointer' = FALSE
  /\ UNCHANGED <<m_look, m_enabled, asked, enteredSerial, cursorRequests, enters, hostSerial,
                 shownVars>>
-----------------------------------------------------------------------------
(***************************************************************************)
(* The host (external).                                                    *)
(***************************************************************************)

HostEnters ==
  /\ hostSerial = 0 /\ enters < MaxEnters
  /\ enters' = enters + 1
  /\ hostSerial' = enters'
  /\ hostHotspot' = NotSet
  /\ pointerEvents' = Append(pointerEvents, enters')
  /\ UNCHANGED <<fieldVars, asked, enteredSerial, cursorRequests, hostImage>>

HostLeaves ==
  /\ hostSerial # 0
  /\ hostSerial' = 0
  /\ pointerEvents' = Append(pointerEvents, 0)
  /\ UNCHANGED <<fieldVars, asked, enteredSerial, cursorRequests, enters, shownVars>>

HostHandlesCursor ==
  /\ cursorRequests # <<>>
  /\ cursorRequests' = Tail(cursorRequests)
  /\ LET request == Head(cursorRequests) IN
     IF request.kind = "commit"
     THEN hostImage' = request.image /\ UNCHANGED hostHotspot
     ELSE /\ hostHotspot' = IF request.serial = hostSerial THEN request.hotspot ELSE hostHotspot
          /\ UNCHANGED hostImage
  /\ UNCHANGED <<fieldVars, asked, enteredSerial, pointerEvents, enters, hostSerial>>

\* Everything but setEnabled(), which present() calls.
CursorNext ==
  \/ \E look \in Looks : Update(look)
  \/ Entered \/ Left
  \/ HostEnters \/ HostLeaves \/ HostHandlesCursor

\* The cursor by itself, enabled and disabled at any time.
CursorSpec == CursorInit /\ [][CursorNext \/ \E enable \in BOOLEAN : SetEnabled(enable)]_cursorVars
-----------------------------------------------------------------------------
Images   == {look.image : look \in Looks \cup {NoLook}}
Hotspots == {look.hotspot : look \in Looks \cup {NoLook}}

\* Every variable holds a value its field can hold.
CursorTypeOK ==
  /\ m_pointer \in BOOLEAN /\ m_enabled \in BOOLEAN
  /\ m_look \in Looks \cup {NoLook} /\ asked \in Looks \cup {NoLook}
  /\ enteredSerial \in 0 .. MaxEnters /\ enters \in 0 .. MaxEnters
  /\ cursorRequests \in Seq([kind : {"commit"}, image : Images] \cup
                            [kind : {"set_cursor"}, serial : 1 .. MaxEnters, hotspot : Hotspots])
  /\ pointerEvents \in Seq(0 .. MaxEnters)
  /\ hostSerial \in 0 .. MaxEnters
  /\ hostImage \in Images /\ hostHotspot \in Hotspots \cup {NotSet}

\* With nothing on the wire and the pointer over the output, the host shows
\* the look of the latest update(), or nothing while the cursor is disabled,
\* however enters, leaves, updates and changes of enabled crossed each other.
CursorCurrent ==
  hostSerial # 0 /\ cursorRequests = <<>> /\ pointerEvents = <<>> =>
    /\ hostImage = IF m_enabled THEN asked.image ELSE NoLook.image
    /\ hostHotspot = asked.hotspot
=============================================================================
