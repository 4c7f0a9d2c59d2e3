---------------------------- MODULE OutputPointer ----------------------------
(***************************************************************************)
(* The pointer of an output, composed: its grab (PointerLock), its cursor  *)
(* (OutputCursor), and the two meeting in testPresentation() and present() *)
(* (wayland_output.cpp), which keep the host's cursor away while the       *)
(* pointer is grabbed.                                                     *)
(*                                                                         *)
(* External, as this code uses it: a pass of KWin's compositor wants its   *)
(* cursor layer enabled or not, asks testPresentation(), turns the layer   *)
(* off (and paints the cursor itself) if that says no, and calls present() *)
(* with the layer among those to update whenever its state is not the one  *)
(* presented last.                                                         *)
(***************************************************************************)
EXTENDS PointerLock, OutputCursor

VARIABLE
  presentedAs   \* external: the state in which the cursor layer was presented
                \* last, or that the frame was refused

pointerVars == <<vars, cursorVars, presentedAs>>

LayerState(on) == IF on THEN "on" ELSE "off"

PointerInit ==
  /\ Init
  /\ CursorInit
  /\ presentedAs = "never"
-----------------------------------------------------------------------------
\* Mutant: the grab is left to present() alone.
TestPresentationAlways(on) == TRUE

\* testPresentation(), with the cursor layer on or off.
TestPresentation(on) == ~(m_hasPointerLock /\ on)

\* The first lines of present() for the cursor layer, if it is among the
\* layers to update: refused, or the cursor enabled as the layer is.
PresentCursor(on) ==
  IF m_hasPointerLock /\ on
  THEN presentedAs' = "refused" /\ UNCHANGED cursorVars
  ELSE /\ SetEnabled(on)
       /\ presentedAs' = LayerState(on)

Pass(wanted, updated) ==
  LET on == wanted /\ TestPresentation(wanted) IN
  /\ presentedAs # LayerState(on) => updated
  /\ IF updated THEN PresentCursor(on) ELSE UNCHANGED <<cursorVars, presentedAs>>
  /\ UNCHANGED vars

PointerNext ==
  \/ Next /\ UNCHANGED <<cursorVars, presentedAs>>
  \/ CursorNext /\ UNCHANGED <<vars, presentedAs>>
  \/ \E wanted, updated \in BOOLEAN : Pass(wanted, updated)

PointerSpec == PointerInit /\ [][PointerNext]_pointerVars
-----------------------------------------------------------------------------
(***************************************************************************)
(* Properties, besides those of both.                                      *)
(***************************************************************************)

\* Every variable of the grab, the cursor and the pass holds a value of its kind.
PointerTypeOK ==
  /\ TypeOK
  /\ CursorTypeOK
  /\ presentedAs \in {"never", "on", "off", "refused"}

\* A pass during a grab takes the host's cursor away, whatever was shown when
\* the grab began: the test foresees what present() would refuse, so that no
\* frame is dropped with the cursor left on the screen.
HiddenWhileGrabbed ==
  [][(\E wanted, updated \in BOOLEAN : Pass(wanted, updated)) /\ m_hasPointerLock
       => ~m_enabled']_pointerVars
=============================================================================
