# Verification of kde-plasma-wslg-rpm

TLA+ models of the program logic in this repository, model-checked with TLC and,
where it says so below, proved with TLAPS. The repository packages a patched KWin
for WSLg; what it carries of its own is the patched Wayland backend of KWin
(`packaging/kwin/src/`, three C++ files that replace KWin's own) and the scripts and
workflows that build the packages and publish a dnf repository.

## Inventory

| Component | State | Operations | Meets |
|---|---|---|---|
| Event thread (`wayland_display.cpp:57-163, 215-218`) | `m_reading`, `m_quitting`, mutex, condition variable, quit pipe, libwayland's reader count and queue | `run`, `dispatch`, `stop`, `flush` | the main thread, by a queued signal one way and a condition variable the other; the host, by the socket |
| Display start-up and globals (`wayland_display.cpp:165-281, 378-442`) | one pointer per bound global, `m_hasRdpRailShell` | `initialize`, `registry_global`, destructor | everything below reads the globals |
| Output frames (`wayland_output.cpp:205-222, 238-319, 347-355, 414-460, 479-486`) | `m_frames`, callback times, safety margin, inhibitors | end of `present`, feedback and frame events, heartbeat, DPMS, destructor | KWin's RenderLoop; the host's presentation feedback |
| Output and layer surfaces (`wayland_output.cpp:50-81, 357-436`, `wayland_layer.cpp`) | `m_mapped`, `m_mainSurfaceHasContent`, `m_backgroundBufferSize`, surfaces | `setBuffer`, `commit`, `present`, `attachContentBuffer` | the compositor's passes; the host, which applies commits |
| Output configuration (`wayland_output.cpp:153-160, 200-203, 438-448, 462-489, 522-569`) | mode, scale, pending configure, throttle timer | `init`, `handleConfigure`, `applyConfigure`, scale and rate changes | the host's configure events |
| Pointer lock (`wayland_output.cpp:571-645`) | lock object, `m_hasPointerLock`, inhibitor, title | `lockPointer`, `locked`, `unlocked`, `inhibitShortcuts`, `updateWindowTitle` | the backend's toggle; the host's lock events; `present`, which refuses a cursor |
| Cursor (`wayland_output.cpp:91-151, 321-330, 357-368`) | pointer, image, hotspot, `m_enabled` | `setPointer`, `setEnabled`, `update`, `sync`, `testPresentation` | enters and leaves of the host's pointer; the grab, in `testPresentation` and `present` |
| Colour (`wayland_output.cpp:250-268`) | copies of what it is given | `updateColor` | the constructors decide whether colours are managed |
| Repository publishing (`scripts/make-repo.sh`, `release.yml`, `release-please.yml`) | the tree on gh-pages, each run's `public/`, the releases' assets | request, fetch, place, prune, publish, attach | clients' `dnf`, by the `.repo` file; GitHub's queue of runs |
| Upstream tracking (`rebase-kwin.sh`, `gen-patch.sh`, two workflows) | submodule, tracked branch, issue, pull request, patch | weekly watch, Dependabot fix-up, rebase | EPEL's dist-git, the tarball |
| Source fetch and builds (`lib.sh`, `build-*.sh`, `check-specs.sh`) | the tarball in SOURCES | fetch, verify, render the spec | mirrors |
| Session launcher, shim, client `.repo`, lint and CI | none of their own | start a session, forward arguments | systemd, dnf |

What is hard about them:

- *Event thread.* Two threads share `m_reading`; the event thread clears it without the
  mutex and then emits, the main thread tests it without the mutex and sets it with.
  A prepared read is a token of libwayland that must be finished or cancelled exactly
  once. Correct means: never two readers, no lost wake-up, no event left in the queue
  of an idle connection, `stop()` returns.
- *Frames.* Feedback events pop the *front* of `m_frames` without looking at the proxy
  they came from. That is right only as long as the host's answers come in commit
  order, which in turn needs the limit of two frames in flight. Slots must come back,
  and under RAIL the output may never go idle.
- *Surfaces.* Under RAIL the desktop is attached to the toplevel in `setBuffer()` and
  committed later, in `present()`, which may refuse; a black buffer stands in before the
  first content. Correct means: each present shows this pass's paint, the window stays
  mapped, the viewport fits.
- *Configuration.* Configure events are throttled by a timer and replace each other,
  while the scale they are multiplied with moves on.
- *Pointer lock.* Locked and unlocked events cross the user's toggle on the wire.
- *Cursor.* `set_cursor` counts only with the serial of the latest enter, image and hotspot
  are told by different requests, and a grab must take the cursor away at a pass.
- *Start-up.* The host may lack globals, describe them a round trip later, hang up at any
  point of the two round trips, whose results nobody looks at, and announce a seat later.
  Outputs and layers decide once, at two moments, what they make of the globals.
- *Publishing.* A run reads the published tree, changes it and writes it back. Runs fail
  half-way, overlap, give way to each other and repeat older ones; what was published
  should stay served as far as retention says.
- *Tracking.* A weekly run compares, looks, pushes and proposes in several steps; runs
  overlap, fail in between, and people merge, close, and move main by hand meanwhile.
- *Other packaging.* Steps that fail half-way or are repeated.

`PROJECT.json` lists every hazard at its line, with the properties that cover it.

## Modules

| Module | What it is |
|---|---|
| `EventPipe` | what the event thread promises: every event the host sends is dispatched once and in order, and none is left over while the display is open |
| `EventThread`, `EventThreadProofs` | both threads, one program counter each, one action per access to a shared field; implements `EventPipe` |
| `DisplayStartup`, `DisplayStartupProofs` | `initialize()`, `registry_global()`, what constructors decide from the globals, the destructor |
| `OutputFrames`, `OutputFramesProofs` | `m_frames`, feedback and frame callbacks, heartbeat and DPMS, with a host compositor |
| `OutputSurface`, `OutputSurfaceProofs` | pending, cached and current buffers of the toplevel and the primary layer |
| `OutputConfigure`, `OutputConfigureProofs`, `MCOutputConfigure` | configure events, throttle, scale, mode |
| `PointerLock` | lock, inhibitor and title, with requests and events in flight |
| `OutputCursor` | the cursor's image and hotspot, with requests, enters and leaves in flight |
| `OutputPointer`, `OutputPointerProofs`, `MCOutputPointer` | extends `PointerLock` and `OutputCursor` and composes them with the compositor's passes, where `testPresentation()` and `present()` make them meet; implements each of the two. The proofs are of all three |
| `RepoPublish`, `RepoPublishProofs`, `MCRepoPublish` | runs of the Release workflow, the published tree and the releases' assets |
| `KwinTracking`, `KwinTrackingProofs` | runs of the weekly watch, its issues, branches and pull requests, merging and closing, and main moved by hand to a branch or a commit |

How state and actions correspond to the code is written at each definition and, with
line numbers, under `map` in `PROJECT.json`. Variables have the names of the fields they
stand for; a variable marked *external* or *host* stands for state outside this source.
Definitions commented `Mutant:` are not part of a specification: each is a variation of
the definition after it with which one property fails, which shows that the property
depends on that piece of code.

Conventions worth knowing:

- In `EventThread` code between two accesses to shared fields runs with the first of
  them. `prepare_read`, `read_events` and `cancel_read` are libwayland's: a count of
  readers, where `read_events` waits until it is the only one. A queued signal is a
  counter (`posted`), because all signals are alike.
- In `OutputFrames` frames are numbered, so `m_frames` is an interval of numbers. An
  event for a frame outside it finds its proxy destroyed (`~FrameData`) and is dropped.
- In `OutputSurface` a buffer is the number of the paint it holds and its size; paint 0
  is black. Attaching and committing are apart, as they are on the wire.
- In `OutputConfigure` a mode is its size, the factor the size was multiplied with and
  its refresh rate: multiplying is not carried out.
- In `PointerLock` lock objects are numbered, so a late event can be told from one for
  the present lock.
- In `OutputCursor` a look is an image with a hotspot; a `commit` request carries the image
  or none, a `set_cursor` request the serial and the hotspot.
- In `DisplayStartup` a proxy is an interface and the how-manieth global of it; all that the
  host announces at first is one message, because the handlers set different members, and
  so is everything that describes the globals afterwards.
- In `KwinTracking` a minor is its number, and 0 what is no minor: the empty string, or a
  commit entered in place of a branch. A move by hand is one step, from any state of main to
  any branch EPEL has, or to a commit.
- In `RepoPublish` tags and kwin builds are numbers in the order of their versions; the
  four kwin subpackages, which are always built together, count as one build. Signing,
  metadata and the index page follow from the files and are left out. The order in which
  `ls -t` lists files that one `git checkout` has written is left open: it depends on the
  order of their names, on the file system's clock tick and, within a tick, on names again.
  `make-repo.sh` lists each subpackage by itself, so ties could differ between them, which the
  one build leaves out.

## What the code outside this source is assumed to do

- *Host compositor* (`OutputFrames`): applies commits in order; answers a content update
  with `discarded` when the next commit replaces it before it was latched for display,
  and with `presented` when the latched one is shown; one update is latched at a time.
- *RenderLoop*: one owed repaint at most, a counter of inhibitors, starts no frame while
  inhibited or at the limit of frames in flight.
- *Compositor passes* (`OutputSurface`): a layer that was painted is presented in the same
  pass; after a change of mode the primary layer is painted at the next pass.
- *Backend toggle* (`PointerLock`): asks for a lock and for its release by turns and starts
  over on `pointerLockChanged(false)`. This is the least caller that can keep the assertion
  at `wayland_output.cpp:607`. With several outputs the signal does not say whose lock
  is gone; that case is not modelled.
- *Cursor* (`OutputCursor`): the backend calls `setPointer()` with the pointer at an enter and
  with null at a leave; the renderer never paints into the buffer it handed over last, so
  that an image stays what it was; the host ignores a `set_cursor` with another serial than
  that of the latest enter.
- *A compositor pass* (`OutputPointer`): asks `testPresentation()`, turns the cursor layer off if
  that says no, and hands it to `present()` if its state is not the one presented last.
- *Host at start-up* (`DisplayStartup`): answers requests in order, announces its globals at
  once and further seats later, and may hang up; what it had sent can still be read.
- *GitHub* (`RepoPublish`, `KwinTracking`): of a concurrency group one run proceeds and one
  waits; a newer request cancels the one that waits; a failing step ends the job; `bash -e`
  runs the steps, without `pipefail`; a pull request made from another state of
  `.gitmodules` conflicts and is not merged; EPEL may have branches ahead of RHEL.

## Runs

| Run | Question | Bounds |
|---|---|---|
| `event_thread` | hand-over, wake-ups, quitting, refinement of `EventPipe`, `stop()` returns; deadlock is checked | 3 events, 2 queued signals |
| `output_frames` | own feedback, slots, margin, heartbeat | 4 frames, one DPMS mode besides On |
| `output_frames_dpms` | *violation*: Standby, Off, On leaves the render loop inhibited | 2 frames |
| `output_surface` | what is shown, mapped and scaled | 2 sizes, 3 paints |
| `output_surface_black` | *violation*: a black buffer that could not be created is never tried again | 2 sizes, 2 paints |
| `output_configure` | newest size, scale, acknowledgements | 3 configures, 2 sizes and the initial one, 2 scales, of which the output starts with the one that is not 1, 2 rates |
| `output_pointer` | grab, inhibitor, title and host agree; the host shows the cursor painted last; a grab takes it away | 2 locks, 2 enters, 3 cursor requests under way, 2 looks and none |
| `display_startup` | `initialize()` returns; no null global is used; decisions agree; every proxy is released | every host that lacks at most 2 of 18 interfaces, 2 seats |
| `repo_publish` | what stays served across failed, overlapping, repeated and unseeded runs | 4 tags, 3 kwin builds of which 2 are kept, 4 runs |
| `repo_publish_newest` | *violation*: a newer kwin build is pruned before an older one | as above |
| `kwin_tracking` | RHEL's latest minor is proposed in the end, none ahead of RHEL or EPEL, and merging never puts main ahead | 2 minors, 2 runs at once, 2 failures |
| `kwin_tracking_stranded` | *violation*: a branch left by a failed run keeps the request from being made | 2 minors, 1 run, 1 failure |

Why the bounds suffice. `event_thread`: one event in the queue, one on the socket and
one to come is every combination the guards distinguish; two signals can be queued while
a third cause of `dispatch()` (a call of `flush()`) runs. `output_frames`: two frames are in
flight at most, so four let two pairs follow each other. `output_surface`: the code
compares the present size with one remembered size, and a paint only with the one
before. `output_configure`: the first configure is applied at once, so three is the least
number with two throttled ones. `output_pointer`: a late event of the first lock meets the
second lock; a leave and a second enter cross requests made for the first; three requests
let an update follow another one, or an enter, before the host has handled it. What is
bounded there is proved for any number of locks, enters, requests and looks.
`display_startup`: a missing interface shows wherever it is used, and two let a test of one
hide the lack of the other; a second seat is the first that replaces one; the invariants are
proved for hosts that lack anything and announce any number of seats.
`repo_publish`: two tags share a kwin build, the third build is the first to exceed the
retention, and four runs let three be at different stages while a fourth waits; what is
checked is also proved for any releases, runs and retention. `kwin_tracking`: with two
minors main can be behind RHEL, ahead of it, or switched back, RHEL and EPEL can move on under
a run, and two runs can propose different minors at once; of two failures one can hit each of
the two runs, or a run and the next one of the same actor; the safety properties are proved
for any number of minors, runs and failures.

`CHECK_DEADLOCK FALSE` is set for `OutputFrames`, where a destroyed output does nothing, and for
`RepoPublish`, which rests when the bounded number of runs has ended.
`EventThread` and `DisplayStartup` end in a state with an explicit last step; the other modules
can always take an environment step.

### Fairness

`EventThread`: both threads are scheduled (weak fairness), `initialize()` returns, and the
main thread gets the mutex in the end (strong fairness on taking it, because spurious
wake-ups could let the event thread take it first each time). Nothing obliges the host to
send, a signal to interrupt `poll()`, or anybody to call `flush()` or `stop()`.

`OutputFrames`: the timer ticks, the render loop starts a frame it may start, feedback is
delivered (which is what `EventThread` shows) and the host repaints. Nothing else repaints:
`KeepsStreaming` holds by the heartbeat alone. `OutputConfigure`: events are delivered and
the timer fires. `DisplayStartup`: the main thread goes on, and the host answers as long as
the connection is open; it is not obliged to stay. `KwinTracking`: the cron job runs every
week and its steps come to an end; nobody is obliged to merge or to move main, and RHEL and
EPEL to release. The other modules state no liveness.

## Findings

- **DPMS inhibition is counted per change.** `applyChanges()` inhibits the render loop for
  every change to a mode other than On (`wayland_output.cpp:484`) and lifts one inhibition
  on On (`:482`). Standby, Off, On leaves one behind: the output is On, the heartbeat ticks,
  and no frame is started, against the comment at `:207-212`. With a single mode besides On
  the count is right, and that is proved (`InhibitionFollowsDpms`, of `InhibitedWhileOff`, which is
  in no run: `KeepsStreaming` depends on it).
- **A failed black background is recorded as attached.** `present()` stores
  `m_backgroundBufferSize` and `m_mapped` whether or not `createFallbackBlackBuffer()`
  returned a buffer (`:379-385`), so it is not tried again before the size changes, against
  the comment at `:375-377`.
- **Retention goes by times that mean nothing.** `make-repo.sh:42` prunes by modification time
  after `release.yml:96` has written every earlier build in one checkout: a newer build can
  go before an older one, against `make-repo.sh:37`.
- **A stranded branch stops the watch.** `kwin-rhel-minor-watch.yml` pushes `rhel-10-N` (`:100`)
  and opens the pull request with another command (`:101`). A run that ends in between leaves
  the branch, the push of every later run is rejected, and with it the pull request and the
  closing of the issue are never reached, against the issue's own text (`:73-74`) and
  `MAINTAINING.md:96-98`.

More things the models show, without a run of their own:

- *A run against an older tag does not roll back*, against `release.yml:112-113`. It follows from
  what `repo_publish` checks: what ran before stays served, so that after a run against an older
  tag the newer packages are still there, and `dnf` takes the highest version.
- *The watch proposes a step back.* It compares with `!=` (`kwin-rhel-minor-watch.yml:50, 63, 79`),
  where its heading (`:6-8`) speaks of a *newer* minor. When people have switched main to a
  branch ahead of RHEL with `rebase-kwin.sh epel10.N`, which EPEL has before RHEL's release
  (`MAINTAINING.md:90-91`), the next run opens a pull request for RHEL's own, older minor. So
  `NeverAhead` does not say that a request is for a newer minor than the one tracked: with the
  conjunct `pullBase[n] < n` TLC finds the switch followed by a run, and such a request can wait
  and be merged after RHEL has caught up. What does hold is that merging never puts main ahead
  of RHEL (`MergesStayBehind`).
- *An issue about no minor.* A failing `curl` leaves an empty minor, since `jq` ends the pipe
  well, and an issue about it is opened (0 in `issues`, which `TypeOK` admits), although
  `MAINTAINING.md:95-96` says that one is opened if RHEL has moved.
- *A null event thread.* The destructor of a display that could not connect calls `stop()` on
  it (`"crashed"` in `DisplayStartup`, admitted by `NullOnlyUnconnected`).

## Proofs

All proofs are by an inductive invariant that strengthens the properties, with one lemma
per action, and hold for every value of the constants that meets the named `ASSUME`s, all of
which are evaluated by the runs.

`EventThreadProofs` (for any number of events and queued signals):
`TypeCorrect`, `ReadProtocolRespected`, `RoundtripsUndisturbed`, `WakeupsNotLost`,
`EventsNotStranded`, `QuittingIsFinal`, and `ImplementsPipeSafely`, the safety half of the
refinement. `IInv` strengthens them by who owns what at which
program counter: the mutex belongs to the thread whose counter is between lock and
unlock; `m_reading` or a position of the main thread after `prepare_read` accounts for the
one registered reader; a queued signal, or a position of either thread, accounts for
every state in which `m_reading` is clear. None of the properties is inductive without
it: `OneReader` needs to know that the thread polls only when it was handed a read, and
`NoLostWakeup` that the flags are set under the mutex.

`OutputFramesProofs` (for any number of frames): `TypeCorrect`,
`FeedbackCompletesItsFrame`, `MarginNeverMixed`, `NoSlotIsLost` and, for one DPMS mode
besides On, `InhibitionFollowsDpms`. The invariant relates the host's place in the stream of
frames to the client's: frames not applied, the one waiting, the one latched and the
answers under way follow each other without gap or repetition. The limit of two frames
in flight is what rules out that the host discards the waiting update while another one
is latched: with a third frame the answers could change order. `FeedbackCompletesItsFrame` also
says that after the output is destroyed an event that is still delivered completes nothing.

`OutputPointerProofs` holds the proofs of three specifications.

- `PointerLock` (for any number of locks): `TypeCorrect`, `GrabIsReflected`,
  `AssertionsNeverFail`, `HostAgrees`. The invariant follows the present lock object from
  the request under way over the host to the events coming back, each at most once and in
  that order; of every other lock object it says that its release follows its request in
  the queue, and of numbers not given out yet that they are nowhere. The grab then lies
  between the handling of `locked` and of `unlocked` of the present lock, and the assertion
  of `inhibitShortcuts()` follows from `locked` being sent once.
- `OutputCursor` (for any looks and any number of enters and requests):
  `CursorTypeCorrect`, `HostShowsTheCursor`. The last commit under way, or else the host,
  has the image; the last `set_cursor` with the serial of the latest enter, or else the
  host, has the hotspot, as soon as the cursor has heard of that enter; and enters and
  leaves alternate, so that the cursor has a pointer and the right serial whenever no event
  is under way.
- `OutputPointer`, their composition, implements each of them (`RefinesPointerLock`,
  `RefinesOutputCursor`: every step is one of the component's or leaves its variables
  alone), from which what is proved of either carries over to the properties of the run
  (`GrabIsReflectedThere`, `AssertionsNeverFailThere`, `HostAgreesThere`,
  `HostShowsTheCursorThere`, `PointerTypeCorrect`). `GrabHidesTheCursor` needs one fact more: a
  layer presented as off has the cursor disabled.

`OutputConfigureProofs` (for any sizes, scales, rates and number of configures):
`TypeCorrect`, `SettlesOnTheNewest`, `ModeFollowsScale`, `AcknowledgesInOrder`. While the
timer runs, what is pending is the newest configure that has arrived, not yet
acknowledged; turning a size twice gives it back.

`OutputSurfaceProofs` (for any sizes and number of paints): `TypeCorrect`,
`ShowsItsOwnPaint`, `NeverUnmapped`, `ViewportIsOneToOne`. Between `setBuffer()` and `present()`
the paint is what is attached; under RAIL there is content from the first paint on; and
unless the next pass must paint, what the next commit shows has the size of the mode. The
last two are what survives a refused `present()`.

`RepoPublishProofs` (for any releases, any number of runs, any retention): `TypeCorrect`,
`StaysPublished`. Runs of the concurrency group do not overlap, so that the tree a run
fetched is still the published one when it pushes; pruning keeps this run's build; and
what ran before has its tag and its fetch for good.

`DisplayStartupProofs` (for a host that lacks any interfaces, any number of seats, and a
hang-up at any moment): `TypeCorrect`, `NoNullGlobalUsed`, `DecisionsAgree`,
`EveryProxyReleased`. The invariant says for each stage of `initialize()` what the two
directions of the wire can hold, message by message, and whether the globals have been
handled yet. From this follows that the globals are handled once, in the first round trip,
so that no plain pointer is overwritten; that what describes them has arrived when the
checks run, unless the host hung up, after which nothing arrives at all; and that only
the seat, a `std::unique_ptr`, is ever bound again. A display that passes the checks has what
they insist on, and this contains what is used without a test.

`KwinTrackingProofs` (for any number of minors, runs and failures): `TypeCorrect`,
`NeverAheadOfRhel` and `OnlyPeopleMoveAhead`, which is an action property: whatever changes main,
other than people with `rebase-kwin.sh`, takes it to a minor that RHEL has released and never off
a pinned commit. `NeverAhead` is not inductive, because a run opens its pull request several
steps after it compared, when main may track anything else; the invariant keeps what was
compared: a run under way found a minor that was out, or none, and another one tracked than
that; and it found the minor's branch before it pushes. That a merge leaves a pin alone then
rests on the conflict in `.gitmodules`: a request made from another base than the present
one is not merged, and no request is made from a commit.

Only model-checked: liveness (`ImplementsEventPipe`'s fairness part, `StopReturns`,
`FramesComplete`, `KeepsStreaming`, `EveryConfigureAcked`, `InitializeReturns`,
`EventuallyProposed`), which is out of the prover's reach. Every safety property of a passing
run, invariant or action property, is also a theorem.

## Not modelled

- Colour values (`updateColor`, image descriptions), tearing hints, layer positions and
  source rectangles: values handed through.
- `kwin-dependabot-rebase.yml` and `gen-patch.sh`: one checkout, step by step, with nothing
  kept between runs.
- The tarball (`lib.sh`): a download with two mirrors and a checksum. A corrupt file from
  the first mirror stays and fails every later build; that is listed as a hazard and
  follows from reading six lines.
- The launcher, the shim, the `.repo` file, the lint, CI and release-please workflows: no
  state of their own.
- Arithmetic. Refresh rates, sizes and times are values without arithmetic, so the overflow
  in `createFallbackBlackBuffer` (`wayland_output.cpp:57-58`), the truncation at `:289` and a
  negative safety margin (`:455`) are not checked.
- `make-repo.sh:42` with a subpackage that has no RPM: `nullglob` makes `ls` list the working
  directory. The four subpackages are always built together, so that it does not happen.
- `m_fractionalScale`, the one listener that `~WaylandOutput` leaves in place
  (`wayland_output.cpp:238-248`): `OutputConfigure` has one output that lives on. Listed as a
  hazard.
- The end of the process. `dispatch()` ends in `qFatal` when `wl_display_dispatch_pending()` fails
  (`wayland_display.cpp:85-87`); in `EventThread` the connection does not break, and in
  `DisplayStartup` a display that was ready stays so after a hang-up. When `run()` ends
  at `:135-137` a prepared read is not given back, and no property asks for it: between `stop()` and
  `wl_display_disconnect()` nobody reads.
- A colour manager or a RAIL shell announced late: in `DisplayStartup` only seats come after
  the first answer, so what `registry_global()` would do to decisions already made is not
  checked.
- What is between `testPresentation()` and `present()`: a pass is one step of `OutputPointer`, in
  which the refusal of `present()` (`wayland_output.cpp:363`) is never reached.
- The size of what is committed with an acknowledgement: `AcksNewest` is about the order of the
  acknowledgements only. And which size a rotated output should have: `SettledIsCurrent` admits
  the turned one, as the code computes it at `wayland_output.cpp:442`.
- Several outputs: one output has all the state; `pointerLockChanged` does not say whose
  lock is gone.

## Plan

1. `WaylandOutput`: `OutputFrames` and `OutputSurface` composed, so that a refused present and
   the frames in flight meet, with destruction while configure and scale events are under way.
2. `TarballFetch`: mirrors, checksum, and what a repeated build finds.
