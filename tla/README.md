# BodhiByteOS in TLA+

BodhiByteOS is a personal operating environment: a window manager (dwm), a screen
locker (slock), a status bar, a terminal (st), a menu (dmenu), an on-screen keyboard
(svkbd), a Bluetooth audio daemon (bluez-alsa), and shell scripts that glue them together
and manage virtual machines and a conversation with a language model. This directory
specifies the parts of it that decide something: it models them in TLA+, checks the
models with TLC, and proves facts about them with TLAPS.

Paths below are relative to the repository (`src/`); bluez-alsa is
`vendors/bluez-alsa`, whose daemon is in its own `src/`.

## 1. Inventory

| Component | State it keeps | Operations | Interacts with |
|---|---|---|---|
| dwm (`vendors/dwm/dwm.c`, `config.h`, `movestack.c`) | monitors, two lists of clients per monitor, selection, tags, client flags; the input focus and mapped windows in the X server | one handler per X event, one function per key or button, a nested event loop while the mouse drags a window | X server and X clients (events, asynchronous), the user |
| layouts and gaps (`vendors/dwm/vanitygaps.c`) | factors and gaps | arrange functions | dwm's geometry |
| slock (`vendors/slock/slock.c`) | pointer and keyboard grabs, the typed text, failure, colour | `lockscreen`, `readpw` | X server, other slocks (xautolock in `.xinitrc`, the Logout entry of `custom-dmenu-run.sh`, the lock key), other grabbing programs |
| dwm-status-bar (`utils/dwm-status-bar.sh`) | none but its processes; the name of the root window | `start`, `refresh`, `status` | process table (pgrep, pkill), dwm, the volume keys of `config.h` |
| groqai (`utils/groqai.sh`) | the session file | one question | the web service, other runs of itself |
| qemu-vm-manager (`utils/qemu-vm-manager.sh`) | image, seed, disks, `/dev/nbd0`, `/mnt`, running machines and ports | install, start, stop, status, mount-qcow, umount-qcow | qemu, ssh, the kernel, other terminals |
| st (`vendors/st/st.c`) | two screens, the history and the view of it, cursor, region, selection, dirty rows | what a program prints, keys and mouse, changes of size | the shell, `x.c` |
| bluez-alsa: transports (`ba-transport.c`, `ba-transport-pcm.c`, `io.c`, `bluealsa-dbus.c`) | sockets, PCM states, IO threads, a manager thread | Open, SelectCodec, signals of BlueZ, drain, stop | BlueZ, clients, every thread of the daemon |
| bluez-alsa: RFCOMM (`ba-rfcomm.c`) | the service level connection of each end, gains, codecs | AT commands and replies, time-outs, codec selection | the other end, clients |
| bluez-alsa: A2DP codecs (`a2dp*.c`) | capabilities, a configuration | select, check, set-up of PCMs | the other end |
| bluez-alsa: streams (`a2dp-*.c`, `sco*.c`, `rtp.c`, `codec-*.c`) | buffers, packet and frame numbers | one loop per encoder and per decoder | a link that loses packets, clients |
| bluez-alsa: adapters, devices, storage (`ba-adapter.c`, `ba-device.c`, `storage.c`, `sco.c`) | reference counts, tables, stored volumes | new, ref, unref, destroy, connect, disconnect | main loop, RFCOMM threads, clients, SCO dispatcher |
| bluez-alsa: endpoints (`bluez.c`) | exported endpoints, the remote SEPs, profiles | SetConfiguration, ClearConfiguration, Release, SelectCodec | BlueZ, which may end and start |
| bluez-alsa: plug-ins (`asound/bluealsa-pcm.c`, `bluealsa-ctl.c`) | a ring buffer with an IO thread; the elements of a mixer | the callbacks of alsa-lib | the program, the daemon |
| dmenu, svkbd, bluez-alsa's tools, whisper | a menu; pressed keys; | | |
| bodhi.sh, dotfiles, other utils | none | install, menus | the host |

What is hard, and the properties that answer it; the full list of hazards, each at its line,
is in `PROJECT.json`:

* **dwm: long sequences of legal calls.** `focus`, `detachstack`, `sendmon`, `unmanage`,
  `view` and the removal of a monitor are called in any order on shared lists.
  Do the two lists agree (`ListsSound`), is the selection the most recently used visible
  client (`SelIsTop`), does the keyboard input go where the border is (`FocusAgrees`,
  `FocusShown`), does the order of use survive (`FocusOrderKept`)?
* **dwm: asynchrony.** Windows die, unmap and ask to be mapped while older events are in
  the queue, and a drag takes map requests out of their order (`Settled`, `MapHonoured`).
* **movestack: pointer surgery** with neighbours, ends and gaps (`ImplementsRow`).
* **slock: hold and wait** for two grabs with retries, a clock that is read late, a buffer
  bound, a colour that follows the text (`LockedHoldsInput`, `OnlySecretOpens`).
* **Scripts: a kill, an interrupt or a second terminal between two lines**
  (`BarCatchesUp`, `MemorySound`, `DeviceReleased`, `BaseKept`, `GuestsSafe`).
* **st: rows that move** by scrolling, the history and resizing, with a selection and a
  reader on them (`ReflowKeepsText`, `ScreenRowsDirty`, `ViewStays`, `SelectionKept`).
* **bluez-alsa: threads.** Reference counts across four kinds of threads, a manager that
  stops what main starts, two ends that change the same setting, a client that waits for
  an answer that never comes (`ClientServed`, `ReclaimedFirst`, `GatewayAnswers`,
  `EndsInStep`, `SelectAnswered`, `FreedInTime`, `ReconnectedAgree`, `BlueZAgrees`).
* **bluez-alsa: streams.** Lost packets, buffers that fill, pause, drain and stop against a
  worker (`StreamComplete`, `FramesInOrder`, `Aligned`, `PollWoken`, `CallsReturn`).
* **bluez-alsa: a mixer that follows** PCMs by signals which wait in two places, with calls that are
  refused and names that may be equal (`MixerInStep`).

A flag of history in a property (`refused`, `inTurn`, `leaks`, `alone`, `overlap`, `crossed`, `moved`,
`smooth`, `missed`, `dropped`) names a case in which the code does not keep the promise. The property says
nothing of that case; the hazard's note in `PROJECT.json` says what happens there, and section 3 lists
them all.

## 2. Modules

```
Lists ── Dwm ── DwmProofs ── DwmFocus
  │       └──── MCDwm
  └── ClientRow <── refines ── DwmPointers ─┐
      DwmLifecycle ── LifeProofs            ┴─ MCWindows
      Slock, GroqSession, QvmDisks, QvmGuests ── UtilityProofs
      Slock, StatusBar, GroqSession, QvmDisks, QvmGuests ── MCUtilities
      Terminal, A2dpSelect, A2dpStream ─────── MCSequential
      BaTransport ── TransportProofs           BaPcm ── PcmProofs
        └──── MCBaTransport                    BaRfcomm ── MCBaRfcomm
      BaDevices ── DeviceLemmas ── DeviceProofs
      BaDevices, BaBluez ── MCBluez            BaPcm, BaCtl ── MCAsound
```

An MC module that extends several models is their *sum*: a variable that no action changes
names the one that acts in a behaviour, and the others stay where they begin. These models
share no variable, so a property of the sum is the property of its part. Parts that
do interact are in one module. Constants that an instance varies (`Mixes` of dwm, `Streams`,
`Loads`, `Links`, `Setups`, `Budgets`) are sets of records, from which Init chooses: they
bound the environment and the number of faults, and no guard of the modelled code reads them.

A definition under a comment *Slip* is not part of a specification. It is a version of the
definition after it with a mistake that would be easy to make.

**Dwm.** dwm is one process without threads and a handler runs to its end before the next
event is taken. So a handler is one action, and is the composition, in the order of the
code, of operators named after the functions it calls. `Sent`, `Mapped` and `Unmapped` are
`sendmon`, `manage` and `unmanage` up to their call of `focus()`. All that the handlers
read and write is one record `dwm`. Its fields are those of `struct Monitor` and `struct
Client`; the boolean fields of a client are sets (`floating`, `fullscreen`, `oldstate`,
`urgent`); `lit` is the border and the button grabs of the focus; `live`, `xfocus` and
`stolen` are the server's. `phase` says whether dwm is in `run()`, in the loop of a drag, in
`cleanup()`, has stopped, or has crashed. What a window's properties say is the constant
`Hints`; what changes at run time (urgency, the input hint, transient and dialog hints,
`_NET_WM_STATE`) is chosen by the events. There is no geometry: `recttomon` and the pointer choose any
monitor. `config.h` binds no key to the layout without arrange function, so the
tests of `lt[sellt]->arrange` are true. `restack` and `arrange` draw and move; the
EnterNotify events they cause are discarded by `restack` itself. `updatewmhints` writes
`neverfocus` whenever WM_HINTS change (the inputs *hints* and *deaf*), which does not set the focus;
`refused` is history, whether the last `setfocus()` found the hint. The keys 4 to 9 give tag
arguments that `TAGMASK` removes; they are the bits of `Bit \ Tag`.

**DwmPointers, ClientRow.** The list of clients as the code keeps it, a function from
cells (`m->clients` and every `c->next`) to clients, with the walks of `detach`,
`attachbottom`, `nexttiled` and `movestack`, which are recursive. `ClientRow` is what the
list promises: a sequence. `ImplementsRow` maps the chain to the sequence it spells.

**DwmLifecycle.** The handlers that manage and unmanage, with the queue of the connection
between dwm and the server: MapRequest, UnmapNotify (real and synthetic), DestroyNotify,
each notification twice, as dwm selects it on the window and on the root. The
reply on the attributes of a window and the requests of `manage` are separate steps, as
programs act in between.

**Slock.** One action for each request of `lockscreen`, one for the pause, one
for each event of `readpw`. Input waits in the queue of the holder of the grab from the
grab on, so a motion made while the keyboard was still to be grabbed is in the
queue when the clock starts.

**StatusBar.** The process of `start` (measure, name, sleep) and one for every volume key
(press, list, kill). `Within` says whose process id is, as text, a part of the id of
`start`: sed destroys that id.

**GroqSession.** One action for each line that touches the file. A redirection empties the
file before `echo` writes to it: two actions. The write goes to the beginning of a file that
another run may have filled since, so a longer text sticks out behind a shorter one: `rest` is the text
that the last bytes are from, `Length` the bytes of each summary. jq answers for the list at the
beginning before it fails on the rest, so such a file gives no context (`Readable`) but is still
appended to. `told` and `inTurn` are history.

**QvmDisks, QvmGuests.** The two halves of `qemu-vm-manager.sh`. Under `set -e` a failing
command ends the script through the trap that is set at the time. Two downloads of one
file overwrite each other. `QvmGuests` has the machines, their ports and the steps of
`stop`: read the list, look the port up, log in. `alone` is history: no command was started
while another one ran; it is read by no guard.

**Terminal.** The glyph grid of both screens, the history, the region, the cursor with its
pending wrap, the selection in the coordinates of the window, and the dirty rows. One
action per control sequence, mouse event or change of size.

**A2dpSelect.** Capabilities as sets of bits, nine codecs. One action per step of the
negotiation: options, capabilities, selection by either end, check, PCMs. `ForeignRates`
are the rates a device that is not this daemon may offer.

**A2dpStream.** One encoder and one decoder loop per codec family over a link that loses
packets; a turn of a loop is an action. A coded frame stands for `frame` units of samples
and is `len` bytes; each way of packing, fragmenting and numbering is its own. RTP
sequence numbers are modulo `RtpMod`. The codec libraries are external: they never fail on
what an encoder made, and what they do with other bytes is a choice.

**BaTransport.** Main loop, manager thread, one IO thread and one Open worker per PCM, one
SelectCodec worker; every mutex and condition variable that is held while its holder
waits. A short critical section is one action. Open() of a gateway reads the codec under
`codec_id_mtx`, before it acquires and while it does, and fails when none is chosen.

**BaRfcomm.** Both ends of a link with their threads; a turn of `rfcomm_thread()` is an
action; time-outs occur only when nothing is on the way. bodhi.sh builds without mSBC
(the instances `Plain`); the others are builds with codec selection.

**BaDevices.** Structures as they are allocated and freed, their counts and tables. The last
unref of a transport takes it out of the table in one step and stores its volume, gives
its device back and frees it in another (`TransportUnref`, `TransportFreed`), as in the code.
`overlap` and `crossed` are history: a device had two structures at a time, or a link was
torn down by two threads.

**BaBluez.** The main loop handles what is in `inbox` in its order; SelectCodec runs in its
own thread; BlueZ answers at once. The daemon is the source of streams and is started
before BlueZ.

**BaPcm and BaCtl.** The callbacks of the two alsa-lib plug-ins. alsa-lib's ioplug and the
program are external. In BaPcm the IO thread and the application interleave at every access
to shared state. `smooth` is history: it is FALSE from a point on where the code is known to
lose its way (below).

BaCtl has two places for a signal that was not dispatched: the socket, and the queue of libdbus
(`ctl.queued`), which reads what is there with every answer it waits for. Only the socket and the
pipe make poll() return (`Readable`). A write asks the daemon and waits: the answer comes after the
signals before it (`SvcAnswers`), or it is refused or the PCM is gone (`SvcRefuses`), and then
`bluealsa_write_enumerated` returns with the signals still queued. A name is what alsa-lib
compares: the words of the alias, which may end in a number, the profile with BTT only, the kind, the
direction and the index; two may be equal, and `Numbered` goes through the list as the code does.
`missed` (PCMs of whose changes no signal came, or a device renamed without an element) and
`dropped` (events that a write threw away, or of elements with one name) are history.

## 3. Runs

Each run finishes within five minutes on two cores. Symmetry is used for plain windows, in
a run without liveness.

| Run | Checks | Instance | States |
|---|---|---|---|
| Dwm | ListsSound, SelIsTop, FocusAgrees, QuitReleasesAll, FocusOrderKept | 3 windows; 2 tags and a bit outside TAGMASK, or 1 to 2 monitors that come and go, drags, clicks, quit, or input hints that change and programs that steal the focus | 145,867 |
| DwmStates | FocusShown, FloatingKept | 3 windows: fixed size, fullscreen, ruled dialog | 116,477 |
| Windows | Settled, MapHonoured; ImplementsRow | 2 windows, 7 requests, 2 drags; a chain of 4 clients | 544,968 |
| Utilities | LockedHoldsInput, OnlySecretOpens; BarCatchesUp; MemorySound; DeviceReleased, BaseKept; GuestsSafe | 2 slocks, 3 tries, 3 inputs, buffer of 3; 3 volume keys; 3 runs with summaries of two lengths, 1 interrupt; 2 terminals, 2 interrupts; 4 machines, 2 ports | 704,862 |
| Sequential | ReflowKeepsText, ScreenRowsDirty, ViewStays, SelectionKept; SelectionRight; FramesInOrder, StreamComplete, Aligned | screens up to 3 by 4, history of 3, eleven mixes; nine codecs, two daemons or a foreign device; twenty streams | 376,700 |
| BaTransport | ClientServed, ReclaimedFirst, GatewayAnswers | two or three calls of Open undisturbed, or one with up to two events | 272,106 |
| BaRfcomm | EndsInStep, SetUpEnds, SelectAnswered | twelve links: codecs, refusals, a deaf telephone, a loss | 155,886 |
| Bluez | FreedInTime, ReconnectedAgree; BlueZAgrees, SelectedIsAsked, SelectAnswered | four loads on one device; seven mixes of faults with two devices | 363,756 |
| Asound | PollWoken, FramesInOrder, CallsReturn; MixerInStep | rings of two periods, 2 or 4 commands, both directions; nine mixers of up to three devices | 451,900 |
| BaStop | NoProgrammingError (violated) | two clients of one transport | |
| RfcommRetries | RetriesBounded (violated) | a telephone that ignores one command | |
| CtlOneDevice | OneDevice (violated) | the nine mixers of Asound | |

*Why the bounds are enough.* The lists and the focus of dwm are decided by comparing
neighbours, the head and the visible part of a list: three windows give a selected, an
older visible and a hidden one; two monitors give every transfer and every removal, as
`updategeom` removes from the end. `movestack` has its special cases with two to
four elements. Two tags and one bit outside the mask tell every tag argument of `config.h`
apart. Seven requests allow map, withdraw, map and destroy of one window around the
same of another. `Tries` of slock is 3 rather than 6: a try that finds both grabs, one, or
none, and the last one; `Size` is 3 rather than 256 with a password of two bytes, so the
boundary is met by keys of one and of two bytes. A history of three
lines overflows, two rows resized to three and back move lines both ways. In the streams
each buffer holds about two frames, packets are shorter than a frame where the codec fragments,
and `RtpMod` is 4, so that a number repeats within a run. Rings of two periods meet empty,
full and wrapped. Where a theorem exists (section 4) the bound does not matter for
safety: the run checks that the instance reaches the cases.

*Deadlock* is checked in DwmStates. The other runs say CHECK_DEADLOCK FALSE, because their
systems may really stop: after quit or a crash, when the budget of requests is spent, when
every instance, run or client has ended. What must not stop there is said by liveness
properties or by invariants such as PollWoken and SelectAnswered.

*Fairness.* Weak fairness of what a thread does when nothing external is needed:
`WF(Dwm)` (the event loop takes what is queued) for MapHonoured, whose premise is a user who never
drags; `WF(LoopStep)` of the status bar's endless loop; `WF(Daemon)`, the threads of
BaTransport; each thread and the codec selection's waiter of BaRfcomm; main,
the call's thread and BlueZ's answers in BaBluez; worker, call and server in BaPcm. Users,
programs, links and other devices are never obliged to act, and time-outs, losses and refusals are
never fair. BaDevices, BaCtl, Dwm and the utilities other than the bar need none: their
properties are safety.

### Where code and text disagree

Three runs expect a violation; `findings` in `PROJECT.json` quotes the sentences.

| Run | What happens |
|---|---|
| BaStop | the manager marks both PCMs for stopping and frees their locks, main starts the second one, the manager finds it STARTING and aborts (ba-transport.c:163) |
| RfcommRetries | after a time-out the handler is still set, the jump skips the test of the retries and the command: the loop counts for ever (ba-rfcomm.c:1240) |
| CtlOneDevice | a dynamic mixer of one device takes in PCMs of any other (bluealsa-ctl.c:1442) |

Seen while modelling, in the models but without a run of their own:

*dwm.* A selected window whose input hint turns on gets no keys before the next focus() or FocusIn
(dwm.c:2055). A window mapped during a drag is toggled in place of the dragged one (dwm.c:1211).
The end of a drag and `updategeom` change `selmon` without unfocusing (dwm.c:1217), so the old
border stays: FocusShown is stated without them. A hidden transient mapped on another monitor
lies in front of that monitor's visible clients, so clicking its bar reorders them: the second
exception of FocusOrderKept. `movestack(+1)` without a selected client dereferences NULL
(movestack.c:7). A map request that a drag takes ahead of an unmap notification is dropped. A
fixed-size window mapped fullscreen is tiled when it leaves fullscreen.

*Scripts.* `refresh` while `start` measures, or with another match of pgrep, updates nothing
(dwm-status-bar.sh:98). mount-qcow disconnects the device it has just mounted
(qemu-vm-manager.sh:508). Stopping by the id of a graphical machine may stop another one
(:472); the EXIT trap says "Successfully installed vm" after any end (:265); with two terminals
the second `install` takes a download under way for the image.

*st.* A tab and ESC D leave a pending wrap at another rune. Growing with history drops lines below
the cursor; shrinking leaves the selection on freed rows. ICH, DCH and insert mode shift cells under a
selection; `tsetchar` on a dummy at column 0 writes before its line; a write while scrolled back
marks the wrong row of the window; the test that clears a selection passes `term.c.x + term.scr`
as column (st.c:2703).

*BaTransport.* Open and SelectCodec take `client_mtx` and `codec_id_mtx` in opposite orders.
A drain hangs when Open resets its timeout or the IO thread exits (ba-transport-pcm.c:229).
`acquisition_mtx` stays locked when SCO fails to start (ba-transport.c:1220). BlueZ
refuses Release after its own suspend, so the socket is never closed.

*BaRfcomm.* Choices of different codecs that cross leave the ends with different ones; gains swap
when changes cross; after a rejected codec the gateway's handler stays; the OK of a volume
command can be taken for that of another; a client waiting in SelectCodec when the link is lost
is never answered.

*BaDevices.* An RFCOMM thread that has tested `link_lost_quirk` while main destroys its
link frees it a second time; the dispatcher may free its own adapter; an instance that is freed late
overwrites the stored volume of its successor; a dispatcher that cannot open its
socket is never started again.

*BaBluez.* `bluez_register` does not collect the endpoints of devices that are already there.
`g_array_remove_index_fast` breaks the promised order. A pointer into the array of SEPs
may be stale in a worker. Release marks an endpoint as not registered and nothing registers it
again. SelectCodec does not test `sep->enabled`.

*A2dpSelect.* FastStream's selection needs both directions, its check accepts one. The result of
`transport_init` is ignored (ba-transport.c:1027).

*A2dpStream.* `rtp_state_sync_stream` does not reset `ts_pcm_frames`. The mSBC and LC3-SWB
decoders keep frames they could not write and give them to the next client. Four lost frames
in a row go unnoticed. A lost last fragment joins fragments of two frames. A frame larger than
the MTU (SBC) or an MTU above 180 (mSBC) never sends. An aptX decoding error loops for ever,
an Opus one ends the thread.

*BaPcm*, where `smooth` ends: resume or start followed at once by a pause stops the server in
the middle of a transfer (bluealsa-pcm.c:899); `prepare` that overtakes the thread that ran dry
causes one stale transfer; a stale SIGIO makes a later pause wait for ever; a pause or drain of a
stream that ran dry unnoticed keeps the server paused or loses frames; an `avail_min` of the
whole buffer gets no event at prepare.

*groqai.* Two runs that have both emptied the session file leave the end of the longer text behind the
shorter one, and an interrupt may leave the file empty: until somebody deletes it, every later run ends with
an error of the service.

*BaCtl.* A codec or delay write that is refused, or whose PCM is gone, returns without dispatching the
signals that libdbus read while it waited: the program is not woken for them before something else
happens (bluealsa-ctl.c:1259, 1280). Elements of two profiles of a device have one name unless BTT is
on, as the manual says (bluealsa-plugins.7.rst:470); so do two devices of which one is called like the
other with its number. `bluealsa_elem_cmp` is no order when codecs are shown with another enumeration for
two PCMs of one profile: left out. Where `missed` and `dropped` are set: removing a PCM clears its pending ADD but queues
REMOVE; events of a freed PCM whose address is used again are cleared with those of the new one;
`process_events` throws away others' events during a codec or delay write; the cache of devices is
never invalidated; changes between open and subscribe are missed; the bounds tests `key >
elem_list_size` are off by one; a program that reads one event per poll is not woken for the next.

Outside the models: a monitor query without screens does not end in `updategeom`
(dwm.c:1897); `bodhi.sh` prints a target (`install-bleuz-alsa`) that its case does not know.

## 4. Proofs

The theorems hold for every value of the constants that satisfies the named assumptions of
their module, which TLC evaluates on every run: sets of any size, any number of steps. The
assumptions say that NULL is no window and no monitor, that `config.h` has a tag and its tags
are bits, that there is at least one screen and none twice, and so on: nothing that a
program could violate.

| Theorem | Property | Module |
|---|---|---|
| ListsStaySound | ListsSound | DwmProofs |
| SelectionIsMostRecent | SelIsTop | DwmProofs |
| FloatingIsKept | FloatingKept | DwmFocus |
| FocusFollowsSelection | FocusAgrees | DwmFocus |
| FocusIsShown | FocusShown | DwmFocus |
| QuitIsComplete | QuitReleasesAll | DwmFocus |
| FocusOrderIsKept | FocusOrderKept (action property) | DwmFocus |
| EventsSettle | Settled | LifeProofs |
| LockIsExclusive | LockedHoldsInput | UtilityProofs |
| OnlyPasswordUnlocks | OnlySecretOpens (action property) | UtilityProofs |
| ConversationSound | MemorySound | UtilityProofs |
| GuestsStaySafe | GuestsSafe | UtilityProofs |
| DeviceIsReleased | DeviceReleased | UtilityProofs |
| ImageIsKept | BaseKept (action property) | UtilityProofs |
| SocketIsReclaimed | ReclaimedFirst (action property) | TransportProofs |
| PollIsWoken | PollWoken | PcmProofs |
| FramesStayInOrder | FramesInOrder (action property) | PcmProofs |
| NothingIsLeft | FreedInTime | DeviceProofs |

With them every safety property that the runs Dwm, DwmStates, Windows and Utilities
check is a theorem of its specification, but for the refinement `ImplementsRow`; so are one of
BaTransport, one of BaDevices and the two of BaPcm.

**dwm, the lists (DwmProofs).** The module begins with facts on RemoveFirst, Cons, Append, exchange
and reversal of sequences without repetition, and on the order of their elements. No part of ListsSound is inductive alone:
`DetachStack` repairs `sel` only if the client is in the list that `mon` names, and moving a
client needs `mon` to be a listed monitor. `Placed(s)` is all of it on a state between two
*calls* (types, lists that agree with `mon`, listed selections, a listed `selmon`);
`SelTop(s)` says that the selection is the most recent visible client. The inductive
invariant `IInv` is `Shown(dwm) == Placed(dwm) /\ SelTop(dwm)` with, for drags, that the
dragged client stays managed, since a drag handles no UnmapNotify. The first half of the
module proves of each function that it takes a `Placed` state to one. `SelTop` is broken in the middle
of almost every handler; `FocusPlaced` shows that `Focus` restores it from any `Placed` state,
and a handler that does not end in `Focus` writes nothing `SelTop` reads. `Command(s, t)`
names the few shapes that a key's command has, so that later proofs treat a shape rather than a
key. Then there is one lemma per group of events.

**dwm, the focus (DwmFocus).** On top of `IInv`, `FocusInv` adds `Floats` (fullscreen and
fixed-size clients float, and `oldstate` remembers it), `Keyed` (the input focus is the selected
client's, unless its hints refused it when it was offered, or a FocusIn is waiting that gives it
back), and `Lit` (only the selected client is lit,
and it is not urgent) where no handler changes `selmon` behind focus's back. `FocusEffect` says
what a call of `Focus` writes; each handler is its edits followed by such a call, or one that
touches flags only (`Kept`).

**dwm, the order of focus (DwmFocus).** `Passes(s, t, m, c, d)` says that d overtakes c on the list of m
from s to t. `EditInOrder` shows that taking one element out or putting a new one in lets none pass,
and `DropMonInOrder` that moving the list of a removed monitor does not; `FocusRaises` that
`Focus` lets only the client pass that it then selects; `PassesThrough` composes: who passes on the
way over a middle state passes before it or after it. A handler is edits and one `Focus`
(`FocusAfterRaises`), or two calls of `Focus` of which the first is `SelectMon` with no
wanted client (`RaisesTwice`), which raises what the monitor showed. At the end of a drag the
first call passes only clients that stay hidden (`DragReleaseOrder`).

**The life of windows (LifeProofs).** Settled speaks of the empty queue only. The invariant
`InStep(w)` says what the queue holds of each window: a mapped window has no UnmapNotify waiting;
one that is not mapped and has a client has one of its notifications waiting; and the two copies of
a notification are neighbours, and when the first has been handled the second is at the head, and no
drag or map can begin between them.

**slock (UtilityProofs).** `Grabs` relates each grab to the line its holder is at, `Texts` says that the
text fits with its zero and that the logo tells whether there is one, from the start to the end of
the lock. What is queued is not restricted.

**groqai (UtilityProofs).** `MemoryInOrder` is inductive with the types. That a summary is
told once, and that the file holds summaries of ended runs, needs `ToldOnce`, `Ended` and `ContextFirst`:
what every run holds at its line. That nothing is lost while runs take turns is `Kept`:
the conversation is in the file, which is then one list with nothing behind it, or in the hands of the
one run about to write it. The lengths of the summaries do not matter to the proof: what a torn file ends
in is any text.

**qemu-vm-manager (UtilityProofs).** `FoundItself`: while the chosen machine runs in mode ssh, the
lookup found it; with one line found the port is its own, and no other machine has it. For the
disks `OneCommand` (terminals that take turns have at most one command) and `ImageFirst` (a
command that may write the image has found none, so no disk is based on it yet).

**bluez-alsa, the reuse of a transport (TransportProofs).** ReclaimedFirst relates a step of
Open() to what up to four other threads have finished. `Reclaimed` is its core: with neither socket
nor `stopping` no IO thread is left. It needs that one cancellation is under way at a time, from
the flag to its reset (`OneStop`), that a thread in a critical section holds its mutexes (`Locks`), that a PCM is
idle or terminated just while it has no thread (`Threads`), where threads are started (`Starts`),
what is on the way from BlueZ to the main loop (`Signals`), and who may have asked for the stop
that overtakes a new acquisition (`SourceStops`, `AgStops`). The last three and `Reclaimed` hold until
the device disconnects or a failed Open() leaves `acquisition_mtx` locked (`Orderly`); then
nothing can be acquired any more, which the theorem uses. The fifty actions are first
reduced to *shapes* (`NextShape`): what a step does to the few facts that the invariant
reads, with the pipes reduced to "has a cancel, once". Each part is then kept by each shape. TLC
has checked the invariant on loads of two calls with an event and of one call with two,
for both profiles (2.3 million states).

**bluez-alsa, the ring of the PCM plug-in (PcmProofs).** The ring holds numbered frames and the two
pointers run modulo the boundary; the first lemmas do that arithmetic once, for rings of any size:
how `Fwd` and `Bwd` move a pointer, what `Fill` makes of it, and that two frames less than a buffer
apart lie in different slots. On them, `Pos` relates the four counts of a stream (frames made, delivered, at the program and
at the thread) and `Written`, `Recorded` and `Coming` say which numbers
the ring, the block in the thread's hands and the FIFO hold. FramesInOrder follows
as long as the stream is `smooth`, and `Bounds` carries what a block may
reach past the published pointer. PollWoken needs who will still write the event file:
`Told` says that a program which waits has an event queued or a thread before a
line that raises one; `Phases` says at which line of the thread which state of the stream can be
met, `Parking` and `Drains` what the pause and the drain of a caller still expect of the thread, and
`Linked` that a started thread has its pipes. The proof found two slips of the model, which the run's
buffers of two and four frames could not show: frames were prepared without the wrap of their numbers
at the boundary, and `avail_min` at or above the buffer (`WaitsForAll`) is
told of at no state, not only at prepare. TLC has checked the invariant on buffers of one to
three frames, periods of one and two, `avail_min` of one and two (1.2 million states).

**bluez-alsa, adapters, devices and transports (DeviceLemmas, DeviceProofs).** A structure is freed
when its count reaches zero, so FreedInTime stands on what each count counts.
`Sound(h, et, ed, ea)` says that the count of a transport, a device or an adapter of
the heap h is exactly the number of its holders: for a transport, its D-Bus object with the calls
under way, a client, the RFCOMM link, a thread that tears the link down, a dispatcher that serves
it; for a device, its transports, a battery and a dispatcher; for an adapter, its devices;
and, last, what main holds outside the heap, which is in the functions it is in the middle of (`et`, `ed`, `ea`;
`ByMainT`, `ByMainD` and `ByMainA` count it). The other parts of `Sound` say how structures
refer to each other, and that what a table lists is not freed; `MainShape` says which functions main may be
in, and `Joined` that a link main joins is its own. An edit that moves a reference from one holder
to another leaves the count and `Moved` changes the outside part; `UnrefTransport`,
`UnrefDevice` and `UnrefAdapter` give one back, down to the structure below when it was the
last. On them each action is a short proof; the invariant holds until two
threads have torn down one link, after which nothing is claimed but that they did (`crossed`). When nobody is active,
no holder is left, so every count is zero. TLC has checked the invariant with two addresses and four
loads (872 704 states).

*Only model-checked.* Liveness (MapHonoured, BarCatchesUp, GatewayAnswers, SetUpEnds,
SelectAnswered, CallsReturn) and whatever needs ENABLED, which the prover cannot do;
`ImplementsRow`, because the walks of DwmPointers are recursive operators; the screen of st and the
choice of codecs, whose operators are folds over data; `BlueZAgrees`, whose table of remote end points is
sorted. *Not proved yet:* `ClientServed`, `EndsInStep`, `MixerInStep`, `ReconnectedAgree` and the three
invariants of A2dpStream.

## 5. Not modelled, and why

* dwm: geometry, gaps and drawing (no modelled guard reads them); `scan` at the start; slock: a
  second X screen, the image, dropping privileges; `transient.c` is a test client.
* qemu-vm-manager: bridges and status, and the installation from an ISO file, which has neither
  trap nor test. `bodhi.sh`, menus, dotfiles: sequential, they keep nothing.
* st: SNAP_WORD, colours, character sets, UTF-8, OSC strings, the parser of sequences
  byte by byte, MODE_PRINT and echo, `x.c`.
* BaTransport: drop, pause and resume by a client, MIDI. BaRfcomm: external AT handlers, the
  values of indicators, BIA, NREC, BTRH, vendor commands, oFono. BaDevices: the key file, an adapter
  created twice. BaBluez: GetManagedObjects of a daemon started after BlueZ.
  A2dpSelect: order of endpoints, configurations that break the standard. A2dpStream:
  32-bit wrap of time stamps, partial FIFO writes, draining. BaPcm: delay, parameters, volume and
  codec options, closing. BaCtl: truncated names, TLV, unsubscribing, parsing.
* bluez-alsa's tools, oFono and UPower back-ends (clients, or not built by `bodhi.sh`); dmenu and
  svkbd (planned); `vendors/whisper` (numerical). `vendors/dwmblocks`, named by the build, is
  not in the repository.

## 6. Plan

Done: Dwm with its runs and all its theorems; DwmPointers with its refinement; DwmLifecycle, Slock,
StatusBar, GroqSession, QvmDisks, QvmGuests and BaTransport with the proofs above; Terminal; the eight modules
of bluez-alsa.

Next, to prove more: `ReconnectedAgree` of BaDevices (on the invariant of DeviceLemmas);
`ClientServed` of BaTransport (on that of TransportProofs); `EndsInStep` of BaRfcomm (TLC has
to find the strengthening first: what is on the way between the two threads); `Aligned` of A2dpStream.

Next, to model more: svkbd (every press is released) and dmenu (the selection is on the current
page); `vanitygaps.c` as functions with bounded reference checks; `scan` in DwmLifecycle.
