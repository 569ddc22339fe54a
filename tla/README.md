# A TLA+ model of the AAG hotspot control

This directory holds TLA+ modules, TLC configurations and TLAPS proofs for the
hotspot program of this repository: the session controller with its rollback, the
lock its processes share, the nftables guard, the desktop window with its password
dialog, the public status with its client rows, the package installer and the
partial updaters. Paths below are relative to the repository; "session" without more is
the JSON journal `/run/aag-hotspot/private/session.json`.

Contents: [the system](#the-system), [what is hard](#what-is-hard),
[modules](#modules), [runs](#runs), [proofs](#proofs),
[disagreements with the documentation](#disagreements-with-the-documentation),
[not modelled](#not-modelled), [what is left](#what-is-left).

## The system

A hotspot is one *session*: a virtual access point interface, a NetworkManager
profile on it, the AP that is active on that profile, NetworkManager's own sharing
rules and dnsmasq, and an nftables table `inet aag_hotspot`, the *guard*, that
decides what clients may do. Everything is temporary; nothing starts at boot.

```
  gui.py / tray.py / cli.py          scripts/package.py
          | client.py                      |
          | pkexec                         |      systemd
          v                                |         | restart on failure
   helper.py (one request)                 |         v
          |                                |   watch.py -> helper.watch (a tick / 2 s)
          +----------- Store.locked (flock on /run/aag-hotspot/private) ---+
                                 |
                     controller.py start/switch/stop/tick
                      |          |             |
                  state.py   backend.py   ownership.py (Rollback)
                  journal,   nft, nmcli,  inspect, ordered teardown
                  status     iw, D-Bus
```

| Part | State it keeps | Operations | Correct when |
| --- | --- | --- | --- |
| Session controller, `controller.py` | `data`, the session in memory | `start`, `switch`, `stop`, `tick`, `preflight`, `new_state`, `status` | whatever fails or dies between two steps, every artifact has a journal, a closed or fitting guard, and somebody who will take it down; the user's radio and autoconnect come back |
| Journal and status, `state.py` | `session.json`, `status.json` | `save`, `load`, `clear`, `publish`, each an atomic replacement | the journal never forgets what exists; the public status never says `off` too early |
| Operation lock, `Store.locked` in `state.py` | two directories in `/run`, a kernel flock on one's inode | create, check, open, poll, hold, release | one operation at a time; nobody waits for ever; a dead holder blocks nobody |
| Helper and supervisor, `helper.py`, `watch.py`, the unit file | one process per request; the supervisor's loop | `off`, `local`, `internet`, `configure`, `doctor`, `reveal-password`, `watch` | a session always has a supervisor, also across failures and restarts |
| Network backend, `backend.py` | none; it changes the host | radio, autoconnect, interface, profile, AP, guard, uplink check, device readiness | acts only on what it has checked; refuses what belongs to others |
| Ordered rollback, `ownership.py` | a manifest of what is ours | `inspect`, `execute` | blocked before removal, guard last, nothing removed whose identity is not proved |
| Firewall policy, `policy.py` | the guard's rules | `rules`, `nft_program`, digests | a mode lets through exactly its traffic, also for connections of the mode before |
| Uplink detection, `uplink.py` | none | `detect` | reports the interface the kernel uses for the public route, or refuses |
| Radio plan, `wifi.py` | none | parse `iw` combinations, choose channel and interface type | does not plan what the radio cannot do |
| Connected clients, `clients.py` | none | join stations, leases, neighbours | shows only clients of this session that are fresh |
| Client transport, `client.py` | none | `status`, `request`, `reveal_password` | every call ends; a stale status is not shown as present |
| Desktop window, `gui.py`, `tray.py` | `busy`, `refreshing`, `reveal_pending`, `reveal_generation`, `current`, dialogs | buttons, tray, timer, results from the worker thread | no secret outlives its request or its window; nothing stays busy or disabled |
| Secret dialog, `secret_dialog.py` | the field, the provider given to the clipboard, three timers | show, hide, copy, close, expire | neither what is shown nor what is copied outlives its time; other programs' clipboard stays |
| Package installer, `scripts/package.py` | the receipt `install-manifest.json`, the installed files | `install` with roll-back, `uninstall` | touches only its own files, not beside a hotspot; a failure is undone or visible |
| Partial updaters, `scripts/install-*.py` | the same receipt | install a subset, without the lock | as above, and whole or not at all |
| Presentation, translation, host binding, release tools | settings, nothing shared | formatting, build steps | no state these models speak of |

How they interact. The window and the command line call `client.py`, which runs the
helper through pkexec and reads `status.json`. Helper, supervisor and installer meet
only in the lock; whoever is inside is alone with the journal and the host. The
journal, on disk, is the only memory from one operation to the next. NetworkManager,
the kernel, the user and other administrators change the host at any time without
any lock.

## What is hard

`PROJECT.json` lists each hazard at its line with the properties that would catch
it. In short:

* **Interrupted sequences.** `start` has some twenty external effects and journal
  writes. Each may fail before it takes effect or after it, by a command's timeout,
  a signal, or the 120 s alarm; the process may be killed. The exception handler
  runs `stop`, which may itself fail anywhere, and is then left to the supervisor.
* **An uncooperative host.** Between a check and the command it allows, the radio,
  a link, the uplink, the profile, the AP and the rules may change. Teardown
  commands may report success and change nothing.
* **Two kinds of process.** The supervisor's tick may follow any operation. It may
  be on its way out when the next session starts, or be killed and restarted.
* **Stateful filtering.** Connection tracking outlives a change of the rules, so
  the order of the rules decides whether a downgrade closes a flow.
* **Late answers.** The window's worker delivers results after the user closed,
  hid or used the window for something else.
* **Timers and a shared clipboard.** Hiding, expiry and the copy's end are timers of
  their own; a new copy or showing may begin at every stage of an earlier one, and
  other programs use the clipboard meanwhile.
* **Answers that age.** Stations come and go between the reads of a sample; the
  supervisor may stall or die with a sample in hand; a reader may hold a status
  while it looks for the uplink.
* **Files with two owners.** The installer and an administrator edit the same
  paths; the installer and the updaters may be cut off between any two files.

## Modules

| Module | Models | Lines it stands for |
| --- | --- | --- |
| `HotspotSession` | the session's life | `controller.py`, `state.py` (journal, status), `helper.py` (requests, supervisor), `backend.py` and `ownership.py` as the commands they run |
| `SessionAbstract` | what a session promises, for a reader who wants no more than that | `start`, `switch`, `stop`, `tick` and the requests that call them (`controller.py:53-177`) |
| `HotspotSessionRefines` | the refinement mappings: `HotspotSession` implements `SessionAbstract` and uses `GuardPolicy` | - |
| `HotspotSessionInv` | the inductive invariant of `HotspotSession`, in parts | - |
| `HotspotSessionProofs`, `HotspotRefinesProofs` | theorems about `HotspotSession`, its refinements and its radio plan | - |
| `RadioPlan` | combinations, channel and verification as pure operators | `wifi.py`, `backend.py` (`verify_plan`) |
| `OperationLock`, `OperationLockProofs` | `Store.locked`, and the uninstaller that removes its directory | `state.py:115-159`, `helper.py`, `package.py:209-224` |
| `GuardPolicy`, `GuardPolicyProofs` | rules of every mode over connection tracking | `policy.py` |
| `StatusView`, `StatusViewProofs` | the public status from the sample to the reader | `clients.py`, `client.py`, `controller.py` (`status`), `helper.py` |
| `GuiWindow`, `GuiWindowProofs` | callbacks, worker pool, delivered results | `gui.py`, and what `client.py`, `secret_dialog.py` and `tray.py` mean to it |
| `SecretDialog`, `SecretDialogProofs` | the password dialog, its timers, the clipboard | `secret_dialog.py` |
| `PackageTransaction`, `PackageProofs` | install, roll-back, uninstall, receipt | `scripts/package.py`, `install.sh`, `uninstall.sh` |
| `PackageUpdate`, `PackageProofs` | a partial update beside all of `PackageTransaction` | `scripts/install-ui.py`, `scripts/install-password-reveal.py` |
| `MC*` | each module with small constants for TLC | - |

How they compose. `HotspotSessionRefines` puts the session together with what it
promises and with the guard it loads. `PackageUpdate` extends `PackageTransaction` and
adds its actions to those of the installer. `MCHotspotSession` instantiates
`RadioPlan`, whose answer `HotspotSession` takes as a fact. The password dialog is one
bit in `GuiWindow` and a module of its own in `SecretDialog`.

Every definition that models code has an entry in the `map` of `PROJECT.json` with
its lines. Definitions marked `Mutant` in a comment are no part of the model: each
is a plausible bug, and the `mutants` of `PROJECT.json` say which property it breaks.

### HotspotSession

`run` is the process inside the lock: who it is (`by`), its place in the code
(`at`), why `stop` was called (`why`), the request (`want`) and the session in its
memory (`data`). The places are the program points of `start`, `switch`, `stop` and
`tick`: one for every command, journal write, status write and check that may
raise. An action takes the process from one place to the next; `Raised` is where an
exception leads from there, which is what the `except` clauses of the code say.

| State | In the code |
| --- | --- |
| `table` | the guard: absent, `blocked`, `local`, open to one uplink, or altered by somebody |
| `present` | the interface, the profile, the AP, the sharing rules, the lease file |
| `edited` | `Rollback.inspect` would find the profile other than the manifest says |
| `radio`, `auto`, `link`, `uplink` | Wi-Fi switch, autoconnect of the station, a station link, the uplink |
| `journal`, `status` | `session.json` and the phase and mode of `status.json` |
| `watch` | the supervisor's unit: off, up, about to exit, failed and about to be restarted |
| `byUser` | history: which settings somebody else changed since the baseline was taken |
| `calm` | history: from here on nothing fails and nobody interferes (for liveness) |

Abstractions that matter:

* A command that is guarded by an inspection inside the same function is one step
  with that inspection. Where a journal or status write or another external call
  lies between the check and the command, they are separate steps, and the world may
  change in between. `wifi_idle` and the radio-off that relies on it are separate in
  `start` (a journal write lies between) and in `stop` (a command of its own).
* `Inspected`, `Supported`, `PlanHolds` are facts about the host, not parsers:
  `inspect` succeeds unless the profile was edited; the uplink is supported unless
  it is Wi-Fi in production; a radio plan holds while the station is as planned.
* The session record keeps the fields that decide something: phase, what is served
  (mode and uplink in one), whether the plan has a station, the baseline of radio
  and autoconnect with the marks that they were changed, whether the table's handle
  is recorded, and which rules the digest is of. UUIDs, ifindex receipts, channel
  and MAC are not told apart.
* The environment is a set of disturbances, `Disturb`; each run chooses the ones its
  question is about.

### SessionAbstract and HotspotSessionRefines

`SessionAbstract` has three variables: the session as announced in the journal, the
host as a client sees it, and the settings that are due back. Its actions are few: a
session begins, closes the host (from whatever it was), opens it for one mode, cleans
it, takes and gives back a setting, becomes active in the mode that is open, and ends
only with a clean host and nothing due. `HotspotSessionRefines` maps: `Served` from
the journal, `Host` from the table and the artifacts, `Due` from the settings that
differ from the journal's baseline and that nobody else touched. Every journal write,
command, failure, kill and act of the user is one of these steps or changes nothing
they show.
Where nft is flushed by somebody (`"flush"`), the guard is gone under a running AP
and no promise of this kind can be kept; `Exposed` is the value that no step of
`SessionAbstract` reaches.

`GuardUse` reads `table` as the `table` of `GuardPolicy`, with no packets: the session
creates the table blocked, loads it only while it exists, deletes it last. What
`GuardPolicy` shows for all sequences of transactions then holds for the ones sessions
make.

### RadioPlan

Pure operators, without state. A combination is its groups of interface kinds with
their limits, the total, and whether it says how many channels. `MCHotspotSession`
states two assumptions over them, which TLC evaluates before each session run:

* `CombinationsPlaced`: a combination that is accepted has a place for every interface
  needed, in a group that names its kind and within all limits; and a combination
  whose groups share no kind is accepted whenever there is such a placing. (Where a
  kind stands in two groups `wifi.py` counts it in both and may refuse.)
* `StationKeepsChannel`: whatever the radio was when the plan was made and is when it
  is verified, a plan that still holds never asks a connected station to leave its
  channel, and a plan beside a station uses a frequency the radio may send on and no
  P2P device.

The text of `iw` is taken as parsed; the checks of a plan that is read back from the
journal (`from_dict`) are not modelled.

### OperationLock

One variable per file system fact: the runtime directory with its mode (`fresh`
while it has the umask's mode, `trusted` with the mode everybody insists on), the
inode of the private directory, the flock on each inode, and for each process its
open inode, its remaining polls and its place. Each system call is a step, so two
processes that both see no directory both try to make it. Clients may create,
`off` and the supervisor may not; the supervisor does not wait at all. `doctor`, which
reads under the lock, takes it like `off` with a shorter wait.
`RemovePrivate` and `RemoveRuntime` are the end of the uninstaller, under the lock.

### GuardPolicy

The chains are sequences of match/verdict pairs, one rule of TLA+ for one of
`policy.py` (ports of TCP and UDP, and the members of a set of ports that are
treated alike, are one class). The kernel part, first match decides and a tracked
flow makes later packets `established`, is external. `Load` replaces the rules of a
mode in one transaction while `flows` stay. Address classes are the ones the rules
tell apart; a packet that does not touch the session's interface matches nothing.
Of packets it is assumed what routing makes sure of: this host sends under its own
address, and to the session's interface only what is for the subnet or a broadcast; the
kernel forwards nothing whose source is 0.0.0.0; an IPv6 destination has an IPv6
source. Without the last, an answer that a rule for IPv4 lets back would have to be
let back where none can come from.

### StatusView

The writer is whoever holds the lock: an operation or a tick. It announces, works,
becomes active, then samples in two reads (stations; leases and neighbours), between
which stations come and go, within the probe's deadline; the status is stamped before, its rows after. The reader holds
what it read for as long as it looks for the uplink and compares the ages last. Times
are ages in ticks, counted to one past the limit they are compared with. The
histories are of one station and one mode, any of them. Not told apart: a health of
`ERROR` from `OK`, the checks of installation, boot and schema that come first in
`client.status`, warnings, and the identity of a row beyond its MAC address. The
monotonic clock stands still during suspend, and so do these ages. A lease's expiry
is a rank; dnsmasq's 0 for "never" is the largest. Of the limits it is assumed that a
probe takes no longer than a status may be old (`Probe` gives up after 6 seconds, a
status is stale after 60): a slower one would publish what was stale when it did.

The join itself is also checked over all lease files of up to three lines and all
neighbour tables of up to two entries, against a definition that says what the answer
is and not how it is found (`JoinFromLeases`, `JoinFromNeighbors` in `MCStatusView`).

### GuiWindow

The GTK main loop runs one callback at a time, so each callback is one action. The
thread pool has one worker: `pool` is its queue, and `Work` ends the first call with
any outcome the transport allows; `idle` is the queue of `GLib.idle_add`, delivered
in order. `fresh` stands for "the pending reveal's generation is still the window's
`reveal_generation`". The tray reaches the window even when a dialog covers it,
which is how two requests can be under way at once.

### SecretDialog

`dialog` is open, closing (`close()` was called, its signal has not come) or cleared.
`sources` are the GLib timers that live, each with the time it has left and whether an
attribute of the dialog still names it: what `cancel` finds is what the attribute
names, which is how a timer of an earlier copy could survive. A timer that is due runs
before the clock goes on. The clipboard is empty, ours or other's; GDK's local view of
it is taken for the clipboard, as the code does. Dialogs follow one another, and what
an earlier one left behind is there when the next one opens.

### PackageTransaction

What every path holds, the receipt, and the progress of the one `package.py` at
work (`at`, `todo`, `changed`, `prior`). `install` checks everything before it
writes, then copies file by file with the receipt last, and on failure walks back in
reverse. `Killed` and `Ends` cut an action off between any two files; `EditFile` is
the administrator.

`UseHotspot` is the hotspot, whenever the operation lock lets it. The lock is on the
inode of `private/`, and `uninstall` removes that directory (`RetirePrivate`) before it
is done. Two things follow, and both are modelled. From the removal on (`rmdir`,
`purge`) the uninstaller excludes nobody who makes a new directory: these places are
not in `Excluding`. And helpers that have opened the old directory (`stray`) share the
lock of no later `package.py`: what they need is loaded, and once an install has made
the directory again they can write a session into it while it copies files. They are
gone at some time (`StrayLeaves`), since waiting and every operation is bounded. One
`package.py` runs at a time here; a second one that waits on a removed directory, or
comes in on a new one during `purge`, is not modelled. `OperationLock` has the inodes
and waiters one by one; this module only asks what they can do to the files.

Each version has its own `package.py` with its own list of files, which is why a receipt
of another version may be refused. `interrupted`, `raced` and `strayed` are history, used
only to say under which condition a property is claimed.

### PackageUpdate

Both updaters take the same path and differ in the files they name, `UiFiles`: check
the receipt and every file it vouches for, copy what differs with the receipt last,
verify that nothing else has changed, and walk back on failure. They take no lock and
do not ask whether a hotspot runs. `package.py` (all of `PackageTransaction` but the
use of a hotspot and the waiting for one) and the administrator act in between at any step. `crossed` is
history: `package.py` was at work while an update was. The two then overwrite each
other's receipts, nothing in the code prevents it, and neither property claims
anything for that case; everything else is claimed: any order of installs, updates,
removals, cut-offs and edits.

## Runs

| Run | Question | Bounds | States |
| --- | --- | --- | --- |
| `session_recovery` | do journal, guard, supervisor and status stay consistent with the host when any step fails or dies while the AP drops, the uplink changes and the profile is edited? does every operation end and every session get cleaned away or healthy, once things calm down? | one cellular uplink, fairness | 308 000 |
| `session_user` | are radio and autoconnect restored unless the user changed them, and are the steps those of `SessionAbstract`? | as above; the user switches radio, autoconnect, links | 1 630 000 |
| `session_station` | station plus AP on one radio (`allow_wifi_validation`), links by autoconnect, profile edited, rules altered, nft flushed | two uplinks, one of them the station | 1 270 000 |
| `session_connect` | "never disconnects an existing Wi-Fi connection" with a user who connects | expected violation | |
| `lock` | two inside only after a removal; the directory becomes trusted; every wait ends | a request, `off`, the supervisor, the uninstaller; fairness | 73 000 |
| `lock_uninstall` | one at a time inside, with the uninstaller | expected violation | |
| `guard` | what each mode lets through, over changes of mode | two uplinks, one other interface, one flow | 630 |
| `status` | how old may be what a reader is told? | two stations, two addresses; limits of 2 and 3 ticks, one tick for a probe and for looking up the uplink | 2 840 000 |
| `gui` | secrets, rows, busy and disabled states | up to three calls under way, one change from outside, fairness | 200 000 |
| `secret` | how long is the password on the screen and in the clipboard? | ten seconds a tick: 3 ticks to hide, 6 to expire | 1 200 |
| `package` | receipt, ownership, roll-back, hotspot at rest | three paths, two versions, two manual edits | 893 000 |
| `update` | receipt and wholeness of partial updates | three paths, two of them the update's, two versions, one manual edit | 1 240 000 |

The session runs leave out what their question does not need, so that each stays
small: `Disturb` names what other people do. The proofs below do not depend on that
choice.

What the properties say:

* `NoOrphan`: without a journal nothing of ours is on the host. `GuardFirstLast`:
  what can carry traffic exists only while the guard does (unless somebody flushes
  nft). `RulesJournaled`: an active or starting session lets through only what its
  journal says. `Supervised`: while anything is left to clean up a supervisor runs
  or is due for restart. `StatusHonest`: the public status never says `off` beside
  artifacts, nor active in a mode the journal denies. `TeardownBlocked`: nothing is
  taken away while the guard lets a mode's traffic through.
* `BaselineRestored`: when the journal is cleared, radio and autoconnect are what
  they were or what a person made of them. `LinkPreserved`: no step of ours cuts a
  link. It holds for links by autoconnect, because that is held off first.
* `Implements`: the session keeps the promises of `SessionAbstract` step by step.
  `GuardUse`: it uses the guard's table as `GuardPolicy` does.
* `OperationEnds`, `Recovers`: the lock is always released, and a supervised session
  ends up gone, or active and healthy, unless it waits for a person (`NeedsReview`).
* `OnlyRemovalSplits`: no race of creators, no death and no give-up lets two inside,
  only the removal of a locked directory; `RuntimeTrusted`, `WaitEnds` for the lock,
  and `MutualExclusion`, which the uninstaller breaks.
* `DowngradeCloses`: after a downgrade neither DNS nor anything across interfaces
  passes, established or not. `OnlyUplink`: only the mode's uplink carries traffic
  and brings in only answers. `ClientsOpenFlows`: nobody outside opens a flow, and
  no spoofed source does. `RepliesReturn`: what may begin, to anything but a broadcast
  or multicast address, is answered.
* `SecretContained`: a password is on the screen only in a visible window with no
  request under way. `NoStaleRows`: while the last request
  under way changes the mode, no client of the mode before. `Settles`, `Reenabled`: nothing pends or stays disabled for ever.
* `RowsRecent`: a row that is shown is of a station that was there within `CLIENT_TTL`
  and a probe's time, one that stayed all that time is not missing, the mode it is
  shown with was in force within `CLIENT_TTL`, and no lease address is given to two.
  `StatusRecent`: an active, healthy status was true within the stale limit and the
  time of answering.
* `SecretExpires`: visible at most `HIDE_SECONDS` at a stretch, in the clipboard at
  most as long, neither after the dialog. `ClipboardRespected`: what others put there
  stays, and no old timer takes a new copy back.
* `UpdateAccounted`, `UpdateWhole`: after any history the receipt accounts for the
  files an update leaves, and an update that is not cut off is there wholly or not at
  all, with every other file and entry as it was.
* `Accounted`: between actions the receipt accounts for every file. `OnlyOwnFiles`:
  only what the receipt vouches for is overwritten or deleted. `RollsBack`: a
  reported failure leaves what was there. `NotWhileActive`: no file is touched beside a hotspot, also
  when one was turned on between the uninstaller's `off` and its lock, or came in on a
  new directory at the end of a removal; unless, when `package.py` looked for a session,
  a helper was about with the lock of a removed directory. That exception is the
  code's, see below; without it the property is violated, and with it every other way
  of getting a hotspot beside an action is excluded.

Why the bounds are enough. `HotspotSession` has no counter: only the set of uplinks
is cut to one or two, and what matters of it is same, other or none, all of which occur; it
runs through any number of sessions. In `OperationLock` one poll and two differ only
in how often a process looks; two inodes are what a split lock needs. One tracked
flow is enough for `GuardPolicy` because its rules judge each packet by that
packet's own flow. Three calls under way let each kind of call overtake and be
overtaken by the user's next action. Two edits and two versions let an edit come
before and after a check, and let a file be new, changed, kept and dropped; for
an update, whose copies an edit may meet as well, one edit does. In `StatusView` every
age is cut off one past the limit it is compared with, so no larger age behaves
otherwise; two stations and two addresses are what an ambiguous lease or neighbour
needs. In `SecretDialog` the minute is twice the half minute, as in the code, and
three ticks let an action come at the start, in the middle and at the end of a timer.

Deadlock is checked except where the system may stop: a calm host without a session
has nothing left to do (`HotspotSession`), nor has a closed window with empty queues
(`GuiWindow`), nor an updated package after the last edit the bound allows
(`PackageUpdate`).

Fairness, and why the code justifies it:

* `Progress` of the session (weak): every command and D-Bus call has a time limit of
  its own, and a request has an alarm (120 s) over all of them, so the lock holder
  never rests. The supervisor has no alarm; it relies on the single limits.
* `Tick` (weak): `helper.watch` loops every two seconds and polls with timeout 0.
* `WatchRestart` (weak): `Restart=on-failure`, `RestartSec=2s`; systemd's limit on
  the rate of starts is not modelled, and after `calm` nothing fails any more.
  `WatchExit` (weak): a process that left its loop ends.
* `SharingCleanup` (weak): NetworkManager removes sharing rules of an AP that is
  down; the code waits for it and fails if it does not happen in time.
* `Step(p)` of the lock (weak): a running process runs. Requests and deaths are
  never due.
* `Work`, `Deliver`, `Refresh` of the window (weak): transport calls have time
  limits, and the main loop and its timer run.

No fairness is assumed of users, of failures ceasing (`calm` is an antecedent, not a
promise) or of a lock being granted.

## Proofs

All proofs hold for every value of the constants under the named assumptions: the
uplinks' names do not clash with the reserved words of the model, the kinds of
process are disjoint, the payloads are files of the package with real contents and the
receipt is none of them, the packets are ones that routing and a host may send, the
bounds and time limits are natural numbers in the order the code gives them. Every
type invariant, safety invariant and action property of the passing runs is stated by
a theorem.

`HotspotSessionProofs`

| Theorem | Property | Argument |
| --- | --- | --- |
| `TypeCorrect` | `TypeOK` | `Typed` adds that a session is in memory at every place that dereferences one, and that a request's mode is resolved to an uplink where it must be; without it a step would journal something that is no session |
| `NoOrphans` | `NoOrphan` | `OrphanInv`: a journal exists at every place between `save_starting` and `clear`, and each confirmation of the teardown leaves less on the host, down to nothing at `st_clear`. `NoOrphan` alone is not inductive: `clear` is only right because of what was confirmed before |
| `GuardBrackets` | `GuardFirstLast` | `ArmedInv`: from `guard_blocked` to the recheck the table exists; with `OrphanInv`, at `rb_table` nothing but the lease is left |
| `AlwaysSupervised` | `Supervised` | `ArmedInv`: nothing exists until the supervisor is armed, the marks in memory and on disk agree, and `tick` leaves its loop only with the session cleared |
| `TeardownIsBlocked` | `TeardownBlocked` | `TeardownInv`: the guard is closed or absent at every place that removes something, and nothing is built yet at the places whose radio-off could take an AP down |
| `StatusIsHonest` | `StatusHonest` | `PhaseInv`: which phase memory and journal have at each place; `StatusInv`: the transition was announced before anything is changed |
| `RulesAreJournaled` | `RulesJournaled` | `PhaseInv` and `RulesInv`: where a session is about to be called active, the rules are those of the digest it saves |
| `BaselineIsRestored` | `BaselineRestored` | `BaselineInv`: a setting differs from the journal's baseline only if the journal marks it as changed or somebody else changed it; memory and journal have the same baseline; at `st_clear` both settings are back |
| `LinkIsPreserved` | `LinkPreserved` | `LinkInv`, under `HandsOff`: while nobody but the session touches radio, autoconnect or links, a link comes up by autoconnect only, and that is held off from before the idleness check to the radio-off, in `start` and in `stop` |
| `SessionIsSafe` | all parts together | `SafetyInv`, which the other proofs use |

`HandsOff` is needed. A person who connects by hand is the disagreement that
`session_connect` shows. But also a person who only switches the radio on again is
enough: `stop` has restored autoconnect and dies before it clears the journal, the radio
is switched on, the next `stop` finds no link, autoconnect brings one up, and `stop`
switches the radio off. TLC finds this with `Disturb` = `{"autolink", "radio"}`.

Each invariant has one step per action, grouped as in the module; the actions of the
environment have steps of their own, since most of the parts must also survive what
other people do.

`HotspotRefinesProofs`: `SessionImplements`, that a session implements
`SessionAbstract` unless nft is flushed (`"flush" \notin Disturb`). From `SafetyInv`
and `ShutInv`, which says at which places nothing is let through, each action is
shown to be of one kind: it touches only the host, only the journal, or only a
setting; and each kind is a step of `SessionAbstract` or a stutter. `GuardIsUsed`, that
a session uses the table as `GuardPolicy` does unless somebody alters the rules
(`"rules" \notin Disturb`): the table moves in the few ways `TableMoves` names.
`HeldIsPlaced`, of the radio plan: a combination that is accepted has a place for every
interface, in a group that names its kind and within all limits, for any number of
groups and P2P devices; and one that has such places is accepted if no kind stands in
two groups. It is `CombinationsPlaced` without its bounds, by counting what runs of the
kinds of a group.

`OperationLockProofs`: `LockTypes`; `RuntimeIsTrusted`, inductive with the types;
`LockSplitsByRemoval`, that two are inside together only after a directory was
removed, for any number of processes and uninstallers. Its invariant says that as
long as nothing was removed the private directory keeps its only inode, that every
open file is of that inode, and that whoever is inside holds its lock. `LockExcludes`
follows: without uninstallers nobody removes the directory. That hypothesis is needed,
which is what the run `lock_uninstall` shows.

`GuardPolicyProofs`: `GuardTypes`, `DowngradesClose`, `OnlyClientsOpen`,
`OnlyUplinkCarries`, for every set of packets, uplinks and other interfaces and any
number of flows. A chain is decided by its first match; the lemmas cut each chain into
pieces and say of each piece that it is silent about a packet, drops it, or accepts
only such packets as the theorem allows, and put the pieces together. `OnlyUplink` needs
`ClientsOpenFlows`: what comes back is an answer to a flow, and flows are clients'.
`AnswersReturn` goes the other way: of a packet that got through it follows, chain by
chain, which pair of interfaces and addresses it had, and for the answer of each such
pair every piece of the chains in its way is silent or lets it through.

`StatusViewProofs`: `StatusTypes`; `RowsAreRecent`, `StatusIsRecent`, for every set of
stations, every table and all time limits. `AgeInv` says of a status, wherever it is
(being made, in the file, in a reader's hands), that its own ages bound how long ago
what it says was true; of a sample the elapsed time of its probe does; of a reader who
looked at the age, the time it has taken since. Only the clock makes the world older,
and it makes the ages older with it. That ages stop one past their limit costs nothing,
as `Bounded` claims something only up to the limit. `LeaseInv`, that no two rows of a
draft share a lease, rests on the join alone. `LeasesAreJoined`, `NeighborsAreJoined`
state the join for lease files of any length and any table: the address is that of the
station's latest lease, unless it is another's latest too, else the only one it is
reachable at.

`GuiWindowProofs`: `WindowTypes`; `SecretIsContained`. Results on the way and calls in
the pool form one queue, first in first out; at most one reveal is in it that is still
fresh, and no request stands behind it, so when it is delivered no request is under
way. `WindowTypes` needs that a refresh is only queued when none is. `RowsAreNotStale`
uses the same queue: a request for a mode clears the rows, and from then until a request
ends no result that is delivered may bring any back, since a refresh's is dropped while
the window is busy; a request that is submitted over it becomes the last one. It says nothing of the earlier of two requests, which
may end first and clear `busy` for both (`gui.py:535`).

`SecretDialogProofs`: `SecretTypes`, `SecretIsShortLived`, `ClipboardIsRespected`, for
all time limits. What is visible has a hide timer, what is copied a copy timer, and
what is open an expiry timer, each with exactly the time left that the histories say,
and no other timer lives.

`PackageProofs`: `PackageTypes`; `FilesAtRest`, that no file is touched beside a
hotspot that a helper without the lock of a removed directory turned on;
`EverythingAccounted`. `FilesAtRest` rests on `Exclusive`: at a place in `Excluding`
not only a session but also a helper that could start one (`stray`) was there when
`package.py` looked; without the second half a step of `UseHotspot` would break it.
`EverythingAccounted` needs to know, in the middle of an
install, what every file holds: what it held when it was checked, or what is being
installed if it is among `changed`, or what an administrator made of it. That is
`Installing`; `Progress` has a part of this kind for each place, and all of it is
claimed only until an action was cut off where it could not roll back. `OwnFilesOnly`
and `InstallRollsBack` rest on `Vouched`, which says of the files still to be written
or removed that the receipt vouched for them when they were checked.
`UpdatesAccounted`, `UpdatesWhole` are about `PackageUpdate`. The actions of `package.py`
keep `Progress` whatever receipts there are, also those that updates make; `Updating`
says, in the middle of an update, which files and which receipt are written and that
all else is as it was before, or an administrator's; and unless the two crossed,
`package.py` is never at work while an update is.

Only model-checked:

* Liveness: `OperationEnds`, `Recovers`, `WaitEnds`, `Settles`, `Reenabled`. The prover
  does not reason about fairness and `ENABLED`.
* The assumptions about pure operators over bounded inputs. `CombinationsPlaced`,
  `JoinFromLeases` and `JoinFromNeighbors` are proved without the bounds as well (above);
  `StationKeepsChannel` is not, being short to read off `Plan` and `Verified`.

## Disagreements with the documentation

Two runs end in a violation on purpose:

* `lock_uninstall`. A comment in `state.py:156` says why the directory that carries
  the lock is never unlinked. `package.py:220-223` unlinks it, under the lock. A
  helper that waits on the old inode and one that makes a new directory are then
  inside at the same time. `PackageTransaction` shows what this means for the files: a
  session may start beside the end of an uninstall, or beside the install that follows
  and holds the lock of the new directory. `package.py:303-304` says of the lock "so
  package replacement cannot race an activation or cleanup already in progress". The
  property `NotWhileActive` states exactly what remains of that.
* `session_connect`. `README.md:84-85` says that an existing Wi-Fi connection is
  never disconnected to make space. `controller.py:84-87` looks for one, writes the
  journal, and switches the radio off; a connection the user makes in between is cut.

## Not modelled

* What the external programs do beyond the effect the code relies on: nftables,
  NetworkManager, systemd, polkit, `iw`. In particular a command that takes effect
  *after* its caller gave up on it; a step fails before or after its effect.
* `doctor` and `reveal-password` in the helper change nothing on the host.
* The wording, layout and translation of messages, window geometry, settings.
* The temporary file of `atomic_json` and the schema checks of the journal: a
  journal is well formed or absent.
* Digests, UUIDs and MAC addresses: identity is a fact (`Inspected`), not a value.
* The test rig's dry run and command line in `ownership.py`.
* The command line, the release and static checking tools, polkit and desktop files:
  sequential or declarative, with no state of their own.
* How `uplink.py` finds the uplink: a chain of refusals over what `ip` and
  NetworkManager print, without state. Its answer is `uplink`, which may change at
  any step; the deadline of its alarm is one more way for a step to fail.
* The polling inside `wait_device_ready` (`backend.py:19-83`): one check that succeeds
  or fails in time.
* The StatusNotifierItem protocol of `tray.py`: only the menu actions reach the window.
* The binding to a Wi-Fi device (`binding.py`, `host_environment.py`): read once, taken
  as given.
* That two partial updates, or an update and `package.py`, overwrite each other: see
  `PackageUpdate`.

## What is left

A team that goes on with this would add, in this order:

1. Late effects: a D-Bus call or a killed helper's child that takes effect after its
   caller gave up. `HotspotSession` ends a command with its caller; two hazards of
   `PROJECT.json` wait for this.
2. `GuardPolicy` and `HotspotSession` with packets in one run. `GuardUse` shows that
   the session's transactions are among those `GuardPolicy` is checked for; how long a
   flow outlives the uplink it began on is not asked.
3. With either of these, the proofs again: late effects would weaken what `TeardownInv`
   and `OrphanInv` may claim at each place.
