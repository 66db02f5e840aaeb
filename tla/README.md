# A TLA+ model of Pelion-E2E-Client

The program is a cloud client for a small board. It reads temperatures of
Bluetooth beacons (or makes them up), keeps them in a table and shows them to a
server as LwM2M resources; the server can read and write those resources, ask
the device to unregister or to reset itself, and offer new firmware. This
directory holds the TLA+ modules that model it, the TLC configurations that
check them, and the proofs TLAPS checks. Paths are relative to `src/`.

## The system

Two threads matter. The *application thread* runs `main_application`
(`main.cpp`): it registers, then loops until it is told to stop. The
*event-loop thread* belongs to the Mbed Cloud Client library and runs every
callback of the program. In the Bluetooth build the application thread also
dispatches an event queue of its own, inside the body of its loop.

| component | state | operations | talks to | hard part | what makes it correct |
|---|---|---|---|---|---|
| beacon table, `ble_beacon.c` | `beacon_tbl`, 10 entries with the flags `element_used` and `updated` | init, add (dummy or by index), delete, update | called by the main loop and by `on_scan` | slots are reused; an index from the air selects the entry | a free entry keeps nothing; adding disturbs nobody; refuses what is outside |
| client wrapper, `source/simplem2mclient.h` | `_registered`, `_register_called` | `register_and_connect`, callbacks for registered, unregistered, error | the library (setup, close), the loop condition | both threads write the flags, with no lock | the program ends if and only if it should |
| POST handlers, `main.cpp:430-447` | none | `unregister`, `factory_reset` | library (close), key store | reset runs after the close has been requested | no reset after the exit, none on a device that stays |
| update UI, `update_ui_example.cpp` | `_client`; the cell that spins and how often it has, in statics | `update_authorize`, `update_progress` | library | handler may be called as soon as it is installed; 64, 32 and 8 bit arithmetic; statics outlive a download | `_client` is set; the percentage is right and every report shows |
| main loop, `main.cpp:542-605` | `connected_beacons`, `data_valid_bmp`, `dummy_update_idx`, two kinds of resource | add, update, upload, wait | everything above, and the server's writes | three records of the same fact; the server writes in between | the records agree; the cloud shows what the table holds, no sample lost |
| BLE scanning, `GAPDevice` in `main.cpp` | the event queue, the stack, its timers | run, init, scan, advertisement, timeout, end of mode | BLE stack, event queue, table | a chain of events each posted by the one before, in a bounded queue that drops silently | a scan ends; nothing of it is left over; one count per beacon |
| network connection, `source/platform/*/mcc_common_setup.*` | the interface | connect with retries | wrapper | bounded retries | gives up in the end |
| start-up and provisioning, `main.cpp:476-526`, `source/application_init.cpp`, `source/app_platform_setup.c` | key store, storage, entropy, root of trust | trace, platform, developer flow, automatic recovery | factory configurator, storage | several steps that may fail, or lose power, half-way; builds differ in what they do | a device that starts is provisioned; recovery is never left half done for good |
| storage, `source/platform/*/mcc_common_setup.*` | partitions, file systems | mount, format, partition, reformat | provisioning | falls back to formatting | a partition in order is not formatted |
| resource tree, `source/resource.cpp` | objects, instances, resources | `add_resource` | main loop | finds or creates at three levels | one resource per path |
| blinky, `source/blinky.cpp` | the pattern and its position, timer events | start, stop, event | event loop, LED, its owner's callback | events in flight survive `stop`; the callback may start or stop it | one event plays one pattern, and it ends |
| button and LED, `source/platform/*/mcc_common_button_and_led.*` | a flag set by an interrupt or a thread | press, poll and clear | nobody in `main.cpp` | set and cleared concurrently; end of input | a press is seen, and nothing else is |
| certificate renewal, `source/certificate_enrollment_user_cb.cpp` | whether it is installed | report the end of a renewal | library | installed after the registration has started | |
| deploy tool, `pal-platform/pal-platform.py` | directories of fetched and patched sources, generated files | deploy, generate, clean | git, patch, the build | any command may fail or be interrupted; all it knows is what it finds on the disk | a success is complete; a clean repairs |

Memory statistics, the insecure root of trust and the build files keep no state
that could go wrong and are not modelled.
`PROJECT.json` lists every component with its status, and under `hazards` every
place where something could go wrong that a test would hardly reach.

## The modules

| module | models | extends |
|---|---|---|
| `BeaconTable` | the functions of `ble_beacon.c` as operators from table to table | |
| `BeaconTableAPI` | those functions called in any order, as the unit test does | `BeaconTable` |
| `CloudClient` | the two threads around `SimpleM2MClient`, with the POST handlers, the update UI and the network connection | |
| `BeaconUpload` | what both builds share: the table with its shadows, the resources, `update_beacon_cloud_data` and the server's writes | `CloudClient`, `BeaconTable` |
| `CloudView` | abstract: what the server may rely on when it looks at the resources | `BeaconTable` |
| `ScanView` | abstract: the same for a device that scans | `BeaconTable` |
| `DummyApp` | the default build, `FEA_BLE = 0` | `BeaconUpload` |
| `ResourceTree` | `add_resource` and the resources of `main_application` | |
| `UpdateUi` | `update_progress` | |
| `DeviceClient` | `CloudClient` with the tree it registers, the POST handlers found through that tree, the update screen and the renewal of certificates | `CloudClient`, `ResourceTree`, `UpdateUi` |
| `GapDevice` | one scan: stack, event queue and every handler of `GAPDevice` | `BeaconUpload` |
| `BleApp` | the `FEA_BLE = 1` build | `GapDevice` |
| `PalConfig` | the configuration headers a build chooses from | |
| `Storage` | the storage of both ports: mounting, formatting, partitioning, directories | `PalConfig` |
| `Provisioning` | the start of the program on either port, up to the end of `application_init_fcc`, with failures and loss of power | `Storage` |
| `ButtonAndLed` | button, LED and signal handler of both ports | |
| `Blinky` | the player of LED patterns | `ButtonAndLed` |
| `UserInterface` | the two used by one application | `Blinky` |
| `Deploy` | `deploy`, `generate` and `clean` of `pal-platform.py` | |
| `MC...` | constants for TLC | |
| `CloudClientProofs`, `DeviceClientProofs`, `DummyAppProofs`, `BleAppProofs`, `BeaconTableAPIProofs`, `ProvisioningProofs`, `UserInterfaceProofs`, `DeployProofs` | theorems | |

The default build composes `CloudClient` with the table and the upload
(`DummyApp`), the Bluetooth build adds the scan (`BleApp`); both are shown to use
the client as `CloudClient` allows, so what is proved of the client by itself,
or in `DeviceClient` with its surroundings, need not be checked again there.

### How state and steps correspond

Variables and operators have the names of the C variables and functions where
there are any. The other variables are:

- `pc`, the label the application thread has reached: `connect`, `setup`,
  `mark`, `set_client`, `set_authorize` in `register_and_connect`, `loop` at the
  condition, then the body (`add`, `update`, or `run`, `dispatch`; `upload`,
  `bitmap`, `wait`), and `exit`. A step ends wherever the other thread could see
  or change something: between two assignments to shared flags, between two
  resources, not inside a function of the table, which only this thread calls.
- `evpc`, what the event-loop thread is running, and `cloud`, the library's
  state of the registration. A callback is one step unless another thread can
  see the middle of it: `factory_reset` is split after `close()`,
  `client_unregistered` after the flags.
- `tries`, `network` and `setup_ok` for the local variables of
  `mcc_platform_init_connection` and `call_register`.
- a resource is a pair of its value and of who wrote it last, which is what the
  properties tell apart; `data_valid_bmp` is the set of its bits that are 1, cut
  to the width `BmpBits`. The index of an advertisement is any byte. Outside the table
  `add_beacon` may report success (`oob`), and a shift by the width of the word
  (`WordBits`) or more, which is undefined, sets the bit of the index modulo the width,
  or none (`ShiftedBit`).
- `reported` is a history variable: the resources the device has written. `strays`
  is one of `GapDevice`: the bits `on_scan` has set for an index outside the table.
- in `GapDevice`, `queue` holds the events to be run at once in their order,
  `blink_timers` and `duration_timers` count the timers, `signal` is what the
  stack wants to be polled for, and `dropped` remembers that an event did not
  fit.

- in `DeviceClient`, `list` is `_obj_list`, `handles` what `add_cloud_resource` has
  returned, `offered` the list given to the library; a pointer into the tree is
  the place it leads to. `display` is what is on the console.
- in `Storage` and `Provisioning`, `mbr`, `formatted`, `creds`, `entropy` and `rot`
  survive a loss of power, all else does not. `build` is the build that runs. `pc` is the call the thread is about to
  make; a format is two steps, since an interrupted one leaves no file system.
  `part`, `creating`, `after`, `stage` and `retry` stand for the position in
  nested calls: the partition at hand, whether and for which partition
  `mcc_platform_create_partitions` runs, who asked for the format, and which of
  the two calls of `mcc_platform_reset_storage` runs, and for which time.
  `faulted` is a history variable: a call has failed since power was switched on.
- in `Blinky` a method is a function from object to object, since `run_step` calls
  back into its owner; `events` counts the timer events in flight. A pattern is a
  sequence of tokens, which is all `strtol` and the test for `:` tell apart.
  `disturbed` is a history variable: the owner has started or stopped a pattern
  that was going on. `ButtonAndLed` splits the poll into reading and clearing the
  flag; `presses`, `clicks` and `owed` are history variables.
- in `Deploy`, `dir` and `patch` are the state of a source tree on the disk, `out`
  that of the generated files, `run` the command under way with its phase. A git
  clone, a patch and a deletion are two steps each, because they may be
  interrupted. `pristine` is a history variable.

Kept out: `update_time`, `rstp`, `lat` and `lon` of an entry (written, never
read), the wording of output, the fraction of a degree. `blink` only toggles an
LED, so only the place it takes in the queue is kept. What `update_beacon_data` may write
for an index outside the table (`ble_beacon.c:105-109`) is taken to hit memory that is
no variable of the model. A temperature of the dummy
beacons is a whole number; so is one from the air, which is a byte.

External, modelled from how the code uses it: the Mbed Cloud Client library
(registers, loses the registration and starts again, delivers one callback at a
time), the `EventQueue` of Mbed OS (room for `QueueSize` events, timers included;
drops what does not fit), the BLE stack (answers `init`, reports advertisements),
the calls of git and patch (any may fail), the card and the factory configurator (any call may fail; credentials are stored
one after the other, never over old ones, and verified for completeness, root of
trust included; an interrupted deletion leaves any part of them), the power supply,
the progress the library reports, and a PUT to or POST of an `M2MResource`. The `map` in `PROJECT.json` marks those.

Mutations: an operator named `X_Something`, just above `X`, is `X` with a
plausible mistake in it. No specification uses them; each shows of one property
that it would notice that mistake.

## What the runs check

Passing runs:

- `table_api` (`TableAPI.cfg`): any order of table calls. A free entry keeps
  nothing of its last beacon (`FreeEntriesAreClear`), adding leaves beacons in
  use alone (`AddKeepsOthers`).
- `client` (`DeviceClient.cfg`): the two threads, with the resources and the update
  screen. The loop ends only after an unregistration or for want of a network
  (`ExitReason`); the factory reset is over by then (`ResetBeforeExit`) and only
  ever run on a device that is leaving (`WipedIsLeaving`); `_registered` is honest
  (`RegisteredIsHonest`); a request that finds the flag set ends the program
  (`UnregisterEnds`, liveness). What the device registers with is the whole tree,
  each resource once, with its operations and its callback, where the pointers of
  the application lead (`TreeIsComplete`). The percentage of a download does not go
  back and is 100 exactly at the end (`ProgressIsHonest`), and every report shows on
  the console (`LooksAlive`).
- `dummy` (`DummyApp.cfg`): the default build with a server that writes. The
  three records of the table agree (`TableAgrees`), the update index never
  overtakes the beacons (`NeverInvalidDummy`), `updated = 0`
  means in step (`CloudInStep`); the build implements `CloudView`, in which a bitmap names the
  beacons reported and no others (`ImplementsView`), and uses
  the client as `CloudClient` says (`ImplementsClient`); every beacon is reported
  (`AllReported`), and what the server overwrites, bitmap or temperature, is
  written again (`WritesHeal`).
- `ble` (`BleApp.cfg`): the Bluetooth build up to and beyond the point at which
  its queue is full, with advertisements of every index of the table and of two
  outside it. The bits are those of the used entries and of the strays, which are set
  for an index outside the table taken for a beacon (`BitsAreKnownOrStray`); the count is never
  below the two together (`CountCoversBits`); a bitmap names, but for the strays, only
  beacons already reported, and between two rounds all of them (`BitmapIsReported`).
  Outside the dispatch the radio is off and nothing of the last scan is pending
  (`QuietOutsideDispatch`), nothing is dropped before the left-over timers crowd the
  queue (`DropsOnlyWhenCrowded`). The build implements `ScanView`, in which a sample
  may be overtaken by a later one but what was heard last is reported before the
  bitmap, and a stray appears in the bitmap and takes the place of a beacon, but no
  temperature is ever sent for it (`ImplementsView`). It uses the
  client as `CloudClient` says (`ImplementsClient`), and a scan ends unless the stack
  failed or an event was dropped (`DispatchEnds`, liveness).
- `provisioning` (`Provisioning.cfg`): the start in developer mode, over and over,
  with all builds: an mbed-os board in partition mode (one or two partitions, with
  or without a source of random numbers), one without partition mode, and Linux,
  each with and without `RESET_STORAGE` and `MBED_CONF_APP_MCC_NO_AUTO_FORMAT`. Every
  partition has a file system when the configurator is called (`StorageReady`); the
  configurator is not called after it has been finalized (`FccOnlyWhileUp`); a device
  that goes on to register has all its credentials, a root of trust and the entropy
  it needs (`StartedIsProvisioned`); with the recovery compiled in, a start in which
  no call fails succeeds, whatever earlier starts have left half done, with the one
  exception described under *Observations* (`CleanStartSucceeds`); and such a start
  never costs complete credentials (`CredentialsSurvive`).
- `ui` (`UserInterface.cfg`): an application that polls the button and plays patterns,
  on three kinds of board. No click without a press (`NoPhantomClicks`), and a press is
  seen even when it comes between the read and the reset of the flag (`PressIsSeen`,
  liveness). As long as the owner of the player starts and stops only what has
  ended, one event at a time plays the pattern and finds it there (`PlaysAlone`), and
  a pattern played once ends (`PatternEnds`, liveness).
- `deploy` (`Deploy.cfg`): commands of `pal-platform.py` in any order, any of them
  failing or cut short. As long as generated files are there, complete or not, so
  are the sources (`GeneratedHasSources`, for a target that shares its sources with
  no other); a deployment called successful has everything fetched and patched, and
  all of it unless a run has been cut short since the last clean
  (`SuccessIsComplete`); after a clean that ran to its end a deploy fails only if one
  of its own commands does (`CleanRepairs`).

Runs that end in a violation, each of something the source says of itself:

- `client_loops`: when `setup()` fails, `_register_called` is already set
  (`simplem2mclient.h:63`) and nobody looks at the result; the loop runs for a
  client that does not even try to register, against its comment
  (`main.cpp:576`).
- `client_lost_unregister`: an unregistration that is over before line 63 is
  reached is overwritten by it, and the program that has printed "Exiting
  application" (`:120`) never exits. `UnregisterEnds` above is the same promise
  without this window, and holds.
- `ble_queue_fills`: `run` adds a periodic `blink` event per scan
  (`main.cpp:146`) and nothing cancels it. With the default queue of 32 events,
  less than 30 scans fill it; the event that would end the next scan is dropped
  and the thread never leaves the dispatch, against the comment at
  `main.cpp:241`.
- `ble_lockout`: `add_beacon` reports success for a beacon that is in the table
  already, and `on_scan` counts each success (`main.cpp:286`); one busy beacon
  uses up the count and all others are refused with room left, against the message
  of `ble_beacon.c:62`.
- `provisioning_wipes`: the recovery formats the card after any failed
  verification (`application_init.cpp:210`), where its comment speaks of a device
  on which "no valid certificates exist" (`:212`). `CredentialsSurvive` is what
  holds instead: it takes a failed call.

### Bounds

- `MaxBeacons` is 3 for the default build (10 in the code): a first entry, a last
  one and one in between, and the update index wraps. 2 for the Bluetooth build,
  with every order of advertisements. The proofs cover every size.
- `DummyTemp .. DummyLimit` is 23..25 (23..50): long enough to wrap during the
  run, and to tell the next sample from the one after it.
- `Retries` is 3 for the client by itself and less where the attempts to connect
  only repeat steps that touch nothing else.
- `BmpBits = 3` with three beacons puts the last bit at the width of the bitmap. The
  Bluetooth build has two beacons, three bits and a word of `WordBits = 4`: index 2 is
  outside the table with a bit of its own, index 4 is beyond the word, where the
  shift may come round to the bit of beacon 0.
- `QueueSize = 5` in `ble` lets the left-over timers fill the queue within a few
  scans; `ble_queue_fills` has the real 32 and no advertisements instead.
- The server writes a temperature outside the range of the dummy beacons, an
  empty bitmap and one with only the last bit set.
- `Beacons = 3`: the object of the temperatures is created by the first, found by the
  others. `Modulus = 1024` stands for 2^32: with an image of 1000 bytes the product
  does not fit, with one of 70 a cell is more than a byte.
- `Builds` holds a build of every kind; a card has at most two partitions in the code
  too.
  The number of failed calls and of losses of power is not bounded.
- `MaxEvents = 2` timer events, so that a pattern can be started over while one is in
  flight; `MaxPresses = 2`, one of which falls into a poll. The patterns play to the
  end, are cut short by a negative number, or are none.
- `Deploy` has the targets of `pal-platform.json`, two of the three that share their
  one element included; the number of commands, failures and interruptions is not
  bounded.
- Nothing else is bounded: time does not exist in the model, the counters are
  bounded by the code itself.

`CHECK_DEADLOCK FALSE` where the program ends, or waits for a stack that never
answers, or there is nothing left to poll or to play.

### Fairness

The application thread is scheduled (weak fairness of its next step). The
event-loop thread makes the progress the library makes by itself: a registration
or an unregistration under way ends, a callback that has started returns. In
`BleApp` also: the event at the head of the queue is run, the timer that is due
is run even when advertisements keep coming, a break ends the dispatch, and the
stack answers `init`, with success or an error. In `UserInterface` the application
polls and a timer event that has been accepted is delivered. Nobody else is fair: the server
need not ask for anything, no advertisement need arrive, the network may fail for
ever. A run checks liveness with no state constraint, so no behaviour is cut off.

## What is proved

TLAPS checks everything below for all values of the constants that satisfy their
assumptions: `TableAssumption` (1 to 255 beacons, since an index is a
`uint8_t`; a range of temperatures that is not empty), `RetriesAssumption` (at
least one attempt), `UploadAssumption` (the bitmap is wide enough, the server
writes numbers), `GapAssumption` (the queue has room for something, the bitmap fits the
word, an advertisement carries an index and a temperature of one byte each), `BuildsAssumption` (at most two partitions, as the
preprocessor demands), `UpdateUiAssumption` (no empty image), `BeaconsAssumption`,
`BoardsAssumption`, `PatternsAssumption`, the two bounds of `UserInterface`,
`PartsAssumption` (a target is a list of directories) and `NestingAssumption` (it names
a directory before those inside it, as `pal-platform.json` does). TLC evaluates each of
them on the constants of the runs.

**`CloudClientProofs`** - `ClientTypeCorrect`, `ExitHasReason`,
`ResetIsOverAtExit`, `ResetOnlyWhenLeaving`, `ClientIsSet`, `RegisteredHonest`.
The inductive invariant `CInv` adds to the properties what they silently rest on:
nothing happens on the event-loop thread before `setup()` (`BeforeSetup`); past
the assignment, `_register_called` is false only on a closed client or without a
network (`ClearedByClose`), from which `ExitReason` follows at the loop's
condition; the reset runs between close and its callback (`ResetIsLeaving`); the
pointer is set a step before the handler (`ClientBeforeHandler`); there is an
attempt left at `connect` (`AttemptsLeft`).

Two of the runs end in a device without a registration that stays in its loop
(`Spinning`). `SpinsForGood`: from there it never leaves, whatever the server and the
library do. `SpinsOnlyFromMark`: it gets there only by the assignment of
`_register_called` after `setup()`, because `setup()` had failed or because the client
had been unregistered already; so the two violations are all there is, and closing
the window at `simplem2mclient.h:63` would close it for good. They rest on `MarkedOnce`
(the flag is set at one place, and the library has been started exactly if `setup()`
succeeded).

**`DummyAppProofs`** - `TypeCorrect`, `TablesAgree`, `DummyIndexIsValid`,
`AnnouncedAreReported`, `ResourcesInStep`, all from one invariant `IInv`. None of
these is inductive alone. `Lockstep` relates the update index to the number of
beacons while the table fills up, which is why the index is valid. `Entries` says
for each entry at which points of the loop it may be marked for upload: when it
has just been added and is about to be moved on, still with the placeholder
(`JustAdded`), or in the upload loop before its turn, with the successor of the
temperature sent last (`ToUpload`); otherwise it has been reported and is in step
(`InStep`). There is one lemma per action; the steps that leave the data alone
share `QuietStep`.

`DummyImplementsView` is the refinement: the initial states map to initial
states, one iteration of the upload loop is a `Report` or nothing
(`UploadIsReport`; the entries before it are reported because they are used and
no longer marked), the bitmap is an `Announce` (`BitmapIsAnnounce`), the server's
writes are the abstract ones, and every other step stutters.

`DummyImplementsClient`: with the body of the loop as one step, the default build is
a behaviour of `CloudClient`. `DummyClientSafe` instantiates `CloudClientProofs` under
that mapping and so carries its results over to the default build.

**`DeviceClientProofs`** - `DeviceImplementsClient`: whatever the tree, the update
screen and a renewal do, the client underneath behaves as `CloudClient`, and so
`DeviceClientSafe` has its properties. `ProgressHonest` and `ConsoleLooksAlive` rest on
`ShownInv`, which relates the line on the console to the last report and to the two
statics, and on the arithmetic of `PercentFacts`. `TreeComplete` holds for every number
of beacons: `TreeInv` says that after each call of `add_resource` the list has no object
twice and holds everything asked for so far at the place returned for it; the lemmas
before it say what `add_resource` adds and what it keeps, and `PathsDiffer` that
`main_application` asks for no path twice.

**`BleAppProofs`** - two invariants that do not need each other. `Phases` lists the
states of stack, queue and timers between `run` and the break: waiting for the
stack, failed, ready, scan posted, scanning, ending. Each has at most two events
in the queue beside the timers, which with the bound on `Occupied` gives
`QuietOutside` and `DroppedForBlinks` for every size of the queue. `DataInv` adds to the
properties of the data that an entry in use has been reported or is still to come
before the bitmap (`Awaiting`), and that only an entry in use has been
(`ReportedIsKnown`). An advertisement leaves the data alone, or is that of a beacon of
the table (`Scanned`), or of a stray (`Strayed`), whatever its index. This gives
`BitsAreBeacons`, `CountCovers`, `BleAnnouncedReported` and `BleInStep`, and with `Phases` the type invariant
(`BleTypeCorrect`). `BleImplementsClient` is the refinement of `CloudClient`, and
`BleClientSafe` what follows from it for a thread that dispatches its own queue inside
the loop.

`BleImplementsView` is the refinement of `ScanView`: `Pending`, the entries marked for
upload, stands for the beacons heard of since their last report, and the loop from
`upload` to the bitmap is a round. An advertisement that is taken is a `Hear`, or a
`Stray` if its index is outside the table, one iteration of the loop a `Report` or
nothing, the bitmap an `Announce`. That there is a place for what is taken follows from
`CountCoversBits` (`Places`). `RoundInv` is what this needs beside `DataInv`: behind the
loop index no entry is left marked, and at the bitmap none at all, so that the reports
are in order and complete. The mapping holds with the queue full as well: what is dropped was never heard.

Of the two violations of this build the proofs say how far they go. `StrandedOnlyByDrop`
is the safety half of `DispatchEnds`: in every dispatch with a stack that is ready there
is an event or a timer left that ends it (`EndDue`), until one is dropped. It follows
from `Phases`, with a lemma for what a send adds and a dispatch takes off the queue.
`StrandedForGood`: once there is none, there is never one again, so the device does not
upload any more. `LockedOutForGood`: once `connected_beacons` has reached the size of the
table the bits and the count do not change any more.

**`BeaconTableAPIProofs`** - `FreeEntriesClear` and `AddingKeepsOthers`, for any order of
calls. That `add_dummy_beacon` finds a first free entry unless the table is full is
`FirstFreeExists`.

**`UserInterfaceProofs`** - `ClicksArePresses`: a click not yet counted has its own press
(`ButtonInv`). `PlayerPlaysAlone` and `PlayerTypeCorrect`: lemmas say of each method of
`Blinky`, the callback included, what it leaves in the object and how many events it
sends; `Alone` is the property of an object and a number of events that they keep.
Two more are the safety halves of the liveness properties. `PressIsKept`: a press that
no call has reported is in the flag, and only a call that counts a click clears it.
`PatternGoesOn`: a pattern that is played once takes a number off it at each event and
sends the next, or starts the one encore, or reaches one of the ends of `PatternEnds`;
with the delivery of events nothing else can be its end.

**`ProvisioningProofs`** - `StartTypeCorrect`, `StorageIsReady`, `FccIsUp`,
`StartIsProvisioned`, `CleanStarts`, `CredentialsKept`, for every set of builds of both
ports. The invariant `PInv` says what a start relies on at each call: the partitions
before the one at hand are in order (`PartitionsSoFar`), which build can be at which
call (`Ports`), a reformat leaves only one partition without a file system at a time
(`ReformatKeepsRest`), which part of `application_init_fcc` can be at which call
(`Stages`), that credentials exist only on a card that is complete and not after its
first partition has been reformatted (`WhereCredentials`), and, of a start in which
nothing has failed, how entropy, root of trust and credentials come back step by step
(`WithoutFault`). The last one rules out both the exit of `CleanStarts` and, with the
others, every format of a first partition that holds complete credentials, which is
`CredentialsKept`.

**`DeployProofs`** - `DeployTypeCorrect`, `SourcesOutliveGenerated`, `CleanDoesRepair`,
`SuccessDoesComplete`, for any targets, directories and patches. Each property speaks of
a command that has ended, and rests on what the command has done so far: everything
before the element at hand has been fetched (`FetchedSoFar`), patched (`PatchedSoFar`) or
deleted (`DeletedSoFar`; `VictimAt` follows the order of the deletion, the first
directory last). `NotInUse` says that what a command clones or deletes has no generated
files, `PatchInTree` that a patch is in a tree, `Undecided` that the outcome stays open
while a command runs. `PristineSources` is the part `SuccessIsComplete` needs: since the
clean of a target nothing of it is half done but for the element at which the command
is at work. `NestingAssumption` makes the directories around an element of a
target its own: they are fetched before it, and no clean of another target takes them.

Only model-checked: liveness (`UnregisterEnds`, `AllReported`, `WritesHeal`,
`DispatchEnds`, `PressIsSeen`, `PatternEnds`; out of the reach of the prover, like
`ENABLED`) and the violations. Every other property of the runs is the subject of a
theorem.

## Observations

Seen while modelling and reachable in the models, but not against anything the
source says that a run of its own would show:

- `add_beacon` returns 0 where its comment (`ble_beacon.c:44`) promises the index, and
  it reads the entry before it checks the index (`:56`, `:60`). `BeaconTable` lets that
  read return anything. `on_scan` passes it any byte from the air (`main.cpp:274`) and
  believes a success: it sets a bit that no entry stands for (`:285`, by an undefined
  shift from 32 on), which the next bitmap shows to the server, and uses up one of the
  places for beacons (`:286`). What it sets are the `strays` of `BleApp`.
- A second partition whose mount or test fails once costs the first one too, with the
  credentials on it (`mcc_common_setup.cpp:396`): both are created and formatted again.
- When the BLE stack reports an error, nothing is posted any more (`main.cpp:157`) and
  the dispatch never ends (`StrandedForGood`).
- Without partition mode `mcc_platform_reformat_storage` always fails, although
  `part1` is set with the comment "required for mcc_platform_reformat_storage"
  (`mcc_common_setup.cpp:412`). A board of this kind that has lost power in the
  developer flow never starts again; this is the exception in `CleanStartSucceeds`.
- When `mcc_platform_sotp_init` fails, it finalizes the configurator
  (`app_platform_setup.c:94`), and `mcc_platform_fcc_init` finalizes it again (`:75`).
- A `Blinky` that is started again while an event is in flight has two from then on,
  and its pattern is played at double speed; one whose callback stops it while it
  repeats goes on reading from a null pointer. `PlaysAlone` is what an owner has who
  avoids both.
- At the end of its input the Linux port reports a click at every poll
  (`mcc_common_button_and_led.c:63`); `NoPhantomClicks` counts up to there.
- `pal-platform.py`: a failed command exits with status 0 (`check_cmd`). A clean that is
  interrupted can leave a git directory with files missing, which the next deploy
  updates and calls successful. A deploy that is cut short between fetching and
  patching leaves unpatched sources which `generate` accepts. A clean of one Linux
  target removes the `mbedtls` sources of the others. `deploy --skip-update` of a tree
  that was never fetched reports success where there is nothing to patch.

## Not modelled, and why

`on_timeout(TIMEOUT_SRC_CONN)` cannot happen, since nothing connects; the PHY
callbacks and `error` only print; `register_update`, `is_client_registered` and
`mcc_platform_close_connection` have no callers; the reboot that ends a firmware
update takes the program with it; the network callback of the Linux port cannot
fail. Of the start-up, partition mode without automatic partitioning, a board without a
block device, a card too small for its partitions (an assertion) and the modes other
than the developer mode are left out. Of the deploy tool: sources in archives, which
no target of `pal-platform.json` has, the run of cmake in `fullbuild`, and the
instructions. `mbed_cloud_client_user_config.h` and the mbedtls configuration, nearly
half of the lines of the repository, are lists of macros; memory statistics and the
insecure root of trust have no state.

That the application thread may end while `client_unregistered` has not returned yet
(`simplem2mclient.h:119`), and that a renewal may end before its callback is installed
(`main.cpp:570`), can be seen in `CloudClient` and `DeviceClient`, but the source promises
nothing that a property could quote.

## Plan

Done, in the order of importance:

1. `BeaconTable`, `CloudClient`, `BeaconUpload`, `DummyApp` with `CloudView`.
2. `GapDevice`, `BleApp`, `BeaconTableAPI`.
3. The invariants of `CloudClient` and `DummyApp`, proved for every constant.
4. The refinements of `CloudView` and `CloudClient` by the default build.
5. `Storage` and `Provisioning` for both ports; their invariants proved.
6. `ResourceTree`, `UpdateUi` and their composition with the client, `DeviceClient`,
   proved.
7. `ButtonAndLed`, `Blinky`, `UserInterface`; the safety properties proved.
8. `Deploy`.
9. The safety invariants of `BleApp` and `BeaconTableAPI` proved, and `BleApp` as an
   implementation of `CloudClient`.
10. `ScanView`, implemented by `BleApp`; the properties of `Deploy` proved; the safety
    halves of the liveness properties, and what the violations cannot exceed.

What would come next: partition mode without automatic partitioning in `Storage`; the
sources in archives of `pal-platform.py`.

## Running

    tlc -workers 2 -config DummyApp.cfg MCDummyApp
    tlapm DummyAppProofs.tla

The largest run, `deploy`, visits 2.1 million states; every run ends in under a minute.
