# The resistor cutter in TLA+

This directory holds a verification development of the TekBots resistor cutter
(`src/ResistorCutter`): TLA+ modules that model its control program, the TLC
configurations that check them on small instances, and proofs, checked by TLAPS,
of what matters most for instances of every size.

## 1. The system

The program runs on an ESP32. A three-line menu on a Nokia display, moved by a
joystick, sets the number of resistors per kit, the number of kits, and starts or
stops the machine; a safety interlock switch and two commands on the serial
console pause and resume it; a WiFi access point serves a status page through a
captive portal.

| part | source | state it keeps | operations | runs in |
|---|---|---|---|---|
| sketch | `ResistorCutter.ino` | the step `i` of each active loop of `handleStateChange` | `setup`, `loop`, `checkPause`, `handleStateChange` | loopTask |
| `Interface` | `Interface.h` | menu line, `rPerKit`, `kits`, `running`, `prevRunning`, `percent`, `debounced`, `lastUpdate`, `switchPressed` | `update`, `handleJoystick`, `handleSwitch`, `handleSafetySwitch`, `setPausedStatus`, `doneRunning` | loopTask |
| `SafetySwitch` | `SafetySwitch.h` | level at the last poll | `getSwitch`, `getChange` | loopTask |
| `Joystick` | `Joystick.h` | none (every call reads the converter) | `getUp` ... `getHorizontal`, `getSwitch` | loopTask |
| `Display` | `Display.h` | the frame buffer (library) | `updateAll`, `printProgress`, `showPaused`, ... | loopTask |
| `Webpages` | `Webpages.h` | `rPerKit`, `kits`, `percent`, `running` of the page | setters; `getMainHTML` | setters loopTask, getters async_tcp |
| `LocalHost` | `LocalHost.h` | `portalOpened` | `setup`, `processRequest`, the disconnect event, the DNS timer, `updatePageInfo` | setup loopTask; then async_tcp, WiFi events, esp_timer |
| PCD8544 driver, graphics | `Adafruit_PCD8544.cpp`, `Adafruit_GFX.cpp` | frame buffer, box of changes, rotation; the chip keeps its own memory | `display`, `clearDisplay`, `drawLine`, `fillRect`, `print`, ... | loopTask |
| AsyncTCP | `AsyncTCP.cpp` | event queue, table of closed slots; per client `_pcb`, `_closed_slot`, callbacks | lwIP callbacks; event handlers; lwIP calls | lwIP thread, async_tcp |
| web server | `WebRequest.cpp`, `WebResponses.cpp` | per request: parser, response with its counters | `_onData`, `_onAck`, `_onPoll`, `_onTimeout`, `_onDisconnect`, `send` | async_tcp |
| other vendored libraries | `src/libraries` | WiFi stations, DNS packets, SPI | | their own tasks |

How they interact: `loop()` calls `Interface::update()`, which polls the switch,
then the joystick or the progress bar, then the button. A press of the button on
the third line calls back into the sketch (`handleStateChange`), which runs the
whole job **inside** that callback, calling `update(i)` for every step, so jobs
nest. Every change of the machine is shown by `display.updateAll` and passed to
the web page by `localHost.updatePageInfo`; the web server's task reads those
fields without a lock. That task is the service task of AsyncTCP: lwIP's thread puts
what happens to connections into a queue, the service task takes it out, calls the
handlers of the request, and asks lwIP to write, acknowledge or close by calls that it
waits for. `Display` draws through the graphics library into the driver's buffer, and
`display()` sends the part of it that has changed.

What makes it hard:

* *one task, nested loops*: a job is a loop inside a callback inside `update()`;
  Stop and Start inside a job leave the old loop on the stack below the new one;
* *levels that change between two reads*: the safety switch is read twice per
  change and once more by its constructor, the joystick up to eleven times per
  movement, and a millisecond clock that wraps measures the pauses;
* *two sources of pauses*, the switch and the console, that share `prevRunning`;
* *tasks without locks*: the loop task, the web server's task and the task of the
  WiFi events share the fields of `Webpages` and `portalOpened`;
* *objects that die while they are named elsewhere*: a client is deleted by the handler of
  one of its events, with others still queued and calls on their way to lwIP;
* *two tasks that wait for each other* at the limit of a queue;
* *a stream cut anywhere*, parsed by a state machine that looks for ends at the ends of packets;
* *incremental drawing* onto a chip that is sent only what a box of changes covers;
* *one flag for all stations* of the captive portal.

What makes each part correct:

| part | is correct when |
|---|---|
| loop task | a flipped switch that has been polled keeps the machine paused; pausing and resuming neither lose nor repeat a step, start or revive a job; every loop ends |
| display, page values | they agree with the machine after every step, on every path |
| joystick, menu | one tilt, or one pause of holding, is one movement in the menu, whatever the clock does |
| status page | every value is of the time of the request; numbers and text are of one moment |
| driver, graphics | the box covers what differs, `display()` leaves nothing behind; lines and circles are as straight and as round as pixels permit; nothing is left over of what was drawn before |
| AsyncTCP | a client learns of its events once and in order; none reaches a deleted client; no call reaches a connection that is closed; what a gone connection held is given back |
| web server | one call of the handler per complete request, however it is cut; the answer without gaps; no request stays for ever |
| captive portal | who joins is led to the portal, who has been there can leave it, a browser that follows its pages gets to the status page |

## 2. Modules

| module | models | extends |
|---|---|---|
| `Menu` | what one accepted movement does to the three lines (`handleJoystick`) | |
| `Display` | what each function of class `Display` draws, as records | |
| `Cutter` | the abstract machine: an order is cut step by step, paused, resumed, stopped or finished | |
| `Interface` | the loop task: `update()` split where the switch may change, the console, the stack of job loops | `Menu`, `Display` |
| `InterfaceProperties` | what the loop task must guarantee; the refinements of `Cutter` and `PageFeed` | `Interface` |
| `Joystick` | `handleJoystick()` and class `Joystick` read by read, debouncing, repeat rate, `millis()` | `Menu` |
| `PageFeed` | the sequence of values the loop task passes to the status page | |
| `StatusPage` | the unlocked stores of `updatePageInfo()` against the reads of `getMainHTML()` | `PageFeed` |
| `Portal` | `LocalHost::setup`, the request handlers, the disconnect event, stations and browsers | |
| `AsyncTcp` | connections between lwIP's thread and the service task: event queue, CLEAR, slots, calls | |
| `WebRequest` | a request: parser, `AsyncBasicResponse`, acknowledgements, polls, timeouts | |
| `Screen` | the driver with its box of changes; lines, circles, discs, rectangles pixel by pixel | |
| `DisplayScreen` | class `Display` as calls of the graphics library; the screens of `Display` pixel by pixel | `Screen` |
| `WebRequestMC`, `ScreenMC` | requests, and shapes and ink, for TLC | `WebRequest`, `DisplayScreen` |
| `InterfaceProofs`, `JoystickProofs`, `StatusPageProofs`, `PortalProofs`, `ScreenProofs`, `AsyncTcpProofs`, `AsyncTcpOrder`, `WebRequestProofs` | the theorems | the module they are about |

How they fit: `Joystick` takes what a movement does from `Menu`, and `Interface` uses `Menu`'s
`Move` as what the joystick does in one `update()`; that the movements of the detailed joystick are
steps of the rings, in the direction of the stick, is `MovesByOne`. `Interface` implements `PageFeed`, and
`StatusPage` takes `PageFeed`'s `Publish` as what the loop task does. So what is
shown of the detailed joystick and of the status page holds with the real loop
task on the other side, without one state space for all of them. `DisplayScreen` takes the
records of `Display` (by `INSTANCE`) as what each call is to show, so that what `Interface`
says of the screen (`OutputsAgree`) is what the chip shows; that `Interface` makes only calls
that `DisplayScreen` is about is proved too (`DisplayIsCalledAsMeant`). What `Portal` assumes of the web
server, that requests are answered one at a time and in order, is what `AsyncTcp` and
`WebRequest` are about.

How state and actions correspond to the code:

* `Interface`. `pc` is where the loop task is in `update()`: `setup`/`poll` before
  `getChange()` reads the pin, `confirm` before `handleSafetySwitch()` reads it
  again, `act` before the test of `running`, `button` before the joystick's switch
  is read, `serial` after `update()`, `advance` at the end of an iteration of a job.
  `jobs` is the stack of active loops of `handleStateChange()`, each with its step
  and the order it announced. Everything between two of these points touches only
  the loop task's own state and is one action. `Refresh` is the pair
  `display.updateAll`, `localHost.updatePageInfo`. The display driver, log output and
  `Serial.print` are left out.
* `AsyncTcp`. An action is what one task does between two points at which the other can
  interfere: a call of the queue, a call of lwIP, a load of a field that the other task
  writes. `plan` is the rest of the handler that the service task is in: `call` for a write,
  an output or an acknowledgement, `unhook`, `clear`, `close`, `delete` for the parts of
  `_close()` and of the handler of a disconnection. `scan` is the loop of
  `_remove_events_with_arg`, one call of the queue per action. `sending` is the event lwIP's
  thread is blocked with. `conn` is what lwIP knows, `pcb` what the client believes; `pushed`
  and `handled` observe how many events lwIP has made and the handlers have seen. Event
  numbers stand for the pointers by which the loop recognises a packet. A poll or an
  acknowledgement carries its connection, which the handler compares (`_poll`).
* `WebRequest`. A character is what the parser tells apart; a response is the sequence of the
  numbers of its bytes, so that "no gap" is a statement about a sequence. `OnData` is one
  `_onData` with everything it calls down to `AsyncClient::write`. That has three outcomes
  (`Outcomes`): the bytes are sent; they are queued but `send()` fails, so that they go out later and
  `write()` returns 0; or lwIP has no memory for them. `tcp.uncounted` observes what goes out without
  being counted as written. The 100 Continue is written first, and can fail in the same ways. `_respond` and `_ack` keep the counters of the code next to the text
  they count.
* `Screen`, `DisplayScreen`. Buffer and chip are sets of black pixels; a rectangle is set
  in one step, which is what its calls of `setPixel` amount to, since the box only grows;
  slanted lines, circles and discs are drawn one iteration of their loop at a time (`pen`).
  Coordinates are integers: with the display's size and the arguments used the 16 bits of the
  code are not exceeded. `Ink` stands for the font.
* `Joystick`. `at` is the function of class `Joystick` that is called next; one
  action is one call. A call that reads an axis twice (`getUp() || getDown()`) is one
  read, since the stick passes the centre between its ends and any outcome of two
  reads is one of a single read at one of the two moments. The test of the pause and the
  `lastUpdate` of an accepted movement up or down read the clock at one moment (`Interface.h:32`, `:33`). `since` and `rested`
  observe what the code can only compute.
* `StatusPage`. The compiler inlines three plain stores, so `SetField` stores them in
  any order; the reads of `getMainHTML()` are ordered by the library calls between
  them. `running` in one conditional expression is loaded once, since nothing
  between its two comparisons can change it for the compiler. `window` observes
  which pages were current during the request.
* `Portal`. `requests` is the queue of the web server's task, `departures` that of the
  WiFi events. A request whose station has left stays in the queue, from `Nobody`. The
  handlers are grouped by what they answer: a redirection to the root page (also the
  catch-all), a bare status, and the three pages of `processRequest`.

Definitions that are marked as *faulty variant* in a comment are what an operation
would be after a plausible slip. They belong to no specification; each property
fails for at least one of them, which is how the properties were validated.

## 3. What is checked

Runs that pass:

| run | module | question | states |
|---|---|---|---|
| `any_environment` | `InterfaceProperties` | the loop task with a switch that may change anywhere, `pause` and `resume` lines at any time | 138,388 |
| `disciplined` | `InterfaceProperties` | the same when every resume follows a pause: interlock, jobs, refinement of `Cutter`; a switch that settles pauses or releases the machine for good; every loop ends | 16,107 |
| `joystick` | `Joystick` | repeat rate, wrapping clock, one step per movement; a held stick is repeated for ever | 284,688 |
| `status_page` | `StatusPage` | recent values, whole pages | 185,712 |
| `portal_single` | `Portal` | one client at a time, who leaves and joins at any time: captive page until escape, success page after it | 259,060 |
| `portal_follow` | `Portal` | two stations at once, anything goes: a browser reaches the status page | 162,889 |
| `tcp` | `AsyncTcp` | two addresses, three connections, a queue of three: events, slots, calls, deletion | 623,757 |
| `request` | `WebRequestMC` | seven requests cut everywhere, five send buffers: handling, answering, ending | 305,930 |
| `screen` | `ScreenMC` | shapes and screens on the whole display: box, chip, lines, circles, leftovers | 5,478 |

*Bounds.* Menus of 2 x 2 or 3 x 2 values have two ends and a wrap-around, and with three values
a middle; `Steps = 2` gives a job a first, a middle and a last step, `Steps = 3` two in the
middle; `MaxJobs = 2` gives a loop below a loop, 3 one that is in the middle. `disciplined` has no
console, so that it can also be about liveness; its properties of safety are proved with `pause`
lines too, and `any_environment` has them. The clock has 6 values with pauses of 2 and 1, so that it
wraps within a pause, and `MaxPass = 2` ticks fit into one `update()`, so that time
passes between the two calls of `millis()`; `MaxPass` must be smaller than the clock less
the pauses, as it is in reality by a factor of millions. `MaxWindow = 3` allows two
changes during one request, one more than a page survives. The portal needs two
stations, one that was there before, and a queue of three for a probe, its page and
the link. `tcp`: two addresses are one client and another one, and with three
connections one address is used twice; two slots for them make a slot be used again; a queue
of three fills up while it is turned, and two events per connection, with the acceptance and the
CLEAR, overflow it. `request`: a head of two bytes and contents of none or three, with send buffers
of one to five bytes, take every branch of `_respond`, the equalities included. `screen`: lines of
all slopes up to three by five and two long ones, circles of all radii up to nine, shapes across
the edges, in every rotation, one call per behaviour before `display()`; numbers of one and two digits,
percentages of one to three and the -1 that `loop()` passes; what the size and the arguments cut off is proved. `MaxRequests` and `MaxDepartures` bound queues that have other limits
in the libraries. What the bounds cut off is covered by the theorems, which do
not have them or leave them open.

*Environments.* `Interface` has two parameters for what is around it. `SerialLines`
are the commands that may arrive; `QuietPoints` the program points at which
the switch is assumed still: `confirm`, between the two reads of one update (some
microseconds), and `setup`, between the constructor and the first poll. *Disciplined*
is: no `resume` on the console, both points quiet. That each of the three is needed is
shown by the runs that are violated and by the deviations listed below them. `Joystick` has
`Diagonals`: whether the stick can be tilted in both axes at once. `RepeatRate` needs
that it can not, because `getUncentered()` reads one axis after the other and takes a
stick that rolls along its rim for a centred one; with `Diagonals = TRUE` TLC finds it
violated. `MovesByOne` needs nothing of the kind and is proved for both values. `AsyncTcp` has `Quiet`, the points at which the other task is assumed to be still, and each
is needed: `rotation`, that lwIP adds nothing while the queue is turned, and `address`, that the heap
does not give a new client the address of one whose CLEAR is still queued (without either
`EventsInOrder` fails), and `load`, that lwIP does not close between the loads of `_pcb` and of
`_closed_slot` (without it `CallsCarryASlot` fails). The theorems about `AsyncTcp` assume
nothing of them unless they say so. They are also what is not covered: `EventsInOrder` in `tcp` is about queues that are not added to
while they are turned (`event_order` is about the others), and `SlotsAreOwn` and
`CallsCarryASlot` about loads that see both fields of one moment. `Portal` has no such parameter:
stations join and leave at any time, whatever is still queued of the one before.

*Fairness.* `LoopTask` is one weakly fair action: the task has no blocking call without
a timeout after `setup()` (`delay(50)`, `readStringUntil` with one second), and
one of its actions is always enabled but for the bound `MaxJobs`. Nothing is assumed of
switch, stick, console or user; the liveness properties say `<>[]pin` or `<>[](y = "up")`
where they need one to hold still. `Joystick` adds the clock. `Portal` assumes
that both tasks run, that `setup()` gets done, and that a browser follows the refresh of the page it
shows; that is what a captive portal relies on. `AsyncTcp` assumes that each task goes on while
it can: the service task has the highest priority of those that use the network, and lwIP's thread
serves the calls it is given. Nothing is assumed of peers. `WebRequest` assumes that queued
acknowledgements are handled and polls come (lwIP's timer), that timeouts are noticed by them, and
that lwIP, by sending again, gets an acknowledgement or gives the connection up.

*Deadlock* is checked in every run but `tcp`, `event_order` and `request`: there the bounded number of
connections, or the one request, comes to its end, and in `tcp` the two tasks may really wait
for each other (`Stuck`), which `GoneClientsAreDeleted` excepts by name.

The specification of `screen` is `DSSpec`: calls of the library as long as nothing of class
`Display` is on the screen, then calls of `Display` only, which is what it relies on.

Runs that are violated, each one a disagreement between the code and what a comment in
it says:

| run | what it shows |
|---|---|
| `resume_overrides_switch` | a `resume` line ends the pause of a switch that is still flipped |
| `bounce_loses_pause` | a bounce between the two reads of one `update()`: the switch stays flipped, the machine runs |
| `event_order` | while `_remove_events_with_arg` turns the queue, an event that lwIP adds gets ahead of an older one of the same client, although the loop is there to "keep the order" |

Further deviations, met while modelling, that no run is kept for:

* A flip between the constructor of `SafetySwitch` and the first `update()` is never
  noticed, since only changes are acted on: `disciplined` with
  `QuietPoints = {"confirm"}` violates `SwitchPauses`.
* A `resume` line with nothing paused brings back `prevRunning` of a job that has finished: the
  machine shows that it is running, there is no job, and no end of a job will release it, although
  `doneRunning()` was called (`Interface.h:184`). `any_environment` has this, and `CuttingKeepsItsJob`
  says that it is the only way for the machine to cut outside the loop of its job.
* After Stop the loop of the job goes on to its last step with the machine not running, and a job
  that is started meanwhile is nested in it (`ResistorCutter.ino:72`).
* A stick released between the read that accepts a movement to the left and the read of its
  direction turns the input up: everything that is not left is taken for right (`Interface.h:52`).
* A job that is started after a stopped one begins with the progress of the old one on
  display and page; `percent` is reset by `doneRunning()` only.
* A pause from the console shows the screen that asks to resolve the safety switch.
* `getMainHTML()` compares `running` once for the colour of the box and again for the
  text, so that the two may be of different states.
* A request that is answered after its station has left sets `portalOpened`, and the next station is
  not led to the portal; so does a departure that is lost because it falls into `setup()`
  (`leftOpen`). A station that joins before the departure of the one before has been dispatched gets the
  success page at first, and the captive page again after its escape when the flag is reset
  (`overtaken`). `CaptiveUntilEscape` excepts these by name, and is violated without any one of the exceptions.
* The handler of a request with a body is never called when a packet goes on behind the end of the
  body: `_parsedLength == _contentLength` is only tested after packets (`WebRequest.cpp:170`).
* On an empty first line `_parseLine()` closes the connection, which deletes request and client inside
  `_onData()`; `_recv()` goes on with the deleted client (`AsyncTCP.cpp:937`), acknowledges, and hands the next
  packet to a request that is in `PARSE_REQ_FAIL` and does nothing. `AsyncTcp` has this: the values read
  from the freed client are arbitrary. What lwIP does with a connection that is no
  connection is undefined and not modelled.
* The acknowledgement of a 100 Continue is counted for the response, and bytes that `add()` has queued
  are not counted when `send()` fails: the response ends that many bytes early, or fewer. A write that fails
  for lack of memory loses a piece of the answer, which `_sentLength` counts as sent.
* `send()` switches the timeout for silent peers off: a connection whose answer is complete and
  acknowledged stays until the peer closes it.
* A client that gets no slot, because all are taken, makes its calls unchecked; a connection that the
  peer has reset is freed by lwIP before the event of it is handled, and its slot is not marked.
* Events of data that CLEAR removes are freed without the data they carry.

## 4. What is proved

All theorems hold for every value of the constants that satisfies the named
assumptions of the modules.

*In every environment* (`InterfaceProofs`): `TypeCorrect`, `OutputsNeverLag`,
`JobsAreKept`, `PauseFreezes`, `PageIsFed`, the refinement of `PageFeed`, and
`DisplayIsCalledAsMeant`: progress is shown on the menu of a running machine only.
`TypeInv` alone is not inductive: that a job at step -1 is not decremented again
needs `StackInv` (only the innermost loop can be at -1, and only between its `i--`
and its `i++`), and that a running machine is at the button needs `ButtonInv`.
Their conjunction `TInv` is proved inductive with one case per action; lemmas about
`Append`, `EXCEPT` and `SubSeq` on the stack of jobs carry the sequence reasoning.

*In a disciplined environment* (`InterfaceProofs`, second part; each theorem with the assumption
`Disciplined`): `InterlockHolds`, `CuttingMeansJob`, `NoOtherHandCuts` and
`Implementation`, the refinement of `Cutter`. The invariant `IInv` adds `AtPoints`: what
is known at the first poll and at the second read of a change. It is needed
because `setPausedStatus(false)` is harmless only where the machine is paused or has
never been started; exactly this is lost without `Disciplined`. The refinement maps
each action to one step of `Cutter` or a stutter; `Done`, the number of steps
performed, counts the step of a job from the moment `update()` has shown it and
takes it back when the machine was found paused.

*Joystick* (`JoystickProofs`): `RepeatRateHolds` assumes `OneAxis`
(`Diagonals = FALSE`); its invariant says that the elapsed time the code computes in
unsigned arithmetic is never more than has passed, and that `debounced` is only true
of a stick that has been centred. `MovementsAreSteps` assumes nothing: whatever the stick does between
the reads, a movement is one step round a ring of 3, `MaxRPerKit` or `MaxKits` places, of one line
or one input. `TurnsAreInverse` is about the cyclic counters.

*Status page* (`StatusPageProofs`): `PagesAreRecent`, `PagesAreWhole`. The
invariant `StatusPageInv` says that the stored values are at most one change behind the
last call, so they always are a page of the window, whatever the order of the stores;
and that two pages that are the whole window differ in one value. With `PageIsFed`
this holds for the pages of the real loop task.

*Portal* (`PortalProofs`): `PortalInvariant` and `PortalLetsEscape` assume `OneByOne`, that `MAX_CLIENTS`
is 1 as in the code, and nothing of the stations. The invariant `PortalInv` splits "the flag is the
state of the one station that is connected" in two. A set flag means that the station has escaped, that it was left
open, or that a departure has still to be dispatched; a reset one, that only a station that was overtaken by such a
departure can have escaped. Each half survives the steps that break the other.

*Screen* (`ScreenProofs`): `BoxAlwaysCovers` and `NothingLeftBehind`, for every size and
all arguments and rotations, from the type invariant and one lemma on what the box does to a set of
pixels. `LinesAreStraight` rests on the invariant of the running error of `writeLine`: it is what
remains of half the length after as many rises as were made, between 0 and the length;
`ArcsAreRound` on `f` being the value of the circle's equation at the next middle point. `DiscsAreWhole`
and `DiscsAreDrawnOnce`: the columns drawn are those up to `x` and those beyond `y`.

`ShowsWhatItShould` is about what class `Display` draws, under the assumption `CutterDisplay`: a display
of 84 columns or more, so that no text of the menu wraps, and characters of at most 6 by 8 pixels, as those
of the classic font are. Height, font, inputs, percentages and what was on the display before are left
open. The argument is by pixels (`Alike`): every call treats a pixel by what was there, so that equal
pixels stay equal; each of the four parts of the menu first fills a ground and then paints on it
(`Line1Paints` ... `ButtonPaints`), and the grounds do not touch (`RowsApart`). So the menu can be read
part by part (`MenuAt`), a part that is drawn anew is what it would be on a blank display, and the rest is as
it was. The invariant `Shows` adds that the chip shows the buffer, by the lemma on `display()`.

*AsyncTCP* (`AsyncTcpProofs`): `TypeCorrect`, `SlotsStayOwn`, `CallsAreStopped`, in every environment.
The invariant `TcpInv` adds to them what a call that is under way knows: `CallInv`, that the slot
it carries was its client's when it was loaded, and is either still, or free, or given away.

*The order of events* (`AsyncTcpOrder`): `NeverStale` and `OrderHolds` assume `Undisturbed`: lwIP's
thread makes no event while `_remove_events_with_arg` turns the queue, and no client is given the address
of one whose CLEAR is still queued. Without the first, `event_order` shows that order is lost. The
invariant `OrderInv` sees the queue as a set of packets at places on a line: an event goes to the back,
`accept` and `clear` to the front, and a turn of the queue moves the origin but no packet, so that only
the packets it drops need an argument. For each client `Known` relates its packets, the event that waits
for a place, its state and the numbers of events made and handled; `PlanInv` what the handler under way
has still to do. It is not checked by TLC first, as it quantifies over places; what follows from it is,
by `tcp`. `CallsHaveSlots` assumes `Provided` besides: a slot for each client (there are as many slots as
lwIP has connections), and that lwIP closes none between the two loads of a call's arguments. A new
client then finds a free slot by the pigeonhole principle, and `CarryInv` says that a connected client has
its slot, since a handler deletes only a client that is closed, or whose end was an event before.

*A request* (`WebRequestProofs`): `HandlerCalledOnce`, `EveryByteOnce`, `EndsAcknowledged`, for every
set of requests, length of head, content and body, and send buffer. `InputAssumption` says what the model's
characters can stand for: a line is one header at most, and the first line, the request line, is none.

* *Parser.* `ParsePacket` folds the parser over a packet. What a fold computes cannot be proved by
  the library's induction theorems, so that `PacketIsRead` does it by hand: the states in which the parser is
  after each part of the packet form a table, the table of `n` places gives that of `n + 1`
  (`TableGrows`), and were there a length without one, there would be a least one. Then a property that every character
  keeps is kept by every packet (`PacketKnows`). The property is `Knows`: what the state, the
  line, the announced length and the count of the body say of the characters that have arrived, in terms
  of where blank lines are. It ties the parser to `HeadEnds` and `Announced`, which do not know of packets.
* *Counters.* `Sound` relates a response to the wire: what was written and what is kept are
  the whole answer unless a write failed, and `_contentLength - _sentLength` is the length of what is kept
  although the two count different texts. `AckKeeps` and `RespondStarts` show it for every branch of
  `_ack` and `_respond`.
* *Acknowledgements.* `Ledger`: what was written is what is acknowledged, what the queued events will
  acknowledge, and what the peer has still to. The sum over the queue is a function whose steps are given
  (`LedgerAppends`, `LedgerTails`), not a recursion. The one slack in it is `tcp.uncounted`, the bytes that go
  out but are not counted as written; it is therefore the bound in `EndIsAcknowledged`.

The inductive invariant `WebInv` is types, `Understood` (parser) and `Answered` (response); its parts were
checked by TLC on the constants of `request` before they were proved.

*Only model-checked*: the liveness properties (`SwitchPauses`, `ReleaseResumes`,
`JobsEnd`, `HeldUpCycles`, `HeldLeftTurns`, `FollowerReachesMain`, `GoneClientsAreDeleted`,
`RequestsEnd`), because the prover does
not handle fairness. `JobsEnd` is moreover bounded by `MaxJobs`: a user who keeps
pressing Stop and Start could keep nesting jobs. Every invariant and every action property that a run
checks is also a theorem.

## 5. What is not modelled

* Of the vendored libraries what the program does not use: outgoing connections, name lookups,
  web sockets, event sources, files, multipart bodies, chunked answers, authentication, bitmaps,
  custom fonts, rounded rectangles, triangles, the colour displays of the SPITFT driver. They are
  most of the lines under `src/libraries`, and a model of them would say nothing of this machine.
* The WiFi, SPI, Wire and BusIO drivers and the DNS server: input and output, or stateless (the DNS
  server answers every name alike); of the access point only the limit on stations is modelled.
* The font: `Ink` is any assignment of pixels to characters.
* Real time: the length of a poll interval, `delay(50)` and the one second that
  `readStringUntil` may block are not bounded.
* The depth of the stack of the loop task (hazard at `ResistorCutter.ino:60`).
* `Webpages::setPercent`: no caller reaches it.
* The clearing of the callbacks of a connection one by one (`_close`), the unlocked increment of
  `_closed_index`, its wrap after 2^32 connections: see the hazards in `PROJECT.json`.

## 6. Plan

Order of the work, most important first; done: 1 to 9.

1. `Menu`, `Interface`, `Cutter`: the loop task and its safety interlock, checked and
   proved, in every and in a disciplined environment.
2. `Display`: the screens.
3. `Joystick`: one step per movement, repeat rate.
4. `PageFeed`, `StatusPage`: the status page.
5. `Portal`: the captive portal.
6. `Screen`, `DisplayScreen`: driver and graphics, proved; class `Display` on them.
7. `AsyncTcp`: connections between two tasks; slots, calls and the order of events proved.
8. `WebRequest`: parser and response.
9. Proofs: the parser and the counters of `AsyncBasicResponse`, the screens of class `Display`.
10. Next: `Portal` on `AsyncTcp` in place of its queue, to see which requests of a departed station
    survive.
