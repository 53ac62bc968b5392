# Verification of the FT801 driver

The repository drives an FT801 graphics chip from an STM32F429: an interrupt
driven transmit path over SPI, an engine that runs display tasks on top of it,
and example tasks (among them a text terminal).  This directory holds TLA+
models of it, TLC configurations and TLAPS proofs.

## The system

| component | state | operations | meets the others through |
|---|---|---|---|
| transmit ring buffer (`ft80x_it_ringbuffer.c`) | cells, head, tail | append, append_32b_ld, appendBuff, copyto, get, reset | filled by the main thread, drained by the SPI interrupt handler, no lock |
| transmit path (`ft80x_it_api.c`, `ft80x_it_api_cmd.c`, `enable_spi*` and `SPI4_IRQHandler` of `main.c`) | sending status, append status, value for REG_CMD_WRITE, byte count | prepare, append_it, string append, flush, check, start_tx, reset; the handler | the SPI peripheral; `isSending()` and `check()` for the engine |
| GPU engine (`ft80x_engine_it.c`, `EXTI4_IRQHandler`) | interrupt flags word, task state, active task, task list | looper, setActiveTask, reg_task, init; the EXTI handler | callbacks of the active task; blocking register reads |
| tasks (`my_tasks.c`, `demo_tasks.c`, `terminal_task.c`) | per task data, touch flag, text ring | painting, doing, gpu_it | called by the looper; call setActiveTask, the command builder and blocking reads |
| blocking SPI driver (`spi.c`) | CR1, SR and DR of the SPI | host_cmd, rd8/16/32, wr8/16/32, wrStream, stream | shares the SPI with the handler, without protection |
| LCD and interrupt source api (`ft801_api.c`) | registers of the chip, some with other bits in them | init_lcd, ctouch_adjust, enable_lcd, is_enabled, enable and disable sources, pin, read flags | blocking transfers |
| boot and examples (`main.c`, `gpio_exti.c`) | `gpu_int` | init, id, interrupts, backlight; two balls, text, calibration, or tasks to register and activate | EXTI enabled before the LCD and the engine are initialised; the calibration waits for the EXTI handler |
| blocking command and display list api (`ft801_api_cmd.c`, `ft801_api_dl.c`) | buffer descriptor | prepare, append, flush | waits for the chip's FIFO |
| generic ring buffer (`ringBuffer_api.c`) | descriptors, head, tail, elements | init, put, get, capacity | called by nobody |

Three actors run: the main thread, the SPI4 handler and the EXTI4 handler; the
chip is a fourth.  What makes the code hard is their interleaving: appends race
the handler that drains the ring, flush races the handler that closes the
transmission, read-modify-writes of the engine's flag word race the EXTI
handler, and blocking reads need the SPI that the handler uses.  The blocking
transfers race the SPI itself, which sends and receives at its own speed.
Each component is correct when:

* ring buffer: no untaken byte is overwritten, bytes come out in order, a string
  is refused only when it does not fit;
* transmit path: a list reaches the chip whole, in one frame, once, and the chip
  is told to execute exactly it; a begun list is eventually delivered; between
  lists the SPI is free for blocking reads;
* engine: a task runs only when its screen is drawn; the transmit path is used
  only when it may be; no interrupt is forgotten; an activated task eventually
  runs;
* terminal: the ring holds the latest whole lines of what was appended, no line is
  longer than the screen is wide, the window starts at a line and moves by one;
* tasks: a registered task is found, a touch is handled on the screen it was made
  on, the keyboard shows what was typed, every list fits the chip;
* blocking api: what was accepted has its place in the client's buffer, a flushed
  list is in the FIFO whole behind the ones before it, flush returns;
* blocking transfers: each is one whole frame, a read is made of its own bytes, and
  none waits for a flag that never comes;
* boot and LCD: the panel comes on last and stays as asked, with the registers' other
  bits untouched; the calibration is left when the chip has finished it;
* generic ring buffer: it holds what was put and not got, oldest first.

## Modules

* `ByteFifo` - the bounded byte queue the ring buffer promises.
* `ItRingBuffer` - the ring buffer.  An append is a test for room, one step per
  byte and a store to head; `get` can come between any two.  `Contents` maps it
  to the queue of `ByteFifo`.
* `CmdTransfer` - what the transmit path promises the engine: a list is opened,
  filled, closed, sent and handed over to the chip once.
* `ItApi` - the transmit path.  `pc` is the main thread's place inside the api
  and every access to shared state is a step; `Take`, `Close` and `Pause` are
  the three ways through `SPI4_IRQHandler`; `Load`, `ShiftOut`, `Land` and
  `Process` are the SPI and the chip.  The ring buffer is used through
  `ByteFifo`'s `Put`, `Refuse` and `Get`, which `ItRingBuffer` implements, and
  the module is checked to implement `CmdTransfer`.
* `GpuEngine` - the looper with the EXTI handler, built on `CmdTransfer`.  `at`
  is the looper's place; each `|=` and `&=` on the flag word is a load and a
  store.  Its painting step calls prepare without a guard, as the code does, and
  `UsesTransfer` says that the guard of `CmdTransfer!Prepare` holds anyway.
* `LineWrap` - how a string is broken into lines, by arithmetic on its newlines and
  not by the loop of the code.
* `TextWindow` - what the terminal promises: a text of whole lines, of which the
  oldest may be forgotten, and a window on it.
* `TerminalBuffer` - `terminal_task.c`: the ring of characters with its line
  accounting, the window's start, the navigation tags and the keyboard.  All of it
  runs in the main thread, so a function is a step; a touch reads a tag of the
  last painting, and strings may have been appended since.  `Text` and `Top` map
  the ring to `TextWindow`, and the module is proved and checked to implement that.
  `Lined` is what the loop over a string pushes, with the ring left aside.
* `SpiDriver` - `spi.c` on the registers of the SPI.  A transfer is a sequence of
  accesses (`code` is what is left of it), each a step: set SPE, poll a flag of SR,
  write or read DR, clear SPE.  `ShiftOut` is the SPI: a byte is through, one came
  back, and the receive buffer overruns when nobody reads it.
* `BlockingMain` - `main.c` from reset, `ft801_api.c` and the examples that do
  without the engine, on top of `SpiDriver` and beside `EXTI4_IRQHandler`.  `plan`
  holds the transfers main makes until it looks at a result, `place` the code behind
  them; the chip has the registers that are read back and its interrupt pin.  The
  command list calls of `BlockingApi` change only the client's buffer and are left
  out here, but for the transfers of flush.
* `RingBufferApi` - `ringBuffer_api.c`: the indices, which run through all of
  `size_t`, and put and get in three steps each.
* `BlockingApi` - `ft801_api_cmd.c` and `ft801_api_dl.c`.  An append is a step; a
  flush takes one step for each of its transfers, with the chip executing in
  between.  Words are numbered in the order they are handed over.
* `TaskList` - `reg_task` and `_getTask`: the list through `next`, which holds
  whatever was on the stack of `main` until the engine sets it.
* `CommandLists` - what each call of the list builder appends, and from that the
  sizes of the lists of all painting functions.
* `Screens` - the three example programs on top of the looper: which task a tag
  activates, the touch flags, the keyboard's string and buttons, the gauge.  The
  looper is two steps here, reading the flags and acting on the task's state;
  `Running` means drawn, as `GpuEngine` shows.
* `MCItRingBuffer`, `MCItApi`, `MCGpuEngine`, `MCTerminal`, `MCBlockingApi`,
  `MCBlockingMain`, `MCScreens` - the instances for TLC.  `MCItRingBuffer` runs the
  two ring buffers, one or the other from the start.

* `RingBufferProofs` (of both ring buffers), `ItApiProofs`, `GpuEngineProofs`,
  `TerminalBufferProofs`, `BlockingApiProofs`, `BlockingMainProofs` (with `SpiDriver`),
  `ScreensProofs` - the proofs, and `Modulo` with the arithmetic they share.

So the composition is by contract: the client discipline that `ItApi` assumes
(`Prepare`'s guard) is `CmdTransfer`'s, `GpuEngine` is proved to keep it, and
the transmission that `GpuEngine` assumes is what `ItApi` is proved to implement.
Both take a blocking transfer as one step and show that it has the SPI to itself;
what it then does on the SPI is `SpiDriver`'s.

## Runs

| run | shows | instance |
|---|---|---|
| `ring_buffer` | TypeOK, NoOverrun, Held, ImplementsFifo | transmit ring: 4 cells, 2-byte words, strings up to 3 bytes, 10 bytes appended between resets: each index wraps at least twice and every append meets both the full and the just-fitting ring; generic ring: two descriptors, rings for 0 to 3 elements (3 is refused) and for an element of two bytes, `size_t` of 4 values so that the indices overflow again and again |
| `it_api` | TypeOK, BlockingReadAlone, OneFrame, OrderKept, ListWhole, Delivered, ImplementsTransfer | ring of 8, words of 2 bytes, lists up to 6 bytes plus the address, so that a list can overrun the ring when the handler is slow; command FIFO of 8, so that lists start at every even offset and wrap; strings with and without padding |
| `gpu_engine` | EngineTypeOK, RunningMeansDrawn, FlagsReadAlone, NotForgotten, UsesTransfer, ActiveTaskRuns | lists of up to 2 bytes, FIFO of 3; touches at any moment without bound |
| `terminal` | TypeOK, LinesFit, Counted, ImplementsWindow | ring of 8, lines of 2, screen of 2 lines or 1 above the keyboard, five strings (empty, short, broken, newline at either end): every index wraps, strings overwrite one to all of the lines, and every combination of window position, keyboard and stale tag occurs; `MaxTotal` bounds the line count, which the overflow lets drift; `LoopWraps`, evaluated before the run, compares `Lined` with `LineWrap!Wrap` for all strings of up to eight letters and newlines |
| `blocking_api` | TypeOK, InBuffer, FlushedWhole, FlushReturns | buffers of 1, 2 and 3 words, the second with two bytes to spare; FIFO of 4 words, so that lists start at and wrap around each offset; 5 word numbers, so that a word differs from the one it overwrites |
| `screens` | ScreensTypeOK, TaskFound, TouchIsFresh, Shown, OneLit, ListsFit | the three programs with all their tasks, every combination of set and unset `next`, all subsets of interrupt flags, a string of three keys (so that it fills up and stale characters lie behind its end), the chip's FIFO and the terminal's lines in their real size |
| `task_switch` | violation of ITFlagKept: setActiveTask forgets an interrupt | as `gpu_engine` |
| `terminal_prev` | violation of StartOnLine: moving up from cell 0 or 1 reads outside the buffer and loses the line | as `terminal` |
| `terminal_keyboard` | violation of CurrentInBuffer: toggling the keyboard above a short text wraps the line number | as `terminal` |
| `dl_overflow` | violation of DlInBuffer: one word too many is accepted | as `blocking_api` |
| `blocking_main` | TypeOK, FrameWhole, ReadInOrder, PanelComesLast, AsAsked, CallsReturn, CalibrationEnds | one word of display list and of command list, one value of the touch matrix (each further one repeats the same transfer); all examples, a program that calls the rest of `ft801_api.h` in any order, a chip without the id, touches at any moment; every transfer of `spi.c` at every speed of the SPI |
| `calibration_hang` | violation of RegistersShown: a touch during boot leaves the calibration waiting for ever | as `blocking_main`, that example |

`ItApi` takes the SPI handler's way from the interrupt to the closing branch to be
longer than the 32 processor cycles in which a byte leaves the shift register:
nothing sets up the clock tree, so core and bus run at 16 MHz, and `gpu_init_spi`
divides by four.  The closing branch clears SPE when the data register is empty and
looks at nothing else; with a faster core or a slower SPI the last byte would be cut
off.

`refused` and `lost` are history variables.  `refused` notes that the ring had
no room for a byte of the current list (the list is then broken, which the code
does not notice); `lost` notes that a store wiped out an interrupt flag while
the chip still had flags pending.  OneFrame, ListWhole, NotForgotten and
ActiveTaskRuns are claims about everything else; OrderKept holds of refused bytes
too.
The torn stores of the looper, of the task switch and of the boot sequence are steps
of the model, so it does lose interrupts; NotForgotten and ActiveTaskRuns say that
one is lost in no other way, and ITFlagKept exhibits the loss where a comment denies it.

`BlockingMain` has four.  `delayed` notes that an interrupt came between a write of
DR and the next look at SR while an overrun was pending: the byte that comes back can
then be lost, and a read that waits for it waits for ever.  CallsReturn says that no
other transfer does.  `misread` notes that a read took its value from other bytes
than the ones the chip puts it into: how many of the bytes behind the address are
still in the receive buffer depends on the speed of the SPI, which the sources do not
settle.  main is then followed with the right value, and nothing that rests on it is
claimed; ReadInOrder says what holds of every read.  `missed` notes that `gpu_int` was
cleared at the start of the calibration with the pin low and no interrupt pending,
which is what `calibration_hang` shows; `asked` keeps what was asked for with the
api.  In `RingBufferApi`, `held` keeps the elements put and not got.  Held claims
nothing of rings with larger elements: the offset of lines 90 and 109 counts bytes as
elements (the commented lines above them do not), so that neighbours overlap.

The terminal has two more.  `overflowed` notes that the ring was full once: from
then on `m_total_lines_no` is wrong (the first pass over the zeroed ring takes
lines away that never were there, and the NULs pushed at line ends overwrite
without counting), so Counted and the window's place are claimed only before; the
text itself is claimed always.  `astray` notes that the window was last placed
from cells outside the text: a step up from cell 0 or 1 (`terminal_prev`), a step
up to a first line that is empty, which stops at its NUL and skips a line, or a
toggle of the keyboard with fewer lines than the screen (`terminal_keyboard`).
The next append puts the window right again.  Two oddities of the line breaking
are in `LineWrap` as the code has them: a newline right behind a full line makes
an empty line, and the first line after a newline holds one character less.

In `BlockingApi` the api is first prepared with a buffer of at least three bytes,
as every client in the repository does.  `flush_call`'s middle case answers what
`ft801_api_cmd.h:41` calls an empty buffer; no prepared buffer reaches it, because
the three bytes of the address count.

In `Screens`, `noted` notes that a touch was read since the active screen was
drawn, and `typed` keeps the keys as an editor would.  Which characters the keys
send (shift) is data.  `graphExample_doing` uses a pointer that was never set:
it may act at any time and its touch flag stays; the memory it clears is not
modelled.  When a `next` that was never set and is not NULL is followed, `stray`
is set and the program goes no further, as in the fault handler of the startup
file.  ListsFit counts the terminal's text as any mix of full and empty lines.

Names: `StreamLen` and `DlLen` are the bytes of a stream and of a display list, `MatrixLen` the values
of the touch matrix, `Examples` the programs that may be compiled in, `Attrs`, `Elem`
and `Sizes` the attributes, elements and range of `size_t` of the generic rings.
`MaxIndex` bounds head (it only grows until the next reset), `MaxBytes`
the length of a list, `MaxLen` and `StrLens` the strings.

### Fairness

`ItApi!Spec` has weak fairness on the main thread (it never blocks: the looper
polls), on the handler (a pending enabled interrupt is served), and on the SPI
and the chip.  `GpuEngine!EngineSpec` has the same for the looper and the EXTI
handler, and for the transmission, which `Delivered` gives.  Nobody has to touch
the screen.  `BlockingApi!Spec` has it for a flush that was called and for the
chip, never for a call by the client.  `BlockingMain!Spec` has it for main (it
polls and never blocks), for the EXTI handler, for the SPI and for the chip, a
calibration included, since without touches it never ends; no other touch has to
come.  `TerminalBuffer`, `Screens` and the generic ring have no liveness property:
nothing in them waits.

## Proofs

Each `*Proofs` module extends the module it is about and ends with the theorems; what
comes before them are lemmas, one for each action that an invariant has to survive.
All theorems are about every value of the constants that the module's assumptions
admit.

| module | proves | from |
|---|---|---|
| `RingBufferProofs` | of the transmit ring TypeOK, NoOverrun, ImplementsFifo | `SizeAssumption`, `ByteAssumption`, `LenAssumption` |
| | of the generic ring Held | `RbAssumption` (`size_t` has at most 64 bits, a ring's bytes can be addressed) |
| `ItApiProofs` | TypeOK, BlockingReadAlone, OneFrame, OrderKept, ListWhole, ImplementsTransfer | `RingAssumption` (the register frame fits the ring), `ListAssumption` (a list is shorter than the FIFO) |
| `GpuEngineProofs` | EngineTypeOK, RunningMeansDrawn, FlagsReadAlone, NotForgotten, UsesTransfer | `TransferAssumption` of `CmdTransfer` |
| `TerminalBufferProofs` | TypeOK, LinesFit, Counted, ImplementsWindow | `SizeAssumption` (a line and its NUL fit the ring), `CharAssumption`, `CountAssumption` (`size_t` counts the cells of the ring, a screen has a line) |
| `BlockingApiProofs` | TypeOK, InBuffer, FlushedWhole | `SizeAssumption` |
| `BlockingMainProofs` | TypeOK, FrameWhole, ReadInOrder, PanelComesLast, AsAsked | `LengthAssumption`, `MatrixAssumption` (a stream, a display list and a matrix have a length), `ExampleAssumption` (the examples are those of the code) |
| `ScreensProofs` | ScreensTypeOK, TaskFound, TouchIsFresh, Shown, OneLit | `TaskAssumption`, `ScreenAssumption` |
| | ListsFit | and `RealSizes`: FIFO, lines and screens as in the code, a keyboard's string of up to 3000 characters (it has 40, the run 5) |
| `Modulo` | facts about division and remainder that the circles of all these rings need | nothing |

None of the properties is inductive by itself.  The strengthenings, which TLC checked
on the instances of the runs before they were proved:

* `RingBufferProofs!IInv` adds `Copied` to the two invariants: the bytes of the
  string in flight that were copied are in their cells.  Without it nothing is known
  of the cells that `Publish` adds to the queue.  Two facts about cell numbers carry
  it: indices less than `Size` apart are in different cells (`DistinctCells`), indices
  `Size` apart in the same one (`SameCell`).  `AppendsAreEntries` reduces the four
  appends to one case.
* `ItApiProofs!IInv` says for each place of the main thread and each status who may be
  at work (`PlaceInv`, `StatusInv`), whether the handler and the SPI are on
  (`HandlerInv`), which bytes are between main and chip (`StreamInv`) and what the chip
  has (`ChipInv`).  `StreamInv` is about the sequence that goes from the wire through
  shift and data register to the ring: the handler and the SPI only move bytes along
  it, so their steps cost nothing, and OneFrame, OrderKept and ListWhole are read off
  it.  Without it nothing says, when the handler finds the ring empty and closes, that
  all of the list is with the chip.
* `GpuEngineProofs!IInv` follows a CMDEMPTY from the chip's register through `itflags`
  and CMDREADY to the task's state: wherever it is, it is the one of the screen painted
  last.  It needs that a load and its store agree on the bits the looper owns, since
  the EXTI handler only adds NEED_READ, and that the transmit path is busy only with
  the list of this task.  The second half is also what makes prepare, which nothing
  guards, legal for `CmdTransfer`.  NotForgotten is inductive relative to it.
* `RingBufferProofs!RbInv` says that head is as many indices ahead of tail, on the
  circle of `size_t`, as elements are held, and that the number of a ring's elements
  divides that circle (`PowerOf2`), so that the place of an element does not jump when
  an index overflows.  A put and a get in progress are in it with what their tests
  found, which the other side cannot undo.
* `BlockingApiProofs!IInv` counts in words what the code counts in bytes: the pointer
  into the buffer is behind the words of the list, the chip's write offset is as many
  words ahead of its read offset as are pending, and from the moment flush found both
  equal nothing is pending until it hands its list over.  The addition that tests
  whether an append fits does not overflow an unsigned, which is where
  `StrLens \subseteq 1..UInt-4` is used.
* `TerminalBufferProofs!IInv` looks at the ring from its head on, in the order in which
  the cells will be overwritten.  `Fits` says that from every cell the end of a line is at
  most `LineChars` away; within a string it holds for all cells but the last ones, which
  are a line that has not ended and has no more characters than `char_no` says.  A
  character that is pushed only moves all others by one, so the zeroed ring, the overflow
  and a half-overwritten line need no case of their own.  `Fresh` (nothing was
  overwritten: the text is in front of the head, with NULs behind it, and was counted) and
  `Placed` (the window starts behind a NUL, and its number is known) hold until the ring
  is full.  That what is painted still has more lines than the screen when a navigation
  tag comes back is part of it too: strings only add lines as long as none is overwritten.
  What a string does is a recursive function over its characters; what is true behind
  each of them is shown by induction (`Induction`, from the least number for which it
  fails, which `WFMin` gives).
* ImplementsWindow follows from `Tells`: at each character of a string the cells behind
  the head are the end of the old text and of what `Lined` pushes so far, and the tail is
  where as much text begins, or the ring is full.  So the ring's copy of the loop and
  `Lined` run side by side, and `DroppedText` gives what a full ring keeps: the last
  characters from behind a NUL on.  `ShowsWhatItPushes` is the result, for every string;
  `ImplementsItsWindow` turns it into ImplementsWindow and has as hypothesis that `Lined`
  breaks a string as `LineWrap` says.
* `BlockingMainProofs!IInv` speaks of what is left: of the transfer in `code` (`WireInv`)
  and of main's `plan`.  `CodeInv` says that the rest of a transfer is the end of one of
  the few shapes a transfer has and how many of its bytes are through, `FrameInv` that
  frame, shift and data register are together the bytes sent so far, `ReceiveInv` how old
  the byte in the receive buffer may be: SPE is cleared only behind the waits for TXE and
  BSY, and when they are through there is nothing left outside the frame.  `RegsInv` keeps the
  types of the registers and the bits no call may change.  `PlanInv`,
  `PanelInv`, `PlaceInv` and `AnswerInv` say of the transfers still planned that those
  which put the panel on come behind the ones it needs, that a write of a shared register
  comes behind the read whose bits it keeps, and what the registers will be when the plan
  is done.
* `ScreensProofs!IInv` has a part for each of list, touches, string and buttons.  The
  tasks registered so far are linked in the program's order and no other task points to
  one of them; so long as no unset `next` was followed, the least closed set that `Way`
  is are exactly they.  Shown needs that the cursor and the NUL behind it are in place
  only from the painting on.

`ItApi` implements `CmdTransfer` (`TransferImplemented`) and `GpuEngine` uses it as
allowed (`LooperUsesTransfer`), so the two halves of the composition are proved for
every size of ring, FIFO and list.  `ItApi` takes the ring by `ByteFifo`'s contract,
which `ImplementsByteFifo` proves of the ring.

For the proofs some definitions were given another form, with the same meaning: the
`Way` of `TaskList` is the least set closed under `next` and not a recursion, `OrderKept`
and `OneLit` quantify over positions, `PowerOf2` says that n divides the size of
`size_t` (or is 0, which the test of the code lets pass) and not that two bit patterns
have no bit in common.

Only model-checked:

* all liveness (Delivered, ActiveTaskRuns, FlushReturns, CallsReturn, CalibrationEnds),
  as TLAPS does not reason about fairness and ENABLED;
* that `Lined` is `LineWrap!Wrap`, the hypothesis of `ImplementsItsWindow`: `Wrap` joins
  its lines with a fold of the library, about which nothing can be proved here.  TLC
  evaluates it in `LoopWraps`.

## Not modelled

Coordinates, colours and options of the widgets are data; a widget is a sequence
of word and string appends.  The speed of the SPI is any, but for the two places
above where a cycle count is used.  The overflow of head of the transmit ring, a
signed word that grows by the bytes of one list between resets, cannot happen.
Clock and pin setup, the values of the LCD timing, the static demo screens and the
vendored startup files have no state worth modelling.  The helpers that nobody
calls (`_ft801_spi_clear_rx_flag` and `_ft801_spi_write_tx` of `spi.c`,
`_cmd_append` of `ft801_api_cmd.c`) are left out.

## Plan

Every safety property of the runs is a theorem.  What could come next:

1. The ring of `ItApi` under the lists of `Screens`: which screens fit into its
   256 bytes and which depend on the handler's speed.
2. A property of the window behind an overflow.  From then on the counters are wrong
   and only the text is claimed; a bound on how far they drift would say what the
   reader of a long log sees.
