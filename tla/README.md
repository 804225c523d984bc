# TLA+ models of ssd2xx-demo

ssd2xx-demo is a collection of small C programs for the SigmaStar SSD20x and SSD2x2 boards: panels,
frame buffer, LVGL games and tools, wifi, audio, video and peripherals. Each directory builds one or more
programs, which do not talk to each other. What they share is the vendor SDK (`MI_*` calls) and a few helper
libraries. The models here are therefore one family of modules per program. They concentrate on the
programs whose control is worth checking: threads that share plain variables, commands that are answered
asynchronously, retries against a device that refuses, and games whose state is updated in place.

`PROJECT.json` lists for every definition the lines of C that it stands for, for every property a
mutated form of the model that violates it, and every hazard of the code we know of, with its line.

1. [The system and its parts](#1-the-system-and-its-parts)
2. [The modules](#2-the-modules)
3. [The runs](#3-the-runs)
4. [What disagrees with the code's own words](#4-what-disagrees-with-the-codes-own-words)
5. [What is proved](#5-what-is-proved)
6. [What is not modelled](#6-what-is-not-modelled)
7. [Plan](#7-plan)

## 1. The system and its parts

### wifi_sta_async (`5.wifi/wifi_sta_async`): modelled

* State: `g_info` (two linked lists, a mutex, the handle of the station, the parameters of the next connect),
  and a static `stStaStatus_old` in the worker.
* Operations: `wifi_scan`, `wifi_connect` and `wifi_disconnect` append a command to `get_cmd_list` (main
  thread). The worker opens the device and then loops: poll the status, take one command, execute it, append
  its callback to `cb_cmd_list`. `wifi_mastar_run` runs one callback (main thread).
* Interaction: two threads and two lists, which are touched only under the mutex. The SDK calls block, which is
  why there is a worker at all. The main thread blocks, too: after the key `c` it waits in `scanf` for the name and the
  password of the network (main.c:158-160), and runs no callback meanwhile.
* Hard: commands come before, while and after the device is opened, or when it could not be opened.
  Statuses polled before a disconnect are delivered after it was executed. The status cache outlives the station.
* Correct if: every scan and disconnect is answered once, in order; nothing is lost between the lists; the open
  callback is the first; no status of a station is delivered after its disconnect was answered; what is
  reported changes every time, and the last status is reported in the end, if the user finishes what `c` asks for.

### mp3_player (`6.audio/mp3_player`): modelled

* State: the flag `Mp3Playing`, `tid_playmp3`, the audio output (AO) device, and per decoder the
  `init` flag and the rest of its song.
* Operations: `mp3_codec` stops the song that plays and starts a decoder thread. `Mp3PlayStopDec` clears the
  flag, joins the decoder and turns the AO off. The decoder's libmad callbacks are `input`, `output` and `set_dsp`.
* Interaction: caller and decoder share two plain variables and no lock, and both call `Mp3PlayStopDec`, the
  decoder at the end of its song, when it joins itself.
* Hard: the stop of the caller meets the stop of the decoder; a new song is started while the old one ends.
* Correct if: after a stop nobody plays, nobody turns the AO off under a song, one song plays at a time,
  stop returns, and a song that ends turns the AO off.

### f_game_tetris (`4.littlevgl/f_apps/f_game_tetris`): modelled

* State: `map[]` (falling brick and landed boxes in one bit map), `curr_brick`, `next_brick`, game over, the timer.
* Operations: `move_left`, `move_right`, `rotate`, `move_down`, which erase the brick, test for
  conflicts and draw it; `line_clear_check`; the timer task.
* Hard: whoever draws must have tested; three different conflict tests look at different cells; rows are
  removed in place while the scan goes on; the game ends when a brick lands above the upper edge.
* Correct if: boxes are neither lost nor made, no brick leaves the field or destroys landed boxes, no full row
  stays, a brick lands in the end.

### f_game_2048 (`4.littlevgl/f_apps/f_game_2048`): modelled

* State: the board of exponents, the score, whether the game goes on.
* Operations: one gesture handler: turn the board, slide every column in place, turn it back, add a tile, test for
  the end of the game.
* Hard: `slide_array` works in place with a `stop` mark and a search loop without a bound; three of the four moves are
  turns of the fourth; the end is found with pairs in one direction and a single turn.
* Correct if: every move is what the rules of the game say, the score is what was merged, and the game
  ends exactly when no move changes the board.

### h264_play (`10.video/ssd20x_h264_play_test1`, `_test2`): the push threads modelled

* State: the position in the file, the frame buffer with its write pointer, whether the last NALU began a frame.
* Operations: `GetAnnexbNALU` reads the next NALU and rewinds the file at its end. test2 sends each NALU. test1
  collects the NALUs of a frame and sends them when the next frame begins. What the decoder refuses is to be sent again by
  seeking back.
* Interaction: the decoder (SDK) takes a stream into its queue or refuses after 20 ms.
* Hard: the retry, above all at the end of the file and with a frame half collected.
* Correct if: the decoder gets the NALUs in order, none twice, and frames as a whole.

### uart (`9.uart`): the receiving programs modelled

* State: the receive buffer; in test3 also how much is in it and how much may still be read; in test4 the flag set by the SIGIO handler.
* Operations: test2 reads and prints in a loop that never waits. test3's thread waits in `poll` for 500 ms and collects a line.
  test4 sleeps until SIGIO and then reads and prints once. All go through `uart_read_data`, which never waits (`VMIN` and `VTIME` are 0).
* Interaction: the tty queues bytes; SIGIO is delivered between any two steps of test4's loop.
* Hard: the handler runs between the check of the flag and the sleep; `remain_data_len` is 0 at first; lines come in pieces of any size.
* Correct if: what is printed is what arrived, in order and once; test3 prints at a newline, at a full buffer or after 500 ms; everything is printed in the end.

### general: the thread pool (`0.common/general/thread_pool.c`) modelled

* State: per slot (`FCThreadInfo`) a task, `inited` and `tdata`; in the pool a free list and two counters.
* Operations: `fc_thread_pool_run` takes a free slot and wakes its thread or creates one; `thread_entrance` waits, runs the
  task, puts its slot back, leaves when it has idled too long or the pool has ended.
* Interaction: every slot and the pool have a lock each; `dealing` is atomic; `tdata` and `*pcontinue_flag` have no lock.
* Hard: a thread that leaves meets a caller that fills its slot; `pthread_create` fails; the pool ends under callers.
* Correct if: a task that is accepted is called exactly once, one that is refused never; a slot is in one hand; the counters
  count; a callback gets the data of its own thread; as long as nobody ends the pool an accepted task is carried out.

### general: the locked timer (`0.common/general/locked_timer.c`) modelled

* State: per slot of the wheel a list, per entry its time, `rehash`, `slot_index` and `status`; `current_time`.
* Operations: any thread may add an entry, move it to another time or remove it; one thread calls `locked_timer_timeouts_get`,
  which goes round the wheel and hands over what has timed out.
* Interaction: a lock per slot for its list, a few shared locks for status and slot index. Status and slot are read under the
  latter and used under the former; `MOVING` makes others wait without a lock.
* Hard: an entry changes its slot between the two locks; a removal reaches the list the other thread walks over; two callers and
  the walk want the same entry; an entry is added while the clock passes its time.
* Correct if: an entry that was added times out once or is cleared, not both; it is in the list that `slot_index` says; it is
  neither more than a round late nor early, but for one race (see 4).

### f_tool_file_browser (`4.littlevgl/f_apps/f_tool_file_browser`): modelled

* State: `dir_path`, the rows, the list on the screen, and the current directory of the process.
* Operations: start, a click on `. .`, on a directory, on a file.
* Hard: four pieces of state that must agree when `chdir` or `opendir` fails; a path that is put together from the texts of buttons.
* Correct if: the path names the directory that is shown, the rows in memory are those on the screen, and a click opens what
  its button names.

### ai_ao_ini (`6.audio/ai_ao_ini`): the capture program modelled

* State: what of the SDK is on (device, channels, algorithms), the open files, a thread per channel, `bAiExit`, the sound mode for headers.
  The ini file chooses the algorithms. The number of channels (1), the sound mode (mono), the flag for a second file per channel (off) and the
  time after which SIGALRM comes (60 s) are constants of the program (l.178-208).
* Operations: `initAi` brings everything up with `goto` unwinding, `aiGetChnPortBuf` runs in each thread, SIGALRM or SIGINT
  sets `bAiExit`, main joins the threads and runs `deinitAi`.
* Hard: any call may fail, and three ways of dealing with it are mixed; the order down is not the order up reversed; the signal
  may come before there are threads; with more than one channel, which the code is written for, threads share one variable for the mode.
* Correct if: a thread only uses what is on and open; headers describe their files; things go off in order; the
  program ends after the signal.

### The others

| part | what it is | state and what could go wrong |
|---|---|---|
| player_app (`10.video/ssd20x_player_app`) | remote control of the closed program MyPlayer over two fifos | position in a dialogue with two timeouts; the player is started before its fifo exists, Ctrl-C may come at any point |
| wifi_demo1 | commands from stdin, blocking SDK calls | `g_is_connect` against what the driver did after the 20 tries |
| f_game_snake | a list of body parts moved every tick | 8-bit counters against the length of the list |
| alsa_playback_1, _2, mini_audio | one loop from a file to a library | the library's ring buffer |
| watchdog, gpio, pwm | one ioctl or one sysfs write per function | state is the kernel's |
| panel, framebuffer, mi_gfx, mi_disp, yuv_play, uuid, lv_apps | straight sequences of register writes, SDK calls or pixels | no control to speak of |
| 0.common: list, iniparser, the rest of general | third-party source | queues, memory pools, parsers; no demo links general |
| 0.common, the rest | headers and binaries | |

## 2. The modules

```
AsyncAnswers <--refined by-- WifiAsync   <-- MCWifiAsync, WifiAsyncProof
ByteStream   <--refined by-- UartReceive <-- UartReceiveProof
TaskPool     <--refined by-- ThreadPool  <-- MCThreadPool, ThreadPoolProof
TimedEntries <--refined by-- LockedTimer <-- MCLockedTimer, LockedTimerProof
Slide2048 <-- Game2048 <-- MCGame2048                Slide2048 <-- Slide2048Proof
Tetris <-- MCTetris         FileBrowser <-- MCFileBrowser
MCGame2048, Slide2048Proof, Tetris, FileBrowser <-- AppsProof
Mp3Player, VdecStream <-- PlayersProof               AudioIn <-- AudioInProof
```

Where one module proves something about several components it extends them all, so these have names of their own for the initial
predicate, the next-state action and the specification: `TInit`, `TNext` and `TSpec` in Tetris, `FInit` ... in FileBrowser, `VInit` ... in VdecStream.

**WifiAsync**: a critical section is one step, since no thread blocks while it holds the mutex. A turn of the main loop is a key (`NoKey`, `Key`, or
`KeyConnect`) and then `MastarRun`, which is `wifi_mastar_run`; between them `c` leads to `typing`, the two calls of `scanf`, which only the user's `Typed`
ends. `Issue(c)` queues a command. `OpenDevice`, `StateRun`, `PopCmd` and `ExecCmd` are
the segments of the worker between two unlocks. The SDK is nondeterminism: opening may fail, a connect may fail
or give any handle, a poll gives any status. A command is its number in the order of issue. The
variables `told`, `shown`, `opened` and `conn` are history. Memory is taken not to run out.

**AsyncAnswers** says what the interface promises, with no threads and lists: commands are asked in order, and
only the oldest that is owed an answer may be answered. `WifiAsync` implements it under the identity mapping of `asked`
and `told`, which the run checks (property `AnswersInOrder`) and a theorem proves.

**Mp3Player**: `pc` gives every thread's position, with one label per access to something shared. Thus
`StopCheck`, `StopClear`, `StopJoin`, `StopChannel`, `StopDevice` are the lines of `Mp3PlayStopDec`. A decoder that joins
itself, or a thread that somebody joined, gets an error as POSIX says and glibc does. Waiting
loops are stuttering. Samples are left out; a song is a number of frames.

**Tetris**: `Button` and `Tick` are the two entry points (LVGL runs both in one thread), each the whole handler.
A brick is its position, type and rotation; its boxes are decoded from the masks of `brick_table`, and the three
conflict tests from theirs. `map` is a set of cells. `LineClear` is the loop of `line_clear_check` as it runs, row by row from the top, in place: `ScanRow` is what happens at a
row, `CopyDown` the inner loop. It tests a row for `0x3FF`, which is a full row of a field ten wide; in the model a row is full when all
`MAP_WIDTH` boxes are there. `landed`, `lost` and `covered` are history: bricks landed, boxes cut off at the upper edge, and boxes Z was turned over.

**Slide2048** holds `slide_array` as a step operator and, next to it, `Slid`, the rules of the game as a definition.
**Game2048** composes it with the moves, the new tile and the end.

**VdecStream**: a NALU is its number in the file, and of its contents only the bit that begins a frame is kept.
Its initial states choose the program (`_bFrmMode`) and the file. `SendStream` is one iteration of the
thread's loop, `DecodeOne` the decoder taking something from its queue. `got` and `refused` are history. The frame
buffer counts NALUs instead of bytes, so the overflow of `MAX_ONE_FRM_SIZE` is not reached.

**UartReceive**: a byte is its number in the stream, and its kind (NUL, newline, other) is all that is known of it. The initial states
choose the program; its loop's steps are actions, cut where the port or a signal can come in between. `stray` is the byte at index -1 of test3's buffer, which
the program reads and never writes. `done` and `piece` are history: how much has been printed, and what the last `%s` showed.
A `%s` stops at the first zero byte. What lies behind a buffer that has no zero byte is left out.

**ByteStream** is what a program that prints a line promises: bytes are handed over in pieces that follow each other without gap
or overlap. The mapping is the identity of `arrived`, `done` and `piece`.

**ThreadPool**: a critical section is a step. Every wait in the code has a limit of two seconds, after which the
code looks again, so that a wait is no state and a signal no variable. `shared`, `live` and `ended` are history; `shared` are the slots for which a
new thread was created while the last one had not left yet.

**TaskPool** is a task's life as a caller sees it: new, then accepted or rejected, then started, then ended, with at most `Limit` under way.
The mapping reads a task's state from where its call is and which thread has it.

**LockedTimer**: the sections under an entry's lock are steps, and so are a caller's under a slot's. The thread in `timeouts_get` holds the
slot's lock as long as it walks, in steps of its own (`Lock` to `Unlock`), and callers that need this slot wait (`Free`). What a caller has read, the
slot above all, is in its record in `user`, so that it can be out of date when it is used. The walk's reads of an entry are steps: its time (l.307), whether it
is to be moved (l.308), and where to (l.309, the time again, or the value kept from l.307). The two writes of `locked_timer_modify` are two steps (`SetRehash`,
`SetLater`), for with a slot that is out of date its lock is not the one the walk holds. The caller's own reads of `expires` (l.243) and `current_time` (l.226)
with no lock are one read each: where the code reads twice, the second read gives nothing that a later first one would not have given. Times are seconds since `base_time`, up to `MaxTime`. As the comment
at l.145 says ("init the entry on the first call"), nobody else has a call for an entry while it is being added. An entry that has timed
out is added again only when the call that hands it over has returned. `since` and `wrongLock` are history: when an entry's time was last entered,
and whether a modify that held the lock of another slot entered it after the timer had last read it.

**TimedEntries** is what a user of a timer relies on: off, armed, due, and handed over. The mapping reads it from the status and the chain.

**FileBrowser**: a path is a sequence of names, each with or without a `/` behind it, as `ls` puts one behind directories only. Two
names that have become one are taken to name nothing. `Arrive` and `Stay` are what a click does when `chdir` works and when it does not.
`upFailed` and `result` are history and let the properties name their exceptions.

**AudioIn**: main is a program counter with a loop index, one step per SDK call that can fail, with each call's own way of failing. The ini file's choice of
algorithms is an initial state. So are the sound mode and the flag for a second file, and the number of channels is a parameter: these are constants of the program, and the code is
written for all their values. `pthread_create` may fail, too, which nobody looks at; the thread is then joined by an identifier that is zero, which is an error or the end of
the process (`JoinKills`). `failed` is history: which calls have failed. A second output file per channel appears as the mode it sets.

Operators marked "Mutant" stand before the definition they are a broken form of. No specification uses them.

## 3. The runs

| run | bounds | states | shows |
|---|---|---|---|
| wifi_async | 4 commands, 1 handle, 2 statuses, status changes while < 3 callbacks wait | 48 718 | `InOnePlace` `AnswersInOrder` `OpenFirst` `NoStaleStatus` `StatusChanges`; live: `Answered` `StatusShown` |
| mp3_player | 3 songs of 2 frames | 155 129 | `StopIsQuiet` `DeviceKept` `OneDecoder`; live: `QuitReturns` `SongEnds` |
| tetris_moves | 4x3, all seven types, 2 bricks | 102 830 | `DrawnFree` `BoxesConserved`; live: `BrickLands` |
| game_2048 | 2x2 board, whole games; lines of 4 cells with tiles up to 16 | 4 560 | `OverIffStuck` `MovesByRules` `SlideByRules` |
| vdec_stream | files of 2 to 4 NALUs, queue of 2, frames of up to 4 NALUs when refused | 4 050 | `SliceOrder` `FrameWhole`; live: `Replays` |
| vdec_frame_once | same | | violated, see 4 |
| uart_receive | 4 bytes, buffer of 3 and one for zero, every program | 48 316 | `PrintsStream`; live: `PrintedInTheEnd` |
| uart_asleep | same | | violated, see 4 |
| thread_pool | 3 tasks, 2 slots, 3 threads, at least 1 idle | 362 234 | `SlotInOneHand` `CountsRight` `DataIsOwn` `RunsTasksOnce`; live: `AcceptedEnds` |
| locked_timer | 1 entry, 2 callers, 2 slots, times up to 3 | 415 756 | `InItsSlot` `OneOwner` `WalkIsSafe` `InTime` `TimesOutOnce`; live: `MovingEnds` |
| file_browser | 7 directories, 2 links, started in two of them | 1 547 | `ShownAgrees` `OpensWhatIsNamed` |
| audio_in | 2 channels, 2 frames per file, 4 choices of algorithms | 14 579 | `CaptureIsOpen` `HeadersTell` `OffInOrder`; live: `EndsAfterSignal` |

Why the bounds are enough:

* wifi: what goes wrong between two commands takes two (a connect, a disconnect), the others are there to be
  overtaken. Theorems show the safety properties for any number. With two statuses the worker's cache can be ahead of the main thread by
  more than one change. `MaxCb` only keeps the list finite.
* mp3: main.c plays one song, and the module is written to be called again: three songs are the first for which a decoder can join
  one that is not its own while a third starts. `StopIsQuiet`, `DeviceKept` and `SongEnds`
  are stated for the first song: with a second, a decoder that stops by itself may clear the
  flag and join or silence the next one. Theorems show the safety properties for any number of songs of any length. A fourth song adds nothing to `OneDecoder` (2 million states, checked once).
* tetris: the field is as small as allows a brick to be blocked from each side, and two rows to fall at once (two O). All types of brick take part. Two bricks are
  enough for one to meet what the other has left, and for Z to be turned over it. Nothing in the code depends on the size but the loops and the literal `0x3FF`. The theorems cover any size and any
  number of bricks.
* 2048: four cells are the real line. Tiles up to 16 give every pattern of equal neighbours. A 2x2 board has
  finitely many games; `MaxWeight` cuts none of them off.
* vdec: four NALUs hold two frames of two slices, one of three and one more. The theorems cover any file.
* uart: four bytes fill the buffer once and begin again; of the bytes only newline and NUL are told apart. The theorems cover any
  buffer and stream.
* thread_pool: with three tasks one has to wait for a slot; with three threads one can be created for a slot whose last one has not left.
  Theorems show the safety properties, and the refinement, for any number of each.
* locked_timer: two callers and the walk are all that can meet at one entry, and it takes two slots to be in the wrong one and three ticks to come
  round to the first. With one entry the walk has nothing to remember but the entry it is coming to; with two entries and one caller, `WalkIsSafe` was
  checked once (731 282 states). Theorems show the safety properties, and the refinement, for any number of each and any times.
* file_browser: names occur in several directories, so that a wrong path can lead somewhere; paths grow through two links, and a path through a link cannot be followed further,
  so that there are finitely many. The theorems cover any tree.
* audio_in: with two channels one thread can be done, or fail to be enabled, before the other. The choices of algorithms are none, the beam
  former alone (for the second file), the event detector (which takes the place of writing), and three in the order that matters. The theorems cover any number of channels and any `Choices`.

`CHECK_DEADLOCK FALSE` stands where the program may come to rest: wifi when the user types nothing more, mp3 after exit, the
games when they are over, uart when no more bytes come, the pool when its tasks are done, the timer when `MaxTime` has come, a browser with an empty list at `/`, capture after it has
ended. `VdecStream` never stops, and deadlock is checked.

Fairness, and why the code justifies it:

* wifi: weak fairness of the main thread's turns (`MainTurn`) and of `Worker`. Both threads loop for ever with short sleeps and never wait for
  each other; the SDK calls return. The user is not fair: no key need come, and after `c` the main thread waits in `scanf` as long as the user does not type (`Typed` has no
  fairness). While it waits nothing is delivered, perhaps for ever. `Answered` and `StatusShown` therefore have a premise, `UserTypes`: again and again the main thread is not in `scanf`.
* mp3: weak fairness of each thread, since the scheduler runs them all, and of the AO draining while its channel is on. A
  query loop on a device that was not set up may wait for ever, and is left unfair.
* tetris: weak fairness of `Tick`, which LVGL's timer calls as long as it is alive.
* vdec: weak fairness of the thread's loop, which never waits longer than 30 ms, and of the decoder, which decodes what
  it has. Whether the decoder has room when the thread comes is not assumed.
* uart: weak fairness of the program's next step and of the handler. The scheduler runs the program, `poll` times out, and the kernel
  delivers a pending signal. That bytes arrive is not assumed, and asleep the program has no step.
* thread_pool: weak fairness of every thread. They are scheduled, their waits end after two seconds, and callbacks return. Callers are not fair.
* locked_timer: weak fairness of the walk and of every caller that has begun, and strong fairness of getting the slot's lock: the walk gives it back after every
  slot, and a lock that is free again and again is got by who waits for it. The same holds for the walk when it waits for the lock of a slot (`Lock`, `Relink`). Who calls what, and when, is not fair.
* audio_in: weak fairness of main, of every thread and of the signal: the SDK answers (frames or errors; `MI_AI_GetFrame` is called without a
  limit, so that a device that is silent for ever would hold its thread), and the timer of `setTimer` expires after the 60 seconds of
  `u32RunTime` (l.208), which nothing sets to 0.

## 4. What disagrees with the code's own words

* **vdec_frame_once**: `ssd20x_h264_play_test1/main.c:215` says that the file pointer goes back when a send failed. It does, but `stVdecStream`
  still points to the frame buffer, which l.375 then appends to itself: the retry sends the frame doubled, and the buffer
  doubles with every refusal.
* **uart_asleep**: `uart_test4_signal/main.c:52` says that an interrupt wakes the endless sleep. A SIGIO that comes between FASYNC (l.47) and the
  first `sleep(-1)` sets the flag, and the sleep that follows goes on until more bytes come. This is the trace that TLC shows, being the shortest. In later turns of the loop the same window is
  between the test that found the flag 0 (l.53), or the clearing of l.63, and the next sleep.

Seen while modelling, and not given a run:

* wifi: `wifi_config.c:203` says of `wifi_scan` that the main thread is notified when the scan is done. When the
  device cannot be opened, the worker returns (l.97-102), but scans go on being queued and nobody answers them: `Answered` holds for commands while the worker lives.
* wifi: `5.wifi/README.md:29` says that the worker reports the configuration back through a
  callback. `wifi_connect` has none of its own and relies on a change of status, compared with a static cache that survives the
  disconnect (l.182-201): a second connect that ends in the status the first one had is never reported.
* mp3: two songs can play at once when `mp3_codec` is called for a third while the first ends. The first one's decoder clears the flag, reads
  `tid_playmp3` when it is the second's, and joins it; the caller's own join of the second then fails at once. `OneDecoder` names exactly this exception.
* uart: test4 can also lose what came before FASYNC was set, or between its read and `flag = 0`; `PrintedInTheEnd` promises only what is left. test3 prints nothing
  and makes no progress if the byte before its buffer is a newline, for its first read asks for 0 bytes and looks at that byte (l.57, 68).
* thread_pool: a slot whose `pthread_create` failed is lost, with its task still in it. A thread created for a slot whose last one is still leaving
  may have its data freed by that one (`shared` in `DataIsOwn`). Accepted tasks are dropped when the pool ends.
* file_browser: a failed way up leaves the path a level too high; a directory entered through a link is shown with a path that lacks its `/`, so nothing in it can be
  opened. A file name without a `.` reads at address 1 (l.69).
* audio_in: a channel that cannot be enabled leaves those before it on, for nothing jumps to `DISABLE_CHANNEL`; the resampler stays on when the encoder, turned off first,
  had failed to come on; a failed algorithm is not noticed by `initAi`; a `pthread_create` that fails is not noticed either
  (l.710). Were there several channels and second files, the mode in one thread's header could be the one another has set for its second file.
* locked_timer: an entry may time out early. `locked_timer_modify` reads the slot (l.244) before it locks it (l.248). When the timer moves the entry in
  between, modify enters the later time under the lock of the old slot and answers 0, while the walk over the new one, which has compared the old time (l.307), times the
  entry out as "expired" (l.329). `wrongLock` records such a modify, and `InTime` says that nothing else is timed out early. Nor does the answer 0 tell that the entry had not timed out already in between.
* tetris: `tetris_logic.c:171-173` says that whoever draws has tested for conflicts. The rotation mask
  of the Z brick in its third position (0xEE80, l.54) does not cover all boxes of what it turns into (0x0C60, l.43): Z may be
  turned over a landed box, which the next move erases with the brick. It is the only pattern with such a gap (`MasksCover` in MCTetris, which TLC evaluates). Z is in the
  run and in the theorems: `DrawnFree` names this turn and this one box (`ZTurn`, `Untested`) as its exception, and `BoxesConserved` counts the boxes lost by it in `covered`.
* tetris: a J brick in its second position that lands just below the upper edge ends the game although it is all inside (`tetris_logic.c:396-398`).
* vdec: the last NALU of a file is not sent again when it is refused, because the file has been rewound by then; `SliceOrder` says exactly this much.
  That NALU has no start code behind it either, so whether it begins a frame is taken from the one before (`Begins` in `FrameWhole`).

## 5. What is proved

The theorems hold for every value of the constants that the modules' assumptions allow: `WifiAssumption`, `VdecAssumption`,
`UartAssumption`, `Mp3Assumption`, `AudioAssumption`, `TimerAssumption`, `PoolAssumption`, `SizeAssumption`, `WeightAssumption` and `TetrisAssumption` give
the ranges of the bounds, `BrowserAssumption` and `StartsAssumption` what a tree of directories and the path it starts in are, others say
of handles what `mi_wlan.h` does, and that there are finitely many threads. Each follows from an inductive invariant, which was
model-checked on the run's instance (or a larger one) before it was proved. Where a property is not inductive by itself,
the reason is given here.

`WifiAsyncProof`, for any number of commands, any handles and statuses and any length of the lists:

* `TypeCorrect`: `[]TypeOK`.
* `OrderCorrect`: `[]OrderInv`, the inductive invariant. `InOnePlace` by itself does not say that
  the worker takes the oldest command, nor that the answers in the list are in order. `ListInv` says that the commands not taken yet
  are the last ones issued and that the one in the worker's hands is just before them. `AnswerInv` says that all earlier
  ones with a callback are in the callback list or answered, with numbers that grow from the answered ones through the list.
* `InOnePlaceCorrect` and `AnswersInOrderCorrect` follow from it: the position of a command tells where it is, and the head of the callback list is the
  oldest one that is owed an answer, so that `MastarRun` implements `Answer` of `AsyncAnswers` and every other step stutters or is an `Ask`.

The second part of the module is about what the callback list holds between the worker and the main thread:

* `OpenFirstCorrect`: until the open callback has run it is the head of the list (`OpenInv`).
* `StatusChangesCorrect`: along the list each status differs from the one before, the last being the worker's cached one (`StatusInv`).
* `NoStaleStatusCorrect`: the connect whose number a status carries is younger than every disconnect done before it. `StationInv` says so of
  the station, of the statuses in the list against the disconnects before them in it, and of those against the ones answered. It needs `OrderInv`.

`ThreadPoolProof`, for any number of slots, threads and tasks. `PoolInv` has five parts. A slot has one owner at most, and `inited` tells whether
it has one except just after a creation (`OwnerInv`). A slot is in the free list, held by a caller or busy unless a task lies in it, and there only once (`HandInv`). A
task that was accepted lies in its caller's slot, or its slot's thread has it, or it has ended (`TaskInv`). A slot that was never shared has one thread,
whose data it points to (`DataInv`). The fifth is `CountsRight`.

* `SlotInOneHandCorrect`, `CountsRightCorrect`, `DataIsOwnCorrect`.
* `RunsTasksOnceCorrect`: the pool implements `TaskPool`. Popping a slot, waiting, idling out and leaving are stutters. That no more than `Limit`
  tasks are under way holds because they map to slots one to one, and the slot of the thread that starts the next is not among them.

`LockedTimerProof`, for any number of entries, callers and slots and any times. Who owns an entry does not depend on where it is linked: `CallInv` says
what status the entry of every call has, according to where that call is, and `StatusInv` that `MOVING` has an owner and that the chain holds what has timed out
(`OwnerInv`).

* `OneOwnerCorrect`: one of all those who want an entry has it.
* `TimesOutOnceCorrect`: the timer implements `TimedEntries`. Only setting the status for a new entry, clearing, timing out and returning
  are steps of it; moving an entry, by whomever, stutters.

The rest needs the lists. `WheelInv` adds to `OwnerInv` where every entry is linked (`WhereInv`), that the slot a call holds after reading it is still that of its
entry (`CallSlotInv`), that no modify holds the lock of the slot that is walked over (`LockInv`), that the entries the walk has left
are the end of its list, in the slot of the second before `now` (`WalkInv`), and that
an entry's slot has not been passed since it was due, as far as the walk has got (`TimeInv`). No part is inductive alone: an entry is unlinked from the list it is in only
because its slot is the one the caller read, and it stays that one because the caller owns it.

* `InItsSlotCorrect`, `WalkIsSafeCorrect`.
* `InTimeCorrect`: of any round of consecutive seconds one has the slot of a given entry (`Hits`, from `Division`), so that an entry that
  were a round late would have been passed. An entry that is being timed out was due when the timer read it, and only a modify can have changed its time since: one with the
  right slot waits for the walk's lock, so it was one that held another (`wrongLock`).

`UartReceiveProof`, of UartReceive, for buffers of any size and any stream:

* `TypeCorrect`: above all, `total_data_len` never passes the buffer's end.
* `BufferCorrect`: `[]BufferIsPending`, the buffer holds exactly what was read and not yet printed, and is clear behind it; the invariant the next one needs.
* `StreamCorrect`: the three programs implement `ByteStream`: no byte twice, none left out. It needs the invariant, for a program prints what is in its buffer.

`PlayersProof`, of Mp3Player, for any number of songs of any length: `TypeCorrect`, `OneDecoderCorrect`, `StopIsQuietCorrect`, `DeviceKeptCorrect`.
`PlayInv` follows the decoders in the order of their creation. As long as no decoder up to the d-th was joined by a decoder, each is
past its own look at the flag when the next one is created: either the caller joined it, or the caller found the flag cleared, which only this
decoder can have done. So only the last can decode. For the first song the premise always holds.

The second part of `PlayersProof` is about VdecStream, for files of any length, any queue and any frame buffer:

* `VdecTypeCorrect`: `[]TypeOK`.
* `SliceOrderCorrect`: NALU by NALU the decoder gets the file in order. The invariant `SliceInv` relates the file
  pointer to the NALU accepted last, with the refused last NALU as its one exception.
* `FrameWholeCorrect`: until something is refused, the decoder gets whole frames in order. The invariant `FrameInv` says
  that the frame buffer holds the NALUs between the last accepted one and the pointer, that only its first one begins a
  frame, and that the bit kept from the NALU before is the right one when the file's last NALU is read.

`AudioInProof`, of AudioIn, for any number of channels and frames and any choice of algorithms:

* `CaptureIsOpenCorrect`: `CaptureInv` says how far main has come, hence what is open and on, and which threads have begun and ended; a thread is
  running only between the last step of the bring-up and the first of the way down.
* `HeadersTellCorrect`, for every thread that could be created: `HeaderInv` says what a thread that has written its header leaves in the files, and that the shared mode is `stereo` only after some
  thread has set it for its second file, which it does last.
* `OffInOrderCorrect`: `AlgInv` says that what is on was turned on in order, and that something wanted and not on means that `audio_ai_par_set` has
  failed. So the loop over the other order can fail at something that is off only with nothing on behind it but the resampler. `DeviceInv` says the same of channels and device.

`Slide2048Proof`, for lines of two to four cells (`SizeAssumption`) with any tiles:

* `SlidesRight`: `slide_array` ends with `Slid` of the line, `success` tells whether it changed, `score` is what the merges were worth. The rules
  merge neighbours in pairs from the front of the whole line; the loop adds one tile after the other behind what the others have become. `MergedMore` is that both are the
  same: a tile added behind merges with the last one unless that has been merged by the tile before. The loop's invariant `Going` says that the line
  is the merged tiles, a gap and the cells not yet looked at, and that `stop` is behind the last tile just when this has been merged.
* `SlidesLoose`: a line stays as it is exactly when no tile has an empty cell or its equal before it.

`AppsProof`, of Game2048, for boards of two to four cells a side with any tiles, and no bound on the score:

* `MovesByRulesCorrect`: the turns are followed cell by cell, so that a move slides the lines seen from its edge (`TurnedLines`) and turns them back (`TurnedBack`), and
  the sum over the board is the same after a turn (`TotalRotated`).
* `OverIffStuckCorrect`: `BoardInv` says that `play_game` tells of this very board, which is never empty, whether the game has ended; for any board with a tile on it that
  is so when no line would slide (`StuckIsEnded`). On an empty board it would be false.
* `SlideByRulesCorrect`: `SlidesRight` for the instance of four cells that MCGame2048 checks.

The second part is about Tetris, for a field four to sixteen boxes wide and any height, and any bricks:

* `BoxesConservedCorrect` and `DrawnFreeCorrect`. The tables come first: every pattern has four boxes, and the mask of a rotation covers what it leads to, but for the third
  of Z, which leaves out a box that the brick is on already and one other. Then the rows: the copies that overwrite one row after another move what is above a full row
  down by one (`RowGoes`), so that this row alone goes, and no row that the scan has passed is full. `TetrisInv` then says that the brick is inside and on
  no box that has landed, that what has landed is on the field, and `BoxesConserved`.
* `BoxesConserved` is true with Z because `covered` counts each box that it is turned over, and `DrawnFree` because that turn changes what has landed by this box alone.

The third is about FileBrowser, for every tree of directories and links and whichever calls fail:

* `ShownAgreesCorrect`, which is inductive as it stands. Nothing is used of how paths are followed: it is the order of the assignments that keeps path, directory,
  rows and list together.
* `OpensWhatIsNamedCorrect`, from `BrowserInv`: besides, when the directory of a button was not found, the path has no `/` at its end. Here it matters where paths lead: `Reach`
  is a recursive function, which has a value for every path (`ReachExists`) and leads from a directory to what its last name says there.

Where a recursive definition is proved about (`Reach`, `Sliding`, `TilesTo`, `MergedFrom`), it is a recursive function. That it has a value everywhere, and the inductions over it, follow
from the least element of a set of naturals (`Least`), since the induction theorems of the library take an operator as a parameter.

Only model-checked: the liveness properties, since fairness and `ENABLED` are out of the prover's reach. Every invariant and every action property of the passing runs
is a theorem.

## 6. What is not modelled

The table in 1 lists the parts without a module, and `PROJECT.json` says why for each.

Most lines of the tree are not the repository's own: `miniaudio.h` alone has 70 000, followed by the headers of sqlite, freetype, libevent and the
SDK and the sources of libfastcommon. The models cover the programs whose control is worth it, and of the vendored code the two parts with
most interleavings that a user of it relies on.

Of the programs that are modelled these parts are left out:

* everywhere: formatting, drawing, logging, the samples of sound and pictures, allocations that fail, what the SDK does inside.
* h264_play: the reordering, dropping and sleeping modes, which no call in the program turns on (`ST_TestCase` is compiled out), H.265 headers, and
  set-up and teardown of decoder, display and panel.
* uart: setting up the port (termios), test1, the loop of test2 without the library: one read after the other, printed.
* ai_ao_ini: the playback program, which is built like the capture program with one channel, and reading the ini files into parameters.
* f_tool_file_browser: the fixed sizes of path and name buffers, suffixes.
* general: everything but the thread pool and the locked timer; of the timer, destroying it and timers that share no lock index.

Whole programs that are left out although they have some control:

* player_app is a dialogue with MyPlayer, a closed program. What it writes, and when, would be assumed, and the properties would be about the assumption.
* wifi_demo1 and f_game_snake are single loops; their states are the driver's, or a list that is moved over a screen.

## 7. Plan

Done, in this order: WifiAsync with AsyncAnswers and its proof; Mp3Player; Tetris; Slide2048 and Game2048; VdecStream and its
proof; UartReceive with ByteStream and its proof; ThreadPool with TaskPool; FileBrowser; AudioIn; LockedTimer with TimedEntries and its proof; the proofs of FileBrowser, AudioIn, Mp3Player, of the
statuses of WifiAsync, and of ThreadPool; the wheel of LockedTimer, Tetris, and 2048.

What could follow:

1. More of libfastcommon: `common_blocked_queue.c` (what a terminating queue does to those who wait), `sched_thread.c` (entries that are added and
   deleted while it runs).
2. `ao_test_main.c`, the playback side of ai_ao_ini, as a second instance of what AudioIn models.
3. player_app with a MyPlayer that does anything. Question: is it told to exit on every path that leaves it running?
4. Snake: the list of body parts against a sequence of positions.

Theorems: the safety half of the liveness properties, where there is one (that some step stays possible until the awaited one is taken, stated
without `ENABLED`).
