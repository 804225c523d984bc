------------------------------- MODULE AudioIn -------------------------------
(***************************************************************************)
(* 6.audio/ai_ao_ini, ai_test_main.c with audio_par/audio_ai_par.c: main   *)
(* brings the capture device up, a thread per channel writes its frames to *)
(* a WAV file until a signal ends it, and main takes the device down.      *)
(*                                                                         *)
(* Any call of the SDK may fail.  What a failing call is answered with     *)
(* differs: ExecFunc returns at once, ExecFuncNoExit goes to a label, and  *)
(* the results of the ini file's part, audio_ai_par_set, and of            *)
(* pthread_create are not looked at.                                       *)
(*                                                                         *)
(* The ini file chooses the algorithms.  The number of channels, the sound *)
(* mode and the flag for a second file are constants of the program        *)
(* (l.178-204: one channel, mono, no second file); the code is written for *)
(* all their values, and so is this module.                                *)
(***************************************************************************)
EXTENDS Integers, FiniteSets, Sequences

CONSTANTS
  Channels,   \* u32AiChnCnt (l.178)
  Choices,    \* the sets of algorithms that an ini file may enable
  MaxFrames   \* bound: the frames in a file

ASSUME AudioAssumption ==
  /\ Channels \in Nat \ {0} /\ MaxFrames \in Nat
  /\ Choices \subseteq SUBSET {"aed", "ssl", "bf", "vqe", "resample", "aenc"}

Chns == 0..Channels - 1

VARIABLES
  queue,    \* eAiSoundMode (l.184) is QUEUE: one thread for all channels
  dump,     \* bAiDumpPcmData (l.204) with a beam former: a second file per channel
  wanted,   \* the algorithms that the ini file enables, for channel 0
  pc, k,    \* main: where it is, and the index of its loop
  files,    \* the channels whose WAV file is open
  device,   \* the device is enabled
  chnOn,    \* the channels that are
  algs,     \* the algorithms that are
  node,     \* audio_ai_par.c has the settings of channel 0 in its list
  thread,   \* the threads
  bAiExit,
  mode,     \* eAiWavSoundMode
  size,     \* the frames in each file
  head,     \* what the file's header says of the frames and the sound mode
  failed    \* history: the calls that have failed

main == <<pc, k>>
settings == <<queue, dump, wanted>>
sdk == <<device, chnOn, algs>>
captured == <<mode, size, head>>
vars == <<settings, main, files, sdk, node, thread, bAiExit, captured, failed>>

-----------------------------------------------------------------------------
\* The threads that initAi starts and main joins.
Threads == IF queue THEN {0} ELSE Chns
Last(c) == c = Cardinality(Threads) - 1

\* The files that a thread writes.
FilesOf(c) == IF queue THEN Chns ELSE {c}

SetOrder == <<"aed", "ssl", "bf", "vqe", "resample", "aenc">>
\* Mutant: the order of the calls above.
CloseOrderOfSet == <<"aed", "ssl", "vqe", "aenc", "resample", "bf">>
CloseOrder == <<"aed", "ssl", "bf", "vqe", "aenc", "resample">>

\* Where a loop over an order goes from step i: the next algorithm that the
\* ini file enables, or the end.
NextIn(order, i) ==
  CHOOSE j \in i..7 : /\ j = 7 \/ order[j] \in wanted
                      /\ \A l \in i..j - 1 : order[l] \notin wanted

Idle == [frames |-> 0, mode |-> "none"]

\* The constants of the program, and main up to initAi: MI_SYS_Init and
\* initParam, which reads the ini file and arms the timer.
Init ==
  /\ queue \in BOOLEAN
  /\ wanted \in Choices
  /\ dump \in IF "bf" \in wanted THEN BOOLEAN ELSE {FALSE}
  /\ pc = "files" /\ k = 0
  /\ files = {}
  /\ device = FALSE /\ chnOn = {} /\ algs = {}
  /\ node = TRUE
  /\ thread = [c \in Chns |-> "none"]
  /\ bAiExit = FALSE
  /\ mode \in IF queue \/ "bf" \in wanted THEN {"mono"} ELSE {"mono", "stereo"}
  /\ size = [c \in Chns |-> 0]
  /\ head = [c \in Chns |-> Idle]
  /\ failed = {}

Goto(p, i) == pc' = p /\ k' = i

\* A call has failed, and main goes to p.
Fail(call, p, i) == failed' = failed \cup {call} /\ Goto(p, i)
Pass(p, i) == UNCHANGED failed /\ Goto(p, i)

-----------------------------------------------------------------------------
(* initAi *)

\* An output file is opened and room made for its header.  A failure leaves
\* the function with the files it has opened.
OpenFile ==
  /\ pc = "files"
  /\ \/ /\ files' = files \cup {k}
        /\ IF k = Channels - 1 THEN Pass("enable", 0) ELSE Pass("files", k + 1)
     \/ files' \in {files, files \cup {k}} /\ Fail("file", "exit", 0)
  /\ UNCHANGED <<settings, sdk, node, thread, bAiExit, captured>>

\* MI_AI_SetPubAttr, GetPubAttr and Enable.
EnableDevice ==
  /\ pc = "enable"
  /\ \/ device' = TRUE /\ Pass("tune", 0)
     \/ UNCHANGED device /\ Fail("device", "exit", 0)
  /\ UNCHANGED <<settings, files, chnOn, algs, node, thread, bAiExit, captured>>

\* The volume and the depth of the output ports, by ExecFunc.
Tune ==
  /\ pc = "tune"
  /\ Pass("chn", 0) \/ Fail("tune", "exit", 0)
  /\ UNCHANGED <<settings, files, sdk, node, thread, bAiExit, captured>>

EnableChn ==
  /\ pc = "chn"
  /\ \/ /\ chnOn' = chnOn \cup {k}
        /\ IF Last(k) THEN Pass("set", NextIn(SetOrder, 1)) ELSE Pass("chn", k + 1)
     \/ UNCHANGED chnOn /\ Fail("chn", "unwind", 0)
  /\ UNCHANGED <<settings, files, device, algs, node, thread, bAiExit, captured>>

\* DISABLE_DEVICE, which leaves out the channels: nothing jumps to the label
\* DISABLE_CHANNEL.
Unwind ==
  /\ pc = "unwind"
  /\ \/ device' = FALSE /\ Pass("exit", 0)
     \/ UNCHANGED device /\ Fail("unwind", "exit", 0)
  /\ UNCHANGED <<settings, files, chnOn, algs, node, thread, bAiExit, captured>>

\* audio_ai_par_set for channel 0, the only one with settings: the first call
\* that fails ends it.
SetAlg ==
  /\ pc = "set"
  /\ IF k = 7 THEN UNCHANGED algs /\ Pass("spawn", 0)
     ELSE \/ algs' = algs \cup {SetOrder[k]} /\ Pass("set", NextIn(SetOrder, k + 1))
          \/ UNCHANGED algs /\ Fail("set", "spawn", 0)
  /\ UNCHANGED <<settings, files, device, chnOn, node, thread, bAiExit, captured>>

\* pthread_create, for one channel after the other, whether it fails or not.
Spawn ==
  /\ pc = "spawn"
  /\ \/ thread' = [thread EXCEPT ![k] = "test"] /\ UNCHANGED failed
     \/ UNCHANGED thread /\ failed' = failed \cup {"thread"}
  /\ IF Last(k) THEN Goto("join", 0) ELSE Goto("spawn", k + 1)
  /\ UNCHANGED <<settings, files, sdk, node, bAiExit, captured>>

-----------------------------------------------------------------------------
(* main after initAi, and deinitAi *)

\* Mutant: the first thread is the only one that is waited for.
JoinFirst ==
  /\ pc = "join"
  /\ thread[0] \in {"done", "none"}
  /\ Pass("close", NextIn(CloseOrder, 1))
  /\ UNCHANGED <<settings, files, sdk, node, thread, bAiExit, captured>>

\* A thread that was not created is joined by its zero tid: an error, or the
\* end of the process.
Join ==
  /\ pc = "join"
  /\ thread[k] \in {"done", "none"}
  /\ IF Last(k) THEN Pass("close", NextIn(CloseOrder, 1)) ELSE Pass("join", k + 1)
  /\ UNCHANGED <<settings, files, sdk, node, thread, bAiExit, captured>>

JoinKills ==
  /\ pc = "join"
  /\ thread[k] = "none"
  /\ Pass("killed", 0)
  /\ UNCHANGED <<settings, files, sdk, node, thread, bAiExit, captured>>

\* audio_ai_par_close for channel 0: it disables what the settings enable, and
\* whether that fails for an algorithm that is not on is up to the SDK.  The
\* first failure ends it, with the node still in the list.
CloseAlg ==
  /\ pc = "close"
  /\ IF k = 7 THEN node' = FALSE /\ UNCHANGED algs /\ Pass("off", 0)
     ELSE /\ UNCHANGED node
          /\ \/ algs' = algs \ {CloseOrder[k]} /\ Pass("close", NextIn(CloseOrder, k + 1))
             \/ UNCHANGED algs
                /\ Fail(IF CloseOrder[k] \in algs THEN "close" ELSE "closeOff", "off", 0)
  /\ UNCHANGED <<settings, files, device, chnOn, thread, bAiExit, captured>>

DisableChn ==
  /\ pc = "off"
  /\ \/ /\ chnOn' = chnOn \ {k}
        /\ IF Last(k) THEN Pass("down", 0) ELSE Pass("off", k + 1)
     \/ UNCHANGED chnOn /\ Fail("off", "exit", 0)
  /\ UNCHANGED <<settings, files, device, algs, node, thread, bAiExit, captured>>

\* MI_AI_Disable and MI_SYS_Exit.
DisableDevice ==
  /\ pc = "down"
  /\ \/ device' = FALSE /\ Pass("done", 0)
     \/ UNCHANGED device /\ Fail("down", "exit", 0)
  /\ UNCHANGED <<settings, files, chnOn, algs, node, thread, bAiExit, captured>>

-----------------------------------------------------------------------------
(* aiGetChnPortBuf, and the signals *)

At(c, from, to) == thread[c] = from /\ thread' = [thread EXCEPT ![c] = to]

\* Mutant: a frame is waited for before the flag is looked at, forever.
TestNever(c) ==
  /\ At(c, "test", "frame")
  /\ UNCHANGED <<settings, main, files, sdk, node, bAiExit, captured, failed>>

Test(c) ==
  /\ At(c, "test", IF bAiExit THEN "head" ELSE "frame")
  /\ UNCHANGED <<settings, main, files, sdk, node, bAiExit, captured, failed>>

\* MI_AI_GetFrame waits without limit.  With the event detector on, its
\* result is printed, and only in queue mode the frame is written as well.
GetFrame(c) ==
  /\ At(c, "frame", "test")
  /\ \/ UNCHANGED size
     \/ /\ c \in chnOn /\ size[c] < MaxFrames
        /\ queue \/ "aed" \notin wanted
        /\ size' = [d \in Chns |-> IF d \in FilesOf(c) THEN size[d] + 1 ELSE size[d]]
  /\ UNCHANGED <<settings, main, files, sdk, node, bAiExit, mode, head, failed>>

\* Mutant: in queue mode a file is left as it is.
WriteHeadOwn(c) ==
  /\ At(c, "head", IF dump THEN "pcm" ELSE "done")
  /\ head' = [head EXCEPT ![c] = [frames |-> size[c], mode |-> mode]]
  /\ files' = files \ {c}
  /\ UNCHANGED <<settings, main, sdk, node, bAiExit, mode, size, failed>>

\* The header is written over the room made for it, and the file closed.  The
\* length is that which this thread has counted.
WriteHead(c) ==
  /\ At(c, "head", IF dump THEN "pcm" ELSE "done")
  /\ head' = [d \in Chns |-> IF d \in FilesOf(c)
                             THEN [frames |-> size[c], mode |-> mode] ELSE head[d]]
  /\ files' = files \ FilesOf(c)
  /\ UNCHANGED <<settings, main, sdk, node, bAiExit, mode, size, failed>>

\* The second file's header: the global sound mode is set for it.
WritePcmHead(c) ==
  /\ At(c, "pcm", "done")
  /\ mode' = "stereo"
  /\ UNCHANGED <<settings, main, files, sdk, node, bAiExit, size, head, failed>>

\* main has returned, or the process been killed: its threads end with it.
Ended == pc \in {"done", "exit", "killed"}

\* signalHandler: SIGALRM of the timer, or SIGINT, from initParam on.
Signal ==
  /\ ~Ended
  /\ bAiExit' = TRUE
  /\ UNCHANGED <<settings, main, files, sdk, node, thread, captured, failed>>

Main ==
  \/ OpenFile \/ EnableDevice \/ Tune \/ EnableChn \/ Unwind \/ SetAlg \/ Spawn
  \/ Join \/ JoinKills \/ CloseAlg \/ DisableChn \/ DisableDevice

Thread(c) == Test(c) \/ GetFrame(c) \/ WriteHead(c) \/ WritePcmHead(c)

Next ==
  \/ Main
  \/ \E c \in Chns : ~Ended /\ Thread(c)
  \/ Signal

Spec == Init /\ [][Next]_vars

\* The threads run, the device delivers frames or errors, and the timer of
\* setTimer expires.
FairSpec ==
  /\ Spec
  /\ WF_vars(Main) /\ WF_vars(Signal)
  /\ \A c \in Chns : WF_vars(~Ended /\ Thread(c))

-----------------------------------------------------------------------------
\* A thread only ever asks an enabled channel of an enabled device for frames,
\* and writes to files that are open, whatever has failed before it started:
\* deinitAi does not begin before every thread is done.
CaptureIsOpen ==
  \A c \in Chns :
    thread[c] \notin {"none", "done"} =>
      /\ device /\ c \in chnOn
      /\ thread[c] \in {"test", "frame", "head"} => FilesOf(c) \subseteq files

\* When main has joined the threads every file is closed, and its header tells
\* how many frames are in it, but for the files of a thread that could not be
\* created.  The header tells the sound mode of initAi, mono with a beam former,
\* unless another thread was done before, which sets the mode that all share for
\* its second file (l.859).
HeadersTell ==
  /\ pc \in {"close", "off", "down", "done"} =>
       \A c \in Threads :
         \/ \A d \in FilesOf(c) : d \notin files /\ head[d].frames = size[d]
         \/ thread[c] = "none" /\ "thread" \in failed
  /\ \A c \in Chns :
       dump /\ head[c].mode = "stereo" =>
         \E d \in Threads \ {c} : thread[d] = "done"

\* The algorithms are off before the channels are, and the channels before the
\* device, but for what could not be turned off.  Two things stay on without
\* that: the resampler, which is turned on before the encoder and off after it,
\* when the encoder never was on; and the channels before the one that could
\* not be enabled, which initAi leaves out (l.622).
OffInOrder ==
  /\ pc \in {"off", "down", "done"} /\ algs # {} =>
       \/ "close" \in failed
       \/ algs = {"resample"} /\ {"set", "closeOff"} \subseteq failed
  /\ ~device /\ chnOn # {} => "chn" \in failed

\* After the signal the program ends, whichever calls fail.
EndsAfterSignal == bAiExit ~> Ended
=============================================================================
