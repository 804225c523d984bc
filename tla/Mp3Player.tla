------------------------------ MODULE Mp3Player ------------------------------
(***************************************************************************)
(* 6.audio/mp3_player: user_audio.c and the main loop that drives it.      *)
(*                                                                         *)
(* mp3_codec starts one decoder thread per song; Mp3PlayStopDec stops the  *)
(* current one and turns the audio output (AO) off.  Both the caller and   *)
(* the decoder thread itself, at the end of its song, call Mp3PlayStopDec, *)
(* and all they share is the plain variable Mp3Playing and tid_playmp3.    *)
(*                                                                         *)
(* Waiting in SendFrame for buffer space and in the query loop for the     *)
(* output to drain changes nothing, so it is stuttering here.              *)
(***************************************************************************)
EXTENDS Integers

CONSTANTS
  Plays,   \* bound: how often the caller starts a song (main.c: once)
  Frames   \* bound: frames in a song

ASSUME Mp3Assumption == Plays \in Nat \ {0} /\ Frames \in Nat

Decoders == 1..Plays
Caller == 0
Threads == Decoders \cup {Caller}
NoThread == -1

VARIABLES
  Mp3Playing,   \* the flag
  tid_playmp3,  \* the decoder created last
  pc,           \* where each thread is
  goal,         \* where the caller goes when Mp3PlayStopDec returns
  left,         \* frames that each decoder has not decoded yet
  init,         \* p->init of each decoder and whether its set_dsp succeeded
  ao,           \* the AO device: off, enabled, or on with its channel enabled
  joiner        \* the thread that waits for, or has joined, each decoder

vars == <<Mp3Playing, tid_playmp3, pc, goal, left, init, ao, joiner>>

Goto(t, l) == pc' = [pc EXCEPT ![t] = l]

Init ==
  /\ Mp3Playing = FALSE
  /\ tid_playmp3 = NoThread
  /\ pc = [t \in Threads |-> IF t = Caller THEN "idle" ELSE "none"]
  /\ goal = "create"
  /\ left = [d \in Decoders |-> Frames]
  /\ init = [d \in Decoders |-> "no"]
  /\ ao = "off"
  /\ joiner = [d \in Decoders |-> NoThread]

-----------------------------------------------------------------------------
(* Mp3PlayStopDec, run by the caller or by a decoder *)

Return(t) == Goto(t, IF t = Caller THEN goal ELSE "done")

StopCheck(t) ==
  /\ pc[t] = "stop"
  /\ IF Mp3Playing THEN Goto(t, "clear") ELSE Return(t)
  /\ UNCHANGED <<Mp3Playing, tid_playmp3, goal, left, init, ao, joiner>>

\* Mutant: the flag is not cleared.
StopClearNot(t) ==
  /\ pc[t] = "clear"
  /\ Goto(t, "join")
  /\ UNCHANGED <<Mp3Playing, tid_playmp3, goal, left, init, ao, joiner>>

StopClear(t) ==
  /\ pc[t] = "clear"
  /\ Mp3Playing' = FALSE
  /\ Goto(t, "join")
  /\ UNCHANGED <<tid_playmp3, goal, left, init, ao, joiner>>

\* Mutants: no pthread_join at all, or one that lets a thread join itself.
StopJoinNot(t) ==
  /\ pc[t] = "join"
  /\ Goto(t, "chn_off")
  /\ UNCHANGED <<Mp3Playing, tid_playmp3, goal, left, init, ao, joiner>>
StopJoinSelf(t) ==
  /\ pc[t] = "join"
  /\ IF joiner[tid_playmp3] # NoThread
       THEN Goto(t, "chn_off") /\ UNCHANGED joiner
       ELSE /\ joiner' = [joiner EXCEPT ![tid_playmp3] = t]
            /\ Goto(t, "joining")
  /\ UNCHANGED <<Mp3Playing, tid_playmp3, goal, left, init, ao>>

\* pthread_join: joining oneself, or a thread that already has a joiner, fails
\* at once and the result is ignored; otherwise the thread starts to wait.
StopJoin(t) ==
  /\ pc[t] = "join"
  /\ IF tid_playmp3 = t \/ joiner[tid_playmp3] # NoThread
       THEN Goto(t, "chn_off") /\ UNCHANGED joiner
       ELSE /\ joiner' = [joiner EXCEPT ![tid_playmp3] = t]
            /\ Goto(t, "joining")
  /\ UNCHANGED <<Mp3Playing, tid_playmp3, goal, left, init, ao>>

StopJoined(t) ==
  /\ pc[t] = "joining"
  /\ \A d \in Decoders : joiner[d] = t => pc[d] = "done"
  /\ Goto(t, "chn_off")
  /\ UNCHANGED <<Mp3Playing, tid_playmp3, goal, left, init, ao, joiner>>

StopChannel(t) ==
  /\ pc[t] = "chn_off"
  /\ ao' = IF ao = "on" THEN "enabled" ELSE ao
  /\ Goto(t, "dev_off")
  /\ UNCHANGED <<Mp3Playing, tid_playmp3, goal, left, init, joiner>>

StopDevice(t) ==
  /\ pc[t] = "dev_off"
  /\ ao' = "off"
  /\ Return(t)
  /\ UNCHANGED <<Mp3Playing, tid_playmp3, goal, left, init, joiner>>

Stop(t) ==
  \/ StopCheck(t) \/ StopClear(t) \/ StopJoin(t) \/ StopJoined(t)
  \/ StopChannel(t) \/ StopDevice(t)

-----------------------------------------------------------------------------
(* The caller: mp3_codec and main *)

Fresh == {d \in Decoders : pc[d] = "none"}

\* Mutant: mp3_codec does not stop the song that plays.
CodecNoStop ==
  /\ pc[Caller] = "idle"
  /\ Fresh # {}
  /\ goal' = "create"
  /\ Goto(Caller, "create")
  /\ UNCHANGED <<Mp3Playing, tid_playmp3, left, init, ao, joiner>>

\* mp3_codec begins by stopping the song that plays.
Codec ==
  /\ pc[Caller] = "idle"
  /\ Fresh # {}
  /\ goal' = "create"
  /\ Goto(Caller, "stop")
  /\ UNCHANGED <<Mp3Playing, tid_playmp3, left, init, ao, joiner>>

\* Mp3Playing = TRUE, then pthread_create; two steps, for the decoder of the
\* song before may look at the flag in between.
CodecSet ==
  /\ pc[Caller] = "create"
  /\ Mp3Playing' = TRUE
  /\ Goto(Caller, "spawn")
  /\ UNCHANGED <<tid_playmp3, goal, left, init, ao, joiner>>

CodecCreate ==
  /\ pc[Caller] = "spawn"
  /\ \E d \in Fresh :
       /\ \A e \in Fresh : d <= e
       /\ tid_playmp3' = d
       /\ pc' = [pc EXCEPT ![Caller] = "idle", ![d] = "open"]
  /\ UNCHANGED <<Mp3Playing, goal, left, init, ao, joiner>>

\* pthread_create fails: mp3_codec returns an error and main exits.
CodecFails ==
  /\ pc[Caller] = "spawn"
  /\ Goto(Caller, "exit")
  /\ UNCHANGED <<Mp3Playing, tid_playmp3, goal, left, init, ao, joiner>>

\* The user types q.
Quit ==
  /\ pc[Caller] = "idle"
  /\ tid_playmp3 # NoThread
  /\ goal' = "exit"
  /\ Goto(Caller, "stop")
  /\ UNCHANGED <<Mp3Playing, tid_playmp3, left, init, ao, joiner>>

-----------------------------------------------------------------------------
(* A decoder: decMp3Init with the libmad callbacks input and output *)

\* A file that cannot be opened ends the thread with the flag still set.
Open(d) ==
  /\ pc[d] = "open"
  /\ Goto(d, "input") \/ Goto(d, "done")
  /\ UNCHANGED <<Mp3Playing, tid_playmp3, goal, left, init, ao, joiner>>

\* input: hand over more data, or stop at the end of the file.
Input(d) ==
  /\ pc[d] = "input"
  /\ IF left[d] = 0
       THEN Goto(d, "stop") /\ UNCHANGED left
       ELSE /\ left' = [left EXCEPT ![d] = @ - 1]
            /\ Goto(d, IF init[d] = "no" THEN "set_dsp" ELSE "output")
  /\ UNCHANGED <<Mp3Playing, tid_playmp3, goal, init, ao, joiner>>

\* The first frame sets the device up; output ignores the result.  The MI call
\* that fails may be one before, between or after those that enable the AO.
SetDsp(d) ==
  /\ pc[d] = "set_dsp"
  /\ \/ init' = [init EXCEPT ![d] = "ok"] /\ ao' = "on"
     \/ /\ init' = [init EXCEPT ![d] = "failed"]
        /\ ao' \in {ao, "on"} \/ (ao = "off" /\ ao' = "enabled")
  /\ Goto(d, "output")
  /\ UNCHANGED <<Mp3Playing, tid_playmp3, goal, left, joiner>>

\* The sample loop looks at the flag.
Output(d) ==
  /\ pc[d] = "output"
  /\ Goto(d, IF Mp3Playing THEN "send" ELSE "stop")
  /\ UNCHANGED <<Mp3Playing, tid_playmp3, goal, left, init, ao, joiner>>

\* MI_AO_SendFrame returns something else than NOBUF.
Send(d) ==
  /\ pc[d] = "send"
  /\ Goto(d, "query")
  /\ UNCHANGED <<Mp3Playing, tid_playmp3, goal, left, init, ao, joiner>>

\* The query loop looks at the flag on every turn, and ends when the output
\* has drained; without an AO channel the busy count it tests is garbage.
QueryStop(d) ==
  /\ pc[d] = "query"
  /\ ~Mp3Playing
  /\ Goto(d, "stop")
  /\ UNCHANGED <<Mp3Playing, tid_playmp3, goal, left, init, ao, joiner>>

QueryDrained(d) ==
  /\ pc[d] = "query"
  /\ Mp3Playing
  /\ Goto(d, "input")
  /\ UNCHANGED <<Mp3Playing, tid_playmp3, goal, left, init, ao, joiner>>

Decode(d) ==
  \/ Open(d) \/ Input(d) \/ SetDsp(d) \/ Output(d) \/ Send(d) \/ QueryStop(d)

-----------------------------------------------------------------------------
Next ==
  \/ pc[Caller] # "exit" /\ \E t \in Threads : Stop(t)
  \/ Codec \/ CodecSet \/ CodecCreate \/ CodecFails \/ Quit
  \/ /\ pc[Caller] # "exit"     \* exit ends the other threads too
     /\ \E d \in Decoders : Decode(d) \/ QueryDrained(d)

Spec == Init /\ [][Next]_vars

\* Every thread keeps running (the scheduler), and an AO channel that is on
\* drains.  The user need not type anything, and a query loop on a device that
\* was never set up may wait for ever.
Fairness ==
  /\ \A t \in Threads : WF_vars(pc[Caller] # "exit" /\ Stop(t))
  /\ WF_vars(CodecSet) /\ WF_vars(CodecCreate \/ CodecFails)
  /\ \A d \in Decoders :
       /\ WF_vars(pc[Caller] # "exit" /\ Decode(d))
       /\ WF_vars(pc[Caller] # "exit" /\ ao = "on" /\ QueryDrained(d))

FairSpec == Spec /\ Fairness

-----------------------------------------------------------------------------
InStop == {"stop", "clear", "join", "joining", "chn_off", "dev_off"}
Decoding == {"open", "input", "set_dsp", "output", "send", "query"}

\* tid_playmp3 is a decoder that exists, the AO is in one of its three states,
\* and no decoder reads more frames than the song has (input, l.171-205).
TypeOK ==
  /\ Mp3Playing \in BOOLEAN
  /\ tid_playmp3 \in Decoders \cup {NoThread}
  /\ pc \in [Threads -> InStop \cup Decoding
                          \cup {"idle", "create", "spawn", "exit", "none", "done"}]
  /\ pc[Caller] \in InStop \cup {"idle", "create", "spawn", "exit"}
  /\ \A d \in Decoders : pc[d] \in InStop \cup Decoding \cup {"none", "done"}
  /\ goal \in {"create", "exit"}
  /\ left \in [Decoders -> 0..Frames]
  /\ init \in [Decoders -> {"no", "ok", "failed"}]
  /\ ao \in {"off", "enabled", "on"}
  /\ joiner \in [Decoders -> Threads \cup {NoThread}]

\* The next two are about the song that main.c plays.  They do not extend to a
\* second one: a decoder that stops by itself may clear the flag, and then join
\* the decoder of the next song, or turn the AO off under it.

\* When the caller has come back from pthread_join, or skipped it because the
\* flag was down, the decoder does not touch the AO for playing any more.
StopIsQuiet ==
  pc[Caller] \in {"chn_off", "dev_off", "create", "exit"}
    => pc[1] \notin Decoding

\* Once its set_dsp succeeded the decoder never finds the AO turned off under
\* it, although two threads may run Mp3PlayStopDec at the same time.
DeviceKept == init[1] = "ok" /\ pc[1] \in Decoding => ao = "on"

\* mp3_codec starts a song while another is playing only after a decoder has
\* joined the one that followed it: it cleared the flag at the end of its song,
\* and read tid_playmp3 when that already was the next one.  From then on
\* the caller's pthread_join fails, and nobody waits (l.126-146).  It takes
\* three songs.
OneDecoder ==
  \A d, e \in Decoders :
    d < e /\ pc[d] \in Decoding /\ pc[e] \in Decoding =>
      \E b \in Decoders : b <= d /\ joiner[b] \in Decoders

\* Mp3PlayStopDec returns to the caller, whatever the decoder is doing.
QuitReturns == (pc[Caller] = "stop") ~> (pc[Caller] \in {"idle", "exit"})

\* A song that has ended turns the AO off by itself, although its thread then
\* tries to join itself, unless the caller starts another one.
SongEnds ==
  (pc[1] = "stop")
    ~> (ao = "off" \/ pc[Caller] = "exit" \/ tid_playmp3 # 1)
=============================================================================
