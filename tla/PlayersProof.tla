---------------------------- MODULE PlayersProof ----------------------------
(***************************************************************************)
(* Proofs about the two players: mp3_player of 6.audio (Mp3Player) and     *)
(* h264_play of 10.video (VdecStream).                                     *)
(*                                                                         *)
(* Mp3Player, for every number of songs of every length.  The argument     *)
(* follows the decoders in the order of their creation.  As long as no     *)
(* decoder has joined another one, each is past its own look at the flag   *)
(* when the next one is created: either the caller has joined it, or the   *)
(* caller found the flag cleared, which only this decoder can have done.   *)
(* So at most the last one decodes.                                        *)
(*                                                                         *)
(* VdecStream, for files, queues and frame buffers of any size: what the   *)
(* decoder accepts comes in the order of the file.                         *)
(***************************************************************************)
EXTENDS Mp3Player, VdecStream, SequenceTheorems, TLAPS

-----------------------------------------------------------------------------
(* mp3_player *)

Active == Decoding \cup {"stop", "clear"}
Past == {"join", "joining", "chn_off", "dev_off", "done"}

\* No decoder up to d was joined by a decoder.
Clean(d) == \A b \in Decoders : b <= d => joiner[b] \notin Decoders

\* Decoders are created one after the other, and joined only by later threads
\* of the caller or by earlier decoders.
OrderInv ==
  /\ \A d \in Decoders : pc[d] = "none" <=> d > tid_playmp3
  /\ \A d \in Decoders : d > tid_playmp3 => joiner[d] = NoThread
  /\ \A d \in Decoders : joiner[d] \in Decoders => joiner[d] < d
  /\ tid_playmp3 = NoThread =>
       /\ pc[Caller] \in {"idle", "stop", "create", "spawn", "exit"}
       /\ Mp3Playing => pc[Caller] \in {"spawn", "exit"}

\* All but the last have got past the flag.
PastInv ==
  \A d \in Decoders : d < tid_playmp3 /\ Clean(d) => pc[d] \in Past

\* The last plays until the caller has joined it or it has cleared the flag.
LastInv ==
  /\ \A d \in Decoders :
       d = tid_playmp3 /\ Clean(d) /\ pc[d] \in Active =>
         /\ pc[Caller] \in {"idle", "stop", "clear", "join", "joining"}
         /\ pc[Caller] \in {"idle", "stop", "clear"} => Mp3Playing
         /\ joiner[d] = IF pc[Caller] = "joining" THEN Caller ELSE NoThread
  /\ pc[Caller] = "spawn" /\ Clean(tid_playmp3) => Mp3Playing

PlayInv == OrderInv /\ PastInv /\ LastInv

-----------------------------------------------------------------------------
LEMMA ThreadFacts ==
  /\ Plays \in Nat \ {0} /\ Decoders = 1..Plays /\ Caller = 0 /\ NoThread = -1
  /\ Caller \in Threads /\ Caller \notin Decoders /\ NoThread \notin Threads
  /\ \A d \in Decoders : d \in Threads /\ d \in Nat \ {0}
BY Mp3Assumption DEF Decoders, Caller, NoThread, Threads

-----------------------------------------------------------------------------
(* Types *)

LEMMA TypeInit == Init => TypeOK
<1> SUFFICES ASSUME Init PROVE TypeOK
  OBVIOUS
<1>1. /\ pc \in [Threads -> InStop \cup Decoding
                     \cup {"idle", "create", "spawn", "exit", "none", "done"}]
      /\ pc[Caller] = "idle"
      /\ \A d \in Decoders : pc[d] = "none"
  BY ThreadFacts DEF Init
<1>2. left \in [Decoders -> 0..Frames]
  BY Mp3Assumption DEF Init
<1>3. /\ init \in [Decoders -> {"no", "ok", "failed"}]
      /\ joiner \in [Decoders -> Threads \cup {NoThread}]
  BY DEF Init
<1>4. QED
  BY <1>1, <1>2, <1>3 DEF Init, TypeOK

\* Where a thread may go.
LEMMA TypeGoto ==
  ASSUME TypeOK, NEW t \in Threads, NEW l,
         pc' = [pc EXCEPT ![t] = l],
         IF t = Caller THEN l \in InStop \cup {"idle", "create", "spawn", "exit"}
                       ELSE l \in InStop \cup Decoding \cup {"none", "done"}
  PROVE  /\ pc' \in [Threads -> InStop \cup Decoding
                       \cup {"idle", "create", "spawn", "exit", "none", "done"}]
         /\ pc'[Caller] \in InStop \cup {"idle", "create", "spawn", "exit"}
         /\ \A d \in Decoders : pc'[d] \in InStop \cup Decoding \cup {"none", "done"}
<1>1. /\ pc \in [Threads -> InStop \cup Decoding
                     \cup {"idle", "create", "spawn", "exit", "none", "done"}]
      /\ pc[Caller] \in InStop \cup {"idle", "create", "spawn", "exit"}
      /\ \A d \in Decoders : pc[d] \in InStop \cup Decoding \cup {"none", "done"}
  BY DEF TypeOK
<1>2. QED
  BY <1>1, ThreadFacts, Zenon

LEMMA TypeStop ==
  ASSUME TypeOK, NEW t \in Threads, Stop(t)
  PROVE  TypeOK'
<1>1. goal \in {"create", "exit"} /\ (t # Caller => t \in Decoders)
  BY DEF TypeOK, Threads
<1>2. \E l : /\ pc' = [pc EXCEPT ![t] = l]
             /\ IF t = Caller THEN l \in InStop \cup {"idle", "create", "spawn", "exit"}
                              ELSE l \in InStop \cup Decoding \cup {"none", "done"}
  <2>1. ASSUME Return(t)
        PROVE  \E l : /\ pc' = [pc EXCEPT ![t] = l]
                      /\ l \in IF t = Caller THEN {"create", "exit"} ELSE {"done"}
    BY <1>1, <2>1 DEF Return, Goto
  <2>2. CASE Return(t)
    BY <2>1, <2>2
  <2>3. CASE \E l \in InStop : Goto(t, l)
    BY <2>3 DEF Goto
  <2>4. QED
    BY <2>2, <2>3
       DEF Stop, StopCheck, StopClear, StopJoin, StopJoined, StopChannel, StopDevice, InStop
<1>3. joiner' \in [Decoders -> Threads \cup {NoThread}]
  BY DEF TypeOK, Stop, StopCheck, StopClear, StopJoin, StopJoined, StopChannel, StopDevice
<1>4. /\ Mp3Playing' \in BOOLEAN /\ ao' \in {"off", "enabled", "on"}
      /\ UNCHANGED <<tid_playmp3, goal, left, init>>
  BY DEF TypeOK, Stop, StopCheck, StopClear, StopJoin, StopJoined, StopChannel, StopDevice
<1>5. QED
  BY <1>2, <1>3, <1>4, TypeGoto, Zenon DEF TypeOK

LEMMA TypeCaller ==
  ASSUME TypeOK, Codec \/ CodecSet \/ CodecFails \/ Quit
  PROVE  TypeOK'
<1>1. \E l \in InStop \cup {"idle", "create", "spawn", "exit"} :
        pc' = [pc EXCEPT ![Caller] = l]
  BY DEF Codec, CodecSet, CodecFails, Quit, Goto, InStop
<1>2. /\ Mp3Playing' \in BOOLEAN /\ goal' \in {"create", "exit"}
      /\ UNCHANGED <<tid_playmp3, left, init, ao, joiner>>
  BY DEF TypeOK, Codec, CodecSet, CodecFails, Quit
<1>3. QED
  BY <1>1, <1>2, TypeGoto, ThreadFacts, Zenon DEF TypeOK

LEMMA TypeCreate ==
  ASSUME TypeOK, CodecCreate
  PROVE  TypeOK'
<1>1. PICK d \in Decoders :
        tid_playmp3' = d /\ pc' = [pc EXCEPT ![Caller] = "idle", ![d] = "open"]
  BY DEF CodecCreate, Fresh
<1>2. /\ pc' \in [Threads -> InStop \cup Decoding
                    \cup {"idle", "create", "spawn", "exit", "none", "done"}]
      /\ pc'[Caller] = "idle"
      /\ \A e \in Decoders : pc'[e] = IF e = d THEN "open" ELSE pc[e]
  BY <1>1, ThreadFacts DEF TypeOK, Decoding
<1>3. UNCHANGED <<Mp3Playing, goal, left, init, ao, joiner>>
  BY DEF CodecCreate
<1>4. \A e \in Decoders : pc'[e] \in InStop \cup Decoding \cup {"none", "done"}
  BY <1>2 DEF TypeOK, Decoding
<1>5. QED
  BY <1>1, <1>2, <1>3, <1>4, Zenon DEF TypeOK

LEMMA TypeDecode ==
  ASSUME TypeOK, NEW d \in Decoders, Decode(d) \/ QueryDrained(d)
  PROVE  TypeOK'
<1>1. \E l \in InStop \cup Decoding \cup {"none", "done"} : pc' = [pc EXCEPT ![d] = l]
  BY DEF Decode, QueryDrained, Open, Input, SetDsp, Output, Send, QueryStop, Goto, InStop, Decoding
<1>2. left' \in [Decoders -> 0..Frames]
  <2>1. left \in [Decoders -> 0..Frames] /\ Frames \in Nat
    BY Mp3Assumption DEF TypeOK
  <2>2. QED
    BY <2>1 DEF Decode, QueryDrained, Open, Input, SetDsp, Output, Send, QueryStop
<1>3. init' \in [Decoders -> {"no", "ok", "failed"}] /\ ao' \in {"off", "enabled", "on"}
  BY DEF TypeOK, Decode, QueryDrained, Open, Input, SetDsp, Output, Send, QueryStop
<1>4. UNCHANGED <<Mp3Playing, tid_playmp3, goal, joiner>>
  BY DEF Decode, QueryDrained, Open, Input, SetDsp, Output, Send, QueryStop
<1>5. d \in Threads /\ d # Caller
  BY ThreadFacts
<1>6. QED
  BY <1>1, <1>2, <1>3, <1>4, <1>5, TypeGoto, Zenon DEF TypeOK

LEMMA TypeNext == TypeOK /\ [Next]_vars => TypeOK'
<1> SUFFICES ASSUME TypeOK, [Next]_vars PROVE TypeOK'
  OBVIOUS
<1>1. CASE UNCHANGED vars
  BY <1>1 DEF TypeOK, vars
<1>2. QED
  BY <1>1, TypeStop, TypeCaller, TypeCreate, TypeDecode DEF Next

\* Type correctness; above all, no decoder reads more frames than its song has.
THEOREM TypeCorrect == Spec => []TypeOK
BY TypeInit, TypeNext, PTL DEF Spec

-----------------------------------------------------------------------------
(* At most the last decoder plays *)

LEMMA CleanFact ==
  ASSUME UNCHANGED joiner, NEW d
  PROVE  Clean(d)' <=> Clean(d)
BY DEF Clean

LEMMA CleanDown ==
  ASSUME NEW d \in Decoders, Clean(d), NEW c \in Decoders, c <= d
  PROVE  Clean(c) /\ joiner[c] \notin Decoders
BY ThreadFacts DEF Clean

LEMMA PlayInit == Init => PlayInv
<1> SUFFICES ASSUME Init PROVE PlayInv
  OBVIOUS
<1>1. /\ \A d \in Decoders : pc[d] = "none" /\ joiner[d] = NoThread /\ d > tid_playmp3
      /\ pc[Caller] = "idle" /\ Mp3Playing = FALSE /\ tid_playmp3 = NoThread
  BY ThreadFacts DEF Init
<1>2. QED
  BY <1>1, ThreadFacts DEF PlayInv, OrderInv, PastInv, LastInv

\* A decoder moves on, and changes neither the flag nor who joins whom.
LEMMA DecoderMoves ==
  ASSUME TypeOK, PlayInv, NEW t \in Decoders, NEW l,
         pc' = [pc EXCEPT ![t] = l],
         UNCHANGED <<Mp3Playing, tid_playmp3, joiner>>,
         pc[t] # "none", l # "none",
         pc[t] \in Past => l \in Past,
         l \in Active => pc[t] \in Active
  PROVE  PlayInv'
<1>1. /\ pc'[Caller] = pc[Caller] /\ pc'[t] = l
      /\ \A d \in Decoders : d # t => pc'[d] = pc[d]
  BY ThreadFacts DEF TypeOK
<1>2. \A d : Clean(d)' <=> Clean(d)
  BY DEF Clean
<1>3. OrderInv'
  BY <1>1 DEF PlayInv, OrderInv
<1>4. PastInv'
  BY <1>1, <1>2 DEF PlayInv, PastInv
<1>5. LastInv'
  BY <1>1, <1>2 DEF PlayInv, LastInv
<1>6. QED
  BY <1>3, <1>4, <1>5 DEF PlayInv

\* Whoever is past the flag is not the last one that plays; and of those that
\* play only the last can clear the flag.
LEMMA DecoderClears ==
  ASSUME TypeOK, PlayInv, NEW t \in Decoders, StopClear(t)
  PROVE  PlayInv'
<1>1. /\ pc[t] = "clear" /\ pc' = [pc EXCEPT ![t] = "join"] /\ Mp3Playing' = FALSE
      /\ UNCHANGED <<tid_playmp3, joiner>>
  BY DEF StopClear, Goto
<1>2. /\ pc'[Caller] = pc[Caller] /\ pc'[t] = "join"
      /\ \A d \in Decoders : d # t => pc'[d] = pc[d]
  BY <1>1, ThreadFacts DEF TypeOK
<1>3. \A d : Clean(d)' <=> Clean(d)
  BY <1>1 DEF Clean
<1>4. t <= tid_playmp3 /\ tid_playmp3 \in Decoders
  BY <1>1, ThreadFacts DEF PlayInv, OrderInv, TypeOK
<1>5. OrderInv'
  BY <1>1, <1>2, <1>4, ThreadFacts DEF PlayInv, OrderInv
<1>6. PastInv'
  BY <1>1, <1>2, <1>3 DEF PlayInv, PastInv, Past
<1>7. Clean(tid_playmp3) => t = tid_playmp3
  BY <1>1, <1>4, CleanDown, ThreadFacts DEF PlayInv, PastInv, Past
<1>8. LastInv'
  <2>1. ASSUME NEW d \in Decoders, d = tid_playmp3', Clean(d)', pc'[d] \in Active PROVE FALSE
    BY <1>1, <1>2, <1>3, <1>7, <2>1 DEF Active, Decoding
  <2>2. ASSUME pc'[Caller] = "spawn", Clean(tid_playmp3)' PROVE FALSE
    <3>1. t = tid_playmp3 /\ Clean(t)
      BY <1>1, <1>3, <1>7, <2>2 DEF Clean
    <3>2. QED
      BY <1>1, <1>2, <2>2, <3>1 DEF PlayInv, LastInv, Active
  <2>3. QED
    BY <2>1, <2>2 DEF LastInv
<1>9. QED
  BY <1>5, <1>6, <1>8 DEF PlayInv

LEMMA DecoderJoins ==
  ASSUME TypeOK, PlayInv, NEW t \in Decoders, StopJoin(t)
  PROVE  PlayInv'
<1>1. pc[t] = "join" /\ UNCHANGED <<Mp3Playing, tid_playmp3>>
  BY DEF StopJoin
<1>2. CASE pc' = [pc EXCEPT ![t] = "chn_off"] /\ UNCHANGED joiner
  BY <1>1, <1>2, DecoderMoves DEF Past, Active, Decoding
<1>3. CASE /\ tid_playmp3 # t /\ joiner[tid_playmp3] = NoThread
           /\ joiner' = [joiner EXCEPT ![tid_playmp3] = t]
           /\ pc' = [pc EXCEPT ![t] = "joining"]
  <2>1. t < tid_playmp3 /\ tid_playmp3 \in Decoders
    BY <1>1, <1>3, ThreadFacts DEF PlayInv, OrderInv, TypeOK
  <2>2. /\ pc'[Caller] = pc[Caller] /\ pc'[t] = "joining"
        /\ \A d \in Decoders : d # t => pc'[d] = pc[d]
        /\ joiner'[tid_playmp3] = t
        /\ \A d \in Decoders : d # tid_playmp3 => joiner'[d] = joiner[d]
    BY <1>3, <2>1, ThreadFacts DEF TypeOK
  <2>3. ~Clean(tid_playmp3)'
    BY <1>1, <2>1, <2>2, ThreadFacts DEF Clean
  <2>4. ASSUME NEW d \in Decoders, d < tid_playmp3, Clean(d)' PROVE Clean(d)
    BY <2>1, <2>2, <2>4, ThreadFacts DEF Clean
  <2>5. OrderInv'
    BY <1>1, <2>1, <2>2, ThreadFacts DEF PlayInv, OrderInv
  <2>6. PastInv'
    BY <1>1, <2>2, <2>4 DEF PlayInv, PastInv, Past
  <2>7. LastInv'
    BY <1>1, <2>3 DEF LastInv
  <2>8. QED
    BY <2>5, <2>6, <2>7 DEF PlayInv
<1>4. QED
  BY <1>2, <1>3 DEF StopJoin, Goto

LEMMA DecoderStops ==
  ASSUME TypeOK, PlayInv, NEW t \in Decoders, Stop(t)
  PROVE  PlayInv'
<1>1. t # Caller
  BY ThreadFacts
<1>2. CASE StopClear(t) \/ StopJoin(t)
  BY <1>2, DecoderClears, DecoderJoins
<1>3. CASE StopCheck(t)
  BY <1>1, <1>3, DecoderMoves DEF StopCheck, Return, Goto, Past, Active, Decoding
<1>4. CASE StopJoined(t) \/ StopChannel(t) \/ StopDevice(t)
  BY <1>1, <1>4, DecoderMoves
     DEF StopJoined, StopChannel, StopDevice, Return, Goto, Past, Active, Decoding
<1>5. QED
  BY <1>2, <1>3, <1>4 DEF Stop

LEMMA DecoderDecodes ==
  ASSUME TypeOK, PlayInv, NEW t \in Decoders, Decode(t) \/ QueryDrained(t)
  PROVE  PlayInv'
<1>1. /\ pc[t] \in Decoding
      /\ \E l \in Decoding \cup {"stop", "done"} : pc' = [pc EXCEPT ![t] = l]
      /\ UNCHANGED <<Mp3Playing, tid_playmp3, joiner>>
  BY DEF Decode, QueryDrained, Open, Input, SetDsp, Output, Send, QueryStop, Goto, Decoding
<1>2. QED
  BY <1>1, DecoderMoves DEF Active, Past, Decoding

\* The last decoder, as long as it may yet play.
Playing(d) == d = tid_playmp3 /\ Clean(d) /\ pc[d] \in Active

LEMMA CallerGoes ==
  ASSUME TypeOK, NEW l, pc' = [pc EXCEPT ![Caller] = l]
  PROVE  pc'[Caller] = l /\ \A d \in Decoders : pc'[d] = pc[d]
BY ThreadFacts DEF TypeOK

\* The caller moves on, and joins nobody.
LEMMA CallerMoves ==
  ASSUME PlayInv,
         \A d \in Decoders : pc'[d] = pc[d],
         UNCHANGED <<tid_playmp3, joiner>>,
         tid_playmp3 = NoThread =>
           /\ pc'[Caller] \in {"idle", "stop", "create", "spawn", "exit"}
           /\ Mp3Playing' => pc'[Caller] \in {"spawn", "exit"},
         \A d \in Decoders : Playing(d) =>
           /\ pc'[Caller] \in {"idle", "stop", "clear", "join"}
           /\ pc'[Caller] \in {"idle", "stop", "clear"} => Mp3Playing'
           /\ joiner[d] = NoThread,
         pc'[Caller] = "spawn" => Mp3Playing'
  PROVE  PlayInv'
<1>1. \A d : Clean(d)' <=> Clean(d)
  BY DEF Clean
<1>2. OrderInv'
  BY DEF PlayInv, OrderInv
<1>3. PastInv'
  BY <1>1 DEF PlayInv, PastInv
<1>4. LastInv'
  BY <1>1 DEF LastInv, Playing
<1>5. QED
  BY <1>2, <1>3, <1>4 DEF PlayInv

LEMMA PlayingFact ==
  ASSUME PlayInv, NEW d \in Decoders, Playing(d)
  PROVE  /\ pc[Caller] \in {"idle", "stop", "clear", "join", "joining"}
         /\ pc[Caller] \in {"idle", "stop", "clear"} => Mp3Playing
         /\ joiner[d] = IF pc[Caller] = "joining" THEN Caller ELSE NoThread
         /\ pc[d] # "done"
BY DEF PlayInv, LastInv, Playing, Active, Decoding

LEMMA CallerStops ==
  ASSUME TypeOK, PlayInv, Stop(Caller)
  PROVE  PlayInv'
<1>1. goal \in {"create", "exit"} /\ tid_playmp3 \in Decoders \cup {NoThread}
  BY DEF TypeOK
<1>2. tid_playmp3 = NoThread =>
        /\ pc[Caller] \in {"idle", "stop", "create", "spawn", "exit"}
        /\ Mp3Playing => pc[Caller] \in {"spawn", "exit"}
  BY DEF PlayInv, OrderInv
<1>3. CASE StopCheck(Caller)
  <2>1. pc[Caller] = "stop" /\ UNCHANGED <<Mp3Playing, tid_playmp3, joiner>>
        /\ \A d \in Decoders : pc'[d] = pc[d]
    BY <1>3, CallerGoes DEF StopCheck, Return, Goto
  <2>2. CASE Mp3Playing
    <3>1. pc'[Caller] = "clear"
      BY <1>3, <2>2, CallerGoes DEF StopCheck, Goto
    <3>2. QED
      BY <1>2, <2>1, <2>2, <3>1, PlayingFact, CallerMoves
  <2>3. CASE ~Mp3Playing
    <3>1. pc'[Caller] = goal
      BY <1>3, <2>3, CallerGoes DEF StopCheck, Return, Goto
    <3>2. \A d \in Decoders : ~Playing(d)
      BY <2>1, <2>3, PlayingFact
    <3>3. QED
      BY <1>1, <2>1, <2>3, <3>1, <3>2, CallerMoves
  <2>4. QED
    BY <2>2, <2>3
<1>4. CASE StopClear(Caller)
  <2>1. pc[Caller] = "clear" /\ UNCHANGED <<tid_playmp3, joiner>>
        /\ pc'[Caller] = "join" /\ \A d \in Decoders : pc'[d] = pc[d]
    BY <1>4, CallerGoes DEF StopClear, Goto
  <2>2. QED
    BY <1>2, <2>1, PlayingFact, CallerMoves
<1>5. CASE StopJoin(Caller)
  <2>1. pc[Caller] = "join" /\ UNCHANGED <<Mp3Playing, tid_playmp3>>
        /\ tid_playmp3 \in Decoders
    BY <1>1, <1>2, <1>5 DEF StopJoin
  <2>2. CASE pc' = [pc EXCEPT ![Caller] = "chn_off"] /\ UNCHANGED joiner
             /\ joiner[tid_playmp3] # NoThread
    <3>1. \A d \in Decoders : ~Playing(d)
      BY <2>1, <2>2, PlayingFact DEF Playing
    <3>2. pc'[Caller] = "chn_off" /\ \A d \in Decoders : pc'[d] = pc[d]
      BY <2>2, CallerGoes
    <3>3. QED
      BY <2>1, <2>2, <3>1, <3>2, ThreadFacts, CallerMoves
  <2>3. CASE /\ joiner[tid_playmp3] = NoThread
             /\ joiner' = [joiner EXCEPT ![tid_playmp3] = Caller]
             /\ pc' = [pc EXCEPT ![Caller] = "joining"]
    <3>1. /\ pc'[Caller] = "joining" /\ \A d \in Decoders : pc'[d] = pc[d]
          /\ joiner'[tid_playmp3] = Caller
          /\ \A d \in Decoders : d # tid_playmp3 => joiner'[d] = joiner[d]
      BY <2>1, <2>3, ThreadFacts DEF TypeOK
    <3>2. \A d : Clean(d)' <=> Clean(d)
      BY <2>1, <2>3, <3>1, ThreadFacts DEF Clean
    <3>3. OrderInv'
      BY <2>1, <3>1, ThreadFacts DEF PlayInv, OrderInv
    <3>4. PastInv'
      BY <2>1, <3>1, <3>2 DEF PlayInv, PastInv
    <3>5. LastInv'
      BY <2>1, <3>1, <3>2 DEF LastInv
    <3>6. QED
      BY <3>3, <3>4, <3>5 DEF PlayInv
  <2>4. QED
    BY <1>5, <2>1, <2>2, <2>3, ThreadFacts DEF StopJoin, Goto
<1>6. CASE StopJoined(Caller)
  <2>1. pc[Caller] = "joining" /\ pc'[Caller] = "chn_off"
        /\ UNCHANGED <<Mp3Playing, tid_playmp3, joiner>>
        /\ \A d \in Decoders : pc'[d] = pc[d]
    BY <1>6, CallerGoes DEF StopJoined, Goto
  <2>2. \A d \in Decoders : ~Playing(d)
    BY <1>6, <2>1, PlayingFact DEF StopJoined
  <2>3. tid_playmp3 # NoThread
    BY <1>2, <2>1
  <2>4. QED
    BY <2>1, <2>2, <2>3, CallerMoves
<1>7. CASE StopChannel(Caller) \/ StopDevice(Caller)
  <2>1. pc[Caller] \in {"chn_off", "dev_off"}
        /\ pc'[Caller] \in {"dev_off", "create", "exit"}
        /\ UNCHANGED <<Mp3Playing, tid_playmp3, joiner>>
        /\ \A d \in Decoders : pc'[d] = pc[d]
    BY <1>1, <1>7, CallerGoes DEF StopChannel, StopDevice, Return, Goto
  <2>2. \A d \in Decoders : ~Playing(d)
    BY <2>1, PlayingFact
  <2>3. tid_playmp3 # NoThread
    BY <1>2, <2>1
  <2>4. QED
    BY <2>1, <2>2, <2>3, CallerMoves
<1>8. QED
  BY <1>3, <1>4, <1>5, <1>6, <1>7 DEF Stop

LEMMA CallerPlays ==
  ASSUME TypeOK, PlayInv, Codec \/ CodecSet \/ CodecFails \/ Quit
  PROVE  PlayInv'
<1>1. tid_playmp3 = NoThread => (Mp3Playing => pc[Caller] \in {"spawn", "exit"})
  BY DEF PlayInv, OrderInv
<1>2. CASE Codec \/ Quit
  <2>1. pc[Caller] = "idle" /\ pc'[Caller] = "stop"
        /\ UNCHANGED <<Mp3Playing, tid_playmp3, joiner>>
        /\ \A d \in Decoders : pc'[d] = pc[d]
    BY <1>2, CallerGoes DEF Codec, Quit, Goto
  <2>2. tid_playmp3 = NoThread => ~Mp3Playing
    BY <1>1, <2>1
  <2>3. \A d \in Decoders : Playing(d) => Mp3Playing /\ joiner[d] = NoThread
    BY <2>1, PlayingFact
  <2>4. QED
    BY <2>1, <2>2, <2>3, CallerMoves
<1>3. CASE CodecSet
  <2>1. \A d \in Decoders : ~Playing(d)
    BY <1>3, PlayingFact DEF CodecSet
  <2>2. /\ pc'[Caller] = "spawn" /\ Mp3Playing' = TRUE
        /\ \A d \in Decoders : pc'[d] = pc[d]
        /\ UNCHANGED <<tid_playmp3, joiner>>
    BY <1>3, CallerGoes DEF CodecSet, Goto
  <2>3. QED
    BY <2>1, <2>2, CallerMoves
<1>4. CASE CodecFails
  <2>1. \A d \in Decoders : ~Playing(d)
    BY <1>4, PlayingFact DEF CodecFails
  <2>2. /\ pc'[Caller] = "exit"
        /\ UNCHANGED <<Mp3Playing, tid_playmp3, joiner>>
        /\ \A d \in Decoders : pc'[d] = pc[d]
    BY <1>4, CallerGoes DEF CodecFails, Goto
  <2>3. QED
    BY <2>1, <2>2, CallerMoves
<1>5. QED
  BY <1>2, <1>3, <1>4

\* The next decoder is created when the one before does not play any more.
LEMMA CallerCreates ==
  ASSUME TypeOK, PlayInv, CodecCreate
  PROVE  PlayInv'
<1>1. PICK d \in Fresh :
        /\ \A e \in Fresh : d <= e
        /\ tid_playmp3' = d /\ pc' = [pc EXCEPT ![Caller] = "idle", ![d] = "open"]
  BY DEF CodecCreate
<1>2. d \in Decoders /\ pc[Caller] = "spawn" /\ UNCHANGED <<Mp3Playing, joiner>>
  BY <1>1 DEF CodecCreate, Fresh
<1>3. /\ pc'[Caller] = "idle" /\ pc'[d] = "open"
      /\ \A e \in Decoders : e # d => pc'[e] = pc[e]
  BY <1>1, <1>2, ThreadFacts DEF TypeOK
<1>4. /\ \A e \in Decoders : pc[e] = "none" <=> e > tid_playmp3
      /\ \A e \in Decoders : e > tid_playmp3 => joiner[e] = NoThread
      /\ tid_playmp3 \in Decoders \cup {NoThread}
  BY DEF PlayInv, OrderInv, TypeOK
<1>5. d > tid_playmp3 /\ \A e \in Decoders : e < d <=> e <= tid_playmp3
  BY <1>1, <1>2, <1>4, ThreadFacts DEF Fresh
<1>6. \A e : Clean(e)' <=> Clean(e)
  BY <1>2 DEF Clean
<1>7. Clean(d) => Clean(tid_playmp3)
  BY <1>5, <1>2, ThreadFacts DEF Clean
<1>8. OrderInv'
  <2>1. ASSUME NEW e \in Decoders PROVE pc'[e] = "none" <=> e > d
    <3>1. e # d => (pc'[e] = "none" <=> e > tid_playmp3)
      BY <1>3, <1>4
    <3>2. d \in Nat /\ e \in Nat /\ tid_playmp3 \in Int
      BY <1>2, <1>4, ThreadFacts
    <3>3. QED
      BY <1>3, <1>5, <3>1, <3>2
  <2>2. ASSUME NEW e \in Decoders, e > d PROVE joiner[e] = NoThread
    BY <1>2, <1>4, <1>5, <2>2, ThreadFacts
  <2>3. \A e \in Decoders : joiner[e] \in Decoders => joiner[e] < e
    BY DEF PlayInv, OrderInv
  <2>4. d # NoThread
    BY <1>2, ThreadFacts
  <2>5. QED
    BY <1>1, <1>2, <2>1, <2>2, <2>3, <2>4 DEF OrderInv
<1>9. PastInv'
  <2>1. ASSUME NEW c \in Decoders, c < d, Clean(c) PROVE pc[c] \in Past
    <3>1. c <= tid_playmp3 /\ tid_playmp3 \in Decoders
      BY <1>4, <1>5, <2>1, ThreadFacts
    <3>2. CASE c < tid_playmp3
      BY <2>1, <3>2 DEF PlayInv, PastInv
    <3>3. CASE c = tid_playmp3
      <4>1. ~Playing(c)
        BY <1>2, PlayingFact
      <4>2. pc[c] \notin Active /\ pc[c] # "none"
        BY <1>4, <2>1, <3>1, <3>3, <4>1, ThreadFacts DEF Playing
      <4>3. QED
        BY <4>2 DEF TypeOK, Past, Active, InStop
    <3>4. QED
      BY <3>1, <3>2, <3>3, ThreadFacts
  <2>2. \A c \in Decoders : c < d => pc'[c] = pc[c]
    BY <1>2, <1>3, ThreadFacts
  <2>3. QED
    BY <1>1, <1>6, <2>1, <2>2 DEF PastInv
<1>10. LastInv'
  <2>1. Clean(d) => Mp3Playing
    BY <1>2, <1>7 DEF PlayInv, LastInv
  <2>2. joiner[d] = NoThread
    BY <1>2, <1>4, <1>5
  <2>3. QED
    BY <1>1, <1>2, <1>3, <1>6, <2>1, <2>2 DEF LastInv
<1>11. QED
  BY <1>8, <1>9, <1>10 DEF PlayInv

LEMMA PlayNext == TypeOK /\ PlayInv /\ [Next]_vars => PlayInv'
<1> SUFFICES ASSUME TypeOK, PlayInv, [Next]_vars PROVE PlayInv'
  OBVIOUS
<1>1. CASE UNCHANGED vars
  BY <1>1 DEF vars, PlayInv, OrderInv, PastInv, LastInv, Clean
<1>2. ASSUME NEW t \in Threads, Stop(t) PROVE PlayInv'
  BY <1>2, DecoderStops, CallerStops DEF Threads
<1>3. QED
  BY <1>1, <1>2, CallerPlays, CallerCreates, DecoderDecodes DEF Next

-----------------------------------------------------------------------------
(* What follows from it *)

\* A song is started while another plays only after a decoder has joined the
\* one that followed it (mp3_codec, Mp3PlayStopDec).
THEOREM OneDecoderCorrect == Spec => []OneDecoder
<1>1. TypeOK /\ PlayInv => OneDecoder
  <2> SUFFICES ASSUME TypeOK, PlayInv, NEW d \in Decoders, NEW e \in Decoders,
                      d < e, pc[d] \in Decoding, pc[e] \in Decoding, Clean(d)
               PROVE  FALSE
    BY DEF OneDecoder, Clean
  <2>1. ~(e > tid_playmp3) /\ tid_playmp3 \in Decoders \cup {NoThread}
    BY DEF PlayInv, OrderInv, Decoding, TypeOK
  <2>2. d < tid_playmp3
    BY <2>1, ThreadFacts
  <2>3. QED
    BY <2>2 DEF PlayInv, PastInv, Past, Decoding
<1>2. QED
  BY <1>1, TypeInit, TypeNext, PlayInit, PlayNext, PTL DEF Spec

\* Nobody joins the first decoder but the caller, so that while it decodes it
\* is the last.
LEMMA FirstPlays ==
  ASSUME TypeOK, PlayInv, pc[1] \in Decoding
  PROVE  /\ 1 \in Decoders /\ Playing(1)
         /\ \A d \in Decoders : d # 1 => pc[d] = "none"
<1>1. 1 \in Decoders /\ tid_playmp3 \in Decoders \cup {NoThread}
  BY ThreadFacts DEF TypeOK
<1>2. Clean(1)
  BY <1>1, ThreadFacts DEF Clean, PlayInv, OrderInv
<1>3. ~(1 > tid_playmp3) /\ ~(1 < tid_playmp3)
  BY <1>1, <1>2 DEF PlayInv, OrderInv, PastInv, Past, Decoding
<1>4. tid_playmp3 = 1
  BY <1>1, <1>3, ThreadFacts
<1>5. \A d \in Decoders : d # 1 => pc[d] = "none"
  BY <1>4, ThreadFacts DEF PlayInv, OrderInv
<1>6. QED
  BY <1>1, <1>2, <1>4, <1>5 DEF Playing, Active

\* When the caller has come back from pthread_join, or skipped it, the decoder
\* does not touch the AO any more.
THEOREM StopIsQuietCorrect == Spec => []StopIsQuiet
<1>1. TypeOK /\ PlayInv => StopIsQuiet
  BY FirstPlays, PlayingFact DEF StopIsQuiet
<1>2. QED
  BY <1>1, TypeInit, TypeNext, PlayInit, PlayNext, PTL DEF Spec

\* A decoder sets the device up once, and not before it is created.
DeviceInv ==
  /\ DeviceKept
  /\ pc[1] \in {"none", "open", "set_dsp"} => init[1] = "no"

LEMMA DeviceNext == TypeOK /\ PlayInv /\ DeviceInv /\ [Next]_vars => DeviceInv'
<1> SUFFICES ASSUME TypeOK, PlayInv, DeviceInv, [Next]_vars PROVE DeviceInv'
  OBVIOUS
<1>1. 1 \in Decoders /\ 1 \in Threads /\ 1 # Caller /\ pc[1] \in InStop \cup Decoding \cup {"none", "done"}
  BY ThreadFacts DEF TypeOK
<1>2. ASSUME UNCHANGED init, ao' = ao \/ pc[1] \notin Decoding,
             \/ pc'[1] = pc[1]
             \/ pc'[1] \in InStop \cup {"done"}
             \/ pc[1] = "none" /\ pc'[1] = "open"
             \/ pc[1] \in Decoding /\ pc'[1] \in {"input", "output", "send", "query"}
             \/ init[1] = "no" /\ pc[1] \in Decoding /\ pc'[1] \in Decoding
      PROVE  DeviceInv'
  BY <1>1, <1>2 DEF DeviceInv, DeviceKept, Decoding, InStop
<1>3. CASE Codec \/ CodecSet \/ CodecFails \/ Quit
  <2>1. UNCHANGED <<init, ao>> /\ \A d \in Decoders : pc'[d] = pc[d]
    BY <1>3, CallerGoes DEF Codec, CodecSet, CodecFails, Quit, Goto
  <2>2. QED
    BY <1>1, <1>2, <2>1
<1>4. CASE CodecCreate
  <2>1. PICK d \in Decoders :
          pc[d] = "none" /\ pc' = [pc EXCEPT ![Caller] = "idle", ![d] = "open"]
    BY <1>4 DEF CodecCreate, Fresh
  <2>2. UNCHANGED <<init, ao>> /\ pc'[1] = IF d = 1 THEN "open" ELSE pc[1]
    BY <1>1, <1>4, <2>1 DEF CodecCreate, TypeOK
  <2>3. QED
    BY <1>2, <2>1, <2>2
<1>5. ASSUME NEW t \in Threads, Stop(t) PROVE DeviceInv'
  <2>1. UNCHANGED init
    BY <1>5 DEF Stop, StopCheck, StopClear, StopJoin, StopJoined, StopChannel, StopDevice
  <2>2. pc'[1] = pc[1] \/ pc'[1] \in InStop \cup {"done"}
    BY <1>1, <1>5 DEF Stop, StopCheck, StopClear, StopJoin, StopJoined, StopChannel,
                      StopDevice, Return, Goto, InStop, TypeOK
  <2>3. ao' = ao \/ pc[1] \notin Decoding
    <3>1. ao' = ao \/ pc[t] \in {"chn_off", "dev_off"}
      BY <1>5 DEF Stop, StopCheck, StopClear, StopJoin, StopJoined, StopChannel, StopDevice
    <3>2. ASSUME pc[t] \in {"chn_off", "dev_off"}, pc[1] \in Decoding PROVE FALSE
      <4>1. CASE t = Caller
        BY <3>2, <4>1, FirstPlays, PlayingFact
      <4>2. CASE t # Caller
        BY <3>2, <4>2, FirstPlays DEF Threads, Decoding
      <4>3. QED
        BY <4>1, <4>2
    <3>3. QED
      BY <3>1, <3>2
  <2>4. QED
    BY <1>2, <2>1, <2>2, <2>3
<1>6. ASSUME NEW d \in Decoders, Decode(d) \/ QueryDrained(d), d # 1 PROVE DeviceInv'
  <2>1. pc[d] \in Decoding
    BY <1>6 DEF Decode, QueryDrained, Open, Input, SetDsp, Output, Send, QueryStop, Decoding
  <2>2. pc[1] \notin Decoding
    BY <1>6, <2>1, FirstPlays DEF Decoding
  <2>3. pc'[1] = pc[1] /\ init'[1] = init[1]
    BY <1>1, <1>6 DEF Decode, QueryDrained, Open, Input, SetDsp, Output, Send, QueryStop,
                      Goto, TypeOK
  <2>4. QED
    BY <2>2, <2>3 DEF DeviceInv, DeviceKept
<1>7. CASE Decode(1) \/ QueryDrained(1)
  <2>1. CASE SetDsp(1)
    <3>1. init'[1] = "ok" => ao' = "on"
      BY <1>1, <2>1 DEF SetDsp, TypeOK
    <3>2. pc'[1] = "output"
      BY <1>1, <2>1 DEF SetDsp, Goto, TypeOK
    <3>3. QED
      BY <3>1, <3>2 DEF DeviceInv, DeviceKept
  <2>2. CASE ~SetDsp(1)
    <3>1. UNCHANGED <<init, ao>>
      BY <1>7, <2>2 DEF Decode, QueryDrained, Open, Input, Output, Send, QueryStop
    <3>2. /\ pc[1] \in Decoding
          /\ \/ pc'[1] \in {"input", "output", "send", "query", "stop", "done"}
             \/ init[1] = "no" /\ pc'[1] = "set_dsp"
      BY <1>1, <1>7, <2>2 DEF Decode, QueryDrained, Open, Input, Output, Send, QueryStop,
                              Goto, Decoding, TypeOK
    <3>3. QED
      BY <1>2, <3>1, <3>2 DEF InStop, Decoding
  <2>3. QED
    BY <2>1, <2>2
<1>8. CASE UNCHANGED vars
  BY <1>2, <1>8 DEF vars
<1>9. QED
  BY <1>3, <1>4, <1>5, <1>6, <1>7, <1>8 DEF Next

\* While the first song plays, the AO that its set_dsp has turned on stays on,
\* although two threads may run Mp3PlayStopDec.
THEOREM DeviceKeptCorrect == Spec => []DeviceKept
<1>1. Init => DeviceInv
  BY ThreadFacts DEF Init, DeviceInv, DeviceKept
<1>2. DeviceInv => DeviceKept
  BY DEF DeviceInv
<1>3. QED
  BY <1>1, <1>2, DeviceNext, TypeInit, TypeNext, PlayInit, PlayNext, PTL DEF Spec

-----------------------------------------------------------------------------
(* h264_play *)

\* The pointer is behind the NALU accepted last, unless the file's last one was
\* refused.
SliceInv ==
  ~_bFrmMode =>
    \/ pos = IF got = 0 THEN 1 ELSE Following(got)
    \/ got = Len(file) - 1 /\ refused /\ pos = 1

\* The frame buffer holds the NALUs from the one after the last accepted up to
\* the one before the pointer, of which only the first begins a frame.
Collected(buf) ==
  /\ buf[1] = IF got = 0 THEN 1 ELSE Following(got)
  /\ \A i \in 2..Len(buf) : buf[i] = Following(buf[i - 1]) /\ ~Begins(buf[i])
  /\ pos = Following(buf[Len(buf)])

FrameInv ==
  _bFrmMode /\ ~refused =>
    /\ IF pSlice2FrmBuf = <<>> THEN pos = 1 /\ got = 0
       ELSE Collected(pSlice2FrmBuf)
    /\ pos # 1 => bFirstFrm = Begins(pos - 1)

VdecInv == VTypeOK /\ SliceInv /\ FrameInv

-----------------------------------------------------------------------------
(* Types *)

LEMMA FileLength ==
  ASSUME NEW f \in Files
  PROVE  f \in Seq(BOOLEAN) /\ Len(f) \in Nat /\ Len(f) >= 2
<1>1. PICK n \in 2..MaxNalus : f \in [1..n -> BOOLEAN]
  BY DEF Files
<1>2. f \in Seq(BOOLEAN) /\ Len(f) = n
  <2>1. n \in Nat
    BY VdecAssumption DEF VdecAssumption
  <2>2. QED
    BY <1>1, <2>1, SeqDef, LenProperties
<1>3. QED
  BY <1>2, VdecAssumption DEF VdecAssumption

\* Reading and seeking keep the pointer inside the file.
LEMMA PointerType ==
  ASSUME file \in Files, NEW n \in Nalus
  PROVE  AfterRead(n) \in Nalus /\ FseekBack(n) \in Nalus
BY FileLength DEF AfterRead, FseekBack, Nalus

\* What can be given to the decoder.
LEMMA AcceptType ==
  ASSUME VTypeOK, NEW chunk \in Seq(Nalus) \ {<<>>}, Accept(chunk) \/ Refuse
  PROVE  /\ queue' \in Seq(Seq(Nalus) \ {<<>>}) /\ Len(queue') <= QueueSize
         /\ got' \in Nalus \cup {0}
         /\ refused' \in BOOLEAN
<1>1. CASE Accept(chunk)
  <2>1. Last(chunk) \in Nalus
    BY LenProperties, EmptySeq DEF Last
  <2>2. queue' \in Seq(Seq(Nalus) \ {<<>>}) /\ Len(queue') = Len(queue) + 1
    BY <1>1, AppendProperties DEF VTypeOK, Accept
  <2>3. Len(queue) < QueueSize
    BY <1>1, VdecAssumption DEF VTypeOK, Accept, Full, VdecAssumption
  <2>4. QED
    BY <1>1, <2>1, <2>2, <2>3, VdecAssumption DEF VTypeOK, Accept, VdecAssumption
<1>2. CASE Refuse
  BY <1>2, Zenon DEF VTypeOK, Refuse
<1>3. QED
  BY <1>1, <1>2

LEMMA VdecTypeInit == VInit => VTypeOK
<1> SUFFICES ASSUME VInit PROVE VTypeOK
  OBVIOUS
<1>1. pos \in Nalus
  BY FileLength DEF VInit, Nalus
<1>2. <<>> \in Seq(Nalus) /\ <<>> \in Seq(Seq(Nalus) \ {<<>>})
  OBVIOUS
<1>3. Len(<<>>) <= QueueSize
  BY EmptySeq, VdecAssumption DEF VdecAssumption
<1>4. QED
  BY <1>1, <1>2, <1>3, Zenon DEF VInit, VTypeOK

LEMMA VdecTypeNext == VTypeOK /\ [VNext]_vvars => VTypeOK'
<1> SUFFICES ASSUME VTypeOK, [VNext]_vvars PROVE VTypeOK'
  OBVIOUS
<1> Nalus' = Nalus /\ _bFrmMode' = _bFrmMode /\ file' = file
  BY DEF VNext, SendStream, DecodeOne, vvars, Nalus
<1>1. CASE SendStream
  <2>1. bFirstFrm' \in BOOLEAN
    BY <1>1 DEF SendStream
  <2>2. <<pos>> \in Seq(Nalus) \ {<<>>}
    BY DEF VTypeOK
  <2>3. /\ AfterRead(pos) \in Nalus /\ FseekBack(pos) \in Nalus
        /\ Append(pSlice2FrmBuf, pos) \in Seq(Nalus)
        /\ pSlice2FrmBuf \o pSlice2FrmBuf \in Seq(Nalus)
    BY PointerType, AppendProperties, ConcatProperties DEF VTypeOK
  <2>4. /\ pos' \in Nalus
        /\ pSlice2FrmBuf' \in Seq(Nalus)
        /\ queue' \in Seq(Seq(Nalus) \ {<<>>}) /\ Len(queue') <= QueueSize
        /\ got' \in Nalus \cup {0}
        /\ refused' \in BOOLEAN
    <3>1. CASE PushSlice(pos)
      BY <2>2, <2>3, <3>1, AcceptType, Zenon DEF VTypeOK, PushSlice
    <3>2. CASE FlushFrame(pos) /\ pSlice2FrmBuf # <<>>
      <4>1. pSlice2FrmBuf \in Seq(Nalus) \ {<<>>}
        BY <3>2 DEF VTypeOK
      <4>2. QED
        BY <2>2, <2>3, <3>2, <4>1, AcceptType, Zenon DEF FlushFrame
    <3>3. CASE CollectSlice(pos)
      BY <2>3, <3>3, Zenon DEF VTypeOK, CollectSlice
    <3>4. QED
      BY <1>1, <3>1, <3>2, <3>3, Zenon DEF SendStream
  <2>5. QED
    BY <2>1, <2>4, Zenon DEF VTypeOK
<1>2. CASE DecodeOne
  <2>1. /\ queue' \in Seq(Seq(Nalus) \ {<<>>})
        /\ Len(queue') = Len(queue) - 1 /\ Len(queue) \in Nat
    BY <1>2, HeadTailProperties, LenProperties DEF DecodeOne, VTypeOK
  <2>2. Len(queue') <= QueueSize
    BY <2>1, VdecAssumption DEF VTypeOK, VdecAssumption
  <2>3. QED
    BY <1>2, <2>1, <2>2, Zenon DEF DecodeOne, VTypeOK
<1>3. CASE UNCHANGED vvars
  BY <1>3, Zenon DEF VTypeOK, vvars
<1>4. QED
  BY <1>1, <1>2, <1>3 DEF VNext

\* The variables of the thread and of the decoder's queue keep their types,
\* for any queue and any frame buffer (l.238-399 of test1, l.226-252 of test2).
THEOREM VdecTypeCorrect == VSpec => []VTypeOK
BY VdecTypeInit, VdecTypeNext, PTL DEF VSpec

-----------------------------------------------------------------------------
(* NALU by NALU *)

LEMMA SliceInit == VInit => SliceInv
BY DEF VInit, SliceInv

\* Reading on and seeking back in terms of the order of the file.
LEMMA PointerMoves ==
  ASSUME file \in Files, NEW n \in Nalus
  PROVE  /\ AfterRead(n) = Following(n)
         /\ FseekBack(n) = IF n = Len(file) THEN 1 ELSE n
BY FileLength DEF AfterRead, FseekBack, Following, Nalus

\* Only accepting a NALU makes the queue longer, and what it adds is that.
LEMMA AcceptedChunk ==
  ASSUME VTypeOK, NEW chunk, Accept(chunk) \/ Refuse, Accepted
  PROVE  Accept(chunk) /\ Chunk = chunk
<1>1. ~Refuse
  BY LenProperties DEF Accepted, Refuse, VTypeOK
<1>2. Accept(chunk)
  BY <1>1
<1>3. queue' = Append(queue, chunk) /\ Len(queue) \in Nat
  BY <1>2, LenProperties DEF Accept, VTypeOK
<1>4. Chunk = chunk
  BY <1>3 DEF Chunk, VTypeOK
<1>5. QED
  BY <1>2, <1>4

LEMMA SliceNext == VTypeOK /\ SliceInv /\ [VNext]_vvars => SliceInv'
<1> SUFFICES ASSUME VTypeOK, SliceInv, [VNext]_vvars, ~_bFrmMode'
             PROVE  \/ pos' = IF got' = 0 THEN 1 ELSE Following(got')
                    \/ got' = Len(file) - 1 /\ refused' /\ pos' = 1
  BY DEF SliceInv, VNext, SendStream, DecodeOne, vvars, Following
<1> ~_bFrmMode /\ file' = file
  BY DEF VNext, SendStream, DecodeOne, vvars
<1>1. CASE SendStream
  <2>1. PushSlice(pos)
    BY <1>1 DEF SendStream
  <2>2. file \in Files /\ pos \in Nalus /\ Len(file) \in Nat /\ Len(file) >= 2
    BY FileLength DEF VTypeOK
  <2>3. CASE Accept(<<pos>>) /\ pos' = AfterRead(pos)
    <3>1. got' = pos
      BY <2>3 DEF Accept, Last
    <3>2. QED
      BY <2>2, <2>3, <3>1, PointerMoves DEF Nalus
  <2>4. CASE Refuse /\ pos' = FseekBack(pos)
    <3>1. got' = got /\ refused'
      BY <2>4 DEF Refuse
    <3>2. got \in Nalus \cup {0}
      BY DEF VTypeOK
    <3>3. pos' = IF pos = Len(file) THEN 1 ELSE pos
      BY <2>2, <2>4, PointerMoves
    <3>4. CASE pos = Len(file)
      <4>1. got = Len(file) - 1
        BY <2>2, <3>2, <3>4 DEF SliceInv, Following, Nalus
      <4>2. QED
        BY <3>1, <3>3, <3>4, <4>1
    <3>5. CASE pos # Len(file)
      BY <3>1, <3>3, <3>5 DEF SliceInv
    <3>6. QED
      BY <3>4, <3>5
  <2>5. QED
    BY <2>1, <2>3, <2>4 DEF PushSlice
<1>2. CASE DecodeOne
  BY <1>2 DEF DecodeOne, SliceInv
<1>3. CASE UNCHANGED vvars
  BY <1>3 DEF vvars, SliceInv
<1>4. QED
  BY <1>1, <1>2, <1>3 DEF VNext

LEMMA SliceStep ==
  VTypeOK /\ SliceInv /\ [VNext]_vvars =>
    [~_bFrmMode /\ Accepted =>
       /\ Len(Chunk) = 1
       /\ \/ Chunk[1] = IF got = 0 THEN 1 ELSE Following(got)
          \/ got = Len(file) - 1 /\ refused /\ Chunk[1] = 1]_vvars
<1> SUFFICES ASSUME VTypeOK, SliceInv, VNext, ~_bFrmMode, Accepted
             PROVE  /\ Len(Chunk) = 1
                    /\ \/ Chunk[1] = IF got = 0 THEN 1 ELSE Following(got)
                       \/ got = Len(file) - 1 /\ refused /\ Chunk[1] = 1
  OBVIOUS
<1>1. ~DecodeOne
  BY LenProperties, HeadTailProperties DEF Accepted, DecodeOne, VTypeOK
<1>2. PushSlice(pos)
  BY <1>1 DEF VNext, SendStream
<1>3. Accept(<<pos>>) \/ Refuse
  BY <1>2, Zenon DEF PushSlice
<1>4. Chunk = <<pos>>
  BY <1>3, AcceptedChunk, Zenon
<1>5. Len(Chunk) = 1 /\ Chunk[1] = pos
  BY <1>4
<1>6. QED
  BY <1>5 DEF SliceInv

\* Pushing NALU by NALU, the decoder gets the file in order, none twice and
\* none left out but possibly the last, for every file and any pattern of
\* refusals (l.226-252 of test2).
THEOREM SliceOrderCorrect == VSpec => SliceOrder
<1>1. VInit => VTypeOK /\ SliceInv
  BY VdecTypeInit, SliceInit
<1>2. VTypeOK /\ SliceInv /\ [VNext]_vvars => (VTypeOK /\ SliceInv)'
  BY VdecTypeNext, SliceNext
<1>3. QED
  BY <1>1, <1>2, SliceStep, PTL DEF VSpec, SliceOrder

-----------------------------------------------------------------------------
(* Frame by frame *)

LEMMA FrameInit == VInit => FrameInv
BY DEF VInit, FrameInv

\* The thread knows where a frame begins, the file's last NALU included.
LEMMA KnownBit ==
  ASSUME VTypeOK, FrameInv, _bFrmMode, ~refused
  PROVE  FirstBit(pos) = Begins(pos) /\ Begins(pos) \in BOOLEAN
<1>1. /\ file \in Seq(BOOLEAN) /\ Len(file) \in Nat /\ Len(file) >= 2
      /\ pos \in 1..Len(file)
  BY FileLength DEF VTypeOK, Nalus
<1>2. Begins(pos) \in BOOLEAN
  BY <1>1, ElementOfSeq DEF Begins
<1>3. CASE pos = Len(file)
  <2>1. bFirstFrm = Begins(pos - 1) /\ Begins(pos - 1) = file[pos - 1]
    BY <1>1, <1>3 DEF FrameInv, Begins
  <2>2. QED
    BY <1>2, <1>3, <2>1 DEF FirstBit, Begins
<1>4. CASE pos # Len(file)
  BY <1>2, <1>4 DEF FirstBit, Begins
<1>5. QED
  BY <1>3, <1>4

LEMMA FrameNext == VTypeOK /\ FrameInv /\ [VNext]_vvars => FrameInv'
<1> SUFFICES ASSUME VTypeOK, FrameInv, [VNext]_vvars, _bFrmMode', ~refused'
             PROVE  /\ IF pSlice2FrmBuf' = <<>> THEN pos' = 1 /\ got' = 0
                       ELSE Collected(pSlice2FrmBuf)'
                    /\ pos' # 1 => bFirstFrm' = Begins(pos - 1)'
  BY DEF FrameInv
<1> _bFrmMode /\ file' = file
  BY DEF VNext, SendStream, DecodeOne, vvars
<1>1. CASE SendStream
  <2>1. /\ file \in Files /\ Len(file) \in Nat /\ Len(file) >= 2
        /\ pos \in Nalus /\ pSlice2FrmBuf \in Seq(Nalus)
        /\ Len(pSlice2FrmBuf) \in Nat
    BY FileLength, LenProperties DEF VTypeOK
  <2>2. ~refused
    BY <1>1 DEF SendStream, PushSlice, FlushFrame, CollectSlice, Accept, Refuse
  <2>3. bFirstFrm' = Begins(pos)
    BY <1>1, <2>2, KnownBit DEF SendStream
  <2>4. pos' = Following(pos)
    BY <1>1, <2>1, PointerMoves
       DEF SendStream, FlushFrame, CollectSlice, Refuse
  <2>5. pos' # 1 => bFirstFrm' = Begins(pos - 1)'
    <3>1. pos' # 1 => pos' - 1 = pos
      BY <2>1, <2>4 DEF Following, Nalus
    <3>2. Begins(pos - 1)' = Begins(pos' - 1)
      BY DEF Begins
    <3>3. QED
      BY <2>3, <3>1, <3>2
  <2>6. CASE pSlice2FrmBuf # <<>> /\ bFirstFrm' /\ FlushFrame(pos)
    <3>1. /\ Accept(pSlice2FrmBuf) /\ pSlice2FrmBuf' = <<pos>>
      BY <2>6 DEF FlushFrame, Refuse
    <3>2. got' = pSlice2FrmBuf[Len(pSlice2FrmBuf)] /\ got' # 0
      BY <2>1, <2>6, <3>1, EmptySeq, ElementOfSeq DEF Accept, Last, Nalus
    <3>3. pos = Following(got')
      BY <2>2, <2>6, <3>2 DEF FrameInv, Collected
    <3>4. Collected(pSlice2FrmBuf)'
      BY <2>4, <3>1, <3>2, <3>3 DEF Collected, Following
    <3>5. QED
      BY <2>5, <3>1, <3>4
  <2>7. CASE CollectSlice(pos) /\ pSlice2FrmBuf = <<>>
    <3>1. pSlice2FrmBuf' = <<pos>> /\ got' = got
      BY <2>7 DEF CollectSlice
    <3>2. pos = 1 /\ got = 0
      BY <2>2, <2>7 DEF FrameInv
    <3>3. QED
      BY <2>4, <2>5, <3>1, <3>2 DEF Collected, Following
  <2>8. CASE CollectSlice(pos) /\ pSlice2FrmBuf # <<>> /\ ~bFirstFrm'
    <3> DEFINE n == Len(pSlice2FrmBuf)
    <3>1. /\ pSlice2FrmBuf' = Append(pSlice2FrmBuf, pos) /\ got' = got
          /\ n >= 1
      BY <2>1, <2>8, EmptySeq DEF CollectSlice
    <3>2. /\ Len(pSlice2FrmBuf') = n + 1
          /\ pSlice2FrmBuf'[n + 1] = pos
          /\ \A i \in 1..n : pSlice2FrmBuf'[i] = pSlice2FrmBuf[i]
      BY <2>1, <3>1, AppendProperties
    <3>3. Collected(pSlice2FrmBuf)
      BY <2>2, <2>8 DEF FrameInv
    <3>4. ASSUME NEW i \in 2..n + 1
          PROVE  pSlice2FrmBuf'[i] = Following(pSlice2FrmBuf'[i - 1])
                 /\ ~Begins(pSlice2FrmBuf'[i])
      BY <2>1, <2>3, <2>8, <3>1, <3>2, <3>3 DEF Collected
    <3>5. Collected(pSlice2FrmBuf)'
      BY <2>4, <3>1, <3>2, <3>3, <3>4 DEF Collected, Following, Begins
    <3>6. pSlice2FrmBuf' # <<>>
      BY <2>1, <3>1
    <3>7. QED
      BY <2>5, <3>5, <3>6
  <2>9. QED
    BY <1>1, <2>6, <2>7, <2>8 DEF SendStream
<1>2. CASE UNCHANGED <<pos, bFirstFrm, pSlice2FrmBuf, got, refused>>
  <2>1. Collected(pSlice2FrmBuf)' <=> Collected(pSlice2FrmBuf)
    BY <1>2 DEF Collected, Following, Begins
  <2>2. Begins(pos - 1)' = Begins(pos - 1)
    BY <1>2 DEF Begins
  <2>3. QED
    BY <1>2, <2>1, <2>2 DEF FrameInv
<1>3. QED
  BY <1>1, <1>2 DEF VNext, DecodeOne, vvars

LEMMA FrameStep ==
  VTypeOK /\ FrameInv /\ [VNext]_vvars =>
    [_bFrmMode /\ ~refused' /\ Accepted =>
       /\ Chunk[1] = IF got = 0 THEN 1 ELSE Following(got)
       /\ \A i \in 2..Len(Chunk) :
            Chunk[i] = Following(Chunk[i - 1]) /\ ~Begins(Chunk[i])
       /\ Begins(Following(Last(Chunk)))]_vvars
<1> SUFFICES ASSUME VTypeOK, FrameInv, VNext, _bFrmMode, ~refused', Accepted
             PROVE  /\ Chunk[1] = IF got = 0 THEN 1 ELSE Following(got)
                    /\ \A i \in 2..Len(Chunk) :
                         Chunk[i] = Following(Chunk[i - 1]) /\ ~Begins(Chunk[i])
                    /\ Begins(Following(Last(Chunk)))
  OBVIOUS
<1>1. ~DecodeOne /\ ~CollectSlice(pos)
  <2>1. queue \in Seq(Seq(Nalus) \ {<<>>}) /\ Len(queue) \in Nat
    BY LenProperties DEF VTypeOK
  <2>2. DecodeOne => Len(queue') < Len(queue)
    BY <2>1, HeadTailProperties DEF DecodeOne
  <2>3. CollectSlice(pos) => Len(queue') = Len(queue)
    BY DEF CollectSlice
  <2>4. QED
    BY <2>1, <2>2, <2>3 DEF Accepted
<1>2. SendStream /\ FlushFrame(pos) /\ pSlice2FrmBuf # <<>> /\ bFirstFrm'
  BY <1>1 DEF VNext, SendStream
<1>3. Accept(pSlice2FrmBuf) /\ Chunk = pSlice2FrmBuf
  BY <1>2, AcceptedChunk, Zenon DEF FlushFrame
<1>4. ~refused
  BY <1>3 DEF Accept
<1>5. Collected(Chunk)
  BY <1>2, <1>3, <1>4 DEF FrameInv
<1>6. Begins(pos)
  BY <1>2, <1>4, KnownBit DEF SendStream
<1>7. QED
  BY <1>5, <1>6 DEF Collected, Last

\* While nothing is refused, the decoder gets the frames of the file one after
\* the other, each whole and none mixed with the next, wherever the frames begin
\* and however the file ends (l.325-383 of test1).
THEOREM FrameWholeCorrect == VSpec => FrameWhole
<1>1. VInit => VTypeOK /\ FrameInv
  BY VdecTypeInit, FrameInit
<1>2. VTypeOK /\ FrameInv /\ [VNext]_vvars => (VTypeOK /\ FrameInv)'
  BY VdecTypeNext, FrameNext
<1>3. QED
  BY <1>1, <1>2, FrameStep, PTL DEF VSpec, FrameWhole
=============================================================================
