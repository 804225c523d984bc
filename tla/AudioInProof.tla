---------------------------- MODULE AudioInProof ----------------------------
(***************************************************************************)
(* Proofs about AudioIn, for any number of channels and frames, any choice *)
(* of the ini file, and whichever calls of the SDK fail.                   *)
(*                                                                         *)
(* CaptureInv says how far main has come: what is on and open already, and *)
(* which threads have begun and ended.  HeaderInv says what the threads    *)
(* leave in the files and in the mode that they share.  AlgInv and         *)
(* DeviceInv say what is on, and which call must have failed for it to be  *)
(* on still.                                                               *)
(***************************************************************************)
EXTENDS AudioIn, TLAPS, FiniteSetTheorems

Count == IF queue THEN 1 ELSE Channels

Starting == {"enable", "tune", "chn", "unwind", "set"}
Stopping == {"close", "off", "down", "done"}

PlaceType ==
  /\ queue \in BOOLEAN /\ dump \in BOOLEAN
  /\ pc \in Starting \cup Stopping \cup {"files", "spawn", "join", "exit", "killed"}
  /\ pc = "files" => k \in 0..Channels - 1
  /\ pc \in {"chn", "spawn", "join"} => k \in 0..Count - 1
  /\ files \subseteq Chns

RecordType ==
  /\ thread \in [Chns -> {"none", "test", "frame", "head", "pcm", "done"}]
  /\ mode \in {"mono", "stereo"}
  /\ size \in [Chns -> Nat]
  /\ head \in [Chns -> [frames : Nat, mode : {"none", "mono", "stereo"}]]

TypeInv == PlaceType /\ RecordType

\* What is open and on where main is.
MainInv ==
  /\ pc = "files" => 0..k - 1 \subseteq files
  /\ pc \in Starting => files = Chns
  /\ pc \in {"tune", "chn", "set", "spawn", "join", "killed"} => device
  /\ pc = "chn" => 0..k - 1 \subseteq chnOn
  /\ pc \in {"set", "spawn", "join", "killed"} => Threads \subseteq chnOn

\* Which threads have begun and which are done.
ThreadInv ==
  /\ \A c \in Chns \ Threads : thread[c] = "none"
  /\ pc \in {"files"} \cup Starting => \A c \in Chns : thread[c] = "none"
  /\ pc = "spawn" => \A c \in k..Channels - 1 : thread[c] = "none"
  /\ pc = "spawn" => \A c \in 0..k - 1 : thread[c] = "none" => "thread" \in failed
  /\ pc \in {"join"} \cup Stopping =>
       \A c \in Threads : thread[c] = "none" => "thread" \in failed
  /\ pc = "join" => \A c \in 0..k - 1 : thread[c] \in {"none", "done"}
  /\ pc \in Stopping => \A c \in Threads : thread[c] \in {"none", "done"}
  /\ pc = "exit" => \A c \in Chns : thread[c] \in {"none", "done"}

\* The files of a thread are open until it closes them.
FileInv ==
  pc \notin {"files", "exit"} =>
    \A c \in Threads : thread[c] \notin {"pcm", "done"} => FilesOf(c) \subseteq files

CaptureInv == TypeInv /\ MainInv /\ ThreadInv /\ FileInv

HeaderInv ==
  /\ queue => \A c, d \in Chns : size[c] = size[d]
  /\ \A c \in Threads : thread[c] \in {"pcm", "done"} =>
       \A d \in FilesOf(c) : d \notin files /\ head[d].frames = size[d]
  /\ dump /\ mode = "stereo" => \E d \in Threads : thread[d] = "done"
  /\ \A c \in Chns : dump /\ head[c].mode = "stereo" =>
       \E d \in Threads \ {c} : thread[d] = "done"

-----------------------------------------------------------------------------
(* The threads are numbered from 0. *)

LEMMA ThreadsFact ==
  ASSUME queue \in BOOLEAN
  PROVE  /\ Count \in Nat \ {0} /\ Count <= Channels
         /\ Threads = 0..Count - 1
         /\ Threads \subseteq Chns
         /\ \A c : Last(c) <=> c = Count - 1
<1>1. Channels \in Nat \ {0}
  BY AudioAssumption
<1>2. CASE queue
  <2>1. Threads = {0} /\ Count = 1
    BY <1>2 DEF Threads, Count
  <2>2. Cardinality({0}) = 1
    BY FS_Singleton
  <2>3. {0} = 0..0
    OBVIOUS
  <2>4. QED
    BY <1>1, <2>1, <2>2, <2>3 DEF Chns, Last
<1>3. CASE ~queue
  <2>1. Threads = 0..Channels - 1 /\ Count = Channels
    BY <1>3 DEF Threads, Count, Chns
  <2>2. Cardinality(0..Channels - 1) = Channels
    BY <1>1, FS_Interval
  <2>3. QED
    BY <1>1, <2>1, <2>2 DEF Chns, Last
<1>4. QED
  BY <1>2, <1>3

LEMMA SettingsStay == [Next]_vars => UNCHANGED settings
BY DEF Next, Main, Thread, vars, settings, OpenFile, EnableDevice, Tune, EnableChn,
       Unwind, SetAlg, Spawn, Join, JoinKills, CloseAlg, DisableChn, DisableDevice, Test,
       GetFrame, WriteHead, WritePcmHead, Signal

LEMMA TypeInit == Init => TypeInv
<1> SUFFICES ASSUME Init PROVE TypeInv
  OBVIOUS
<1>1. Channels \in Nat \ {0}
  BY AudioAssumption
<1>2. /\ queue \in BOOLEAN /\ dump \in BOOLEAN
      /\ pc = "files" /\ k = 0 /\ files = {}
  BY DEF Init
<1>3. PlaceType
  BY <1>1, <1>2 DEF PlaceType
<1>4. RecordType
  BY DEF Init, Idle, RecordType
<1>5. QED
  BY <1>3, <1>4 DEF TypeInv

LEMMA PlaceNext == PlaceType /\ [Next]_vars => PlaceType'
<1> SUFFICES ASSUME PlaceType, [Next]_vars PROVE PlaceType'
  OBVIOUS
<1> DEFINE n == Count
<1>1. /\ n \in Nat \ {0} /\ Count = n /\ Count' = n
      /\ Channels \in Nat \ {0} /\ Chns = 0..Channels - 1 /\ n <= Channels
      /\ \A c : Last(c) <=> c = n - 1
  BY AudioAssumption, ThreadsFact, SettingsStay DEF settings, Count, PlaceType, Chns
<1> HIDE DEF n
<1> USE DEF PlaceType, Starting, Stopping, Goto, Pass, Fail
<1>2. CASE OpenFile
  <2>1. pc = "files" /\ k \in Chns /\ UNCHANGED <<queue, dump>>
    BY <1>1, <1>2 DEF OpenFile, settings
  <2>2. files' \subseteq Chns
    BY <1>2, <2>1, Zenon DEF OpenFile
  <2>3. \/ pc' = "files" /\ k' = k + 1 /\ k # Channels - 1
        \/ pc' = "enable" \/ pc' = "exit"
    BY <1>2 DEF OpenFile
  <2>4. QED
    BY <1>1, <2>1, <2>2, <2>3
<1>3. CASE EnableDevice
  BY <1>1, <1>3 DEF EnableDevice, settings
<1>4. CASE Tune
  BY <1>1, <1>4 DEF Tune, settings
<1>5. CASE EnableChn
  BY <1>1, <1>5 DEF EnableChn, settings
<1>6. CASE Unwind
  BY <1>1, <1>6 DEF Unwind, settings
<1>7. CASE SetAlg
  BY <1>1, <1>7 DEF SetAlg, settings
<1>8. CASE Spawn
  BY <1>1, <1>8 DEF Spawn, settings
<1>9. CASE Join
  BY <1>1, <1>9 DEF Join, settings
<1>10. CASE JoinKills
  BY <1>1, <1>10 DEF JoinKills, settings
<1>11. CASE CloseAlg
  BY <1>1, <1>11 DEF CloseAlg, settings
<1>12. CASE DisableChn
  BY <1>1, <1>12 DEF DisableChn, settings
<1>13. CASE DisableDevice
  BY <1>1, <1>13 DEF DisableDevice, settings
<1>14. ASSUME UNCHANGED <<settings, main>>, files' \subseteq files PROVE PlaceType'
  BY <1>1, <1>14 DEF settings, main
<1>15. ASSUME NEW c \in Chns, Thread(c) PROVE PlaceType'
  BY <1>14, <1>15 DEF Thread, Test, GetFrame, WriteHead, WritePcmHead
<1>16. CASE Signal \/ UNCHANGED vars
  BY <1>14, <1>16 DEF Signal, vars
<1>17. QED
  BY <1>2, <1>3, <1>4, <1>5, <1>6, <1>7, <1>8, <1>9, <1>10, <1>11, <1>12, <1>13, <1>15, <1>16
  DEF Next, Main

LEMMA RecordNext == RecordType /\ [Next]_vars => RecordType'
<1> SUFFICES ASSUME RecordType, [Next]_vars PROVE RecordType'
  OBVIOUS
<1>1. ASSUME UNCHANGED <<thread, mode, size, head>> PROVE RecordType'
  BY <1>1 DEF RecordType
<1>2. CASE Main /\ ~Spawn
  BY <1>1, <1>2 DEF Main, OpenFile, EnableDevice, Tune, EnableChn, Unwind, SetAlg, Join, JoinKills,
                    CloseAlg, DisableChn, DisableDevice, captured
<1>3. CASE Spawn
  BY <1>3 DEF Spawn, RecordType, captured
<1>4. ASSUME NEW c \in Chns, Test(c) PROVE RecordType'
  BY <1>4 DEF Test, At, RecordType, captured
<1>5. ASSUME NEW c \in Chns, GetFrame(c) PROVE RecordType'
  <2>1. size' \in [Chns -> Nat]
    BY <1>5 DEF GetFrame, RecordType
  <2>2. QED
    BY <1>5, <2>1 DEF GetFrame, At, RecordType
<1>6. ASSUME NEW c \in Chns, WriteHead(c) PROVE RecordType'
  <2>1. [frames |-> size[c], mode |-> mode]
          \in [frames : Nat, mode : {"none", "mono", "stereo"}]
    BY DEF RecordType
  <2>2. head' \in [Chns -> [frames : Nat, mode : {"none", "mono", "stereo"}]]
    BY <1>6, <2>1 DEF WriteHead, RecordType
  <2>3. QED
    BY <1>6, <2>2 DEF WriteHead, At, RecordType
<1>7. ASSUME NEW c \in Chns, WritePcmHead(c) PROVE RecordType'
  BY <1>7 DEF WritePcmHead, At, RecordType
<1>8. CASE Signal \/ UNCHANGED vars
  BY <1>1, <1>8 DEF Signal, vars, captured
<1>9. QED
  BY <1>2, <1>3, <1>4, <1>5, <1>6, <1>7, <1>8 DEF Next, Thread, Main

LEMMA TypeNext == TypeInv /\ [Next]_vars => TypeInv'
BY PlaceNext, RecordNext DEF TypeInv

-----------------------------------------------------------------------------
(* What is on, and which threads run *)

LEMMA CountFact ==
  ASSUME TypeInv, [Next]_vars
  PROVE  /\ Count \in Nat \ {0} /\ Count <= Channels /\ Channels \in Nat \ {0}
         /\ Chns = 0..Channels - 1
         /\ Threads = 0..Count - 1 /\ Threads' = 0..Count - 1
         /\ \A c : Last(c) <=> c = Count - 1
<1>1. queue \in BOOLEAN
  BY DEF TypeInv, PlaceType
<1>2. Threads' = Threads
  BY SettingsStay DEF settings, Threads
<1>3. QED
  BY <1>1, <1>2, AudioAssumption, ThreadsFact DEF Chns

\* A thread that runs is one of those that main has created and not joined.
LEMMA ThreadMoves ==
  ASSUME TypeInv, ThreadInv, NEW c \in Chns, Thread(c), ~Ended
  PROVE  /\ c \in Threads
         /\ pc \in {"spawn", "join"}
         /\ thread[c] \in {"test", "frame", "head", "pcm"}
         /\ thread' = [thread EXCEPT ![c] = thread'[c]]
         /\ thread'[c] \in {"test", "frame", "head", "pcm", "done"}
         /\ UNCHANGED <<settings, main, sdk, failed>>
         /\ Threads' = Threads /\ Count' = Count
<1>1. /\ thread[c] \in {"test", "frame", "head", "pcm"}
      /\ thread' = [thread EXCEPT ![c] = thread'[c]]
      /\ thread'[c] \in {"test", "frame", "head", "pcm", "done"}
      /\ UNCHANGED <<settings, main, sdk, failed>>
  BY DEF Thread, Test, GetFrame, WriteHead, WritePcmHead, At, TypeInv, RecordType
<1>2. c \in Threads
  BY <1>1 DEF ThreadInv
<1>3. pc \in {"spawn", "join"}
  BY <1>1, <1>2 DEF Ended, TypeInv, PlaceType, ThreadInv, Starting, Stopping
<1>4. QED
  BY <1>1, <1>2, <1>3 DEF settings, Threads, Count

LEMMA ThreadInit == Init => ThreadInv
BY DEF Init, ThreadInv, Starting, Stopping

LEMMA ThreadNext == TypeInv /\ ThreadInv /\ [Next]_vars => ThreadInv'
<1> SUFFICES ASSUME TypeInv, ThreadInv, [Next]_vars PROVE ThreadInv'
  OBVIOUS
<1> DEFINE n == Count
<1>1. /\ n \in Nat \ {0} /\ n <= Channels /\ Channels \in Nat \ {0}
      /\ Chns = 0..Channels - 1
      /\ Threads = 0..n - 1 /\ Threads' = 0..n - 1
      /\ \A c : Last(c) <=> c = n - 1
  BY CountFact
<1> HIDE DEF n
<1>2. /\ pc \in {"chn", "spawn", "join"} => k \in 0..n - 1
      /\ thread \in [Chns -> {"none", "test", "frame", "head", "pcm", "done"}]
  BY DEF TypeInv, PlaceType, RecordType, n
<1> USE DEF ThreadInv, Starting, Stopping
<1>3. CASE OpenFile \/ EnableDevice \/ Tune \/ EnableChn \/ Unwind \/ SetAlg
  <2>1. /\ pc \in {"files"} \cup Starting /\ UNCHANGED thread
        /\ \/ pc' \in {"files", "exit"} \cup Starting
           \/ pc' = "spawn"
    BY <1>3 DEF OpenFile, EnableDevice, Tune, EnableChn, Unwind, SetAlg, Goto, Pass, Fail
  <2>2. \A c \in Chns : thread'[c] = "none"
    BY <2>1
  <2>3. pc' = "spawn" => k' = 0
    BY <1>3 DEF OpenFile, EnableDevice, Tune, EnableChn, Unwind, SetAlg, Goto, Pass, Fail
  <2>4. QED
    BY <1>1, <2>1, <2>2, <2>3
<1>4. CASE Spawn
  <2>1. /\ pc = "spawn" /\ k \in Chns
        /\ \/ thread' = [thread EXCEPT ![k] = "test"] /\ UNCHANGED failed
           \/ UNCHANGED thread /\ failed' = failed \cup {"thread"}
        /\ \/ k = n - 1 /\ pc' = "join" /\ k' = 0
           \/ k # n - 1 /\ pc' = "spawn" /\ k' = k + 1
    BY <1>1, <1>2, <1>4 DEF Spawn, Goto
  <2>2. QED
    BY <1>1, <1>2, <2>1
<1>5. CASE Join \/ JoinKills
  <2>1. /\ pc = "join" /\ UNCHANGED <<thread, failed>>
        /\ \/ k = n - 1 /\ thread[k] \in {"done", "none"} /\ pc' = "close"
           \/ k # n - 1 /\ thread[k] \in {"done", "none"} /\ pc' = "join" /\ k' = k + 1
           \/ pc' = "killed"
    BY <1>1, <1>5 DEF Join, JoinKills, Goto, Pass
  <2>2. QED
    BY <1>1, <1>2, <2>1
<1>6. CASE CloseAlg \/ DisableChn \/ DisableDevice
  <2>1. /\ pc \in Stopping /\ UNCHANGED thread /\ pc' \in Stopping \cup {"exit"}
        /\ failed \subseteq failed'
    BY <1>6 DEF CloseAlg, DisableChn, DisableDevice, Goto, Pass, Fail
  <2>2. QED
    BY <1>1, <1>2, <2>1
<1>7. ASSUME NEW c \in Chns, Thread(c), ~Ended PROVE ThreadInv'
  <2>1. /\ c \in Threads /\ pc \in {"spawn", "join"} /\ thread[c] \notin {"none", "done"}
        /\ thread' = [thread EXCEPT ![c] = thread'[c]] /\ thread'[c] # "none"
        /\ pc' = pc /\ k' = k /\ failed' = failed
    BY <1>7, ThreadMoves DEF main
  <2>2. \A d \in Chns :
          /\ thread'[d] = "none" => thread[d] = "none"
          /\ thread[d] \in {"none", "done"} => thread'[d] = thread[d]
    BY <1>2, <2>1
  <2>3. /\ 0..k - 1 \subseteq Chns /\ Threads \subseteq Chns
        /\ pc = "spawn" => c \notin k..Channels - 1
    BY <1>1, <1>2, <2>1
  <2>4. CASE pc = "spawn"
    BY <1>1, <1>2, <2>1, <2>2, <2>3, <2>4
  <2>5. CASE pc = "join"
    BY <1>1, <1>2, <2>1, <2>2, <2>3, <2>5
  <2>6. QED
    BY <2>1, <2>4, <2>5
<1>8. CASE Signal \/ UNCHANGED vars
  <2>1. UNCHANGED <<thread, pc, k, failed>>
    BY <1>8 DEF Signal, vars, main
  <2>2. QED
    BY <1>1, <2>1
<1>9. QED
  BY <1>3, <1>4, <1>5, <1>6, <1>7, <1>8 DEF Next, Main

LEMMA MainInit == Init => MainInv
BY DEF Init, MainInv, Starting

LEMMA MainNext == TypeInv /\ ThreadInv /\ MainInv /\ [Next]_vars => MainInv'
<1> SUFFICES ASSUME TypeInv, ThreadInv, MainInv, [Next]_vars PROVE MainInv'
  OBVIOUS
<1> DEFINE n == Count
<1>1. /\ n \in Nat \ {0} /\ n <= Channels /\ Channels \in Nat \ {0}
      /\ Chns = 0..Channels - 1
      /\ Threads = 0..n - 1 /\ Threads' = 0..n - 1
      /\ \A c : Last(c) <=> c = n - 1
  BY CountFact
<1>2. /\ pc = "files" => k \in 0..Channels - 1
      /\ pc \in {"chn", "spawn", "join"} => k \in 0..n - 1
      /\ files \subseteq 0..Channels - 1
  BY <1>1 DEF TypeInv, PlaceType, n
<1> HIDE DEF n
<1> USE DEF MainInv, Starting, Goto, Pass, Fail, sdk
<1>3. CASE OpenFile
  <2>1. CASE files' = files \cup {k} /\ k = Channels - 1 /\ pc' = "enable"
    <3>1. 0..k - 1 \subseteq files /\ files' \subseteq Chns
      BY <1>1, <1>2, <1>3, <2>1 DEF OpenFile
    <3>2. \A x \in Chns : x \in files'
      BY <1>1, <2>1, <3>1
    <3>3. files' = Chns
      BY <3>1, <3>2
    <3>4. QED
      BY <2>1, <3>3 DEF Chns
  <2>2. CASE files' = files \cup {k} /\ k # Channels - 1 /\ pc' = "files" /\ k' = k + 1
    BY <1>1, <1>2, <1>3, <2>2 DEF OpenFile
  <2>3. CASE pc' = "exit"
    BY <2>3
  <2>4. QED
    BY <1>3, <2>1, <2>2, <2>3 DEF OpenFile
<1>4. CASE EnableDevice
  BY <1>1, <1>4 DEF EnableDevice
<1>5. CASE Tune
  BY <1>1, <1>5 DEF Tune
<1>6. CASE EnableChn
  BY <1>1, <1>2, <1>6 DEF EnableChn
<1>7. CASE Unwind
  BY <1>7 DEF Unwind
<1>8. CASE SetAlg
  BY <1>1, <1>8 DEF SetAlg
<1>9. CASE Spawn
  BY <1>1, <1>9 DEF Spawn
<1>10. CASE Join \/ JoinKills
  BY <1>1, <1>10 DEF Join, JoinKills
<1>11. CASE CloseAlg \/ DisableChn \/ DisableDevice
  <2>1. pc' \in {"close", "off", "down", "done", "exit"}
    BY <1>11 DEF CloseAlg, DisableChn, DisableDevice
  <2>2. QED
    BY <2>1
<1>12. ASSUME NEW c \in Chns, Thread(c), ~Ended PROVE MainInv'
  BY <1>1, <1>12, ThreadMoves DEF main
<1>13. CASE Signal \/ UNCHANGED vars
  BY <1>1, <1>13 DEF Signal, vars, main
<1>14. QED
  BY <1>3, <1>4, <1>5, <1>6, <1>7, <1>8, <1>9, <1>10, <1>11, <1>12, <1>13 DEF Next, Main

LEMMA FilesOfFact ==
  ASSUME TypeInv, [Next]_vars, NEW c \in Threads
  PROVE  c \in Chns /\ FilesOf(c) \subseteq Chns /\ FilesOf(c)' = FilesOf(c)
<1>1. c \in Chns
  BY CountFact
<1>2. QED
  BY <1>1, SettingsStay DEF FilesOf, settings

LEMMA FileInit == Init => FileInv
BY DEF Init, FileInv

LEMMA FileNext ==
  CaptureInv /\ [Next]_vars => FileInv'
<1> SUFFICES ASSUME CaptureInv, [Next]_vars,
                    pc' \notin {"files", "exit"},
                    NEW c \in Threads, thread'[c] \notin {"pcm", "done"}
             PROVE  FilesOf(c)' \subseteq files'
  <2>1. [Next]_vars => Threads' = Threads
    BY SettingsStay DEF settings, Threads
  <2>2. QED
    BY <2>1 DEF FileInv
<1> USE DEF CaptureInv
<1>1. c \in Chns /\ FilesOf(c) \subseteq Chns /\ FilesOf(c)' = FilesOf(c)
  BY FilesOfFact
<1>2. CASE pc' \in Starting
  <2>1. files' = Chns
    BY <1>2, MainNext DEF MainInv
  <2>2. QED
    BY <1>1, <2>1
<1>3. CASE pc' \notin Starting /\ pc = "set"
  <2>1. files = Chns
    BY <1>3 DEF MainInv, Starting
  <2>2. UNCHANGED files
    <3>1. ASSUME NEW d \in Chns, Thread(d), ~Ended PROVE FALSE
      BY <1>3, <3>1, ThreadMoves
    <3>2. QED
      BY <1>3, <3>1 DEF Next, Main, OpenFile, EnableDevice, Tune, EnableChn, Unwind, SetAlg,
                        Spawn, Join, JoinKills, CloseAlg, DisableChn, DisableDevice, Signal, vars
  <2>3. QED
    BY <1>1, <2>1, <2>2
<1>4. CASE pc \in {"spawn", "join", "killed"} \cup Stopping
  <2>1. pc \notin {"files", "exit"} /\ thread[c] \in {"none", "test", "frame", "head", "pcm", "done"}
    BY <1>1, <1>4 DEF Stopping, TypeInv, RecordType
  <2>2. thread[c] \notin {"pcm", "done"} => FilesOf(c) \subseteq files
    BY <2>1 DEF FileInv
  <2>3. CASE UNCHANGED <<files, thread>>
    BY <1>1, <2>2, <2>3
  <2>4. CASE Spawn
    <3>1. thread[c] \notin {"pcm", "done"} /\ UNCHANGED files
      <4>1. pc = "spawn" /\ k \in Chns /\ thread[k] = "none"
        BY <2>4, CountFact DEF Spawn, TypeInv, PlaceType, ThreadInv
      <4>2. QED
        BY <1>1, <2>4, <4>1 DEF Spawn, TypeInv, RecordType
    <3>2. QED
      BY <1>1, <2>2, <3>1
  <2>5. ASSUME NEW d \in Chns, Thread(d), ~Ended
        PROVE  FilesOf(c)' \subseteq files'
    <3>1. d \in Threads /\ thread[d] \in {"test", "frame", "head", "pcm"}
          /\ thread' = [thread EXCEPT ![d] = thread'[d]]
      BY <2>5, ThreadMoves
    <3>2. CASE UNCHANGED files
      <4>1. thread[c] \notin {"pcm", "done"}
        BY <1>1, <2>5, <3>1, <3>2 DEF Thread, Test, GetFrame, WriteHead, WritePcmHead, At,
                                       TypeInv, RecordType
      <4>2. QED
        BY <1>1, <2>2, <3>2, <4>1
    <3>3. CASE WriteHead(d)
      <4>1. thread'[d] \in {"pcm", "done"} /\ d \in Chns
        BY <3>3 DEF WriteHead, At, TypeInv, RecordType
      <4>2. c # d
        BY <4>1
      <4>3. thread[c] \notin {"pcm", "done"} /\ files' = files \ FilesOf(d)
        BY <1>1, <3>1, <3>3, <4>2 DEF WriteHead, TypeInv, RecordType
      <4>4. ~queue
        BY <3>1, <4>2 DEF Threads
      <4>5. FilesOf(c) = {c} /\ FilesOf(d) = {d}
        BY <4>4 DEF FilesOf
      <4>6. QED
        BY <1>1, <2>2, <4>2, <4>3, <4>5
    <3>4. QED
      BY <2>5, <3>2, <3>3 DEF Thread, Test, GetFrame, WritePcmHead
  <2>6. QED
    BY <1>4, <2>3, <2>4, <2>5
       DEF Stopping, Next, Main, OpenFile, EnableDevice, Tune, EnableChn, Unwind, SetAlg,
           Join, JoinKills,
           CloseAlg, DisableChn, DisableDevice, Signal, vars
<1>5. CASE pc \in {"files", "exit"} \cup (Starting \ {"set"})
  <2>1. pc' \in {"files", "exit"} \cup Starting
    <3>1. ASSUME NEW d \in Chns, Thread(d), ~Ended PROVE FALSE
      BY <1>5, <3>1, ThreadMoves DEF Starting
    <3>2. QED
      BY <1>5, <3>1
         DEF Starting, Next, Main, OpenFile, EnableDevice, Tune, EnableChn, Unwind,
           SetAlg, Spawn, Join, JoinKills, CloseAlg, DisableChn, DisableDevice, Signal, vars, main,
           Goto, Pass, Fail
  <2>2. QED
    BY <1>2, <2>1
<1>6. QED
  BY <1>2, <1>3, <1>4, <1>5 DEF TypeInv, PlaceType

LEMMA CaptureInit == Init => CaptureInv
BY TypeInit, MainInit, ThreadInit, FileInit DEF CaptureInv

LEMMA CaptureNext == CaptureInv /\ [Next]_vars => CaptureInv'
BY TypeNext, MainNext, ThreadNext, FileNext DEF CaptureInv

\* A thread that runs asks an enabled channel of an enabled device, and its
\* files are open (aiGetChnPortBuf between initAi and deinitAi).
THEOREM CaptureIsOpenCorrect == Spec => []CaptureIsOpen
<1>1. CaptureInv => CaptureIsOpen
  <2> SUFFICES ASSUME CaptureInv, NEW c \in Chns, thread[c] \notin {"none", "done"}
               PROVE  /\ device /\ c \in chnOn
                      /\ thread[c] \in {"test", "frame", "head"} => FilesOf(c) \subseteq files
    BY DEF CaptureIsOpen
  <2>1. c \in Threads
    BY DEF CaptureInv, ThreadInv
  <2>2. pc \in {"spawn", "join", "killed"}
    BY <2>1 DEF CaptureInv, TypeInv, PlaceType, ThreadInv, Starting, Stopping
  <2>3. QED
    BY <2>1, <2>2 DEF CaptureInv, MainInv, FileInv
<1>2. QED
  BY CaptureInit, CaptureNext, <1>1, PTL DEF Spec

-----------------------------------------------------------------------------
(* What the threads leave *)

LEMMA HeaderInit == Init => HeaderInv
<1> SUFFICES ASSUME Init PROVE HeaderInv
  OBVIOUS
<1>1. /\ thread = [c \in Chns |-> "none"] /\ size = [c \in Chns |-> 0]
      /\ head = [c \in Chns |-> Idle]
  BY DEF Init
<1>2. dump => mode = "mono"
  BY DEF Init
<1>3. \A c \in Threads : c \in Chns
  BY ThreadsFact DEF Init
<1>4. QED
  BY <1>1, <1>2, <1>3 DEF HeaderInv, Idle

\* Every file is one thread's.
LEMMA FilesApart ==
  ASSUME TypeInv, NEW c \in Threads, NEW d \in Threads, c # d
  PROVE  FilesOf(c) = {c} /\ ~queue
BY DEF Threads, FilesOf

\* A thread that is done stays so.
LEMMA DoneStays ==
  ASSUME CaptureInv, [Next]_vars, NEW d \in Threads, thread[d] = "done"
  PROVE  thread'[d] = "done"
<1> USE DEF CaptureInv
<1>1. d \in Chns /\ thread \in [Chns -> {"none", "test", "frame", "head", "pcm", "done"}]
  BY CountFact DEF TypeInv, RecordType
<1>2. CASE Spawn
  <2>1. /\ thread[k] = "none"
        /\ thread' = [thread EXCEPT ![k] = "test"] \/ UNCHANGED thread
    BY <1>2, CountFact DEF Spawn, ThreadInv, TypeInv, PlaceType
  <2>2. QED
    BY <1>1, <2>1
<1>3. ASSUME NEW c \in Chns, Thread(c), ~Ended
      PROVE  thread'[d] = "done"
  BY <1>1, <1>3, ThreadMoves
<1>4. CASE UNCHANGED thread
  BY <1>4
<1>5. QED
  BY <1>2, <1>3, <1>4
     DEF Next, Main, OpenFile, EnableDevice, Tune, EnableChn, Unwind, SetAlg, Join, JoinKills,
         CloseAlg, DisableChn, DisableDevice, Signal, vars

LEMMA HeaderNext == CaptureInv /\ HeaderInv /\ [Next]_vars => HeaderInv'
<1> SUFFICES ASSUME CaptureInv, HeaderInv, [Next]_vars PROVE HeaderInv'
  OBVIOUS
<1> USE DEF CaptureInv
<1>1. /\ Threads' = Threads /\ Threads \subseteq Chns /\ UNCHANGED <<queue, dump>>
      /\ queue \in BOOLEAN /\ dump \in BOOLEAN
      /\ \A c \in Threads : FilesOf(c)' = FilesOf(c) /\ FilesOf(c) \subseteq Chns
  BY FilesOfFact, SettingsStay DEF settings, Threads, TypeInv, PlaceType
<1>2. /\ thread \in [Chns -> {"none", "test", "frame", "head", "pcm", "done"}]
      /\ mode \in {"mono", "stereo"}
      /\ size \in [Chns -> Nat]
      /\ head \in [Chns -> [frames : Nat, mode : {"none", "mono", "stereo"}]]
  BY DEF TypeInv, RecordType
<1>3. \A d \in Threads : thread[d] = "done" => thread'[d] = "done"
  BY DoneStays
<1>4. ASSUME UNCHANGED <<mode, size, head>>,
             \A c \in Threads : thread'[c] \in {"pcm", "done"} =>
               /\ thread[c] \in {"pcm", "done"}
               /\ \A d \in FilesOf(c) : d \notin files => d \notin files'
      PROVE  HeaderInv'
  BY <1>1, <1>3, <1>4 DEF HeaderInv
<1>5. CASE OpenFile
  <2>1. \A c \in Threads : thread'[c] = "none"
    BY <1>1, <1>5 DEF OpenFile, ThreadInv
  <2>2. QED
    BY <1>4, <1>5, <2>1 DEF OpenFile, captured
<1>6. CASE Spawn
  <2>1. /\ thread' = [thread EXCEPT ![k] = "test"] \/ UNCHANGED thread
        /\ UNCHANGED <<files, mode, size, head>>
    BY <1>6 DEF Spawn, captured
  <2>2. QED
    BY <1>1, <1>2, <1>4, <2>1
<1>7. CASE UNCHANGED <<thread, files, captured>>
  BY <1>4, <1>7 DEF captured
<1>8. ASSUME NEW c \in Chns, Test(c), c \in Threads PROVE HeaderInv'
  BY <1>1, <1>2, <1>4, <1>8 DEF Test, At, captured
<1>9. ASSUME NEW c \in Chns, GetFrame(c), c \in Threads PROVE HeaderInv'
  <2>1. /\ thread[c] = "frame" /\ thread' = [thread EXCEPT ![c] = "test"]
        /\ UNCHANGED <<files, mode, head>>
    BY <1>9 DEF GetFrame, At
  <2>2. \/ UNCHANGED size
        \/ size' = [d \in Chns |-> IF d \in FilesOf(c) THEN size[d] + 1 ELSE size[d]]
    BY <1>9 DEF GetFrame
  <2>3. CASE UNCHANGED size
    BY <1>1, <1>2, <1>4, <2>1, <2>3
  <2>4. CASE size' = [d \in Chns |-> IF d \in FilesOf(c) THEN size[d] + 1 ELSE size[d]]
    <3>1. queue => \A d, e \in Chns : size'[d] = size'[e]
      <4>1. queue => FilesOf(c) = Chns
        BY DEF FilesOf
      <4>2. QED
        BY <1>2, <2>4, <4>1 DEF HeaderInv
    <3>2. ASSUME NEW e \in Threads, thread'[e] \in {"pcm", "done"}, NEW d \in FilesOf(e)'
          PROVE  d \notin files' /\ head'[d].frames = size'[d]
      <4>1. e # c /\ thread[e] \in {"pcm", "done"}
        BY <1>1, <1>2, <2>1, <3>2
      <4>2. d = e /\ FilesOf(c) = {c} /\ d \in FilesOf(e)
        BY <1>1, <1>9, <3>2, <4>1, FilesApart
      <4>3. size'[d] = size[d]
        BY <1>1, <2>4, <4>1, <4>2
      <4>4. QED
        BY <2>1, <4>1, <4>2, <4>3 DEF HeaderInv
    <3>3. QED
      BY <1>1, <1>3, <2>1, <3>1, <3>2 DEF HeaderInv
  <2>5. QED
    BY <2>2, <2>3, <2>4
<1>10. ASSUME NEW c \in Chns, WriteHead(c), c \in Threads PROVE HeaderInv'
  <2>1. /\ thread[c] = "head"
        /\ thread' = [thread EXCEPT ![c] = IF dump THEN "pcm" ELSE "done"]
        /\ head' = [d \in Chns |-> IF d \in FilesOf(c)
                                   THEN [frames |-> size[c], mode |-> mode] ELSE head[d]]
        /\ files' = files \ FilesOf(c)
        /\ UNCHANGED <<mode, size>>
    BY <1>10 DEF WriteHead, At
  <2>2. ASSUME NEW e \in Threads, thread'[e] \in {"pcm", "done"}, NEW d \in FilesOf(e)'
        PROVE  d \notin files' /\ head'[d].frames = size'[d]
    <3>1. d \in FilesOf(e) /\ d \in Chns
      BY <1>1, <2>2
    <3>2. CASE e = c
      <4>1. size[d] = size[c]
        BY <1>2, <3>1, <3>2 DEF HeaderInv, FilesOf
      <4>2. QED
        BY <2>1, <3>1, <3>2, <4>1
    <3>3. CASE e # c
      <4>1. thread[e] \in {"pcm", "done"}
        BY <1>1, <1>2, <2>1, <2>2, <3>3
      <4>2. d = e /\ FilesOf(c) = {c}
        BY <1>10, <3>1, <3>3, FilesApart
      <4>3. head'[d] = head[d]
        BY <2>1, <3>1, <3>3, <4>2
      <4>4. QED
        BY <2>1, <3>1, <4>1, <4>3 DEF HeaderInv
    <3>4. QED
      BY <3>2, <3>3
  <2>3. ASSUME NEW x \in Chns, dump', head'[x].mode = "stereo"
        PROVE  \E d \in Threads \ {x} : thread'[d] = "done"
    <3>1. CASE x \in FilesOf(c)
      <4>1. PICK d \in Threads : thread[d] = "done"
        BY <1>1, <2>1, <2>3, <3>1 DEF HeaderInv
      <4>2. d # c /\ thread'[d] = "done"
        BY <1>3, <2>1, <4>1
      <4>3. FilesOf(c) = {c}
        BY <1>10, <4>2, FilesApart
      <4>4. QED
        BY <3>1, <4>2, <4>3
    <3>2. CASE x \notin FilesOf(c)
      BY <1>1, <1>3, <2>1, <2>3, <3>2 DEF HeaderInv
    <3>3. QED
      BY <3>1, <3>2
  <2>4. QED
    BY <1>1, <1>3, <2>1, <2>2, <2>3 DEF HeaderInv
<1>11. ASSUME NEW c \in Chns, WritePcmHead(c), c \in Threads PROVE HeaderInv'
  <2>1. /\ thread[c] = "pcm" /\ thread' = [thread EXCEPT ![c] = "done"]
        /\ UNCHANGED <<files, size, head>>
    BY <1>11 DEF WritePcmHead, At
  <2>2. thread'[c] = "done"
    BY <1>2, <2>1
  <2>3. \A e \in Threads : thread'[e] \in {"pcm", "done"} => thread[e] \in {"pcm", "done"}
    BY <1>1, <1>2, <2>1
  <2>4. QED
    BY <1>1, <1>3, <1>11, <2>1, <2>2, <2>3 DEF HeaderInv
<1>12. QED
  <2>1. \A c \in Chns : Thread(c) /\ ~Ended => c \in Threads
    BY ThreadMoves
  <2>2. QED
    BY <1>5, <1>6, <1>7, <1>8, <1>9, <1>10, <1>11, <2>1
       DEF Next, Main, Thread, EnableDevice, Tune, EnableChn, Unwind, SetAlg, Join, JoinKills,
           CloseAlg,
           DisableChn, DisableDevice, Signal, vars, captured

\* When main has joined the threads the files of every thread that was created
\* are closed, and their headers tell how long they are; and the mode, unless another thread's second file
\* has changed it.
THEOREM HeadersTellCorrect == Spec => []HeadersTell
<1>1. CaptureInv /\ HeaderInv => HeadersTell
  <2> SUFFICES ASSUME CaptureInv, HeaderInv PROVE HeadersTell
    OBVIOUS
  <2>1. ASSUME pc \in Stopping, NEW c \in Threads
        PROVE  \/ \A d \in FilesOf(c) : d \notin files /\ head[d].frames = size[d]
               \/ thread[c] = "none" /\ "thread" \in failed
    BY <2>1 DEF CaptureInv, ThreadInv, HeaderInv
  <2>2. QED
    BY <2>1 DEF HeadersTell, HeaderInv, Stopping
<1>2. QED
  BY CaptureInit, CaptureNext, HeaderInit, HeaderNext, <1>1, PTL DEF Spec

-----------------------------------------------------------------------------
(* The way down *)

\* What the loop over CloseOrder has passed at its step i.
Passed(i) == {CloseOrder[j] : j \in 1..i - 1}
Algs == {SetOrder[j] : j \in 1..6}

\* What is on has been turned on in order: an algorithm whose elder is wanted
\* and not on is not on either.
OnInOrder(elders) ==
  \A i, j \in 1..6 :
    i < j /\ SetOrder[i] \in wanted \cap elders /\ SetOrder[j] \in algs => SetOrder[i] \in algs

AlgInv ==
  /\ algs \subseteq wanted /\ wanted \subseteq Algs
  /\ pc \in {"files", "enable", "tune", "chn", "unwind"} => algs = {}
  /\ pc = "set" =>
       /\ k \in 1..7 /\ (k = 7 \/ SetOrder[k] \in wanted)
       /\ \A j \in 1..6 : SetOrder[j] \in algs <=> j < k /\ SetOrder[j] \in wanted
  /\ pc \in {"spawn", "join"} =>
       OnInOrder(Algs) /\ ("set" \in failed \/ wanted \subseteq algs)
  /\ pc = "close" =>
       /\ k \in 1..7 /\ (k = 7 \/ CloseOrder[k] \in wanted)
       /\ algs \cap Passed(k) = {}
       /\ OnInOrder(Algs \ Passed(k))
       /\ "set" \in failed \/ wanted \subseteq algs \cup Passed(k)
  /\ pc \in {"off", "down", "done"} /\ algs # {} =>
       \/ "close" \in failed
       \/ algs = {"resample"} /\ {"set", "closeOff"} \subseteq failed

DeviceInv ==
  /\ chnOn \subseteq Threads
  /\ pc \in {"files", "enable", "tune", "down", "done"} => chnOn = {}
  /\ pc \in {"tune", "chn", "set", "spawn", "join", "close", "off"} => device
  /\ pc = "unwind" => "chn" \in failed
  /\ pc = "off" => k \in 0..Count - 1 /\ \A c \in 0..k - 1 : c \notin chnOn
  /\ ~device /\ chnOn # {} => "chn" \in failed

\* The next algorithm is wanted, and those between are not.
LEMMA NextInFact ==
  ASSUME NEW order, NEW i \in 1..7
  PROVE  /\ NextIn(order, i) \in i..7
         /\ NextIn(order, i) = 7 \/ order[NextIn(order, i)] \in wanted
         /\ \A l \in i..NextIn(order, i) - 1 : order[l] \notin wanted
<1> DEFINE P(x, j) == /\ j = 7 \/ order[j] \in wanted
                      /\ \A l \in x..j - 1 : order[l] \notin wanted
           E(x) == \E j \in x..7 : P(x, j)
<1>1. E(7)
  BY Z3
<1>2. ASSUME NEW x \in 1..6, E(x + 1) PROVE E(x)
  <2>1. CASE order[x] \in wanted
    <3>1. P(x, x)
      BY <2>1
    <3>2. QED
      BY <3>1
  <2>2. CASE order[x] \notin wanted
    <3>1. PICK j \in x + 1..7 : P(x + 1, j)
      BY <1>2
    <3>2. P(x, j)
      BY <2>2, <3>1
    <3>3. QED
      BY <3>2
  <2>3. QED
    BY <2>1, <2>2
<1> HIDE DEF E
<1>3. E(6) /\ E(5) /\ E(4) /\ E(3) /\ E(2) /\ E(1)
  <2>1. E(6)
    BY <1>1, <1>2
  <2>2. E(5)
    BY <2>1, <1>2
  <2>3. E(4)
    BY <2>2, <1>2
  <2>4. E(3)
    BY <2>3, <1>2
  <2>5. E(2)
    BY <2>4, <1>2
  <2>6. E(1)
    BY <2>5, <1>2
  <2>7. QED
    BY <2>1, <2>2, <2>3, <2>4, <2>5, <2>6
<1>4. E(i)
  BY <1>1, <1>3
<1>5. QED
  BY <1>4, Zenon DEF E, NextIn

\* What the steps of the threads and of the signal leave alone.
LEMMA OthersLeave ==
  ASSUME [Next]_vars, ~Main
  PROVE  UNCHANGED <<main, sdk, failed>>
BY DEF Next, Thread, Test, GetFrame, WriteHead, WritePcmHead, Signal, vars

LEMMA OrderFact ==
  /\ SetOrder[1] = "aed" /\ SetOrder[2] = "ssl" /\ SetOrder[3] = "bf"
  /\ SetOrder[4] = "vqe" /\ SetOrder[5] = "resample" /\ SetOrder[6] = "aenc"
  /\ CloseOrder[1] = "aed" /\ CloseOrder[2] = "ssl" /\ CloseOrder[3] = "bf"
  /\ CloseOrder[4] = "vqe" /\ CloseOrder[5] = "aenc" /\ CloseOrder[6] = "resample"
BY DEF SetOrder, CloseOrder

LEMMA AlgsFact == Algs = {"aed", "ssl", "bf", "vqe", "resample", "aenc"}
<1>1. \A j \in 1..6 : j \in {1, 2, 3, 4, 5, 6}
  OBVIOUS
<1>2. \A x \in Algs : x \in {"aed", "ssl", "bf", "vqe", "resample", "aenc"}
  BY <1>1, OrderFact DEF Algs
<1>3. /\ SetOrder[1] \in Algs /\ SetOrder[2] \in Algs /\ SetOrder[3] \in Algs
      /\ SetOrder[4] \in Algs /\ SetOrder[5] \in Algs /\ SetOrder[6] \in Algs
  BY DEF Algs
<1>4. QED
  BY <1>2, <1>3, OrderFact

LEMMA PassedFact ==
  /\ Passed(1) = {} /\ Passed(2) = {"aed"} /\ Passed(3) = {"aed", "ssl"}
  /\ Passed(4) = {"aed", "ssl", "bf"} /\ Passed(5) = {"aed", "ssl", "bf", "vqe"}
  /\ Passed(6) = {"aed", "ssl", "bf", "vqe", "aenc"} /\ Passed(7) = Algs
<1>1. Passed(1) = {}
  BY DEF Passed
<1>2. \A i \in 1..6 : Passed(i + 1) = Passed(i) \cup {CloseOrder[i]}
  <2> SUFFICES ASSUME NEW i \in 1..6 PROVE Passed(i + 1) = Passed(i) \cup {CloseOrder[i]}
    OBVIOUS
  <2>1. 1..(i + 1) - 1 = (1..i - 1) \cup {i}
    OBVIOUS
  <2>2. QED
    BY <2>1 DEF Passed
<1>3. /\ Passed(2) = Passed(1) \cup {"aed"} /\ Passed(3) = Passed(2) \cup {"ssl"}
      /\ Passed(4) = Passed(3) \cup {"bf"} /\ Passed(5) = Passed(4) \cup {"vqe"}
      /\ Passed(6) = Passed(5) \cup {"aenc"} /\ Passed(7) = Passed(6) \cup {"resample"}
  <2>1. /\ Passed(1 + 1) = Passed(1) \cup {CloseOrder[1]}
        /\ Passed(2 + 1) = Passed(2) \cup {CloseOrder[2]}
        /\ Passed(3 + 1) = Passed(3) \cup {CloseOrder[3]}
        /\ Passed(4 + 1) = Passed(4) \cup {CloseOrder[4]}
        /\ Passed(5 + 1) = Passed(5) \cup {CloseOrder[5]}
        /\ Passed(6 + 1) = Passed(6) \cup {CloseOrder[6]}
    BY <1>2
  <2>2. 1 + 1 = 2 /\ 2 + 1 = 3 /\ 3 + 1 = 4 /\ 4 + 1 = 5 /\ 5 + 1 = 6 /\ 6 + 1 = 7
    OBVIOUS
  <2>3. QED
    BY <2>1, <2>2, OrderFact
<1>4. QED
  BY <1>1, <1>3, AlgsFact

\* A loop over CloseOrder passes only what is not wanted between two steps.
LEMMA PassedOn ==
  ASSUME NEW i \in 1..7, NEW x \in wanted
  PROVE  x \in Passed(NextIn(CloseOrder, i)) <=> x \in Passed(i)
<1> DEFINE n == NextIn(CloseOrder, i)
<1>1. n \in i..7 /\ \A l \in i..n - 1 : CloseOrder[l] # x
  BY NextInFact
<1> HIDE DEF n
<1>2. \A j \in 1..n - 1 : CloseOrder[j] = x => j \in 1..i - 1
  BY <1>1
<1>3. \A j \in 1..i - 1 : j \in 1..n - 1
  BY <1>1
<1>4. QED
  BY <1>2, <1>3 DEF Passed, n

LEMMA AlgInit == Init => AlgInv
<1>1. Init => wanted \subseteq Algs
  BY AudioAssumption, AlgsFact DEF Init
<1>2. QED
  BY <1>1 DEF Init, AlgInv

LEMMA SetKeeps ==
  ASSUME AlgInv, SetAlg, UNCHANGED wanted PROVE AlgInv'
<1> USE DEF SetAlg, Goto, Pass, Fail
<1>1. /\ pc = "set" /\ k \in 1..7 /\ (k = 7 \/ SetOrder[k] \in wanted)
      /\ \A j \in 1..6 : SetOrder[j] \in algs <=> j < k /\ SetOrder[j] \in wanted
      /\ algs \subseteq wanted /\ wanted \subseteq Algs
  BY DEF AlgInv
<1>2. CASE k = 7
  <2>1. pc' = "spawn" /\ UNCHANGED <<algs, failed>>
    BY <1>1, <1>2
  <2>2. wanted \subseteq algs
    BY <1>1, <1>2 DEF Algs
  <2>3. QED
    BY <1>1, <2>1, <2>2 DEF AlgInv, OnInOrder, Algs
<1>3. CASE k # 7 /\ algs' = algs \cup {SetOrder[k]} /\ Pass("set", NextIn(SetOrder, k + 1))
  <2> DEFINE n == NextIn(SetOrder, k + 1)
  <2>1. k \in 1..6 /\ k + 1 \in 1..7
    BY <1>1, <1>3
  <2>2. /\ n \in k + 1..7 /\ (n = 7 \/ SetOrder[n] \in wanted)
        /\ \A l \in k + 1..n - 1 : SetOrder[l] \notin wanted
    BY <2>1, NextInFact
  <2>3. pc' = "set" /\ k' = n /\ algs' = algs \cup {SetOrder[k]}
    BY <1>3
  <2> HIDE DEF n
  <2>4. \A j \in 1..6 : SetOrder[j] = SetOrder[k] => j = k
    BY <2>1 DEF SetOrder
  <2>5. \A j \in 1..6 : SetOrder[j] \in algs' <=> j < n /\ SetOrder[j] \in wanted
    BY <1>1, <1>3, <2>1, <2>2, <2>3, <2>4
  <2>6. algs' \subseteq wanted /\ SetOrder[k] \in wanted
    BY <1>1, <1>3, <2>3
  <2>7. QED
    BY <1>1, <2>1, <2>2, <2>3, <2>5, <2>6 DEF AlgInv
<1>4. CASE UNCHANGED algs /\ Fail("set", "spawn", 0)
  <2>1. pc' = "spawn" /\ "set" \in failed'
    BY <1>4
  <2>2. OnInOrder(Algs)'
    BY <1>1, <1>4 DEF OnInOrder
  <2>3. QED
    BY <1>1, <1>4, <2>1, <2>2 DEF AlgInv
<1>5. QED
  BY <1>1, <1>2, <1>3, <1>4

\* The loop over CloseOrder begins, when nothing is passed yet.
LEMMA CloseBegins ==
  ASSUME AlgInv, pc = "join", UNCHANGED <<wanted, algs, failed>>,
         pc' = "close", k' = NextIn(CloseOrder, 1)
  PROVE  AlgInv'
<1>1. /\ k' \in 1..7 /\ (k' = 7 \/ CloseOrder[k'] \in wanted)
      /\ \A x \in wanted : x \notin Passed(k')
  BY NextInFact, PassedOn, PassedFact
<1>2. /\ algs \subseteq wanted /\ wanted \subseteq Algs
      /\ OnInOrder(Algs) /\ ("set" \in failed \/ wanted \subseteq algs)
  BY DEF AlgInv
<1>3. (algs \cap Passed(k))' = {} /\ OnInOrder(Algs \ Passed(k))'
  BY <1>1, <1>2 DEF OnInOrder, Passed
<1>4. QED
  BY <1>1, <1>2, <1>3 DEF AlgInv, Passed

\* What is still on when a step of the loop fails: nothing, or the resampler.
LEMMA CloseFails ==
  ASSUME AlgInv, pc = "close", k # 7, CloseOrder[k] \notin algs
  PROVE  algs \subseteq {"resample"} /\ "set" \in failed
<1>1. /\ k \in 1..6 /\ CloseOrder[k] \in wanted /\ algs \cap Passed(k) = {}
      /\ OnInOrder(Algs \ Passed(k)) /\ algs \subseteq Algs
      /\ ("set" \in failed \/ wanted \subseteq algs \cup Passed(k))
  BY DEF AlgInv
<1>2. CloseOrder[k] \in Algs \ Passed(k)
  BY <1>1, OrderFact, AlgsFact, PassedFact
<1>3. CASE k \in 1..4
  <2>1. SetOrder[k] = CloseOrder[k] /\ k \in 1..6
    BY <1>3, OrderFact
  <2>2. \A j \in 1..6 : j > k => SetOrder[j] \notin algs
    BY <1>1, <1>2, <2>1 DEF OnInOrder
  <2>3. algs = {}
    <3>1. CASE k = 1
      BY <1>1, <2>1, <2>2, <3>1, OrderFact, AlgsFact, PassedFact
    <3>2. CASE k = 2
      BY <1>1, <2>1, <2>2, <3>2, OrderFact, AlgsFact, PassedFact
    <3>3. CASE k = 3
      BY <1>1, <2>1, <2>2, <3>3, OrderFact, AlgsFact, PassedFact
    <3>4. CASE k = 4
      BY <1>1, <2>1, <2>2, <3>4, OrderFact, AlgsFact, PassedFact
    <3>5. QED
      BY <1>3, <3>1, <3>2, <3>3, <3>4
  <2>4. QED
    BY <1>1, <1>2, <2>3
<1>4. CASE k = 5
  BY <1>1, <1>2, <1>4, OrderFact, AlgsFact, PassedFact
<1>5. CASE k = 6
  BY <1>1, <1>2, <1>5, OrderFact, AlgsFact, PassedFact
<1>6. QED
  BY <1>1, <1>3, <1>4, <1>5

LEMMA CloseKeeps ==
  ASSUME AlgInv, CloseAlg, UNCHANGED wanted PROVE AlgInv'
<1> USE DEF CloseAlg, Goto, Pass, Fail
<1>1. /\ pc = "close" /\ k \in 1..7 /\ (k = 7 \/ CloseOrder[k] \in wanted)
      /\ algs \cap Passed(k) = {} /\ OnInOrder(Algs \ Passed(k))
      /\ ("set" \in failed \/ wanted \subseteq algs \cup Passed(k))
      /\ algs \subseteq wanted /\ wanted \subseteq Algs
  BY DEF AlgInv
<1>2. CASE k = 7
  <2>1. pc' = "off" /\ algs' = {}
    BY <1>1, <1>2, PassedFact
  <2>2. QED
    BY <1>1, <2>1 DEF AlgInv
<1>3. CASE k # 7 /\ algs' = algs \ {CloseOrder[k]}
           /\ Pass("close", NextIn(CloseOrder, k + 1))
  <2> DEFINE n == NextIn(CloseOrder, k + 1)
  <2>1. k \in 1..6 /\ k + 1 \in 1..7
    BY <1>1, <1>3
  <2>2. Passed(k + 1) = Passed(k) \cup {CloseOrder[k]}
    <3>1. 1..(k + 1) - 1 = (1..k - 1) \cup {k}
      BY <2>1
    <3>2. QED
      BY <3>1 DEF Passed
  <2>3. /\ n \in 1..7 /\ (n = 7 \/ CloseOrder[n] \in wanted)
        /\ \A x \in wanted : x \in Passed(n) <=> x \in Passed(k) \/ x = CloseOrder[k]
    BY <2>1, <2>2, NextInFact, PassedOn
  <2>4. pc' = "close" /\ k' = n /\ algs' = algs \ {CloseOrder[k]} /\ UNCHANGED failed
    BY <1>3
  <2> HIDE DEF n
  <2>5. (algs \cap Passed(k))' = {}
    <3>1. algs' \cap Passed(n) = {}
      BY <1>1, <2>3, <2>4
    <3>2. QED
      BY <2>4, <3>1 DEF Passed
  <2>6. OnInOrder(Algs \ Passed(k))'
    <3>1. \A i, j \in 1..6 :
            i < j /\ SetOrder[i] \in wanted /\ SetOrder[i] \in Algs \ Passed(n) /\ SetOrder[j] \in algs' =>
              SetOrder[i] \in algs'
      BY <1>1, <2>3, <2>4 DEF OnInOrder
    <3>2. QED
      BY <2>4, <3>1 DEF OnInOrder, Passed, Algs
  <2>7. ("set" \in failed \/ wanted \subseteq algs \cup Passed(k))'
    <3>1. "set" \in failed \/ wanted \subseteq algs' \cup Passed(n)
      BY <1>1, <2>3, <2>4
    <3>2. QED
      BY <2>4, <3>1 DEF Passed
  <2>8. algs' \subseteq wanted
    BY <1>1, <2>4
  <2>9. QED
    BY <1>1, <2>3, <2>4, <2>5, <2>6, <2>7, <2>8 DEF AlgInv, Algs
<1>4. CASE k # 7 /\ UNCHANGED algs
           /\ Fail(IF CloseOrder[k] \in algs THEN "close" ELSE "closeOff", "off", 0)
  <2>1. pc' = "off" /\ failed \subseteq failed'
    BY <1>4
  <2>2. CASE CloseOrder[k] \in algs
    <3>1. "close" \in failed'
      BY <1>4, <2>2
    <3>2. QED
      BY <1>1, <1>4, <2>1, <3>1 DEF AlgInv, Algs
  <2>3. CASE CloseOrder[k] \notin algs
    <3>1. "closeOff" \in failed'
      BY <1>4, <2>3
    <3>2. algs \subseteq {"resample"} /\ "set" \in failed
      BY <1>1, <1>4, <2>3, CloseFails
    <3>3. algs' # {} => algs' = {"resample"} /\ {"set", "closeOff"} \subseteq failed'
      BY <1>4, <2>1, <3>1, <3>2
    <3>4. QED
      BY <1>1, <1>4, <2>1, <3>3 DEF AlgInv, Algs
  <2>4. QED
    BY <2>2, <2>3
<1>5. QED
  BY <1>1, <1>2, <1>3, <1>4

LEMMA AlgNext == AlgInv /\ [Next]_vars => AlgInv'
<1> SUFFICES ASSUME AlgInv, [Next]_vars PROVE AlgInv'
  OBVIOUS
<1> USE DEF Goto, Pass, Fail
<1>1. UNCHANGED wanted
  BY SettingsStay DEF settings
<1>2. CASE OpenFile \/ EnableDevice \/ Tune \/ Unwind
  <2>1. /\ pc \in {"files", "enable", "tune", "unwind"} /\ UNCHANGED algs
        /\ pc' \in {"files", "enable", "tune", "chn", "exit"}
    BY <1>2 DEF OpenFile, EnableDevice, Tune, Unwind, sdk
  <2>2. QED
    BY <1>1, <2>1 DEF AlgInv, Algs
<1>3. CASE EnableChn
  <2>1. pc = "chn" /\ UNCHANGED algs /\ algs = {} /\ wanted \subseteq Algs
    BY <1>3 DEF EnableChn, AlgInv
  <2>2. CASE pc' \in {"chn", "unwind"}
    BY <1>1, <2>1, <2>2 DEF AlgInv, Algs
  <2>3. CASE Pass("set", NextIn(SetOrder, 1))
    <3> DEFINE n == NextIn(SetOrder, 1)
    <3>1. /\ n \in 1..7 /\ (n = 7 \/ SetOrder[n] \in wanted)
          /\ \A l \in 1..n - 1 : SetOrder[l] \notin wanted
      BY NextInFact
    <3>2. pc' = "set" /\ k' = n
      BY <2>3
    <3> HIDE DEF n
    <3>3. \A j \in 1..6 : SetOrder[j] \in algs' <=> j < n /\ SetOrder[j] \in wanted
      BY <2>1, <3>1
    <3>4. QED
      BY <1>1, <2>1, <3>1, <3>2, <3>3 DEF AlgInv, Algs
  <2>4. QED
    BY <1>3, <2>2, <2>3 DEF EnableChn
<1>4. CASE SetAlg
  BY <1>1, <1>4, SetKeeps
<1>5. CASE CloseAlg
  BY <1>1, <1>5, CloseKeeps
<1>6. CASE Spawn \/ Join \/ JoinKills
  <2>1. UNCHANGED algs /\ failed \subseteq failed' /\ pc \in {"spawn", "join"}
    BY <1>6 DEF Spawn, Join, JoinKills, sdk
  <2>2. CASE pc' \in {"spawn", "join", "killed"}
    BY <1>1, <2>1, <2>2 DEF AlgInv, OnInOrder, Algs
  <2>3. CASE /\ pc = "join" /\ pc' = "close" /\ k' = NextIn(CloseOrder, 1)
             /\ UNCHANGED failed
    BY <1>1, <2>1, <2>3, CloseBegins
  <2>4. QED
    BY <1>6, <2>2, <2>3 DEF Spawn, Join, JoinKills
<1>7. CASE DisableChn \/ DisableDevice
  <2>1. /\ pc \in {"off", "down"} /\ pc' \in {"off", "down", "done", "exit"}
        /\ UNCHANGED algs /\ failed \subseteq failed'
    BY <1>7 DEF DisableChn, DisableDevice
  <2>2. QED
    BY <1>1, <2>1 DEF AlgInv, Algs
<1>8. CASE ~Main
  <2>1. UNCHANGED <<main, sdk, failed>>
    BY <1>8, OthersLeave
  <2>2. QED
    BY <1>1, <2>1 DEF AlgInv, OnInOrder, Algs, Passed, main, sdk
<1>9. QED
  BY <1>2, <1>3, <1>4, <1>5, <1>6, <1>7, <1>8 DEF Main

LEMMA DeviceInit == Init => DeviceInv
BY DEF Init, DeviceInv

LEMMA DeviceNext == CaptureInv /\ DeviceInv /\ [Next]_vars => DeviceInv'
<1> SUFFICES ASSUME CaptureInv, DeviceInv, [Next]_vars PROVE DeviceInv'
  OBVIOUS
<1> DEFINE n == Count
<1>1. /\ n \in Nat \ {0} /\ Threads = 0..n - 1
      /\ Threads' = Threads /\ Count' = n
      /\ \A c : Last(c) <=> c = n - 1
  BY ThreadsFact, SettingsStay DEF settings, Threads, Count, CaptureInv, TypeInv, PlaceType
<1>2. Count = n
  OBVIOUS
<1> HIDE DEF n
<1> USE DEF Goto, Pass, Fail
<1>3. CASE OpenFile
  BY <1>1, <1>3 DEF OpenFile, DeviceInv, sdk
<1>4. CASE EnableDevice
  BY <1>1, <1>4 DEF EnableDevice, DeviceInv
<1>5. CASE Tune
  BY <1>1, <1>5 DEF Tune, DeviceInv, sdk
<1>6. CASE EnableChn
  <2>1. k \in 0..n - 1 /\ pc = "chn"
    BY <1>2, <1>6 DEF EnableChn, CaptureInv, TypeInv, PlaceType
  <2>2. QED
    BY <1>1, <1>6, <2>1 DEF EnableChn, DeviceInv
<1>7. CASE Unwind
  BY <1>1, <1>7 DEF Unwind, DeviceInv
<1>8. CASE SetAlg
  BY <1>1, <1>8 DEF SetAlg, DeviceInv
<1>9. CASE Spawn \/ Join \/ JoinKills
  BY <1>1, <1>9 DEF Spawn, Join, JoinKills, DeviceInv, sdk
<1>10. CASE CloseAlg
  BY <1>1, <1>2, <1>10 DEF CloseAlg, DeviceInv
<1>11. CASE DisableChn
  <2>1. /\ pc = "off" /\ device /\ UNCHANGED device /\ k \in 0..n - 1
        /\ chnOn \subseteq 0..n - 1 /\ \A c \in 0..k - 1 : c \notin chnOn
    BY <1>1, <1>2, <1>11 DEF DisableChn, DeviceInv
  <2>2. CASE chnOn' = chnOn \ {k} /\ k = n - 1 /\ pc' = "down"
    BY <1>1, <2>1, <2>2 DEF DeviceInv
  <2>3. CASE chnOn' = chnOn \ {k} /\ k # n - 1 /\ pc' = "off" /\ k' = k + 1
    BY <1>1, <2>1, <2>3 DEF DeviceInv
  <2>4. CASE UNCHANGED chnOn /\ pc' = "exit"
    BY <1>1, <2>1, <2>4 DEF DeviceInv
  <2>5. QED
    BY <1>1, <1>11, <2>2, <2>3, <2>4 DEF DisableChn
<1>12. CASE DisableDevice
  BY <1>1, <1>12 DEF DisableDevice, DeviceInv
<1>13. CASE ~Main
  <2>1. UNCHANGED <<main, sdk, failed>>
    BY <1>13, OthersLeave
  <2>2. QED
    BY <1>1, <1>2, <2>1 DEF DeviceInv, main, sdk
<1>14. QED
  BY <1>3, <1>4, <1>5, <1>6, <1>7, <1>8, <1>9, <1>10, <1>11, <1>12, <1>13 DEF Main

\* What deinitAi leaves on after a failure: only the resampler when its own
\* call did not fail, and channels of a device that is off only when one of
\* them could not be enabled (audio_ai_par_close, the labels of initAi).
THEOREM OffInOrderCorrect == Spec => []OffInOrder
<1>1. AlgInv /\ DeviceInv => OffInOrder
  BY DEF AlgInv, DeviceInv, OffInOrder
<1>2. QED
  BY CaptureInit, CaptureNext, AlgInit, AlgNext, DeviceInit, DeviceNext, <1>1, PTL DEF Spec
=============================================================================
