------------------------------ MODULE VdecStream ------------------------------
(***************************************************************************)
(* 10.video: ST_VdecSendStream, the thread that reads an H.264 file NALU   *)
(* by NALU and pushes it into the video decoder, round and round.          *)
(*                                                                         *)
(* ssd20x_h264_play_test1 collects the slices of a frame in pSlice2FrmBuf  *)
(* (_bFrmMode), ssd20x_h264_play_test2 pushes every NALU as it is read.    *)
(* The decoder and its queue belong to the SDK: MI_VDEC_SendStream fails   *)
(* when its timeout runs out before the decoder has taken something.       *)
(*                                                                         *)
(* A NALU is its number in the file; lengths are counted in NALUs.         *)
(***************************************************************************)
EXTENDS Integers, Sequences, SequencesExt

CONSTANTS
  MaxNalus,   \* bound: NALUs in a file
  QueueSize,  \* what the decoder queues before it refuses
  MaxFrmBuf   \* bound: NALUs in pSlice2FrmBuf when a frame is refused

ASSUME VdecAssumption ==
  /\ MaxNalus \in Nat /\ QueueSize \in Nat \ {0} /\ MaxFrmBuf \in Nat

VARIABLES
  _bFrmMode,      \* which of the two programs
  file,           \* for every NALU of the file, its first_mb bit
  pos,            \* the NALU at which the file pointer is
  bFirstFrm,      \* the bit as the thread knows it
  pSlice2FrmBuf,  \* the NALUs in the frame buffer, up to u32WrPtr
  queue,          \* what the decoder has accepted and not decoded yet
  got,            \* history: the last NALU accepted, 0 before the first
  refused         \* history: whether a send has ever failed

vvars == <<_bFrmMode, file, pos, bFirstFrm, pSlice2FrmBuf, queue, got, refused>>

\* The bit is set for the parameter set and the first slice of a frame: a
\* file has such a NALU before its last one.
Files ==
  {f \in UNION {[1..n -> BOOLEAN] : n \in 2..MaxNalus} :
     \E i \in 1..Len(f) - 1 : f[i]}

VInit ==
  /\ _bFrmMode \in BOOLEAN
  /\ file \in Files
  /\ pos = 1
  /\ bFirstFrm = FALSE
  /\ pSlice2FrmBuf = <<>>
  /\ queue = <<>>
  /\ got = 0
  /\ refused = FALSE

-----------------------------------------------------------------------------
(* GetAnnexbNALU *)

\* Where the file pointer is when NALU n has been read: at the end of the file
\* it goes back to the beginning at once.
AfterRead(n) == IF n = Len(file) THEN 1 ELSE n + 1

\* The last NALU is handed out without its start code, so that the thread does
\* not recognise it and keeps the bit of the one before it.
FirstBit(n) == IF n = Len(file) THEN bFirstFrm ELSE file[n]

\* Mutant: the refused NALU is not read again.
FseekNot(n) == AfterRead(n)

\* Mutant: the file is read from its beginning again.
FseekRewinds(n) == 1

\* fseek by the length of NALU n, back from where reading it left the pointer.
\* After the last one that would be before the beginning: fseek fails.
FseekBack(n) == IF n = Len(file) THEN AfterRead(n) ELSE n

-----------------------------------------------------------------------------
(* ST_VdecSendStream *)

Full == Len(queue) = QueueSize

Accept(chunk) ==
  /\ ~Full
  /\ queue' = Append(queue, chunk)
  /\ got' = Last(chunk)
  /\ UNCHANGED refused

Refuse ==
  /\ Full
  /\ refused' = TRUE
  /\ UNCHANGED <<queue, got>>

\* Mutant: u32WrPtr is not reset.
FlushFrameKeeps(n) ==
  \/ /\ Accept(pSlice2FrmBuf)
     /\ pos' = AfterRead(n)
     /\ pSlice2FrmBuf' = Append(pSlice2FrmBuf, n)
  \/ /\ Refuse
     /\ Len(pSlice2FrmBuf) <= MaxFrmBuf
     /\ pos' = FseekBack(n)
     /\ pSlice2FrmBuf' = pSlice2FrmBuf \o pSlice2FrmBuf

\* A frame begins with NALU n: what has been collected is a frame.
FlushFrame(n) ==
  \/ /\ Accept(pSlice2FrmBuf)
     /\ pos' = AfterRead(n)
     /\ pSlice2FrmBuf' = <<n>>
  \/ /\ Refuse
     /\ Len(pSlice2FrmBuf) <= MaxFrmBuf
     /\ pos' = FseekBack(n)
     \* pu8Addr and u32Len still are those of the frame buffer
     /\ pSlice2FrmBuf' = pSlice2FrmBuf \o pSlice2FrmBuf

CollectSlice(n) ==
  /\ pSlice2FrmBuf' = Append(pSlice2FrmBuf, n)
  /\ pos' = AfterRead(n)
  /\ UNCHANGED <<queue, got, refused>>

PushSlice(n) ==
  /\ \/ Accept(<<n>>) /\ pos' = AfterRead(n)
     \/ Refuse /\ pos' = FseekBack(n)
  /\ UNCHANGED pSlice2FrmBuf

\* One iteration of the thread's loop; without _bFrmMode nobody reads the bit.
SendStream ==
  /\ bFirstFrm' = (_bFrmMode /\ FirstBit(pos))
  /\ IF ~_bFrmMode THEN PushSlice(pos)
     ELSE IF pSlice2FrmBuf # <<>> /\ bFirstFrm' THEN FlushFrame(pos)
     ELSE CollectSlice(pos)
  /\ UNCHANGED <<_bFrmMode, file>>

\* The decoder decodes what it was given first.
DecodeOne ==
  /\ queue # <<>>
  /\ queue' = Tail(queue)
  /\ UNCHANGED <<_bFrmMode, file, pos, bFirstFrm, pSlice2FrmBuf, got, refused>>

VNext == SendStream \/ DecodeOne

\* The thread loops without ever waiting for longer than 30 ms, and the decoder
\* decodes what it has.
VSpec == VInit /\ [][VNext]_vvars /\ WF_vvars(SendStream) /\ WF_vvars(DecodeOne)

-----------------------------------------------------------------------------
Nalus == 1..Len(file)
Following(n) == IF n < Len(file) THEN n + 1 ELSE 1

\* Every variable keeps its type: the pointer is inside the file, and the
\* decoder is never given an empty frame.
VTypeOK ==
  /\ _bFrmMode \in BOOLEAN
  /\ file \in Files
  /\ pos \in Nalus
  /\ bFirstFrm \in BOOLEAN
  /\ pSlice2FrmBuf \in Seq(Nalus)
  /\ queue \in Seq(Seq(Nalus) \ {<<>>}) /\ Len(queue) <= QueueSize
  /\ got \in Nalus \cup {0}
  /\ refused \in BOOLEAN

Accepted == Len(queue') > Len(queue)
Chunk == queue'[Len(queue')]

\* Pushing NALU by NALU (l.245-250 of test2), the decoder gets them in the
\* order of the file, none left out and none twice, however often it refuses;
\* only the last of the file may be left out, which is not tried again.
SliceOrder ==
  [][~_bFrmMode /\ Accepted =>
       /\ Len(Chunk) = 1
       /\ \/ Chunk[1] = IF got = 0 THEN 1 ELSE Following(got)
          \/ got = Len(file) - 1 /\ refused /\ Chunk[1] = 1]_vvars

\* What the thread takes for the beginning of a frame: a NALU whose bit is set,
\* where the file's last one has the bit of the one before it.
Begins(n) == IF n = Len(file) THEN file[n - 1] ELSE file[n]

\* Until the decoder refuses for the first time, what it gets are the frames of
\* the file in order: all NALUs from one beginning to just before the next
\* (l.325-383 of test1).
FrameWhole ==
  [][_bFrmMode /\ ~refused' /\ Accepted =>
       /\ Chunk[1] = IF got = 0 THEN 1 ELSE Following(got)
       /\ \A i \in 2..Len(Chunk) :
            Chunk[i] = Following(Chunk[i - 1]) /\ ~Begins(Chunk[i])
       /\ Begins(Following(Last(Chunk)))]_vvars

\* Every NALU but the file's last reaches the decoder again and again, even if
\* the decoder refuses whatever comes while its queue is full.
Replays ==
  \A n \in 1..MaxNalus : ~_bFrmMode /\ n < Len(file) ~> got = n

\* A frame that was refused is sent again as it was: "if send stream failed,
\* file pointer back length" (l.215 of test1).
FrameOnce == \A i \in 1..Len(queue) : IsInjective(queue[i])
=============================================================================
