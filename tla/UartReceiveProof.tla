-------------------------- MODULE UartReceiveProof --------------------------
(***************************************************************************)
(* Proofs about UartReceive, for buffers of any size, any number of bytes  *)
(* and any contents: what is read and not printed is in the buffer, and    *)
(* each of the three programs implements ByteStream.                       *)
(***************************************************************************)
EXTENDS UartReceive, SequenceTheorems, TLAPS

Inv == TypeOK /\ BufferIsPending

\* What is used of a read: how much it moves and what it leaves in the buffer.
LEMMA ReadCountFact ==
  ASSUME NEW len \in Nat, arrived \in Seq(Kinds), taken \in 0..Len(arrived)
  PROVE  /\ ReadCount(len) \in 0..len
         /\ taken + ReadCount(len) \in 0..Len(arrived)
  BY DEF ReadCount, Waiting

\* A read into a cleared buffer.
LEMMA FreshRead ==
  ASSUME UartAssumption, TypeOK, done = taken
  PROVE  LET n == ReadCount(Cap + 1) IN
         /\ n \in 0..Cap + 1
         /\ taken + n \in 0..Len(arrived)
         /\ Filled(Cleared, 0, n) =
              [i \in Index |-> IF i < n THEN done + 1 + i ELSE 0]
<1>1. Cap + 1 \in Nat
  BY DEF UartAssumption
<1>2. arrived \in Seq(Kinds) /\ taken \in 0..Len(arrived)
  BY DEF TypeOK
<1>3. ReadCount(Cap + 1) \in 0..Cap + 1 /\ taken + ReadCount(Cap + 1) \in 0..Len(arrived)
  BY <1>1, <1>2, ReadCountFact
<1>4. Len(arrived) \in Nat
  BY <1>2
<1> QED
  BY <1>1, <1>2, <1>3, <1>4 DEF Filled, Cleared, Index, UartAssumption

\* Printing a buffer that holds the bytes after done, up to upTo, hands them
\* over as ByteStream says.
LEMMA PrintHandsOver ==
  ASSUME UartAssumption, TypeOK,
         NEW upTo \in Nat, upTo \in done..Len(arrived), upTo - done <= Cap + 1,
         NEW buf,
         buf = [i \in Index |-> IF i < upTo - done THEN done + 1 + i ELSE 0],
         Printf(buf, upTo), UNCHANGED arrived
  PROVE  Stream!BNext /\ done' = upTo /\ piece' \in Seq(1..done')
<1>1. PICK n \in 0..Cap + 1 :
        IsStrLen(buf, n) /\ piece' = [i \in 1..n |-> buf[i - 1]]
  BY DEF Printf
<1>2. done' = upTo
  BY DEF Printf
<1>3. done \in Nat /\ Cap \in Nat /\ Len(arrived) \in Nat
  BY DEF TypeOK, UartAssumption
<1>4. \A i \in 0..n - 1 : i < upTo - done /\ buf[i] = done + 1 + i /\ arrived[done + 1 + i] # "nul"
  <2> SUFFICES ASSUME NEW i \in 0..n - 1
               PROVE  i < upTo - done /\ buf[i] = done + 1 + i /\ arrived[done + 1 + i] # "nul"
    OBVIOUS
  <2>1. i \in Index
    BY <1>3 DEF Index
  <2>2. buf[i] \in 1..Len(arrived) /\ arrived[buf[i]] # "nul"
    BY <1>1 DEF IsStrLen, Visible
  <2>3. buf[i] = IF i < upTo - done THEN done + 1 + i ELSE 0
    BY <2>1
  <2>4. i < upTo - done
    BY <2>2, <2>3
  <2> QED
    BY <2>2, <2>3, <2>4
<1>5. n <= upTo - done
  <2>1. CASE n = 0
    BY <2>1, <1>3
  <2>2. CASE n # 0
    <3>1. n - 1 \in 0..n - 1
      BY <2>2, <1>3
    <3>2. n - 1 < upTo - done
      BY <3>1, <1>4
    <3> QED
      BY <3>2, <1>3
  <2> QED
    BY <2>1, <2>2
<1>6. n \in 0..upTo - done
  BY <1>5, <1>3
<1>7. \A i \in 1..n : i - 1 \in 0..n - 1 /\ done + 1 + (i - 1) = done + i
  BY <1>3
<1>8. piece' = [i \in 1..n |-> done + i]
  BY <1>1, <1>4, <1>7
<1>9. \A i \in 1..n : arrived[done + i] # "nul"
  BY <1>4, <1>7
<1>10. n = upTo - done \/ arrived[done + n + 1] = "nul"
  <2>1. SUFFICES ASSUME n # upTo - done
                 PROVE  arrived[done + n + 1] = "nul"
    OBVIOUS
  <2>2. n \in Index /\ n < upTo - done
    BY <2>1, <1>5, <1>3 DEF Index
  <2>3. buf[n] = done + 1 + n /\ done + 1 + n \in 1..Len(arrived) /\ done + 1 + n = done + n + 1
    BY <2>2, <1>3
  <2> QED
    BY <2>2, <2>3, <1>1 DEF IsStrLen, Visible
<1>11. Stream!HandOver(upTo, n)
  BY <1>2, <1>8, <1>9, <1>10 DEF Stream!HandOver
<1>12. Stream!BNext
  BY <1>6, <1>11 DEF Stream!BNext
<1>13. piece' \in Seq(1..done')
  <2>1. \A i \in 1..n : done + i \in 1..upTo
    BY <1>6, <1>3
  <2>2. n \in Nat
    BY <1>3
  <2> QED
    BY <1>8, <1>2, <2>1, <2>2
<1> QED
  BY <1>2, <1>12, <1>13

-----------------------------------------------------------------------------
(* One lemma per action: it keeps the invariant, and it hands bytes over as  *)
(* ByteStream says or does nothing that ByteStream sees.                     *)

StreamStep == Stream!BNext \/ UNCHANGED Stream!bvars

LEMMA ArriveStep ==
  ASSUME UartAssumption, Inv, NEW k \in Kinds, Arrive(k)
  PROVE  Inv' /\ StreamStep
<1> USE DEF Inv
<1>1. /\ arrived' = Append(arrived, k)
      /\ arrived' \in Seq(Kinds) /\ Len(arrived') = Len(arrived) + 1 /\ Len(arrived) \in Nat
      /\ UNCHANGED <<taken, recv_data, total, remain, pc, flag, done, piece, program, stray>>
  BY DEF Arrive, TypeOK, const
<1>2. sigio' \in BOOLEAN
  BY DEF Arrive
<1>3. TypeOK'
  BY <1>1, <1>2 DEF TypeOK
<1>4. BufferIsPending'
  BY <1>1 DEF BufferIsPending
<1>5. Stream!BNext
  BY <1>1 DEF Stream!BNext, Stream!Receive
<1> QED
  BY <1>3, <1>4, <1>5 DEF StreamStep

LEMMA BusyLoopStep ==
  ASSUME UartAssumption, Inv, BusyLoop
  PROVE  Inv' /\ StreamStep
<1> USE DEF Inv
<1> DEFINE n == ReadCount(Cap + 1)
<1>1. done = taken /\ pc = "read"
  BY DEF BufferIsPending, BusyLoop, TypeOK
<1>2. /\ n \in 0..Cap + 1 /\ taken + n \in 0..Len(arrived)
      /\ Filled(Cleared, 0, n) = [i \in Index |-> IF i < n THEN done + 1 + i ELSE 0]
  BY <1>1, FreshRead
<1>3. /\ program = "busy" /\ recv_data' = Filled(Cleared, 0, n) /\ total' = n /\ taken' = taken + n
      /\ IF n > 0 THEN Printf(recv_data', taken') ELSE UNCHANGED <<done, piece>>
      /\ UNCHANGED <<remain, pc, flag, arrived, sigio, program, stray>>
  BY DEF BusyLoop, port, const
<1>4. taken \in Nat /\ Len(arrived) \in Nat /\ Cap \in Nat /\ done \in Nat
  BY DEF TypeOK, UartAssumption
<1> HIDE DEF n
<1>5. done' = taken' /\ piece' \in Seq(1..done') /\ StreamStep
  <2>1. CASE n > 0
    <3>1. Printf(recv_data', taken')
      BY <2>1, <1>3
    <3>2. taken' \in Nat /\ taken' \in done..Len(arrived) /\ taken' - done <= Cap + 1
      BY <1>1, <1>2, <1>3, <1>4
    <3>3. recv_data' = [i \in Index |-> IF i < taken' - done THEN done + 1 + i ELSE 0]
      BY <1>1, <1>2, <1>3, <1>4
    <3> QED
      BY <3>1, <3>2, <3>3, <1>3, PrintHandsOver DEF StreamStep
  <2>2. CASE ~(n > 0)
    <3>1. UNCHANGED <<done, piece>> /\ taken' = taken
      BY <2>2, <1>2, <1>3, <1>4
    <3> QED
      BY <3>1, <1>1, <1>3 DEF StreamStep, Stream!bvars, TypeOK
  <2> QED
    BY <2>1, <2>2
<1>6. recv_data' \in [Index -> 0..taken']
  BY <1>1, <1>2, <1>3, <1>4 DEF Index
<1>7. TypeOK'
  BY <1>2, <1>3, <1>4, <1>5, <1>6 DEF TypeOK
<1>8. BufferIsPending'
  BY <1>1, <1>3, <1>5 DEF BufferIsPending
<1> QED
  BY <1>5, <1>7, <1>8

\* Printing a line and starting the next one.
LEMMA FlushLineStep ==
  ASSUME UartAssumption, Inv, program = "poll", NEW upTo \in Nat, NEW buf,
         upTo \in taken..Len(arrived), upTo - done <= Cap,
         buf = [i \in Index |-> IF i < upTo - done THEN done + 1 + i ELSE 0],
         FlushLine(buf, upTo), taken' = upTo, pc' \in {"poll", "read"},
         UNCHANGED <<flag, port, const>>
  PROVE  Inv' /\ StreamStep
<1> USE DEF Inv
<1>1. /\ Printf(buf, upTo) /\ recv_data' = Cleared /\ total' = 0 /\ remain' = 0
      /\ UNCHANGED <<flag, arrived, sigio, program, stray>>
  BY DEF FlushLine, port, const
<1>2. done \in Nat /\ taken \in Nat /\ done <= taken /\ Cap \in Nat \ {0}
  BY DEF TypeOK, UartAssumption
<1>3. upTo \in done..Len(arrived) /\ upTo - done <= Cap + 1
  BY <1>2
<1>4. Stream!BNext /\ done' = upTo /\ piece' \in Seq(1..done')
  BY <1>1, <1>3, PrintHandsOver
<1>5. TypeOK'
  BY <1>1, <1>2, <1>4 DEF TypeOK, Cleared, Index
<1>6. BufferIsPending'
  BY <1>1, <1>2, <1>4 DEF BufferIsPending, Cleared, Index
<1> QED
  BY <1>4, <1>5, <1>6 DEF StreamStep

LEMMA PollTimeoutStep ==
  ASSUME UartAssumption, Inv, PollTimeout
  PROVE  Inv' /\ StreamStep
<1> USE DEF Inv
<1>1. program = "poll" /\ UNCHANGED <<taken, pc, flag, port, const>>
  BY DEF PollTimeout
<1>2. CASE total > 0
  <2>1. FlushLine(recv_data, taken)
    BY <1>2 DEF PollTimeout
  <2>2. recv_data = [i \in Index |-> IF i < taken - done THEN done + 1 + i ELSE 0]
        /\ taken - done < Cap
    BY <1>1 DEF BufferIsPending
  <2>3. taken \in Nat /\ taken \in taken..Len(arrived) /\ taken - done <= Cap
    BY <2>2 DEF TypeOK, UartAssumption
  <2>4. taken' = taken /\ pc' \in {"poll", "read"}
    BY <1>1 DEF TypeOK
  <2> QED
    BY <1>1, <2>1, <2>2, <2>3, <2>4, FlushLineStep
<1>3. CASE ~(total > 0)
  <2>1. UNCHANGED <<recv_data, total, remain, done, piece>>
    BY <1>3 DEF PollTimeout
  <2>2. UNCHANGED vars
    BY <2>1, <1>1 DEF vars, port, const
  <2> QED
    BY <2>2 DEF vars, TypeOK, BufferIsPending, StreamStep, Stream!bvars
<1> QED
  BY <1>2, <1>3

LEMMA PollReadStep ==
  ASSUME UartAssumption, Inv, PollRead
  PROVE  Inv' /\ StreamStep
<1> USE DEF Inv
<1> DEFINE n == ReadCount(remain)
           buf == Filled(recv_data, total, n)
           len == total + n
<1>1. program = "poll" /\ pc' = "poll" /\ taken' = taken + n /\ UNCHANGED <<flag, port, const>>
  BY DEF PollRead
<1>2. IF len = Cap \/ LastIsNewline(buf, len)
        THEN FlushLine(buf, taken')
        ELSE recv_data' = buf /\ total' = len /\ remain' = Cap - len /\ UNCHANGED <<done, piece>>
  BY DEF PollRead
<1>3. /\ total = taken - done /\ total < Cap /\ remain \in Nat /\ remain <= Cap - total
      /\ recv_data = [i \in Index |-> IF i < total THEN done + 1 + i ELSE 0]
  BY <1>1 DEF BufferIsPending, TypeOK
<1>4. /\ taken \in Nat /\ done \in Nat /\ Cap \in Nat \ {0} /\ Len(arrived) \in Nat
      /\ done <= taken /\ total \in Nat
      /\ arrived \in Seq(Kinds) /\ taken \in 0..Len(arrived)
  BY DEF TypeOK, UartAssumption
<1>5. n \in 0..remain /\ taken + n \in 0..Len(arrived)
  BY <1>3, <1>4, ReadCountFact
<1>6. buf = [i \in Index |-> IF i < taken' - done THEN done + 1 + i ELSE 0]
  BY <1>1, <1>3, <1>4, <1>5 DEF Filled, Index
<1>7. len \in 0..Cap /\ len = taken' - done
  BY <1>1, <1>3, <1>4, <1>5
<1> HIDE DEF n, buf, len
<1>8. CASE len = Cap \/ LastIsNewline(buf, len)
  <2>1. FlushLine(buf, taken')
    BY <1>8, <1>2
  <2>2. taken' \in Nat /\ taken' \in taken..Len(arrived) /\ taken' - done <= Cap
    BY <1>1, <1>4, <1>5, <1>7
  <2> QED
    BY <2>1, <2>2, <1>1, <1>6, FlushLineStep
<1>9. CASE ~(len = Cap \/ LastIsNewline(buf, len))
  <2>1. recv_data' = buf /\ total' = len /\ remain' = Cap - len /\ UNCHANGED <<done, piece>>
    BY <1>9, <1>2
  <2>2. len < Cap
    BY <1>9, <1>7, <1>4
  <2>3. UNCHANGED <<arrived, sigio, program, stray, flag>>
    BY <1>1 DEF port, const
  <2>4. recv_data' \in [Index -> 0..taken']
    BY <2>1, <1>1, <1>4, <1>5, <1>6 DEF Index
  <2>5. taken' \in 0..Len(arrived) /\ done \in 0..taken' /\ total' \in 0..Cap + 1
        /\ remain' \in 0..Cap
    BY <2>1, <1>1, <1>4, <1>5, <1>7
  <2>6. pc' = "poll" /\ program' = "poll"
    BY <1>1, <2>3
  <2>7. piece' \in Seq(1..done') /\ UNCHANGED done
    BY <2>1 DEF TypeOK
  <2>8. TypeOK'
    BY <2>3, <2>4, <2>5, <2>6, <2>7 DEF TypeOK
  <2>9. BufferIsPending'
    BY <2>1, <2>2, <2>3, <1>1, <1>4, <1>5, <1>6, <1>7 DEF BufferIsPending
  <2> QED
    BY <2>1, <2>3, <2>8, <2>9 DEF StreamStep, Stream!bvars
<1> QED
  BY <1>8, <1>9

LEMMA ReadDataStep ==
  ASSUME UartAssumption, Inv, ReadData
  PROVE  Inv' /\ StreamStep
<1> USE DEF Inv
<1> DEFINE n == ReadCount(Cap + 1)
<1>1. done = taken
  BY DEF BufferIsPending, ReadData
<1>2. /\ n \in 0..Cap + 1 /\ taken + n \in 0..Len(arrived)
      /\ Filled(Cleared, 0, n) = [i \in Index |-> IF i < n THEN done + 1 + i ELSE 0]
  BY <1>1, FreshRead
<1>3. /\ program = "signal" /\ recv_data' = Filled(Cleared, 0, n) /\ total' = n /\ taken' = taken + n
      /\ pc' = "print"
      /\ UNCHANGED <<remain, flag, done, piece, arrived, sigio, program, stray>>
  BY DEF ReadData, port, const
<1>4. taken \in Nat /\ Len(arrived) \in Nat /\ Cap \in Nat /\ done \in Nat
  BY DEF TypeOK, UartAssumption
<1> HIDE DEF n
<1>5. recv_data' \in [Index -> 0..taken']
  BY <1>1, <1>2, <1>3, <1>4 DEF Index
<1>6. TypeOK'
  BY <1>1, <1>2, <1>3, <1>4, <1>5 DEF TypeOK
<1>7. BufferIsPending'
  BY <1>1, <1>2, <1>3, <1>4 DEF BufferIsPending
<1> QED
  BY <1>3, <1>6, <1>7 DEF StreamStep, Stream!bvars

LEMMA PrintDataStep ==
  ASSUME UartAssumption, Inv, PrintData
  PROVE  Inv' /\ StreamStep
<1> USE DEF Inv
<1>1. /\ program = "signal" /\ pc = "print" /\ Printf(recv_data, taken) /\ pc' = "clear"
      /\ UNCHANGED <<taken, recv_data, total, remain, flag, arrived, sigio, program, stray>>
  BY DEF PrintData, port, const
<1>2. total = taken - done /\ recv_data = [i \in Index |-> IF i < taken - done THEN done + 1 + i ELSE 0]
  BY <1>1 DEF BufferIsPending
<1>3. taken \in Nat /\ taken \in done..Len(arrived) /\ taken - done <= Cap + 1
  BY <1>2 DEF TypeOK, UartAssumption
<1>4. Stream!BNext /\ done' = taken /\ piece' \in Seq(1..done')
  BY <1>1, <1>2, <1>3, PrintHandsOver
<1>5. TypeOK'
  BY <1>1, <1>3, <1>4 DEF TypeOK
<1>6. BufferIsPending'
  BY <1>1, <1>4 DEF BufferIsPending
<1> QED
  BY <1>4, <1>5, <1>6 DEF StreamStep

\* The steps that only move pc, the flag or the pending signal.
LEMMA QuietStep ==
  ASSUME UartAssumption, Inv,
         PollIn \/ SetAsync \/ Sleep \/ CheckFlag \/ ClearFlag \/ Handler
  PROVE  Inv' /\ StreamStep
<1> USE DEF Inv
<1>1. UNCHANGED <<program, arrived, taken, recv_data, total, remain, stray, done, piece>>
  BY DEF PollIn, SetAsync, Sleep, CheckFlag, ClearFlag, Handler, port, const
<1>2. flag' \in BOOLEAN /\ sigio' \in BOOLEAN
  BY DEF PollIn, SetAsync, Sleep, CheckFlag, ClearFlag, Handler, port, const, TypeOK
<1>3. /\ pc' = "print" <=> pc = "print"
      /\ pc' \in CASE program = "busy" -> {"read"}
                   [] program = "poll" -> {"poll", "read"}
                   [] OTHER -> {"setup", "sleep", "asleep", "check", "read", "print", "clear"}
  BY DEF PollIn, SetAsync, Sleep, CheckFlag, ClearFlag, Handler, TypeOK
<1>4. TypeOK'
  BY <1>1, <1>2, <1>3 DEF TypeOK
<1>5. BufferIsPending'
  BY <1>1, <1>3 DEF BufferIsPending
<1> QED
  BY <1>1, <1>4, <1>5 DEF StreamStep, Stream!bvars

-----------------------------------------------------------------------------
LEMMA InitInv == Init => Inv
<1> SUFFICES ASSUME Init PROVE Inv
  OBVIOUS
<1>1. Cap \in Nat \ {0}
  BY UartAssumption DEF UartAssumption
<1>2. arrived \in Seq(Kinds) /\ Len(arrived) = 0 /\ piece \in Seq(1..done)
  BY EmptySeq DEF Init
<1>3. recv_data \in [Index -> 0..taken]
  BY <1>1 DEF Init, Cleared, Index
<1>4. /\ program \in {"busy", "poll", "signal"} /\ taken = 0 /\ done = 0 /\ total = 0 /\ remain = 0
      /\ stray \in BOOLEAN /\ flag \in BOOLEAN /\ sigio \in BOOLEAN
      /\ pc \in CASE program = "busy" -> {"read"}
                  [] program = "poll" -> {"poll", "read"}
                  [] OTHER -> {"setup", "sleep", "asleep", "check", "read", "print", "clear"}
  BY DEF Init
<1>5. TypeOK
  BY <1>1, <1>2, <1>3, <1>4 DEF TypeOK
<1>6. BufferIsPending
  BY <1>1 DEF Init, BufferIsPending, Cleared, Index
<1> QED
  BY <1>5, <1>6 DEF Inv

LEMMA NextInv == Inv /\ [Next]_vars => Inv' /\ StreamStep
<1> SUFFICES ASSUME Inv, [Next]_vars
             PROVE  Inv' /\ StreamStep
  OBVIOUS
<1>1. CASE UNCHANGED vars
  BY <1>1 DEF vars, Inv, TypeOK, BufferIsPending, StreamStep, Stream!bvars
<1>2. CASE Next
  BY <1>2, ArriveStep, BusyLoopStep, PollTimeoutStep, PollReadStep, ReadDataStep,
     PrintDataStep, QuietStep, UartAssumption DEF UartAssumption, Next, Program
<1> QED
  BY <1>1, <1>2

\* Every variable keeps its type and every program stays where it can be.
THEOREM TypeCorrect == Spec => []TypeOK
<1>1. Inv /\ [Next]_vars => Inv'
  BY NextInv
<1>2. Inv => TypeOK
  BY DEF Inv
<1> QED
  BY InitInv, <1>1, <1>2, PTL DEF Spec

\* What has been read and not printed is in the buffer, and nothing else.
THEOREM BufferCorrect == Spec => []BufferIsPending
<1>1. Inv /\ [Next]_vars => Inv'
  BY NextInv
<1>2. Inv => BufferIsPending
  BY DEF Inv
<1> QED
  BY InitInv, <1>1, <1>2, PTL DEF Spec

\* Each of the three programs implements ByteStream.
THEOREM StreamCorrect == Spec => PrintsStream
<1>1. Init => Stream!BInit
  BY DEF Init, Stream!BInit
<1>2. Inv /\ [Next]_vars => Inv'
  BY NextInv
<1>3. Inv /\ [Next]_vars => [Stream!BNext]_(Stream!bvars)
  BY NextInv DEF StreamStep
<1> QED
  BY InitInv, <1>1, <1>2, <1>3, PTL DEF Spec, PrintsStream, Stream!BSpec
=============================================================================
