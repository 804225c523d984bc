---------------------------- MODULE UartReceive ----------------------------
(***************************************************************************)
(* 9.uart: three programs that print what a serial port receives.          *)
(*                                                                         *)
(*   busy    uart_test2 reads in a loop without waiting                    *)
(*   poll    uart_test3_poll waits in poll() and collects a line           *)
(*   signal  uart_test4_signal sleeps until SIGIO                          *)
(*                                                                         *)
(* The port is external: it queues what arrives, and once FASYNC is set it *)
(* raises SIGIO for what comes in.  A pending SIGIO is raised only once.   *)
(* uart_open sets VMIN and VTIME to 0, so that a read never waits.         *)
(***************************************************************************)
EXTENDS Integers, Sequences

CONSTANTS
  Cap,       \* recv_data_len: 1023 in the code, one byte less than a buffer
  MaxBytes   \* bound: bytes that arrive

ASSUME UartAssumption == Cap \in Nat \ {0} /\ MaxBytes \in Nat

Kinds == {"chr", "nl", "nul"}

VARIABLES
  program,    \* which of the three
  arrived,    \* the bytes that have arrived, each by its kind
  taken,      \* how many of them have been read from the port
  recv_data,  \* the buffer: the number of a byte, or 0 where it is cleared
  total,      \* total_data_len of test3, res of test4, reg of test2
  remain,     \* remain_data_len of test3
  stray,      \* whether the byte before recv_data happens to be '\n'
  pc,         \* where the program is
  flag,       \* test4: set by the signal handler
  sigio,      \* test4: SIGIO is pending
  done,       \* history: how many bytes have been printed
  piece       \* history: what was printed last

vars == <<program, arrived, taken, recv_data, total, remain, stray, pc, flag,
          sigio, done, piece>>
port == <<arrived, sigio>>
const == <<program, stray>>

Index == 0..Cap
Cleared == [i \in Index |-> 0]
Waiting == Len(arrived) - taken

Init ==
  /\ program \in {"busy", "poll", "signal"}
  /\ arrived = <<>>
  /\ taken = 0
  /\ recv_data = Cleared
  /\ total = 0
  /\ remain = 0
  /\ stray \in BOOLEAN
  /\ pc = CASE program = "busy" -> "read" [] program = "poll" -> "poll"
            [] OTHER -> "setup"
  /\ flag = FALSE
  /\ sigio = FALSE
  /\ done = 0
  /\ piece = <<>>

-----------------------------------------------------------------------------
(* The port *)

\* A byte comes in; before fcntl has set FASYNC nobody is told.
Arrive(k) ==
  /\ Len(arrived) < MaxBytes
  /\ arrived' = Append(arrived, k)
  /\ sigio' = (program = "signal" /\ pc # "setup")
  /\ UNCHANGED <<taken, recv_data, total, remain, pc, flag, done, piece, const>>

\* uart_read_data(fd, &recv_data[at], len): n bytes are moved.
ReadCount(len) == IF Waiting < len THEN Waiting ELSE len
Filled(buf, at, n) ==
  [i \in Index |-> IF i \in at..at + n - 1 THEN taken + 1 + i - at ELSE buf[i]]

\* Where "%s" stops in buf: at the first zero byte.  A buffer that is full has
\* none; what then follows in memory is left out.
Visible == {b \in 1..Len(arrived) : arrived[b] # "nul"}
IsStrLen(buf, n) ==
  /\ \A i \in 0..n - 1 : buf[i] \in Visible
  /\ n \in Index => buf[n] \notin Visible

Printf(buf, upTo) ==
  /\ \E n \in 0..Cap + 1 :
       IsStrLen(buf, n) /\ piece' = [i \in 1..n |-> buf[i - 1]]
  /\ done' = upTo

-----------------------------------------------------------------------------
(* uart_test2 *)

\* The buffer is cleared, read into and printed if there was something.  A read
\* that fills it puts the '\0' of data[reg] behind its end.
BusyLoop ==
  /\ program = "busy"
  /\ LET n == ReadCount(Cap + 1) IN
       /\ recv_data' = Filled(Cleared, 0, n)
       /\ total' = n
       /\ taken' = taken + n
       /\ IF n > 0 THEN Printf(recv_data', taken') ELSE UNCHANGED <<done, piece>>
  /\ UNCHANGED <<remain, pc, flag, port, const>>

-----------------------------------------------------------------------------
(* uart_recv_pthread of uart_test3_poll *)

\* Mutant: the buffer is not cleared.
FlushLineStale(buf, upTo) ==
  /\ Printf(buf, upTo)
  /\ recv_data' = buf
  /\ total' = 0
  /\ remain' = 0

\* The line is printed and the buffer made empty.
FlushLine(buf, upTo) ==
  /\ Printf(buf, upTo)
  /\ recv_data' = Cleared
  /\ total' = 0
  /\ remain' = 0

\* poll() finds something to read ...
PollIn ==
  /\ program = "poll" /\ pc = "poll"
  /\ Waiting > 0
  /\ pc' = "read"
  /\ UNCHANGED <<taken, recv_data, total, remain, flag, done, piece, port, const>>

\* Mutant: what has been collected waits for the end of its line.
PollTimeoutNoPrint ==
  /\ program = "poll" /\ pc = "poll"
  /\ Waiting = 0
  /\ UNCHANGED <<taken, recv_data, total, remain, pc, flag, done, piece, port, const>>

\* ... or 500 ms pass: what has been collected is printed.
PollTimeout ==
  /\ program = "poll" /\ pc = "poll"
  /\ Waiting = 0
  /\ IF total > 0 THEN FlushLine(recv_data, taken)
                  ELSE UNCHANGED <<recv_data, total, remain, done, piece>>
  /\ UNCHANGED <<taken, pc, flag, port, const>>

\* recv_data[total_data_len - 1] == '\n', which looks at index -1 when nothing
\* has been read yet.
LastIsNewline(buf, len) ==
  IF len = 0 THEN stray ELSE arrived[buf[len - 1]] = "nl"

PollRead ==
  /\ program = "poll" /\ pc = "read"
  /\ LET n == ReadCount(remain)
         buf == Filled(recv_data, total, n)
         len == total + n
     IN /\ taken' = taken + n
        /\ IF len = Cap \/ LastIsNewline(buf, len)
             THEN FlushLine(buf, taken')
             ELSE /\ recv_data' = buf
                  /\ total' = len
                  /\ remain' = Cap - len
                  /\ UNCHANGED <<done, piece>>
  /\ pc' = "poll"
  /\ UNCHANGED <<flag, port, const>>

-----------------------------------------------------------------------------
(* main of uart_test4_signal *)

\* The handler runs between any two steps of main; it ends a sleep.
Handler ==
  /\ sigio
  /\ sigio' = FALSE
  /\ flag' = TRUE
  /\ pc' = IF pc = "asleep" THEN "check" ELSE pc
  /\ UNCHANGED <<arrived, taken, recv_data, total, remain, done, piece, const>>

\* F_SETFL with FASYNC, after which SIGIO is raised.
SetAsync ==
  /\ program = "signal" /\ pc = "setup"
  /\ pc' = "sleep"
  /\ UNCHANGED <<taken, recv_data, total, remain, flag, done, piece, port, const>>

\* sleep(-1): it cannot look whether a signal has come just before.
Sleep ==
  /\ program = "signal" /\ pc = "sleep"
  /\ pc' = "asleep"
  /\ UNCHANGED <<taken, recv_data, total, remain, flag, done, piece, port, const>>

CheckFlag ==
  /\ program = "signal" /\ pc = "check"
  /\ pc' = IF flag THEN "read" ELSE "sleep"
  /\ UNCHANGED <<taken, recv_data, total, remain, flag, done, piece, port, const>>

ReadData ==
  /\ program = "signal" /\ pc = "read"
  /\ LET n == ReadCount(Cap + 1) IN
       /\ recv_data' = Filled(Cleared, 0, n)
       /\ total' = n
       /\ taken' = taken + n
  /\ pc' = "print"
  /\ UNCHANGED <<remain, flag, done, piece, port, const>>

PrintData ==
  /\ program = "signal" /\ pc = "print"
  /\ Printf(recv_data, taken)
  /\ pc' = "clear"
  /\ UNCHANGED <<taken, recv_data, total, remain, flag, port, const>>

ClearFlag ==
  /\ program = "signal" /\ pc = "clear"
  /\ flag' = FALSE
  /\ pc' = "sleep"
  /\ UNCHANGED <<taken, recv_data, total, remain, done, piece, port, const>>

Program ==
  \/ BusyLoop
  \/ PollIn \/ PollTimeout \/ PollRead
  \/ SetAsync \/ Sleep \/ CheckFlag \/ ReadData \/ PrintData \/ ClearFlag

Next == Program \/ Handler \/ \E k \in Kinds : Arrive(k)

Spec == Init /\ [][Next]_vars

\* The program runs unless it sleeps, poll times out, and a pending signal is
\* delivered; that bytes arrive is not assumed.
FairSpec == Spec /\ WF_vars(Program) /\ WF_vars(Handler)

-----------------------------------------------------------------------------
Stream == INSTANCE ByteStream WITH arrived <- arrived, done <- done, piece <- piece

\* Each program prints the bytes of the line in order and each once, piece by
\* piece, none of its buffers shows a byte of an earlier piece again (memset
\* at l.44 and 71 of test3, l.55 of test4, l.22 of test2).
PrintsStream == Stream!BSpec

\* The type of every variable, and where each program can be.
TypeOK ==
  /\ program \in {"busy", "poll", "signal"} /\ stray \in BOOLEAN
  /\ arrived \in Seq(Kinds)
  /\ taken \in 0..Len(arrived) /\ done \in 0..taken
  /\ recv_data \in [Index -> 0..taken]
  /\ total \in 0..Cap + 1 /\ remain \in 0..Cap
  /\ pc \in CASE program = "busy" -> {"read"}
              [] program = "poll" -> {"poll", "read"}
              [] OTHER -> {"setup", "sleep", "asleep", "check", "read", "print", "clear"}
  /\ flag \in BOOLEAN /\ sigio \in BOOLEAN
  /\ piece \in Seq(1..done)

\* What has been read and not printed yet is in the buffer, in order, and the
\* rest of the buffer is cleared.  Only test3 keeps something there from one
\* read to the next, and the next one has room for it and for a zero byte
\* (l.57, 64-65 of test3; l.55-62 of test4).
BufferIsPending ==
  /\ IF program = "poll" \/ pc = "print"
       THEN /\ total = taken - done
            /\ recv_data = [i \in Index |-> IF i < total THEN done + 1 + i ELSE 0]
       ELSE done = taken
  /\ program = "poll" =>
       /\ total < Cap
       /\ remain = Cap - total \/ (remain = 0 /\ total = 0)

\* What arrives is printed in the end by test2, and by test3 unless the byte
\* before its buffer happens to be '\n'.  test4 promises less: a SIGIO that
\* finds it asleep gets bytes that wait printed.
PrintedInTheEnd ==
  /\ program = "busy" \/ (program = "poll" /\ ~stray) =>
       \A n \in 1..MaxBytes : Len(arrived) >= n ~> done >= n
  /\ \A n \in 0..MaxBytes :
       pc = "asleep" /\ sigio /\ taken < Len(arrived) /\ done = n ~> done > n

\* "Sleep for ever, but an interrupt that comes wakes it" (l.52 of test4): it
\* does not sleep after a handler has set the flag.
WokenByHandler == pc = "asleep" => ~flag
=============================================================================
