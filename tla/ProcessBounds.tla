---------------------------- MODULE ProcessBounds ----------------------------
(***************************************************************************)
(* run_bounded_subprocess (process_bounds.py): a child process, a thread   *)
(* per pipe that drains it, and the caller, which waits for the child,     *)
(* kills it at the timeout, joins the threads and closes the pipes.        *)
(* Output is counted in characters; what is retained is always a prefix.   *)
(***************************************************************************)
EXTENDS Integers

CONSTANTS
  Bound,       \* max_stdout_chars and max_stderr_chars
  Chunk,       \* _READ_CHUNK
  Capacity,    \* of a pipe
  MaxOutput    \* bound: characters written to one pipe

Stream == {"stdout", "stderr"}

ASSUME BoundsAssumption ==
  /\ Bound \in [Stream -> Nat]
  /\ Chunk \in Nat \ {0} /\ Capacity \in Nat \ {0} /\ MaxOutput \in Nat

VARIABLES
  caller,     \* what the calling thread does, with which stream
  timedOut,   \* timed_out
  child,      \* "runs", "exited" by itself, "killed"
  heirs,      \* streams that a process started by the child holds open
  written,    \* characters written to each pipe
  bad,        \* which of them is not UTF-8; 0 if all are
  taken,      \* characters read from each pipe
  drain,      \* _drain_stream of each pipe
  closed      \* pipes that the caller has closed

subprocess == <<caller, timedOut, child, heirs, written, bad, taken, drain, closed>>

Smaller(a, b) == IF a <= b THEN a ELSE b

\* A drain is "between" two reads of the pipe, in one ("reading": it holds the lock of the
\* buffer and may block), or has ended: at "eof", at "undecodable" output, or as the
\* pipe was "closed" under it.  decoded waits in the text layer, for a whole chunk.
Draining == {"between", "reading"}
Drained == {"eof", "undecodable", "closed"}

SubprocessInit ==
  /\ caller = [does |-> "wait", stream |-> "stdout"]
  /\ timedOut = FALSE
  /\ child = "runs"
  /\ heirs = {}
  /\ written = [s \in Stream |-> 0]
  /\ bad \in [Stream -> 0..MaxOutput]
  /\ taken = [s \in Stream |-> 0]
  /\ drain = [s \in Stream |-> [pc |-> "between", decoded |-> 0, retained |-> 0, truncated |-> FALSE]]
  /\ closed = [s \in Stream |-> FALSE]

HeldOpen(s) == child = "runs" \/ s \in heirs

-----------------------------------------------------------------------------
(* The child and what it starts                                            *)

\* What is written after the call has returned does not concern it.
Write(s) ==
  /\ HeldOpen(s) /\ caller.does # "returned"
  /\ written[s] < MaxOutput /\ written[s] - taken[s] < Capacity
  /\ written' = [written EXCEPT ![s] = @ + 1]
  /\ UNCHANGED <<caller, timedOut, child, heirs, bad, taken, drain, closed>>

\* A process started in the background inherits pipes and survives the child.
Fork ==
  /\ child = "runs" /\ heirs = {}
  /\ heirs' \in (SUBSET Stream) \ {{}}
  /\ UNCHANGED <<caller, timedOut, child, written, bad, taken, drain, closed>>

HeirEnds ==
  /\ heirs # {} /\ heirs' = {}
  /\ UNCHANGED <<caller, timedOut, child, written, bad, taken, drain, closed>>

Exit ==
  /\ child = "runs" /\ child' = "exited"
  /\ UNCHANGED <<caller, timedOut, heirs, written, bad, taken, drain, closed>>

-----------------------------------------------------------------------------
(* _drain_stream                                                           *)

\* A block reaches the loop; the rest of the output is still read, and thrown away.
Retain_OffByOne(d, block, room, then) ==
  [pc |-> then, decoded |-> d.decoded - block, retained |-> d.retained + Smaller(block, room),
   truncated |-> d.truncated \/ (block >= room /\ block > 0)]

Retain(d, block, room, then) ==
  [pc |-> then, decoded |-> d.decoded - block, retained |-> d.retained + Smaller(block, room),
   truncated |-> d.truncated \/ block > room]

Room(s) == Bound[s] - drain[s].retained

\* stream.read looks at the pipe only when the text layer has no whole chunk.
Enter(s) ==
  /\ drain[s].pc = "between" /\ drain[s].decoded < Chunk /\ ~closed[s]
  /\ drain' = [drain EXCEPT ![s].pc = "reading"]
  /\ UNCHANGED <<caller, timedOut, child, heirs, written, bad, taken, closed>>

\* The read returns with what there is and decodes it.
Read(s) ==
  /\ drain[s].pc = "reading" /\ taken[s] < written[s]
  /\ taken' = [taken EXCEPT ![s] = written[s]]
  /\ drain' = [drain EXCEPT ![s].pc =
                  IF bad[s] \in taken[s] + 1 .. written[s] THEN "undecodable" ELSE "between",
                            ![s].decoded = @ + written[s] - taken[s]]
  /\ UNCHANGED <<caller, timedOut, child, heirs, written, bad, closed>>

KeepsReading_ToBound(s) == drain[s].retained < Bound[s]

KeepsReading(s) == TRUE

Deliver(s) ==
  /\ drain[s].pc = "between" /\ drain[s].decoded >= Chunk
  /\ drain' = [drain EXCEPT ![s] =
                 Retain(@, Chunk, Room(s), IF KeepsReading(s) THEN "between" ELSE "eof")]
  /\ UNCHANGED <<caller, timedOut, child, heirs, written, bad, taken, closed>>

\* The last block is the rest; the read after it is empty.
Eof(s) ==
  /\ drain[s].pc = "reading" /\ taken[s] = written[s] /\ ~HeldOpen(s)
  /\ drain' = [drain EXCEPT ![s] = Retain(@, @.decoded, Room(s), "eof")]
  /\ UNCHANGED <<caller, timedOut, child, heirs, written, bad, taken, closed>>

ReadClosed(s) ==
  /\ drain[s].pc = "between" /\ closed[s]
  /\ drain' = [drain EXCEPT ![s].pc = "closed"]
  /\ UNCHANGED <<caller, timedOut, child, heirs, written, bad, taken, closed>>

-----------------------------------------------------------------------------
(* run_bounded_subprocess                                                  *)

\* stdout before stderr in each of the loops that the code has unrolled.
After == [join |-> "close", close |-> "last_join", last_join |-> "returned"]

Advance ==
  caller' = IF caller.stream = "stdout" THEN [caller EXCEPT !.stream = "stderr"]
            ELSE [does |-> After[caller.does], stream |-> "stdout"]

Reap ==
  /\ caller.does = "wait" /\ child # "runs"
  /\ caller' = [caller EXCEPT !.does = "join"]
  /\ UNCHANGED <<timedOut, child, heirs, written, bad, taken, drain, closed>>

Expires_Never == FALSE

Expires == child = "runs"

\* process.wait raises TimeoutExpired; the child may still end before the kill.
Expire ==
  /\ caller.does = "wait" /\ Expires
  /\ timedOut' = TRUE
  /\ caller' = [caller EXCEPT !.does = "kill"]
  /\ UNCHANGED <<child, heirs, written, bad, taken, drain, closed>>

\* Only the child is killed.
Kill ==
  /\ caller.does = "kill"
  /\ child' = IF child = "runs" THEN "killed" ELSE child
  /\ caller' = [caller EXCEPT !.does = "join"]
  /\ UNCHANGED <<timedOut, heirs, written, bad, taken, drain, closed>>

\* join(timeout=5), and join(timeout=1) after the pipes were closed.
Join ==
  /\ caller.does \in {"join", "last_join"} /\ drain[caller.stream].pc \in Drained
  /\ Advance
  /\ UNCHANGED <<timedOut, child, heirs, written, bad, taken, drain, closed>>

\* A thread that can go on ends within seconds: only one with nothing to read is given up.
LeaveThread ==
  /\ caller.does \in {"join", "last_join"}
  /\ LET s == caller.stream IN drain[s].pc = "reading" /\ taken[s] = written[s] /\ HeldOpen(s)
  /\ Advance
  /\ UNCHANGED <<timedOut, child, heirs, written, bad, taken, drain, closed>>

\* close takes the lock of the buffer: it waits for a read in progress.
Close ==
  /\ caller.does = "close" /\ drain[caller.stream].pc # "reading"
  /\ closed' = [closed EXCEPT ![caller.stream] = TRUE]
  /\ Advance
  /\ UNCHANGED <<timedOut, child, heirs, written, bad, taken, drain>>

-----------------------------------------------------------------------------
(* Specification                                                           *)

Caller == Reap \/ Expire \/ Kill \/ Join \/ LeaveThread \/ Close
Drain(s) == Enter(s) \/ Read(s) \/ Deliver(s) \/ Eof(s) \/ ReadClosed(s)
Outside == Fork \/ HeirEnds \/ Exit \/ \E s \in Stream : Write(s)

Done == caller.does = "returned" /\ UNCHANGED subprocess

SubprocessNext == Caller \/ Outside \/ (\E s \in Stream : Drain(s)) \/ Done

\* Threads of a program run, timeouts expire.  Nothing is assumed of the child.
Fairness == WF_subprocess(Caller) /\ \A s \in Stream : WF_subprocess(Drain(s))

SubprocessSpec == SubprocessInit /\ [][SubprocessNext]_subprocess /\ Fairness

-----------------------------------------------------------------------------
(* Properties                                                              *)

\* As long as the caller waits, a pipe stops being drained only when nobody holds it any
\* more or at output that is not UTF-8: until then a child that writes is never stuck
\* behind the bound.
DrainsToTheEnd ==
  \A s \in Stream :
    drain[s].pc \in Drained /\ ~closed[s]
      => \/ taken[s] = written[s] /\ ~HeldOpen(s)
         \/ bad[s] \in 1..taken[s]

\* No more than the bound is kept, and never marked as cut when it is all there; a pipe is read
\* to its end, and then kept up to the bound and marked exactly if it was longer.
ResultIsTruthful ==
  /\ DrainsToTheEnd
  /\ \A s \in Stream :
       /\ drain[s].retained <= Bound[s]
       /\ drain[s].truncated => drain[s].retained = Bound[s] /\ written[s] > Bound[s]
       /\ drain[s].pc = "eof" =>
            /\ drain[s].retained = Smaller(Bound[s], written[s])
            /\ drain[s].truncated <=> written[s] > Bound[s]

\* The call returns if what the child has started in the background ends, whatever the
\* child does.
CallReturns == <>[](heirs = {}) => <>(caller.does = "returned")

-----------------------------------------------------------------------------
(* A claim of the documentation that the code does not keep                *)

\* "Run a process with bounded retained output and hard timeout."
HardTimeout == <>(caller.does = "returned")
=============================================================================
