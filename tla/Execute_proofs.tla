--------------------------- MODULE Execute_proofs ---------------------------
(***************************************************************************)
(* What holds of the command runner for every pipe, buffer and output.     *)
(***************************************************************************)
EXTENDS Execute, TLAPS

(* The inductive invariant *)

\* Before the loop the child has been read nothing, and before it is created
\* there is nothing to read.
BeforeLoop ==
  /\ child = "none" => written = 0 /\ pipe = 0 /\ request = 0
  /\ pc \in {"fstream", "pipe", "inherit", "create"} => child = "none"
  /\ pc \in {"fstream", "pipe", "inherit", "create", "close_writer"} =>
       stderr_output = 0 /\ ~success

\* The parent's count and the pipe are what the child has written.
ReadOrInPipe == InLoop \/ pc = "close_writer" => stderr_output + pipe = written

\* The loop is left after a wait that saw the child's end and a peek that then
\* found nothing; the parent gets no further without both.
LoopLeftEmpty ==
  /\ success => child = "exited"
  /\ pc = "trim" => pipe = 0 /\ success
  /\ pc \in {"exit_code", "close_process", "close_thread", "close_reader", "message", "returned"}
       => success

\* The handles that are open at each call, and the code that was looked at.
OpenHandles ==
  /\ InLoop \/ pc \in {"exit_code", "close_process"} =>
       handles \subseteq {"reader", "process", "thread"}
  /\ pc = "close_thread" => handles \subseteq {"reader", "thread"}
  /\ pc = "close_reader" => handles \subseteq {"reader"}
  /\ pc \in {"message", "returned"} => handles = {}

CodeSeen ==
  /\ pc \in {"close_process", "close_thread", "close_reader", "message"} =>
       process_exit \/ code = 0
  /\ pc = "returned" => code = 0

IInv ==
  /\ ExecuteTypeOK
  /\ BeforeLoop
  /\ ReadOrInPipe
  /\ LoopLeftEmpty
  /\ OpenHandles
  /\ CodeSeen

-----------------------------------------------------------------------------
(* The steps *)

LEMMA InitInv == ExecuteInit => IInv
<1> SUFFICES ASSUME ExecuteInit PROVE IInv
  OBVIOUS
<1>1. ExecuteTypeOK
  <2>1. pc \in Label
    BY DEF ExecuteInit, Label
  <2>2. success \in BOOLEAN /\ process_exit \in BOOLEAN
    BY DEF ExecuteInit
  <2>3. handles \subseteq {"reader", "writer", "process", "thread"}
    BY DEF ExecuteInit
  <2>4. child \in {"none", "running", "exited"}
    BY DEF ExecuteInit
  <2>5. stderr_output \in Nat /\ code \in {0, 1} /\ request \in Nat /\ written \in Nat
    BY DEF ExecuteInit
  <2>6. pipe \in 0 .. Capacity
    BY ExecuteAssumption DEF ExecuteInit
  <2> QED
    BY <2>1, <2>2, <2>3, <2>4, <2>5, <2>6 DEF ExecuteTypeOK
<1>2. BeforeLoop
  BY DEF ExecuteInit, BeforeLoop
<1>3. ReadOrInPipe
  BY DEF ExecuteInit, ReadOrInPipe, InLoop
<1>4. LoopLeftEmpty
  BY DEF ExecuteInit, LoopLeftEmpty
<1>5. OpenHandles
  BY DEF ExecuteInit, OpenHandles, InLoop
<1>6. CodeSeen
  BY DEF ExecuteInit, CodeSeen
<1> QED
  BY <1>1, <1>2, <1>3, <1>4, <1>5, <1>6 DEF IInv

\* A failed call leaves everything but the place in the program.
LEMMA FailsInv ==
  ASSUME IInv, Fails
  PROVE  IInv'
  BY DEF Fails, locals, IInv, ExecuteTypeOK, Label, BeforeLoop, ReadOrInPipe, InLoop, LoopLeftEmpty,
         OpenHandles, CodeSeen, dot

\* Up to the loop the parent opens handles and starts the child.
LEMMA StartInv ==
  ASSUME IInv,
         Win32CallFails \/ OpenFile \/ CreatePipe \/ SetHandleInformation \/ CreateProcess \/ CloseWriter
  PROVE  IInv'
<1>0. CASE Win32CallFails
  BY <1>0, FailsInv DEF Win32CallFails
<1>1. CASE OpenFile
  <2> USE <1>1 DEF OpenFile, IInv, locals, dot
  <2>1. ExecuteTypeOK'
    BY DEF ExecuteTypeOK, Label
  <2>2. BeforeLoop' /\ ReadOrInPipe'
    BY DEF ExecuteTypeOK, BeforeLoop, ReadOrInPipe, InLoop
  <2>3. LoopLeftEmpty'
    BY DEF ExecuteTypeOK, LoopLeftEmpty
  <2>4. OpenHandles' /\ CodeSeen'
    BY DEF ExecuteTypeOK, OpenHandles, InLoop, CodeSeen
  <2> QED
    BY <2>1, <2>2, <2>3, <2>4
<1>2. CASE CreatePipe
  <2> USE <1>2 DEF CreatePipe, IInv, locals, dot
  <2>1. ExecuteTypeOK'
    BY DEF ExecuteTypeOK, Label
  <2>2. BeforeLoop' /\ ReadOrInPipe'
    BY DEF ExecuteTypeOK, BeforeLoop, ReadOrInPipe, InLoop
  <2>3. LoopLeftEmpty'
    BY DEF ExecuteTypeOK, LoopLeftEmpty
  <2>4. OpenHandles' /\ CodeSeen'
    BY DEF ExecuteTypeOK, OpenHandles, InLoop, CodeSeen
  <2> QED
    BY <2>1, <2>2, <2>3, <2>4
<1>3. CASE SetHandleInformation
  <2> USE <1>3 DEF SetHandleInformation, IInv, locals, dot
  <2>1. ExecuteTypeOK'
    BY DEF ExecuteTypeOK, Label
  <2>2. BeforeLoop' /\ ReadOrInPipe'
    BY DEF ExecuteTypeOK, BeforeLoop, ReadOrInPipe, InLoop
  <2>3. LoopLeftEmpty'
    BY DEF ExecuteTypeOK, LoopLeftEmpty
  <2>4. OpenHandles' /\ CodeSeen'
    BY DEF ExecuteTypeOK, OpenHandles, InLoop, CodeSeen
  <2> QED
    BY <2>1, <2>2, <2>3, <2>4
<1>4. CASE CreateProcess
  <2> USE <1>4 DEF CreateProcess, IInv, locals, dot
  <2>1. ExecuteTypeOK'
    BY DEF ExecuteTypeOK, Label
  <2>2. BeforeLoop' /\ ReadOrInPipe'
    BY DEF ExecuteTypeOK, BeforeLoop, ReadOrInPipe, InLoop
  <2>3. LoopLeftEmpty'
    BY DEF ExecuteTypeOK, BeforeLoop, LoopLeftEmpty
  <2>4. OpenHandles' /\ CodeSeen'
    BY DEF ExecuteTypeOK, OpenHandles, InLoop, CodeSeen
  <2> QED
    BY <2>1, <2>2, <2>3, <2>4
<1>5. CASE CloseWriter
  <2> USE <1>5 DEF CloseWriter, IInv, locals, dot
  <2>1. ExecuteTypeOK'
    BY DEF ExecuteTypeOK, Label
  <2>2. BeforeLoop' /\ ReadOrInPipe'
    BY DEF ExecuteTypeOK, BeforeLoop, ReadOrInPipe, InLoop
  <2>3. LoopLeftEmpty'
    BY DEF ExecuteTypeOK, LoopLeftEmpty
  <2>4. OpenHandles' /\ CodeSeen'
    BY DEF ExecuteTypeOK, OpenHandles, InLoop, CodeSeen
  <2> QED
    BY <2>1, <2>2, <2>3, <2>4
<1> QED
  BY <1>0, <1>1, <1>2, <1>3, <1>4, <1>5

\* The loop moves characters from the pipe to the parent.
LEMMA LoopInv ==
  ASSUME IInv,
         Wait \/ Peek \/ Read \/ Trim
  PROVE  IInv'
<1>1. CASE Wait
  <2> USE <1>1 DEF Wait, IInv, locals, dot
  <2>1. ExecuteTypeOK'
    BY DEF ExecuteTypeOK, Label
  <2>2. BeforeLoop' /\ ReadOrInPipe'
    BY DEF ExecuteTypeOK, BeforeLoop, ReadOrInPipe, InLoop
  <2>3. LoopLeftEmpty'
    BY DEF ExecuteTypeOK, LoopLeftEmpty
  <2>4. OpenHandles' /\ CodeSeen'
    BY DEF ExecuteTypeOK, OpenHandles, InLoop, CodeSeen
  <2> QED
    BY <2>1, <2>2, <2>3, <2>4
<1>2. CASE Peek
  <2> USE <1>2 DEF Peek, IInv, locals, dot
  <2>1. ExecuteTypeOK'
    BY DEF ExecuteTypeOK, Label
  <2>2. BeforeLoop' /\ ReadOrInPipe'
    BY DEF ExecuteTypeOK, BeforeLoop, ReadOrInPipe, InLoop
  <2>3. LoopLeftEmpty'
    BY DEF ExecuteTypeOK, LoopLeftEmpty
  <2>4. OpenHandles' /\ CodeSeen'
    BY DEF ExecuteTypeOK, OpenHandles, InLoop, CodeSeen
  <2> QED
    BY <2>1, <2>2, <2>3, <2>4
<1>3. CASE Read
  <2> USE <1>3 DEF Read, IInv, locals, dot
  <2>1. ExecuteTypeOK'
    BY ExecuteAssumption DEF ExecuteTypeOK, Label
  <2>2. BeforeLoop' /\ ReadOrInPipe'
    BY ExecuteAssumption DEF ExecuteTypeOK, BeforeLoop, ReadOrInPipe, InLoop
  <2>3. LoopLeftEmpty'
    BY DEF ExecuteTypeOK, LoopLeftEmpty
  <2>4. OpenHandles' /\ CodeSeen'
    BY DEF ExecuteTypeOK, OpenHandles, InLoop, CodeSeen
  <2> QED
    BY <2>1, <2>2, <2>3, <2>4
<1>4. CASE Trim
  <2> USE <1>4 DEF Trim, IInv, locals, dot
  <2>1. ExecuteTypeOK'
    BY DEF ExecuteTypeOK, Label
  <2>2. BeforeLoop' /\ ReadOrInPipe'
    BY DEF ExecuteTypeOK, BeforeLoop, ReadOrInPipe, InLoop
  <2>3. LoopLeftEmpty'
    BY DEF ExecuteTypeOK, LoopLeftEmpty
  <2>4. OpenHandles' /\ CodeSeen'
    BY DEF ExecuteTypeOK, OpenHandles, InLoop, CodeSeen
  <2> QED
    BY <2>1, <2>2, <2>3, <2>4
<1> QED
  BY <1>1, <1>2, <1>3, <1>4

\* After the loop the exit code is looked at and the handles are closed.
LEMMA GetExitCodeInv ==
  ASSUME IInv, GetExitCode
  PROVE  IInv'
<1>1. /\ pc = "exit_code" /\ pc' \in {"close_process", "thrown"}
      /\ UNCHANGED <<handles, success, stderr_output, child, code, request, pipe, written>>
  BY DEF GetExitCode, FormatCode, dot
<1>2. process_exit' \in BOOLEAN /\ (pc' = "close_process" => process_exit' \/ code' = 0)
  <2>1. CASE code # 0 /\ FormatCode
    BY <1>1, <2>1 DEF FormatCode, IInv, ExecuteTypeOK, dot
  <2>2. CASE code = 0 /\ UNCHANGED process_exit
    BY <1>1, <2>2 DEF IInv, ExecuteTypeOK, dot
  <2> QED
    BY <2>1, <2>2 DEF GetExitCode
<1>3. ExecuteTypeOK'
  BY <1>1, <1>2 DEF IInv, ExecuteTypeOK, Label
<1>4. BeforeLoop' /\ ReadOrInPipe'
  BY <1>1 DEF IInv, BeforeLoop, ReadOrInPipe, InLoop
<1>5. LoopLeftEmpty'
  BY <1>1 DEF IInv, LoopLeftEmpty
<1>6. OpenHandles'
  BY <1>1 DEF IInv, OpenHandles, InLoop
<1>7. CodeSeen'
  BY <1>1, <1>2 DEF CodeSeen
<1> QED
  BY <1>3, <1>4, <1>5, <1>6, <1>7 DEF IInv

LEMMA CloseHandleInv ==
  ASSUME IInv, NEW at, NEW handle, NEW next,
         <<at, handle, next>> \in {<<"close_process", "process", "close_thread">>,
                                   <<"close_thread", "thread", "close_reader">>,
                                   <<"close_reader", "reader", "message">>},
         CloseHandle(at, handle, next)
  PROVE  IInv'
<1>1. /\ pc = at /\ pc' = next
      /\ handles' = handles \ {handle}
      /\ UNCHANGED <<success, stderr_output, process_exit, child, code, request, pipe, written>>
  BY DEF CloseHandle, dot
<1>2. \/ at = "close_process" /\ handle = "process" /\ next = "close_thread"
      \/ at = "close_thread" /\ handle = "thread" /\ next = "close_reader"
      \/ at = "close_reader" /\ handle = "reader" /\ next = "message"
  OBVIOUS
<1>3. ExecuteTypeOK'
  BY <1>1, <1>2 DEF IInv, ExecuteTypeOK, Label
<1>4. BeforeLoop' /\ ReadOrInPipe'
  BY <1>1, <1>2 DEF IInv, BeforeLoop, ReadOrInPipe, InLoop
<1>5. LoopLeftEmpty'
  BY <1>1, <1>2 DEF IInv, LoopLeftEmpty
<1>6. OpenHandles'
  BY <1>1, <1>2 DEF IInv, OpenHandles, InLoop
<1>7. CodeSeen'
  BY <1>1, <1>2 DEF IInv, CodeSeen
<1> QED
  BY <1>3, <1>4, <1>5, <1>6, <1>7 DEF IInv

LEMMA CheckMessageInv ==
  ASSUME IInv, CheckMessage
  PROVE  IInv'
<1>1. /\ pc = "message"
      /\ UNCHANGED <<handles, success, stderr_output, process_exit, child, code, request, pipe,
                     written>>
  BY DEF CheckMessage, locals, dot
<1>2. pc' = "thrown" \/ (pc' = "returned" /\ ~process_exit)
  BY Zenon DEF CheckMessage
<1>3. ExecuteTypeOK'
  BY <1>1, <1>2 DEF IInv, ExecuteTypeOK, Label
<1>4. BeforeLoop' /\ ReadOrInPipe'
  BY <1>1, <1>2 DEF IInv, BeforeLoop, ReadOrInPipe, InLoop
<1>5. LoopLeftEmpty'
  BY <1>1, <1>2 DEF IInv, LoopLeftEmpty
<1>6. OpenHandles'
  BY <1>1, <1>2 DEF IInv, OpenHandles, InLoop
<1>7. CodeSeen'
  BY <1>1, <1>2 DEF IInv, CodeSeen
<1> QED
  BY <1>3, <1>4, <1>5, <1>6, <1>7 DEF IInv

\* The child writes what the pipe has room for, and exits once.
LEMMA ChildInv ==
  ASSUME IInv,
         BeginWrite \/ FillPipe \/ Exit
  PROVE  IInv'
<1>1. CASE BeginWrite
  <2> USE <1>1 DEF BeginWrite, IInv, parent, locals
  <2>1. ExecuteTypeOK'
    BY DEF ExecuteTypeOK, Label
  <2>2. BeforeLoop' /\ ReadOrInPipe'
    BY DEF ExecuteTypeOK, BeforeLoop, ReadOrInPipe, InLoop
  <2>3. LoopLeftEmpty'
    BY DEF ExecuteTypeOK, LoopLeftEmpty
  <2>4. OpenHandles' /\ CodeSeen'
    BY DEF ExecuteTypeOK, OpenHandles, InLoop, CodeSeen
  <2> QED
    BY <2>1, <2>2, <2>3, <2>4
<1>2. CASE FillPipe
  <2> USE <1>2 DEF FillPipe, IInv, parent, locals
  <2>1. ExecuteTypeOK'
    BY ExecuteAssumption DEF ExecuteTypeOK, Label
  <2>2. BeforeLoop' /\ ReadOrInPipe'
    BY ExecuteAssumption DEF ExecuteTypeOK, BeforeLoop, ReadOrInPipe, InLoop
  <2>3. LoopLeftEmpty'
    BY DEF ExecuteTypeOK, LoopLeftEmpty
  <2>4. OpenHandles' /\ CodeSeen'
    BY DEF ExecuteTypeOK, OpenHandles, InLoop, CodeSeen
  <2> QED
    BY <2>1, <2>2, <2>3, <2>4
<1>3. CASE Exit
  <2> USE <1>3 DEF Exit, IInv, parent, locals
  <2>1. ExecuteTypeOK'
    BY DEF ExecuteTypeOK, Label
  <2>2. BeforeLoop' /\ ReadOrInPipe'
    BY DEF ExecuteTypeOK, BeforeLoop, ReadOrInPipe, InLoop
  <2>3. LoopLeftEmpty'
    BY DEF ExecuteTypeOK, LoopLeftEmpty
  <2>4. OpenHandles' /\ CodeSeen'
    BY DEF ExecuteTypeOK, LoopLeftEmpty, OpenHandles, InLoop, CodeSeen
  <2> QED
    BY <2>1, <2>2, <2>3, <2>4
<1> QED
  BY <1>1, <1>2, <1>3

-----------------------------------------------------------------------------
(* The theorems *)

LEMMA NextInv == IInv /\ [ExecuteNext]_execute => IInv'
<1> SUFFICES ASSUME IInv, [ExecuteNext]_execute PROVE IInv'
  OBVIOUS
<1>1. CASE Parent
  <2>1. CASE \/ Win32CallFails \/ OpenFile \/ CreatePipe \/ SetHandleInformation
             \/ CreateProcess \/ CloseWriter
    BY <2>1, StartInv
  <2>2. CASE Wait \/ Peek \/ Read \/ Trim
    BY <2>2, LoopInv
  <2>3. CASE GetExitCode
    BY <2>3, GetExitCodeInv
  <2>4. CASE CloseHandle("close_process", "process", "close_thread")
    BY <2>4, CloseHandleInv
  <2>5. CASE CloseHandle("close_thread", "thread", "close_reader")
    BY <2>5, CloseHandleInv
  <2>6. CASE CloseHandle("close_reader", "reader", "message")
    BY <2>6, CloseHandleInv
  <2>7. CASE CheckMessage
    BY <2>7, CheckMessageInv
  <2> QED
    BY <1>1, <2>1, <2>2, <2>3, <2>4, <2>5, <2>6, <2>7 DEF Parent
<1>2. CASE Child
  BY <1>2, ChildInv DEF Child
<1>3. CASE UNCHANGED execute
  <2> USE <1>3 DEF IInv, execute, parent, locals, dot
  <2>1. ExecuteTypeOK'
    BY DEF ExecuteTypeOK, Label
  <2>2. BeforeLoop' /\ ReadOrInPipe'
    BY DEF BeforeLoop, ReadOrInPipe, InLoop
  <2>3. LoopLeftEmpty' /\ OpenHandles' /\ CodeSeen'
    BY DEF LoopLeftEmpty, OpenHandles, CodeSeen, InLoop
  <2> QED
    BY <2>1, <2>2, <2>3
<1> QED
  BY <1>1, <1>2, <1>3 DEF ExecuteNext

LEMMA InductiveInvariant == ExecuteSafety => []IInv
  BY InitInv, NextInv, PTL DEF ExecuteSafety

\* The variables of parent and child keep their types (execute.cpp:15-100).
THEOREM TypeCorrect == ExecuteSafety => []ExecuteTypeOK
<1>1. IInv => ExecuteTypeOK
  BY DEF IInv
<1> QED
  BY <1>1, InductiveInvariant, PTL

\* All that the child writes to stderr is read once, and the loop ends only
\* behind it, for every size of the pipe and of the buffer (execute.cpp:66-78).
THEOREM NoOutputLost == ExecuteSafety => []AllOutputRead
<1>1. IInv => AllOutputRead
  BY DEF IInv, AllOutputRead, ReadOrInPipe, LoopLeftEmpty, InLoop, ExecuteTypeOK
<1> QED
  BY <1>1, InductiveInvariant, PTL

\* graphviz::execute returns normally only when the child has exited with 0 and
\* every handle is closed (execute.cpp:86-99, graphviz.cpp:33-41).
THEOREM ReturnIsSuccess == ExecuteSafety => []ReturnMeansSuccess
<1>1. IInv => ReturnMeansSuccess
  BY DEF IInv, ReturnMeansSuccess, LoopLeftEmpty, OpenHandles, CodeSeen
<1> QED
  BY <1>1, InductiveInvariant, PTL

=============================================================================
