------------------------------ MODULE Execute ------------------------------
(***************************************************************************)
(* command::graphviz::execute and command::execute: run `dot` on the       *)
(* definition as a child process and read its stderr through a pipe.       *)
(* Parent and child are two processes; text is counted, not spelled.  The  *)
(* child, the pipe and the failures of the Win32 calls are external.  A    *)
(* failure to peek or read is not modelled: the parent is the only reader  *)
(* and keeps its handle open.  Finish.tla runs this inside DBTFinish.      *)
(***************************************************************************)
EXTENDS Integers

CONSTANTS Capacity,    \* of the pipe: CreatePipe's default
          ReadSize,    \* sizeof(buffer): 0xff
          MaxOutput    \* characters the child may write before it exits

ASSUME ExecuteAssumption ==
  Capacity \in Nat \ {0} /\ ReadSize \in Nat \ {0} /\ MaxOutput \in Nat

VARIABLES pc,              \* the parent's next call
          handles,         \* the parent's open handles
          success,         \* the last wait saw the child's end
          stderr_output,   \* characters read
          process_exit,    \* the exit code's text is not empty
          child,           \* the child process
          code,            \* its exit code
          request,         \* characters of its WriteFile not in the pipe yet
          pipe,            \* characters in the pipe
          written          \* history: characters the child has put in the pipe

locals == <<handles, success, stderr_output, process_exit>>
parent == <<pc, locals>>
dot == <<child, code, request, pipe, written>>
execute == <<parent, dot>>

Label == {"fstream", "pipe", "inherit", "create", "close_writer", "wait", "peek", "read",
          "trim", "exit_code", "close_process", "close_thread", "close_reader", "message",
          "returned", "thrown", "terminated"}

Win32Call == {"pipe", "inherit", "close_writer", "exit_code",
              "close_process", "close_thread", "close_reader"}

-----------------------------------------------------------------------------
(* The parent, before the child runs                                        *)

\* `throw ex(error::win32, ...)`: the text of the last error is looked up in a
\* noexcept context(), and the look-up throws if the system has none.
Fails == pc' \in {"thrown", "terminated"} /\ UNCHANGED <<locals, dot>>

Win32CallFails == pc \in Win32Call /\ Fails

OpenFile ==
  /\ pc = "fstream"
  /\ pc' \in {"pipe", "thrown"}
  /\ UNCHANGED <<locals, dot>>

CreatePipe ==
  /\ pc = "pipe"
  /\ pc' = "inherit"
  /\ handles' = {"reader", "writer"}
  /\ UNCHANGED <<success, stderr_output, process_exit, dot>>

SetHandleInformation ==
  /\ pc = "inherit"
  /\ pc' = "create"
  /\ UNCHANGED <<locals, dot>>

CreateProcess ==
  /\ pc = "create"
  /\ pc' = "close_writer"
  /\ \/ /\ child' = "running"
        /\ handles' = handles \cup {"process", "thread"}
     \/ UNCHANGED <<child, handles>>
  /\ UNCHANGED <<success, stderr_output, process_exit, code, request, pipe, written>>

\* A failed CreateProcess throws only now, and leaves the reader open.
CloseWriter ==
  /\ pc = "close_writer"
  /\ pc' \in IF child = "none" THEN {"thrown", "terminated"} ELSE {"wait"}
  /\ handles' = handles \ {"writer"}
  /\ UNCHANGED <<success, stderr_output, process_exit, dot>>

-----------------------------------------------------------------------------
(* The loop around the pipe *)

\* Mutant: the wait has no timeout.
WaitForExit ==
  /\ pc = "wait"
  /\ child = "exited"
  /\ success' = TRUE
  /\ pc' = "peek"
  /\ UNCHANGED <<handles, stderr_output, process_exit, dot>>

\* Mutant: a child that has ended is not read from again.
WaitThenTrim ==
  /\ pc = "wait"
  /\ success' = (child = "exited")
  /\ pc' = IF success' THEN "trim" ELSE "peek"
  /\ UNCHANGED <<handles, stderr_output, process_exit, dot>>

\* WaitForSingleObject: the child's end or 50 ms.
Wait ==
  /\ pc = "wait"
  /\ success' = (child = "exited")
  /\ pc' = "peek"
  /\ UNCHANGED <<handles, stderr_output, process_exit, dot>>

Peek ==
  /\ pc = "peek"
  /\ pc' = IF pipe # 0 THEN "read" ELSE IF success THEN "trim" ELSE "wait"
  /\ UNCHANGED <<locals, dot>>

Read ==
  /\ pc = "read"
  /\ LET n == IF pipe < ReadSize THEN pipe ELSE ReadSize IN
       /\ pipe' = pipe - n
       /\ stderr_output' = stderr_output + n
  /\ pc' = "peek"
  /\ UNCHANGED <<handles, success, process_exit, child, code, request, written>>

\* Mutant: an empty output is trimmed as well.
TrimAlways ==
  /\ pc = "trim"
  /\ pc' = IF stderr_output = 1 THEN "thrown" ELSE "exit_code"
  /\ stderr_output' = stderr_output - 2
  /\ UNCHANGED <<handles, success, process_exit, dot>>

\* The line end is erased.  Of one character, size() - 2 wraps and erase throws.
Trim ==
  /\ pc = "trim"
  /\ pc' = IF stderr_output = 1 THEN "thrown" ELSE "exit_code"
  /\ stderr_output' = IF stderr_output < 2 THEN stderr_output ELSE stderr_output - 2
  /\ UNCHANGED <<handles, success, process_exit, dot>>

-----------------------------------------------------------------------------
(* The parent, when the child has ended *)

\* Mutant: the text of the code is lost.
GetExitCodeSilently ==
  /\ pc = "exit_code"
  /\ pc' = "close_process"
  /\ UNCHANGED <<locals, dot>>

\* format::win32_error throws for a code that no message exists for.
FormatCode ==
  \/ /\ pc' = "close_process"
     /\ process_exit' = TRUE
  \/ /\ pc' = "thrown"
     /\ UNCHANGED process_exit

GetExitCode ==
  /\ pc = "exit_code"
  /\ IF code # 0
     THEN FormatCode
     ELSE pc' = "close_process" /\ UNCHANGED process_exit
  /\ UNCHANGED <<handles, success, stderr_output, dot>>

CloseHandle(at, handle, next) ==
  /\ pc = at
  /\ pc' = next
  /\ handles' = handles \ {handle}
  /\ UNCHANGED <<success, stderr_output, process_exit, dot>>

\* graphviz::execute: process_exit is appended where stderr was asked for.
CheckMessage ==
  /\ pc = "message"
  /\ pc' = IF process_exit THEN "thrown" ELSE "returned"
  /\ UNCHANGED <<locals, dot>>

Parent ==
  \/ OpenFile
  \/ Win32CallFails
  \/ CreatePipe
  \/ SetHandleInformation
  \/ CreateProcess
  \/ CloseWriter
  \/ Wait
  \/ Peek
  \/ Read
  \/ Trim
  \/ GetExitCode
  \/ CloseHandle("close_process", "process", "close_thread")
  \/ CloseHandle("close_thread", "thread", "close_reader")
  \/ CloseHandle("close_reader", "reader", "message")
  \/ CheckMessage

-----------------------------------------------------------------------------
(* The child.  WriteFile returns when all of it is in the pipe.             *)

BeginWrite ==
  /\ child = "running"
  /\ request = 0
  /\ \E n \in 1 .. MaxOutput - written : request' = n
  /\ UNCHANGED <<parent, child, code, pipe, written>>

FillPipe ==
  /\ child = "running"
  /\ request > 0
  /\ pipe < Capacity
  /\ LET room == Capacity - pipe
         n    == IF request < room THEN request ELSE room IN
       /\ request' = request - n
       /\ pipe' = pipe + n
       /\ written' = written + n
  /\ UNCHANGED <<parent, child, code>>

Exit ==
  /\ child = "running"
  /\ request = 0
  /\ child' = "exited"
  /\ code' \in {0, 1}
  /\ UNCHANGED <<parent, request, pipe, written>>

Child == BeginWrite \/ FillPipe \/ Exit

ExecuteInit ==
  /\ pc = "fstream"
  /\ handles = {}
  /\ success = FALSE
  /\ stderr_output = 0
  /\ process_exit = FALSE
  /\ child = "none"
  /\ code = 0
  /\ request = 0
  /\ pipe = 0
  /\ written = 0

ExecuteNext == Parent \/ Child

\* Both processes are scheduled; the child writes at most MaxOutput characters,
\* so that a child that is scheduled and not blocked exits.
Fairness == WF_execute(Parent) /\ WF_execute(Child)

ExecuteSafety == ExecuteInit /\ [][ExecuteNext]_execute
ExecuteSpec == ExecuteSafety /\ Fairness

-----------------------------------------------------------------------------
(* Properties *)

ExecuteTypeOK ==
  /\ pc \in Label
  /\ handles \subseteq {"reader", "writer", "process", "thread"}
  /\ success \in BOOLEAN
  /\ stderr_output \in Nat
  /\ process_exit \in BOOLEAN
  /\ child \in {"none", "running", "exited"}
  /\ code \in {0, 1}
  /\ request \in Nat
  /\ pipe \in 0 .. Capacity
  /\ written \in Nat

InLoop == pc \in {"wait", "peek", "read", "trim"}

\* Nothing the child wrote is lost or read twice, and the loop ends only when
\* all of it has been read, however the child's last writes and its exit fall
\* between the parent's wait, peek and read (execute.cpp:63-79).
AllOutputRead ==
  /\ InLoop => stderr_output + pipe = written
  /\ pc = "trim" => stderr_output = written /\ child = "exited"

\* execute() returns normally only for a child that has exited with code 0,
\* and with every handle closed.
ReturnMeansSuccess == pc = "returned" => child = "exited" /\ code = 0 /\ handles = {}

\* graphviz.cpp:34-41: an error of dot, "if (!process_stderr.empty())", becomes
\* an exception.
StderrIsReported == pc = "returned" => stderr_output = 0

=============================================================================
