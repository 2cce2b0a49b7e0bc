------------------------------- MODULE FileIO -------------------------------
(***************************************************************************)
(* The file utilities (src/util/io.cpp): file_exists, file_size, read_file *)
(* and write_file, each called by several callers, of one process or of    *)
(* several, on one path.                                                   *)
(*                                                                         *)
(* The functions are straight code around a stdio stream.  What makes them *)
(* hard is the file behind it: another caller may truncate it or write to  *)
(* it between any two steps, the bytes a stream was given reach the disk   *)
(* one by one at any time before it is closed, and every call into stdio   *)
(* may fail.                                                               *)
(***************************************************************************)
EXTENDS Naturals, Sequences

CONSTANTS
    Caller,
    Byte,
    Contents,   \* what the file may hold at first
    Written,    \* what write_file may be asked to write
    Hole,       \* the byte a file system reads where nothing was written
    Absent,     \* no file at the path
    Unmeasured  \* the caller has not measured the file

ASSUME FileAssumption ==
    /\ Hole \in Byte
    /\ Contents \subseteq Seq(Byte) /\ Written \subseteq Seq(Byte)
    /\ Absent \notin Seq(Byte) /\ Unmeasured \notin Seq(Byte)

VARIABLES
    file,       \* what the path names
    op,         \* which function each caller calls
    data,       \* write_file: what it is asked to write
    step,       \* where each caller is
    stream,     \* the callers that hold an open FILE
    buffer,     \* read_file: the bytes read; write_file: the bytes on disk
    measured,   \* history: what the file held when the caller measured it
    disturbed,  \* history: readers under which a measured byte was changed,
                \* writers since whose fopen another one opened or wrote
    unflushed   \* history: writers that lost bytes when they closed

fileVars == <<file, op, data, step, stream, buffer, measured, disturbed, unflushed>>
history == <<measured, disturbed, unflushed>>

\* bad_alloc is the exception nobody in this file throws.
Finished == {"returned", "threw", "bad_alloc"}
Steps == {"called", "opened", "measured", "reading", "writing", "closing"} \cup Finished

FilesTypeOK ==
    /\ file \in Seq(Byte) \cup {Absent}
    /\ op \in [Caller -> {"exists", "size", "read", "write"}]
    /\ data \in [Caller -> Written]
    /\ step \in [Caller -> Steps]
    /\ stream \subseteq Caller
    /\ buffer \in [Caller -> Seq(Byte)]
    /\ measured \in [Caller -> Seq(Byte) \cup {Unmeasured}]
    /\ disturbed \subseteq Caller /\ unflushed \subseteq Caller

FilesInit ==
    /\ file \in Contents \cup {Absent}
    /\ op \in [Caller -> {"exists", "size", "read", "write"}]
    /\ data \in [Caller -> Written]
    /\ step = [c \in Caller |-> "called"]
    /\ stream = {}
    /\ buffer = [c \in Caller |-> <<>>]
    /\ measured = [c \in Caller |-> Unmeasured]
    /\ disturbed = {} /\ unflushed = {}

At(c, s) == step[c] = s
Goto(c, s) == step' = [step EXCEPT ![c] = s]

\* fclose, and on to the next step.
CloseAnd(c, s) == Goto(c, s) /\ stream' = stream \ {c}

-----------------------------------------------------------------------------
\* fopen(path, "rb"); file_exists closes the stream at once.
OpenRead(c) ==
    /\ At(c, "called") /\ op[c] # "write" /\ file # Absent
    /\ \/ op[c] = "exists" /\ Goto(c, "returned") /\ UNCHANGED stream
       \/ op[c] # "exists" /\ Goto(c, "opened") /\ stream' = stream \cup {c}
    /\ UNCHANGED <<file, op, data, buffer, history>>

\* A null path, or fopen fails.  Only file_exists does not throw.
OpenFails(c) ==
    /\ At(c, "called")
    /\ Goto(c, IF op[c] = "exists" THEN "returned" ELSE "threw")
    /\ UNCHANGED <<file, op, data, stream, buffer, history>>

\* fseek(SEEK_END), ftell; file_size has what it wants and closes.
Measure(c) ==
    /\ At(c, "opened")
    /\ measured' = [measured EXCEPT ![c] = file]
    /\ \/ op[c] = "size" /\ CloseAnd(c, "returned")
       \/ op[c] = "read" /\ Goto(c, "measured") /\ UNCHANGED stream
    /\ UNCHANGED <<file, op, data, buffer, disturbed, unflushed>>

\* A seek or ftell fails: the stream is closed before the throw.
SeekFails(c) ==
    /\ step[c] \in {"opened", "measured"}
    /\ CloseAnd(c, "threw")
    /\ UNCHANGED <<file, op, data, buffer, history>>

\* fseek(SEEK_SET), and a vector of the size that was measured.
Rewind(c) ==
    /\ At(c, "measured")
    /\ Goto(c, "reading")
    /\ UNCHANGED <<file, op, data, stream, buffer, history>>

\* The vector throws bad_alloc past the fclose.
AllocThrows(c) ==
    /\ At(c, "measured")
    /\ Goto(c, "bad_alloc")
    /\ UNCHANGED <<file, op, data, stream, buffer, history>>

\* fread, a byte at a time.
ReadByte(c) ==
    LET next == Len(buffer[c]) + 1
    IN  /\ At(c, "reading") /\ next <= Len(measured[c])
        /\ file # Absent /\ next <= Len(file)
        /\ buffer' = [buffer EXCEPT ![c] = Append(@, file[next])]
        /\ UNCHANGED <<file, op, data, step, stream, history>>

\* Defect: fread's count is not looked at.
ReadShortUnchecked(c) ==
    /\ At(c, "reading") /\ Len(buffer[c]) < Len(measured[c])
    /\ CloseAnd(c, "returned")
    /\ UNCHANGED <<file, op, data, buffer, history>>

\* The file has become shorter, or fread fails.
ReadShort(c) ==
    /\ At(c, "reading") /\ Len(buffer[c]) < Len(measured[c])
    /\ CloseAnd(c, "threw")
    /\ UNCHANGED <<file, op, data, buffer, history>>

ReadAll(c) ==
    /\ At(c, "reading") /\ Len(buffer[c]) = Len(measured[c])
    /\ CloseAnd(c, "returned")
    /\ UNCHANGED <<file, op, data, buffer, history>>

-----------------------------------------------------------------------------
\* To whom it makes a difference that c changes the n-th byte: readers that
\* measured as much and have not returned, and writers that opened the file.
Disturbs(c, n) ==
    {d \in Caller : op[d] = "read" /\ step[d] \in {"measured", "reading"}
                        /\ n <= Len(measured[d])}
    \cup {d \in Caller \ {c} : op[d] = "write"
                        /\ step[d] \in {"writing", "closing", "returned"}}

\* Defect: the file is opened for appending.
OpenAppend(c) ==
    /\ At(c, "called") /\ op[c] = "write"
    /\ file' = IF file = Absent THEN <<>> ELSE file
    /\ Goto(c, "writing") /\ stream' = stream \cup {c}
    /\ disturbed' = disturbed \cup Disturbs(c, 1)
    /\ UNCHANGED <<op, data, buffer, measured, unflushed>>

\* fopen(path, "wb") creates the file or truncates it.
OpenWrite(c) ==
    /\ At(c, "called") /\ op[c] = "write"
    /\ file' = <<>>
    /\ Goto(c, "writing") /\ stream' = stream \cup {c}
    /\ disturbed' = disturbed \cup Disturbs(c, 1)
    /\ UNCHANGED <<op, data, buffer, measured, unflushed>>

\* The file with byte n written; what lies between its end and n is a hole.
WithByte(n, b) ==
    [i \in 1..(IF n > Len(file) THEN n ELSE Len(file)) |->
        IF i = n THEN b ELSE IF i <= Len(file) THEN file[i] ELSE Hole]

\* A byte reaches the disk, while fwrite runs or the stream is closed.
WriteByte(c) ==
    LET next == Len(buffer[c]) + 1
    IN  /\ step[c] \in {"writing", "closing"} /\ next <= Len(data[c])
        /\ file' = WithByte(next, data[c][next])
        /\ buffer' = [buffer EXCEPT ![c] = Append(@, data[c][next])]
        /\ disturbed' = disturbed \cup Disturbs(c, next)
        /\ UNCHANGED <<op, data, step, stream, measured, unflushed>>

\* fwrite took everything, perhaps into the buffer of the stream only.
WriteReturns(c) ==
    /\ At(c, "writing")
    /\ Goto(c, "closing")
    /\ UNCHANGED <<file, op, data, stream, buffer, history>>

\* fwrite took less than everything.
WriteShort(c) ==
    /\ At(c, "writing") /\ Len(buffer[c]) < Len(data[c])
    /\ CloseAnd(c, "threw")
    /\ UNCHANGED <<file, op, data, buffer, history>>

\* fclose, whose status nobody looks at: what it could not flush is lost.
CloseWrite(c) ==
    /\ At(c, "closing")
    /\ CloseAnd(c, "returned")
    /\ unflushed' = IF Len(buffer[c]) < Len(data[c])
                    THEN unflushed \cup {c} ELSE unflushed
    /\ UNCHANGED <<file, op, data, buffer, measured, disturbed>>

FilesNext ==
    \E c \in Caller :
        \/ OpenRead(c) \/ OpenFails(c)
        \/ Measure(c) \/ SeekFails(c) \/ Rewind(c) \/ AllocThrows(c)
        \/ ReadByte(c) \/ ReadShort(c) \/ ReadAll(c)
        \/ OpenWrite(c) \/ WriteByte(c)
        \/ WriteReturns(c) \/ WriteShort(c) \/ CloseWrite(c)

FilesSpec == FilesInit /\ [][FilesNext]_fileVars

-----------------------------------------------------------------------------
(***************************************************************************)
(* read_file returns the file as it was when it was measured, unless one   *)
(* of those bytes was rewritten in the meantime: never fewer bytes, and    *)
(* never part of what was appended since (lines 70-94).                    *)
(***************************************************************************)
ReadIsMeasured ==
    \A c \in Caller \ disturbed :
        op[c] = "read" /\ step[c] = "returned" => buffer[c] = measured[c]

(***************************************************************************)
(* When write_file returns, the file holds the data and nothing of what it *)
(* held before, unless another writer has opened it or written to it since *)
(* or bytes were lost in the fclose nobody looks at (lines 105-119).       *)
(***************************************************************************)
WriteReaches ==
    \A c \in Caller \ (disturbed \cup unflushed) :
        op[c] = "write" /\ step[c] = "returned" => file = data[c]

(***************************************************************************)
(* A function that has returned or thrown has closed its stream, on every  *)
(* path but one: the vector of read_file that finds no memory (line 81).   *)
(***************************************************************************)
StreamsClosed ==
    \A c \in stream : step[c] \in Finished => step[c] = "bad_alloc"

=============================================================================
