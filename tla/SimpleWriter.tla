---------------------------- MODULE SimpleWriter ----------------------------
(***************************************************************************)
(* class Simple_Writer of xfsx/scratchpad.{hh,cc}, the object every        *)
(* converter of the library writes its output through, together with the   *)
(* backend it owns (module Writer), from construction to destruction.      *)
(*                                                                         *)
(* The client is any sequence of calls the header allows: write() of small *)
(* and of large ranges, begin_write()/commit_write() pairs, flush(),       *)
(* clear(), and the destructor - at the end of the scope, or while an      *)
(* exception unwinds the stack.  One method call is one step: the library  *)
(* is single-threaded.                                                     *)
(***************************************************************************)
EXTENDS Writer

CONSTANTS
  ThroughInc,   \* backend_->inc()
  MaxWrite,     \* bound on the size of a range given to write()
  MaxReserve,   \* bound on the k of begin_write()
  MaxBytes,     \* bound on the bytes a client writes
  MaxPad,       \* bound on the pad that is given to a client, for the pad
                \* of a "scratchpad", which grows with every flush()
  MayFail       \* TRUE: write(2) may fail

ASSUME SimpleWriterAssumption ==
  /\ ThroughInc \in Nat \ {0}
  /\ Kind = "file" => ThroughInc = Inc
  /\ MaxWrite \in Nat
  /\ Kind = "memory" => MaxWrite < ThroughInc
  /\ MaxReserve \in Nat
  /\ MaxBytes \in Nat
  /\ MaxPad \in Nat
  /\ MayFail \in BOOLEAN

VARIABLES
  backend,      \* *backend_
  localPos,     \* local_pos_: bytes written in front of begin_ since the
                \* backend was last told
  globalPos,    \* global_pos_: all bytes accepted from the client
  begin,        \* begin_ and end_ as positions in the pad, 0 and 0 when
  end,          \* they are nullptr
  doWrite,      \* do_write_
  reserved,     \* the k of a begin_write() that is not committed yet
  phase,        \* where the object is in its life
  ioError,      \* history: some write(2) has failed
  bypassed,     \* history: a range was written through to a file while
                \* bytes in front of it were not reported
  failedAsserts \* history: assertions that evaluated to false

vars == <<backend, localPos, globalPos, begin, end, doWrite, reserved, phase,
          ioError, bypassed, failedAsserts>>

NoReserve == -1

Phases == {"open", "thrown", "unwound", "closed"}

Room == end - begin

Init ==
  /\ backend = NewBackend
  /\ localPos = 0
  /\ globalPos = 0
  /\ begin = PadBegin(NewBackend)
  /\ end = PadEnd(NewBackend)
  /\ doWrite = FALSE
  /\ reserved = NoReserve
  /\ phase = "open"
  /\ ioError = FALSE
  /\ bypassed = FALSE
  /\ failedAsserts = {}

(***************************************************************************)
(* What the methods have in common                                         *)
(***************************************************************************)

(* A client calls a method: between begin_write() and commit_write() only  *)
(* commit_write() (or unwinding) may follow.                               *)
Idle == phase = "open" /\ reserved = NoReserve

MayAccept(n) ==
  /\ globalPos + n <= MaxBytes
  /\ PadEnd(backend) <= MaxPad

(* A fault: end_ is not read again. *)
RewindowKeepsEnd(b) ==
  /\ backend' = b
  /\ begin' = PadBegin(b)
  /\ UNCHANGED end

(* begin_ and end_ are set to what a backend method returned *)
Rewindow(b) ==
  /\ backend' = b
  /\ begin' = PadBegin(b)
  /\ end' = PadEnd(b)

NullWindow == begin' = 0 /\ end' = 0

(* increment_head asserts that the head stays inside of the pad *)
Evaluate(name, holds) ==
  failedAsserts' = failedAsserts \cup (IF holds THEN {} ELSE {name})

HeadHolds(b, forget) == HeadInPad(IncrementHead(b.pad, forget))

(* The pad after prepare_write() made room for n bytes *)
Prepared(n) == PrepareWrite(backend, localPos, n - Room)

(* An exception leaves a method of the writer: no tool of this repository  *)
(* catches it before the writer is destroyed.                              *)
Throw == phase' = "thrown" /\ ioError' = TRUE

NoThrow == UNCHANGED <<phase, ioError>>

(***************************************************************************)
(* write() of a range below backend_->inc()                                *)
(***************************************************************************)
WriteFits(n) ==
  /\ Idle /\ MayAccept(n)
  /\ Room >= n
  /\ backend' = Store(backend, begin, globalPos, n)
  /\ begin' = begin + n
  /\ localPos' = localPos + n
  /\ globalPos' = globalPos + n
  /\ NoThrow
  /\ UNCHANGED <<end, doWrite, reserved, failedAsserts>>

(* The range lies across the end of the window: the backend makes room,    *)
(* the bytes are copied, and the backend may write.                        *)
Filled(n) == Store(Prepared(n), PadBegin(Prepared(n)), globalPos, n)

WriteGrows(n) ==
  /\ Idle /\ MayAccept(n)
  /\ Room < n
  /\ Spare(Prepared(n)) >= n
  /\ Rewindow(WriteSome(Filled(n), n))
  /\ localPos' = 0
  /\ globalPos' = globalPos + n
  /\ Evaluate("increment_head", HeadHolds(Filled(n), n))
  /\ NoThrow
  /\ UNCHANGED <<doWrite, reserved>>

WriteGrowsThrows(n) ==
  /\ MayFail
  /\ Idle /\ MayAccept(n)
  /\ Room < n
  /\ Spare(Prepared(n)) >= n
  /\ \E d \in 0 .. (WriteSomeBytes(Filled(n), n) - 1) :
       backend' = WriteSomeThrows(Filled(n), n, d)
  /\ begin' = PadBegin(Prepared(n)) + n
  /\ end' = PadEnd(Prepared(n))
  /\ localPos' = n
  /\ globalPos' = globalPos + n
  /\ Evaluate("increment_head", HeadHolds(Filled(n), n))
  /\ Throw
  /\ UNCHANGED <<doWrite, reserved>>

(* range_error("not enough room for write"), by write() and begin_write(): *)
(* what was written so far is already handed to the backend.               *)
Refuse(n) ==
  /\ Room < n
  /\ Spare(Prepared(n)) < n
  /\ Rewindow(Prepared(n))
  /\ localPos' = 0

WriteRefused(n) ==
  /\ Idle /\ MayAccept(n)
  /\ Refuse(n)
  /\ NoThrow
  /\ UNCHANGED <<globalPos, doWrite, reserved, failedAsserts>>

(***************************************************************************)
(* write() of a range from backend_->inc() on: written through, whatever   *)
(* local_pos_ is.  An assertion that fails is remembered, and the program  *)
(* goes on as it does when it is compiled without assertions.              *)
(***************************************************************************)
WriteLarge(n) ==
  /\ Idle /\ MayAccept(n)
  /\ Rewindow(WriteThrough(backend, localPos, globalPos, n))
  /\ localPos' = 0
  /\ globalPos' = globalPos + n
  /\ Evaluate("write", BlockComplete(backend, localPos, globalPos, n))
  /\ NoThrow
  /\ UNCHANGED <<doWrite, reserved>>

(* write(2) fails while the partial block is completed, or later on while  *)
(* the blocks are written through.  No member of the writer is assigned.   *)
WriteLargeThrows(n) ==
  LET k    == Missing(backend, n)
      full == Completed(backend, globalPos, k)
      done == CompleteBlock(backend, localPos, globalPos, n)
  IN  /\ MayFail /\ Kind = "file"
      /\ Idle /\ MayAccept(n)
      /\ \/ /\ PadBegin(backend) % Inc # 0
            /\ \E d \in 0 .. (WriteSomeBytes(full, localPos + k) - 1) :
                 backend' = WriteSomeThrows(full, localPos + k, d)
            /\ UNCHANGED failedAsserts
         \/ /\ \E d \in 0 .. (WholeBlocks(n - k) - 1) :
                 backend' = [pad  |-> done.pad,
                             file |-> AppendStream(done.file, globalPos + k, d)]
            /\ Evaluate("write", BlockComplete(backend, localPos, globalPos, n))
      /\ Throw
      /\ UNCHANGED <<localPos, globalPos, begin, end, doWrite, reserved>>

(***************************************************************************)
(* begin_write() and commit_write()                                        *)
(***************************************************************************)
BeginWriteFits(n) ==
  /\ Idle /\ MayAccept(n)
  /\ Room >= n
  /\ reserved' = n
  /\ NoThrow
  /\ UNCHANGED <<backend, localPos, globalPos, begin, end, doWrite,
                 failedAsserts>>

BeginWriteGrows(n) ==
  /\ Idle /\ MayAccept(n)
  /\ Room < n
  /\ Spare(Prepared(n)) >= n
  /\ Rewindow(Prepared(n))
  /\ localPos' = 0
  /\ doWrite' = TRUE
  /\ reserved' = n
  /\ Evaluate("increment_head", HeadHolds(backend, localPos))
  /\ NoThrow
  /\ UNCHANGED globalPos

BeginWriteRefused(n) ==
  /\ Idle /\ MayAccept(n)
  /\ Refuse(n)
  /\ doWrite' = TRUE
  /\ NoThrow
  /\ UNCHANGED <<globalPos, reserved, failedAsserts>>

(* The client has stored n <= k bytes at the pointer begin_write() gave it *)
Stored(n) == Store(backend, begin, globalPos, n)

CommitWriteKeeps(n) ==
  /\ phase = "open"
  /\ ~doWrite
  /\ backend' = Stored(n)
  /\ begin' = begin + n
  /\ localPos' = localPos + n
  /\ globalPos' = globalPos + n
  /\ reserved' = NoReserve
  /\ NoThrow
  /\ UNCHANGED <<end, doWrite, failedAsserts>>

(* A fault: do_write_ is never reset. *)
CommitWriteWritesForever(n) ==
  /\ phase = "open"
  /\ doWrite
  /\ Rewindow(WriteSome(Stored(n), localPos + n))
  /\ localPos' = 0
  /\ globalPos' = globalPos + n
  /\ reserved' = NoReserve
  /\ Evaluate("increment_head", HeadHolds(Stored(n), localPos + n))
  /\ NoThrow
  /\ UNCHANGED doWrite

CommitWriteWrites(n) ==
  /\ phase = "open"
  /\ doWrite
  /\ Rewindow(WriteSome(Stored(n), localPos + n))
  /\ localPos' = 0
  /\ globalPos' = globalPos + n
  /\ doWrite' = FALSE
  /\ reserved' = NoReserve
  /\ Evaluate("increment_head", HeadHolds(Stored(n), localPos + n))
  /\ NoThrow

CommitWriteThrows(n) ==
  /\ MayFail
  /\ phase = "open"
  /\ doWrite
  /\ \E d \in 0 .. (WriteSomeBytes(Stored(n), localPos + n) - 1) :
       backend' = WriteSomeThrows(Stored(n), localPos + n, d)
  /\ begin' = begin + n
  /\ localPos' = localPos + n
  /\ globalPos' = globalPos + n
  /\ reserved' = NoReserve
  /\ Evaluate("increment_head", HeadHolds(Stored(n), localPos + n))
  /\ Throw
  /\ UNCHANGED <<end, doWrite>>

CommitWrite ==
  /\ \E n \in 0 .. reserved :
       CommitWriteKeeps(n) \/ CommitWriteWrites(n) \/ CommitWriteThrows(n)
  /\ UNCHANGED bypassed

(***************************************************************************)
(* flush(), clear() and the destructor                                     *)
(***************************************************************************)
(* A fault: the backend is not told of the bytes behind its head. *)
FlushReturnsUntold ==
  /\ backend' = FlushBackend(backend)
  /\ localPos' = 0
  /\ NullWindow
  /\ UNCHANGED <<globalPos, doWrite, reserved, ioError, failedAsserts>>

FlushReturns ==
  /\ backend' = FlushBackend(WriteSome(backend, localPos))
  /\ localPos' = 0
  /\ NullWindow
  /\ Evaluate("increment_head", HeadHolds(backend, localPos))
  /\ UNCHANGED <<globalPos, doWrite, reserved, ioError>>

(* write_some() throws, or - when it has returned - the backend's flush(). *)
FlushFails ==
  /\ MayFail
  /\ \/ /\ \E d \in 0 .. (WriteSomeBytes(backend, localPos) - 1) :
             backend' = WriteSomeThrows(backend, localPos, d)
        /\ UNCHANGED localPos
     \/ LET told == WriteSome(backend, localPos)
        IN  /\ \E d \in 0 .. (FlushBytes(told) - 1) :
                 backend' = FlushThrows(told, d)
            /\ localPos' = 0
  /\ Evaluate("increment_head", HeadHolds(backend, localPos))
  /\ ioError' = TRUE
  /\ UNCHANGED <<globalPos, begin, end, doWrite, reserved>>

Flush ==
  /\ Idle
  /\ FlushReturns
  /\ UNCHANGED <<phase, bypassed>>

FlushThrowsOut ==
  /\ Idle
  /\ FlushFails
  /\ phase' = "thrown"
  /\ UNCHANGED bypassed

(* "only useful for scratchpad writer", and only used with it *)
Clear ==
  /\ Idle
  /\ Kind = "scratchpad"
  /\ backend' = ClearBackend(backend)
  /\ localPos' = 0
  /\ globalPos' = 0
  /\ NullWindow
  /\ NoThrow
  /\ UNCHANGED <<doWrite, reserved, bypassed, failedAsserts>>

(* The destructor flushes and swallows what flush() throws. *)
Destroy ==
  /\ phase \in {"open", "thrown"}
  /\ FlushReturns \/ FlushFails
  /\ phase' = "unwound"
  /\ UNCHANGED bypassed

(* Then backend_ is destroyed: ~Sink_File flushes once more, and swallows. *)
DestroyBackend ==
  /\ phase = "unwound"
  /\ \/ /\ backend' = FlushBackend(backend)
        /\ UNCHANGED ioError
     \/ /\ MayFail
        /\ \E d \in 0 .. (FlushBytes(backend) - 1) :
             backend' = FlushThrows(backend, d)
        /\ ioError' = TRUE
  /\ phase' = "closed"
  /\ UNCHANGED <<localPos, globalPos, begin, end, doWrite, reserved,
                 bypassed, failedAsserts>>

Gone == phase = "closed" /\ UNCHANGED vars

SmallSizes == {n \in 0 .. MaxWrite : n < ThroughInc}

LargeSizes == {n \in 0 .. MaxWrite : n >= ThroughInc}

Write ==
  /\ \E n \in SmallSizes :
       WriteFits(n) \/ WriteGrows(n) \/ WriteGrowsThrows(n) \/ WriteRefused(n)
  /\ UNCHANGED bypassed

(* Sink_File::write moves its head over the bytes it is told of only when  *)
(* it has a block to complete: if there are any, the range overtakes or    *)
(* overwrites them.  The converters call it like that, for a header that   *)
(* has just been written and a large content behind it.                    *)
WriteThroughput ==
  /\ \E n \in LargeSizes : WriteLarge(n) \/ WriteLargeThrows(n)
  /\ bypassed' = (bypassed \/ (Kind = "file" /\ localPos > 0))

BeginWrite ==
  /\ \E n \in 0 .. MaxReserve :
       BeginWriteFits(n) \/ BeginWriteGrows(n) \/ BeginWriteRefused(n)
  /\ UNCHANGED bypassed

Next ==
  \/ Write
  \/ WriteThroughput
  \/ BeginWrite
  \/ CommitWrite
  \/ Flush
  \/ FlushThrowsOut
  \/ Clear
  \/ Destroy
  \/ DestroyBackend
  \/ Gone

(* A writer is an automatic object, or a member of one: it goes out of     *)
(* scope when the conversion has ended or has failed, and its destructor   *)
(* runs.                                                                   *)
Fairness == WF_vars(Destroy) /\ WF_vars(DestroyBackend)

Spec == Init /\ [][Next]_vars /\ Fairness

(***************************************************************************)
(* Properties                                                              *)
(***************************************************************************)
TypeOK ==
  /\ backend \in BackendType
  /\ localPos \in Nat
  /\ globalPos \in 0 .. MaxBytes
  /\ begin \in Nat
  /\ end \in Nat
  /\ doWrite \in BOOLEAN
  /\ reserved \in {NoReserve} \cup 0 .. MaxReserve
  /\ phase \in Phases
  /\ ioError \in BOOLEAN
  /\ bypassed \in BOOLEAN
  /\ failedAsserts \subseteq {"increment_head", "write"}

(* Between any two calls the file, the prelude of the pad and the bytes    *)
(* the writer has not reported yet make up exactly what the client has     *)
(* written: write(), write_some() and prepare_write() lose, repeat and     *)
(* reorder nothing at a block boundary.  But a write-through in front of   *)
(* which bytes are not reported does (WritesThrough): this property, like  *)
(* the others about bytes, is one of writers that have seen none.          *)
StreamIntact ==
  ~ioError /\ ~bypassed =>
    Content(backend, PadBegin(backend) + localPos) = Stream(globalPos)

(* "the Simple_Writer with File_Writer backend now supports write-through  *)
(* with large buffers" (ber2ber.cc, xml2ber.cc and lxml2ber.cc, before a   *)
(* large content is written behind its header): whatever is written        *)
(* through, what the client has written is there, and in order.  It is     *)
(* not.                                                                    *)
WritesThrough ==
  ~ioError =>
    Content(backend, PadBegin(backend) + localPos) = Stream(globalPos)

(* begin_ and end_ point to the unused tail of the pad - behind the bytes  *)
(* not reported yet - or are null while there are none: they never go      *)
(* stale when a backend moves or resizes the pad; and begin_write() leaves *)
(* the room it promised.  This holds for every client.                     *)
WindowValid ==
  phase = "open" =>
    /\ \/ begin = 0 /\ end = 0 /\ localPos = 0
       \/ begin = PadBegin(backend) + localPos /\ end = PadEnd(backend)
    /\ reserved <= Room

(* What the file pad keeps between two calls is bounded, however much is   *)
(* written: less than a block waits, and the spare room is bounded by the  *)
(* largest request (write_some() and forget_prelude()).                    *)
BufferBounded ==
  Kind = "file" /\ Idle /\ ~bypassed =>
    /\ PadBegin(backend) < Inc
    /\ \/ Spare(backend) < 2 * Inc
       \/ Spare(backend) < Inc + MaxReserve

(* assert(off_ <= v_.size()) in Scratchpad::increment_head                 *)
HeadAssertion == "increment_head" \notin failedAsserts

(* assert((n && (pad_.begin() - pad_.prelude()) == 0) || !n) in            *)
(* Sink_File::write; it fails when a write-through completes a block and   *)
(* bytes are left that were not reported.                                  *)
WriteAssertion == ~bypassed => "write" \notin failedAsserts

(* When a write fails half-way, the file is cut off but not garbled: it    *)
(* holds a prefix of what the client wrote, up to the call that threw.     *)
TornPrefix ==
  phase = "thrown" /\ ~bypassed => backend.file = Stream(Written(backend))

(* "i.e. the [prelude..begin) pad range contains everything written"       *)
(* (Scratchpad_Writer), and for a file what is in it.                      *)
Delivered(b) ==
  IF Kind = "file" THEN b.file ELSE [i \in 1 .. PadBegin(b) |-> CellAt(b.pad, i)]

(* flush() returns only after everything accepted has left the buffer.     *)
FlushDelivers ==
  [][Flush /\ ~bypassed => Delivered(backend') = Stream(globalPos)]_vars

(* A writer that is destroyed without an I/O error - even while an         *)
(* exception of its client unwinds the stack between begin_write() and     *)
(* commit_write() - leaves nothing behind in its buffers, and nothing      *)
(* uncommitted or uninitialised in the file.                               *)
DestructorDelivers ==
  phase = "closed" /\ ~ioError /\ ~bypassed =>
    Delivered(backend) = Stream(globalPos)

(* What ByteSink promises                                                  *)
Sink == INSTANCE ByteSink WITH
  Clearable <- Kind = "scratchpad",
  accepted <- globalPos,
  delivered <- Delivered(backend),
  failed <- ioError,
  broken <- bypassed,
  closed <- phase = "closed"

ImplementsByteSink == Sink!Spec

(***************************************************************************)
(* The inductive invariant the properties follow from                      *)
(***************************************************************************)

(* The window is the unused tail of the pad, or there is none. *)
Attached == begin = PadBegin(backend) + localPos /\ end = PadEnd(backend)

Detached == begin = 0 /\ end = 0 /\ localPos = 0

(* A file pad holds a whole block only from a begin_write() that had to    *)
(* make room to its commit_write().                                        *)
FilePadOpen ==
  /\ ~doWrite => PadBegin(backend) < Inc
  /\ doWrite => reserved # NoReserve
  /\ Spare(backend) < 2 * Inc \/ Spare(backend) < Inc + MaxReserve

(* The window and the head are in the pad: until a write fails, and        *)
(* whatever is written through.                                            *)
Placed ==
  /\ PadBegin(backend) + localPos <= PadEnd(backend)
  /\ Attached \/ Detached
  /\ Kind = "file" => Attached
  /\ HeadAssertion
  /\ phase # "thrown"
  /\ phase = "open" => reserved <= Room
  /\ phase # "open" =>
       /\ localPos = 0
       /\ Kind = "file" => PadBegin(backend) = 0 /\ PadEnd(backend) = 0

(* Every byte is in its place: until a write fails, and as long as none    *)
(* has been bypassed.                                                      *)
Healthy ==
  /\ Holds(backend, PadBegin(backend) + localPos, globalPos)
  /\ failedAsserts = {}
  /\ phase = "open" /\ Kind = "file" => FilePadOpen

(* Only a file writer has a file, and only there are bytes bypassed. *)
FileUnused == Kind # "file" => backend.file = << >> /\ ~bypassed

Sound ==
  /\ TypeOK
  /\ reserved # NoReserve => globalPos + reserved <= MaxBytes
  /\ ioError => phase # "open"
  /\ ~ioError => Placed

Intact ==
  /\ ~ioError => Healthy
  /\ TornPrefix

IInv == Sound /\ (~bypassed => Intact)
=============================================================================
