------------------------------ MODULE Dispatch ------------------------------
(***************************************************************************)
(* The stream dispatcher of streams.c: stream_getc, stream_ungetc,         *)
(* stream_putc and stream_puts resolve a nil stream to the value of        *)
(* standard-input or standard-output and branch on the stream's type.      *)
(* One stream of each kind exists; a stream value is named by its kind:    *)
(*   "file"   a Lisp file object (bound or not)                            *)
(*   "mark"   a mark (resident or not); the position I/O behind it is      *)
(*            abstracted to its possible outcomes (see PosIO)              *)
(*   "strin"  (NUMBER . STRING), the string input stream                   *)
(*   "acc"    (STRING . INT), the string output stream, abstracted to its  *)
(*            content (AccumulatorAbs, implemented by Accumulator)         *)
(*   "fn"     a function (lambda cons or symbol with a function value)     *)
(*   "t"      the symbol t, the status line                                *)
(*   "nil"    the symbol nil                                               *)
(*   "proc"   a process                                                    *)
(*   "bad"    any other value                                              *)
(* A callable is run to completion inside the primitive here; re-entrant   *)
(* calls and the GC-inhibit flag are modelled in CallableStreams.          *)
(***************************************************************************)
EXTENDS Integers, Sequences

CONSTANTS
  Chars,        \* the character codes written and read (0 is the NUL byte)
  LispNil,      \* the value nil returned by a callable
  FnResults,    \* what a callable stream may return: integers and LispNil
  InputStrings, \* the STRINGs of the string input stream
  Starts,       \* the START offsets given to make-string-input-stream
  StdValues,    \* the values standard-input/-output may have ("void": none)
  PutLens,      \* the lengths of the runs written with stream_puts
  MaxOut        \* bound on the bytes any sink accumulates

EOF == -1

Kinds == {"file", "mark", "strin", "acc", "fn", "t", "nil", "proc", "bad"}

ASSUME DispatchAssumption ==
  /\ Chars \subseteq 0 .. 255 /\ Chars # {}
  /\ FnResults \subseteq Int \cup {LispNil}
  /\ LispNil \notin Int
  /\ InputStrings \subseteq Seq(Chars)
  /\ Starts \subseteq Int
  /\ StdValues \subseteq Kinds \cup {"void"}
  /\ PutLens \subseteq Nat
  /\ MaxOut \in Nat

VARIABLES
  stdIn, stdOut,     \* the values of standard-input and standard-output
  fileBound,         \* VFILE(f)->name # NULL
  fileIn,            \* the bytes getc(VFILE(f)->file) will return
  fileOut,           \* the bytes written to VFILE(f)->file
  resident,          \* mk_Flags & MKFF_RESIDENT
  sinStr, sinPos,    \* the STRING and NUMBER of the string input stream
  acc,               \* the content of the string output stream
  msg, posted,       \* w_Message and WINFF_MESSAGE of the current window
  procIn,            \* the bytes written to the process's stdin
  lastGet,           \* the stream and byte of the last successful read
  arg,               \* the stream argument of the last primitive called
  ret,               \* the last primitive's result and signalled condition
  oob                \* ghost: a read outside STRING's bytes happened

vars == <<stdIn, stdOut, fileBound, fileIn, fileOut, resident, sinStr,
          sinPos, acc, msg, posted, procIn, lastGet, arg, ret, oob>>

sinks == <<fileOut, acc, msg, posted, procIn>>

(* The bytes of a C string: STRING's content followed by its zero byte. *)
CBytes(s) == s \o <<0>>

(* No read to take back. *)
NoGet == [s |-> "none", c |-> EOF]

Init ==
  /\ stdIn \in StdValues
  /\ stdOut \in StdValues
  /\ fileBound \in BOOLEAN
  /\ fileIn \in InputStrings
  /\ fileOut = <<>>
  /\ resident \in BOOLEAN
  /\ sinStr \in InputStrings
  /\ sinPos \in Starts
  /\ acc = <<>>
  /\ msg = <<>>
  /\ posted \in BOOLEAN
  /\ procIn = <<>>
  /\ lastGet = NoGet
  /\ arg = "none"
  /\ ret = [op |-> "none", val |-> 0, sig |-> "none"]
  /\ oob = FALSE

(* `if(NILP(stream) && !(stream = cmd_symbol_value(sym, sym_nil)))':     *)
(* nil is replaced by the variable's value; a void variable signals and  *)
(* yields LISP_NULL.  A variable whose value is nil yields nil.          *)
Resolve(s, std) == IF s = "nil" THEN std ELSE s

(* The primitive op returned val, after signalling sig ("none": no       *)
(* condition).                                                            *)
Return(op, val, sig) == ret' = [op |-> op, val |-> val, sig |-> sig]

-----------------------------------------------------------------------------
(* stream_getc on a file (streams.c 142-145): getc when bound, else EOF. *)
GetFile ==
  /\ IF fileBound /\ fileIn # <<>>
       THEN /\ Return("get", Head(fileIn), "none")
            /\ fileIn' = Tail(fileIn)
       ELSE /\ Return("get", EOF, "none")
            /\ UNCHANGED fileIn
  /\ UNCHANGED <<sinPos, oob>>

(* stream_getc on a mark (147-152): a non-resident mark signals; else    *)
(* pos_getc, whose outcome is a character or EOF.                        *)
GetMark ==
  /\ IF resident
       THEN \E c \in Chars \cup {EOF} : Return("get", c, "none")
       ELSE Return("get", EOF, "invalid-stream")
  /\ UNCHANGED <<fileIn, sinPos, oob>>

(* Variant with a plausible bug: the offset advances over the zero byte. *)
GetStrInPastNul ==
  LET inside == sinPos \in 0 .. Len(sinStr)
      c == IF inside THEN CBytes(sinStr)[sinPos + 1]
           ELSE CHOOSE x \in Chars : TRUE
  IN  /\ oob' = (oob \/ ~inside)
      /\ Return("get", IF c # 0 THEN c ELSE EOF, "none")
      /\ sinPos' = sinPos + 1
      /\ UNCHANGED fileIn

(* stream_getc on (NUMBER . STRING) (158-168): the byte at offset NUMBER, *)
(* with no bound check; a zero byte is EOF and does not advance.  An     *)
(* offset outside the C string reads whatever memory holds there.        *)
GetStrIn ==
  LET inside == sinPos \in 0 .. Len(sinStr)
      c == IF inside THEN CBytes(sinStr)[sinPos + 1]
           ELSE CHOOSE x \in Chars : TRUE
  IN  /\ oob' = (oob \/ ~inside)
      /\ IF c # 0
           THEN /\ Return("get", c, "none")
                /\ sinPos' = sinPos + 1
           ELSE /\ Return("get", EOF, "none")
                /\ UNCHANGED sinPos
      /\ UNCHANGED fileIn

(* Variant with a plausible bug: VINT(res) without the INTP(res) check.  *)
GetCallableNoIntCheck(r) ==
  /\ IF r = "fn"
       THEN \E v \in FnResults : Return("get", v, "none")
       ELSE Return("get", EOF, "call-error")
  /\ UNCHANGED <<fileIn, sinPos, oob>>

(* stream_getc on a lambda cons or a symbol (174-187): call_lisp0; an    *)
(* integer result is the character, anything else EOF.  t and nil are    *)
(* symbols without a function: the call signals.                         *)
GetCallable(r) ==
  /\ IF r = "fn"
       THEN \E v \in FnResults :
              Return("get", IF v = LispNil THEN EOF ELSE v, "none")
       ELSE Return("get", EOF, "call-error")
  /\ UNCHANGED <<fileIn, sinPos, oob>>

(* stream_getc on a process (190-193), a (STRING . INT) cons (176) or any *)
(* other value (197-198): invalid-stream.                                 *)
GetInvalid ==
  /\ Return("get", EOF, "invalid-stream")
  /\ UNCHANGED <<fileIn, sinPos, oob>>

(* stream_getc (streams.c 130-201) on the resolved stream r. *)
GetFrom(r) ==
  \/ r = "file" /\ GetFile
  \/ r = "mark" /\ GetMark
  \/ r = "strin" /\ GetStrIn
  \/ r \in {"fn", "t", "nil"} /\ GetCallable(r)
  \/ r \in {"proc", "acc", "bad"} /\ GetInvalid

GetC(s) ==
  /\ IF Resolve(s, stdIn) = "void"
       THEN /\ Return("get", EOF, "void-value")
            /\ UNCHANGED <<fileIn, sinPos, oob>>
       ELSE GetFrom(Resolve(s, stdIn))
  /\ lastGet' = IF ret'.val # EOF /\ ret'.sig = "none"
                  THEN [s |-> Resolve(s, stdIn), c |-> ret'.val] ELSE NoGet
  /\ arg' = s
  /\ UNCHANGED <<stdIn, stdOut, fileBound, fileOut, resident, sinStr, acc,
                 msg, posted, procIn>>

(* Variant with a plausible bug: the string input stream's NUMBER is not *)
(* decremented (VCAR(stream) = MAKE_INT(VINT(tmp)) for VINT(tmp) - 1).   *)
UngetCKeepOffset(s) ==
  /\ lastGet # NoGet
  /\ Resolve(s, stdIn) = lastGet.s
  /\ LET r == lastGet.s
         c == lastGet.c
     IN
     \/ /\ r = "file"
        /\ fileIn' = <<c>> \o fileIn
        /\ Return("unget", 1, "none")
        /\ UNCHANGED sinPos
     \/ /\ r \in {"mark", "strin"}
        /\ Return("unget", 1, "none")
        /\ UNCHANGED <<fileIn, sinPos>>
     \/ /\ r = "fn"
        /\ \E v \in FnResults : Return("unget", IF v = LispNil THEN 0 ELSE 1, "none")
        /\ UNCHANGED <<fileIn, sinPos>>
  /\ lastGet' = NoGet
  /\ arg' = s
  /\ UNCHANGED <<stdIn, stdOut, fileBound, fileOut, resident, sinStr, acc,
                 msg, posted, procIn, oob>>

(* stream_ungetc (streams.c 222-278), only ever called, as cmd_read does, *)
(* right after a successful read from the same stream, with the byte read.*)
UngetC(s) ==
  /\ lastGet # NoGet
  /\ Resolve(s, stdIn) = lastGet.s
  /\ LET r == lastGet.s
         c == lastGet.c
     IN
     \/ /\ r = "file"
        /\ fileIn' = <<c>> \o fileIn
        /\ Return("unget", 1, "none")
        /\ UNCHANGED sinPos
     \/ /\ r = "mark"
        /\ Return("unget", 1, "none")
        /\ UNCHANGED <<fileIn, sinPos>>
     \/ /\ r = "strin"
        /\ sinPos' = sinPos - 1
        /\ Return("unget", 1, "none")
        /\ UNCHANGED fileIn
     \/ /\ r = "fn"
        /\ \E v \in FnResults : Return("unget", IF v = LispNil THEN 0 ELSE 1, "none")
        /\ UNCHANGED <<fileIn, sinPos>>
  /\ lastGet' = NoGet
  /\ arg' = s
  /\ UNCHANGED <<stdIn, stdOut, fileBound, fileOut, resident, sinStr, acc,
                 msg, posted, procIn, oob>>

-----------------------------------------------------------------------------
(* stream_putc (streams.c 280-402) and stream_puts (404-543) on the       *)
(* resolved stream r, writing the run bs; op is "putc" or "puts".  The    *)
(* two primitives differ only in what they return.                        *)
PutTo(r, op, bs) ==
  LET n == Len(bs) IN
  \/ /\ r = "file"
     /\ IF fileBound
          THEN /\ fileOut' = fileOut \o bs
               /\ Return(op, n, "none")
          ELSE /\ Return(op, 0, "none")
               /\ UNCHANGED fileOut
     /\ UNCHANGED <<acc, msg, posted, procIn>>
  \/ /\ r = "mark"
     /\ IF resident
          THEN \E ok \in BOOLEAN :
                 Return(op, IF ok THEN n ELSE EOF, "none")
          ELSE Return(op, 0, "invalid-stream")
     /\ UNCHANGED sinks
  \/ /\ r = "acc"
     /\ acc' = acc \o bs
     /\ Return(op, n, "none")
     /\ UNCHANGED <<fileOut, msg, posted, procIn>>
  \/ /\ r = "t"
     /\ msg' = IF posted THEN msg \o bs ELSE bs
     /\ posted' = TRUE
     /\ Return(op, n, "none")
     /\ UNCHANGED <<fileOut, acc, procIn>>
  \/ /\ r = "fn"
     /\ \E v \in FnResults :
          Return(op, IF v = LispNil THEN 0
                     ELSE IF op = "puts" /\ v \in Int THEN v
                     ELSE IF op = "puts" THEN n ELSE 1, "none")
     /\ UNCHANGED sinks
  \/ /\ r = "nil"
     /\ Return(op, 0, "call-error")
     /\ UNCHANGED sinks
  \/ /\ r = "proc"
     /\ \E k \in {0, n} :
          /\ procIn' = procIn \o SubSeq(bs, 1, k)
          /\ Return(op, k, "none")
     /\ UNCHANGED <<fileOut, acc, msg, posted>>
  \/ /\ r \in {"strin", "bad"}
     /\ Return(op, 0, "invalid-stream")
     /\ UNCHANGED sinks

Put(s, op, bs) ==
  /\ Len(fileOut) + Len(acc) + Len(msg) + Len(procIn) + Len(bs) <= MaxOut
  /\ IF Resolve(s, stdOut) = "void"
       THEN /\ Return(op, 0, "void-value")
            /\ UNCHANGED sinks
       ELSE PutTo(Resolve(s, stdOut), op, bs)
  /\ lastGet' = NoGet
  /\ arg' = s
  /\ UNCHANGED <<stdIn, stdOut, fileBound, fileIn, resident, sinStr, sinPos,
                 oob>>

PutC(s, c) == Put(s, "putc", <<c>>)

PutS(s, bs) == Put(s, "puts", bs)

Next ==
  \/ \E s \in Kinds : GetC(s)
  \/ \E s \in Kinds : UngetC(s)
  \/ \E s \in Kinds, c \in Chars : PutC(s, c)
  \/ \E s \in Kinds, n \in PutLens : \E bs \in [1 .. n -> Chars] : PutS(s, bs)

Spec == Init /\ [][Next]_vars
-----------------------------------------------------------------------------
TypeOK ==
  /\ fileBound \in BOOLEAN /\ resident \in BOOLEAN /\ posted \in BOOLEAN
  /\ fileIn \in Seq(Chars) /\ fileOut \in Seq(Chars)
  /\ acc \in Seq(Chars) /\ msg \in Seq(Chars) /\ procIn \in Seq(Chars)
  /\ sinPos \in Int
  /\ arg \in Kinds \cup {"none"}
  /\ ret \in [op : {"none", "get", "unget", "putc", "puts"}, val : Int,
              sig : {"none", "invalid-stream", "call-error", "void-value"}]
  /\ oob \in BOOLEAN

(* The string input stream never reads outside its STRING and the zero  *)
(* byte after it, whatever reads and unreads (after successful reads)    *)
(* its users interleave: the zero byte stops it.                         *)
NoOutOfBoundsRead == ~oob

(* stream_ungetc on the string input stream right after a read of it     *)
(* (streams.c 253-258, after 158-168) gives the byte back: the offset it *)
(* leaves is the one the byte was read from, so the next stream_getc     *)
(* returns that byte again, as cmd_read's look-ahead relies on.          *)
UngetRestoresStrIn ==
  [][ret'.op = "unget" /\ lastGet.s = "strin"
       => CBytes(sinStr')[sinPos' + 1] = lastGet.c]_vars

(* The variable consulted for a nil stream argument. *)
StdFor(op) == IF op \in {"get", "unget"} THEN stdIn ELSE stdOut

(* Spec section 4.2: when the stream argument is nil and the variable    *)
(* standard-input/-output is nil too, the primitive returns EOF or 0     *)
(* without signalling.                                                   *)
NilStreamNoop ==
  arg = "nil" /\ StdFor(ret.op) = "nil" => ret.sig = "none"
=============================================================================
