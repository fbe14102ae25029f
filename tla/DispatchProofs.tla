--------------------------- MODULE DispatchProofs ---------------------------
(***************************************************************************)
(* Proof that the string input stream never reads outside its STRING and   *)
(* the zero byte after it, provided make-string-input-stream was given a   *)
(* START inside the string.  The code does not check START (run            *)
(* dispatch_start finds the read outside the string when it is not); the   *)
(* theorem shows that this is the only way out: the zero-byte stop of      *)
(* stream_getc and the rule that stream_ungetc follows a successful read   *)
(* keep the offset inside for any interleaving of reads, unreads and       *)
(* writes on any of the streams.                                           *)
(***************************************************************************)
EXTENDS Dispatch, SequenceTheorems, TLAPS

(* Every START make-string-input-stream is given lies within its STRING   *)
(* (offsets 0 .. length, the last one at the zero byte).                  *)
ValidStarts == \A s \in InputStrings : Starts \subseteq 0 .. Len(s)

(* The offset stays within the C string; right after a successful read of *)
(* the string input stream it is just past the byte read, so the unread   *)
(* that may follow stays within the string and lands on that byte.        *)
DInv ==
  /\ sinStr \in InputStrings
  /\ sinPos \in 0 .. Len(sinStr)
  /\ lastGet.s = "strin" => /\ sinPos \in 1 .. Len(sinStr)
                            /\ sinStr[sinPos] = lastGet.c
  /\ oob = FALSE
-----------------------------------------------------------------------------
LEMMA DInit == ValidStarts /\ Init => DInv
BY DispatchAssumption DEF ValidStarts, Init, DInv, NoGet

(* A read of the string input stream from an offset inside the C string.  *)
LEMMA DGetStrIn ==
  ASSUME DInv, GetStrIn
  PROVE  /\ sinPos' \in 0 .. Len(sinStr)
         /\ oob' = FALSE
         /\ ret'.val # EOF => /\ sinPos' \in 1 .. Len(sinStr)
                              /\ sinStr[sinPos'] = ret'.val
<1>0. sinStr \in Seq(Chars) /\ sinPos \in 0 .. Len(sinStr)
  BY DispatchAssumption DEF DInv
<1>1. CBytes(sinStr)[sinPos + 1] = IF sinPos < Len(sinStr) THEN sinStr[sinPos + 1] ELSE 0
  BY <1>0 DEF CBytes
<1> DEFINE c == CBytes(sinStr)[sinPos + 1]
<1>3. oob' = FALSE
  <2>1. oob' = (oob \/ ~(sinPos \in 0 .. Len(sinStr))) /\ oob = FALSE
    BY DEF GetStrIn, DInv
  <2>2. QED
    BY <1>0, <2>1, Zenon
<1>4. CASE c # 0
  <2>1. sinPos' = sinPos + 1
    BY <1>0, <1>4 DEF GetStrIn
  <2>2. sinPos < Len(sinStr)
    BY <1>0, <1>1, <1>4
  <2>3. ret'.val = sinStr[sinPos + 1]
    BY <1>0, <1>1, <1>4, <2>2 DEF GetStrIn, Return
  <2>4. QED
    BY <1>0, <1>3, <2>1, <2>2, <2>3
<1>5. CASE c = 0
  <2>1. sinPos' = sinPos /\ ret'.val = EOF
    BY <1>0, <1>5 DEF GetStrIn, Return
  <2>2. QED
    BY <1>0, <1>3, <2>1
<1>6. QED
  BY <1>4, <1>5

(* A read of any other stream leaves the string input stream alone. *)
LEMMA GetOtherKeeps ==
  ASSUME NEW r, r # "strin", GetFrom(r)
  PROVE  UNCHANGED <<sinPos, oob>>
BY DEF GetFrom, GetFile, GetMark, GetCallable, GetInvalid

(* stream_getc keeps the invariant. *)
LEMMA DGetC ==
  ASSUME DInv, NEW s \in Kinds, GetC(s)
  PROVE  DInv'
<1> DEFINE r == Resolve(s, stdIn)
<1>0. /\ sinStr' = sinStr
      /\ lastGet' = IF ret'.val # EOF /\ ret'.sig = "none"
                      THEN [s |-> r, c |-> ret'.val] ELSE NoGet
  BY DEF GetC
<1>1. CASE r = "void"
  <2>1. UNCHANGED <<sinPos, oob>> /\ ret'.sig = "void-value"
    BY <1>1 DEF GetC, Return
  <2>2. lastGet'.s = "none"
    BY <1>0, <2>1 DEF NoGet
  <2>3. QED
    BY <1>0, <2>1, <2>2 DEF DInv
<1>2. CASE r = "strin"
  <2>1. GetStrIn
    BY <1>2 DEF GetC, GetFrom
  <2>2. /\ sinPos' \in 0 .. Len(sinStr)
        /\ oob' = FALSE
        /\ ret'.val # EOF => /\ sinPos' \in 1 .. Len(sinStr)
                             /\ sinStr[sinPos'] = ret'.val
    BY <2>1, DGetStrIn
  <2>3. lastGet'.s = "strin" => ret'.val # EOF /\ lastGet'.c = ret'.val
    BY <1>0 DEF NoGet
  <2>4. QED
    BY <1>0, <2>2, <2>3 DEF DInv
<1>3. CASE r # "void" /\ r # "strin"
  <2>1. GetFrom(r)
    BY <1>3 DEF GetC
  <2>2. UNCHANGED <<sinPos, oob>>
    BY <1>3, <2>1, GetOtherKeeps
  <2>3. lastGet'.s # "strin"
    BY <1>0, <1>3 DEF NoGet
  <2>4. QED
    BY <1>0, <2>2, <2>3 DEF DInv
<1>4. QED
  BY <1>1, <1>2, <1>3

(* stream_ungetc right after a successful read: on the string input      *)
(* stream it steps back over the byte read, which the invariant says lies *)
(* inside the string.                                                     *)
LEMMA DUngetC ==
  ASSUME DInv, NEW s \in Kinds, UngetC(s)
  PROVE  DInv'
<1>0. /\ sinStr' = sinStr /\ oob' = oob
      /\ lastGet' = NoGet
  BY DEF UngetC
<1>1. CASE lastGet.s = "strin"
  <2>1. sinPos' = sinPos - 1
    BY <1>1 DEF UngetC
  <2>2. QED
    BY <1>0, <1>1, <2>1 DEF DInv, NoGet
<1>2. CASE lastGet.s # "strin"
  <2>1. sinPos' = sinPos
    BY <1>2 DEF UngetC
  <2>2. QED
    BY <1>0, <2>1 DEF DInv, NoGet
<1>3. QED
  BY <1>1, <1>2

(* stream_putc and stream_puts leave the string input stream alone. *)
LEMMA DPut ==
  ASSUME DInv, NEW s, NEW op, NEW bs, Put(s, op, bs)
  PROVE  DInv'
BY DEF Put, DInv, NoGet

LEMMA DNext == DInv /\ [Next]_vars => DInv'
<1> SUFFICES ASSUME DInv, [Next]_vars PROVE DInv'
  OBVIOUS
<1>1. CASE \E s \in Kinds : GetC(s)
  BY <1>1, DGetC
<1>2. CASE \E s \in Kinds : UngetC(s)
  BY <1>2, DUngetC
<1>3. CASE \E s \in Kinds, c \in Chars : PutC(s, c)
  BY <1>3, DPut DEF PutC
<1>4. CASE \E s \in Kinds, n \in PutLens : \E bs \in [1 .. n -> Chars] : PutS(s, bs)
  BY <1>4, DPut DEF PutS
<1>5. CASE UNCHANGED vars
  BY <1>5 DEF vars, DInv
<1>6. QED
  BY <1>1, <1>2, <1>3, <1>4, <1>5 DEF Next

(* For every alphabet, set of input strings, callable and standard-stream *)
(* binding: when every START given to make-string-input-stream lies within *)
(* its string, stream_getc on a (NUMBER . STRING) never reads outside the  *)
(* string and its zero byte, however reads, unreads after reads and writes *)
(* on all the streams interleave.                                          *)
THEOREM StringInputInBounds ==
  ASSUME ValidStarts
  PROVE  Spec => []NoOutOfBoundsRead
<1>1. Init => DInv
  BY DInit
<1>2. DInv => NoOutOfBoundsRead
  BY DEF DInv, NoOutOfBoundsRead
<1>3. QED
  BY <1>1, <1>2, DNext, PTL DEF Spec

(* An unread of the string input stream lands on the byte just read. *)
LEMMA UngetStep ==
  ASSUME DInv, [Next]_vars
  PROVE  [ret'.op = "unget" /\ lastGet.s = "strin"
            => CBytes(sinStr')[sinPos' + 1] = lastGet.c]_vars
<1>1. CASE UNCHANGED vars
  BY <1>1
<1>2. CASE Next
  <2> SUFFICES ASSUME ret'.op = "unget", lastGet.s = "strin"
               PROVE  CBytes(sinStr')[sinPos' + 1] = lastGet.c
    OBVIOUS
  <2>0. /\ sinStr \in Seq(Chars)
        /\ sinPos \in 1 .. Len(sinStr)
        /\ sinStr[sinPos] = lastGet.c
    BY DispatchAssumption DEF DInv
  <2>1. CASE \E s \in Kinds : UngetC(s)
    <3>1. sinStr' = sinStr /\ sinPos' = sinPos - 1
      BY <2>1 DEF UngetC
    <3>2. QED
      BY <2>0, <3>1 DEF CBytes
  <2>2. CASE \E s \in Kinds : GetC(s)
    BY <2>2 DEF GetC, GetFrom, GetFile, GetMark, GetStrIn, GetCallable,
                GetInvalid, Return
  <2>3. CASE \E s \in Kinds, c \in Chars : PutC(s, c)
    BY <2>3 DEF PutC, Put, PutTo, Return
  <2>4. CASE \E s \in Kinds, n \in PutLens : \E bs \in [1 .. n -> Chars] : PutS(s, bs)
    BY <2>4 DEF PutS, Put, PutTo, Return
  <2>5. QED
    BY <1>2, <2>1, <2>2, <2>3, <2>4 DEF Next
<1>3. QED
  BY <1>1, <1>2

(* For every alphabet, set of input strings, callable and standard-stream *)
(* binding with valid STARTs: every stream_ungetc of the string input     *)
(* stream that follows a read of it restores the offset the byte was read *)
(* from, so the read that comes next returns the same byte.               *)
THEOREM UngetGivesBackByte ==
  ASSUME ValidStarts
  PROVE  Spec => UngetRestoresStrIn
<1>1. Spec => []DInv
  BY DInit, DNext, PTL DEF Spec
<1>2. QED
  BY <1>1, UngetStep, PTL DEF Spec, UngetRestoresStrIn
-----------------------------------------------------------------------------
(***************************************************************************)
(* Type correctness, for every START (valid or not).  TypeOK is not        *)
(* inductive alone: stream_ungetc on a file pushes back lastGet.c, so the  *)
(* byte remembered from a read of the file must be a character.            *)
(***************************************************************************)
RetType == [op : {"none", "get", "unget", "putc", "puts"}, val : Int,
            sig : {"none", "invalid-stream", "call-error", "void-value"}]

TInv ==
  /\ TypeOK
  /\ sinStr \in InputStrings
  /\ lastGet \in [s : Kinds \cup {"none"}, c : Int]
  /\ lastGet.s = "file" => lastGet.c \in Chars

LEMMA TInit == Init => TInv
<1> SUFFICES ASSUME Init PROVE TInv
  OBVIOUS
<1>1. /\ fileIn \in Seq(Chars) /\ sinStr \in InputStrings /\ sinPos \in Int
  BY DispatchAssumption DEF Init
<1>2. ret \in RetType /\ lastGet \in [s : Kinds \cup {"none"}, c : Int]
  BY DEF Init, RetType, NoGet, EOF
<1>3. /\ fileOut = <<>> /\ acc = <<>> /\ msg = <<>> /\ procIn = <<>>
      /\ fileBound \in BOOLEAN /\ resident \in BOOLEAN /\ posted \in BOOLEAN
      /\ arg \in Kinds \cup {"none"} /\ oob \in BOOLEAN
      /\ lastGet.s = "none"
  BY DEF Init, NoGet
<1>4. <<>> \in Seq(Chars)
  OBVIOUS
<1>5. TypeOK
  BY <1>1, <1>2, <1>3, <1>4 DEF TypeOK, RetType
<1>6. QED
  BY <1>1, <1>2, <1>3, <1>5 DEF TInv

(* What a read of the resolved stream r leaves behind. *)
(* A result built from an operation, an integer and a condition is typed. *)
LEMMA RetOK ==
  ASSUME NEW o \in {"none", "get", "unget", "putc", "puts"}, NEW v \in Int,
         NEW g \in {"none", "invalid-stream", "call-error", "void-value"}
  PROVE  [op |-> o, val |-> v, sig |-> g] \in RetType
BY DEF RetType

LEMMA TGetFrom ==
  ASSUME TInv, NEW r, GetFrom(r)
  PROVE  /\ r \in Kinds
         /\ ret' \in RetType
         /\ fileIn' \in Seq(Chars) /\ sinPos' \in Int /\ oob' \in BOOLEAN
         /\ r = "file" /\ ret'.val # EOF => ret'.val \in Chars
<1>0. /\ Chars \subseteq Int /\ Chars # {}
      /\ fileIn \in Seq(Chars) /\ sinStr \in Seq(Chars)
      /\ sinPos \in Int /\ oob \in BOOLEAN
      /\ EOF \in Int
  BY DispatchAssumption DEF TInv, TypeOK, EOF
<1>1. CASE r = "file" /\ GetFile
  <2>1. CASE fileBound /\ fileIn # <<>>
    <3>1. Head(fileIn) \in Chars /\ Tail(fileIn) \in Seq(Chars)
      BY <1>0, <2>1, HeadTailProperties
    <3>2. ret' = [op |-> "get", val |-> Head(fileIn), sig |-> "none"]
          /\ fileIn' = Tail(fileIn) /\ UNCHANGED <<sinPos, oob>>
      BY <1>1, <2>1 DEF GetFile, Return
    <3>3. ret' \in RetType
      BY <1>0, <3>1, <3>2, RetOK
    <3>4. QED
      BY <1>0, <1>1, <3>1, <3>2, <3>3 DEF Kinds
  <2>2. CASE ~(fileBound /\ fileIn # <<>>)
    <3>1. ret' = [op |-> "get", val |-> EOF, sig |-> "none"]
          /\ UNCHANGED <<fileIn, sinPos, oob>>
      BY <1>1, <2>2 DEF GetFile, Return
    <3>2. ret' \in RetType
      BY <1>0, <3>1, RetOK
    <3>3. QED
      BY <1>0, <1>1, <3>1, <3>2 DEF Kinds
  <2>3. QED
    BY <2>1, <2>2
<1>2. CASE r = "mark" /\ GetMark
  <2>1. /\ \E v \in Chars \cup {EOF}, g \in {"none", "invalid-stream"} :
             ret' = [op |-> "get", val |-> v, sig |-> g]
        /\ UNCHANGED <<fileIn, sinPos, oob>>
    BY <1>2 DEF GetMark, Return
  <2>2. ret' \in RetType
    BY <1>0, <2>1, RetOK
  <2>3. QED
    BY <1>0, <1>2, <2>1, <2>2 DEF Kinds
<1>3. CASE r = "strin" /\ GetStrIn
  <2> DEFINE inside == sinPos \in 0 .. Len(sinStr)
             c == IF inside THEN CBytes(sinStr)[sinPos + 1]
                  ELSE CHOOSE x \in Chars : TRUE
  <2>1. c \in Int
    <3>1. CASE inside
      <4>1. CBytes(sinStr) \in Seq(Chars \cup {0}) /\ Len(CBytes(sinStr)) = Len(sinStr) + 1
        BY <1>0 DEF CBytes
      <4>2. sinPos + 1 \in 1 .. Len(CBytes(sinStr))
        BY <1>0, <3>1, <4>1
      <4>3. CBytes(sinStr)[sinPos + 1] \in Chars \cup {0}
        BY <4>1, <4>2
      <4>4. c = CBytes(sinStr)[sinPos + 1]
        BY <3>1 DEF c, inside
      <4>5. Chars \cup {0} \subseteq Int
        BY DispatchAssumption
      <4>7. CBytes(sinStr)[sinPos + 1] \in Int
        BY <4>3, <4>5, Zenon
      <4>6. QED
        BY <4>4, <4>7, Zenon
    <3>2. CASE ~inside
      <4>1. (CHOOSE x \in Chars : TRUE) \in Chars
        BY <1>0, Zenon
      <4>2. c = CHOOSE x \in Chars : TRUE
        BY <3>2 DEF c, inside
      <4>3. QED
        BY <1>0, <4>1, <4>2
    <3>3. QED
      BY <3>1, <3>2
  <2>2. /\ ret' = [op |-> "get", val |-> IF c # 0 THEN c ELSE EOF, sig |-> "none"]
        /\ sinPos' \in {sinPos, sinPos + 1}
        /\ oob' = (oob \/ ~inside)
        /\ UNCHANGED fileIn
    BY <1>3 DEF GetStrIn, Return
  <2>3. ret' \in RetType
    BY <1>0, <2>1, <2>2, RetOK
  <2>4. QED
    BY <1>0, <1>3, <2>2, <2>3 DEF Kinds
<1>4. CASE r \in {"fn", "t", "nil"} /\ GetCallable(r)
  <2>1. /\ \E v \in Int, g \in {"none", "call-error"} :
             ret' = [op |-> "get", val |-> v, sig |-> g]
        /\ UNCHANGED <<fileIn, sinPos, oob>>
    BY <1>0, <1>4, DispatchAssumption DEF GetCallable, Return
  <2>2. ret' \in RetType
    BY <1>0, <2>1, RetOK
  <2>3. QED
    BY <1>0, <1>4, <2>1, <2>2 DEF Kinds
<1>5. CASE r \in {"proc", "acc", "bad"} /\ GetInvalid
  <2>1. /\ ret' = [op |-> "get", val |-> EOF, sig |-> "invalid-stream"]
        /\ UNCHANGED <<fileIn, sinPos, oob>>
    BY <1>5 DEF GetInvalid, Return
  <2>2. ret' \in RetType
    BY <1>0, <2>1, RetOK
  <2>3. QED
    BY <1>0, <1>5, <2>1, <2>2 DEF Kinds
<1>6. QED
  BY <1>1, <1>2, <1>3, <1>4, <1>5 DEF GetFrom

(* stream_getc keeps the types. *)
LEMMA TGetC ==
  ASSUME TInv, NEW s \in Kinds, GetC(s)
  PROVE  TInv'
<1> DEFINE r == Resolve(s, stdIn)
<1>0. /\ lastGet' = IF ret'.val # EOF /\ ret'.sig = "none"
                      THEN [s |-> r, c |-> ret'.val] ELSE NoGet
      /\ arg' = s
      /\ UNCHANGED <<fileBound, fileOut, resident, sinStr, acc, msg, posted,
                     procIn>>
  BY DEF GetC
<1>1. CASE r = "void"
  <2>1. UNCHANGED <<fileIn, sinPos, oob>> /\ ret' \in RetType
        /\ ret'.sig = "void-value"
    BY <1>1 DEF GetC, Return, RetType, EOF
  <2>2. lastGet' = NoGet
    BY <1>0, <2>1
  <2>3. QED
    BY <1>0, <2>1, <2>2 DEF TInv, TypeOK, NoGet, RetType, Kinds, EOF
<1>2. CASE r # "void"
  <2>1. GetFrom(r)
    BY <1>2 DEF GetC
  <2>2. /\ r \in Kinds
        /\ ret' \in RetType
        /\ fileIn' \in Seq(Chars) /\ sinPos' \in Int /\ oob' \in BOOLEAN
        /\ r = "file" /\ ret'.val # EOF => ret'.val \in Chars
    BY <2>1, TGetFrom
  <2>3. QED
    BY <1>0, <2>2 DEF TInv, TypeOK, NoGet, RetType, Kinds, EOF
<1>3. QED
  BY <1>1, <1>2

(* stream_ungetc keeps the types: a file gets back a character. *)
LEMMA TUngetC ==
  ASSUME TInv, NEW s \in Kinds, UngetC(s)
  PROVE  TInv'
<1>0. /\ fileIn \in Seq(Chars) /\ sinPos \in Int
      /\ lastGet \in [s : Kinds \cup {"none"}, c : Int]
      /\ lastGet.s = "file" => lastGet.c \in Chars
  BY DEF TInv, TypeOK
<1>1. fileIn' \in Seq(Chars)
  <2>1. CASE lastGet.s = "file"
    <3>1. <<lastGet.c>> \in Seq(Chars)
      BY <1>0, <2>1
    <3>2. QED
      BY <1>0, <2>1, <3>1, ConcatProperties DEF UngetC
  <2>4. CASE lastGet.s # "file"
    BY <1>0, <2>4 DEF UngetC
  <2>5. QED
    BY <2>1, <2>4
<1>2. ret' \in RetType /\ sinPos' \in Int
  BY <1>0 DEF UngetC, Return, RetType
<1>3. QED
  BY <1>1, <1>2 DEF UngetC, TInv, TypeOK, NoGet, RetType, EOF

(* A write to the resolved stream r keeps the sinks typed. *)
LEMMA TPutTo ==
  ASSUME TInv, NEW r, NEW op \in {"putc", "puts"}, NEW bs \in Seq(Chars),
         PutTo(r, op, bs)
  PROVE  /\ fileOut' \in Seq(Chars) /\ acc' \in Seq(Chars)
         /\ msg' \in Seq(Chars) /\ posted' \in BOOLEAN
         /\ procIn' \in Seq(Chars)
         /\ ret' \in RetType
<1>0. /\ fileOut \in Seq(Chars) /\ acc \in Seq(Chars) /\ msg \in Seq(Chars)
      /\ procIn \in Seq(Chars) /\ posted \in BOOLEAN /\ fileBound \in BOOLEAN
      /\ Len(bs) \in Int /\ EOF \in Int /\ 0 \in Int
  BY DEF TInv, TypeOK, EOF
<1>1. /\ fileOut \o bs \in Seq(Chars) /\ acc \o bs \in Seq(Chars)
      /\ msg \o bs \in Seq(Chars)
  BY <1>0, ConcatProperties
<1>2. CASE r = "file"
  BY <1>0, <1>1, <1>2, RetOK DEF PutTo, Return, sinks
<1>3. CASE r = "mark"
  BY <1>0, <1>3, RetOK DEF PutTo, Return, sinks
<1>4. CASE r = "acc"
  BY <1>0, <1>1, <1>4, RetOK DEF PutTo, Return, sinks
<1>5. CASE r = "t"
  BY <1>0, <1>1, <1>5, RetOK DEF PutTo, Return, sinks
<1>6. CASE r = "fn"
  <2>1. PICK v \in FnResults :
          ret' = [op |-> op, val |-> IF v = LispNil THEN 0
                                    ELSE IF op = "puts" /\ v \in Int THEN v
                                    ELSE IF op = "puts" THEN Len(bs) ELSE 1,
                  sig |-> "none"]
    BY <1>6 DEF PutTo, Return
  <2>2. (IF v = LispNil THEN 0
         ELSE IF op = "puts" /\ v \in Int THEN v
         ELSE IF op = "puts" THEN Len(bs) ELSE 1) \in Int
    BY <1>0, DispatchAssumption
  <2>3. ret' \in RetType
    BY <2>1, <2>2 DEF RetType
  <2>4. QED
    BY <1>0, <1>6, <2>3 DEF PutTo, sinks
<1>7. CASE r = "nil"
  BY <1>0, <1>7, RetOK DEF PutTo, Return, sinks
<1>8. CASE r = "proc"
  <2>1. PICK k \in {0, Len(bs)} :
          /\ procIn' = procIn \o SubSeq(bs, 1, k)
          /\ ret' = [op |-> op, val |-> k, sig |-> "none"]
    BY <1>8 DEF PutTo, Return
  <2>2. SubSeq(bs, 1, k) \in Seq(Chars)
    BY SubSeqProperties
  <2>3. procIn' \in Seq(Chars)
    BY <1>0, <2>1, <2>2, ConcatProperties
  <2>4. ret' \in RetType
    BY <1>0, <2>1, RetOK
  <2>5. QED
    BY <1>0, <1>8, <2>3, <2>4 DEF PutTo
<1>9. CASE r \in {"strin", "bad"}
  BY <1>0, <1>9, RetOK DEF PutTo, Return, sinks
<1>10. QED
  BY <1>2, <1>3, <1>4, <1>5, <1>6, <1>7, <1>8, <1>9 DEF PutTo

(* stream_putc and stream_puts keep the types of the sinks. *)
LEMMA TPut ==
  ASSUME TInv, NEW s \in Kinds, NEW op \in {"putc", "puts"},
         NEW bs \in Seq(Chars), Put(s, op, bs)
  PROVE  TInv'
<1> DEFINE r == Resolve(s, stdOut)
<1>0. /\ fileOut \in Seq(Chars) /\ acc \in Seq(Chars) /\ msg \in Seq(Chars)
      /\ procIn \in Seq(Chars) /\ posted \in BOOLEAN
      /\ lastGet' = NoGet /\ arg' = s
      /\ UNCHANGED <<stdIn, stdOut, fileBound, fileIn, resident, sinStr,
                     sinPos, oob>>
  BY DEF TInv, TypeOK, Put
<1>1. /\ fileOut' \in Seq(Chars) /\ acc' \in Seq(Chars)
      /\ msg' \in Seq(Chars) /\ posted' \in BOOLEAN
      /\ procIn' \in Seq(Chars)
      /\ ret' \in RetType
  <2>1. CASE r = "void"
    <3>1. UNCHANGED sinks /\ ret' = [op |-> op, val |-> 0, sig |-> "void-value"]
      BY <2>1 DEF Put, Return
    <3>2. ret' \in RetType
      BY <3>1 DEF RetType
    <3>3. QED
      BY <1>0, <3>1, <3>2 DEF sinks
  <2>2. CASE r # "void"
    BY <2>2, TPutTo DEF Put
  <2>3. QED
    BY <2>1, <2>2
<1>2. NoGet \in [s : Kinds \cup {"none"}, c : Int]
  BY DEF NoGet, EOF
<1>3. QED
  BY <1>0, <1>1, <1>2 DEF TInv, TypeOK, NoGet, Kinds, RetType

LEMMA TNext == TInv /\ [Next]_vars => TInv'
<1> SUFFICES ASSUME TInv, [Next]_vars PROVE TInv'
  OBVIOUS
<1>1. CASE \E s \in Kinds : GetC(s)
  BY <1>1, TGetC
<1>2. CASE \E s \in Kinds : UngetC(s)
  BY <1>2, TUngetC
<1>3. CASE \E s \in Kinds, c \in Chars : PutC(s, c)
  <2>1. PICK s \in Kinds, c \in Chars : Put(s, "putc", <<c>>)
    BY <1>3 DEF PutC
  <2>2. <<c>> \in Seq(Chars)
    OBVIOUS
  <2>3. QED
    BY <2>1, <2>2, TPut
<1>4. CASE \E s \in Kinds, n \in PutLens : \E bs \in [1 .. n -> Chars] : PutS(s, bs)
  <2>1. PICK s \in Kinds, n \in PutLens :
              \E bs \in [1 .. n -> Chars] : Put(s, "puts", bs)
    BY <1>4 DEF PutS
  <2>2. PICK bs \in [1 .. n -> Chars] : Put(s, "puts", bs)
    BY <2>1
  <2>3. bs \in Seq(Chars)
    BY DispatchAssumption
  <2>4. QED
    BY <2>2, <2>3, TPut
<1>5. CASE UNCHANGED vars
  BY <1>5 DEF vars, TInv, TypeOK
<1>6. QED
  BY <1>1, <1>2, <1>3, <1>4, <1>5 DEF Next

(* For every alphabet, input strings, callable results, standard-stream   *)
(* bindings and STARTs, valid or not: the four primitives only ever leave *)
(* well-typed sinks, a file input of characters (ungetc pushes back a     *)
(* character read from it) and an integer result with one of the four     *)
(* conditions, whatever the interleaving of calls.                         *)
THEOREM DispatchTypeOK == Spec => []TypeOK
<1>1. TInv => TypeOK
  BY DEF TInv
<1>2. QED
  BY TInit, TNext, <1>1, PTL DEF Spec
====
