----------------------------- MODULE Accumulator -----------------------------
(***************************************************************************)
(* The string output stream of streams.c: a cons (STRING . ACTUAL-LENGTH)  *)
(* built by make-string-output-stream and by `format' with a nil stream.   *)
(* STRING's byte array is modelled as `mem' over 0 .. size-1 (the bytes    *)
(* make_string allocated), its STRING_LEN as `len' and the cdr integer as  *)
(* `cap'.  Writing outside the allocation is undefined behaviour in the C  *)
(* code; the ghost flag `oob' records that it happened.                    *)
(***************************************************************************)
EXTENDS Integers, Sequences

CONSTANTS
  Bytes,     \* the byte values written (data abstracted to a small set)
  Nul,       \* the zero byte kept after the logical end
  Garbage,   \* the content of freshly allocated, never written bytes
  MinCap,    \* 32: the capacity of the first growth
  SmallCap,  \* 16: below this capacity growth jumps to MinCap
  PutLens,   \* the lengths of the byte runs handed to stream_puts
  MaxLen     \* bound on the logical length, to keep the model finite

ASSUME AccumulatorAssumption ==
  /\ MinCap \in Nat \ {0}
  /\ MinCap >= 2
  /\ SmallCap \in 1 .. MinCap
  /\ PutLens \subseteq Nat
  /\ MaxLen \in Nat
  /\ Garbage \notin Bytes \cup {Nul}

VARIABLES
  mem,     \* VSTR(VCAR(stream)): the allocated bytes of the car string
  size,    \* the number of bytes make_string allocated for it
  len,     \* STRING_LEN(VCAR(stream))
  cap,     \* VINT(VCDR(stream)), `actuallen' in the code
  rc,      \* the value the last stream primitive returned
  result,  \* the string the last get-output-stream-string returned
  oob      \* ghost: some write fell outside 0 .. size-1

vars == <<mem, size, len, cap, rc, result, oob>>

(* A run of bytes handed to stream_puts. *)
Payloads == UNION {[1 .. n -> Bytes] : n \in PutLens}

(* The logical content: the first STRING_LEN bytes of the car string. *)
Content == [i \in 1 .. len |-> mem[i - 1]]

(* string_dupn("", 0): a one-byte allocation holding the terminator. *)
EmptyString == [j \in {0} |-> Nul]

(* make-string-output-stream returns ("" . 0). *)
Init ==
  /\ mem = EmptyString
  /\ size = 1
  /\ len = 0
  /\ cap = 0
  /\ rc = 0
  /\ result = <<>>
  /\ oob = FALSE

(* The capacity stream_putc grows to: `actuallen < 16 ? 32 : actuallen*2'. *)
PutcNewLen == IF cap < SmallCap THEN MinCap ELSE cap * 2

(* Variant with a plausible bug: the doubled capacity is taken without   *)
(* the `if(tmp > newlen)' comparison against the bytes needed.            *)
PutsNewLenUnchecked(n) == IF cap < SmallCap THEN MinCap ELSE cap * 2

(* The capacity stream_puts grows to for n more bytes. *)
PutsNewLen(n) ==
  LET need == len + n + 1
      tmp  == IF cap < SmallCap THEN MinCap ELSE cap * 2
  IN  IF tmp > need THEN tmp ELSE need

(* make_string(newlen + 1), then memcpy(VSTR(new), VSTR(args), len). *)
GrowCopy(newlen) ==
  [j \in 0 .. newlen |-> IF j < len THEN mem[j] ELSE Garbage]

(* Variant with a plausible bug: the trailing zero byte is not stored.   *)
StoreRunUnterminated(m, sz, bs) ==
  /\ mem' = [j \in 0 .. sz - 1 |->
               IF len <= j /\ j < len + Len(bs) THEN bs[j - len + 1] ELSE m[j]]
  /\ size' = sz
  /\ len' = len + Len(bs)
  /\ oob' = (oob \/ len + Len(bs) > sz)

(* memcpy(VSTR(args) + len, buf, bufLen), VSTR(args)[len + bufLen] = 0   *)
(* and set_string_len(args, len + bufLen) on the bytes m of size sz; a    *)
(* byte past the allocation is not stored but sets the ghost flag.        *)
StoreRun(m, sz, bs) ==
  /\ mem' = [j \in 0 .. sz - 1 |->
               IF len <= j /\ j < len + Len(bs) THEN bs[j - len + 1]
               ELSE IF j = len + Len(bs) THEN Nul
               ELSE m[j]]
  /\ size' = sz
  /\ len' = len + Len(bs)
  /\ oob' = (oob \/ len + Len(bs) >= sz)

(* Variant with a plausible bug: a failed allocation reports EOF (-1), as *)
(* pos_puts does, instead of 0.                                           *)
PutCharEOF(c) ==
  /\ len + 1 <= MaxLen
  /\ IF len + 1 >= cap
       THEN \/ /\ StoreRun(GrowCopy(PutcNewLen), PutcNewLen + 1, <<c>>)
               /\ cap' = PutcNewLen
               /\ rc' = 1
            \/ /\ rc' = -1
               /\ UNCHANGED <<mem, size, len, cap, oob>>
       ELSE /\ StoreRun(mem, size, <<c>>)
            /\ rc' = 1
            /\ UNCHANGED cap
  /\ UNCHANGED result

(* stream_putc on a (STRING . INT) stream (streams.c 313-335): grow when   *)
(* len + 1 >= actuallen; a failed make_string leaves the stream alone and  *)
(* returns 0.                                                              *)
PutChar(c) ==
  /\ len + 1 <= MaxLen
  /\ IF len + 1 >= cap
       THEN \/ /\ StoreRun(GrowCopy(PutcNewLen), PutcNewLen + 1, <<c>>)
               /\ cap' = PutcNewLen
               /\ rc' = 1
            \/ /\ rc' = 0
               /\ UNCHANGED <<mem, size, len, cap, oob>>
       ELSE /\ StoreRun(mem, size, <<c>>)
            /\ rc' = 1
            /\ UNCHANGED cap
  /\ UNCHANGED result

(* stream_puts on a (STRING . INT) stream (streams.c 442-471): grow when   *)
(* actuallen <= len + bufLen + 1.                                          *)
PutBytes(bs) ==
  /\ len + Len(bs) <= MaxLen
  /\ IF cap <= len + Len(bs) + 1
       THEN \/ /\ StoreRun(GrowCopy(PutsNewLen(Len(bs))),
                         PutsNewLen(Len(bs)) + 1, bs)
               /\ cap' = PutsNewLen(Len(bs))
               /\ rc' = Len(bs)
            \/ /\ rc' = 0
               /\ UNCHANGED <<mem, size, len, cap, oob>>
       ELSE /\ StoreRun(mem, size, bs)
            /\ rc' = Len(bs)
            /\ UNCHANGED cap
  /\ UNCHANGED result

(* Variant with a plausible bug: the truncating copy drops the last byte. *)
GetOutputStreamStringShort ==
  /\ result' = SubSeq(Content, 1, len - 1)
  /\ mem' = EmptyString
  /\ size' = 1
  /\ len' = 0
  /\ cap' = 0
  /\ UNCHANGED <<rc, oob>>

(* get-output-stream-string: return the first len bytes (a copy when the  *)
(* capacity differs from the length) and reset the stream to ("" . 0).    *)
GetOutputStreamString ==
  /\ result' = Content
  /\ mem' = EmptyString
  /\ size' = 1
  /\ len' = 0
  /\ cap' = 0
  /\ UNCHANGED <<rc, oob>>

Next ==
  \/ \E c \in Bytes : PutChar(c)
  \/ \E bs \in Payloads : PutBytes(bs)
  \/ GetOutputStreamString

Spec == Init /\ [][Next]_vars

-----------------------------------------------------------------------------
(* A (STRING . INT) cons built by user code, e.g. (cons (make-string n) k)   *)
(* or an accumulator whose cdr was changed with rplacd: streamp accepts it  *)
(* and stream_putc/stream_puts take its cdr as the allocated capacity.      *)
UserInit(n, k) ==
  /\ mem = [j \in 0 .. n |-> IF j < n THEN CHOOSE b \in Bytes : TRUE ELSE Nul]
  /\ size = n + 1
  /\ len = n
  /\ cap = k
  /\ rc = 0
  /\ result = <<>>
  /\ oob = FALSE

-----------------------------------------------------------------------------
TypeOK ==
  /\ size \in Nat \ {0}
  /\ mem \in [0 .. size - 1 -> Bytes \cup {Nul, Garbage}]
  /\ len \in 0 .. MaxLen
  /\ cap \in Nat
  /\ rc \in Nat
  /\ result \in Seq(Bytes)
  /\ oob \in BOOLEAN

(* No write of stream_putc or stream_puts, the trailing zero byte included,*)
(* ever lands outside the bytes make_string allocated for the car string.  *)
NoOverrun == ~oob

(* The car string stays a C string: its logical content is followed, inside*)
(* the allocation, by a zero byte, and every byte of the content is one   *)
(* that was written (no garbage left by a growth's copy or a terminator   *)
(* of an earlier write), however growths and writes interleaved.          *)
Terminated ==
  /\ len < size
  /\ mem[len] = Nul
  /\ \A j \in 0 .. len - 1 : mem[j] \in Bytes

(* The stream implements a plain byte queue: the content is the           *)
(* concatenation of the runs written since the last reset, and            *)
(* get-output-stream-string returns exactly that (AccumulatorAbs).        *)
Abs == INSTANCE AccumulatorAbs WITH out <- Content, result <- result, rc <- rc

AbsSpec == Abs!Spec
=============================================================================
