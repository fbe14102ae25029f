------------------------ MODULE CallableStreamsProofs ------------------------
(***************************************************************************)
(* Proof that the save/restore of gc_inhibit around callable-stream calls  *)
(* keeps the collector out of every active call and restores the outer     *)
(* value, for every nesting depth.                                         *)
(***************************************************************************)
EXTENDS CallableStreams, SequenceTheorems, TLAPS

(* A frame of the C stack: the primitive and its saved oldgci. *)
Frame == [op : Ops, oldgci : BOOLEAN]

(* What each saved oldgci holds: the outermost call saved the value set   *)
(* outside (base), every inner call saved TRUE (set by the call around    *)
(* it).  This is why a return can restore the flag from its own frame.    *)
SavedValues ==
  \A i \in 1 .. Len(frames) :
    frames[i].oldgci = IF i = Len(frames) THEN base ELSE TRUE

CInv ==
  /\ TypeOK
  /\ unsafeGC = FALSE
  /\ frames # <<>> => gci = TRUE
  /\ frames = <<>> => gci = base
  /\ SavedValues

LEMMA CInit == Init => CInv
<1> SUFFICES ASSUME Init PROVE CInv
  OBVIOUS
<1>1. frames = <<>> /\ gci \in BOOLEAN /\ base = gci /\ unsafeGC = FALSE
  BY DEF Init
<1>2. frames \in Seq(Frame)
  BY <1>1, EmptySeq
<1>3. SavedValues
  BY <1>1 DEF SavedValues
<1>4. QED
  BY <1>1, <1>2, <1>3 DEF CInv, TypeOK, Frame

LEMMA CCall ==
  ASSUME CInv, NEW op \in Ops, CallFunction(op)
  PROVE  CInv'
<1> DEFINE f == [op |-> op, oldgci |-> gci]
<1>1. /\ frames' = <<f>> \o frames
      /\ gci' = TRUE
      /\ UNCHANGED <<base, unsafeGC>>
  BY DEF CallFunction
<1>2. /\ frames \in Seq(Frame)
      /\ <<f>> \in Seq(Frame)
  BY DEF CInv, TypeOK, Frame
<1>3. /\ frames' \in Seq(Frame)
      /\ Len(frames') = Len(frames) + 1
      /\ frames'[1] = f
      /\ \A i \in 2 .. Len(frames') : frames'[i] = frames[i - 1]
  BY <1>1, <1>2, ConcatProperties
<1>4. TypeOK'
  BY <1>1, <1>3 DEF CInv, TypeOK, Frame
<1>5. /\ Len(frames) \in Nat
      /\ frames = <<>> <=> Len(frames) = 0
  BY <1>2, LenProperties, EmptySeq
<1>6. SavedValues'
  <2> SUFFICES ASSUME NEW i \in 1 .. Len(frames')
               PROVE  frames'[i].oldgci =
                        IF i = Len(frames') THEN base' ELSE TRUE
    BY DEF SavedValues
  <2>1. CASE i = 1 /\ frames = <<>>
    <3>1. frames'[i].oldgci = gci /\ i = Len(frames')
      BY <1>3, <1>5, <2>1
    <3>2. gci = base
      BY <2>1 DEF CInv
    <3>3. QED
      BY <1>1, <3>1, <3>2
  <2>2. CASE i = 1 /\ frames # <<>>
    <3>1. frames'[i].oldgci = gci /\ i # Len(frames')
      BY <1>3, <1>5, <2>2
    <3>2. gci = TRUE
      BY <2>2 DEF CInv
    <3>3. QED
      BY <3>1, <3>2
  <2>3. CASE i # 1
    <3>1. /\ i - 1 \in 1 .. Len(frames)
          /\ frames'[i] = frames[i - 1]
          /\ (i = Len(frames') <=> i - 1 = Len(frames))
      BY <1>3, <1>5, <2>3
    <3>2. frames[i - 1].oldgci = IF i - 1 = Len(frames) THEN base ELSE TRUE
      BY <3>1 DEF CInv, SavedValues
    <3>3. QED
      BY <1>1, <3>1, <3>2
  <2>4. QED
    BY <2>1, <2>2, <2>3
<1>7. QED
  BY <1>1, <1>3, <1>4, <1>6 DEF CInv

LEMMA CReturn ==
  ASSUME CInv, Return
  PROVE  CInv'
<1>1. /\ frames # <<>>
      /\ gci' = Head(frames).oldgci
      /\ frames' = Tail(frames)
      /\ UNCHANGED <<base, unsafeGC>>
  BY DEF Return
<1>2. frames \in Seq(Frame)
  BY DEF CInv, TypeOK, Frame
<1>3. /\ Head(frames) \in Frame
      /\ frames' \in Seq(Frame)
      /\ Len(frames') = Len(frames) - 1
      /\ \A i \in 1 .. Len(frames') : frames'[i] = frames[i + 1]
      /\ Head(frames) = frames[1]
      /\ Len(frames) \in Nat \ {0}
  BY <1>1, <1>2, HeadTailProperties, LenProperties, EmptySeq
<1>4. TypeOK'
  BY <1>1, <1>3 DEF CInv, TypeOK, Frame
<1>5. SavedValues'
  <2> SUFFICES ASSUME NEW i \in 1 .. Len(frames')
               PROVE  frames'[i].oldgci =
                        IF i = Len(frames') THEN base' ELSE TRUE
    BY DEF SavedValues
  <2>1. /\ i + 1 \in 1 .. Len(frames)
        /\ frames'[i] = frames[i + 1]
        /\ (i = Len(frames') <=> i + 1 = Len(frames))
    BY <1>3
  <2>2. frames[i + 1].oldgci = IF i + 1 = Len(frames) THEN base ELSE TRUE
    BY <2>1 DEF CInv, SavedValues
  <2>3. QED
    BY <1>1, <2>1, <2>2
<1>6. frames' = <<>> => gci' = base'
  <2> SUFFICES ASSUME frames' = <<>> PROVE gci' = base'
    OBVIOUS
  <2>1. Len(frames) = 1
    BY <1>3
  <2>2. QED
    BY <1>1, <1>3, <2>1 DEF CInv, SavedValues
<1>7. frames' # <<>> => gci' = TRUE
  <2> SUFFICES ASSUME frames' # <<>> PROVE gci' = TRUE
    OBVIOUS
  <2>1. Len(frames) > 1 /\ 1 \in 1 .. Len(frames)
    BY <1>3, <1>2, EmptySeq
  <2>2. frames[1].oldgci = TRUE
    <3>1. frames[1].oldgci = IF 1 = Len(frames) THEN base ELSE TRUE
      BY <2>1 DEF CInv, SavedValues
    <3>2. QED
      BY <2>1, <3>1
  <2>3. QED
    BY <1>1, <1>3, <2>2
<1>8. QED
  BY <1>1, <1>4, <1>5, <1>6, <1>7 DEF CInv

LEMMA CNext == CInv /\ [Next]_vars => CInv'
<1> SUFFICES ASSUME CInv, [Next]_vars PROVE CInv'
  OBVIOUS
<1>1. CASE \E op \in Ops : CallFunction(op)
  BY <1>1, CCall
<1>2. CASE Return
  BY <1>2, CReturn
<1>3. CASE \E b \in BOOLEAN : SetInhibit(b)
  BY <1>3 DEF SetInhibit, CInv, TypeOK, SavedValues
<1>4. CASE Collect
  BY <1>4 DEF Collect, CInv, TypeOK, SavedValues
<1>5. CASE UNCHANGED vars
  BY <1>5 DEF vars, CInv, TypeOK, SavedValues
<1>6. QED
  BY <1>1, <1>2, <1>3, <1>4, <1>5 DEF Next

(* For every nesting bound, no collection runs while a callable stream's  *)
(* function is active under a stream primitive, and once all calls have   *)
(* returned gc_inhibit is what the surrounding code had set.              *)
THEOREM GcInhibitSafe ==
  Spec => [](TypeOK /\ NoCollectDuringCall /\ InhibitRestored)
<1>1. CInv => TypeOK /\ NoCollectDuringCall /\ InhibitRestored
  BY Zenon DEF CInv, TypeOK, NoCollectDuringCall, InhibitRestored
<1>2. QED
  BY <1>1, CInit, CNext, PTL DEF Spec
=============================================================================
