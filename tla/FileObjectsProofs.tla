------------------------- MODULE FileObjectsProofs -------------------------
(***************************************************************************)
(* Proof that open, close, the sweep of the collector and streams_kill     *)
(* never fclose a handle twice or a standard stream, that bound objects    *)
(* hold open handles and that no fopen'ed handle is leaked, for every set  *)
(* of object cells and every number of fopen calls.                        *)
(***************************************************************************)
EXTENDS FileObjects, TLAPS

(* The handles open are the standard streams and handles fopen'ed so far. *)
OpenRange ==
  /\ nextH >= FirstFopen
  /\ StdStreams \subseteq osOpen
  /\ osOpen \subseteq StdStreams \cup (FirstFopen .. nextH - 1)

(* A bound object holds a standard stream exactly when it is marked       *)
(* don't-close, and then it is the static object of that stream.          *)
StdBound ==
  \A o \in chain :
    name[o] =>
      /\ (file[o] \in StdStreams <=> dontClose[o] = TRUE)
      /\ (file[o] \in StdStreams => static[file[o]] = o)

(* No two bound objects share a handle. *)
Injective ==
  \A o1, o2 \in chain :
    o1 # o2 /\ name[o1] /\ name[o2] => file[o1] # file[o2]

(* While the interpreter runs, what the program reaches and the pinned    *)
(* objects are allocated.                                                 *)
Reachable == Live => refs \subseteq chain /\ Pinned \subseteq chain

FInv ==
  /\ TypeOK
  /\ badClose = FALSE
  /\ BoundHandleOpen
  /\ HandlesOwned
  /\ OpenRange
  /\ StdBound
  /\ Injective
  /\ Reachable

LEMMA FInit == Init => FInv
<1> SUFFICES ASSUME Init PROVE FInv
  OBVIOUS
<1>1. TypeOK
  <2>1. file \in [Objs -> Int]
    BY DEF Init, NULL
  <2>2. osOpen \subseteq Int /\ nextH \in Nat
    BY FileAssumption DEF Init, FirstFopen
  <2>3. static \in [StdStreams -> Objs \cup {NoObj}]
    BY DEF Init
  <2>4. QED
    BY <2>1, <2>2, <2>3 DEF Init, TypeOK
<1>2. OpenRange
  BY FileAssumption DEF Init, OpenRange, FirstFopen
<1>3. Reachable
  BY DEF Init, Reachable, Pinned
<1>4. QED
  BY <1>1, <1>2, <1>3 DEF Init, FInv, BoundHandleOpen, HandlesOwned, StdBound,
                          Injective

(* Closing bound objects that are not don't-close is a good close: their  *)
(* handles are open, not standard streams, and pairwise distinct.         *)
LEMMA CloseOK ==
  ASSUME FInv, NEW C \in SUBSET chain, \A c \in C : Closes(c)
  PROVE  ~BadClose(C)
<1>1. \A c \in C : file[c] \in osOpen \ StdStreams
  BY DEF FInv, BoundHandleOpen, StdBound, Closes, TypeOK
<1>2. \A c1, c2 \in C : c1 # c2 => file[c1] # file[c2]
  BY DEF FInv, Injective, Closes
<1>3. QED
  BY <1>1, <1>2 DEF BadClose

(* Those closes leave the standard streams open. *)
LEMMA StdKept ==
  ASSUME FInv, NEW C \in SUBSET chain, \A c \in C : Closes(c)
  PROVE  StdStreams \subseteq CloseHandles(C)
BY CloseOK DEF BadClose, CloseHandles, FInv, OpenRange

(* A bound object that the code does not close holds a standard stream. *)
LEMMA KeptIsStd ==
  ASSUME FInv, NEW o \in chain, name[o], ~Closes(o)
  PROVE  file[o] \in StdStreams
BY DEF FInv, StdBound, Closes, TypeOK

LEMMA FClose ==
  ASSUME FInv, NEW o \in Objs, Close(o)
  PROVE  FInv'
<1> DEFINE closed == IF Closes(o) THEN {o} ELSE {}
<1>1. o \in chain
  BY DEF Close, FInv, Reachable, Live
<1>2. /\ osOpen' = osOpen \ {file[c] : c \in closed}
      /\ badClose' = (badClose \/ BadClose(closed))
      /\ name' = [name EXCEPT ![o] = FALSE]
      /\ file' = [file EXCEPT ![o] = NULL]
      /\ UNCHANGED <<chain, dontClose, refs, static, nextH, crashed, killed>>
  BY DEF Close, CloseHandles
<1>3. ~BadClose(closed)
  <2>1. closed \in SUBSET chain /\ \A c \in closed : Closes(c)
    BY <1>1
  <2>2. QED
    BY <2>1, CloseOK
<1>4. TypeOK'
  <2>1. osOpen' \subseteq Int
    BY <1>2 DEF FInv, TypeOK
  <2>2. name' \in [Objs -> BOOLEAN] /\ file' \in [Objs -> Int]
    BY <1>2 DEF FInv, TypeOK, NULL
  <2>3. QED
    BY <1>2, <2>1, <2>2 DEF FInv, TypeOK, BadClose
<1>5. BoundHandleOpen'
  <2> SUFFICES ASSUME NEW p \in chain', name'[p] PROVE file'[p] \in osOpen'
    BY DEF BoundHandleOpen
  <2>1. p # o /\ p \in chain /\ name[p] /\ file'[p] = file[p]
    BY <1>2 DEF FInv, TypeOK
  <2>2. file[p] \in osOpen
    BY <2>1 DEF FInv, BoundHandleOpen
  <2>3. Closes(o) => file[p] # file[o]
    BY <1>1, <2>1 DEF FInv, Injective, Closes
  <2>4. QED
    BY <1>2, <2>1, <2>2, <2>3
<1>6. HandlesOwned'
  <2> SUFFICES ASSUME NEW h \in osOpen' \ StdStreams
               PROVE  \E q \in chain' : name'[q] /\ file'[q] = h
    BY DEF HandlesOwned
  <2>1. h \in osOpen /\ (Closes(o) => h # file[o])
    BY <1>2
  <2>2. PICK q \in chain : name[q] /\ file[q] = h
    BY <2>1 DEF FInv, HandlesOwned
  <2>3. q # o
    <3>1. CASE Closes(o)
      BY <2>1, <2>2, <3>1
    <3>2. CASE ~Closes(o)
      BY <2>2, <3>2, KeptIsStd
    <3>3. QED
      BY <3>1, <3>2
  <2>4. QED
    BY <1>2, <2>2, <2>3 DEF FInv, TypeOK
<1>7. OpenRange'
  <2>1. StdStreams \subseteq osOpen'
    BY <1>1, <1>2, StdKept DEF CloseHandles
  <2>2. QED
    BY <1>2, <2>1 DEF FInv, OpenRange
<1>8. StdBound' /\ Injective'
  BY <1>2 DEF FInv, TypeOK, StdBound, Injective
<1>9. Reachable'
  BY <1>2 DEF FInv, Reachable, Live, Pinned
<1>10. QED
  BY <1>2, <1>3, <1>4, <1>5, <1>6, <1>7, <1>8, <1>9 DEF FInv

LEMMA FDrop ==
  ASSUME FInv, NEW o \in Objs, Drop(o)
  PROVE  FInv'
BY DEF Drop, FInv, TypeOK, BoundHandleOpen, HandlesOwned, OpenRange,
       StdBound, Injective, Reachable, Live, Pinned

(* A fresh handle is neither open nor held by a bound object. *)
LEMMA FreshHandle ==
  ASSUME FInv
  PROVE  /\ nextH \notin osOpen
         /\ nextH \notin StdStreams
         /\ \A p \in chain : name[p] => file[p] # nextH
<1>1. nextH \notin StdStreams
  BY FileAssumption DEF FInv, OpenRange, FirstFopen, TypeOK
<1>2. nextH \notin osOpen
  BY <1>1 DEF FInv, OpenRange, TypeOK
<1>3. QED
  BY <1>1, <1>2 DEF FInv, BoundHandleOpen

LEMMA FOpen ==
  ASSUME FInv, NEW f \in Objs \cup {NoObj}, NEW strs \in BOOLEAN, Open(f, strs)
  PROVE  FInv'
<1>1. PICK o \in IF f = NoObj THEN Objs \ chain ELSE {f}, ok \in BOOLEAN :
        /\ ok => strs /\ nextH < FirstFopen + MaxFopen
        /\ LET closed == IF f # NoObj /\ Closes(f) THEN {f} ELSE {} IN
           /\ osOpen' = CloseHandles(closed) \cup (IF ok THEN {nextH} ELSE {})
           /\ badClose' = (badClose \/ BadClose(closed))
        /\ nextH' = IF ok THEN nextH + 1 ELSE nextH
        /\ name' = [name EXCEPT ![o] = ok]
        /\ file' = [file EXCEPT ![o] = IF ok THEN nextH ELSE NULL]
        /\ dontClose' = [dontClose EXCEPT ![o] = FALSE]
        /\ chain' = chain \cup {o}
        /\ refs' = IF ok \/ ~strs THEN refs \cup {o} ELSE refs
  BY DEF Open
<1> DEFINE closed == IF f # NoObj /\ Closes(f) THEN {f} ELSE {}
<1>2. /\ o \in Objs
      /\ f = NoObj => o \notin chain
      /\ f # NoObj => o = f /\ o \in chain
      /\ UNCHANGED <<static, crashed, killed>>
  BY <1>1 DEF Open, FInv, Reachable, Live
<1>3. /\ osOpen' = (osOpen \ {file[c] : c \in closed})
                   \cup (IF ok THEN {nextH} ELSE {})
      /\ badClose' = (badClose \/ BadClose(closed))
      /\ closed \in SUBSET chain
      /\ \A c \in closed : Closes(c) /\ c = o
  BY <1>1, <1>2 DEF CloseHandles
<1>4. badClose' = FALSE
  BY <1>3, CloseOK DEF FInv
<1>14. /\ ok => osOpen' = (osOpen \ {file[c] : c \in closed}) \cup {nextH}
       /\ ok => nextH' = nextH + 1
       /\ ~ok => osOpen' = osOpen \ {file[c] : c \in closed}
       /\ ~ok => nextH' = nextH
  BY <1>1, <1>3
<1>15. /\ osOpen' \subseteq osOpen \cup {nextH}
       /\ nextH' \in {nextH, nextH + 1}
       /\ ok => nextH' = nextH + 1
       /\ ~ok => osOpen' \subseteq osOpen /\ nextH' = nextH
  BY <1>14
<1>5. TypeOK'
  <2>1. osOpen' \subseteq Int /\ nextH' \in Nat
    BY <1>15 DEF FInv, TypeOK
  <2>2. /\ name' \in [Objs -> BOOLEAN]
        /\ file' \in [Objs -> Int]
        /\ dontClose' \in [Objs -> BOOLEAN]
    BY <1>1, <1>2 DEF FInv, TypeOK, NULL
  <2>3. chain' \subseteq Objs /\ refs' \subseteq Objs
    BY <1>1, <1>2 DEF FInv, TypeOK
  <2>4. QED
    BY <1>2, <1>4, <2>1, <2>2, <2>3 DEF FInv, TypeOK
<1>6. \A p \in chain : p # o /\ name[p] =>
        /\ file[p] \in osOpen'
        /\ file[p] # nextH
        /\ name'[p] /\ file'[p] = file[p] /\ dontClose'[p] = dontClose[p]
  <2> SUFFICES ASSUME NEW p \in chain, p # o, name[p]
               PROVE  /\ file[p] \in osOpen'
                      /\ file[p] # nextH
                      /\ name'[p] /\ file'[p] = file[p]
                      /\ dontClose'[p] = dontClose[p]
    OBVIOUS
  <2>1. file[p] \in osOpen /\ file[p] # nextH
    BY FreshHandle DEF FInv, BoundHandleOpen
  <2>2. \A c \in closed : file[p] # file[c]
    BY <1>2, <1>3 DEF FInv, Injective, Closes
  <2>3. QED
    BY <1>1, <1>3, <2>1, <2>2 DEF FInv, TypeOK
<1>7. BoundHandleOpen'
  <2> SUFFICES ASSUME NEW p \in chain', name'[p] PROVE file'[p] \in osOpen'
    BY DEF BoundHandleOpen
  <2>1. CASE p = o
    BY <1>1, <1>2, <1>3, <2>1 DEF FInv, TypeOK
  <2>2. CASE p # o
    BY <1>1, <1>2, <1>6, <2>2 DEF FInv, TypeOK
  <2>3. QED
    BY <2>1, <2>2
<1>8. HandlesOwned'
  <2> SUFFICES ASSUME NEW h \in osOpen' \ StdStreams
               PROVE  \E q \in chain' : name'[q] /\ file'[q] = h
    BY DEF HandlesOwned
  <2>1. CASE ok /\ h = nextH
    BY <1>1, <1>2, <2>1 DEF FInv, TypeOK
  <2>2. CASE ~(ok /\ h = nextH)
    <3>1. h \in osOpen /\ \A c \in closed : h # file[c]
      BY <1>3, <2>2
    <3>2. PICK q \in chain : name[q] /\ file[q] = h
      BY <3>1 DEF FInv, HandlesOwned
    <3>3. q # o
      <4>1. CASE f # NoObj /\ Closes(f)
        BY <1>2, <3>1, <3>2, <4>1
      <4>2. CASE ~(f # NoObj /\ Closes(f))
        BY <1>2, <3>2, <4>2, KeptIsStd
      <4>3. QED
        BY <4>1, <4>2
    <3>4. QED
      BY <1>1, <1>6, <3>2, <3>3
  <2>3. QED
    BY <2>1, <2>2
<1>9. OpenRange'
  <2>0. StdStreams \subseteq osOpen'
    BY <1>3, <1>14, StdKept DEF CloseHandles
  <2>1. CASE ok
    BY <2>0, <1>15, <2>1 DEF FInv, OpenRange, TypeOK, FirstFopen
  <2>2. CASE ~ok
    BY <2>0, <1>15, <2>2 DEF FInv, OpenRange, TypeOK
  <2>3. QED
    BY <2>1, <2>2
<1>10. StdBound'
  <2> SUFFICES ASSUME NEW p \in chain', name'[p]
               PROVE  /\ (file'[p] \in StdStreams <=> dontClose'[p] = TRUE)
                      /\ (file'[p] \in StdStreams => static'[file'[p]] = p)
    BY DEF StdBound
  <2>1. CASE p = o
    BY <1>1, <1>2, <2>1, FreshHandle DEF FInv, TypeOK
  <2>2. CASE p # o
    BY <1>1, <1>2, <1>6, <2>2 DEF FInv, StdBound
  <2>3. QED
    BY <2>1, <2>2
<1>11. Injective'
  <2> SUFFICES ASSUME NEW p1 \in chain', NEW p2 \in chain', p1 # p2,
                      name'[p1], name'[p2]
               PROVE  file'[p1] # file'[p2]
    BY DEF Injective
  <2>1. CASE p1 = o
    BY <1>1, <1>2, <1>6, <2>1 DEF FInv, TypeOK
  <2>2. CASE p2 = o
    BY <1>1, <1>2, <1>6, <2>2 DEF FInv, TypeOK
  <2>3. CASE p1 # o /\ p2 # o
    BY <1>1, <1>6, <2>3 DEF FInv, Injective
  <2>4. QED
    BY <2>1, <2>2, <2>3
<1>12. Reachable'
  BY <1>1, <1>2 DEF FInv, Reachable, Live, Pinned
<1>13. QED
  BY <1>4, <1>5, <1>7, <1>8, <1>9, <1>10, <1>11, <1>12 DEF FInv

LEMMA FStdFile ==
  ASSUME FInv, NEW s \in StdStreams, StdFile(s)
  PROVE  FInv'
<1>1. /\ static[s] = NoObj
      /\ UNCHANGED <<osOpen, nextH, badClose, killed>>
  BY DEF StdFile
<1>2. CASE Objs \ chain = {} /\ crashed' = TRUE
           /\ UNCHANGED <<chain, name, file, dontClose, refs, static>>
  <2>1. ~Live'
    BY <1>2 DEF Live
  <2>2. QED
    BY <1>1, <1>2, <2>1 DEF FInv, TypeOK, BoundHandleOpen, HandlesOwned,
                            OpenRange, StdBound, Injective, Reachable
<1>3. CASE \E o \in Objs \ chain :
             /\ chain' = chain \cup {o}
             /\ name' = [name EXCEPT ![o] = TRUE]
             /\ file' = [file EXCEPT ![o] = s]
             /\ dontClose' = [dontClose EXCEPT ![o] = TRUE]
             /\ static' = [static EXCEPT ![s] = o]
             /\ refs' = refs \cup {o}
             /\ UNCHANGED crashed
  <2>1. PICK o \in Objs \ chain :
             /\ chain' = chain \cup {o}
             /\ name' = [name EXCEPT ![o] = TRUE]
             /\ file' = [file EXCEPT ![o] = s]
             /\ dontClose' = [dontClose EXCEPT ![o] = TRUE]
             /\ static' = [static EXCEPT ![s] = o]
             /\ refs' = refs \cup {o}
             /\ UNCHANGED crashed
    BY <1>3
  <2>2. \A p \in chain : /\ p # o
                         /\ name'[p] = name[p] /\ file'[p] = file[p]
                         /\ dontClose'[p] = dontClose[p]
                         /\ (name[p] => file[p] # s)
    <3> SUFFICES ASSUME NEW p \in chain
                 PROVE  /\ p # o
                        /\ name'[p] = name[p] /\ file'[p] = file[p]
                        /\ dontClose'[p] = dontClose[p]
                        /\ (name[p] => file[p] # s)
      OBVIOUS
    <3>1. p # o /\ p \in Objs
      BY <2>1 DEF FInv, TypeOK
    <3>2. name[p] /\ file[p] = s => static[s] = p
      BY DEF FInv, StdBound
    <3>3. static[s] # p
      BY <1>1, <3>1, FileAssumption
    <3>4. QED
      BY <2>1, <3>1, <3>2, <3>3
  <2>3. s \in osOpen /\ s \in Int
    BY FileAssumption DEF FInv, OpenRange, TypeOK
  <2>4. TypeOK'
    BY <1>1, <2>1, <2>3 DEF FInv, TypeOK
  <2>5. BoundHandleOpen'
    BY <1>1, <2>1, <2>2, <2>3 DEF FInv, TypeOK, BoundHandleOpen
  <2>6. HandlesOwned'
    BY <1>1, <2>1, <2>2 DEF FInv, HandlesOwned
  <2>7. StdBound'
    <3> SUFFICES ASSUME NEW p \in chain', name'[p]
                 PROVE  /\ (file'[p] \in StdStreams <=> dontClose'[p] = TRUE)
                        /\ (file'[p] \in StdStreams => static'[file'[p]] = p)
      BY DEF StdBound
    <3>1. CASE p = o
      BY <2>1, <3>1 DEF FInv, TypeOK
    <3>2. CASE p # o
      <4>1. p \in chain /\ name[p]
        BY <2>1, <2>2, <3>2
      <4>2. file[p] \in StdStreams => static[file[p]] = p /\ file[p] # s
        BY <4>1, <2>2 DEF FInv, StdBound
      <4>3. QED
        BY <2>1, <2>2, <4>1, <4>2 DEF FInv, StdBound, TypeOK
    <3>3. QED
      BY <3>1, <3>2
  <2>8. Injective'
    <3> SUFFICES ASSUME NEW p1 \in chain', NEW p2 \in chain', p1 # p2,
                        name'[p1], name'[p2]
                 PROVE  file'[p1] # file'[p2]
      BY DEF Injective
    <3>0. file'[o] = s
      BY <2>1 DEF FInv, TypeOK
    <3>1. CASE p1 = o
      BY <2>1, <2>2, <3>0, <3>1
    <3>2. CASE p2 = o
      BY <2>1, <2>2, <3>0, <3>2
    <3>3. CASE p1 # o /\ p2 # o
      BY <2>1, <2>2, <3>3 DEF FInv, Injective
    <3>4. QED
      BY <3>1, <3>2, <3>3
  <2>9. Reachable'
    BY <1>1, <2>1 DEF FInv, TypeOK, Reachable, Live, Pinned
  <2>10. QED
    BY <1>1, <2>4, <2>5, <2>6, <2>7, <2>8, <2>9 DEF FInv, OpenRange
<1>4. QED
  BY <1>2, <1>3 DEF StdFile

LEMMA FSweep ==
  ASSUME FInv, Sweep
  PROVE  FInv'
<1> DEFINE dead == chain \ (refs \cup Pinned)
           closed == {o \in dead : Closes(o)}
<1>1. /\ osOpen' = osOpen \ {file[c] : c \in closed}
      /\ badClose' = (badClose \/ BadClose(closed))
      /\ chain' = chain \ dead
      /\ UNCHANGED <<name, file, dontClose, refs, static, nextH, crashed, killed>>
      /\ Live
  BY DEF Sweep, CloseHandles
<1>2. closed \in SUBSET chain /\ \A c \in closed : Closes(c)
  OBVIOUS
<1>3. badClose' = FALSE
  BY <1>1, <1>2, CloseOK DEF FInv
<1>4. StdStreams \subseteq osOpen'
  BY <1>1, <1>2, StdKept DEF CloseHandles
<1>5. BoundHandleOpen'
  <2> SUFFICES ASSUME NEW p \in chain', name'[p] PROVE file'[p] \in osOpen'
    BY DEF BoundHandleOpen
  <2>1. p \in chain /\ p \notin closed /\ name[p] /\ file[p] \in osOpen
    BY <1>1 DEF FInv, BoundHandleOpen
  <2>2. \A c \in closed : file[c] # file[p]
    BY <1>2, <2>1 DEF FInv, Injective, Closes
  <2>3. QED
    BY <1>1, <2>1, <2>2
<1>6. HandlesOwned'
  <2> SUFFICES ASSUME NEW h \in osOpen' \ StdStreams
               PROVE  \E q \in chain' : name'[q] /\ file'[q] = h
    BY DEF HandlesOwned
  <2>1. h \in osOpen /\ \A c \in closed : h # file[c]
    BY <1>1
  <2>2. PICK q \in chain : name[q] /\ file[q] = h
    BY <2>1 DEF FInv, HandlesOwned
  <2>3. q \notin closed
    BY <2>1, <2>2
  <2>4. q \notin dead
    <3>1. CASE Closes(q)
      BY <2>3, <3>1
    <3>2. CASE ~Closes(q)
      BY <2>2, <3>2, KeptIsStd
    <3>3. QED
      BY <3>1, <3>2
  <2>5. QED
    BY <1>1, <2>2, <2>4
<1>7. QED
  BY <1>1, <1>3, <1>4, <1>5, <1>6
     DEF FInv, TypeOK, OpenRange, StdBound, Injective, Reachable, Live, Pinned

LEMMA FKill ==
  ASSUME FInv, Kill
  PROVE  FInv'
<1> DEFINE closed == {o \in chain : Closes(o)}
<1>1. /\ osOpen' = osOpen \ {file[c] : c \in closed}
      /\ badClose' = (badClose \/ BadClose(closed))
      /\ chain' = {}
      /\ killed' = TRUE
      /\ UNCHANGED <<name, file, dontClose, refs, static, nextH, crashed>>
  BY DEF Kill, CloseHandles
<1>2. closed \in SUBSET chain /\ \A c \in closed : Closes(c)
  OBVIOUS
<1>3. badClose' = FALSE
  BY <1>1, <1>2, CloseOK DEF FInv
<1>4. StdStreams \subseteq osOpen'
  BY <1>1, <1>2, StdKept DEF CloseHandles
<1>5. HandlesOwned'
  <2> SUFFICES ASSUME NEW h \in osOpen' \ StdStreams PROVE FALSE
    BY <1>1 DEF HandlesOwned
  <2>1. h \in osOpen /\ \A c \in closed : h # file[c]
    BY <1>1
  <2>2. PICK q \in chain : name[q] /\ file[q] = h
    BY <2>1 DEF FInv, HandlesOwned
  <2>3. CASE Closes(q)
    BY <2>1, <2>2, <2>3
  <2>4. CASE ~Closes(q)
    BY <2>2, <2>4, KeptIsStd
  <2>5. QED
    BY <2>3, <2>4
<1>6. QED
  BY <1>1, <1>3, <1>4, <1>5
     DEF FInv, TypeOK, BoundHandleOpen, OpenRange, StdBound, Injective,
         Reachable, Live

LEMMA FNext == FInv /\ [Next]_vars => FInv'
<1> SUFFICES ASSUME FInv, [Next]_vars PROVE FInv'
  OBVIOUS
<1>1. CASE \E f \in Objs \cup {NoObj}, strs \in BOOLEAN : Open(f, strs)
  BY <1>1, FOpen
<1>2. CASE \E o \in Objs : Close(o) \/ Drop(o)
  BY <1>2, FClose, FDrop
<1>3. CASE \E s \in StdStreams : StdFile(s)
  BY <1>3, FStdFile
<1>4. CASE Sweep
  BY <1>4, FSweep
<1>5. CASE Kill
  BY <1>5, FKill
<1>6. CASE UNCHANGED vars
  BY <1>6 DEF vars, FInv, TypeOK, BoundHandleOpen, HandlesOwned, OpenRange,
              StdBound, Injective, Reachable, Live, Pinned
<1>7. QED
  BY <1>1, <1>2, <1>3, <1>4, <1>5, <1>6 DEF Next

(* For every set of object cells, standard streams and number of fopen    *)
(* calls: open, close, file_sweep and streams_kill never fclose a handle  *)
(* twice or a standard stream, every bound file object holds an open      *)
(* handle, and every fopen'ed handle still open is owned by a bound       *)
(* object on lfile_chain.                                                 *)
THEOREM FileObjectsSafe ==
  Spec => [](NoBadClose /\ BoundHandleOpen /\ HandlesOwned)
<1>1. FInv => NoBadClose /\ BoundHandleOpen /\ HandlesOwned
  BY DEF FInv, NoBadClose
<1>2. QED
  BY <1>1, FInit, FNext, PTL DEF Spec
=============================================================================
