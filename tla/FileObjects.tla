---------------------------- MODULE FileObjects ----------------------------
(***************************************************************************)
(* The life of Lisp file objects (streams.c 1036-1368): open allocates a   *)
(* Lisp_File on the private chain lfile_chain or reuses the one it is      *)
(* given, close unbinds it, file_sweep frees the ones the collector did    *)
(* not mark, stdin-file/stdout-file/stderr-file wrap the C standard        *)
(* streams once into objects marked LFF_DONT_CLOSE and pinned with         *)
(* mark_static, and streams_kill frees the whole chain at shutdown.  A     *)
(* FILE * is a handle number: the standard streams are their descriptors  *)
(* (StdStreams), every fopen gives a fresh number from FirstFopen on.     *)
(***************************************************************************)
EXTENDS Integers, FiniteSets

CONSTANTS
  Objs,        \* the memory cells a Lisp_File can be allocated in
  NoObj,       \* a null VALUE (the static variables before their first call)
  StdStreams,  \* handles of the standard streams wrapped by the std-file functions
  MaxFopen     \* bound on the number of successful fopen calls

NULL == -1
FirstFopen == 3

ASSUME FileAssumption ==
  /\ NoObj \notin Objs
  /\ StdStreams \subseteq 0 .. FirstFopen - 1
  /\ MaxFopen \in Nat

VARIABLES
  chain,      \* the objects linked on lfile_chain
  name,       \* name[o]: lf->name is set (the object is bound)
  file,       \* file[o]: lf->file
  dontClose,  \* dontClose[o]: LFF_DONT_CLOSE is set in lf->car
  refs,       \* the objects the Lisp program can still reach
  static,     \* static[s]: the static VALUE of the std-file function for s
  osOpen,     \* the handles the C library holds open
  nextH,      \* the handle the next successful fopen returns
  badClose,   \* ghost: fclose of a handle not open, or of a standard stream
  crashed,    \* ghost: a null Lisp_File pointer was dereferenced
  killed      \* streams_kill has run

vars == <<chain, name, file, dontClose, refs, static, osOpen, nextH,
          badClose, crashed, killed>>

Init ==
  /\ chain = {}
  /\ name = [o \in Objs |-> FALSE]
  /\ file = [o \in Objs |-> NULL]
  /\ dontClose = [o \in Objs |-> FALSE]
  /\ refs = {}
  /\ static = [s \in StdStreams |-> NoObj]
  /\ osOpen = StdStreams
  /\ nextH = FirstFopen
  /\ badClose = FALSE
  /\ crashed = FALSE
  /\ killed = FALSE

Live == ~killed /\ ~crashed

(* `if(lf->name && !(lf->car & LFF_DONT_CLOSE)) fclose(lf->file);' *)
Closes(o) == name[o] /\ ~dontClose[o]

(* The handles after fclose on the files of the objects C, and whether    *)
(* one of those calls closes a handle that is not open (a second close)   *)
(* or a standard stream.                                                  *)
CloseHandles(C) == osOpen \ {file[c] : c \in C}

BadClose(C) ==
  \/ ~({file[c] : c \in C} \subseteq osOpen \ StdStreams)
  \/ \E c1, c2 \in C : c1 # c2 /\ file[c1] = file[c2]

(* Variant with a plausible bug: flags are cleared before the close test. *)
OpenClearFirst(f, strs) ==
  /\ Live
  /\ f \in refs
  /\ \E ok \in BOOLEAN :
       /\ ok => strs /\ nextH < FirstFopen + MaxFopen
       /\ LET closed == IF name[f] THEN {f} ELSE {} IN
          /\ osOpen' = CloseHandles(closed) \cup (IF ok THEN {nextH} ELSE {})
          /\ badClose' = (badClose \/ BadClose(closed))
       /\ nextH' = IF ok THEN nextH + 1 ELSE nextH
       /\ name' = [name EXCEPT ![f] = ok]
       /\ file' = [file EXCEPT ![f] = IF ok THEN nextH ELSE NULL]
       /\ dontClose' = [dontClose EXCEPT ![f] = FALSE]
  /\ UNCHANGED <<chain, refs, static, crashed, killed>>

(* cmd_open (1087-1138).  f is the FILE argument (NoObj: not a file, so   *)
(* a fresh object is allocated and linked, 1097-1106; else the object is *)
(* closed if bound, 1108-1112).  Then the object is unbound and its flags *)
(* cleared (1115-1117); when NAME and MODES are strings it is fopen'ed:  *)
(* on success bound to the new handle, on failure left unbound and a     *)
(* file-error signalled, the fresh object returned to nobody.  A failed  *)
(* ALLOC_OBJECT returns LISP_NULL and changes nothing.                    *)
Open(f, strs) ==
  /\ Live
  /\ f \in refs \cup {NoObj}
  /\ \E o \in IF f = NoObj THEN Objs \ chain ELSE {f}, ok \in BOOLEAN :
       /\ ok => strs /\ nextH < FirstFopen + MaxFopen
       /\ LET closed == IF f # NoObj /\ Closes(f) THEN {f} ELSE {} IN
          /\ osOpen' = CloseHandles(closed) \cup (IF ok THEN {nextH} ELSE {})
          /\ badClose' = (badClose \/ BadClose(closed))
       /\ nextH' = IF ok THEN nextH + 1 ELSE nextH
       /\ name' = [name EXCEPT ![o] = ok]
       /\ file' = [file EXCEPT ![o] = IF ok THEN nextH ELSE NULL]
       /\ dontClose' = [dontClose EXCEPT ![o] = FALSE]
       /\ chain' = chain \cup {o}
       /\ refs' = IF ok \/ ~strs THEN refs \cup {o} ELSE refs
  /\ UNCHANGED <<static, crashed, killed>>

(* Variant with a plausible bug: close forgets to clear lf->name. *)
CloseKeepName(o) ==
  /\ Live
  /\ o \in refs
  /\ LET closed == IF Closes(o) THEN {o} ELSE {} IN
     /\ osOpen' = CloseHandles(closed)
     /\ badClose' = (badClose \/ BadClose(closed))
  /\ file' = [file EXCEPT ![o] = NULL]
  /\ UNCHANGED <<chain, name, dontClose, refs, static, nextH, crashed, killed>>

(* cmd_close (1140-1155): fclose unless unbound or LFF_DONT_CLOSE, then   *)
(* the object is unbound.                                                 *)
Close(o) ==
  /\ Live
  /\ o \in refs
  /\ LET closed == IF Closes(o) THEN {o} ELSE {} IN
     /\ osOpen' = CloseHandles(closed)
     /\ badClose' = (badClose \/ BadClose(closed))
  /\ name' = [name EXCEPT ![o] = FALSE]
  /\ file' = [file EXCEPT ![o] = NULL]
  /\ UNCHANGED <<chain, dontClose, refs, static, nextH, crashed, killed>>

(* stdin-file, stdout-file, stderr-file (1267-1325) on their first call:  *)
(* cmd_open(nil, nil, nil) gives a fresh unbound object, which is bound   *)
(* to the C stream, marked LFF_DONT_CLOSE and pinned.  When the           *)
(* allocation fails cmd_open returns LISP_NULL and VFILE(stdin_file)->name *)
(* dereferences it.  Later calls return the static value unchanged.       *)
StdFile(s) ==
  /\ Live
  /\ static[s] = NoObj
  /\ \/ /\ Objs \ chain = {}
        /\ crashed' = TRUE
        /\ UNCHANGED <<chain, name, file, dontClose, refs, static>>
     \/ \E o \in Objs \ chain :
          /\ chain' = chain \cup {o}
          /\ name' = [name EXCEPT ![o] = TRUE]
          /\ file' = [file EXCEPT ![o] = s]
          /\ dontClose' = [dontClose EXCEPT ![o] = TRUE]
          /\ static' = [static EXCEPT ![s] = o]
          /\ refs' = refs \cup {o}
          /\ UNCHANGED crashed
  /\ UNCHANGED <<osOpen, nextH, badClose, killed>>

(* The Lisp program drops its last reference to a file object. *)
Drop(o) ==
  /\ Live
  /\ o \in refs
  /\ refs' = refs \ {o}
  /\ UNCHANGED <<chain, name, file, dontClose, static, osOpen, nextH,
                 badClose, crashed, killed>>

Pinned == {static[s] : s \in StdStreams} \ {NoObj}

(* Variant with a plausible bug: unmarked objects are freed unclosed. *)
SweepNoClose ==
  /\ Live
  /\ chain' = chain \cap (refs \cup Pinned)
  /\ UNCHANGED <<name, file, dontClose, refs, static, osOpen, nextH,
                 badClose, crashed, killed>>

(* A collection ends with file_sweep (1038-1060): the collector marked    *)
(* what the program reaches and the static VALUEs; every unmarked object  *)
(* is closed (when bound and not LFF_DONT_CLOSE) and freed, the marked    *)
(* ones are relinked.                                                     *)
Sweep ==
  /\ Live
  /\ LET dead == chain \ (refs \cup Pinned)
         closed == {o \in dead : Closes(o)}
     IN /\ osOpen' = CloseHandles(closed)
        /\ badClose' = (badClose \/ BadClose(closed))
        /\ chain' = chain \ dead
  /\ UNCHANGED <<name, file, dontClose, refs, static, nextH, crashed, killed>>

(* streams_kill (1356-1368) at shutdown: every object on the chain is     *)
(* closed (when bound and not LFF_DONT_CLOSE) and freed.                  *)
Kill ==
  /\ Live
  /\ LET closed == {o \in chain : Closes(o)} IN
     /\ osOpen' = CloseHandles(closed)
     /\ badClose' = (badClose \/ BadClose(closed))
  /\ chain' = {}
  /\ killed' = TRUE
  /\ UNCHANGED <<name, file, dontClose, refs, static, nextH, crashed>>

Next ==
  \/ \E f \in Objs \cup {NoObj}, strs \in BOOLEAN : Open(f, strs)
  \/ \E o \in Objs : Close(o) \/ Drop(o)
  \/ \E s \in StdStreams : StdFile(s)
  \/ Sweep
  \/ Kill

Spec == Init /\ [][Next]_vars
-----------------------------------------------------------------------------
TypeOK ==
  /\ chain \subseteq Objs
  /\ name \in [Objs -> BOOLEAN]
  /\ file \in [Objs -> Int]
  /\ dontClose \in [Objs -> BOOLEAN]
  /\ refs \subseteq Objs
  /\ static \in [StdStreams -> Objs \cup {NoObj}]
  /\ osOpen \subseteq Int
  /\ nextH \in Nat
  /\ badClose \in BOOLEAN /\ crashed \in BOOLEAN /\ killed \in BOOLEAN

(* open, close, file_sweep and streams_kill call fclose only on a handle  *)
(* that is open, never twice on one handle and never on a standard        *)
(* stream, whatever the program opens, reuses, closes and drops and       *)
(* whenever the collector runs.                                           *)
NoBadClose == ~badClose

(* Every bound object on the chain holds an open handle: getc, putc,      *)
(* fflush, feof and fgets, which test lf->name first (143, 294, 423,      *)
(* 1166, 1221, 1239), never use a closed FILE *.                          *)
BoundHandleOpen == \A o \in chain : name[o] => file[o] \in osOpen

(* No handle leaks: every handle fopen'ed and still open belongs to a     *)
(* bound object on the chain, so a later close, sweep or streams_kill     *)
(* closes it.                                                             *)
HandlesOwned ==
  \A h \in osOpen \ StdStreams : \E o \in chain : name[o] /\ file[o] = h
=============================================================================
