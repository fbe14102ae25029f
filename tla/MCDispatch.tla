----------------------------- MODULE MCDispatch -----------------------------
(* Model-checking instance of the stream dispatcher. *)
EXTENDS Dispatch

(* A printable character and the NUL byte; an input string with an     *)
(* embedded NUL shows the zero-byte end of the string input stream.       *)
MCChars == {0, 65}
MCInputStrings == {<<65>>, <<65, 0, 65>>}
MCPutLens == {0, 2}
MCMaxOut == 2

(* The offsets make-string-input-stream accepts without a check. *)
MCStartsValid == {0, 1}
MCStartsAny == {-1, 0, 1, 4}

(* A callable that behaves: characters and nil. *)
MCFnChars == {65, LispNil}
(* A callable returning integers that are not characters. *)
MCFnInts == {65, -1, 300, LispNil}

MCStdBound == {"strin", "acc", "fn"}
MCStdAll == {"fn", "nil", "void"}
=============================================================================
