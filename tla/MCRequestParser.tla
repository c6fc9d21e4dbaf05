--------------------------- MODULE MCRequestParser --------------------------
(* Small instances of RequestParser for TLC. *)
EXTENDS RequestGrammar

\* A token, a tspecial, a control character and a byte above 127 are among them.
LineBytes == Bytes \ {"letter", "tspecial"}

\* The bytes that header lines tell apart, and those of the version.
HeaderBytes == {"H", "T", "P", "digit", ".", "/", ":", "SP", "TAB", "CR", "LF"}

=============================================================================
