---------------------------- MODULE MCJsonMessage ----------------------------
(* Model values and small bounds for checking JsonMessage with TLC. *)
EXTENDS JsonMessage

\* a plain letter, the three characters the escapes treat, and ESC
MCChars == {"a", Quote, Backslash, LF, Esc}
=============================================================================
