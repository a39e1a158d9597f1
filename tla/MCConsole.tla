----------------------------- MODULE MCConsole ------------------------------
(***************************************************************************)
(* One user at the keyboard; either as a remote or in the chat.            *)
(***************************************************************************)
EXTENDS Console

AllKeys == {"x", "i", "[", Wide, "left", "right", "up", "down", "backspace", "enter", "esc"}
=============================================================================
