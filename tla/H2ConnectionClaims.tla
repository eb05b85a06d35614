------------------------- MODULE H2ConnectionClaims -------------------------
(***************************************************************************)
(* What a comment of the source says of H2Connection and the code does not *)
(* keep.                                                                   *)
(***************************************************************************)
EXTENDS H2SendWindow

\* Config::gracefull_shutdown_timeout: connections close "by first finishing
\* their current request/response cicle".  main_loop returns from the arm that
\* handles the last StreamClosing and nothing flushes the BufWriter after it,
\* which drops what it holds.
ShutdownDelivers == exit = "shutdown" => ~unflushed
=============================================================================
