--------------------------- MODULE MCHttpRequest ---------------------------
(***************************************************************************)
(* Instance of HttpRequest.                                                *)
(***************************************************************************)
EXTENDS HttpRequest

MCBuffers == { << "CR" >>, << "text", "text", "text", "text" >> }

\* Two lines, more than recv takes at once; a line that ends only together with a
\* CR that is in the array already; and bytes without a line end.
MCStreams == { << "text", "CR", "LF", "CR", "LF" >>,
               << "LF", "text" >>,
               << "text", "LF", "CR" >> }
=============================================================================
