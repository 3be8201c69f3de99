------------------------------ MODULE Turning -------------------------------
(***************************************************************************)
(* Where update_screen puts a pixel of the device: what a viewer sees, and *)
(* what a viewer points at.                                                *)
(***************************************************************************)
EXTENDS Integers

\* The place of the device pixel <<i, j>> in a vncscr of width w and height h
\* at rotation r.
Turned(w, h, r, p) ==
    CASE r = 0   -> p
      [] r = 90  -> <<w - 1 - p[2], p[1]>>
      [] r = 180 -> <<w - 1 - p[1], h - 1 - p[2]>>
      [] r = 270 -> <<p[2], h - 1 - p[1]>>
=============================================================================
