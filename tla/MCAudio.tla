------------------------------ MODULE MCAudio ------------------------------
(* Three bytes, frames and reads of up to two of them, buffers of two: a    *)
(* write fits, fits in part, or waits.                                      *)
EXTENDS Audio
=============================================================================
