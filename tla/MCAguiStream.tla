----------------------------- MODULE MCAguiStream -----------------------------
(* AguiStream for TLC. *)
EXTENDS AguiStream, TLC

CONSTANTS a, b
===============================================================================
