------------------------------ MODULE Terminal ------------------------------
(* What the console promises: the text of each call appears whole.         *)
EXTENDS Sequences

CONSTANTS BootText, Texts

VARIABLE log

Show == \E s \in Texts : log' = log \o s

Spec == log = BootText /\ [][Show]_log
=============================================================================
