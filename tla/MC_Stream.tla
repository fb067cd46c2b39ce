------------------------------ MODULE MC_Stream ------------------------------
(* TLC instance of Stream: a read and a write of two registers.              *)
EXTENDS Stream

\* Data that looks like the end of a frame.
BmsData == [r \in {3} |-> <<END>>]

Asked == {[action |-> READ, reg |-> 3, data |-> <<>>],
          [action |-> WRITE, reg |-> 225, data |-> <<0, 1>>]}

\* As usual (the defaults), and another speed.
Opts == {[speed |-> 0, data |-> 0, parity |-> "", stop |-> 0],
         [speed |-> 19200, data |-> 8, parity |-> "E", stop |-> 3]}

Damaged == {225}
=============================================================================
