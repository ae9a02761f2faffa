------------------------------ MODULE MCBoard ------------------------------
(* Constants of the board: the registers' 2^32 and 2^16 scaled down. *)
EXTENDS Board

MCAsked == {Defaults,
            [Defaults EXCEPT !.freq = 3, !.period = 9, !.duty_u16 = 5],
            [Defaults EXCEPT !.tick_hz = 60, !.freq = 6, !.duty_ticks = 7]}
=============================================================================
