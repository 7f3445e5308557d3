------------------------------ MODULE MCRunLab -------------------------------
(* Two run_lab3.sh for different images, or two scripts for the crawlers, meet in *)
(* a directory. The lists are the ends of the scripts' own: the loops of          *)
(* run_lab3.sh break for the smaller buffer and not for the larger.               *)
EXTENDS RunLab

CONSTANTS first, second, four, five

Processes == {first, second, four, five}
LabOf     == [s \in Processes |-> CASE s = four -> 4 [] s = five -> 5 [] OTHER -> 3]
ImageOf   == [s \in Processes |-> IF s = first THEN 1 ELSE 2]
Meetings  == {{first, second}, {four, five}}
Buffers   == <<5, 10>>
Workers   == <<1, 10>>
Delays    == <<0>>
Pools     == <<1, 10>>
Quotas    == <<1, 10>>
===============================================================================
