--------------------------- MODULE MCEventWriter ---------------------------
(***************************************************************************)
(* Small instances of EventWriter.  Five events of one, two or five bytes  *)
(* against a line limit of four and a log limit of nine: the event count,  *)
(* the line length and the log length all turn an append away somewhere,   *)
(* and the omission count fits the terminal line in some states only.      *)
(***************************************************************************)
EXTENDS EventWriter

MCLineSizes == {1, 2, 5}
AdvisoryFaults == {"receipt", "terminal"}
AllFaults == {"operational", "receipt", "terminal"}
=============================================================================
