--------------------------- MODULE MCReportTimer ---------------------------
(* ReportTimer for TLC. The configurations choose the bounds: a clock that  *)
(* stops before it wraps or wraps, and a port that takes or refuses reports. *)
EXTENDS ReportTimer
=============================================================================
