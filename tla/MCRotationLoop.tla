--------------------------- MODULE MCRotationLoop ---------------------------
(***************************************************************************)
(* Two days of each kind the calendar tests name: an ordinary session and  *)
(* an early close, an observed holiday, and Good Friday.  The sessions are *)
(* given as those tests give them, not computed.                           *)
(***************************************************************************)
EXTENDS RotationLoop, TLC

\* Christmas Eve 2025, Independence Day 2026 on a Saturday, Good Friday 2024.
MCFirstDates == {Date(2025, 12, 23), Date(2026, 7, 3), Date(2024, 3, 29)}
MCSessions == (Date(2025, 12, 23) :> 960) @@ (Date(2025, 12, 24) :> 780)

MCInstants == <<611, 612, 616, 780, 907, 960>>

\* On every date a behavior reaches.
ASSUME SessionsAgree == CalendarAgrees
=============================================================================
