---------------------------- MODULE MCSriovAgent -----------------------------
(***************************************************************************)
(* Small instances of SriovAgent for TLC.                                  *)
(***************************************************************************)
EXTENDS SriovAgent

CONSTANTS d1, d2

TwoDevices == {d1, d2}

(* One of the VFs has a driver that refuses a change of the link state. *)
OneFixed == {d2}

Anywhere == {"scan", "filter", "details", "treat", "report",
             "remove"}

===============================================================================
